-------------------------- MODULE RouteAllocationProofs --------------------------
(***************************************************************************)
(* What RouteAllocation promises, for any number of routes, outbounds,     *)
(* slots and interfaces.                                                   *)
(*                                                                         *)
(* The slots of a plan are a recursion over the IDs of the routes.  Its    *)
(* equation is proved first; that two routes never share a slot follows    *)
(* from it.  That planning again changes nothing follows from a fact about *)
(* the inventory: whatever of the project is installed, what is taken is   *)
(* what other software holds.                                              *)
(***************************************************************************)
EXTENDS RouteAllocation, FiniteSetTheorems, WellFoundedInduction, TLAPS

-------------------------------------------------------------------------------
(* The recursion over route IDs.                                           *)

Less == {pair \in Nat \X Nat : pair[1] < pair[2]}

\* A set of numbers with a member has a least one.
LEMMA LeastElement ==
    ASSUME NEW S, S \subseteq Nat, S # {} PROVE \E m \in S : \A n \in S : m <= n
<1>1. IsWellFoundedOn(Less, Nat)
  BY NatLessThanWellFounded DEF OpToRel, Less
<1>2. PICK m \in S : \A n \in S : <<n, m>> \notin Less
  BY <1>1, WFMin
<1>3. ASSUME NEW n \in S PROVE m <= n
  <2>1. <<n, m>> \in Nat \X Nat /\ <<n, m>>[1] = n /\ <<n, m>>[2] = m
    OBVIOUS
  <2>2. ~(n < m)
    BY <1>2, <2>1 DEF Less
  <2> QED
    BY <2>2
<1> QED
  BY <1>3

Upto(E, n) == {e \in E : e < n}

\* Of the routes before n, those before an earlier one are those before it.
LEMMA UptoFacts ==
    ASSUME NEW E \in SUBSET Nat, NEW n \in Nat
    PROVE  /\ \A e \in Nat : e \in Upto(E, n) <=> e \in E /\ e < n
           /\ Upto(E, n) \subseteq E /\ Upto(E, 0) = {}
           /\ \A m \in Nat : m <= n => Upto(Upto(E, n), m) = Upto(E, m)
<1>1. \A e \in Nat : e \in Upto(E, n) <=> e \in E /\ e < n
  BY DEF Upto
<1>2. Upto(E, 0) = {}
  <2>1. ASSUME NEW e \in E PROVE ~(e < 0)
    <3>1. e \in Nat
      OBVIOUS
    <3> QED
      BY <3>1
  <2> QED
    BY <2>1 DEF Upto
<1>3. ASSUME NEW m \in Nat, m <= n PROVE Upto(Upto(E, n), m) = Upto(E, m)
  <2>1. ASSUME NEW e \in E PROVE e < m => e < n
    <3>1. e \in Nat
      OBVIOUS
    <3> QED
      BY <1>3, <3>1
  <2> QED
    BY <2>1 DEF Upto
<1> QED
  BY <1>1, <1>2, <1>3 DEF Upto

\* What s gives to routes of E before r.
Before(s, E, r) == UNION {s[q] : q \in Upto(E, r)}

\* s solves the recursion over routes E where T is taken.
Assigns(s, E, T) == s = [r \in E |-> Nearest(r, Slots \ (T \cup Before(s, E, r)))]

\* Two solutions agree on the routes up to which their domains do.
LEMMA AssignmentsAgree ==
    ASSUME NEW E \in SUBSET Nat, NEW F \in SUBSET Nat, NEW T, NEW s, NEW t, NEW n \in Nat,
           Assigns(s, E, T), Assigns(t, F, T), Upto(E, n) = Upto(F, n)
    PROVE  \A r \in Upto(E, n) : s[r] = t[r]
<1> DEFINE S == {r \in Upto(E, n) : s[r] # t[r]}
<1> SUFFICES ASSUME S # {} PROVE FALSE
  OBVIOUS
<1>1. PICK m \in S : \A r \in S : m <= r
  <2>1. S \subseteq Nat
    BY DEF Upto
  <2> QED
    BY <2>1, LeastElement
<1>2. m \in E /\ m \in F /\ m < n /\ m \in Nat
  BY <1>1 DEF Upto
<1>3. Upto(E, m) = Upto(F, m)
  <2>1. ASSUME NEW e \in Nat, e < m PROVE e \in E <=> e \in F
    <3>1. e < n
      BY <1>2, <2>1
    <3>2. e \in Upto(E, n) <=> e \in Upto(F, n)
      OBVIOUS
    <3> QED
      BY <3>1, <3>2 DEF Upto
  <2> QED
    BY <2>1 DEF Upto
<1>4. ASSUME NEW q \in Upto(E, m) PROVE s[q] = t[q]
  <2>1. q \in Upto(E, n) /\ q \in Nat /\ q < m
    BY <1>2, <1>4 DEF Upto
  <2> QED
    BY <1>1, <1>2, <2>1
<1>5. Before(s, E, m) = Before(t, F, m)
  BY <1>3, <1>4 DEF Before
<1>6. s[m] = Nearest(m, Slots \ (T \cup Before(s, E, m)))
  BY <1>2 DEF Assigns
<1>7. t[m] = Nearest(m, Slots \ (T \cup Before(t, F, m)))
  BY <1>2 DEF Assigns
<1> QED
  BY <1>1, <1>5, <1>6, <1>7

\* The recursion has a solution up to any route.
LEMMA BoundedAssignmentExists ==
    ASSUME NEW E \in SUBSET Nat, NEW T, NEW n \in Nat
    PROVE  \E s : Assigns(s, Upto(E, n), T)
<1> DEFINE S == {m \in Nat : ~\E s : Assigns(s, Upto(E, m), T)}
<1> SUFFICES ASSUME S # {} PROVE FALSE
  OBVIOUS
<1>1. PICK m \in S : \A k \in S : m <= k
  BY LeastElement
<1>2. m # 0
  <2> DEFINE s == [r \in {} |-> {}]
  <2>1. Upto(E, 0) = {}
    BY UptoFacts
  <2>2. Assigns(s, {}, T)
    BY DEF Assigns
  <2> QED
    BY <1>1, <2>1, <2>2
<1>3. PICK s : Assigns(s, Upto(E, m - 1), T)
  <2>1. m - 1 \in Nat /\ ~(m <= m - 1)
    BY <1>1, <1>2
  <2> QED
    BY <1>1, <2>1
<1> DEFINE D == Upto(E, m)
           last == Nearest(m - 1, Slots \ (T \cup Before(s, Upto(E, m - 1), m - 1)))
           t == [r \in D |-> IF r < m - 1 THEN s[r] ELSE last]
<1>4. ASSUME NEW r \in D PROVE t[r] = Nearest(r, Slots \ (T \cup Before(t, D, r)))
  <2>1. r \in Nat /\ r \in E /\ r < m /\ m \in Nat
    BY <1>1 DEF Upto
  <2>2. Upto(D, r) = Upto(Upto(E, m - 1), r)
    <3>1. m - 1 \in Nat /\ r <= m - 1 /\ r <= m
      BY <1>2, <2>1
    <3> QED
      BY <2>1, <3>1, UptoFacts
  <2>3. \A q \in Upto(D, r) : t[q] = s[q]
    <3>1. ASSUME NEW q \in Upto(D, r) PROVE q \in D /\ q < m - 1
      BY <2>1 DEF Upto
    <3> QED
      BY <3>1
  <2>4. Before(t, D, r) = Before(s, Upto(E, m - 1), r)
    <3> HIDE DEF t, D
    <3> QED
      BY <2>2, <2>3 DEF Before
  <2>5. CASE r < m - 1
    <3>1. r \in Upto(E, m - 1)
      BY <2>1, <2>5 DEF Upto
    <3>2. s[r] = Nearest(r, Slots \ (T \cup Before(s, Upto(E, m - 1), r)))
      BY <1>3, <3>1 DEF Assigns
    <3> QED
      BY <2>4, <2>5, <3>2
  <2>6. CASE r = m - 1
    <3>1. ~(r < m - 1)
      BY <2>1, <2>6
    <3>2. t[r] = last
      BY <3>1
    <3> QED
      BY <2>4, <2>6, <3>2
  <2> QED
    BY <2>1, <2>5, <2>6
<1>5. Assigns(t, D, T)
  <2>1. t = [r \in D |-> t[r]]
    OBVIOUS
  <2> HIDE DEF t, D
  <2> QED
    BY <1>4, <2>1 DEF Assigns
<1> QED
  BY <1>1, <1>5

\* The recursion has a solution.
LEMMA AssignmentExists ==
    ASSUME NEW E \in SUBSET Nat, NEW T PROVE \E s : Assigns(s, E, T)
<1> DEFINE upto(n) == CHOOSE s : Assigns(s, Upto(E, n), T)
           t == [r \in E |-> upto(r + 1)[r]]
<1>1. ASSUME NEW n \in Nat PROVE Assigns(upto(n), Upto(E, n), T)
  BY BoundedAssignmentExists
<1> HIDE DEF upto
<1>2. ASSUME NEW r \in E PROVE t[r] = Nearest(r, Slots \ (T \cup Before(t, E, r)))
  <2>1. r \in Nat /\ r + 1 \in Nat /\ r \in Upto(E, r + 1)
    BY DEF Upto
  <2>2. upto(r + 1)[r] =
            Nearest(r, Slots \ (T \cup Before(upto(r + 1), Upto(E, r + 1), r)))
    BY <1>1, <2>1 DEF Assigns
  <2>3. Upto(Upto(E, r + 1), r) = Upto(E, r)
    BY <2>1, UptoFacts
  <2>4. ASSUME NEW q \in Upto(E, r) PROVE upto(r + 1)[q] = t[q]
    <3>1. q \in E /\ q \in Nat /\ q < r
      BY <2>1, <2>4 DEF Upto
    <3>2. /\ q + 1 \in Nat /\ q \in Upto(Upto(E, q + 1), q + 1)
          /\ Upto(Upto(E, q + 1), q + 1) = Upto(Upto(E, r + 1), q + 1)
      <4>1. q + 1 \in Nat /\ q < q + 1 /\ q + 1 <= r + 1 /\ q + 1 <= q + 1
        BY <2>1, <3>1
      <4> QED
        BY <2>1, <3>1, <4>1, UptoFacts
    <3>3. Upto(E, q + 1) \in SUBSET Nat /\ Upto(E, r + 1) \in SUBSET Nat
      BY DEF Upto
    <3>4. upto(q + 1)[q] = upto(r + 1)[q]
      BY <1>1, <2>1, <3>2, <3>3, AssignmentsAgree
    <3> QED
      BY <3>1, <3>4
  <2>5. Before(upto(r + 1), Upto(E, r + 1), r) = Before(t, E, r)
    <3> HIDE DEF t
    <3> QED
      BY <2>3, <2>4 DEF Before
  <2> QED
    BY <2>2, <2>5
<1>3. Assigns(t, E, T)
  <2>1. t = [r \in E |-> t[r]]
    OBVIOUS
  <2> HIDE DEF t
  <2> QED
    BY <1>2, <2>1 DEF Assigns
<1> QED
  BY <1>3

\* The slots of a plan solve the recursion.
LEMMA SlotsAreAssigned == Assigns(allocatePolicySlot, Enabled, Taken)
<1>1. Enabled \in SUBSET Nat
  BY AllocationAssumption DEF Enabled
<1>2. allocatePolicySlot = CHOOSE s : Assigns(s, Enabled, Taken)
  BY DEF allocatePolicySlot, Assigns, Before, Upto
<1> QED
  BY <1>1, <1>2, AssignmentExists

-------------------------------------------------------------------------------
(* Slots.                                                                  *)

\* The route's slot in the plan.
SlotOf(r) == CHOOSE s \in allocatePolicySlot[r] : TRUE

\* Two routes of a plan share no slot, and none of them has one that is taken.
LEMMA SlotsAreFree ==
    ASSUME Buildable
    PROVE  \A r \in Enabled :
               /\ SlotOf(r) \in Slots \ Taken
               /\ \A q \in Enabled : q # r => SlotOf(q) # SlotOf(r)
<1> DEFINE s == allocatePolicySlot
<1>1. ASSUME NEW r \in Enabled
      PROVE  /\ SlotOf(r) \in s[r] /\ s[r] \subseteq Slots \ (Taken \cup Before(s, Enabled, r))
             /\ r \in Nat
  <2>1. s[r] = Nearest(r, Slots \ (Taken \cup Before(s, Enabled, r)))
    BY SlotsAreAssigned DEF Assigns
  <2>2. s[r] # {}
    BY DEF Buildable
  <2>3. r \in Nat
    BY AllocationAssumption DEF Enabled
  <2> HIDE DEF s
  <2>4. SlotOf(r) \in s[r]
    BY <2>2 DEF SlotOf, s
  <2> QED
    BY <2>1, <2>3, <2>4 DEF Nearest
<1> HIDE DEF s
<1>2. ASSUME NEW r \in Enabled, NEW q \in Enabled, q < r PROVE SlotOf(q) # SlotOf(r)
  <2>1. SlotOf(q) \in Before(s, Enabled, r)
    BY <1>1, <1>2 DEF Before, Upto
  <2> QED
    BY <1>1, <2>1
<1>3. ASSUME NEW r \in Enabled, NEW q \in Enabled, q # r PROVE SlotOf(q) # SlotOf(r)
  <2>1. q < r \/ r < q
    BY <1>1, <1>3
  <2> QED
    BY <1>2, <2>1
<1> QED
  BY <1>1, <1>3

\* What other software holds is taken, whatever of the project is installed.
LEMMA ForeignIsTaken ==
    ASSUME NEW slot \in Slots \ Taken
    PROVE  /\ slot \notin foreign.tables \cup foreign.priorities
           /\ <<"overlapping", slot>> \notin foreign.prefixes
<1>1. slot \notin releaseOwnedResources.tables /\ slot \notin releaseOwnedResources.priorities
  BY DEF Taken
<1>2. slot \notin foreign.tables \cup foreign.priorities
  BY <1>1 DEF releaseOwnedResources
<1>3. ASSUME <<"overlapping", slot>> \in foreign.prefixes PROVE FALSE
  <2> DEFINE p == <<"overlapping", slot>>
  <2>1. p \notin Tunnels
    <3>1. \A x : <<"tunnel", x>> # p
      BY DEF p
    <3> HIDE DEF p
    <3>2. \A r \in Owned : p \notin TunnelsOf(r)
      BY <3>1 DEF TunnelsOf
    <3> QED
      BY <3>2 DEF Tunnels
  <2>2. p \in releaseOwnedResources.prefixes
    BY <1>3, <2>1 DEF releaseOwnedResources, Installed
  <2>3. Overlaps(p, slot)
    BY DEF Overlaps
  <2> QED
    BY <2>2, <2>3 DEF Taken
<1> QED
  BY <1>2, <1>3

\* The routes of a plan, with what each is given.
LEMMA PlanFacts ==
    /\ DOMAIN BuildPlan = Enabled
    /\ \A r \in Enabled : BuildPlan[r] = Intent(r, SlotOf(r))
  BY DEF BuildPlan, SlotOf

\* Only an apply changes the applied routes, and a change of the host or of the desired
\* state is remembered.
LEMMA StepKinds ==
    ASSUME [Next]_vars
    PROVE  \/ Apply
           \/ applied' = applied /\ fresh' = FALSE
           \/ UNCHANGED <<desired, outbound, up, foreign, applied, fresh>>
  BY DEF Next, Edit, ChangeOutbound, ChangeLink, ChangeForeign, Changed, Reboot, Replay, vars

-------------------------------------------------------------------------------
(* Types.                                                                  *)

\* An enabled route is one an administrator may save.
LEMMA EnabledIsDefined ==
    ASSUME TypeOK
    PROVE  \A r \in Enabled : r \in Routes /\ desired[r] \in Definitions
  BY DEF TypeOK, Enabled

\* A member joins or leaves a set of its kind.
LEMMA ToggleFacts == \A S, set, member : set \subseteq S /\ member \in S => Toggle(set, member) \subseteq S
  BY DEF Toggle

\* Every variable keeps its type in every reachable state; the slot of an applied
\* route is one of the slots there are.
THEOREM TypeCorrectness == Spec => []TypeOK
<1>1. Init => TypeOK
  <2> SUFFICES ASSUME Init PROVE TypeOK
    OBVIOUS
  <2>1. Owned = {} /\ changes \in 0..MaxChanges
    BY AllocationAssumption DEF Init, Owned
  <2>2. outbound \in [Outbounds -> {"usable", "unhealthy", "disabled", "off", "unresolved"}]
    BY DEF Init
  <2>3. foreign \in [tables : SUBSET Slots, priorities : SUBSET Slots, prefixes : SUBSET Prefixes]
    BY DEF Init
  <2> QED
    BY <2>1, <2>2, <2>3 DEF Init, TypeOK
<1>2. TypeOK /\ [Next]_vars => TypeOK'
  <2> SUFFICES ASSUME TypeOK, [Next]_vars PROVE TypeOK'
    OBVIOUS
  <2> DEFINE Typed == changes' \in 0..MaxChanges /\ fresh' \in BOOLEAN
  <2>0. Changed => Typed
    <3>1. changes \in 0..MaxChanges /\ MaxChanges \in Nat
      BY AllocationAssumption DEF TypeOK
    <3>2. changes < MaxChanges => changes + 1 \in 0..MaxChanges
      BY <3>1
    <3> QED
      BY <3>2 DEF Changed
  <2> HIDE DEF Typed
  <2>1. CASE Edit
    <3>1. desired' \in [Routes -> Definitions \cup {NoRoute}]
      BY <2>1 DEF TypeOK, Edit
    <3> QED
      BY <2>0, <2>1, <3>1 DEF TypeOK, Edit, Typed, Owned
  <2>2. CASE ChangeOutbound
    <3>1. outbound' \in [Outbounds -> {"usable", "unhealthy", "disabled", "off", "unresolved"}]
      BY <2>2 DEF TypeOK, ChangeOutbound
    <3> QED
      BY <2>0, <2>2, <3>1 DEF TypeOK, ChangeOutbound, Typed, Owned
  <2>3. CASE ChangeLink
    <3>1. up' \subseteq Ingress \cup Natives
      BY <2>3 DEF TypeOK, ChangeLink
    <3> QED
      BY <2>0, <2>3, <3>1 DEF TypeOK, ChangeLink, Typed, Owned
  <2>4. CASE ChangeForeign
    <3>1. foreign' \in [tables : SUBSET Slots, priorities : SUBSET Slots, prefixes : SUBSET Prefixes]
      BY <2>4, ToggleFacts DEF TypeOK, ChangeForeign
    <3> QED
      BY <2>0, <2>4, <3>1 DEF TypeOK, ChangeForeign, Typed, Owned
  <2>5. CASE Apply
    <3>1. Owned' = Enabled
      BY <2>5, PlanFacts DEF Apply, Owned
    <3>2. ASSUME NEW r \in Enabled
          PROVE  applied'[r].slot \in Slots /\ applied'[r].source.kind \in {"interface", "subnet"}
      <4>1. applied'[r] = Intent(r, SlotOf(r)) /\ SlotOf(r) \in Slots
        BY <2>5, PlanFacts, SlotsAreFree DEF Apply
      <4>2. desired[r].source.kind \in {"interface", "subnet"}
        BY EnabledIsDefined, AllocationAssumption
      <4> QED
        BY <4>1, <4>2 DEF Intent
    <3>3. Enabled \subseteq Routes
      BY DEF Enabled
    <3> QED
      BY <2>5, <3>1, <3>2, <3>3 DEF TypeOK, Apply
  <2>6. CASE Reboot
    BY <2>6 DEF TypeOK, Reboot, Owned
  <2>7. CASE Replay
    BY <2>7 DEF TypeOK, Replay, Owned
  <2>8. CASE UNCHANGED vars
    BY <2>8 DEF TypeOK, vars, Owned
  <2> QED
    BY <2>1, <2>2, <2>3, <2>4, <2>5, <2>6, <2>7, <2>8 DEF Next
<1> QED
  BY <1>1, <1>2, PTL DEF Spec

-------------------------------------------------------------------------------
(* The routes in force are alone.                                          *)

\* Routes whose selectors do not overlap share no packet.
LEMMA SelectorsSeparate ==
    ASSUME NEW r, NEW q, NEW s, NEW t, ~selectorsOverlap(r, q)
    PROVE  Packets(Intent(r, s)) \cap Packets(Intent(q, t)) = {}
<1>1. /\ Intent(r, s).ingress = IngressOf(desired[r].source) /\ Intent(r, s).source = desired[r].source
      /\ Intent(q, t).ingress = IngressOf(desired[q].source) /\ Intent(q, t).source = desired[q].source
  BY DEF Intent
<1>2. CASE IngressOf(desired[r].source) # IngressOf(desired[q].source)
  BY <1>1, <1>2 DEF Packets
<1>3. CASE /\ desired[r].source.kind # "interface" /\ desired[q].source.kind # "interface"
           /\ desired[r].source.subnet \cap desired[q].source.subnet = {}
  BY <1>1, <1>3 DEF Packets
<1> QED
  BY <1>2, <1>3 DEF selectorsOverlap

\* Whatever sequence of plans they came from, applied routes share neither a slot nor
\* a packet, and as long as nothing changes they use nothing of other software
\* (allocatePolicySlot, selectorsOverlap and releaseOwnedResources of plan.go).
THEOREM RoutesAreAlone == Spec => []AppliedRoutesAreAlone
<1>1. Init => AppliedRoutesAreAlone
  BY DEF Init, AppliedRoutesAreAlone, Owned
<1>2. AppliedRoutesAreAlone /\ [Next]_vars => AppliedRoutesAreAlone'
  <2> SUFFICES ASSUME AppliedRoutesAreAlone, [Next]_vars PROVE AppliedRoutesAreAlone'
    OBVIOUS
  <2>1. CASE Apply
    <3>1. Owned' = Enabled /\ foreign' = foreign
          /\ \A r \in Enabled : applied'[r] = Intent(r, SlotOf(r)) /\ applied'[r].slot = SlotOf(r)
      BY <2>1, PlanFacts DEF Apply, Owned, Intent
    <3>2. ASSUME NEW r \in Enabled, NEW q \in Enabled, r # q
          PROVE  /\ applied'[r].slot # applied'[q].slot
                 /\ Packets(applied'[r]) \cap Packets(applied'[q]) = {}
      <4>1. ~selectorsOverlap(r, q)
        BY <2>1, <3>2 DEF Apply, Buildable
      <4>2. SlotOf(r) # SlotOf(q)
        BY <2>1, <3>2, SlotsAreFree DEF Apply
      <4> QED
        BY <3>1, <4>1, <4>2, SelectorsSeparate
    <3>3. ASSUME NEW r \in Enabled
          PROVE  /\ applied'[r].slot \notin foreign.tables \cup foreign.priorities
                 /\ <<"overlapping", applied'[r].slot>> \notin foreign.prefixes
      <4>1. SlotOf(r) \in Slots \ Taken
        BY <2>1, SlotsAreFree DEF Apply
      <4> QED
        BY <3>1, <4>1, ForeignIsTaken
    <3> QED
      BY <3>1, <3>2, <3>3 DEF AppliedRoutesAreAlone, Packets
  <2>2. CASE applied' = applied /\ fresh' = FALSE
    BY <2>2 DEF AppliedRoutesAreAlone, Packets, Owned
  <2>3. CASE UNCHANGED <<desired, outbound, up, foreign, applied, fresh>>
    BY <2>3 DEF AppliedRoutesAreAlone, Packets, Owned
  <2> QED
    BY <2>1, <2>2, <2>3, StepKinds
<1> QED
  BY <1>1, <1>2, PTL DEF Spec

-------------------------------------------------------------------------------
(* What was applied can be read back and replayed.                         *)

\* What carries the traffic of a route is a native interface with an outbound of that
\* kind, and an outbound of the route.
LEMMA SelectionFacts ==
    ASSUME NEW d \in Definitions, OutboundsUsable(d)
    PROVE  /\ Selected(d) \in {d.outbound, d.fallback, NoOutbound}
           /\ Selected(d) = NoOutbound => d.policy = "direct"
           /\ Selected(d) # NoOutbound => Selected(d) \in Outbounds
           /\ Selected(d) # NoOutbound /\ Selected(d) # d.outbound =>
                  d.policy = "failover" /\ Selected(d) = d.fallback
           /\ Adapter(d.outbound) = "interface" => Native[Selected(d)] \in Natives
<1>1. /\ d.outbound \in Outbounds /\ d.fallback \in Outbounds \cup {NoOutbound}
      /\ NoOutbound \notin Outbounds
      /\ d.policy = "failover" => d.fallback \in Outbounds
      /\ d.policy \in {"block", "failover", "direct"}
  BY AllocationAssumption
<1>2. \/ Selected(d) = d.outbound
      \/ d.policy = "failover" /\ Selected(d) = d.fallback
      \/ d.policy = "direct" /\ Selected(d) = NoOutbound
  BY DEF Selected
<1>3. ASSUME Adapter(d.outbound) = "interface" PROVE Native[Selected(d)] \in Natives
  <2>1. Selected(d) \in Outbounds
    BY <1>1, <1>2, <1>3 DEF OutboundsUsable
  <2>2. Adapter(Selected(d)) = "interface"
    BY <1>1, <1>2, <1>3 DEF OutboundsUsable
  <2>3. Native[Selected(d)] # NoInterface
    BY <2>2 DEF Adapter
  <2> QED
    BY <2>1, <2>3 DEF Natives
<1> QED
  BY <1>1, <1>2, <1>3

\* A source resolves to one of the places its traffic comes in by.
LEMMA ResolvedSource ==
    ASSUME NEW source, resolveSource(source)
    PROVE  IngressOf(source) \in Matches(source)
<1>1. Matches(source) # {}
  BY FS_EmptySet DEF resolveSource
<1> QED
  BY <1>1 DEF IngressOf

\* The planner writes nothing the validation of the state file refuses.
LEMMA IntentIsValid ==
    ASSUME NEW r, NEW s, desired[r] \in Definitions,
           resolveSource(desired[r].source), OutboundsUsable(desired[r])
    PROVE  Valid(r, Intent(r, s))
<1> DEFINE d == desired[r]
<1>1. /\ Adapter(d.outbound) \in {"sing_box", "interface"}
      /\ d.policy = "failover" <=> d.fallback # NoOutbound
      /\ d.fallback # d.outbound
  BY AllocationAssumption DEF Adapter
<1>2. d.source.kind = "interface" => d.source.interface = IngressOf(d.source)
  BY ResolvedSource DEF Matches
<1>3. /\ Selected(d) = NoOutbound => d.policy = "direct"
      /\ Selected(d) # NoOutbound => Selected(d) \in Outbounds
      /\ Selected(d) # NoOutbound /\ Selected(d) # d.outbound =>
             d.policy = "failover" /\ Selected(d) = d.fallback
      /\ Adapter(d.outbound) = "interface" => Native[Selected(d)] \in Natives
  BY SelectionFacts
<1> HIDE DEF d
<1> DEFINE i == Intent(r, s)
<1>4. /\ i.source = d.source /\ i.ingress = IngressOf(d.source) /\ i.adapter = Adapter(d.outbound)
      /\ i.tunnel = IF Adapter(d.outbound) = "interface" THEN Native[Selected(d)] ELSE r
      /\ i.outbound = d.outbound /\ i.fallback = d.fallback /\ i.policy = d.policy
      /\ i.selected = Selected(d)
  BY DEF Intent, d
<1>5. /\ i.addressed = (Adapter(d.outbound) = "sing_box")
      /\ i.direct = (Selected(d) = NoOutbound)
  BY DEF Intent, d
<1> HIDE DEF i
<1>6. /\ i.adapter = "sing_box" => i.tunnel = r /\ i.addressed
      /\ i.adapter = "interface" => i.tunnel \in Natives /\ ~i.addressed
  BY <1>3, <1>4, <1>5
<1>7. IF i.direct
      THEN i.policy = "direct" /\ i.selected = NoOutbound
      ELSE /\ i.selected \in Outbounds
           /\ i.selected # i.outbound => i.policy = "failover" /\ i.selected = i.fallback
  BY <1>3, <1>4, <1>5
<1>8. Valid(r, i)
  BY <1>1, <1>2, <1>4, <1>6, <1>7 DEF Valid
<1> QED
  BY <1>8 DEF i

\* What the planner writes, the daemon can read back, and replay on the host it was
\* planned for (BuildReconciliationPlan and RouteIntent.Validate).
THEOREM AppliedIsReplayable == Spec => []AppliedCanBeReplayed
<1>1. Init => AppliedCanBeReplayed
  BY DEF Init, AppliedCanBeReplayed
<1>2. TypeOK /\ AppliedCanBeReplayed /\ [Next]_vars => AppliedCanBeReplayed'
  <2> SUFFICES ASSUME TypeOK, AppliedCanBeReplayed, [Next]_vars PROVE AppliedCanBeReplayed'
    OBVIOUS
  <2>1. CASE Apply
    <3>1. /\ Owned' = Enabled /\ foreign' = foreign /\ up' = up
          /\ \A r \in Enabled : applied'[r] = Intent(r, SlotOf(r))
      BY <2>1, PlanFacts DEF Apply, Owned
    <3>2. ASSUME NEW r \in Enabled
          PROVE  /\ Valid(r, applied'[r])
                 /\ resolveSource(applied'[r].source)
                 /\ IngressOf(applied'[r].source) = applied'[r].ingress
                 /\ applied'[r].slot \notin foreign.tables \cup foreign.priorities
      <4>1. resolveSource(desired[r].source) /\ OutboundsUsable(desired[r])
        BY <2>1 DEF Apply, Buildable
      <4>2. desired[r] \in Definitions /\ SlotOf(r) \in Slots \ Taken
        BY <2>1, EnabledIsDefined, SlotsAreFree DEF Apply
      <4>3. /\ Intent(r, SlotOf(r)).source = desired[r].source
            /\ Intent(r, SlotOf(r)).slot = SlotOf(r)
            /\ Intent(r, SlotOf(r)).ingress = IngressOf(desired[r].source)
        BY DEF Intent
      <4>4. Valid(r, Intent(r, SlotOf(r)))
        BY <4>1, <4>2, IntentIsValid
      <4>5. SlotOf(r) \notin foreign.tables \cup foreign.priorities
        BY <4>2, ForeignIsTaken
      <4>6. applied'[r] = Intent(r, SlotOf(r))
        BY <3>1
      <4> QED
        BY <4>1, <4>3, <4>4, <4>5, <4>6
    <3> QED
      BY <3>1, <3>2 DEF AppliedCanBeReplayed, Replayable, resolveSource, IngressOf, Matches, Safe
  <2>2. CASE applied' = applied /\ fresh' = FALSE
    BY <2>2 DEF AppliedCanBeReplayed
  <2>3. CASE UNCHANGED <<desired, outbound, up, foreign, applied, fresh>>
    BY <2>3 DEF AppliedCanBeReplayed, Replayable, resolveSource, IngressOf, Matches, Safe, Owned
  <2> QED
    BY <2>1, <2>2, <2>3, StepKinds
<1> QED
  BY <1>1, <1>2, TypeCorrectness, PTL DEF Spec

-------------------------------------------------------------------------------
(* Planning again changes nothing.                                         *)

NoForeignTunnel == {p \in foreign.prefixes : p[1] = "tunnel"} = {}

\* What other software holds.
HeldByOthers ==
    {s \in Slots : \/ s \in foreign.tables \/ s \in foreign.priorities
                   \/ \E p \in foreign.prefixes : Overlaps(p, s)}

TakenOK == NoForeignTunnel => Taken = HeldByOthers

\* What is taken does not depend on what the project has applied, or on whether it is
\* installed.
LEMMA TakenIsHeldByOthers == TakenOK
<1> USE DEF TakenOK
<1> SUFFICES ASSUME NoForeignTunnel PROVE Taken = HeldByOthers
  OBVIOUS
<1> DEFINE used == releaseOwnedResources
<1>1. used.tables = foreign.tables /\ used.priorities = foreign.priorities
  BY DEF releaseOwnedResources, Installed
<1>2. used.prefixes = foreign.prefixes
  <2>1. \A p \in Tunnels : p[1] = "tunnel"
    <3>1. \A r \in Owned : \A p \in TunnelsOf(r) : p[1] = "tunnel"
      BY DEF TunnelsOf
    <3> QED
      BY <3>1 DEF Tunnels
  <2>2. foreign.prefixes \cap Tunnels = {}
    BY <2>1 DEF NoForeignTunnel
  <2>3. used.prefixes = (foreign.prefixes \cup Installed(Tunnels)) \ Installed(Tunnels)
    BY DEF releaseOwnedResources
  <2> QED
    BY <2>2, <2>3 DEF Installed
<1> HIDE DEF used
<1>3. Taken = {s \in Slots : \/ s \in used.tables \/ s \in used.priorities
                             \/ \E p \in used.prefixes : Overlaps(p, s)}
  BY DEF Taken, used
<1> QED
  BY <1>1, <1>2, <1>3 DEF HeldByOthers

\* So it is after a step.
LEMMA TakenIsHeldByOthersNext == TakenOK'
  BY TakenIsHeldByOthers, PTL

\* A plan depends on the desired routes, the outbounds, the links and what is taken.
LEMMA PlanDependsOn ==
    ASSUME UNCHANGED <<desired, outbound, up>>, Taken' = Taken
    PROVE  Buildable' = Buildable /\ BuildPlan' = BuildPlan
<1>1. Enabled' = Enabled
  BY DEF Enabled
<1>2. allocatePolicySlot' = allocatePolicySlot
  BY <1>1 DEF allocatePolicySlot
<1>3. BuildPlan' = BuildPlan
  BY <1>1, <1>2 DEF BuildPlan, Intent, IngressOf, Matches, Selected
<1>4. Buildable' = Buildable
  BY <1>1, <1>2 DEF Buildable, resolveSource, Safe, Matches, OutboundsUsable, Usable,
     endpointAddresses, LinkUp, Selected, selectorsOverlap, IngressOf
<1> QED
  BY <1>3, <1>4

\* Planning again what was just applied gives the same candidate, before a reboot has
\* removed it from the host and after (releaseOwnedResources).
THEOREM PlansAreStable == Spec => []ReplanIsStable
<1>1. Init => ReplanIsStable
  BY DEF Init, ReplanIsStable
<1>2. ReplanIsStable /\ [Next]_vars => ReplanIsStable'
  <2> SUFFICES ASSUME ReplanIsStable, [Next]_vars, fresh', NoForeignTunnel'
               PROVE  Buildable' /\ BuildPlan' = applied'
    BY DEF ReplanIsStable, NoForeignTunnel
  <2>1. ASSUME UNCHANGED <<desired, outbound, up, foreign>>
        PROVE  Buildable' = Buildable /\ BuildPlan' = BuildPlan /\ NoForeignTunnel
    <3>1. NoForeignTunnel /\ HeldByOthers' = HeldByOthers
      BY <2>1 DEF NoForeignTunnel, HeldByOthers
    <3>2. Taken' = HeldByOthers'
      BY TakenIsHeldByOthersNext DEF TakenOK
    <3>3. Taken' = Taken
      BY <3>1, <3>2, TakenIsHeldByOthers DEF TakenOK
    <3> QED
      BY <2>1, <3>1, <3>3, PlanDependsOn
  <2>2. CASE Apply
    <3>1. UNCHANGED <<desired, outbound, up, foreign>> /\ Buildable /\ applied' = BuildPlan
      BY <2>2 DEF Apply
    <3> QED
      BY <2>1, <3>1
  <2>3. CASE applied' = applied /\ fresh' = FALSE
    BY <2>3
  <2>4. CASE UNCHANGED <<desired, outbound, up, foreign, applied, fresh>>
    <3>1. fresh /\ Buildable' = Buildable /\ BuildPlan' = BuildPlan /\ NoForeignTunnel
      BY <2>1, <2>4
    <3>2. Buildable /\ BuildPlan = applied
      BY <3>1 DEF ReplanIsStable, NoForeignTunnel
    <3> QED
      BY <2>4, <3>1, <3>2
  <2> QED
    BY <2>2, <2>3, <2>4, StepKinds
<1> QED
  BY <1>1, <1>2, PTL DEF Spec

-------------------------------------------------------------------------------
(* The probe.                                                              *)

\* How far a slot is from the start of the probe.
LEMMA DistanceFacts ==
    ASSUME NEW r \in Routes, NEW slot \in Slots
    PROVE  /\ Distance(r, slot) = IF slot >= Start[r] THEN slot - Start[r]
                                  ELSE slot + MaximumRoutes - Start[r]
           /\ Distance(r, slot) \in Nat
<1> DEFINE M == MaximumRoutes
           x == slot + M - Start[r]
<1>1. M \in Nat \ {0} /\ Start[r] \in 0..(M - 1) /\ slot \in 0..(M - 1)
  BY AllocationAssumption DEF Slots
<1>2. ASSUME NEW n \in 0..(M - 1) PROVE n % M = n /\ (n + M) % M = n
  BY <1>1
<1>3. CASE slot >= Start[r]
  <2>1. slot - Start[r] \in 0..(M - 1) /\ x = (slot - Start[r]) + M
    BY <1>1, <1>3
  <2> QED
    BY <1>1, <1>2, <1>3, <2>1 DEF Distance
<1>4. CASE ~(slot >= Start[r])
  <2>1. x \in 0..(M - 1)
    BY <1>1, <1>4
  <2> QED
    BY <1>1, <1>2, <1>4, <2>1 DEF Distance
<1> QED
  BY <1>3, <1>4

\* As long as any slot is free the probe of a route finds one, and only one: the plan
\* chooses nothing, and a route fails for want of a slot only when all are in use
\* (allocatePolicySlot of plan.go).
THEOREM ProbeFindsOneSlot ==
    ASSUME NEW r \in Routes, NEW free \in SUBSET Slots, free # {}
    PROVE  \E slot \in free : Nearest(r, free) = {slot}
<1> DEFINE S == {Distance(r, slot) : slot \in free}
<1>1. PICK d \in S : \A e \in S : d <= e
  <2>1. S \subseteq Nat /\ S # {}
    BY DistanceFacts
  <2> QED
    BY <2>1, LeastElement
<1>2. PICK slot \in free : Distance(r, slot) = d
  BY <1>1
<1>3. slot \in Nearest(r, free)
  BY <1>1, <1>2 DEF Nearest
<1>4. ASSUME NEW other \in Nearest(r, free) PROVE other = slot
  <2>1. other \in Slots /\ slot \in Slots /\ Distance(r, other) = Distance(r, slot)
    <3>1. Distance(r, other) <= Distance(r, slot) /\ Distance(r, slot) <= Distance(r, other)
      BY <1>3, <1>4 DEF Nearest
    <3>2. other \in free
      BY DEF Nearest
    <3> QED
      BY <3>1, <3>2, DistanceFacts
  <2>2. MaximumRoutes \in Nat \ {0} /\ Start[r] \in 0..(MaximumRoutes - 1)
    BY AllocationAssumption DEF Slots
  <2> QED
    BY <2>1, <2>2, DistanceFacts DEF Slots
<1> QED
  BY <1>3, <1>4

===============================================================================

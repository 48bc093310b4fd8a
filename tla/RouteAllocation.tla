---------------------------- MODULE RouteAllocation ----------------------------
(***************************************************************************)
(* How enabled routes get what they use of the host: an ingress, an        *)
(* outbound, and a slot, which is a routing table, a rule priority and a   *)
(* pair of tunnel prefixes (internal/routing/plan.go), and how the last    *)
(* applied assignment is read back and replayed after a restart            *)
(* (internal/routing/reconcile.go).                                        *)
(*                                                                         *)
(* A plan is a function of the desired routes, of the inventory of the     *)
(* host, which shows what is applied beside what is foreign, and of the    *)
(* applied state file; applying it makes it part of the next plan's input. *)
(* The steps of an apply are in RouteEngine, the reads of desired state in *)
(* DesiredState.                                                           *)
(***************************************************************************)
EXTENDS Naturals, FiniteSets, FiniteSetsExt

CONSTANTS
    Routes,        \* route IDs, as numbers in their order
    Outbounds,     \* outbound IDs
    Native,        \* Native[o]: the interface of a native outbound, or NoInterface
    MaximumRoutes, \* the number of slots
    Start,         \* Start[r]: the slot the hash of the ID points to
    Ingress,       \* interfaces with an address that traffic comes in by
    Carries,       \* Carries[i]: the addresses behind interface i
    Protected,     \* the management addresses
    Definitions,   \* the routes an administrator may save
    NoRoute, NoInterface, NoOutbound,
    MaxChanges     \* bound on edits and on changes of the host

Slots == 0..(MaximumRoutes - 1)

ASSUME AllocationAssumption ==
    /\ Routes \subseteq Nat /\ MaximumRoutes \in Nat \ {0}
    /\ Start \in [Routes -> Slots]
    /\ DOMAIN Native = Outbounds /\ DOMAIN Carries = Ingress
    /\ NoOutbound \notin Outbounds
    /\ NoRoute \notin Definitions /\ MaxChanges \in Nat
    /\ \A d \in Definitions :
          /\ d.source.kind \in {"interface", "subnet"}
          /\ d.outbound \in Outbounds /\ d.fallback \in Outbounds \cup {NoOutbound}
          /\ d.policy \in {"block", "failover", "direct"}
          /\ d.policy = "failover" <=> d.fallback # NoOutbound
          /\ d.fallback # d.outbound

VARIABLES
    desired,   \* desired[r]: the enabled route, or NoRoute
    outbound,  \* outbound[o]: its row and what its endpoint resolves to
    up,        \* the interfaces that are up, of outbounds those that are there
    foreign,   \* tables, priorities and prefixes of other software
    applied,   \* the applied state file: its routes
    runtime,   \* the applied rules, routes and tunnels are installed
    changes,
    fresh      \* history: nothing but reboots and replays since the last apply

vars == <<desired, outbound, up, foreign, applied, runtime, changes, fresh>>

-------------------------------------------------------------------------------
(* The inventory.                                                          *)

\* A prefix is a slot's own tunnel prefix or another one that overlaps it.
Prefixes == {"tunnel", "overlapping"} \X Slots
Overlaps(prefix, slot) == prefix[2] = slot

Natives == {Native[o] : o \in Outbounds} \ {NoInterface}
Adapter(o) == IF Native[o] = NoInterface THEN "sing_box" ELSE "interface"
Owned == DOMAIN applied
TunnelsOf(r) == IF applied[r].addressed THEN {<<"tunnel", applied[r].slot>>} ELSE {}
Tunnels == UNION {TunnelsOf(r) : r \in Owned}
AppliedSlots == {applied[r].slot : r \in Owned}

Installed(set) == IF runtime THEN set ELSE {}

\* Faulty variant: nothing is released.
unreleasedResources ==
    [tables     |-> foreign.tables \cup Installed(AppliedSlots),
     priorities |-> foreign.priorities \cup Installed(AppliedSlots),
     prefixes   |-> foreign.prefixes \cup Installed(Tunnels)]

\* What "ip rule" and "ip route" show, less what the applied routes may reuse: tables
\* and priorities without a foreign rule or route, prefixes of interfaces of ours.
releaseOwnedResources ==
    [tables     |-> (foreign.tables \cup Installed(AppliedSlots))
                        \ {s \in AppliedSlots : s \notin foreign.tables},
     priorities |-> (foreign.priorities \cup Installed(AppliedSlots))
                        \ {s \in AppliedSlots : s \notin foreign.priorities},
     prefixes   |-> (foreign.prefixes \cup Installed(Tunnels)) \ Installed(Tunnels)]

Taken == LET used == releaseOwnedResources
         IN  {s \in Slots : \/ s \in used.tables \/ s \in used.priorities
                            \/ \E p \in used.prefixes : Overlaps(p, s)}

-------------------------------------------------------------------------------
(* BuildPlan.                                                              *)

Enabled == {r \in Routes : desired[r] # NoRoute}

\* Where traffic of a source comes in.
Matches(source) ==
    IF source.kind = "interface" THEN {source.interface} \cap up
    ELSE {i \in Ingress \cap up : Carries[i] \cap source.subnet # {}}

Safe(source) == IF source.kind = "interface"
                THEN Carries[source.interface] \cap Protected = {}
                ELSE source.subnet \cap Protected = {}

resolveSource(source) == Safe(source) /\ Cardinality(Matches(source)) = 1
IngressOf(source) == CHOOSE i \in Matches(source) : TRUE

\* Faulty variant: a subnet beside a route of its whole interface does not overlap.
subnetsOverlap(r, q) ==
    /\ IngressOf(desired[r].source) = IngressOf(desired[q].source)
    /\ desired[r].source.kind = desired[q].source.kind
    /\ \/ desired[r].source.kind = "interface"
       \/ desired[r].source.subnet \cap desired[q].source.subnet # {}

selectorsOverlap(r, q) ==
    /\ IngressOf(desired[r].source) = IngressOf(desired[q].source)
    /\ \/ desired[r].source.kind = "interface" \/ desired[q].source.kind = "interface"
       \/ desired[r].source.subnet \cap desired[q].source.subnet # {}

\* An endpoint that does not resolve to a usable address fails the plan.
endpointAddresses(o) == outbound[o] # "unresolved"
Usable(o) == outbound[o] # "off" /\ endpointAddresses(o)

OutboundsUsable(d) ==
    /\ Usable(d.outbound)
    /\ Adapter(d.outbound) = "interface" => d.policy # "direct"
    /\ d.policy = "failover" =>
          Usable(d.fallback) /\ Adapter(d.fallback) = Adapter(d.outbound)

\* The outbound that carries the traffic now; NoOutbound is direct.
Selected(d) ==
    IF outbound[d.outbound] # "unhealthy" THEN d.outbound
    ELSE IF d.policy = "failover" /\ outbound[d.fallback] = "usable" THEN d.fallback
    ELSE IF d.policy = "direct" THEN NoOutbound
    ELSE d.outbound

LinkUp(d) == Adapter(d.outbound) = "interface" => Native[Selected(d)] \in up

\* The first free slot from the one the hash points to; none when all are taken.
Distance(r, slot) == (slot + MaximumRoutes - Start[r]) % MaximumRoutes

\* Faulty variant: the probe runs on past the last slot.
NearestUnwrapped(r, free) ==
    {Start[r] + Distance(r, s) :
        s \in {t \in free : \A other \in free : Distance(r, t) <= Distance(r, other)}}

Nearest(r, free) == {s \in free : \A other \in free : Distance(r, s) <= Distance(r, other)}

\* Routes are given slots in the order of their IDs, so what is free for one depends
\* on those before it.
allocatePolicySlot ==
    LET slots[r \in Enabled] ==
            Nearest(r, Slots \ (Taken \cup UNION {slots[q] : q \in {e \in Enabled : e < r}}))
    IN  slots

Buildable ==
    /\ \A r \in Enabled :
          /\ resolveSource(desired[r].source) /\ OutboundsUsable(desired[r]) /\ LinkUp(desired[r])
          /\ allocatePolicySlot[r] # {}
    /\ \A r, q \in Enabled : r # q => ~selectorsOverlap(r, q)

\* Faulty variant: a native route keeps the tunnel addresses of its slot.
IntentWithAddresses(r, slot) ==
    LET d == desired[r]
    IN  [source |-> d.source, ingress |-> IngressOf(d.source), slot |-> slot,
         tunnel |-> IF Adapter(d.outbound) = "interface" THEN Native[Selected(d)] ELSE r,
         adapter |-> Adapter(d.outbound), addressed |-> TRUE,
         outbound |-> d.outbound, fallback |-> d.fallback, policy |-> d.policy,
         selected |-> Selected(d), direct |-> Selected(d) = NoOutbound]

Intent(r, slot) ==
    LET d == desired[r]
    IN  [source |-> d.source, ingress |-> IngressOf(d.source), slot |-> slot,
         tunnel |-> IF Adapter(d.outbound) = "interface" THEN Native[Selected(d)] ELSE r,
         adapter |-> Adapter(d.outbound), addressed |-> Adapter(d.outbound) = "sing_box",
         outbound |-> d.outbound, fallback |-> d.fallback, policy |-> d.policy,
         selected |-> Selected(d), direct |-> Selected(d) = NoOutbound]

BuildPlan == LET slots == allocatePolicySlot
             IN  [r \in Enabled |-> Intent(r, CHOOSE s \in slots[r] : TRUE)]

-------------------------------------------------------------------------------
(* The applied state file.                                                 *)

\* RouteIntent.Validate, which ParseState asks of every route it reads back.
Valid(r, intent) ==
    /\ intent.adapter = "sing_box" => intent.tunnel = r /\ intent.addressed
    /\ intent.adapter = "interface" => intent.tunnel \in Natives /\ ~intent.addressed
    /\ IF intent.direct
       THEN intent.policy = "direct" /\ intent.selected = NoOutbound
       ELSE /\ intent.selected \in Outbounds
            /\ intent.selected # intent.outbound =>
                  intent.policy = "failover" /\ intent.selected = intent.fallback
    /\ intent.policy = "failover" <=> intent.fallback # NoOutbound
    /\ intent.fallback # intent.outbound
    /\ intent.source.kind = "interface" => intent.source.interface = intent.ingress

\* BuildReconciliationPlan: the sources still come in where they did and nothing
\* foreign has moved in.
Replayable ==
    \A r \in Owned :
        /\ Valid(r, applied[r])
        /\ resolveSource(applied[r].source) /\ IngressOf(applied[r].source) = applied[r].ingress
        /\ applied[r].slot \notin foreign.tables \cup foreign.priorities

-------------------------------------------------------------------------------
(* Steps.                                                                  *)

TypeOK ==
    /\ desired \in [Routes -> Definitions \cup {NoRoute}]
    /\ outbound \in [Outbounds -> {"usable", "unhealthy", "disabled", "off", "unresolved"}]
    /\ up \subseteq Ingress \cup Natives
    /\ foreign \in [tables : SUBSET Slots, priorities : SUBSET Slots, prefixes : SUBSET Prefixes]
    /\ Owned \subseteq Routes
    /\ \A r \in Owned : applied[r].slot \in Slots /\ applied[r].source.kind \in {"interface", "subnet"}
    /\ runtime \in BOOLEAN /\ changes \in 0..MaxChanges /\ fresh \in BOOLEAN

Init ==
    /\ desired \in [Routes -> Definitions \cup {NoRoute}]
    /\ outbound = [o \in Outbounds |-> "usable"]
    /\ up = Ingress \cup Natives
    /\ foreign = [tables |-> {}, priorities |-> {}, prefixes |-> {}]
    /\ applied = <<>> /\ runtime = FALSE
    /\ changes = 0 /\ fresh = FALSE

Changed == changes < MaxChanges /\ changes' = changes + 1 /\ fresh' = FALSE

\* The daemon starts with the routes of its database and nothing applied; a route is
\* saved, enabled, changed, disabled or deleted.
Edit ==
    /\ Changed
    /\ \E r \in Routes : \E d \in (Definitions \cup {NoRoute}) \ {desired[r]} :
          desired' = [desired EXCEPT ![r] = d]
    /\ UNCHANGED <<outbound, up, foreign, applied, runtime>>

\* A test writes health back, an outbound is disabled, a name stops resolving.
ChangeOutbound ==
    /\ Changed
    /\ \E o \in Outbounds :
       \E now \in {"usable", "unhealthy", "disabled", "off", "unresolved"} \ {outbound[o]} :
          outbound' = [outbound EXCEPT ![o] = now]
    /\ UNCHANGED <<desired, up, foreign, applied, runtime>>

ChangeLink ==
    /\ Changed
    /\ \E i \in Ingress \cup Natives : up' = IF i \in up THEN up \ {i} ELSE up \cup {i}
    /\ UNCHANGED <<desired, outbound, foreign, applied, runtime>>

Toggle(set, member) == IF member \in set THEN set \ {member} ELSE set \cup {member}

ChangeForeign ==
    /\ Changed
    /\ \/ \E s \in Slots : foreign' = [foreign EXCEPT !.tables = Toggle(@, s)]
       \/ \E s \in Slots : foreign' = [foreign EXCEPT !.priorities = Toggle(@, s)]
       \/ \E p \in Prefixes : foreign' = [foreign EXCEPT !.prefixes = Toggle(@, p)]
    /\ UNCHANGED <<desired, outbound, up, applied, runtime>>

\* A reviewed plan is applied: the state file and the runtime are the candidate's.
Apply ==
    /\ Buildable
    /\ applied' = BuildPlan /\ runtime' = TRUE /\ fresh' = TRUE
    /\ UNCHANGED <<desired, outbound, up, foreign, changes>>

\* A reboot leaves the state file only.
Reboot ==
    /\ runtime /\ runtime' = FALSE
    /\ UNCHANGED <<desired, outbound, up, foreign, applied, changes, fresh>>

\* Startup replays the applied state, never pending edits, or is degraded.
Replay ==
    /\ ~runtime /\ Owned # {} /\ Replayable
    /\ runtime' = TRUE
    /\ UNCHANGED <<desired, outbound, up, foreign, applied, changes, fresh>>

Next == \/ Edit \/ ChangeOutbound \/ ChangeLink \/ ChangeForeign
        \/ Apply \/ Reboot \/ Replay

Spec == Init /\ [][Next]_vars

-------------------------------------------------------------------------------
(* Properties.                                                             *)

\* The traffic of a route, as packets on an interface.
Packets(intent) ==
    {<<intent.ingress, a>> : a \in IF intent.source.kind = "interface"
                                   THEN Carries[intent.ingress] ELSE intent.source.subnet}

\* Applied routes share neither a slot nor a packet, whatever sequence of plans they
\* came from, and while nothing changes none of them uses a table, priority or prefix
\* of other software.  A foreign prefix that equals the prefix of a tunnel of ours is
\* the exception: the planner cannot tell them apart (plan.go:591).
AppliedRoutesAreAlone ==
    /\ \A r, q \in Owned : r # q =>
          /\ applied[r].slot # applied[q].slot
          /\ Packets(applied[r]) \cap Packets(applied[q]) = {}
    /\ fresh => \A r \in Owned :
          /\ applied[r].slot \notin foreign.tables \cup foreign.priorities
          /\ <<"overlapping", applied[r].slot>> \notin foreign.prefixes

\* Planning again what was just applied gives the same candidate: what the project
\* itself has put on the host does not count as foreign, before a reboot has removed
\* it and after, so "nothing to do" is recognized and a review can be applied.
ReplanIsStable ==
    fresh /\ {p \in foreign.prefixes : p[1] = "tunnel"} = {}
        => Buildable /\ BuildPlan = applied

\* What the planner writes, the daemon can read back and replay on the host it was
\* planned for ("reconstruct the route transaction from validated applied routing",
\* docs/adr/0003-applied-route-reconciliation.md:20).
AppliedCanBeReplayed == fresh => Replayable

===============================================================================

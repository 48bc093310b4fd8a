-------------------------- MODULE AtomicConfiguration --------------------------
(***************************************************************************)
(* What the transaction protocol promises, without any of its machinery:   *)
(* each component has a history of configurations, the last of which is in *)
(* force.  An apply puts a proposed configuration in force or changes      *)
(* nothing, and a rollback returns to the configuration before it.  Only a *)
(* restore that gives up, or the document a restore relies on turning into *)
(* another, loses track of the configuration in force, and even then never *)
(* of one further down in the history.  Crashes, journal states, files and *)
(* services are not visible.                                               *)
(***************************************************************************)
EXTENDS Naturals, Sequences

CONSTANTS
    Components,
    Files,       \* configurations, the absence of one included
    Absent,      \* no configuration
    Unknown      \* what an incomplete or misled restore leaves behind

VARIABLES
    history,    \* history[c]: the configurations of c, the last one in force
    proposals   \* the reviewed changes, as <<component, configuration>>

vars == <<history, proposals>>

Front(s) == SubSeq(s, 1, Len(s) - 1)

Init ==
    /\ history = [c \in Components |-> <<Absent>>]
    /\ proposals = {}

Propose(c, content) ==
    /\ proposals' = proposals \cup {<<c, content>>}
    /\ UNCHANGED history

Apply(c, content) ==
    /\ <<c, content>> \in proposals
    /\ history' = [history EXCEPT ![c] = Append(@, content)]
    /\ UNCHANGED proposals

Undo(c) ==
    /\ Len(history[c]) > 1
    /\ history' = [history EXCEPT ![c] = Front(@)]
    /\ UNCHANGED proposals

\* An incomplete restore, of the configuration in force or of its predecessor.
Lose(c) ==
    /\ \E kept \in {history[c], Front(history[c])} :
           /\ kept # << >>
           /\ history' = [history EXCEPT ![c] = Append(Front(kept), Unknown)]
    /\ UNCHANGED proposals

Next ==
    \E c \in Components :
        \/ Undo(c)
        \/ Lose(c)
        \/ \E content \in Files : Propose(c, content) \/ Apply(c, content)

Spec == Init /\ [][Next]_vars

===============================================================================

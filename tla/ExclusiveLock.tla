----------------------------- MODULE ExclusiveLock -----------------------------
(***************************************************************************)
(* What the host mutation lock promises to the modules that take it in one *)
(* step (HostTransaction, RouteEngine, InterfaceOutbound, NatTransaction): *)
(* nobody or one task holds it, it is taken when it is free, and it is     *)
(* given up by its holder or by the death of the daemon.                   *)
(***************************************************************************)
CONSTANTS Tasks, Nobody

VARIABLE holder

Init == holder = Nobody

Acquire(t) == holder = Nobody /\ holder' = t

Release == holder # Nobody /\ holder' = Nobody

Next == Release \/ \E t \in Tasks : Acquire(t)

Spec == Init /\ [][Next]_holder

===============================================================================

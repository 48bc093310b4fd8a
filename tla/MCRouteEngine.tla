---------------------------- MODULE MCRouteEngine ----------------------------
(* Small instances of RouteEngine for TLC. *)
EXTENDS RouteEngine, TLC

CONSTANTS r1, r2

AllDocuments == SUBSET {r1, r2} \ {{}}

\* Routes are never compared with a particular value.
Symmetry == Permutations(Routes)
===============================================================================

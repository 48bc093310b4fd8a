-------------------------- MODULE MCInterfaceOutbound --------------------------
(* Small instances of InterfaceOutbound for TLC. *)
EXTENDS InterfaceOutbound, TLC

CONSTANTS v1, v2

\* No formula names a particular version.
Symmetry == Permutations(Versions)
===============================================================================

--------------------------- MODULE MCNatTransaction ---------------------------
(* Small instances of NatTransaction for TLC. *)
EXTENDS NatTransaction, TLC

CONSTANTS r1, r2, ipv4, ipv6

\* No formula names a particular family or set of forwards.
Symmetry == Permutations(Forwards) \cup Permutations(Families)
===============================================================================

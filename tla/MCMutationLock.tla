----------------------------- MODULE MCMutationLock -----------------------------
(* Small instances of MutationLock for TLC. *)
EXTENDS MutationLock

CONSTANTS r1, r2, s1
===============================================================================

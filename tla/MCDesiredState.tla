--------------------------- MODULE MCDesiredState ---------------------------
(* Two administrators, two identifiers per table, pages of one row. *)
EXTENDS DesiredState, TLC

CONSTANTS a1, a2, none, direct, sboxA, sboxB, xrayA, n1, n2, src

MCRouteImports == (1 :> sboxA) @@ (2 :> sboxB)
MCRelayImports == (1 :> xrayA) @@ (2 :> sboxA)
MCInitialName == (1 :> n1) @@ (2 :> n2)

\* A plain route over either outbound, and one that fails over.
MCRouteDocs ==
  { [source |-> src, outbound |-> 1, fallback |-> f, policy |-> p, enabled |-> e] :
      f \in {none, 2}, p \in {"block", "failover"}, e \in BOOLEAN }

Symmetry == Permutations({a1, a2})

==============================================================================

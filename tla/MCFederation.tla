---------------------------- MODULE MCFederation ----------------------------
(* Model-checking instance of Federation: two requests of two references and *)
(* two threads each, and room for one backend, so that the threads evict     *)
(* each other's.                                                             *)
EXTENDS Federation, TLC

CONSTANTS r1, r2, n0, n1, n2, g0, g1, g2, a, b, c

MCRequests == {r1, r2}
MCNames    == {n0, n1, n2}
MCGraphs   == {g0, g1, g2}
MCEntities == {a, b, c}

MCSymmetry == Permutations(MCRequests)

MCRef(n, g, w) == [name |-> n, graph |-> g, weight |-> w]

\* An entity link names the graphs, a federated search asks for the primary's
\* graph under every name: n2 is asked for with both.
MCRefLists ==
  {<<MCRef(n1, g1, 2), MCRef(n2, g2, 1)>>, <<MCRef(n0, g0, 1), MCRef(n2, g0, 2)>>}

MCSetups == {[n \in MCNames |-> None], [n \in MCNames |-> IF n = n2 THEN g2 ELSE None]}

MCHit(e, x) == [entity |-> e, relevance |-> x]

MCFound ==
  (g0 :> <<MCHit(a, 1), MCHit(c, 3), MCHit(b, 0)>>) @@
  (g1 :> <<MCHit(b, 2), MCHit(a, 2)>>) @@
  (g2 :> <<MCHit(c, 4), MCHit(b, 1)>>)

=============================================================================

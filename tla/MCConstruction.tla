--------------------------- MODULE MCConstruction ---------------------------
(* Model-checking instance of Construction: two workers, two documents of    *)
(* which the first cites the second, an author they share, a payload that    *)
(* names the author twice, a document that cites itself (d2 with c1), and d2 *)
(* under an id with blanks around it.  The system starts empty, with d2 stored*)
(* citing itself, or with the Paper under the id with blanks that an ingest  *)
(* has left, whose links went to d2 and with it.                             *)
EXTENDS Construction, TLC

CONSTANTS w1, w2, d1, d2, p2, a, c1, c2

MCWorkers  == {w1, w2}
MCDocs     == {d1, d2}
MCPadded   == {p2}
MCStrip    == (d1 :> d1) @@ (d2 :> d2) @@ (p2 :> d2)
MCObjects  == {a}
MCContents == {c1, c2}
MCLinks    == (c1 :> <<d2, a>>) @@ (c2 :> <<a, a>>)
MCBatches  ==
  {<<[id |-> d1, content |-> c1], [id |-> d2, content |-> c2]>>,
   <<[id |-> d2, content |-> c1]>>,
   <<[id |-> d2, content |-> c2]>>,
   <<[id |-> p2, content |-> c2]>>}

Nothing == [v \in MCDocs \cup MCPadded \cup MCObjects |-> "absent"]

MCGraphs ==
  {[graph |-> Nothing, edges |-> {}],
   [graph |-> [Nothing EXCEPT ![d2] = c1, ![a] = "named"], edges |-> {<<d2, d2>>, <<d2, a>>}],
   [graph |-> [Nothing EXCEPT ![p2] = c2, ![a] = "named"], edges |-> {}]}

Symmetry == Permutations(MCWorkers)

=============================================================================

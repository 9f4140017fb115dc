----------------------------- MODULE MCGraphLoad ------------------------------
(* Model-checking instance of GraphLoad: three papers in pages and batches  *)
(* of two; four runs, one failure and two edits from outside.                 *)
EXTENDS GraphLoad

CONSTANTS p1, p2, p3, old, new, bare, stub, ada, bob, graphs, agents

MCSubmissions == <<p3, p2, p1>>
MCTexts    == {old, new, bare}
MCFirst    == p1 :> old @@ p2 :> new @@ p3 :> old
MCEmpty    == {bare}
MCShort    == {old}
MCAuthors  == p1 :> {ada} @@ p2 :> {ada} @@ p3 :> {bob}
MCConcepts == old :> {graphs} @@ new :> {agents} @@ bare :> {}
=============================================================================

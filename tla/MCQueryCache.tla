----------------------------- MODULE MCQueryCache -----------------------------
(* Model-checking instance of QueryCache: two threads, one key of the       *)
(* default graph (what graphrag_search stores) and one of another graph     *)
(* (what a library caller of set stores), room for a single entry.          *)
EXTENDS QueryCache, TLC

CONSTANTS t1, t2, k1, k2, gDefault, gOther

MCThreads == {t1, t2}
MCKeys    == {k1, k2}
MCGraphs  == {gDefault, gOther}
MCGraphOf == (k1 :> gDefault) @@ (k2 :> gOther)

Symmetry == Permutations(MCThreads)

=============================================================================

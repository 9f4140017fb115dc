----------------------------- MODULE MCAnswering ------------------------------
(* Model-checking instance of Answering: two threads, two tasks, a graph of   *)
(* two papers that share a concept, one of them with an author, from which a  *)
(* third paper was deleted whose vector stays; one failing call, one loss of  *)
(* the installed queries.                                                     *)
EXTENDS Answering

CONSTANTS t1, t2, p1, p2, p3, c1, a1, attention, theme, link

MCThreads == {t1, t2}
MCIds     == {p1, p2, p3, c1, a1}
MCWords   == {p1, link, attention, theme}

Paper(i)   == [type |-> "Paper", id |-> i]
Concept(i) == [type |-> "Concept", id |-> i]
Author(i)  == [type |-> "Author", id |-> i]
Edge(v, w) == [from |-> v, to |-> w]

\* p1 - c1 - p2 - a1, and the vectors of p1 and the deleted p3.
MCGraph ==
  [vertices |-> {Paper(p1), Paper(p2), Concept(c1), Author(a1)},
    edges    |-> {Edge(Paper(p1), Concept(c1)), Edge(Paper(p2), Concept(c1)),
                  Edge(Author(a1), Paper(p2))},
    vectors  |-> {p1, p3}]

\* Two questions: the name of a paper, and what links a concept to a paper.
MCTitle    == p1 :> {attention} @@ p2 :> {attention, theme} @@ p3 :> {} @@ c1 :> {} @@ a1 :> {}
MCAbstract == p1 :> {theme} @@ p2 :> {} @@ p3 :> {} @@ c1 :> {} @@ a1 :> {}
MCTermsOf  == p1 :> {p1} @@ link :> {theme}
MCSimilarity == p1 :> (p1 :> 90 @@ p3 :> 40) @@ link :> (p1 :> 70 @@ p3 :> 70)
None == [global |-> 0, path |-> 0, local |-> 0]
MCAbout ==
  p1   :> [words |-> 1, asks |-> FALSE, tokens |-> 1, overlap |-> None, closeness |-> None] @@
  link :> [words |-> 6, asks |-> TRUE, tokens |-> 5,
           overlap   |-> [None EXCEPT !.path = 2],
           closeness |-> [global |-> 70, path |-> 40, local |-> 50]]
MCTokens == p1 :> <<p1>> @@ link :> <<theme, p2, c1>>
MCNamed  == p1 :> {p1} @@ link :> {c1}

Call(tool, on, mode, depth, top) ==
  [tool |-> tool, on |-> on, mode |-> mode, depth |-> depth, top |-> top, weight |-> <<1, 3>>]
MCToolCalls ==
  {Call("search", link, "global", 2, 10), Call("community", c1, "none", 0, 0),
   Call("path", <<p1, a1>>, "none", 3, 0), Call("path", <<p1, a1>>, "none", 2, 0)}
MCQuerySets  == {<<p1, link>>}
MCAskedModes == {"auto", "path"}

=============================================================================

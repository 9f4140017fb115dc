--------------------------- MODULE Answering_proofs ----------------------------
(***************************************************************************)
(* Theorems about Answering and the adapter it asks: the types, why an     *)
(* answer can be empty, and that path_search finds a shortest path.  The   *)
(* first half is about the operators: rounds of an expansion and walks,    *)
(* the edges an expansion returns, the search over them, and what each     *)
(* operation answers from the graph.  The second half is the invariant:    *)
(* every call is FrameOK, whoever runs a query without the adapter's flag  *)
(* does so because of an installation that is unsettled (ReadyInv), a      *)
(* query that its own call reinstalled is missing only for a cause         *)
(* (RerunInv), and every task is TaskOK and in a call only where it waits  *)
(* for one.                                                                *)
(***************************************************************************)
EXTENDS Answering, SequenceTheorems, FiniteSetTheorems, WellFoundedInduction, TLAPS

-----------------------------------------------------------------------------
(* Induction over the natural numbers, and the least and greatest of a set. *)

\* A set of natural numbers has a least element.
LEMMA LeastElement ==
  ASSUME NEW T \in SUBSET Nat, T # {}
  PROVE  \E n \in T : \A m \in T : n <= m
<1>1. IsWellFoundedOn({x \in Nat \X Nat : x[1] < x[2]}, Nat)
  BY NatLessThanWellFounded DEF OpToRel
<1>2. PICK n \in T : \A m \in T : <<m, n>> \notin {x \in Nat \X Nat : x[1] < x[2]}
  BY <1>1, WFMin
<1>3. ASSUME NEW m \in T PROVE n <= m
  <2>1. m \in Nat /\ n \in Nat /\ <<m, n>> \in Nat \X Nat
    OBVIOUS
  <2>2. ~(<<m, n>>[1] < <<m, n>>[2])
    BY <1>2, <2>1
  <2>3. ~(m < n)
    BY <2>2
  <2>4. QED
    BY <2>1, <2>3
<1>4. QED
  BY <1>3

\* Induction, for a set in the place of a predicate.
LEMMA Induction ==
  ASSUME NEW S, 0 \in S, \A n \in Nat : n \in S => n + 1 \in S
  PROVE  Nat \subseteq S
<1>1. SUFFICES ASSUME Nat \ S # {} PROVE FALSE
  OBVIOUS
<1>2. PICK n \in Nat \ S : \A m \in Nat \ S : n <= m
  BY <1>1, LeastElement
<1>3. n - 1 \in Nat /\ n - 1 \in S
  BY <1>2
<1>4. QED
  BY <1>2, <1>3

\* The least of a set of natural numbers is in it.
LEMMA MinFacts ==
  ASSUME NEW T \in SUBSET Nat, NEW d \in T, \A m \in T : d <= m
  PROVE  Min(T) = d
<1>1. \E n \in T : \A m \in T : n <= m
  OBVIOUS
<1>2. Min(T) \in T /\ \A m \in T : Min(T) <= m
  BY <1>1 DEF Min
<1>3. Min(T) \in Nat /\ d \in Nat /\ Min(T) <= d /\ d <= Min(T)
  BY <1>2
<1>4. QED
  BY <1>3

\* The smaller and the larger of two integers.
LEMMA OfTwo ==
  ASSUME NEW a \in Int, NEW b \in Int
  PROVE  /\ Min({a, b}) = IF a <= b THEN a ELSE b
         /\ Max({a, b}) = IF a <= b THEN b ELSE a
<1>1. Min({a, b}) \in {a, b} /\ \A m \in {a, b} : Min({a, b}) <= m
  <2>1. \E n \in {a, b} : \A m \in {a, b} : n <= m
    OBVIOUS
  <2>2. QED
    BY <2>1 DEF Min
<1>2. Max({a, b}) \in {a, b} /\ \A m \in {a, b} : Max({a, b}) >= m
  <2>1. \E n \in {a, b} : \A m \in {a, b} : n >= m
    OBVIOUS
  <2>2. QED
    BY <2>1 DEF Max
<1>3. QED
  BY <1>1, <1>2

-----------------------------------------------------------------------------
(* Rounds and walks.                                                       *)

\* The run of k rounds.
Chain(f, edges, seeds, k) ==
  /\ f = [n \in 0 .. k |-> f[n]]
  /\ f[0] = seeds
  /\ \A n \in 1 .. k : f[n] = f[n - 1] \cup Touched(edges, f[n - 1])

\* Any number of rounds can be made.
LEMMA ChainExists ==
  ASSUME NEW edges, NEW seeds, NEW limit \in Nat
  PROVE  \E f : Chain(f, edges, seeds, limit)
<1> DEFINE S == {k \in Nat : \E f : Chain(f, edges, seeds, k)}
<1>1. 0 \in S
  <2>1. Chain([n \in 0 .. 0 |-> seeds], edges, seeds, 0)
    BY DEF Chain
  <2>2. QED
    BY <2>1
<1>2. ASSUME NEW k \in Nat, k \in S PROVE k + 1 \in S
  <2>1. PICK f : Chain(f, edges, seeds, k)
    BY <1>2
  <2> DEFINE g == [n \in 0 .. k + 1 |-> IF n = k + 1 THEN f[k] \cup Touched(edges, f[k]) ELSE f[n]]
  <2>2. g[0] = seeds
    BY <2>1 DEF Chain
  <2>3. ASSUME NEW n \in 1 .. k + 1 PROVE g[n] = g[n - 1] \cup Touched(edges, g[n - 1])
    <3>1. CASE n = k + 1
      BY <3>1
    <3>2. CASE n # k + 1
      <4>1. n \in 1 .. k /\ n - 1 # k + 1 /\ n - 1 \in 0 .. k + 1 /\ n \in 0 .. k + 1
        BY <3>2
      <4>2. g[n] = f[n] /\ g[n - 1] = f[n - 1]
        BY <3>2, <4>1
      <4>3. QED
        BY <2>1, <4>1, <4>2 DEF Chain
    <3>3. QED
      BY <3>1, <3>2
  <2>4. g = [n \in 0 .. k + 1 |-> g[n]]
    OBVIOUS
  <2>5. Chain(g, edges, seeds, k + 1)
    <3> HIDE DEF g
    <3> QED BY <2>2, <2>3, <2>4 DEF Chain
  <2>6. QED
    <3> HIDE DEF g
    <3> QED BY <2>5
<1>3. Nat \subseteq S
  <2> HIDE DEF S
  <2> QED BY <1>1, <1>2, Induction
<1>4. QED
  BY <1>3

\* The recursive definition of Rounds has the function it defines.
LEMMA RoundsUnfold ==
  ASSUME NEW edges, NEW seeds, NEW limit \in Nat
  PROVE  Chain(Rounds(edges, seeds, limit), edges, seeds, limit)
<1> DEFINE Next1(f, n) == IF n = 0 THEN seeds
                          ELSE UNION {R \cup Touched(edges, R) : R \in {f[n - 1]}}
<1>1. \A f, n : Next1(f, n) = IF n = 0 THEN seeds ELSE f[n - 1] \cup Touched(edges, f[n - 1])
  OBVIOUS
<1>2. PICK g : Chain(g, edges, seeds, limit)
  BY ChainExists
<1>3. \A n \in 0 .. limit : n = 0 \/ (n # 0 /\ n \in 1 .. limit)
  OBVIOUS
<1>4. g = [n \in 0 .. limit |-> Next1(g, n)]
  <2> HIDE DEF Next1
  <2> QED BY <1>1, <1>2, <1>3 DEF Chain
<1> DEFINE reached == CHOOSE f : f = [n \in 0 .. limit |-> Next1(f, n)]
<1>5. reached = [n \in 0 .. limit |-> Next1(reached, n)]
  BY <1>4
<1>6. Rounds(edges, seeds, limit) = reached
  BY DEF Rounds
<1>7. reached = [n \in 0 .. limit |-> reached[n]]
  <2> HIDE DEF reached, Next1
  <2> QED BY <1>5
<1>8. reached[0] = seeds /\ \A n \in 1 .. limit :
        reached[n] = reached[n - 1] \cup Touched(edges, reached[n - 1])
  <2> HIDE DEF reached, Next1
  <2>1. 0 \in 0 .. limit /\ \A n \in 1 .. limit : n \in 0 .. limit /\ n # 0
    OBVIOUS
  <2>2. \A n \in 0 .. limit : reached[n] = Next1(reached, n)
    BY <1>5
  <2>3. QED
    BY <1>1, <2>1, <2>2
<1>9. QED
  <2> HIDE DEF reached
  <2> QED BY <1>6, <1>7, <1>8 DEF Chain

-----------------------------------------------------------------------------
(* Rounds and walks in the graph.                                          *)

V == Graph.vertices
E == Graph.edges

\* What is reached from some vertices in n rounds.
LEMMA ReachFacts ==
  ASSUME NEW seeds \in SUBSET V
  PROVE  /\ Reach[seeds][0] = seeds
         /\ \A n \in 1 .. MaxDepth :
              Reach[seeds][n] = Reach[seeds][n - 1] \cup Touched(E, Reach[seeds][n - 1])
<1>1. Reach[seeds] = Rounds(E, seeds, MaxDepth)
  BY DEF Reach, V, E
<1>2. MaxDepth \in Nat
  BY DEF MaxDepth
<1>3. QED
  BY <1>1, <1>2, RoundsUnfold DEF Chain

\* An edge touches what it is touched by.
LEMMA TouchedFacts ==
  ASSUME NEW edges, NEW R
  PROVE  \A y : y \in Touched(edges, R) <=>
                  \E e \in edges : y \in Pair(e) /\ \E z \in R : z \in Pair(e)
BY DEF Touched

\* More edges, or more vertices, touch more.
LEMMA TouchedGrows ==
  ASSUME NEW edges, NEW R, NEW more, edges \subseteq more, NEW S, R \subseteq S
  PROVE  Touched(edges, R) \subseteq Touched(more, S)
BY DEF Touched

\* Edges have vertices at their ends.
LEMMA EndsInGraph == \A e \in E : Pair(e) \subseteq V
BY AdapterConstants DEF Pair, E, V

\* What is reached are vertices, more and more of them.
LEMMA ReachGrows ==
  ASSUME NEW seeds \in SUBSET V
  PROVE  /\ \A n \in 0 .. MaxDepth : Reach[seeds][n] \subseteq V
         /\ \A n \in 1 .. MaxDepth : Reach[seeds][n - 1] \subseteq Reach[seeds][n]
         /\ \A n \in 0 .. MaxDepth, m \in 0 .. MaxDepth :
              m <= n => Reach[seeds][m] \subseteq Reach[seeds][n]
<1> DEFINE R == Reach[seeds]
<1>0. MaxDepth = 10
  BY DEF MaxDepth
<1>1. /\ R[0] = seeds
      /\ \A n \in 1 .. MaxDepth : R[n] = R[n - 1] \cup Touched(E, R[n - 1])
  BY ReachFacts
<1>2. \A S : Touched(E, S) \subseteq V
  BY EndsInGraph DEF Touched
<1> DEFINE P == {n \in Nat : n <= MaxDepth => R[n] \subseteq V}
<1> HIDE DEF R
<1>3. 0 \in P
  BY <1>1
<1>4. ASSUME NEW n \in Nat, n \in P PROVE n + 1 \in P
  <2>1. CASE n + 1 <= MaxDepth
    <3>1. n + 1 \in 1 .. MaxDepth /\ n <= MaxDepth /\ (n + 1) - 1 = n
      BY <1>0, <2>1
    <3>2. R[n] \subseteq V
      BY <1>4, <3>1
    <3>3. R[n + 1] = R[n] \cup Touched(E, R[n])
      BY <1>1, <3>1
    <3>4. R[n + 1] \subseteq V
      BY <1>2, <3>2, <3>3
    <3>5. QED
      BY <3>4
  <2>2. CASE ~(n + 1 <= MaxDepth)
    BY <2>2
  <2>3. QED
    BY <2>1, <2>2
<1>5. Nat \subseteq P
  <2> HIDE DEF P
  <2> QED BY <1>3, <1>4, Induction
<1>6. \A n \in 0 .. MaxDepth : R[n] \subseteq V
  BY <1>0, <1>5
<1>7. \A n \in 1 .. MaxDepth : R[n - 1] \subseteq R[n]
  BY <1>1
<1> DEFINE Q == {n \in Nat : n <= MaxDepth => \A m \in 0 .. MaxDepth : m <= n => R[m] \subseteq R[n]}
<1>8. 0 \in Q
  <2>1. \A m \in 0 .. MaxDepth : m <= 0 => m = 0
    BY <1>0
  <2>2. QED
    BY <2>1
<1>9. ASSUME NEW n \in Nat, n \in Q PROVE n + 1 \in Q
  <2>1. SUFFICES ASSUME n + 1 <= MaxDepth, NEW m \in 0 .. MaxDepth, m <= n + 1
                 PROVE  R[m] \subseteq R[n + 1]
    OBVIOUS
  <2>2. n + 1 \in 1 .. MaxDepth /\ n <= MaxDepth /\ (n + 1) - 1 = n
    BY <1>0, <2>1
  <2>3. R[n] \subseteq R[n + 1]
    BY <1>7, <2>2
  <2>4. m = n + 1 \/ m <= n
    BY <1>0, <2>1
  <2>5. m <= n => R[m] \subseteq R[n]
    BY <1>9, <2>2
  <2>6. QED
    BY <2>3, <2>4, <2>5
<1>10. Nat \subseteq Q
  <2> HIDE DEF Q
  <2> QED BY <1>8, <1>9, Induction
<1>11. \A n \in 0 .. MaxDepth : n \in Q /\ n <= MaxDepth
  BY <1>0, <1>10
<1>12. \A n \in 0 .. MaxDepth, m \in 0 .. MaxDepth : m <= n => R[m] \subseteq R[n]
  BY <1>11
<1>13. QED
  BY <1>6, <1>7, <1>12 DEF R

\* A walk of n edges, as a function.
IsWalk(walk, v, w, n) ==
  /\ walk \in [0 .. n -> V]
  /\ walk[0] = v /\ walk[n] = w
  /\ \A i \in 1 .. n : \E e \in E : Pair(e) = {walk[i - 1], walk[i]}

LEMMA WalkMeans ==
  ASSUME NEW v, NEW w, NEW n
  PROVE  Walk(v, w, n) <=> \E walk : IsWalk(walk, v, w, n)
BY DEF Walk, IsWalk, V, E

\* What a walk of n edges leads to is reached in n rounds.
LEMMA WalkReaches ==
  ASSUME NEW v \in V, NEW w, NEW n \in 0 .. MaxDepth, Walk(v, w, n)
  PROVE  w \in Reach[{v}][n]
<1>0. MaxDepth = 10 /\ {v} \in SUBSET V
  BY DEF MaxDepth
<1> DEFINE R == Reach[{v}]
<1>1. /\ R[0] = {v}
      /\ \A k \in 1 .. MaxDepth : R[k] = R[k - 1] \cup Touched(E, R[k - 1])
  BY <1>0, ReachFacts
<1>2. PICK walk : IsWalk(walk, v, w, n)
  BY WalkMeans
<1> DEFINE P == {k \in Nat : k <= n => walk[k] \in R[k]}
<1> HIDE DEF R
<1>3. 0 \in P
  BY <1>1, <1>2 DEF IsWalk
<1>4. ASSUME NEW k \in Nat, k \in P PROVE k + 1 \in P
  <2>1. SUFFICES ASSUME k + 1 <= n PROVE walk[k + 1] \in R[k + 1]
    OBVIOUS
  <2>2. k + 1 \in 1 .. MaxDepth /\ k + 1 \in 1 .. n /\ k <= n /\ (k + 1) - 1 = k
    BY <1>0, <2>1
  <2>3. walk[k] \in R[k]
    BY <1>4, <2>2
  <2>4. PICK e \in E : Pair(e) = {walk[k], walk[k + 1]}
    BY <1>2, <2>2 DEF IsWalk
  <2>5. walk[k + 1] \in Touched(E, R[k])
    BY <2>3, <2>4, TouchedFacts
  <2>6. R[k + 1] = R[k] \cup Touched(E, R[k])
    BY <1>1, <2>2
  <2>7. QED
    BY <2>5, <2>6
<1>5. Nat \subseteq P
  <2> HIDE DEF P
  <2> QED BY <1>3, <1>4, Induction
<1>6. n \in P /\ n <= n
  BY <1>0, <1>5
<1>7. QED
  BY <1>2, <1>6 DEF IsWalk, R

\* A walk goes on over one more edge.
LEMMA WalkExtends ==
  ASSUME NEW v, NEW z, NEW y \in V, NEW n \in Nat, Walk(v, z, n),
         NEW e \in E, Pair(e) = {z, y}
  PROVE  Walk(v, y, n + 1)
<1>1. PICK walk : IsWalk(walk, v, z, n)
  BY WalkMeans
<1> DEFINE g == [i \in 0 .. n + 1 |-> IF i = n + 1 THEN y ELSE walk[i]]
<1>2. g \in [0 .. n + 1 -> V]
  <2>1. \A i \in 0 .. n + 1 : i = n + 1 \/ i \in 0 .. n
    OBVIOUS
  <2>2. QED
    BY <1>1, <2>1 DEF IsWalk
<1>3. g[0] = v /\ g[n + 1] = y /\ g[n] = z
  BY <1>1 DEF IsWalk
<1>4. ASSUME NEW i \in 1 .. n + 1 PROVE \E d \in E : Pair(d) = {g[i - 1], g[i]}
  <2>1. CASE i = n + 1
    BY <1>3, <2>1
  <2>2. CASE i # n + 1
    <3>1. i \in 1 .. n /\ i - 1 # n + 1 /\ i - 1 \in 0 .. n + 1 /\ i \in 0 .. n + 1
      BY <2>2
    <3>2. g[i] = walk[i] /\ g[i - 1] = walk[i - 1]
      BY <2>2, <3>1
    <3>3. \E d \in E : Pair(d) = {walk[i - 1], walk[i]}
      BY <1>1, <3>1 DEF IsWalk
    <3>4. QED
      BY <3>2, <3>3
  <2>3. QED
    BY <2>1, <2>2
<1>5. IsWalk(g, v, y, n + 1)
  <2> HIDE DEF g
  <2> QED BY <1>2, <1>3, <1>4 DEF IsWalk
<1>6. QED
  BY <1>5, WalkMeans

\* An edge with a vertex at one end joins it to one at the other.
LEMMA OtherEnd ==
  ASSUME NEW e, NEW y \in Pair(e), NEW z \in Pair(e), y # z
  PROVE  Pair(e) = {z, y}
BY DEF Pair

\* What is reached in n rounds has a walk of at most n edges.
LEMMA ReachedWalks ==
  ASSUME NEW v \in V, NEW n \in 0 .. MaxDepth, NEW w \in Reach[{v}][n]
  PROVE  \E m \in 0 .. n : Walk(v, w, m)
<1>0. MaxDepth = 10 /\ {v} \in SUBSET V
  BY DEF MaxDepth
<1> DEFINE R == Reach[{v}]
<1>1. /\ R[0] = {v}
      /\ \A k \in 1 .. MaxDepth : R[k] = R[k - 1] \cup Touched(E, R[k - 1])
      /\ \A k \in 0 .. MaxDepth : R[k] \subseteq V
  BY <1>0, ReachFacts, ReachGrows
<1> DEFINE P == {k \in Nat : k <= MaxDepth => \A y \in R[k] : \E m \in 0 .. k : Walk(v, y, m)}
<1> HIDE DEF R
<1>2. 0 \in P
  <2>1. IsWalk([i \in 0 .. 0 |-> v], v, v, 0)
    BY DEF IsWalk
  <2>2. Walk(v, v, 0) /\ 0 \in 0 .. 0
    BY <2>1, WalkMeans
  <2>3. QED
    BY <1>1, <2>2
<1>3. ASSUME NEW k \in Nat, k \in P PROVE k + 1 \in P
  <2>1. SUFFICES ASSUME k + 1 <= MaxDepth, NEW y \in R[k + 1]
                 PROVE  \E m \in 0 .. k + 1 : Walk(v, y, m)
    OBVIOUS
  <2>2. k + 1 \in 1 .. MaxDepth /\ k + 1 \in 0 .. MaxDepth /\ k <= MaxDepth /\ (k + 1) - 1 = k
    BY <1>0, <2>1
  <2>3. \A x \in R[k] : \E m \in 0 .. k : Walk(v, x, m)
    BY <1>3, <2>2
  <2>4. CASE y \in R[k]
    <3>1. PICK m \in 0 .. k : Walk(v, y, m)
      BY <2>3, <2>4
    <3>2. m \in 0 .. k + 1
      OBVIOUS
    <3>3. QED
      BY <3>1, <3>2
  <2>5. CASE y \notin R[k]
    <3>1. y \in Touched(E, R[k])
      BY <1>1, <2>1, <2>2, <2>5
    <3>2. PICK e \in E, z \in R[k] : y \in Pair(e) /\ z \in Pair(e)
      BY <3>1, TouchedFacts
    <3>3. Pair(e) = {z, y}
      BY <2>5, <3>2, OtherEnd
    <3>4. PICK m \in 0 .. k : Walk(v, z, m)
      BY <2>3, <3>2
    <3>5. m \in Nat /\ y \in V /\ m + 1 \in 0 .. k + 1
      BY <1>1, <2>1, <2>2
    <3>6. Walk(v, y, m + 1)
      BY <3>2, <3>3, <3>4, <3>5, WalkExtends
    <3>7. QED
      BY <3>5, <3>6
  <2>6. QED
    BY <2>4, <2>5
<1>4. Nat \subseteq P
  <2> HIDE DEF P
  <2> QED BY <1>2, <1>3, Induction
<1>5. n \in P /\ n <= MaxDepth /\ w \in R[n]
  BY <1>0, <1>4 DEF R
<1>6. QED
  BY <1>5

-----------------------------------------------------------------------------
(* The search for a path over the edges of an expansion.                   *)

LEMMA OfPair ==
  ASSUME NEW z, NEW y, y # z
  PROVE  Cardinality({z, y}) = 2
<1> DEFINE S == {z}
<1>1. IsFiniteSet(S) /\ Cardinality(S) = 1
  BY FS_Singleton
<1>2. y \notin S /\ {z, y} = S \cup {y}
  OBVIOUS
<1> HIDE DEF S
<1>3. Cardinality(S \cup {y}) = Cardinality(S) + 1
  BY <1>1, <1>2, FS_AddElement
<1>4. QED
  BY <1>1, <1>2, <1>3

\* What leads outwards in a round: the edges with one end reached before it.
LEMMA OutwardFacts ==
  ASSUME NEW seeds \in SUBSET V, NEW n \in 1 .. MaxDepth
  PROVE  /\ \A e \in Outward(seeds, n) :
              e \in E /\ Pair(e) \subseteq Reach[seeds][n] /\ Pair(e) \cap Reach[seeds][n - 1] # {}
         /\ \A e \in E, z \in Reach[seeds][n - 1], y \in V \ Reach[seeds][n - 1] :
              Pair(e) = {z, y} => e \in Outward(seeds, n)
<1> DEFINE R == Reach[seeds][n - 1]
<1>1. /\ Reach[seeds][n] = R \cup Touched(E, R)
      /\ n - 1 \in 0 .. MaxDepth
  BY ReachFacts DEF MaxDepth
<1> HIDE DEF R
<1>2. ASSUME NEW e \in Outward(seeds, n)
      PROVE  e \in E /\ Pair(e) \subseteq Reach[seeds][n] /\ Pair(e) \cap R # {}
  <2>1. e \in E /\ Pair(e) \subseteq Reach[seeds][n] /\ Cardinality(Pair(e) \cap R) = 1
    BY <1>2 DEF Outward, E, R
  <2>2. Pair(e) \cap R # {}
    BY <2>1, FS_EmptySet
  <2>3. QED
    BY <2>1, <2>2
<1>3. ASSUME NEW e \in E, NEW z \in R, NEW y \in V \ R, Pair(e) = {z, y}
      PROVE  e \in Outward(seeds, n)
  <2>1. Cardinality({z}) = 1
    BY FS_Singleton
  <2>2. y # z
    BY <1>3
  <2>3. Cardinality({z, y}) = 2
    BY <2>2, OfPair
  <2>4. Pair(e) = {z, y} /\ Pair(e) \cap R = {z}
    BY <1>3
  <2>5. y \in Touched(E, R)
    BY <1>3, TouchedFacts
  <2>6. Pair(e) \subseteq Reach[seeds][n]
    BY <1>1, <1>3, <2>5
  <2>7. QED
    BY <2>1, <2>3, <2>4, <2>6 DEF Outward, E, R
<1>4. QED
  BY <1>2, <1>3 DEF R

\* The edges of an expansion lie among its vertices, and lead to each vertex of a
\* round from one of the round before.
LEMMA Expansion ==
  ASSUME NEW seeds \in SUBSET V, NEW h \in 0 .. MaxDepth
  PROVE  /\ Expand[seeds][h].vertices = Reach[seeds][h]
         /\ Expand[seeds][h].vertices \subseteq V
         /\ Expand[seeds][h].edges \subseteq E
         /\ \A e \in Expand[seeds][h].edges : Pair(e) \subseteq Reach[seeds][h]
         /\ seeds = {} => Expand[seeds][h].edges = {}
         /\ \A n \in 1 .. h : \A y \in Reach[seeds][n] \ Reach[seeds][n - 1] :
              \E e \in Expand[seeds][h].edges, z \in Reach[seeds][n - 1] : Pair(e) = {z, y}
<1> DEFINE R == Reach[seeds]
           X == Expand[seeds][h]
<1>0. MaxDepth = 10 /\ \A n \in 1 .. h : n \in 1 .. MaxDepth /\ n \in 0 .. MaxDepth /\ n - 1 \in 0 .. MaxDepth /\ n <= h
  BY DEF MaxDepth
<1>1. X = [vertices |-> R[h], edges |-> UNION {Outward(seeds, n) : n \in 1 .. h}]
  BY DEF Expand, V
<1>2. X.vertices = R[h] /\ X.edges = UNION {Outward(seeds, n) : n \in 1 .. h}
  BY <1>1
<1>3. /\ \A n \in 0 .. MaxDepth : R[n] \subseteq V
      /\ \A n \in 0 .. MaxDepth, m \in 0 .. MaxDepth : m <= n => R[m] \subseteq R[n]
      /\ R[0] = seeds
      /\ \A n \in 1 .. MaxDepth : R[n] = R[n - 1] \cup Touched(E, R[n - 1])
  BY ReachGrows, ReachFacts
<1>4. /\ \A n \in 1 .. h : \A e \in Outward(seeds, n) :
           e \in E /\ Pair(e) \subseteq R[n] /\ Pair(e) \cap R[n - 1] # {}
      /\ \A n \in 1 .. h : \A e \in E, z \in R[n - 1], y \in V \ R[n - 1] :
           Pair(e) = {z, y} => e \in Outward(seeds, n)
  BY <1>0, OutwardFacts
<1> HIDE DEF R, X
<1>5. X.vertices \subseteq V /\ X.edges \subseteq E /\ \A e \in X.edges : Pair(e) \subseteq R[h]
  <2>1. \A n \in 1 .. h : R[n] \subseteq R[h]
    BY <1>0, <1>3
  <2>2. \A e \in X.edges : \E n \in 1 .. h : e \in Outward(seeds, n)
    BY <1>2
  <2>3. \A e \in X.edges : e \in E /\ Pair(e) \subseteq R[h]
    BY <1>4, <2>1, <2>2
  <2>4. QED
    BY <1>2, <1>3, <2>3
<1>6. ASSUME NEW n \in 1 .. h, NEW y \in R[n] \ R[n - 1]
      PROVE  \E e \in X.edges, z \in R[n - 1] : Pair(e) = {z, y}
  <2>1. y \in Touched(E, R[n - 1]) /\ y \in V
    BY <1>0, <1>3, <1>6
  <2>2. PICK e \in E, z \in R[n - 1] : y \in Pair(e) /\ z \in Pair(e)
    BY <2>1, TouchedFacts
  <2>3. Pair(e) = {z, y}
    BY <1>6, <2>2, OtherEnd
  <2>4. e \in Outward(seeds, n)
    BY <1>4, <1>6, <2>1, <2>2, <2>3
  <2>5. e \in X.edges
    BY <1>2, <2>4
  <2>6. QED
    BY <2>2, <2>3, <2>5
<1>7. ASSUME seeds = {} PROVE X.edges = {}
  <2>1. \A S : Touched(E, {}) = {}
    BY DEF Touched
  <2> DEFINE P == {n \in Nat : n <= MaxDepth => R[n] = {}}
  <2>2. 0 \in P
    BY <1>3, <1>7
  <2>3. ASSUME NEW n \in Nat, n \in P PROVE n + 1 \in P
    <3>1. CASE n + 1 <= MaxDepth
      <4>1. n + 1 \in 1 .. MaxDepth /\ n <= MaxDepth /\ (n + 1) - 1 = n
        BY <1>0, <3>1
      <4>2. R[n] = {} /\ R[n + 1] = R[n] \cup Touched(E, R[n])
        BY <1>3, <2>3, <4>1
      <4>3. QED
        BY <2>1, <4>2
    <3>2. CASE ~(n + 1 <= MaxDepth)
      BY <3>2
    <3>3. QED
      BY <3>1, <3>2
  <2>4. Nat \subseteq P
    <3> HIDE DEF P
    <3> QED BY <2>2, <2>3, Induction
  <2>5. \A n \in 1 .. h : R[n - 1] = {}
    BY <1>0, <2>4
  <2>6. \A n \in 1 .. h : Outward(seeds, n) = {}
    BY <1>4, <2>5
  <2>7. QED
    BY <1>2, <2>6
<1>8. QED
  BY <1>2, <1>5, <1>6, <1>7 DEF R, X

\* Over the edges of an expansion, the rounds are those of the expansion.
LEMMA SameRounds ==
  ASSUME NEW v \in V, NEW h \in 0 .. MaxDepth, NEW limit \in Nat
  PROVE  \A n \in Nat : n <= h /\ n <= limit =>
           Rounds(Expand[{v}][h].edges, {v}, limit)[n] = Reach[{v}][n]
<1> DEFINE R == Reach[{v}]
           F == Expand[{v}][h].edges
           visited == Rounds(F, {v}, limit)
<1>0. MaxDepth = 10 /\ {v} \in SUBSET V
  BY DEF MaxDepth
<1>1. /\ R[0] = {v}
      /\ \A n \in 1 .. MaxDepth : R[n] = R[n - 1] \cup Touched(E, R[n - 1])
  BY <1>0, ReachFacts
<1>2. /\ visited[0] = {v}
      /\ \A n \in 1 .. limit : visited[n] = visited[n - 1] \cup Touched(F, visited[n - 1])
  BY RoundsUnfold DEF Chain
<1>3. /\ F \subseteq E
      /\ \A n \in 1 .. h : \A y \in R[n] \ R[n - 1] : \E e \in F, z \in R[n - 1] : Pair(e) = {z, y}
  BY <1>0, Expansion
<1> DEFINE P == {n \in Nat : n <= h /\ n <= limit => visited[n] = R[n]}
<1> HIDE DEF R, F, visited
<1>4. 0 \in P
  BY <1>1, <1>2
<1>5. ASSUME NEW n \in Nat, n \in P PROVE n + 1 \in P
  <2>1. SUFFICES ASSUME n + 1 <= h, n + 1 <= limit PROVE visited[n + 1] = R[n + 1]
    OBVIOUS
  <2>2. /\ n + 1 \in 1 .. MaxDepth /\ n + 1 \in 1 .. h /\ n + 1 \in 1 .. limit
        /\ n <= h /\ n <= limit /\ (n + 1) - 1 = n
    BY <1>0, <2>1
  <2>3. visited[n] = R[n]
    BY <1>5, <2>2
  <2>4. visited[n + 1] = R[n] \cup Touched(F, R[n]) /\ R[n + 1] = R[n] \cup Touched(E, R[n])
    BY <1>1, <1>2, <2>2, <2>3
  <2>5. Touched(F, R[n]) \subseteq Touched(E, R[n])
    BY <1>3, TouchedGrows
  <2>6. ASSUME NEW y \in R[n + 1], y \notin R[n] PROVE y \in Touched(F, R[n])
    <3>1. PICK e \in F, z \in R[n] : Pair(e) = {z, y}
      BY <1>3, <2>2, <2>6
    <3>2. QED
      BY <3>1, TouchedFacts
  <2>7. QED
    BY <2>4, <2>5, <2>6
<1>6. Nat \subseteq P
  <2> HIDE DEF P
  <2> QED BY <1>4, <1>5, Induction
<1>7. QED
  BY <1>6 DEF visited, F, R

\* w is first reached in round d.
FirstAt(v, w, d) ==
  /\ w \in Reach[{v}][d]
  /\ \A m \in 0 .. MaxDepth : m < d => w \notin Reach[{v}][m]

\* Every round before the one that reaches w reaches something new.
LEMMA RoundsAdd ==
  ASSUME NEW v \in V, NEW w, NEW d \in 0 .. MaxDepth, FirstAt(v, w, d),
         NEW n \in 1 .. d
  PROVE  Reach[{v}][n] # Reach[{v}][n - 1]
<1> DEFINE R == Reach[{v}]
<1>0. MaxDepth = 10 /\ {v} \in SUBSET V
  BY DEF MaxDepth
<1>1. \A k \in 1 .. MaxDepth : R[k] = R[k - 1] \cup Touched(E, R[k - 1])
  BY <1>0, ReachFacts
<1>2. w \in R[d] /\ \A m \in 0 .. MaxDepth : m < d => w \notin R[m]
  BY DEF FirstAt
<1> HIDE DEF R
<1>3. SUFFICES ASSUME R[n] = R[n - 1] PROVE FALSE
  BY DEF R
<1> DEFINE P == {k \in Nat : n + k <= d => R[n + k] = R[n - 1]}
<1>4. 0 \in P
  <2>1. n + 0 = n
    BY <1>0
  <2>2. QED
    BY <1>3, <2>1
<1>5. ASSUME NEW k \in Nat, k \in P PROVE k + 1 \in P
  <2>1. SUFFICES ASSUME n + (k + 1) <= d PROVE R[n + (k + 1)] = R[n - 1]
    OBVIOUS
  <2>2. n + (k + 1) \in 1 .. MaxDepth /\ n + k <= d /\ (n + (k + 1)) - 1 = n + k /\ n \in 1 .. MaxDepth
    BY <1>0, <2>1
  <2>3. R[n + k] = R[n - 1]
    BY <1>5, <2>2
  <2>4. R[n + (k + 1)] = R[n + k] \cup Touched(E, R[n + k])
    BY <1>1, <2>2
  <2>5. R[n] = R[n - 1] \cup Touched(E, R[n - 1])
    BY <1>1, <2>2
  <2>6. QED
    BY <1>3, <2>3, <2>4, <2>5
<1>6. Nat \subseteq P
  <2> HIDE DEF P
  <2> QED BY <1>4, <1>5, Induction
<1>7. d - n \in Nat /\ n + (d - n) = d /\ d <= d /\ n - 1 \in 0 .. MaxDepth /\ n - 1 < d
  BY <1>0
<1>8. R[d] = R[n - 1]
  BY <1>6, <1>7
<1>9. QED
  BY <1>2, <1>7, <1>8

\* The ends of the edges of an expansion.
Known(v, h) == UNION {Pair(e) : e \in Expand[{v}][h].edges}

\* If w is first reached in round d of an expansion of at least d rounds, and d
\* is not zero, then the expansion's edges have both v and w at their ends, and
\* at least d vertices.
LEMMA KnownFacts ==
  ASSUME NEW v \in V, NEW w, NEW h \in 0 .. MaxDepth, NEW d \in 1 .. h, FirstAt(v, w, d)
  PROVE  /\ {v, w} \subseteq Known(v, h)
         /\ IsFiniteSet(Known(v, h))
         /\ d <= Cardinality(Known(v, h))
<1> DEFINE R == Reach[{v}]
           F == Expand[{v}][h].edges
           K == Known(v, h)
<1>0. /\ MaxDepth = 10 /\ {v} \in SUBSET V /\ h <= MaxDepth
      /\ \A n \in 1 .. d : n \in 1 .. h /\ n \in 0 .. MaxDepth /\ n - 1 \in 0 .. MaxDepth /\ n \in 1 .. MaxDepth
      /\ d \in 0 .. MaxDepth
  BY DEF MaxDepth
<1>1. /\ R[0] = {v}
      /\ \A n \in 0 .. MaxDepth, m \in 0 .. MaxDepth : m <= n => R[m] \subseteq R[n]
  BY <1>0, ReachFacts, ReachGrows
<1>2. \A n \in 1 .. h : \A y \in R[n] \ R[n - 1] : \E e \in F, z \in R[n - 1] : Pair(e) = {z, y}
  BY <1>0, Expansion
<1>3. \A n \in 1 .. d : R[n] # R[n - 1]
  BY <1>0, RoundsAdd
<1>4. w \in R[d] /\ \A m \in 0 .. MaxDepth : m < d => w \notin R[m]
  BY DEF FirstAt
<1>5. IsFiniteSet(K)
  <2>1. F \subseteq E
    BY <1>0, Expansion
  <2>2. K \in SUBSET V
    BY <2>1, EndsInGraph DEF Known
  <2>3. IsFiniteSet(V)
    BY AdapterConstants DEF V
  <2>4. QED
    BY <2>2, <2>3, FS_Subset
<1>6. \A e \in F : Pair(e) \subseteq K
  BY DEF Known
<1> HIDE DEF R, F, K
<1>7. \A n \in 1 .. d : \E y \in R[n] \ R[n - 1] : y \in K
  <2>1. SUFFICES ASSUME NEW n \in 1 .. d PROVE \E y \in R[n] \ R[n - 1] : y \in K
    OBVIOUS
  <2>2. R[n - 1] \subseteq R[n] /\ n \in 1 .. h
    BY <1>0, <1>1
  <2>9. R[n] # R[n - 1]
    BY <1>3
  <2>3. PICK y \in R[n] : y \notin R[n - 1]
    BY <2>2, <2>9
  <2>4. y \in K
    BY <1>2, <1>6, <2>2, <2>3
  <2>5. QED
    BY <2>3, <2>4
<1>8. w \in K
  <2>1. d \in 1 .. h /\ d - 1 \in 0 .. MaxDepth /\ d - 1 < d
    BY <1>0
  <2>2. w \in R[d] \ R[d - 1]
    BY <1>4, <2>1
  <2>3. PICK e \in F, z \in R[d - 1] : Pair(e) = {z, w}
    BY <1>2, <2>1, <2>2
  <2>4. QED
    BY <1>6, <2>3
<1>9. v \in K
  <2>1. 1 \in 1 .. d /\ 1 \in 1 .. h /\ 1 - 1 = 0
    BY <1>0
  <2>2. PICK y \in R[1] \ R[0] : y \in K
    BY <1>7, <2>1
  <2>3. PICK e \in F, z \in R[0] : Pair(e) = {z, y}
    BY <1>2, <2>1, <2>2
  <2>4. z = v
    BY <1>1, <2>3
  <2>5. QED
    BY <1>6, <2>3, <2>4
<1> DEFINE P == {n \in Nat : n <= d => n <= Cardinality(K \cap R[n])}
<1>10. \A S : IsFiniteSet(K \cap S) /\ Cardinality(K \cap S) \in Nat
  BY <1>5, FS_Subset, FS_CardinalityType
<1>11. 0 \in P
  BY <1>10
<1>12. ASSUME NEW n \in Nat, n \in P PROVE n + 1 \in P
  <2>1. SUFFICES ASSUME n + 1 <= d PROVE n + 1 <= Cardinality(K \cap R[n + 1])
    OBVIOUS
  <2>2. n + 1 \in 1 .. d /\ n <= d /\ (n + 1) - 1 = n /\ n \in 0 .. MaxDepth /\ n + 1 \in 0 .. MaxDepth /\ n <= n + 1
    BY <1>0, <2>1
  <2>3. n <= Cardinality(K \cap R[n])
    BY <1>12, <2>2
  <2>4. R[n] \subseteq R[n + 1]
    BY <1>1, <2>2
  <2>5. K \cap R[n] # K \cap R[n + 1]
    <3>1. PICK y \in R[n + 1] \ R[(n + 1) - 1] : y \in K
      BY <1>7, <2>2
    <3>2. QED
      BY <2>2, <3>1
  <2>6. K \cap R[n] \in SUBSET (K \cap R[n + 1])
    BY <2>4
  <2>7. /\ Cardinality(K \cap R[n]) <= Cardinality(K \cap R[n + 1])
        /\ Cardinality(K \cap R[n]) # Cardinality(K \cap R[n + 1])
    BY <1>10, <2>5, <2>6, FS_Subset
  <2>8. Cardinality(K \cap R[n]) \in Nat /\ Cardinality(K \cap R[n + 1]) \in Nat
    BY <1>10
  <2>9. QED
    BY <2>3, <2>7, <2>8
<1>13. Nat \subseteq P
  <2> HIDE DEF P
  <2> QED BY <1>11, <1>12, Induction
<1>14. d <= Cardinality(K \cap R[d])
  <2>1. d \in Nat /\ d <= d
    BY <1>0
  <2>2. QED
    BY <1>13, <2>1
<1>15. Cardinality(K \cap R[d]) <= Cardinality(K)
  BY <1>5, FS_Subset
<1>16. d <= Cardinality(K)
  <2>1. Cardinality(K \cap R[d]) \in Nat /\ d \in Nat
    BY <1>0, <1>10
  <2>2. Cardinality(K) \in Nat
    BY <1>5, FS_CardinalityType
  <2>3. QED
    BY <1>14, <1>15, <2>1, <2>2
<1>17. QED
  BY <1>5, <1>8, <1>9, <1>16 DEF K

\* The search over the edges of an expansion finds the round that first reached w.
LEMMA BfsFinds ==
  ASSUME NEW v \in V, NEW w, NEW h \in 0 .. MaxDepth, NEW d \in 1 .. h, FirstAt(v, w, d)
  PROVE  BfsPath(Expand[{v}][h].edges, v, w, h) = {d}
<1> DEFINE F == Expand[{v}][h].edges
           c == Cardinality(Known(v, h))
           visited == Rounds(F, {v}, c)
           rounds == {n \in DOMAIN visited : w \in visited[n]}
<1>0. MaxDepth = 10 /\ d <= h /\ h \in Nat /\ h <= MaxDepth
  BY DEF MaxDepth
<1>1. {v, w} \subseteq Known(v, h) /\ c \in Nat /\ d <= c
  BY KnownFacts, FS_CardinalityType
<1>2. BfsPath(F, v, w, h) = IF {v, w} \subseteq Known(v, h) /\ rounds # {} /\ Min(rounds) <= h
                            THEN {Min(rounds)} ELSE {}
  BY DEF BfsPath, Known
<1> HIDE DEF c
<1>3. DOMAIN visited = 0 .. c
  BY <1>1, RoundsUnfold DEF Chain
<1>4. \A n \in Nat : n <= h /\ n <= c => visited[n] = Reach[{v}][n]
  BY <1>1, SameRounds
<1> HIDE DEF visited, F
<1>5. rounds \in SUBSET Nat
  BY <1>1, <1>3
<1>6. d \in rounds
  <2>1. d \in Nat /\ d \in 0 .. c
    BY <1>0, <1>1
  <2>2. visited[d] = Reach[{v}][d] /\ w \in Reach[{v}][d]
    BY <1>0, <1>1, <1>4, <2>1 DEF FirstAt
  <2>3. QED
    BY <1>3, <2>1, <2>2
<1>7. ASSUME NEW m \in rounds PROVE d <= m
  <2>1. SUFFICES ASSUME ~(d <= m) PROVE FALSE
    OBVIOUS
  <2>2. m \in Nat /\ m \in 0 .. c /\ w \in visited[m]
    BY <1>3, <1>5
  <2>3. m < d /\ m <= h /\ m <= c /\ m \in 0 .. MaxDepth
    BY <1>0, <1>1, <2>1, <2>2
  <2>4. visited[m] = Reach[{v}][m]
    BY <1>4, <2>2, <2>3
  <2>5. w \notin Reach[{v}][m]
    BY <2>3 DEF FirstAt
  <2>6. QED
    BY <2>2, <2>4, <2>5
<1> HIDE DEF rounds
<1>8. Min(rounds) = d
  BY <1>5, <1>6, <1>7, MinFacts
<1>9. BfsPath(F, v, w, h) = {d}
  BY <1>0, <1>1, <1>2, <1>6, <1>8
<1>10. QED
  BY <1>9 DEF F

\* The length of the shortest walk is the round that first reaches its end.
LEMMA ShortestWalk ==
  ASSUME NEW v \in V, NEW w, NEW h \in 0 .. MaxDepth
  PROVE  /\ \A d \in 0 .. h : FirstAt(v, w, d) =>
              {n \in 0 .. h : Walk(v, w, n) /\ \A m \in 0 .. (n - 1) : ~Walk(v, w, m)} = {d}
         /\ w \notin Reach[{v}][h] =>
              {n \in 0 .. h : Walk(v, w, n) /\ \A m \in 0 .. (n - 1) : ~Walk(v, w, m)} = {}
<1> DEFINE R == Reach[{v}]
<1>0. MaxDepth = 10 /\ {v} \in SUBSET V /\ \A n \in 0 .. h : n \in 0 .. MaxDepth /\ n <= h
  BY DEF MaxDepth
<1>1. \A n \in 0 .. MaxDepth : Walk(v, w, n) => w \in R[n]
  BY WalkReaches
<1>2. \A n \in 0 .. MaxDepth : w \in R[n] => \E m \in 0 .. n : Walk(v, w, m)
  BY ReachedWalks
<1>3. \A n \in 0 .. MaxDepth, m \in 0 .. MaxDepth : m <= n => R[m] \subseteq R[n]
  BY <1>0, ReachGrows
<1> DEFINE Least == {n \in 0 .. h : Walk(v, w, n) /\ \A m \in 0 .. (n - 1) : ~Walk(v, w, m)}
<1>4. ASSUME NEW d \in 0 .. h, FirstAt(v, w, d) PROVE Least = {d}
  <2>1. w \in R[d] /\ \A m \in 0 .. MaxDepth : m < d => w \notin R[m]
    BY <1>4 DEF FirstAt
  <2> HIDE DEF R
  <2>2. d \in 0 .. MaxDepth
    BY <1>0
  <2>3. \A m \in 0 .. MaxDepth : m < d => ~Walk(v, w, m)
    BY <1>1, <2>1
  <2>4. Walk(v, w, d)
    <3>1. PICK m \in 0 .. d : Walk(v, w, m)
      BY <1>2, <2>1, <2>2
    <3>2. m \in 0 .. MaxDepth /\ (m < d \/ m = d)
      BY <1>0, <2>2
    <3>3. QED
      BY <2>3, <3>1, <3>2
  <2>5. d \in Least
    <3>1. \A m \in 0 .. (d - 1) : m \in 0 .. MaxDepth /\ m < d
      BY <1>0, <2>2
    <3>2. QED
      BY <2>3, <2>4, <3>1
  <2>6. ASSUME NEW n \in Least PROVE n = d
    <3>1. n \in 0 .. h /\ n \in 0 .. MaxDepth /\ Walk(v, w, n) /\ \A m \in 0 .. (n - 1) : ~Walk(v, w, m)
      BY <1>0
    <3>2. ~(n < d)
      BY <2>3, <3>1
    <3>3. ~(d < n)
      <4>1. SUFFICES ASSUME d < n PROVE FALSE
        OBVIOUS
      <4>2. d \in 0 .. (n - 1)
        BY <1>0, <2>2, <3>1, <4>1
      <4>3. QED
        BY <2>4, <3>1, <4>2
    <3>4. QED
      BY <1>0, <2>2, <3>1, <3>2, <3>3
  <2>7. QED
    <3> HIDE DEF Least
    <3> QED BY <2>5, <2>6
<1>5. ASSUME w \notin R[h] PROVE Least = {}
  <2> HIDE DEF R
  <2>1. ASSUME NEW n \in Least PROVE FALSE
    <3>1. n \in 0 .. h /\ n \in 0 .. MaxDepth /\ n <= h /\ Walk(v, w, n)
      BY <1>0
    <3>2. w \in R[n] /\ R[n] \subseteq R[h]
      BY <1>1, <1>3, <3>1
    <3>3. QED
      BY <1>5, <3>2
  <2>2. QED
    <3> HIDE DEF Least
    <3> QED BY <2>1
<1>6. QED
  BY <1>4, <1>5 DEF R

\* The paths of an answer are those that the search finds in an expansion.
Searched(a, x, i, j, h) ==
  \E s \in Guesses(x.vertices, i), t \in Guesses(x.vertices, j) :
    a.paths = BfsPath(x.edges, s, t, h)

OnlyEnds(a, x) == a.vertices \subseteq x.vertices /\ a.edges = {} /\ a.failed = FALSE

\* An answer of path_search is that of the search between two of the vertices it
\* takes the ends for.
LEMMA PathAnswer ==
  ASSUME NEW i, NEW j, NEW h, NEW x, NEW a \in PathsIn(x, i, j, h)
  PROVE  /\ Searched(a, x, i, j, h)
         /\ OnlyEnds(a, x)
<1> DEFINE ends == WithId(x.vertices, i) \cup WithId(x.vertices, j)
<1>1. \E s \in Guesses(x.vertices, i), t \in Guesses(x.vertices, j) :
        a = Between(ends, BfsPath(x.edges, s, t, h))
  BY DEF PathsIn
<1>2. PICK s \in Guesses(x.vertices, i), t \in Guesses(x.vertices, j) :
        a = Between(ends, BfsPath(x.edges, s, t, h))
  BY <1>1
<1>3. ends \subseteq x.vertices
  BY DEF WithId
<1> HIDE DEF ends
<1>4. /\ a.paths = BfsPath(x.edges, s, t, h)
      /\ a.vertices = ends
      /\ a.edges = {} /\ a.failed = FALSE
  BY <1>2 DEF Between, Empty
<1>5. Searched(a, x, i, j, h)
  BY <1>2, <1>4 DEF Searched
<1>6. OnlyEnds(a, x)
  BY <1>3, <1>4 DEF OnlyEnds
<1>7. QED
  BY <1>5, <1>6

\* The paths of an answer are the shortest, from a paper, and none from another vertex.
PathsShown(a, v, w, h) ==
  a.paths = IF v.type # "Paper" THEN {}
            ELSE {n \in 0 .. h : Walk(v, w, n) /\ \A m \in 0 .. (n - 1) : ~Walk(v, w, m)}

\* path_search finds a shortest path from a paper, and none from anything else.
LEMMA PathsShortest ==
  ASSUME NEW i \in Ids, NEW j \in Ids, i # j, NEW h \in 0 .. MaxDepth,
         NEW a \in PathAnswers[i][j][h],
         NEW v \in V, NEW w \in V, WithId(V, i) = {v}, WithId(V, j) = {w}
  PROVE  PathsShown(a, v, w, h)
<1> USE DEF PathsShown
<1> DEFINE seeds == WithId(Papers, i)
           x == Expand[seeds][h]
<1>1. v.id = i /\ w.id = j /\ v # w
  BY DEF WithId
<1>2. Papers \subseteq V /\ seeds = IF v.type = "Paper" THEN {v} ELSE {}
  <2>1. Papers = {y \in V : y.type = "Paper"}
    BY DEF Papers, V
  <2>2. seeds = {y \in WithId(V, i) : y.type = "Paper"}
    BY <2>1 DEF WithId
  <2>3. QED
    BY <2>1, <2>2
<1>3. seeds \in SUBSET V
  BY <1>2
<1>4. PICK s \in Guesses(x.vertices, i), t \in Guesses(x.vertices, j) :
        a.paths = BfsPath(x.edges, s, t, h)
  <2>1. a \in PathsIn(x, i, j, h)
    BY DEF PathAnswers
  <2>2. Searched(a, x, i, j, h)
    <3> HIDE DEF x, seeds
    <3> QED BY <2>1, PathAnswer
  <2>3. QED
    BY <2>2 DEF Searched
<1>5. /\ x.vertices = Reach[seeds][h] /\ x.vertices \subseteq V
      /\ \A e \in x.edges : Pair(e) \subseteq x.vertices
      /\ seeds = {} => x.edges = {}
  BY <1>3, Expansion
<1>6. CASE v.type # "Paper"
  <2>1. x.edges = {}
    BY <1>2, <1>5, <1>6
  <2>2. UNION {Pair(e) : e \in {}} = {}
    OBVIOUS
  <2>3. BfsPath({}, s, t, h) = {}
    BY <2>2 DEF BfsPath
  <2>4. QED
    BY <1>4, <1>6, <2>1, <2>3
<1>7. CASE v.type = "Paper"
  <2>1. seeds = {v}
    BY <1>2, <1>7
  <2>2. x = Expand[{v}][h] /\ x.vertices = Reach[{v}][h]
    BY <1>5, <2>1
  <2>3. MaxDepth = 10 /\ h <= MaxDepth /\ h \in Nat /\ {v} \in SUBSET V
    BY DEF MaxDepth
  <2>4. Reach[{v}][0] = {v} /\ Reach[{v}][0] \subseteq Reach[{v}][h]
    BY <2>3, ReachFacts, ReachGrows
  <2>5. s = v
    <3>1. WithId(x.vertices, i) = {v}
      BY <1>5, <2>2, <2>4 DEF WithId
    <3>2. QED
      BY <1>4, <3>1 DEF Guesses
  <2>6. CASE w \in Reach[{v}][h]
    <3>1. WithId(x.vertices, j) = {w}
      BY <1>5, <2>2, <2>6 DEF WithId
    <3>2. t = w
      BY <1>4, <3>1 DEF Guesses
    <3> DEFINE T == {n \in 0 .. h : w \in Reach[{v}][n]}
    <3>3. T \in SUBSET Nat /\ h \in T
      BY <2>3, <2>6
    <3>4. PICK d \in T : \A m \in T : d <= m
      BY <3>3, LeastElement
    <3>5. d \in 0 .. h /\ w \in Reach[{v}][d]
      BY <3>4
    <3>6. ASSUME NEW m \in 0 .. MaxDepth, m < d PROVE w \notin Reach[{v}][m]
      <4>1. m \in 0 .. h /\ ~(d <= m)
        BY <2>3, <3>5, <3>6
      <4>2. m \notin T
        BY <3>4, <4>1
      <4>3. QED
        BY <4>1, <4>2
    <3>7. FirstAt(v, w, d)
      BY <3>5, <3>6 DEF FirstAt
    <3>8. d # 0
      BY <1>1, <2>4, <3>5
    <3>9. d \in 1 .. h
      BY <2>3, <3>5, <3>8
    <3>10. a.paths = {d}
      <4>1. BfsPath(Expand[{v}][h].edges, v, w, h) = {d}
        BY <3>7, <3>9, BfsFinds
      <4>2. QED
        BY <1>4, <2>2, <2>5, <3>2, <4>1
    <3>11. {n \in 0 .. h : Walk(v, w, n) /\ \A m \in 0 .. (n - 1) : ~Walk(v, w, m)} = {d}
      BY <3>5, <3>7, ShortestWalk
    <3>12. QED
      BY <1>7, <3>10, <3>11
  <2>7. CASE w \notin Reach[{v}][h]
    <3>1. t \notin x.vertices
      <4>1. WithId(x.vertices, j) = {}
        BY <1>5, <2>2, <2>7 DEF WithId
      <4>2. t = [type |-> "Paper", id |-> j]
        BY <1>4, <4>1 DEF Guesses
      <4>3. t.id = j
        BY <4>2
      <4>4. QED
        BY <4>1, <4>3 DEF WithId
    <3>2. t \notin UNION {Pair(e) : e \in x.edges}
      BY <1>5, <3>1
    <3>3. BfsPath(x.edges, s, t, h) = {}
      BY <3>2 DEF BfsPath
    <3>4. {n \in 0 .. h : Walk(v, w, n) /\ \A m \in 0 .. (n - 1) : ~Walk(v, w, m)} = {}
      BY <2>7, ShortestWalk
    <3>5. QED
      BY <1>4, <1>7, <3>3, <3>4
  <2>8. QED
    BY <2>6, <2>7
<1>8. QED
  BY <1>6, <1>7

-----------------------------------------------------------------------------
(* What the operations answer.                                             *)

\* The papers of vectors, which may have left the graph.
Ghosts == [type : {"Paper"}, id : Graph.vectors]

ReplyOK(a) == a.vertices \subseteq V \cup Ghosts /\ a.edges \subseteq E

RequestOK(req) ==
  /\ req.op \in Ops
  /\ req.depth \in 0 .. MaxDepth
  /\ req.op = "path_search" => req.on[1] \in Ids /\ req.on[2] \in Ids /\ req.on[1] # req.on[2]

\* What is on top is of the set.
LEMMA TopsWithin ==
  ASSUME NEW S, NEW score, NEW k, NEW T \in Tops(S, score, k)
  PROVE  T \subseteq S
<1>1. T = S \/ T \in kSubset(k, S)
  BY DEF Tops
<1>2. QED
  BY <1>1 DEF kSubset

LEMMA EmptyReply ==
  /\ ReplyOK(Empty) /\ Empty.failed = FALSE
  /\ Failure.vertices = {} /\ ReplyOK(Failure)
BY DEF ReplyOK, Empty, Failure

LEMMA PapersInGraph == Papers \subseteq V
BY DEF Papers, V

\* What an expansion finds can be answered.
LEMMA OfExpansion ==
  ASSUME NEW seeds \in SUBSET V, NEW h \in 0 .. MaxDepth
  PROVE  ReplyOK(Of(Expand[seeds][h])) /\ Of(Expand[seeds][h]).failed = FALSE
<1> DEFINE x == Expand[seeds][h]
<1>1. x.vertices \subseteq V /\ x.edges \subseteq E
  BY Expansion
<1> HIDE DEF x
<1>2. Of(x).vertices = x.vertices /\ Of(x).edges = x.edges /\ Of(x).failed = FALSE
  BY DEF Of, Empty
<1>3. QED
  BY <1>1, <1>2 DEF ReplyOK, x

LEMMA LocalOK ==
  ASSUME NEW terms, NEW h \in 0 .. MaxDepth, NEW k, NEW a \in LocalAnswers(terms, h, k)
  PROVE  ReplyOK(a) /\ a.failed = FALSE /\ DOMAIN a = DOMAIN Empty
<1> DEFINE found == Expand[Seeds(terms, k)][h]
<1>1. Seeds(terms, k) \in SUBSET V
  BY PapersInGraph DEF Seeds, Titled
<1>2. found.vertices \subseteq V /\ found.edges \subseteq E
  BY <1>1, Expansion
<1>3. \E score, cited : \E T \in Tops(found.vertices, score, k), D \in cited :
        
        a = Citing(D, T, found.edges)
  BY DEF LocalAnswers
<1> HIDE DEF found
<1>4. PICK score, cited : \E T \in Tops(found.vertices, score, k), D \in cited :
        
        a = Citing(D, T, found.edges)
  BY <1>3
<1>5. PICK T \in Tops(found.vertices, score, k), D \in cited : a = Citing(D, T, found.edges)
  BY <1>4
<1>6. T \subseteq found.vertices
  BY TopsWithin
<1>7. /\ a.vertices = T /\ a.edges = found.edges /\ a.failed = FALSE
      /\ DOMAIN a = DOMAIN Empty
  BY <1>5 DEF Citing, Empty
<1>8. QED
  BY <1>2, <1>6, <1>7 DEF ReplyOK

LEMMA MergesOK ==
  ASSUME NEW terms, NEW req, NEW hits, hits \subseteq Graph.vectors, NEW local,
         ReplyOK(local), local.failed = FALSE, "vertices" \in DOMAIN local,
         NEW a \in Merges(terms, req, hits, local)
  PROVE  ReplyOK(a) /\ a.failed = FALSE
<1> DEFINE found == {[type |-> "Paper", id |-> i] : i \in hits}
           both == local.vertices \cup found
<1>1. found \subseteq Ghosts
  BY DEF Ghosts
<1>2. \E score : \E T \in Tops(both, score, req.top) : a = [local EXCEPT !.vertices = T]
  BY DEF Merges
<1>3. both \subseteq V \cup Ghosts /\ local.edges \subseteq E
  BY <1>1 DEF ReplyOK
<1> HIDE DEF both
<1>8. PICK score : \E T \in Tops(both, score, req.top) : a = [local EXCEPT !.vertices = T]
  BY <1>2
<1>4. PICK T \in Tops(both, score, req.top) : a = [local EXCEPT !.vertices = T]
  BY <1>8
<1>5. T \subseteq both
  BY <1>4, TopsWithin
<1>6. a.vertices = T /\ a.edges = local.edges /\ a.failed = local.failed
  BY <1>4
<1>7. QED
  BY <1>3, <1>5, <1>6 DEF ReplyOK

\* What an operation answers can be an answer, and did not fail.
LEMMA AnswersOK ==
  ASSUME NEW req, RequestOK(req), NEW terms, NEW hits, hits \subseteq Graph.vectors,
         NEW a \in Answers(req, terms, hits)
  PROVE  /\ ReplyOK(a) /\ a.failed = FALSE
         /\ req.op = "path_search" => a \in PathAnswers[req.on[1]][req.on[2]][req.depth]
<1>0. req.depth \in 0 .. MaxDepth /\ req.op \in Ops
  BY DEF RequestOK
<1>1. CASE req.op = "local_search"
  <2>1. a \in LocalAnswers(terms, req.depth, req.top)
    BY <1>1 DEF Answers
  <2>2. QED
    BY <1>0, <1>1, <2>1, LocalOK
<1>2. CASE req.op = "hybrid_search"
  <2>1. PICK local \in LocalAnswers(terms, req.depth, req.top) : a \in Merges(terms, req, hits, local)
    BY <1>2 DEF Answers
  <2>2. ReplyOK(local) /\ local.failed = FALSE /\ "vertices" \in DOMAIN local
    BY <1>0, <2>1, LocalOK DEF Empty
  <2>3. QED
    BY <1>2, <2>1, <2>2, MergesOK
<1>3. CASE req.op = "global_search"
  <2>1. a \in TopConcepts(req.top)
    BY <1>3 DEF Answers
  <2>2. \E S : \E C \in S : a = [Empty EXCEPT !.communities = C]
    BY <2>1 DEF TopConcepts
  <2>3. PICK C : a = [Empty EXCEPT !.communities = C]
    BY <2>2
  <2>4. a.vertices = {} /\ a.edges = {} /\ a.failed = FALSE
    BY <2>3 DEF Empty
  <2>5. QED
    BY <1>3, <2>4 DEF ReplyOK
<1>4. CASE req.op = "entity_lookup"
  <2>1. a = Lookup(req.on, req.depth)
    BY <1>4 DEF Answers
  <2> DEFINE seed == Resolved(req.on)
             x == Of(Expand[seed][req.depth])
  <2>2. seed \in SUBSET V
    BY DEF Resolved, WithId, V
  <2>3. ReplyOK(x) /\ x.failed = FALSE
    BY <1>0, <2>2, OfExpansion
  <2>4. \E docs : a = [x EXCEPT !.docs = docs]
    BY <2>1 DEF Lookup
  <2>5. DOMAIN x = DOMAIN Empty
    BY DEF Of, Empty
  <2> HIDE DEF x
  <2>6. PICK docs : a = [x EXCEPT !.docs = docs]
    BY <2>4
  <2>7. a.vertices = x.vertices /\ a.edges = x.edges /\ a.failed = x.failed
    BY <2>5, <2>6 DEF Empty
  <2>8. QED
    BY <1>4, <2>3, <2>7 DEF ReplyOK
<1>5. CASE req.op = "path_search"
  <2>1. a \in PathAnswers[req.on[1]][req.on[2]][req.depth]
    BY <1>5 DEF Answers
  <2>2. PICK i \in Ids : i = req.on[1]
    BY <1>5 DEF RequestOK
  <2>3. PICK j \in Ids : j = req.on[2]
    BY <1>5 DEF RequestOK
  <2> DEFINE x == Expand[WithId(Papers, i)][req.depth]
  <2>4. a \in PathsIn(x, i, j, req.depth)
    BY <1>0, <2>1, <2>2, <2>3 DEF PathAnswers
  <2>5. x.vertices \subseteq V
    <3>1. WithId(Papers, i) \in SUBSET V
      BY PapersInGraph DEF WithId
    <3>2. QED
      BY <1>0, <3>1, Expansion
  <2>6. a.vertices \subseteq x.vertices /\ a.edges = {} /\ a.failed = FALSE
    <3> DEFINE h == req.depth
    <3>1. a \in PathsIn(x, i, j, h)
      BY <2>4
    <3> HIDE DEF x, h
    <3>2. OnlyEnds(a, x)
      BY <3>1, PathAnswer
    <3>3. QED
      BY <3>2 DEF OnlyEnds
  <2>7. QED
    BY <2>1, <2>5, <2>6 DEF ReplyOK
<1>6. CASE req.op = "neighborhood"
  <2>1. a = Of(Expand[WithId(Papers, req.on)][req.depth])
    BY <1>6 DEF Answers
  <2>2. WithId(Papers, req.on) \in SUBSET V
    BY PapersInGraph DEF WithId
  <2>3. QED
    BY <1>0, <1>6, <2>1, <2>2, OfExpansion
<1>7. CASE req.op = "community_members"
  <2>1. a = Community(req.on)
    BY <1>7 DEF Answers
  <2>2. a.vertices = Members(req.on) /\ a.edges = {} /\ a.failed = FALSE
    BY <2>1 DEF Community, Empty
  <2>3. Members(req.on) \subseteq V
    BY PapersInGraph DEF Members
  <2>4. QED
    BY <1>7, <2>2, <2>3 DEF ReplyOK
<1>8. QED
  BY <1>0, <1>1, <1>2, <1>3, <1>4, <1>5, <1>6, <1>7 DEF Ops, QueryOf

-----------------------------------------------------------------------------
(* The calls.                                                              *)

Fields == {"at", "req", "query", "wanted", "forced", "hits", "reply", "hit", "met", "lost"}

\* A call of the adapter: what its fields hold, and why a reply failed.
FrameOK(f) ==
  /\ DOMAIN f = Fields
  /\ f.at \in Calls
  /\ IF f.at = "idle" THEN f.req.op = "none" ELSE RequestOK(f.req)
  /\ f.query \in Queries /\ f.wanted \subseteq Queries /\ f.hits \subseteq Graph.vectors
  /\ {f.forced, f.hit, f.met, f.lost} \subseteq BOOLEAN
  /\ ReplyOK(f.reply)
  /\ f.reply.failed => f.hit \/ f.met \/ f.lost
  /\ f.at = "reply" /\ f.req.op = "path_search" /\ ~f.reply.failed =>
       f.reply \in PathAnswers[f.req.on[1]][f.req.on[2]][f.req.depth]

LEMMA NoCallOK == FrameOK(NoCall) /\ NoCall.at = "idle"
BY EmptyReply DEF FrameOK, NoCall, Fields, Calls, NoRequest, Queries

LEMMA QueriesOfOps == \A op \in Ops : QueryOf[op] \in Queries
BY DEF Ops, QueryOf, Queries

\* What a call is about, as long as it lasts.
Same(g, f) == g.req = f.req /\ g.query = f.query /\ g.hits = f.hits /\ g.reply = f.reply

\* Noting why a request of a call failed.
LEMMA NotedOK ==
  ASSUME NEW t \in Threads, FrameOK(frame[t])
  PROVE  /\ FrameOK(Noted(t)) /\ Noted(t).at = frame[t].at /\ Same(Noted(t), frame[t])
         /\ Noted(t).wanted = frame[t].wanted /\ Noted(t).forced = frame[t].forced
         /\ Noted(t).lost = frame[t].lost
         /\ Noted(t).hit = (frame[t].hit \/ frame[t].query \in installed)
         /\ Noted(t).met = (frame[t].met \/ OthersInstall(t))
<1> DEFINE f == frame[t]
           g == Noted(t)
<1>1. g = [f EXCEPT !.hit = f.hit \/ f.query \in installed, !.met = f.met \/ OthersInstall(t)]
  BY DEF Noted, FrameOK, Fields
<1>2. DOMAIN f = Fields
  BY DEF FrameOK
<1> HIDE DEF f, g
<1>3. /\ g.hit = (f.hit \/ f.query \in installed) /\ g.met = (f.met \/ OthersInstall(t))
      /\ DOMAIN g = Fields /\ g.at = f.at /\ g.req = f.req /\ g.query = f.query /\ g.hits = f.hits
      /\ g.reply = f.reply /\ g.wanted = f.wanted /\ g.forced = f.forced /\ g.lost = f.lost
  BY <1>1, <1>2 DEF Fields
<1>4. f.reply.failed => g.hit \/ g.met \/ g.lost
  BY <1>3 DEF FrameOK, f
<1>5. f.hit => g.hit
  BY <1>3
<1>6. {g.forced, g.hit, g.met, g.lost} \subseteq BOOLEAN
  BY <1>3 DEF FrameOK, f
<1>7. FrameOK(g)
  BY <1>3, <1>4, <1>5, <1>6 DEF FrameOK, f
<1>8. QED
  BY <1>3, <1>7 DEF f, g, Same

\* Giving up leaves a call that goes on without vectors, or a failed reply, when
\* there is a cause.
LEMMA GiveUpOK ==
  ASSUME NEW f, FrameOK(f), f.at # "idle", f.hit \/ f.met \/ f.lost
  PROVE  FrameOK(GiveUp(f)) /\ GiveUp(f).at \in {Entry, "reply"}
<1>0. /\ DOMAIN f = Fields /\ RequestOK(f.req) /\ f.hits \subseteq Graph.vectors
      /\ f.query \in Queries /\ f.wanted \subseteq Queries
      /\ {f.forced, f.hit, f.met, f.lost} \subseteq BOOLEAN
      /\ ReplyOK(f.reply)
  BY DEF FrameOK
<1>1. Entry \in {"run", "probe"}
  BY DEF Entry
<1>2. CASE f.query = "vector_search"
  <2> DEFINE g == [f EXCEPT !.at = Entry, !.query = "local_search"]
  <2>1. GiveUp(f) = g
    BY <1>2 DEF GiveUp
  <2>2. /\ DOMAIN g = Fields /\ g.at = Entry /\ g.query = "local_search" /\ g.req = f.req
        /\ g.wanted = f.wanted /\ g.hits = f.hits /\ g.forced = f.forced /\ g.hit = f.hit
        /\ g.met = f.met /\ g.lost = f.lost /\ g.reply = f.reply
    BY <1>0 DEF Fields
  <2> HIDE DEF g
  <2>3. FrameOK(g)
    BY <1>0, <1>1, <2>2 DEF FrameOK, Calls, Queries
  <2>4. QED
    BY <2>1, <2>2, <2>3
<1>3. CASE f.query # "vector_search"
  <2> DEFINE papers == {[type |-> "Paper", id |-> i] : i \in f.hits}
             r == [Failure EXCEPT !.vertices = papers]
             g == [f EXCEPT !.at = "reply", !.reply = r]
  <2>1. GiveUp(f) = g
    BY <1>3 DEF GiveUp
  <2>2. papers \subseteq Ghosts
    BY <1>0 DEF Ghosts
  <2> HIDE DEF papers
  <2>3. r.vertices = papers /\ r.edges = {} /\ r.failed = TRUE
    BY DEF Failure, Empty
  <2>4. ReplyOK(r)
    BY <2>2, <2>3 DEF ReplyOK
  <2> HIDE DEF r
  <2>5. /\ DOMAIN g = Fields /\ g.at = "reply" /\ g.query = f.query /\ g.req = f.req
        /\ g.wanted = f.wanted /\ g.hits = f.hits /\ g.forced = f.forced /\ g.hit = f.hit
        /\ g.met = f.met /\ g.lost = f.lost /\ g.reply = r
    BY <1>0 DEF Fields
  <2> HIDE DEF g
  <2>6. FrameOK(g)
    BY <1>0, <2>3, <2>4, <2>5 DEF FrameOK, Calls
  <2>7. QED
    BY <2>1, <2>5, <2>6
<1>4. QED
  BY <1>2, <1>3

\* Thread t's call becomes g.
Becomes(t, g) == frame' = [frame EXCEPT ![t] = g]

\* A query that has run leaves the rest of the call, or its reply.
LEMMA SucceedOK ==
  ASSUME NEW t \in Threads, FrameOK(frame[t]), frame[t].at # "idle", NEW terms, Succeed(t, terms)
  PROVE  \E g : Becomes(t, g) /\ FrameOK(g) /\ g.at \in {Entry, "reply"}
<1> DEFINE f == frame[t]
<1>0. /\ DOMAIN f = Fields /\ RequestOK(f.req) /\ f.hits \subseteq Graph.vectors
      /\ f.query \in Queries /\ f.wanted \subseteq Queries
      /\ {f.forced, f.hit, f.met, f.lost} \subseteq BOOLEAN
      /\ ReplyOK(f.reply) /\ (f.reply.failed => f.hit \/ f.met \/ f.lost)
  BY DEF FrameOK
<1>1. Entry \in {"run", "probe"}
  BY DEF Entry
<1>2. CASE f.query = "vector_search"
  <2>1. PICK h \in VectorHits(f.req.on, f.req.top) :
          Set(t, [f EXCEPT !.at = Entry, !.query = "local_search", !.hits = h])
    BY <1>2 DEF Succeed
  <2>2. h \subseteq Graph.vectors
    BY TopsWithin DEF VectorHits
  <2> DEFINE g == [f EXCEPT !.at = Entry, !.query = "local_search", !.hits = h]
  <2>3. Becomes(t, g)
    BY <2>1 DEF Set, Becomes
  <2> HIDE DEF f
  <2>4. /\ DOMAIN g = Fields /\ g.at = Entry /\ g.query = "local_search" /\ g.req = f.req
        /\ g.wanted = f.wanted /\ g.hits = h /\ g.forced = f.forced /\ g.hit = f.hit
        /\ g.met = f.met /\ g.lost = f.lost /\ g.reply = f.reply
    BY <1>0 DEF Fields
  <2> HIDE DEF g
  <2>5. FrameOK(g)
    BY <1>0, <1>1, <2>2, <2>4 DEF FrameOK, Calls, Queries
  <2>6. QED
    BY <2>3, <2>4, <2>5
<1>3. CASE f.query # "vector_search"
  <2>1. PICK a \in Answers(f.req, terms, f.hits) : Set(t, [f EXCEPT !.at = "reply", !.reply = a])
    BY <1>3 DEF Succeed
  <2> DEFINE g == [f EXCEPT !.at = "reply", !.reply = a]
  <2>2. Becomes(t, g)
    BY <2>1 DEF Set, Becomes
  <2> HIDE DEF f
  <2>3. /\ ReplyOK(a) /\ a.failed = FALSE
        /\ f.req.op = "path_search" => a \in PathAnswers[f.req.on[1]][f.req.on[2]][f.req.depth]
    BY <1>0, <2>1, AnswersOK
  <2>4. /\ DOMAIN g = Fields /\ g.at = "reply" /\ g.query = f.query /\ g.req = f.req
        /\ g.wanted = f.wanted /\ g.hits = f.hits /\ g.forced = f.forced /\ g.hit = f.hit
        /\ g.met = f.met /\ g.lost = f.lost /\ g.reply = a
    BY <1>0 DEF Fields
  <2> HIDE DEF g
  <2>5. FrameOK(g)
    BY <1>0, <2>3, <2>4 DEF FrameOK, Calls
  <2>6. QED
    BY <2>2, <2>4, <2>5
<1>4. QED
  BY <1>2, <1>3

-----------------------------------------------------------------------------
(* The adapter's steps.                                                    *)

ServerOK ==
  /\ {key, ready, broken} \subseteq BOOLEAN
  /\ installed \subseteq Queries
  /\ resets \in 0 .. MaxResets /\ faults \in 0 .. MaxFaults

Frames ==
  /\ frame = [u \in Threads |-> frame[u]]
  /\ \A u \in Threads : FrameOK(frame[u])

\* Somebody's installation is under way, or the last one failed.
Unsettled == broken \/ \E u \in Threads : Installing(u)

\* A thread runs a query without the flag only while an installation is
\* unsettled: the flag was set when it got there.
ReadyInv == (\E u \in Threads : At(u, "run")) => ready \/ Unsettled

\* A query that its own call reinstalled is missing only for a cause.
RerunInv ==
  \A u \in Threads :
    frame[u].at \in {"rerun", "fallback"} /\ frame[u].query \notin installed =>
      frame[u].hit \/ frame[u].lost \/ Unsettled

AdapterInv == ServerOK /\ Frames /\ ReadyInv /\ RerunInv

\* One call changes.
LEMMA OneMoves ==
  ASSUME Frames, NEW t \in Threads, NEW g, Becomes(t, g), FrameOK(g)
  PROVE  /\ Frames'
         /\ frame'[t] = g
         /\ \A u \in Threads \ {t} : frame'[u] = frame[u]
<1>1. frame'[t] = g /\ \A u \in Threads \ {t} : frame'[u] = frame[u]
  BY DEF Frames, Becomes
<1>2. frame' = [u \in Threads |-> frame'[u]]
  BY DEF Frames, Becomes
<1>3. \A u \in Threads : FrameOK(frame'[u])
  BY <1>1 DEF Frames
<1>4. \A u \in Threads : FrameOK(frame[u])'
  BY <1>3 DEF FrameOK, ReplyOK, RequestOK
<1>5. QED
  BY <1>1, <1>2, <1>4 DEF Frames

LEMMA FaultsBounded ==
  ASSUME faults \in 0 .. MaxFaults, Fault \/ UNCHANGED faults
  PROVE  faults' \in 0 .. MaxFaults
BY AdapterConstants DEF Fault

\* A call that installs nothing goes on without installing or rerunning.
LEMMA QuietMove ==
  ASSUME AdapterInv, NEW t \in Threads, NEW g, Becomes(t, g), FrameOK(g),
         ~Installing(t), g.at \notin {"rerun", "fallback"}, g.at = "run" => ready,
         UNCHANGED <<key, installed, ready, broken, resets>>, faults' \in 0 .. MaxFaults
  PROVE  AdapterInv'
<1>1. /\ Frames' /\ frame'[t] = g
      /\ \A u \in Threads \ {t} : frame'[u] = frame[u]
  BY OneMoves DEF AdapterInv
<1>2. ServerOK'
  BY DEF AdapterInv, ServerOK
<1>3. Unsettled => Unsettled'
  BY <1>1 DEF Unsettled, Installing, At
<1>4. ReadyInv'
  <2>1. SUFFICES ASSUME NEW u \in Threads, frame'[u].at = "run" PROVE ready' \/ Unsettled'
    BY DEF ReadyInv, At
  <2>2. CASE u = t
    BY <1>1, <2>1, <2>2
  <2>3. CASE u # t
    <3>1. frame[u].at = "run"
      BY <1>1, <2>1, <2>3
    <3>2. ready \/ Unsettled
      BY <3>1 DEF AdapterInv, ReadyInv, At
    <3>3. QED
      BY <1>3, <3>2
  <2>4. QED
    BY <2>2, <2>3
<1>5. RerunInv'
  <2>1. SUFFICES ASSUME NEW u \in Threads, frame'[u].at \in {"rerun", "fallback"},
                        frame'[u].query \notin installed'
                 PROVE  frame'[u].hit \/ frame'[u].lost \/ Unsettled'
    BY DEF RerunInv
  <2>2. u # t /\ frame'[u] = frame[u]
    BY <1>1, <2>1
  <2>3. frame[u].hit \/ frame[u].lost \/ Unsettled
    BY <2>1, <2>2 DEF AdapterInv, RerunInv
  <2>4. QED
    BY <1>3, <2>2, <2>3
<1>6. QED
  BY <1>1, <1>2, <1>4, <1>5 DEF AdapterInv

\* A query that fails when it runs without the flag, or runs again, has a cause.
LEMMA RaisesExplained ==
  ASSUME AdapterInv, NEW t \in Threads,
         (At(t, "run") /\ ~ready) \/ At(t, "rerun") \/ At(t, "fallback")
  PROVE  /\ FrameOK(Noted(t)) /\ Noted(t).at = frame[t].at /\ Noted(t).query = frame[t].query
         /\ Noted(t).hit \/ Noted(t).met \/ Noted(t).lost
<1>1. FrameOK(frame[t])
  BY DEF AdapterInv, Frames
<1>2. /\ FrameOK(Noted(t)) /\ Noted(t).at = frame[t].at /\ Noted(t).query = frame[t].query
      /\ Noted(t).lost = frame[t].lost
      /\ Noted(t).hit = (frame[t].hit \/ frame[t].query \in installed)
      /\ Noted(t).met = (frame[t].met \/ OthersInstall(t))
  BY <1>1, NotedOK DEF Same
<1>3. ~Installing(t)
  BY DEF Installing, At
<1>4. Unsettled => OthersInstall(t)
  BY <1>3 DEF Unsettled, OthersInstall
<1>5. frame[t].query \in installed \/ frame[t].hit \/ frame[t].lost \/ Unsettled
  BY DEF AdapterInv, ReadyInv, RerunInv, At
<1>6. QED
  BY <1>2, <1>4, <1>5

LEMMA RunStep ==
  ASSUME AdapterInv, NEW t \in Threads, Run(t)
  PROVE  AdapterInv'
<1> DEFINE f == frame[t]
<1>0. /\ FrameOK(f) /\ f.at = "run" /\ f.at # "idle" /\ ~Installing(t)
      /\ UNCHANGED <<key, installed, broken, resets>>
  BY DEF AdapterInv, Frames, Run, At, Installing, server
<1>1. Entry = "run" => ready
  BY DEF Entry
<1>2. CASE Succeed(t, Terms(f)) /\ UNCHANGED <<ready, faults>>
  <2>1. PICK g : Becomes(t, g) /\ FrameOK(g) /\ g.at \in {Entry, "reply"}
    BY <1>0, <1>2, SucceedOK
  <2>2. g.at \notin {"rerun", "fallback"} /\ (g.at = "run" => ready)
    BY <1>1, <2>1 DEF Entry
  <2>3. faults' \in 0 .. MaxFaults
    BY <1>2 DEF AdapterInv, ServerOK
  <2>4. UNCHANGED <<key, installed, ready, broken, resets>>
    BY <1>0, <1>2
  <2>5. QED
    BY <1>0, <2>1, <2>2, <2>3, <2>4, QuietMove
<1>3. CASE /\ Raises(t) /\ ready /\ ready' = FALSE
           /\ Set(t, [Noted(t) EXCEPT !.at = "replace", !.forced = TRUE, !.wanted = Queries])
  <2> DEFINE n == Noted(t)
             g == [n EXCEPT !.at = "replace", !.forced = TRUE, !.wanted = Queries]
  <2>1. FrameOK(n) /\ n.at = "run"
    BY <1>0, NotedOK
  <2>2. Becomes(t, g)
    BY <1>3 DEF Set, Becomes
  <2>3. faults' \in 0 .. MaxFaults
    BY <1>3, FaultsBounded DEF Raises, AdapterInv, ServerOK
  <2>4. DOMAIN n = Fields
    BY <2>1 DEF FrameOK
  <2> HIDE DEF n
  <2>5. /\ DOMAIN g = Fields /\ g.at = "replace" /\ g.query = n.query /\ g.req = n.req
        /\ g.wanted = Queries /\ g.hits = n.hits /\ g.forced = TRUE /\ g.hit = n.hit
        /\ g.met = n.met /\ g.lost = n.lost /\ g.reply = n.reply
    BY <2>4 DEF Fields
  <2> HIDE DEF g
  <2>6. FrameOK(g)
    BY <2>1, <2>5 DEF FrameOK, Calls
  <2>7. /\ Frames' /\ frame'[t] = g
        /\ \A u \in Threads \ {t} : frame'[u] = frame[u]
    BY <2>2, <2>6, OneMoves DEF AdapterInv
  <2>8. Unsettled'
    BY <2>5, <2>7 DEF Unsettled, Installing, At
  <2>9. ServerOK'
    BY <1>0, <1>3, <2>3 DEF AdapterInv, ServerOK
  <2>10. QED
    BY <2>7, <2>8, <2>9 DEF AdapterInv, ReadyInv, RerunInv
<1>4. CASE Raises(t) /\ ~ready /\ UNCHANGED ready /\ Set(t, GiveUp(Noted(t)))
  <2> DEFINE g == GiveUp(Noted(t))
  <2>1. FrameOK(Noted(t)) /\ Noted(t).at # "idle" /\ (Noted(t).hit \/ Noted(t).met \/ Noted(t).lost)
    BY <1>0, <1>4, RaisesExplained DEF At
  <2>2. FrameOK(g) /\ g.at \in {Entry, "reply"}
    BY <2>1, GiveUpOK
  <2>3. Becomes(t, g)
    BY <1>4 DEF Set, Becomes
  <2>4. faults' \in 0 .. MaxFaults
    BY <1>4, FaultsBounded DEF Raises, AdapterInv, ServerOK
  <2> HIDE DEF g
  <2>5. g.at \notin {"rerun", "fallback"} /\ (g.at = "run" => ready)
    BY <1>1, <2>2 DEF Entry
  <2>6. UNCHANGED <<key, installed, ready, broken, resets>>
    BY <1>0, <1>4
  <2>7. QED
    BY <1>0, <2>2, <2>3, <2>4, <2>5, <2>6, QuietMove
<1>5. QED
  BY <1>2, <1>3, <1>4 DEF Run

\* A step that leaves an installation under way, or failed.
LEMMA BusyMove ==
  ASSUME AdapterInv, NEW t \in Threads, NEW g, Becomes(t, g), FrameOK(g),
         broken' \/ g.at \in {"replace", "install"}, ServerOK'
  PROVE  AdapterInv'
<1>1. Frames' /\ frame'[t] = g
  BY OneMoves DEF AdapterInv
<1>2. Unsettled'
  BY <1>1 DEF Unsettled, Installing, At
<1>3. QED
  BY <1>1, <1>2 DEF AdapterInv, ReadyInv, RerunInv

LEMMA ProbeStep ==
  ASSUME AdapterInv, NEW t \in Threads, Probe(t)
  PROVE  AdapterInv'
<1> DEFINE f == frame[t]
<1>0. /\ FrameOK(f) /\ DOMAIN f = Fields /\ f.at = "probe"
      /\ UNCHANGED <<key, installed, resets>>
  BY DEF AdapterInv, Frames, FrameOK, Probe, At, server
<1>1. PICK have \in {installed, {}} :
        /\ IF have = installed THEN UNCHANGED faults ELSE Fault
        /\ IF Queries \subseteq have
           THEN ready' = TRUE /\ broken' = FALSE /\ Goto(t, "run")
           ELSE /\ UNCHANGED <<ready, broken>>
                /\ Set(t, [f EXCEPT !.at = "replace", !.wanted = Queries \ have, !.forced = FALSE])
  BY DEF Probe
<1>2. faults' \in 0 .. MaxFaults
  BY <1>1, FaultsBounded DEF AdapterInv, ServerOK
<1>3. CASE Queries \subseteq have
  <2> DEFINE g == [f EXCEPT !.at = "run"]
  <2>1. Becomes(t, g) /\ ready' = TRUE /\ broken' = FALSE
    BY <1>1, <1>3 DEF Goto, Set, Becomes
  <2> HIDE DEF f
  <2>2. /\ DOMAIN g = Fields /\ g.at = "run" /\ g.query = f.query /\ g.req = f.req
        /\ g.wanted = f.wanted /\ g.hits = f.hits /\ g.forced = f.forced /\ g.hit = f.hit
        /\ g.met = f.met /\ g.lost = f.lost /\ g.reply = f.reply
    BY <1>0 DEF Fields
  <2> HIDE DEF g
  <2>3. FrameOK(g)
    BY <1>0, <2>2 DEF FrameOK, Calls
  <2>4. Frames'
    BY <2>1, <2>3, OneMoves DEF AdapterInv
  <2>5. Queries \subseteq installed
    BY <1>3 DEF Queries
  <2>6. RerunInv'
    <3>1. \A u \in Threads : frame'[u].query \in Queries
      BY <2>4 DEF Frames, FrameOK
    <3>2. QED
      BY <1>0, <2>5, <3>1 DEF RerunInv
  <2>7. ServerOK'
    BY <1>0, <1>2, <2>1 DEF AdapterInv, ServerOK
  <2>8. QED
    BY <2>1, <2>4, <2>6, <2>7 DEF AdapterInv, ReadyInv
<1>4. CASE ~(Queries \subseteq have)
  <2> DEFINE g == [f EXCEPT !.at = "replace", !.wanted = Queries \ have, !.forced = FALSE]
  <2>1. Becomes(t, g) /\ UNCHANGED <<ready, broken>>
    BY <1>1, <1>4 DEF Set, Becomes
  <2> HIDE DEF f
  <2>2. /\ DOMAIN g = Fields /\ g.at = "replace" /\ g.query = f.query /\ g.req = f.req
        /\ g.wanted = Queries \ have /\ g.hits = f.hits /\ g.forced = FALSE /\ g.hit = f.hit
        /\ g.met = f.met /\ g.lost = f.lost /\ g.reply = f.reply
    BY <1>0 DEF Fields
  <2> HIDE DEF g
  <2>3. FrameOK(g)
    BY <1>0, <2>2 DEF FrameOK, Calls
  <2>4. ServerOK'
    BY <1>0, <1>2, <2>1 DEF AdapterInv, ServerOK
  <2>5. QED
    BY <2>1, <2>2, <2>3, <2>4, BusyMove
<1>5. QED
  BY <1>3, <1>4

LEMMA ReplaceStep ==
  ASSUME AdapterInv, NEW t \in Threads, Replace(t)
  PROVE  AdapterInv'
<1> DEFINE f == frame[t]
<1>0. /\ FrameOK(f) /\ DOMAIN f = Fields /\ f.at = "replace"
      /\ UNCHANGED <<key, ready, resets>>
      /\ installed' \subseteq Queries
  BY DEF AdapterInv, ServerOK, Frames, FrameOK, Replace, At
<1>1. CASE Goto(t, "install") /\ UNCHANGED <<broken, faults>>
  <2> DEFINE g == [f EXCEPT !.at = "install"]
  <2>1. Becomes(t, g)
    BY <1>1 DEF Goto, Set, Becomes
  <2> HIDE DEF f
  <2>2. /\ DOMAIN g = Fields /\ g.at = "install" /\ g.query = f.query /\ g.req = f.req
        /\ g.wanted = f.wanted /\ g.hits = f.hits /\ g.forced = f.forced /\ g.hit = f.hit
        /\ g.met = f.met /\ g.lost = f.lost /\ g.reply = f.reply
    BY <1>0 DEF Fields
  <2> HIDE DEF g
  <2>3. FrameOK(g)
    BY <1>0, <2>2 DEF FrameOK, Calls
  <2>4. ServerOK'
    BY <1>0, <1>1 DEF AdapterInv, ServerOK
  <2>5. QED
    BY <2>1, <2>2, <2>3, <2>4, BusyMove
<1>2. CASE broken' = TRUE /\ \E q \in f.wanted :
             Fault /\ Set(t, [f EXCEPT !.at = "install", !.wanted = @ \ {q}, !.hit = TRUE])
  <2>1. PICK q : Fault /\ Set(t, [f EXCEPT !.at = "install", !.wanted = @ \ {q}, !.hit = TRUE])
    BY <1>2
  <2> DEFINE g == [f EXCEPT !.at = "install", !.wanted = @ \ {q}, !.hit = TRUE]
  <2>2. Becomes(t, g)
    BY <2>1 DEF Set, Becomes
  <2> HIDE DEF f
  <2>3. /\ DOMAIN g = Fields /\ g.at = "install" /\ g.query = f.query /\ g.req = f.req
        /\ g.wanted = f.wanted \ {q} /\ g.hits = f.hits /\ g.forced = f.forced /\ g.hit = TRUE
        /\ g.met = f.met /\ g.lost = f.lost /\ g.reply = f.reply
    BY <1>0 DEF Fields
  <2> HIDE DEF g
  <2>4. FrameOK(g)
    BY <1>0, <2>3 DEF FrameOK, Calls
  <2>5. faults' \in 0 .. MaxFaults
    BY <2>1, FaultsBounded DEF AdapterInv, ServerOK
  <2>6. ServerOK'
    BY <1>0, <1>2, <2>5 DEF AdapterInv, ServerOK
  <2>7. QED
    BY <2>2, <2>3, <2>4, <2>6, BusyMove
<1>3. QED
  BY <1>1, <1>2 DEF Replace

LEMMA InstallStep ==
  ASSUME AdapterInv, NEW t \in Threads, Install(t)
  PROVE  AdapterInv'
<1> DEFINE f == frame[t]
<1>0. FrameOK(f) /\ DOMAIN f = Fields /\ f.at = "install" /\ UNCHANGED <<key, resets>>
  BY DEF AdapterInv, Frames, FrameOK, Install, At
<1>1. CASE /\ installed' = installed \cup f.wanted
           /\ ready' = TRUE
           /\ broken' = (installed' # Queries)
           /\ Goto(t, IF f.forced THEN "rerun" ELSE "run")
           /\ UNCHANGED faults
  <2>1. PICK at \in {"rerun", "run"} : at = IF f.forced THEN "rerun" ELSE "run"
    OBVIOUS
  <2> DEFINE g == [f EXCEPT !.at = at]
  <2>2. Becomes(t, g)
    BY <1>1, <2>1 DEF Goto, Set, Becomes
  <2> HIDE DEF f
  <2>3. /\ DOMAIN g = Fields /\ g.at = at /\ g.query = f.query /\ g.req = f.req
        /\ g.wanted = f.wanted /\ g.hits = f.hits /\ g.forced = f.forced /\ g.hit = f.hit
        /\ g.met = f.met /\ g.lost = f.lost /\ g.reply = f.reply
    BY <1>0 DEF Fields
  <2> HIDE DEF g
  <2>4. FrameOK(g)
    BY <1>0, <2>3 DEF FrameOK, Calls
  <2>5. Frames'
    BY <2>2, <2>4, OneMoves DEF AdapterInv
  <2>6. RerunInv'
    <3>1. \A u \in Threads : frame'[u].query \in Queries
      BY <2>5 DEF Frames, FrameOK
    <3>2. Queries \subseteq installed' \/ broken'
      BY <1>1
    <3>3. broken' => Unsettled'
      BY DEF Unsettled
    <3>4. QED
      BY <3>1, <3>2, <3>3 DEF RerunInv
  <2>7. installed' \subseteq Queries
    BY <1>0, <1>1 DEF AdapterInv, ServerOK, FrameOK
  <2>8. ServerOK'
    BY <1>0, <1>1, <2>7 DEF AdapterInv, ServerOK
  <2>9. QED
    BY <1>1, <2>5, <2>6, <2>8 DEF AdapterInv, ReadyInv
<1>2. CASE /\ Fault
           /\ broken' = TRUE
           /\ UNCHANGED <<installed, ready>>
           /\ Set(t, GiveUp([f EXCEPT !.hit = TRUE]))
  <2> DEFINE n == [f EXCEPT !.hit = TRUE]
             g == GiveUp(n)
  <2>1. Becomes(t, g)
    BY <1>2 DEF Set, Becomes
  <2> HIDE DEF f
  <2>2. /\ DOMAIN n = Fields /\ n.at = "install" /\ n.query = f.query /\ n.req = f.req
        /\ n.wanted = f.wanted /\ n.hits = f.hits /\ n.forced = f.forced /\ n.hit = TRUE
        /\ n.met = f.met /\ n.lost = f.lost /\ n.reply = f.reply
    BY <1>0 DEF Fields
  <2> HIDE DEF n
  <2>3. FrameOK(n) /\ n.at # "idle" /\ n.hit
    BY <1>0, <2>2 DEF FrameOK, Calls
  <2>4. FrameOK(g)
    BY <2>3, GiveUpOK
  <2>5. faults' \in 0 .. MaxFaults
    BY <1>2, FaultsBounded DEF AdapterInv, ServerOK
  <2>6. ServerOK'
    BY <1>0, <1>2, <2>5 DEF AdapterInv, ServerOK
  <2> HIDE DEF g
  <2>7. QED
    BY <1>2, <2>1, <2>4, <2>6, BusyMove
<1>3. QED
  BY <1>1, <1>2 DEF Install

\* A second or third attempt that succeeds, or gives up.
LEMMA LastAttempt ==
  ASSUME AdapterInv, NEW t \in Threads, At(t, "rerun") \/ At(t, "fallback"), NEW terms,
         \/ Succeed(t, terms) /\ UNCHANGED faults
         \/ Raises(t) /\ Set(t, GiveUp(Noted(t))),
         UNCHANGED <<key, installed, ready, broken, resets>>
  PROVE  AdapterInv'
<1>1. FrameOK(frame[t]) /\ frame[t].at # "idle" /\ ~Installing(t)
  BY DEF AdapterInv, Frames, At, Installing
<1>2. faults' \in 0 .. MaxFaults
  BY FaultsBounded DEF Raises, AdapterInv, ServerOK
<1>3. \E g : Becomes(t, g) /\ FrameOK(g) /\ g.at \in {Entry, "reply"}
  <2>1. CASE Succeed(t, terms)
    BY <1>1, <2>1, SucceedOK
  <2>2. CASE Set(t, GiveUp(Noted(t)))
    <3>1. FrameOK(Noted(t)) /\ Noted(t).at # "idle" /\ (Noted(t).hit \/ Noted(t).met \/ Noted(t).lost)
      BY <1>1, RaisesExplained
    <3>2. FrameOK(GiveUp(Noted(t))) /\ GiveUp(Noted(t)).at \in {Entry, "reply"}
      BY <3>1, GiveUpOK
    <3>3. Becomes(t, GiveUp(Noted(t)))
      BY <2>2 DEF Set, Becomes
    <3>4. QED
      BY <3>2, <3>3
  <2>3. QED
    BY <2>1, <2>2
<1>4. PICK g : Becomes(t, g) /\ FrameOK(g) /\ g.at \in {Entry, "reply"}
  BY <1>3
<1>5. g.at \notin {"rerun", "fallback"} /\ (g.at = "run" => ready)
  BY <1>4 DEF Entry
<1>6. QED
  BY <1>1, <1>2, <1>4, <1>5, QuietMove

LEMMA RerunStep ==
  ASSUME AdapterInv, NEW t \in Threads, Rerun(t)
  PROVE  AdapterInv'
<1> DEFINE f == frame[t]
           n == Noted(t)
           g == [n EXCEPT !.at = "fallback"]
<1>0. /\ FrameOK(f) /\ f.at = "rerun" /\ At(t, "rerun")
      /\ UNCHANGED <<key, installed, ready, broken, resets>>
  BY DEF AdapterInv, Frames, Rerun, At, server
<1>1. CASE Succeed(t, Terms(f)) /\ UNCHANGED faults
  BY <1>0, <1>1, LastAttempt
<1>2. CASE Raises(t) /\ Set(t, GiveUp(n))
  BY <1>0, <1>2, LastAttempt
<1>3. CASE Raises(t) /\ Set(t, g)
  <2>1. FrameOK(n) /\ n.query = f.query /\ n.hit = (f.hit \/ f.query \in installed) /\ n.lost = f.lost
    BY <1>0, NotedOK DEF Same
  <2>2. DOMAIN n = Fields
    BY <2>1 DEF FrameOK
  <2>3. Becomes(t, g)
    BY <1>3 DEF Set, Becomes
  <2>4. faults' \in 0 .. MaxFaults
    BY <1>3, FaultsBounded DEF Raises, AdapterInv, ServerOK
  <2> HIDE DEF n
  <2>5. /\ DOMAIN g = Fields /\ g.at = "fallback" /\ g.query = n.query /\ g.req = n.req
        /\ g.wanted = n.wanted /\ g.hits = n.hits /\ g.forced = n.forced /\ g.hit = n.hit
        /\ g.met = n.met /\ g.lost = n.lost /\ g.reply = n.reply
    BY <2>2 DEF Fields
  <2> HIDE DEF g
  <2>6. n.at = "rerun"
    BY <1>0, NotedOK DEF n
  <2>7. FrameOK(g)
    BY <2>1, <2>5, <2>6 DEF FrameOK, Calls
  <2>8. /\ Frames' /\ frame'[t] = g
        /\ \A u \in Threads \ {t} : frame'[u] = frame[u]
    BY <2>3, <2>7, OneMoves DEF AdapterInv
  <2>9. Unsettled => Unsettled'
    BY <1>0, <2>8 DEF Unsettled, Installing, At
  <2>10. ServerOK'
    BY <1>0, <2>4 DEF AdapterInv, ServerOK
  <2>11. ReadyInv'
    <3>1. SUFFICES ASSUME NEW u \in Threads, frame'[u].at = "run" PROVE ready' \/ Unsettled'
      BY DEF ReadyInv, At
    <3>2. frame[u].at = "run"
      BY <2>5, <2>8, <3>1
    <3>3. ready \/ Unsettled
      BY <3>2 DEF AdapterInv, ReadyInv, At
    <3>4. QED
      BY <1>0, <2>9, <3>3
  <2>12. RerunInv'
    <3>1. SUFFICES ASSUME NEW u \in Threads, frame'[u].at \in {"rerun", "fallback"},
                          frame'[u].query \notin installed'
                   PROVE  frame'[u].hit \/ frame'[u].lost \/ Unsettled'
      BY DEF RerunInv
    <3>2. frame[u].at \in {"rerun", "fallback"} /\ frame[u].query \notin installed
      BY <1>0, <2>1, <2>5, <2>8, <3>1
    <3>3. frame[u].hit \/ frame[u].lost \/ Unsettled
      BY <3>2 DEF AdapterInv, RerunInv
    <3>4. frame[u].hit \/ frame[u].lost => frame'[u].hit \/ frame'[u].lost
      BY <2>1, <2>5, <2>8
    <3>5. QED
      BY <2>9, <3>3, <3>4
  <2>13. QED
    BY <2>8, <2>10, <2>11, <2>12 DEF AdapterInv
<1>4. QED
  BY <1>1, <1>2, <1>3 DEF Rerun

LEMMA FallbackStep ==
  ASSUME AdapterInv, NEW t \in Threads, Fallback(t)
  PROVE  AdapterInv'
<1>1. UNCHANGED <<key, installed, ready, broken, resets>> /\ At(t, "fallback")
  BY DEF Fallback, server
<1>2. CASE Succeed(t, {frame[t].req.on}) /\ UNCHANGED faults
  BY <1>1, <1>2, LastAttempt
<1>3. CASE Raises(t) /\ Set(t, GiveUp(Noted(t)))
  BY <1>1, <1>3, LastAttempt
<1>4. QED
  BY <1>2, <1>3 DEF Fallback

LEMMA ResetStep ==
  ASSUME AdapterInv, Reset
  PROVE  AdapterInv'
<1> DEFINE lost(f) == f.lost \/ f.at \in {"rerun", "fallback"}
<1>1. \A u \in Threads : frame'[u] = [frame[u] EXCEPT !.lost = lost(frame[u])]
  <2>1. SUFFICES ASSUME NEW u \in Threads
                 PROVE  frame'[u] = [frame[u] EXCEPT !.lost = lost(frame[u])]
    OBVIOUS
  <2>2. DOMAIN frame[u] = Fields
    BY DEF AdapterInv, Frames, FrameOK
  <2>3. frame'[u] = [frame[u] EXCEPT !.lost = @ \/ frame[u].at \in {"rerun", "fallback"}]
    BY DEF Reset
  <2>4. QED
    BY <2>2, <2>3 DEF Fields
<1>2. ASSUME NEW u \in Threads
      PROVE  /\ FrameOK(frame'[u]) /\ frame'[u].at = frame[u].at
             /\ frame'[u].at \in {"rerun", "fallback"} => frame'[u].lost
  <2> DEFINE f == frame[u]
             g == frame'[u]
             l == lost(f)
  <2>1. g = [f EXCEPT !.lost = l]
    BY <1>1
  <2>2. FrameOK(f) /\ DOMAIN f = Fields
    BY DEF AdapterInv, Frames, FrameOK
  <2>3. l \in BOOLEAN /\ (f.lost => l) /\ (f.at \in {"rerun", "fallback"} => l)
    BY <2>2 DEF FrameOK
  <2> HIDE DEF l, f, g
  <2>4. /\ DOMAIN g = Fields /\ g.at = f.at /\ g.query = f.query /\ g.req = f.req
        /\ g.wanted = f.wanted /\ g.hits = f.hits /\ g.forced = f.forced /\ g.hit = f.hit
        /\ g.met = f.met /\ g.lost = l /\ g.reply = f.reply
    BY <2>1, <2>2 DEF Fields
  <2>5. FrameOK(g)
    BY <2>2, <2>3, <2>4 DEF FrameOK
  <2>6. QED
    BY <2>3, <2>4, <2>5 DEF f, g
<1>3. frame' = [u \in Threads |-> frame'[u]]
  BY DEF Reset
<1>4. \A u \in Threads : FrameOK(frame[u])'
  BY <1>2 DEF FrameOK, ReplyOK, RequestOK
<1>5. Frames'
  BY <1>3, <1>4 DEF Frames
<1>6. UNCHANGED <<key, ready, broken, faults>> /\ installed' = {} /\ resets' \in 0 .. MaxResets
  BY AdapterConstants DEF Reset, AdapterInv, ServerOK
<1>7. Unsettled => Unsettled'
  BY <1>2, <1>6 DEF Unsettled, Installing, At
<1>8. ReadyInv'
  BY <1>2, <1>6, <1>7 DEF AdapterInv, ReadyInv, At
<1>9. RerunInv'
  BY <1>2 DEF RerunInv
<1>10. ServerOK'
  BY <1>6 DEF AdapterInv, ServerOK
<1>11. QED
  BY <1>5, <1>8, <1>9, <1>10 DEF AdapterInv

LEMMA AdapterStep ==
  ASSUME AdapterInv, NEW t \in Threads, Adapter(t)
  PROVE  AdapterInv'
BY RunStep, ProbeStep, ReplaceStep, InstallStep, RerunStep, FallbackStep DEF Adapter

\* A call begins.
LEMMA BeginOK ==
  ASSUME AdapterInv, NEW t \in Threads, ~Installing(t), NEW req, RequestOK(req), Begin(t, req),
         UNCHANGED <<key, installed, ready, broken, resets>>
  PROVE  AdapterInv' /\ frame'[t].at # "idle"
<1> DEFINE start == [NoCall EXCEPT !.at = Entry, !.req = req, !.query = QueryOf[req.op]]
<1>1. Entry \in {"run", "probe"} /\ (Entry = "run" => ready)
  BY DEF Entry
<1>2. QueryOf[req.op] \in Queries
  BY QueriesOfOps DEF RequestOK
<1>3. faults' \in 0 .. MaxFaults
  BY FaultsBounded DEF Begin, AdapterInv, ServerOK
<1>4. /\ DOMAIN start = Fields /\ start.at = Entry /\ start.query = QueryOf[req.op] /\ start.req = req
      /\ start.wanted = {} /\ start.hits = {} /\ start.forced = FALSE /\ start.hit = FALSE
      /\ start.met = FALSE /\ start.lost = FALSE /\ start.reply = Empty
  BY DEF NoCall, Fields
<1> HIDE DEF start
<1>5. FrameOK(start)
  BY <1>1, <1>2, <1>4, EmptyReply DEF FrameOK, Calls
<1>6. \E g : Becomes(t, g) /\ FrameOK(g) /\ g.at \in {Entry, "reply"}
  <2>1. CASE Set(t, start)
    BY <1>4, <1>5, <2>1 DEF Set, Becomes
  <2>2. CASE Set(t, [start EXCEPT !.query = "vector_search"])
    <3> DEFINE g == [start EXCEPT !.query = "vector_search"]
    <3>1. /\ DOMAIN g = Fields /\ g.at = start.at /\ g.query = "vector_search" /\ g.req = start.req
          /\ g.wanted = start.wanted /\ g.hits = start.hits /\ g.forced = start.forced /\ g.hit = start.hit
          /\ g.met = start.met /\ g.lost = start.lost /\ g.reply = start.reply
      BY <1>4 DEF Fields
    <3>2. Becomes(t, g)
      BY <2>2 DEF Set, Becomes
    <3> HIDE DEF g
    <3>3. FrameOK(g)
      BY <1>5, <3>1 DEF FrameOK, Queries
    <3>4. QED
      BY <1>4, <3>1, <3>2, <3>3
  <2>3. CASE req.op = "entity_lookup" /\ Set(t, [start EXCEPT !.at = "reply"])
    <3> DEFINE g == [start EXCEPT !.at = "reply"]
    <3>1. /\ DOMAIN g = Fields /\ g.at = "reply" /\ g.query = start.query /\ g.req = start.req
          /\ g.wanted = start.wanted /\ g.hits = start.hits /\ g.forced = start.forced /\ g.hit = start.hit
          /\ g.met = start.met /\ g.lost = start.lost /\ g.reply = start.reply
      BY <1>4 DEF Fields
    <3>2. Becomes(t, g)
      BY <2>3 DEF Set, Becomes
    <3> HIDE DEF g
    <3>3. FrameOK(g)
      BY <1>1, <1>4, <1>5, <2>3, <3>1 DEF FrameOK, Calls
    <3>4. QED
      BY <3>1, <3>2, <3>3
  <2>4. CASE Set(t, [start EXCEPT !.at = "reply", !.hit = TRUE, !.reply = Failure])
    <3> DEFINE g == [start EXCEPT !.at = "reply", !.hit = TRUE, !.reply = Failure]
    <3>1. /\ DOMAIN g = Fields /\ g.at = "reply" /\ g.query = start.query /\ g.req = start.req
          /\ g.wanted = start.wanted /\ g.hits = start.hits /\ g.forced = start.forced /\ g.hit = TRUE
          /\ g.met = start.met /\ g.lost = start.lost /\ g.reply = Failure
      BY <1>4 DEF Fields
    <3>2. Becomes(t, g)
      BY <2>4 DEF Set, Becomes
    <3> HIDE DEF g
    <3>3. Failure.failed = TRUE
      BY DEF Failure, Empty
    <3>4. FrameOK(g)
      BY <1>1, <1>4, <1>5, <3>1, <3>3, EmptyReply DEF FrameOK, Calls
    <3>5. QED
      BY <3>1, <3>2, <3>4
  <2>5. CASE Set(t, [start EXCEPT !.hit = TRUE])
    <3> DEFINE g == [start EXCEPT !.hit = TRUE]
    <3>1. /\ DOMAIN g = Fields /\ g.at = start.at /\ g.query = start.query /\ g.req = start.req
          /\ g.wanted = start.wanted /\ g.hits = start.hits /\ g.forced = start.forced /\ g.hit = TRUE
          /\ g.met = start.met /\ g.lost = start.lost /\ g.reply = start.reply
      BY <1>4 DEF Fields
    <3>2. Becomes(t, g)
      BY <2>5 DEF Set, Becomes
    <3> HIDE DEF g
    <3>3. FrameOK(g)
      BY <1>5, <3>1 DEF FrameOK
    <3>4. QED
      BY <1>4, <3>1, <3>2, <3>3
  <2>6. QED
    BY <2>1, <2>2, <2>3, <2>4, <2>5 DEF Begin, start
<1>7. PICK g : Becomes(t, g) /\ FrameOK(g) /\ g.at \in {Entry, "reply"}
  BY <1>6
<1>8. g.at \notin {"rerun", "fallback", "idle"} /\ (g.at = "run" => ready)
  BY <1>1, <1>7
<1>9. AdapterInv'
  BY <1>3, <1>7, <1>8, QuietMove
<1>10. frame'[t] = g
  BY <1>7, OneMoves DEF AdapterInv
<1>11. QED
  BY <1>8, <1>9, <1>10

\* A call is taken, or none is made.
LEMMA NoCallMade ==
  ASSUME AdapterInv, NEW t \in Threads, ~Installing(t), Set(t, NoCall), UNCHANGED faults,
         UNCHANGED <<key, installed, ready, broken, resets>>
  PROVE  AdapterInv' /\ frame'[t].at = "idle"
<1>1. Becomes(t, NoCall)
  BY DEF Set, Becomes
<1>2. faults' \in 0 .. MaxFaults
  BY DEF AdapterInv, ServerOK
<1>3. AdapterInv'
  BY <1>1, <1>2, NoCallOK, QuietMove
<1>4. frame'[t] = NoCall
  BY <1>1, NoCallOK, OneMoves DEF AdapterInv
<1>5. QED
  BY <1>3, <1>4, NoCallOK

-----------------------------------------------------------------------------
(* The requests.                                                           *)

LEMMA Clamped ==
  ASSUME NEW n \in Int
  PROVE  Clamp(n, 1, 10) \in 0 .. MaxDepth
<1> DEFINE least == Min({10, n})
<1>1. least = IF 10 <= n THEN 10 ELSE n
  BY OfTwo
<1>2. least \in Int /\ least <= 10
  BY <1>1
<1> HIDE DEF least
<1>3. Max({1, least}) = IF 1 <= least THEN least ELSE 1
  BY <1>2, OfTwo
<1>4. Clamp(n, 1, 10) = Max({1, least})
  BY DEF Clamp, least
<1>5. QED
  BY <1>2, <1>3, <1>4 DEF MaxDepth

\* A request is one of the adapter's operations, no deeper than the contract lets
\* it be; only path_search needs two ids that differ.
LEMMA Requests ==
  ASSUME NEW op \in Ops, NEW on, NEW depth \in 0 .. MaxDepth, NEW top,
         op = "path_search" => on[1] \in Ids /\ on[2] \in Ids /\ on[1] # on[2]
  PROVE  RequestOK(Request(op, on, depth, top))
<1>1. /\ Request(op, on, depth, top).op = op /\ Request(op, on, depth, top).on = on
      /\ Request(op, on, depth, top).depth = depth
  BY DEF Request, NoRequest
<1>2. QED
  BY <1>1 DEF RequestOK

LEMMA HybridOK ==
  ASSUME NEW q, NEW w, NEW depth \in Int, NEW top
  PROVE  RequestOK(Hybrid(q, w, depth, top))
<1> DEFINE r == Request("hybrid_search", q, Clamp(depth, 1, 10), Clamp(top, 1, 100))
           h == Hybrid(q, w, depth, top)
<1>1. r.op = "hybrid_search" /\ r.depth = Clamp(depth, 1, 10)
  BY DEF Request, NoRequest
<1>2. h.op = r.op /\ h.depth = r.depth
  BY DEF Hybrid, Request, NoRequest
<1>3. QED
  BY <1>1, <1>2, Clamped DEF RequestOK, Ops, QueryOf

LEMMA PlainOK ==
  ASSUME NEW q, NEW depth \in Int, NEW top
  PROVE  /\ RequestOK(Local(q, depth, top)) /\ RequestOK(Global(q, top))
         /\ RequestOK(Entity(q, depth)) /\ RequestOK(Near(q, depth)) /\ RequestOK(Members_(q))
<1>1. {"local_search", "global_search", "entity_lookup", "neighborhood", "community_members"} \subseteq Ops
  BY DEF Ops, QueryOf
<1>2. Clamp(depth, 1, 10) \in 0 .. MaxDepth /\ 0 \in 0 .. MaxDepth /\ 1 \in 0 .. MaxDepth
  BY Clamped DEF MaxDepth
<1>3. RequestOK(Local(q, depth, top))
  BY <1>1, <1>2, Requests DEF Local
<1>4. RequestOK(Global(q, top))
  BY <1>1, <1>2, Requests DEF Global
<1>5. RequestOK(Entity(q, depth))
  BY <1>1, <1>2, Requests DEF Entity
<1>6. RequestOK(Near(q, depth))
  BY <1>1, <1>2, Requests DEF Near
<1>7. RequestOK(Members_(q))
  BY <1>1, <1>2, Requests DEF Members_
<1>8. QED
  BY <1>3, <1>4, <1>5, <1>6, <1>7

LEMMA PathOK ==
  ASSUME NEW ends, NEW hops \in Int, ends[1] \in Ids, ends[2] \in Ids, ends[1] # ends[2]
  PROVE  RequestOK(Path(ends, hops))
<1>1. "path_search" \in Ops
  BY DEF Ops, QueryOf
<1>2. Clamp(hops, 1, 10) \in 0 .. MaxDepth
  BY Clamped
<1>3. QED
  BY <1>1, <1>2, Requests DEF Path

\* search leads to a sound request, whichever mode is asked or found.
LEMMA SearchOK ==
  ASSUME NEW q, NEW mode, NEW kwargs, kwargs # <<>> => kwargs[1] \in Int,
         NEW embeds, NEW req \in Search(q, mode, kwargs, embeds)
  PROVE  RequestOK(req)
<1>1. PICK m : req \in Routed(q, m, kwargs)
  BY DEF Search
<1>2. 1 \in Int /\ 2 \in Int
  OBVIOUS
<1>3. QED
  BY <1>1, <1>2, PlainOK, HybridOK DEF Routed

\* So does a tool call that the contract does not refuse.
LEMMA CheckedOK ==
  ASSUME NEW call \in ToolCalls, NEW embeds, NEW req \in Checked(call, embeds)
  PROVE  RequestOK(req)
<1>1. /\ call.tool \in Tools /\ call.depth \in Int /\ call.top \in Int
      /\ call.tool = "path" => call.on \in Ids \X Ids
  BY AskingConstants
<1>2. CASE call.tool = "search"
  <2> DEFINE kwargs == <<call.depth, call.top>>
  <2>1. req \in Search(call.on, call.mode, kwargs, embeds)
    BY <1>2 DEF Checked
  <2>2. kwargs[1] \in Int
    BY <1>1
  <2> HIDE DEF kwargs
  <2>3. QED
    BY <2>1, <2>2, SearchOK
<1>3. CASE call.tool = "path"
  <2>1. call.on[1] \in Ids /\ call.on[2] \in Ids
    BY <1>1, <1>3
  <2>2. call.on[1] # call.on[2] /\ req = Path(call.on, call.depth)
    BY <1>3 DEF Checked
  <2>3. QED
    BY <1>1, <2>1, <2>2, PathOK
<1>4. CASE call.tool = "hybrid"
  BY <1>1, <1>4, HybridOK DEF Checked
<1>5. CASE call.tool \in {"local", "global", "entity", "neighborhood", "community"}
  BY <1>1, <1>5, PlainOK DEF Checked
<1>6. QED
  BY <1>1, <1>2, <1>3, <1>4, <1>5 DEF Tools

-----------------------------------------------------------------------------
(* Investigations.                                                         *)

InquiryFields == {"step", "strategy", "words", "seen", "lead", "rels", "score"}

\* An investigation: the step it is at, the entities it has seen, the first two of
\* which differ, and a path between them to look for only if there are two.
InquiryOK(i) ==
  /\ DOMAIN i = InquiryFields
  /\ i.step \in 1 .. Max({1, MaxSteps}) /\ i.strategy \in Strategies
  /\ i.seen \subseteq Ids /\ IsFiniteSet(i.seen)
  /\ i.lead \in [1 .. Min({2, Cardinality(i.seen)}) -> i.seen] /\ IsInjective(i.lead)
  /\ i.strategy = "multi_hop_path" => Cardinality(i.seen) >= 2

LEMMA NoInquiryOK == InquiryOK(NoInquiry)
<1>1. Max({1, MaxSteps}) = IF 1 <= MaxSteps THEN MaxSteps ELSE 1
  <2>1. 1 \in Int /\ MaxSteps \in Int
    BY AskingConstants
  <2>2. QED
    BY <2>1, OfTwo
<1>2. 1 \in 1 .. Max({1, MaxSteps})
  BY <1>1, AskingConstants
<1>3. IsFiniteSet({}) /\ Cardinality({}) = 0
  BY FS_EmptySet
<1>4. Min({2, 0}) = 0
  BY OfTwo
<1>5. <<>> \in [1 .. 0 -> {}] /\ IsInjective(<<>>)
  BY DEF IsInjective
<1> DEFINE n == NoInquiry
<1>6. /\ DOMAIN n = InquiryFields /\ n.step = 1 /\ n.strategy = "entity_link_and_expand"
      /\ n.seen = {} /\ n.lead = <<>>
  BY DEF NoInquiry, InquiryFields
<1> HIDE DEF n
<1>7. n.lead \in [1 .. Min({2, Cardinality(n.seen)}) -> n.seen] /\ IsInjective(n.lead)
  BY <1>3, <1>4, <1>5, <1>6
<1>8. InquiryOK(n)
  BY <1>2, <1>3, <1>6, <1>7 DEF InquiryOK, Strategies
<1>9. QED
  BY <1>8 DEF n

\* The entities of a reply: finitely many ids.
LEMMA FoundIds ==
  ASSUME NEW ctx, ReplyOK(ctx)
  PROVE  IdsOf(ctx) \subseteq Ids /\ IsFiniteSet(IdsOf(ctx))
<1> DEFINE f == [x \in Graph.vectors |-> [type |-> "Paper", id |-> x]]
           g == [v \in ctx.vertices |-> v.id]
<1>1. IsFiniteSet(Ghosts)
  <2>1. f \in Surjection(Graph.vectors, Ghosts)
    <3>1. f \in [Graph.vectors -> Ghosts]
      BY DEF Ghosts
    <3>2. \A v \in Ghosts : v.id \in Graph.vectors /\ f[v.id] = v
      BY DEF Ghosts
    <3>3. QED
      BY <3>1, <3>2 DEF Surjection
  <2>2. IsFiniteSet(Graph.vectors)
    BY AdapterConstants
  <2>3. QED
    BY <2>1, <2>2, FS_Surjection
<1>2. IsFiniteSet(V)
  BY AdapterConstants DEF V
<1>3. IsFiniteSet(V \cup Ghosts)
  BY <1>1, <1>2, FS_Union
<1>4. IsFiniteSet(ctx.vertices)
  <2>1. ctx.vertices \in SUBSET (V \cup Ghosts)
    BY DEF ReplyOK
  <2>2. QED
    BY <1>3, <2>1, FS_Subset
<1>5. g \in Surjection(ctx.vertices, IdsOf(ctx))
  BY DEF IdsOf, Surjection
<1>6. IsFiniteSet(IdsOf(ctx))
  BY <1>4, <1>5, FS_Surjection
<1>7. \A v \in V \cup Ghosts : v.id \in Ids
  BY AdapterConstants DEF V, Ghosts, Vertices
<1>8. QED
  BY <1>6, <1>7 DEF ReplyOK, IdsOf

\* An investigation that takes up more entities.
LEMMA AddOK ==
  ASSUME NEW i, InquiryOK(i), NEW new, new \subseteq Ids, IsFiniteSet(new), NEW j \in Add(i, new)
  PROVE  InquiryOK(j)
<1> DEFINE seen == i.seen \cup new
<1>1. PICK s \in Leads(i, new) : j = [i EXCEPT !.seen = @ \cup new, !.lead = s]
  BY DEF Add
<1>2. s \in [1 .. Min({2, Cardinality(seen)}) -> seen] /\ IsInjective(s)
  BY DEF Leads
<1>3. /\ DOMAIN j = InquiryFields /\ j.step = i.step /\ j.strategy = i.strategy
      /\ j.seen = seen /\ j.lead = s
  BY <1>1 DEF InquiryOK, InquiryFields
<1>4. seen \subseteq Ids /\ IsFiniteSet(seen) /\ Cardinality(i.seen) <= Cardinality(seen)
  <2>1. IsFiniteSet(i.seen) /\ i.seen \subseteq Ids
    BY DEF InquiryOK
  <2>2. IsFiniteSet(seen)
    BY <2>1, FS_Union
  <2>3. i.seen \in SUBSET seen
    OBVIOUS
  <2>4. Cardinality(i.seen) <= Cardinality(seen)
    BY <2>2, <2>3, FS_Subset
  <2>5. QED
    BY <2>1, <2>2, <2>4
<1>5. Cardinality(i.seen) \in Nat /\ Cardinality(seen) \in Nat
  BY <1>4, FS_CardinalityType DEF InquiryOK
<1> HIDE DEF seen
<1>6. j.strategy = "multi_hop_path" => Cardinality(j.seen) >= 2
  BY <1>3, <1>4, <1>5 DEF InquiryOK
<1>7. QED
  BY <1>2, <1>3, <1>4, <1>6 DEF InquiryOK

\* What a strategy asks is a request the adapter takes.
LEMMA MoveOK ==
  ASSUME NEW i, InquiryOK(i), NEW q
  PROVE  RequestOK(Move(i, q))
<1>1. CASE i.strategy = "multi_hop_path"
  <2> DEFINE ends == <<i.lead[1], i.lead[2]>>
  <2>1. Cardinality(i.seen) \in Nat /\ Cardinality(i.seen) >= 2
    BY <1>1, FS_CardinalityType DEF InquiryOK
  <2>2. Min({2, Cardinality(i.seen)}) = 2
    BY <2>1, OfTwo
  <2>3. i.lead \in [1 .. 2 -> i.seen] /\ IsInjective(i.lead)
    BY <2>2 DEF InquiryOK
  <2>4. i.lead[1] \in Ids /\ i.lead[2] \in Ids
    BY <2>3 DEF InquiryOK
  <2>5. i.lead[1] # i.lead[2]
    <3>1. 1 \in DOMAIN i.lead /\ 2 \in DOMAIN i.lead /\ 1 # 2
      BY <2>3
    <3>2. QED
      BY <2>3, <3>1 DEF IsInjective
  <2>6. ends[1] \in Ids /\ ends[2] \in Ids /\ ends[1] # ends[2]
    BY <2>4, <2>5
  <2> HIDE DEF ends
  <2>7. RequestOK(Path(ends, 4))
    BY <2>6, PathOK
  <2>8. Move(i, q) = Path(ends, 4)
    BY <1>1 DEF Move, ends
  <2>9. QED
    BY <2>7, <2>8
<1>2. CASE i.strategy # "multi_hop_path"
  <2>1. 1 \in Int /\ 2 \in Int
    OBVIOUS
  <2>2. RequestOK(Near(i.lead[1], 2)) /\ RequestOK(Global(q, 3)) /\ RequestOK(Local(q, 1, 5))
    BY <2>1, PlainOK
  <2>3. QED
    BY <1>2, <2>2 DEF Move
<1>3. QED
  BY <1>1, <1>2

-----------------------------------------------------------------------------
(* The tasks.                                                              *)

TaskFields == {"kind", "stage", "asked", "pipeline", "mode", "inquiry", "rows", "attempts"}

\* The stages at which a task can be in a call of the adapter.
Waiting == {"reply", "link", "explore", "row", "answer"}

TaskOK(k) ==
  /\ DOMAIN k = TaskFields
  /\ k.kind \in Kinds /\ k.stage \in Stages /\ InquiryOK(k.inquiry)
  /\ k.kind = "none" => k.stage = "none"

Tasked ==
  /\ task = [u \in Threads |-> task[u]]
  /\ \A u \in Threads : TaskOK(task[u])
  /\ \A u \in Threads : frame[u].at = "idle" \/ task[u].stage \in Waiting
  /\ tasks \in 0 .. MaxTasks

IInv == AdapterInv /\ Tasked

LEMMA NoTaskOK == TaskOK(NoTask)
BY NoInquiryOK DEF TaskOK, NoTask, TaskFields, Kinds, Stages

\* Thread t moves from a state in which it installs nothing.
Acts(t) ==
  /\ IInv /\ ~Installing(t)
  /\ UNCHANGED <<key, installed, ready, broken, resets>>
  /\ tasks' \in 0 .. MaxTasks

LEMMA OneTask ==
  ASSUME NEW t \in Threads, Acts(t), NEW k, TaskOK(k), Become(t, k), AdapterInv',
         \A u \in Threads \ {t} : frame'[u].at = frame[u].at,
         frame'[t].at = "idle" \/ k.stage \in Waiting
  PROVE  IInv'
<1>1. task'[t] = k /\ \A u \in Threads \ {t} : task'[u] = task[u]
  BY DEF Acts, IInv, Tasked, Become
<1>2. task' = [u \in Threads |-> task'[u]]
  BY DEF Acts, IInv, Tasked, Become
<1>3. \A u \in Threads : TaskOK(task'[u])
  BY <1>1 DEF Acts, IInv, Tasked
<1>4. \A u \in Threads : TaskOK(task[u])'
  BY <1>3 DEF TaskOK, InquiryOK
<1>5. \A u \in Threads : frame'[u].at = "idle" \/ task'[u].stage \in Waiting
  BY <1>1 DEF Acts, IInv, Tasked
<1>6. Tasked'
  BY <1>2, <1>4, <1>5 DEF Tasked, Acts
<1>7. QED
  BY <1>6 DEF IInv

\* The other threads' calls stay as they are.
LEMMA OthersStay ==
  ASSUME NEW t \in Threads, IInv, NEW g, Set(t, g)
  PROVE  \A u \in Threads \ {t} : frame'[u].at = frame[u].at
BY DEF Set, IInv, AdapterInv, Frames

\* A task goes on with a call.
LEMMA CallStep ==
  ASSUME NEW t \in Threads, Acts(t), NEW req, RequestOK(req), NEW k, TaskOK(k), k.stage \in Waiting,
         CallThen(t, req, k)
  PROVE  IInv'
<1>1. Begin(t, req) /\ Become(t, k)
  BY DEF CallThen
<1>2. AdapterInv'
  BY <1>1, BeginOK DEF Acts, IInv
<1>3. \E g : Set(t, g)
  BY <1>1 DEF Begin
<1>4. \A u \in Threads \ {t} : frame'[u].at = frame[u].at
  BY <1>3, OthersStay DEF Acts
<1>5. QED
  BY <1>1, <1>2, <1>4, OneTask

\* A task goes on without one.
LEMMA FreeStep ==
  ASSUME NEW t \in Threads, Acts(t), NEW k, TaskOK(k), WithoutCall(t, k)
  PROVE  IInv'
<1>1. Set(t, NoCall) /\ Become(t, k) /\ UNCHANGED faults
  BY DEF WithoutCall
<1>2. AdapterInv' /\ frame'[t].at = "idle"
  BY <1>1, NoCallMade DEF Acts, IInv
<1>3. \A u \in Threads \ {t} : frame'[u].at = frame[u].at
  BY <1>1, OthersStay DEF Acts
<1>4. QED
  BY <1>1, <1>2, <1>3, OneTask

\* A task that is served, and an investigation of it.
Served(k) == DOMAIN k = TaskFields /\ k.kind \in Kinds \ {"none"}

LEMMA Rewritten ==
  ASSUME NEW k, Served(k), NEW stage \in Stages, NEW i, InquiryOK(i)
  PROVE  /\ TaskOK([k EXCEPT !.stage = stage, !.inquiry = i])
         /\ [k EXCEPT !.stage = stage, !.inquiry = i].stage = stage
<1> DEFINE g == [k EXCEPT !.stage = stage, !.inquiry = i]
<1>1. DOMAIN g = TaskFields /\ g.kind = k.kind /\ g.stage = stage /\ g.inquiry = i
  BY DEF Served, TaskFields
<1> HIDE DEF g
<1>2. TaskOK(g) /\ g.stage = stage
  BY <1>1 DEF TaskOK, Served
<1>3. QED
  BY <1>2 DEF g

LEMMA PursueStep ==
  ASSUME NEW t \in Threads, Acts(t), NEW k, Served(k), NEW i, InquiryOK(i), Pursue(t, k, i)
  PROVE  IInv'
<1>1. CASE i.step < MaxSteps /\ (i.step = 1 \/ i.score < Target)
  <2> DEFINE n == [i EXCEPT !.step = @ + 1]
             g == [k EXCEPT !.stage = "explore", !.inquiry = n]
  <2>1. CallThen(t, Move(n, Question(k)), g)
    BY <1>1 DEF Pursue
  <2>2. InquiryOK(n)
    <3>1. /\ DOMAIN n = InquiryFields /\ n.step = i.step + 1 /\ n.strategy = i.strategy
          /\ n.seen = i.seen /\ n.lead = i.lead
      BY DEF InquiryOK, InquiryFields
    <3>2. 1 \in Int /\ MaxSteps \in Int
      BY AskingConstants
    <3>3. Max({1, MaxSteps}) = IF 1 <= MaxSteps THEN MaxSteps ELSE 1
      BY <3>2, OfTwo
    <3>4. i.step \in Int /\ i.step >= 1
      BY <3>2, <3>3 DEF InquiryOK
    <3>5. i.step + 1 \in 1 .. Max({1, MaxSteps})
      BY <1>1, <3>2, <3>3, <3>4
    <3> HIDE DEF n
    <3>6. QED
      BY <3>1, <3>5 DEF InquiryOK
  <2> HIDE DEF n
  <2>3. RequestOK(Move(n, Question(k)))
    BY <2>2, MoveOK
  <2>4. TaskOK(g) /\ g.stage = "explore"
    <3>1. "explore" \in Stages
      BY DEF Stages
    <3>2. QED
      BY <2>2, <3>1, Rewritten
  <2>5. g.stage \in Waiting
    BY <2>4 DEF Waiting
  <2> HIDE DEF g
  <2>6. QED
    BY <2>1, <2>3, <2>4, <2>5, CallStep
<1>2. CASE ~(i.step < MaxSteps /\ (i.step = 1 \/ i.score < Target))
  <2> DEFINE g == [k EXCEPT !.stage = "conclude", !.inquiry = i]
  <2>1. WithoutCall(t, g)
    BY <1>2 DEF Pursue
  <2>2. TaskOK(g)
    BY Rewritten DEF Stages
  <2> HIDE DEF g
  <2>3. QED
    BY <2>1, <2>2, FreeStep
<1>3. QED
  BY <1>1, <1>2

LEMMA LinkStep ==
  ASSUME NEW t \in Threads, Acts(t), NEW k, Served(k), NEW i, InquiryOK(i), Link(t, k, i)
  PROVE  IInv'
<1>1. CASE i.words # <<>>
  <2> DEFINE n == [i EXCEPT !.words = Tail(@)]
             g == [k EXCEPT !.stage = "link", !.inquiry = n]
             req == Entity(Head(i.words), 1)
  <2>1. CallThen(t, req, g)
    BY <1>1 DEF Link
  <2>2. InquiryOK(n)
    <3>1. /\ DOMAIN n = InquiryFields /\ n.step = i.step /\ n.strategy = i.strategy
          /\ n.seen = i.seen /\ n.lead = i.lead
      BY DEF InquiryOK, InquiryFields
    <3> HIDE DEF n
    <3>2. QED
      BY <3>1 DEF InquiryOK
  <2>3. RequestOK(req)
    BY PlainOK
  <2> HIDE DEF n, req
  <2>4. TaskOK(g) /\ g.stage = "link"
    <3>1. "link" \in Stages
      BY DEF Stages
    <3>2. QED
      BY <2>2, <3>1, Rewritten
  <2>5. g.stage \in Waiting
    BY <2>4 DEF Waiting
  <2> HIDE DEF g
  <2>6. QED
    BY <2>1, <2>3, <2>4, <2>5, CallStep
<1>2. CASE i.words = <<>>
  <2> DEFINE n == [i EXCEPT !.strategy = "keyword_local_search"]
             j == IF i.seen # {} THEN i ELSE n
  <2>1. Pursue(t, k, j)
    BY <1>2 DEF Link
  <2>2. InquiryOK(n)
    <3>1. /\ DOMAIN n = InquiryFields /\ n.step = i.step /\ n.strategy = "keyword_local_search"
          /\ n.seen = i.seen /\ n.lead = i.lead
      BY DEF InquiryOK, InquiryFields
    <3> HIDE DEF n
    <3>2. QED
      BY <3>1 DEF InquiryOK, Strategies
  <2>3. InquiryOK(j)
    BY <2>2
  <2> HIDE DEF j
  <2>4. QED
    BY <2>1, <2>3, PursueStep
<1>3. QED
  BY <1>1, <1>2

\* An investigation begins with its first word.
LEMMA InquireStep ==
  ASSUME NEW t \in Threads, Acts(t), NEW k, Served(k), Inquire(t, k)
  PROVE  IInv'
<1> DEFINE words == SubSeq(Tokens[Question(k)], 1, Min({3, Len(Tokens[Question(k)])}))
           i == [NoInquiry EXCEPT !.words = words]
           o == NoInquiry
<1>1. Link(t, k, i)
  BY DEF Inquire
<1> HIDE DEF words
<1>2. /\ DOMAIN i = InquiryFields /\ i.step = o.step /\ i.strategy = o.strategy
      /\ i.seen = o.seen /\ i.lead = o.lead
  BY DEF NoInquiry, InquiryFields
<1> HIDE DEF i
<1>3. InquiryOK(i)
  BY <1>2, NoInquiryOK DEF InquiryOK, InquiryFields
<1>4. QED
  BY <1>1, <1>3, LinkStep

\* A task that begins, or takes a reply, installs nothing; neither does one that
\* is between two calls.
LEMMA Moving ==
  ASSUME NEW t \in Threads, IInv, UNCHANGED <<server, ready, broken, resets>>,
         \/ (Begins(t, 1) \/ Begins(t, 2))
         \/ UNCHANGED tasks /\ (At(t, "reply") \/ frame[t].at = "idle" \/ task[t].stage \notin Waiting)
  PROVE  Acts(t)
<1>1. UNCHANGED <<key, installed, ready, broken, resets>>
  BY DEF server
<1>2. tasks \in Nat /\ MaxTasks \in Nat
  BY AskingConstants DEF IInv, Tasked
<1>3. tasks' \in 0 .. MaxTasks
  <2>1. CASE Begins(t, 1)
    BY <1>2, <2>1 DEF Begins
  <2>2. CASE Begins(t, 2)
    BY <1>2, <2>2 DEF Begins
  <2>3. CASE UNCHANGED tasks
    BY <2>3 DEF IInv, Tasked
  <2>4. QED
    BY <2>1, <2>2, <2>3
<1>4. task[t].kind = "none" => task[t].stage \notin Waiting
  BY DEF IInv, Tasked, TaskOK, Waiting
<1>5. frame[t].at = "idle" \/ At(t, "reply")
  BY <1>4 DEF Begins, IInv, Tasked
<1>6. ~Installing(t)
  BY <1>5 DEF Installing, At
<1>7. QED
  BY <1>1, <1>3, <1>6 DEF Acts

LEMMA CallToolStep ==
  ASSUME NEW t \in Threads, IInv, CallTool(t)
  PROVE  IInv'
<1> DEFINE k == [NoTask EXCEPT !.kind = "tool", !.stage = "reply"]
<1>1. Acts(t)
  BY Moving DEF CallTool
<1>2. PICK call \in ToolCalls, embeds \in Embedded : CallOrFree(t, Checked(call, embeds), k)
  BY DEF CallTool
<1>3. k.stage = "reply" /\ TaskOK(k)
  <2>1. DOMAIN k = TaskFields /\ k.kind = "tool" /\ k.stage = "reply" /\ k.inquiry = NoInquiry
    BY DEF NoTask, TaskFields
  <2> HIDE DEF k
  <2>2. QED
    BY <2>1, NoInquiryOK DEF TaskOK, Kinds, Stages
<1> HIDE DEF k
<1>4. CASE \E req \in Checked(call, embeds) : CallThen(t, req, k)
  <2>1. PICK req \in Checked(call, embeds) : CallThen(t, req, k)
    BY <1>4
  <2>2. RequestOK(req)
    BY CheckedOK
  <2>3. k.stage \in Waiting
    BY <1>3 DEF Waiting
  <2>4. QED
    BY <1>1, <1>3, <2>1, <2>2, <2>3, CallStep
<1>5. CASE Free(t)
  BY <1>1, <1>5, NoTaskOK, FreeStep DEF Free
<1>6. QED
  BY <1>2, <1>4, <1>5 DEF CallOrFree

LEMMA ToolAnswersStep ==
  ASSUME NEW t \in Threads, IInv, ToolAnswers(t)
  PROVE  IInv'
<1>1. Acts(t)
  BY Moving DEF ToolAnswers, Awaits
<1>2. WithoutCall(t, NoTask)
  BY DEF ToolAnswers, Free
<1>3. QED
  BY <1>1, <1>2, NoTaskOK, FreeStep

LEMMA InvestigateStep ==
  ASSUME NEW t \in Threads, IInv, Investigate(t)
  PROVE  IInv'
<1>1. Acts(t)
  BY Moving DEF Investigate
<1>2. PICK q \in Questions : Inquire(t, [NoTask EXCEPT !.kind = "investigate", !.asked = <<q>>])
  BY DEF Investigate
<1> DEFINE k == [NoTask EXCEPT !.kind = "investigate", !.asked = <<q>>]
<1>3. Served(k)
  BY DEF Served, NoTask, TaskFields, Kinds
<1> HIDE DEF k
<1>4. Inquire(t, k)
  BY <1>2 DEF k
<1>5. QED
  BY <1>1, <1>3, <1>4, InquireStep

\* A thread that takes a reply serves a task.
LEMMA TakesReply ==
  ASSUME NEW t \in Threads, IInv, NEW stages, Awaits(t, stages)
  PROVE  Served(task[t]) /\ InquiryOK(task[t].inquiry) /\ ReplyOK(frame[t].reply)
<1>1. frame[t].at = "reply" /\ frame[t].at # "idle"
  BY DEF Awaits, At
<1>2. task[t].stage \in Waiting /\ TaskOK(task[t])
  BY <1>1 DEF IInv, Tasked
<1>3. task[t].kind # "none"
  BY <1>2 DEF TaskOK, Waiting
<1>4. FrameOK(frame[t])
  BY DEF IInv, AdapterInv, Frames
<1>5. QED
  BY <1>2, <1>3, <1>4 DEF TaskOK, Served, FrameOK

LEMMA LinkedStep ==
  ASSUME NEW t \in Threads, IInv, Linked(t)
  PROVE  IInv'
<1> DEFINE found == IdsOf(frame[t].reply)
<1>1. Acts(t)
  BY Moving DEF Linked, Awaits
<1>2. Served(task[t]) /\ InquiryOK(task[t].inquiry) /\ ReplyOK(frame[t].reply)
  BY TakesReply DEF Linked
<1>3. PICK two \in kSubset(Min({2, Cardinality(found)}), found) :
        \E i \in Add(task[t].inquiry, two) : Link(t, task[t], i)
  BY DEF Linked
<1>4. PICK i \in Add(task[t].inquiry, two) : Link(t, task[t], i)
  BY <1>3
<1>5. two \subseteq found
  BY DEF kSubset
<1>6. found \subseteq Ids /\ IsFiniteSet(found)
  BY <1>2, FoundIds
<1> HIDE DEF found
<1>7. two \subseteq Ids /\ IsFiniteSet(two)
  <2>1. two \in SUBSET found
    BY <1>5
  <2>2. QED
    BY <1>6, <2>1, FS_Subset
<1>8. InquiryOK(i)
  BY <1>2, <1>7, AddOK
<1>9. QED
  BY <1>1, <1>2, <1>4, <1>8, LinkStep

\* The strategy and the number of relationships can change freely, but for a
\* path that needs two ends.
LEMMA Turned ==
  ASSUME NEW i, InquiryOK(i), NEW s \in Strategies, NEW n,
         s = "multi_hop_path" => Cardinality(i.seen) >= 2
  PROVE  InquiryOK([i EXCEPT !.rels = n, !.strategy = s]) /\ InquiryOK([i EXCEPT !.strategy = s])
<1>1. InquiryOK([i EXCEPT !.strategy = s])
  <2> DEFINE j == [i EXCEPT !.strategy = s]
  <2>1. /\ DOMAIN j = InquiryFields /\ j.step = i.step /\ j.strategy = s
        /\ j.seen = i.seen /\ j.lead = i.lead
    BY DEF InquiryOK, InquiryFields
  <2> HIDE DEF j
  <2>2. InquiryOK(j)
    BY <2>1 DEF InquiryOK
  <2>3. QED
    BY <2>2 DEF j
<1>2. InquiryOK([i EXCEPT !.rels = n, !.strategy = s])
  <2> DEFINE j == [i EXCEPT !.rels = n, !.strategy = s]
  <2>1. /\ DOMAIN j = InquiryFields /\ j.step = i.step /\ j.strategy = s
        /\ j.seen = i.seen /\ j.lead = i.lead
    BY DEF InquiryOK, InquiryFields
  <2> HIDE DEF j
  <2>2. InquiryOK(j)
    BY <2>1 DEF InquiryOK
  <2>3. QED
    BY <2>2 DEF j
<1>3. QED
  BY <1>1, <1>2

LEMMA WeighedOK ==
  ASSUME NEW t, NEW i, InquiryOK(i)
  PROVE  InquiryOK(Weighed(t, i))
<1> DEFINE s == Sufficiency(Question(task[t]), i)
           j == [i EXCEPT !.score = s]
<1>1. Weighed(t, i) = j
  BY DEF Weighed
<1> HIDE DEF s
<1>2. /\ DOMAIN j = InquiryFields /\ j.step = i.step /\ j.strategy = i.strategy
      /\ j.seen = i.seen /\ j.lead = i.lead
  BY DEF InquiryOK, InquiryFields
<1> HIDE DEF j
<1>3. InquiryOK(j)
  BY <1>2 DEF InquiryOK
<1>4. QED
  BY <1>1, <1>3

LEMMA AdvancedOK ==
  ASSUME NEW i, InquiryOK(i), NEW ctx, ReplyOK(ctx), NEW j \in Advanced(i, ctx)
  PROVE  InquiryOK(j)
<1>1. IdsOf(ctx) \subseteq Ids /\ IsFiniteSet(IdsOf(ctx))
  BY FoundIds
<1>2. \A k \in Add(i, IdsOf(ctx)) : InquiryOK(k)
  BY <1>1, AddOK
<1>3. CASE i.strategy = "entity_link_and_expand"
  <2>1. PICK k \in Add(i, IdsOf(ctx)) : j = Expanded(k, ctx)
    BY <1>3 DEF Advanced
  <2> DEFINE n == k.rels + Cardinality(ctx.edges)
             s == IF Cardinality(k.seen) >= 2 THEN "multi_hop_path" ELSE "verify_evidence"
  <2>2. InquiryOK(k)
    BY <1>2
  <2>3. j = [k EXCEPT !.rels = n, !.strategy = s]
    BY <2>1 DEF Expanded
  <2>4. s \in Strategies /\ (s = "multi_hop_path" => Cardinality(k.seen) >= 2)
    BY DEF Strategies
  <2> HIDE DEF n, s
  <2>5. InquiryOK([k EXCEPT !.rels = n, !.strategy = s])
    BY <2>2, <2>4, Turned
  <2>6. QED
    BY <2>3, <2>5
<1>4. CASE i.strategy = "multi_hop_path" \/ i.strategy = "community_global_search"
  <2>1. PICK s \in {"community_global_search", "verify_evidence"} : j = [i EXCEPT !.strategy = s]
    BY <1>4 DEF Advanced
  <2>2. s \in Strategies /\ s # "multi_hop_path"
    BY DEF Strategies
  <2>3. InquiryOK([i EXCEPT !.strategy = s])
    BY <2>2, Turned
  <2>4. QED
    BY <2>1, <2>3
<1>5. CASE i.strategy \notin {"entity_link_and_expand", "multi_hop_path", "community_global_search"}
  <2>1. j \in Add(i, IdsOf(ctx))
    BY <1>5 DEF Advanced
  <2>2. QED
    BY <1>2, <2>1
<1>6. QED
  BY <1>3, <1>4, <1>5

LEMMA ExploredStep ==
  ASSUME NEW t \in Threads, IInv, Explored(t)
  PROVE  IInv'
<1>1. Acts(t)
  BY Moving DEF Explored, Awaits
<1>2. Served(task[t]) /\ InquiryOK(task[t].inquiry) /\ ReplyOK(frame[t].reply)
  BY TakesReply DEF Explored
<1>3. PICK i \in Advanced(task[t].inquiry, frame[t].reply) : Pursue(t, task[t], Weighed(t, i))
  BY DEF Explored
<1>4. InquiryOK(Weighed(t, i))
  BY <1>2, AdvancedOK, WeighedOK
<1>5. QED
  BY <1>1, <1>2, <1>3, <1>4, PursueStep

LEMMA RunPipelinesStep ==
  ASSUME NEW t \in Threads, IInv, RunPipelines(t)
  PROVE  IInv'
<1>1. Acts(t)
  BY Moving DEF RunPipelines
<1>2. PICK q \in Questions :
        \E pipeline \in {"agent", "search"}, mode \in AskedModes :
          WithoutCall(t, [NoTask EXCEPT !.kind = "pipelines", !.stage = "row", !.asked = <<q>>,
                                        !.pipeline = pipeline, !.mode = mode])
  BY DEF RunPipelines
<1>3. PICK pipeline \in {"agent", "search"}, mode \in AskedModes :
        WithoutCall(t, [NoTask EXCEPT !.kind = "pipelines", !.stage = "row", !.asked = <<q>>,
                                      !.pipeline = pipeline, !.mode = mode])
  BY <1>2
<1> DEFINE k == [NoTask EXCEPT !.kind = "pipelines", !.stage = "row", !.asked = <<q>>,
                               !.pipeline = pipeline, !.mode = mode]
<1>4. DOMAIN k = TaskFields /\ k.kind = "pipelines" /\ k.stage = "row" /\ k.inquiry = NoInquiry
  BY DEF NoTask, TaskFields
<1>5. WithoutCall(t, k)
  BY <1>3
<1> HIDE DEF k
<1>6. TaskOK(k)
  BY <1>4, NoInquiryOK DEF TaskOK, Kinds, Stages
<1>7. QED
  BY <1>1, <1>5, <1>6, FreeStep

LEMMA EvaluateReportStep ==
  ASSUME NEW t \in Threads, IInv, EvaluateReport(t)
  PROVE  IInv'
<1>1. Acts(t)
  BY Moving DEF EvaluateReport
<1>2. PICK qs \in QuerySets :
        \E pipeline \in {"basic_rag", "graphrag"}, mode \in AskedModes :
          WithoutCall(t, [NoTask EXCEPT !.kind = "report", !.stage = "retrieve", !.asked = qs,
                                        !.pipeline = pipeline, !.mode = mode])
  BY DEF EvaluateReport
<1>3. PICK pipeline \in {"basic_rag", "graphrag"}, mode \in AskedModes :
        WithoutCall(t, [NoTask EXCEPT !.kind = "report", !.stage = "retrieve", !.asked = qs,
                                      !.pipeline = pipeline, !.mode = mode])
  BY <1>2
<1> DEFINE k == [NoTask EXCEPT !.kind = "report", !.stage = "retrieve", !.asked = qs,
                               !.pipeline = pipeline, !.mode = mode]
<1>4. DOMAIN k = TaskFields /\ k.kind = "report" /\ k.stage = "retrieve" /\ k.inquiry = NoInquiry
  BY DEF NoTask, TaskFields
<1>5. WithoutCall(t, k)
  BY <1>3
<1> HIDE DEF k
<1>6. TaskOK(k)
  BY <1>4, NoInquiryOK DEF TaskOK, Kinds, Stages
<1>7. QED
  BY <1>1, <1>5, <1>6, FreeStep

\* A served task at another stage.
LEMMA AtStage ==
  ASSUME NEW k, Served(k), InquiryOK(k.inquiry), NEW stage \in Stages
  PROVE  TaskOK([k EXCEPT !.stage = stage]) /\ [k EXCEPT !.stage = stage].stage = stage
<1> DEFINE g == [k EXCEPT !.stage = stage]
<1>1. DOMAIN g = TaskFields /\ g.kind = k.kind /\ g.stage = stage /\ g.inquiry = k.inquiry
  BY DEF Served, TaskFields
<1> HIDE DEF g
<1>2. TaskOK(g) /\ g.stage = stage
  BY <1>1 DEF TaskOK, Served
<1>3. QED
  BY <1>2 DEF g

LEMMA NextQueryOK ==
  ASSUME NEW k, Served(k), InquiryOK(k.inquiry)
  PROVE  TaskOK(NextQuery(k))
<1>1. CASE Len(k.asked) = 1
  BY <1>1, NoTaskOK DEF NextQuery
<1>2. CASE Len(k.asked) # 1
  <2> DEFINE g == [k EXCEPT !.asked = Tail(@), !.stage = "retrieve"]
  <2>1. DOMAIN g = TaskFields /\ g.kind = k.kind /\ g.stage = "retrieve" /\ g.inquiry = k.inquiry
    BY DEF Served, TaskFields
  <2>2. NextQuery(k) = g
    BY <1>2 DEF NextQuery
  <2> HIDE DEF g
  <2>3. TaskOK(g)
    BY <2>1 DEF TaskOK, Served, Stages
  <2>4. QED
    BY <2>2, <2>3
<1>3. QED
  BY <1>1, <1>2

\* A task that is between two calls.
LEMMA IdleTask ==
  ASSUME NEW t \in Threads, IInv, task[t].stage \in {"retrieve", "judge", "conclude", "row"}
  PROVE  Served(task[t]) /\ InquiryOK(task[t].inquiry)
BY DEF IInv, Tasked, TaskOK, Served

LEMMA RetrieveStep ==
  ASSUME NEW t \in Threads, IInv, Retrieve(t)
  PROVE  IInv'
<1> DEFINE k == task[t]
           q == Question(k)
<1>0. k.stage = "retrieve"
  BY DEF Retrieve
<1>1. Acts(t)
  BY <1>0, Moving DEF Retrieve, Waiting
<1>2. Served(k) /\ InquiryOK(k.inquiry)
  BY <1>0, IdleTask
<1>3. {"answer", "row"} \subseteq Stages /\ {"answer", "row"} \subseteq Waiting
  BY DEF Stages, Waiting
<1>4. ASSUME NEW req, RequestOK(req), NEW stage \in {"answer", "row"},
             CallThen(t, req, [k EXCEPT !.stage = stage])
      PROVE  IInv'
  <2> DEFINE g == [k EXCEPT !.stage = stage]
  <2>1. TaskOK(g) /\ g.stage = stage
    BY <1>2, <1>3, AtStage
  <2>2. g.stage \in Waiting
    BY <1>3, <2>1
  <2>3. CallThen(t, req, g)
    BY <1>4
  <2> HIDE DEF g
  <2>4. QED
    BY <1>1, <1>4, <2>1, <2>2, <2>3, CallStep
<1>5. CASE k.pipeline = "basic_rag" \/ (k.kind = "pipelines" /\ k.rows = 1)
  <2>1. PICK stage \in {"answer", "row"} : CallThen(t, Local(q, 1, 5), [k EXCEPT !.stage = stage])
    BY <1>5 DEF Retrieve
  <2>2. RequestOK(Local(q, 1, 5))
    BY PlainOK
  <2>3. QED
    BY <1>4, <2>1, <2>2
<1>6. CASE Inquire(t, k)
  BY <1>1, <1>2, <1>6, InquireStep
<1>7. CASE ~(k.pipeline = "basic_rag" \/ (k.kind = "pipelines" /\ k.rows = 1)) /\ k.pipeline # "agent"
  <2>1. PICK embeds \in Embedded :
          LET reqs == Search(q, k.mode, <<>>, embeds) IN
          IF k.kind = "pipelines" THEN CallOrFree(t, reqs, [k EXCEPT !.stage = "row"])
          ELSE \/ \E req \in reqs : CallThen(t, req, [k EXCEPT !.stage = "answer"])
               \/ reqs = {} /\ WithoutCall(t, NextQuery(k))
    BY <1>7 DEF Retrieve
  <2> DEFINE reqs == Search(q, k.mode, <<>>, embeds)
  <2>2. \A req \in reqs : RequestOK(req)
    BY SearchOK
  <2>3. \/ \E req \in reqs, stage \in {"answer", "row"} : CallThen(t, req, [k EXCEPT !.stage = stage])
        \/ WithoutCall(t, NoTask) \/ WithoutCall(t, NextQuery(k))
    BY <2>1 DEF CallOrFree, Free
  <2> HIDE DEF reqs
  <2>4. CASE \E req \in reqs, stage \in {"answer", "row"} : CallThen(t, req, [k EXCEPT !.stage = stage])
    BY <1>4, <2>2, <2>4
  <2>5. CASE WithoutCall(t, NoTask)
    BY <1>1, <2>5, NoTaskOK, FreeStep
  <2>6. CASE WithoutCall(t, NextQuery(k))
    <3>1. TaskOK(NextQuery(k))
      BY <1>2, NextQueryOK
    <3>2. QED
      BY <1>1, <2>6, <3>1, FreeStep
  <2>7. QED
    BY <2>3, <2>4, <2>5, <2>6
<1>8. QED
  BY <1>5, <1>6, <1>7 DEF Retrieve

\* A request of the LLM that fails is asked again: the adapter is not touched.
LEMMA RowStep ==
  ASSUME NEW t \in Threads, IInv, Row(t)
  PROVE  IInv'
<1> DEFINE k == task[t]
<1>0. k.stage = "row"
  BY DEF Row
<1>1. Acts(t)
  BY Moving DEF Row, At
<1>2. Served(k) /\ InquiryOK(k.inquiry)
  BY <1>0, IdleTask
<1>3. CASE Fault /\ Become(t, [k EXCEPT !.attempts = @ + 1]) /\ UNCHANGED frame
  <2> DEFINE n == k.attempts + 1
             g == [k EXCEPT !.attempts = n]
  <2>1. Become(t, g)
    BY <1>3
  <2> HIDE DEF n
  <2>2. DOMAIN g = TaskFields /\ g.kind = k.kind /\ g.stage = k.stage /\ g.inquiry = k.inquiry
    BY <1>2 DEF Served, TaskFields
  <2> HIDE DEF g
  <2>3. TaskOK(g) /\ g.stage \in Waiting
    BY <1>0, <1>2, <2>2 DEF TaskOK, Served, Stages, Waiting
  <2>4. faults' \in 0 .. MaxFaults
    BY <1>3, FaultsBounded DEF IInv, AdapterInv, ServerOK
  <2>5. UNCHANGED <<frame, key, installed, ready, broken, resets>>
    BY <1>1, <1>3 DEF Acts
  <2>6. AdapterInv'
    <3>1. ServerOK'
      BY <2>4, <2>5 DEF IInv, AdapterInv, ServerOK
    <3>2. \A u \in Threads : FrameOK(frame[u])'
      BY <2>5 DEF IInv, AdapterInv, Frames, FrameOK, ReplyOK, RequestOK
    <3>3. Frames'
      BY <2>5, <3>2 DEF IInv, AdapterInv, Frames
    <3>4. Unsettled' = Unsettled
      BY <2>5 DEF Unsettled, Installing, At
    <3>5. ReadyInv' /\ RerunInv'
      BY <2>5, <3>4 DEF IInv, AdapterInv, ReadyInv, RerunInv, At
    <3>6. QED
      BY <3>1, <3>3, <3>5 DEF AdapterInv
  <2>7. \A u \in Threads \ {t} : frame'[u].at = frame[u].at
    BY <2>5
  <2>8. QED
    BY <1>1, <2>1, <2>3, <2>6, <2>7, OneTask
<1>4. CASE WithoutCall(t, IF k.rows = 2 THEN NoTask
                          ELSE [k EXCEPT !.rows = @ + 1, !.attempts = 0, !.stage = "retrieve"])
  <2> DEFINE n == k.rows + 1
             g == [k EXCEPT !.rows = n, !.attempts = 0, !.stage = "retrieve"]
  <2>1. WithoutCall(t, NoTask) \/ WithoutCall(t, g)
    <3>1. g = [k EXCEPT !.rows = @ + 1, !.attempts = 0, !.stage = "retrieve"]
      OBVIOUS
    <3> HIDE DEF g
    <3>2. QED
      BY <1>4, <3>1
  <2> HIDE DEF n
  <2>2. DOMAIN g = TaskFields /\ g.kind = k.kind /\ g.stage = "retrieve" /\ g.inquiry = k.inquiry
    BY <1>2 DEF Served, TaskFields
  <2> HIDE DEF g
  <2>3. TaskOK(g)
    BY <1>2, <2>2 DEF TaskOK, Served, Stages
  <2>4. QED
    BY <1>1, <2>1, <2>3, NoTaskOK, FreeStep
<1>5. QED
  BY <1>3, <1>4 DEF Row

LEMMA ConcludeStep ==
  ASSUME NEW t \in Threads, IInv, Conclude(t)
  PROVE  IInv'
<1>0. task[t].stage = "conclude"
  BY DEF Conclude
<1>1. Acts(t)
  BY <1>0, Moving DEF Conclude, Waiting
<1>2. Served(task[t]) /\ InquiryOK(task[t].inquiry)
  BY <1>0, IdleTask
<1>3. "row" \in Stages
  BY DEF Stages
<1>4. TaskOK([task[t] EXCEPT !.stage = "row"])
  BY <1>2, <1>3, AtStage
<1>5. WithoutCall(t, [task[t] EXCEPT !.stage = "row"]) \/ WithoutCall(t, NoTask)
  BY DEF Conclude
<1>6. QED
  BY <1>1, <1>4, <1>5, NoTaskOK, FreeStep

LEMMA AnswerStep ==
  ASSUME NEW t \in Threads, IInv, Answer(t)
  PROVE  IInv'
<1>1. Acts(t)
  BY Moving DEF Answer, Awaits
<1>2. Served(task[t]) /\ InquiryOK(task[t].inquiry)
  BY TakesReply DEF Answer
<1>3. "judge" \in Stages
  BY DEF Stages
<1>4. TaskOK([task[t] EXCEPT !.stage = "judge"])
  BY <1>2, <1>3, AtStage
<1>5. WithoutCall(t, [task[t] EXCEPT !.stage = "judge"])
  BY DEF Answer
<1>6. QED
  BY <1>1, <1>4, <1>5, FreeStep

LEMMA JudgeStep ==
  ASSUME NEW t \in Threads, IInv, Judge(t)
  PROVE  IInv'
<1>0. task[t].stage = "judge"
  BY DEF Judge
<1>1. Acts(t)
  BY <1>0, Moving DEF Judge, Waiting
<1>2. Served(task[t]) /\ InquiryOK(task[t].inquiry)
  BY <1>0, IdleTask
<1>3. TaskOK(NextQuery(task[t]))
  BY <1>2, NextQueryOK
<1>4. WithoutCall(t, NextQuery(task[t]))
  BY DEF Judge
<1>5. QED
  BY <1>1, <1>3, <1>4, FreeStep

\* A step of the adapter is a step of the call its thread is in.
LEMMA ServingStep ==
  ASSUME NEW t \in Threads, IInv, Adapter(t), UNCHANGED <<task, tasks>>
  PROVE  IInv'
<1>1. AdapterInv'
  BY AdapterStep DEF IInv
<1>2. frame[t].at # "idle"
  BY DEF Adapter, Run, Probe, Replace, Install, Rerun, Fallback, At
<1>3. \E g : Set(t, g)
  <2>1. CASE \E terms : Succeed(t, terms)
    BY <2>1 DEF Succeed, Set
  <2>2. CASE ~ \E terms : Succeed(t, terms)
    BY <2>2 DEF Adapter, Run, Probe, Replace, Install, Rerun, Fallback, Goto
  <2>3. QED
    BY <2>1, <2>2
<1>4. \A u \in Threads \ {t} : frame'[u].at = frame[u].at
  BY <1>3, OthersStay
<1>5. \A u \in Threads : frame'[u].at = "idle" \/ task[u].stage \in Waiting
  BY <1>2, <1>4 DEF IInv, Tasked
<1>6. \A u \in Threads : TaskOK(task[u])'
  BY DEF IInv, Tasked, TaskOK, InquiryOK
<1>7. Tasked'
  BY <1>5, <1>6 DEF IInv, Tasked
<1>8. QED
  BY <1>1, <1>7 DEF IInv

LEMMA LossStep ==
  ASSUME IInv, Reset, UNCHANGED <<task, tasks>>
  PROVE  IInv'
<1>1. AdapterInv'
  BY ResetStep DEF IInv
<1>2. ASSUME NEW u \in Threads PROVE frame'[u].at = frame[u].at
  <2>1. DOMAIN frame[u] = Fields
    BY DEF IInv, AdapterInv, Frames, FrameOK
  <2>2. frame'[u] = [frame[u] EXCEPT !.lost = @ \/ frame[u].at \in {"rerun", "fallback"}]
    BY DEF Reset
  <2>3. QED
    BY <2>1, <2>2 DEF Fields
<1>3. \A u \in Threads : TaskOK(task[u])'
  BY DEF IInv, Tasked, TaskOK, InquiryOK
<1>4. Tasked'
  BY <1>2, <1>3 DEF IInv, Tasked
<1>5. QED
  BY <1>1, <1>4 DEF IInv

-----------------------------------------------------------------------------
(* The theorems.                                                           *)

LEMMA Initially ==
  ASSUME Init
  PROVE  IInv
<1>1. /\ key \in BOOLEAN /\ installed \in {{}, Queries} /\ ready = FALSE /\ broken = FALSE
      /\ frame = [u \in Threads |-> NoCall] /\ resets = 0 /\ faults = 0
      /\ task = [u \in Threads |-> NoTask] /\ tasks = 0
  BY DEF Init, AdapterInit
<1>2. 0 \in 0 .. MaxResets /\ 0 \in 0 .. MaxFaults /\ 0 \in 0 .. MaxTasks
  BY AdapterConstants, AskingConstants
<1>3. ServerOK
  BY <1>1, <1>2 DEF ServerOK
<1>4. Frames
  BY <1>1, NoCallOK DEF Frames
<1>5. \A u \in Threads : frame[u].at = "idle"
  BY <1>1, NoCallOK
<1>6. ReadyInv /\ RerunInv
  BY <1>5 DEF ReadyInv, RerunInv, At
<1>7. Tasked
  BY <1>1, <1>2, <1>5, NoTaskOK DEF Tasked
<1>8. QED
  BY <1>3, <1>4, <1>6, <1>7 DEF IInv, AdapterInv

LEMMA Stuttering ==
  ASSUME IInv, UNCHANGED vars
  PROVE  IInv'
<1>1. UNCHANGED <<key, installed, ready, broken, frame, resets, faults, task, tasks>>
  BY DEF vars, tgVars
<1>2. \A u \in Threads : FrameOK(frame[u])' /\ TaskOK(task[u])'
  <2>1. \A u \in Threads : FrameOK(frame[u])'
    BY <1>1 DEF IInv, AdapterInv, Frames, FrameOK, ReplyOK, RequestOK
  <2>2. \A u \in Threads : TaskOK(task[u])'
    BY <1>1 DEF IInv, Tasked, TaskOK, InquiryOK
  <2>3. QED
    BY <2>1, <2>2
<1>3. Frames' /\ Tasked'
  BY <1>1, <1>2 DEF IInv, AdapterInv, Frames, Tasked
<1>4. ServerOK'
  BY <1>1 DEF IInv, AdapterInv, ServerOK
<1>5. Unsettled' = Unsettled
  BY <1>1 DEF Unsettled, Installing, At
<1>6. ReadyInv' /\ RerunInv'
  BY <1>1, <1>5 DEF IInv, AdapterInv, ReadyInv, RerunInv, At
<1>7. QED
  BY <1>3, <1>4, <1>6 DEF IInv, AdapterInv

\* Every state of the agents, the pipelines, the tools and the adapter they share
\* is one that the invariant describes.
THEOREM Invariance == Spec => []IInv
<1>1. Init => IInv
  BY Initially
<1>2. IInv /\ [Next]_vars => IInv'
  <2>1. SUFFICES ASSUME IInv, [Next]_vars PROVE IInv'
    OBVIOUS
  <2>2. CASE \E t \in Threads : Starts(t)
    BY <2>1, <2>2, CallToolStep, InvestigateStep, RunPipelinesStep, EvaluateReportStep DEF Starts
  <2>3. CASE \E t \in Threads : Works(t)
    <3>1. PICK t \in Threads : Works(t)
      BY <2>3
    <3>2. CASE Adapter(t) /\ UNCHANGED <<task, tasks>>
      BY <2>1, <3>2, ServingStep
    <3>3. CASE ToolAnswers(t) \/ Linked(t) \/ Explored(t) \/ Conclude(t)
      BY <2>1, <3>3, ToolAnswersStep, LinkedStep, ExploredStep, ConcludeStep
    <3>4. CASE Retrieve(t) \/ Row(t) \/ Answer(t) \/ Judge(t)
      BY <2>1, <3>4, RetrieveStep, RowStep, AnswerStep, JudgeStep
    <3>5. QED
      BY <3>1, <3>2, <3>3, <3>4 DEF Works
  <2>4. CASE Reset /\ UNCHANGED <<task, tasks>>
    BY <2>1, <2>4, LossStep
  <2>5. CASE UNCHANGED vars
    BY <2>1, <2>5, Stuttering
  <2>6. QED
    BY <2>1, <2>2, <2>3, <2>4, <2>5 DEF Next
<1>3. QED
  BY <1>1, <1>2, PTL DEF Spec

\* Type correctness: calls and replies stay within the graph and the queries the
\* adapter knows (a vector may outlive its paper), an investigation within its
\* max_steps, with the first two of the entities it has seen at hand, and the
\* server's failures within their bounds.
THEOREM TypeCorrect == Spec => []TypeOK
<1>1. IInv => TypeOK
  <2>1. SUFFICES ASSUME IInv PROVE TypeOK
    OBVIOUS
  <2>2. {key, ready, broken} \subseteq BOOLEAN /\ installed \subseteq Queries
        /\ resets \in 0 .. MaxResets /\ faults \in 0 .. MaxFaults /\ tasks \in 0 .. MaxTasks
    BY <2>1 DEF IInv, AdapterInv, ServerOK, Tasked
  <2>3. ASSUME NEW t \in Threads
        PROVE  /\ frame[t].at \in Calls /\ frame[t].req.op \in Ops \cup {"none"}
               /\ frame[t].hits \subseteq Graph.vectors /\ frame[t].query \in Queries
               /\ frame[t].wanted \subseteq Queries
               /\ frame[t].reply.vertices \subseteq Graph.vertices \cup [type : {"Paper"}, id : Graph.vectors]
               /\ frame[t].reply.edges \subseteq Graph.edges
    <3>1. FrameOK(frame[t])
      BY <2>1 DEF IInv, AdapterInv, Frames
    <3>2. frame[t].req.op \in Ops \cup {"none"}
      BY <3>1 DEF FrameOK, RequestOK
    <3>3. QED
      BY <3>1, <3>2 DEF FrameOK, ReplyOK, V, E, Ghosts
  <2>4. ASSUME NEW t \in Threads
        PROVE  /\ task[t].kind \in Kinds /\ task[t].stage \in Stages
               /\ task[t].inquiry.step \in 1 .. Max({1, MaxSteps})
               /\ task[t].inquiry.strategy \in Strategies
               /\ Len(task[t].inquiry.lead) = Min({2, Cardinality(task[t].inquiry.seen)})
    <3> DEFINE i == task[t].inquiry
               n == Min({2, Cardinality(i.seen)})
    <3>1. TaskOK(task[t])
      BY <2>1 DEF IInv, Tasked
    <3>2. InquiryOK(i)
      BY <3>1 DEF TaskOK
    <3>3. Cardinality(i.seen) \in Nat
      BY <3>2, FS_CardinalityType DEF InquiryOK
    <3>4. n \in Nat
      BY <3>3, OfTwo
    <3>5. i.lead \in [1 .. n -> i.seen]
      BY <3>2 DEF InquiryOK
    <3> HIDE DEF n
    <3>6. Len(i.lead) = n
      BY <3>4, <3>5
    <3>7. QED
      BY <3>1, <3>2, <3>6 DEF TaskOK, InquiryOK, n
  <2>5. QED
    BY <2>2, <2>3, <2>4 DEF TypeOK
<1>2. QED
  BY <1>1, Invariance, PTL

\* A server that loses its installed queries costs no answer: _run installs them
\* and runs the query again, so an operation gives up only for a cause of its own.
THEOREM FailuresExplained == Spec => []EmptyHasCause
<1>1. IInv => EmptyHasCause
  BY DEF IInv, AdapterInv, Frames, FrameOK, EmptyHasCause
<1>2. QED
  BY <1>1, Invariance, PTL

\* What path_search finds is a shortest path within max_hops, and from a paper it
\* finds one if there is one, though it searches only the edges that its expansion
\* collected (tigergraph_adapter.py:557-635, 1011-1051).
THEOREM ShortestPaths == Spec => []PathsAreShortest
<1>1. IInv => PathsAreShortest
  <2>1. SUFFICES ASSUME IInv, NEW t \in Threads, At(t, "reply"), frame[t].req.op = "path_search",
                        ~frame[t].reply.failed,
                        NEW v \in WithId(V, frame[t].req.on[1]), NEW w \in WithId(V, frame[t].req.on[2]),
                        WithId(V, v.id) = {v}, WithId(V, w.id) = {w}
                 PROVE  /\ frame[t].reply.paths \subseteq Shortest(v, w, frame[t].req.depth)
                        /\ v.type = "Paper" => Shortest(v, w, frame[t].req.depth) \subseteq frame[t].reply.paths
    BY DEF PathsAreShortest, V
  <2> DEFINE req == frame[t].req
             a == frame[t].reply
  <2>2. FrameOK(frame[t]) /\ frame[t].at = "reply"
    BY <2>1 DEF IInv, AdapterInv, Frames, At
  <2>3. RequestOK(req) /\ a \in PathAnswers[req.on[1]][req.on[2]][req.depth]
    BY <2>1, <2>2 DEF FrameOK
  <2>4. req.on[1] \in Ids /\ req.on[2] \in Ids /\ req.on[1] # req.on[2] /\ req.depth \in 0 .. MaxDepth
    BY <2>1, <2>3 DEF RequestOK
  <2>5. v \in V /\ w \in V /\ v.id = req.on[1] /\ w.id = req.on[2]
    BY <2>1 DEF WithId
  <2>6. WithId(V, req.on[1]) = {v} /\ WithId(V, req.on[2]) = {w}
    BY <2>1, <2>5
  <2> HIDE DEF req, a
  <2>7. PICK i \in Ids, j \in Ids : i = req.on[1] /\ j = req.on[2]
    BY <2>4
  <2>8. PICK h \in 0 .. MaxDepth : h = req.depth
    BY <2>4
  <2>9. i # j /\ a \in PathAnswers[i][j][h] /\ WithId(V, i) = {v} /\ WithId(V, j) = {w}
    BY <2>3, <2>4, <2>6, <2>7, <2>8
  <2>10. PathsShown(a, v, w, h)
    BY <2>5, <2>9, PathsShortest
  <2>11. QED
    BY <2>8, <2>10 DEF PathsShown, Shortest, req, a
<1>2. QED
  BY <1>1, Invariance, PTL

=============================================================================

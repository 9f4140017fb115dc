--------------------------- MODULE GraphLoad_proofs ----------------------------
(***************************************************************************)
(* Theorems about GraphLoad: the scripts' types, that a defect of the      *)
(* graph has a cause, and that an undisturbed run has done its work, for   *)
(* any papers, page and batch sizes, limits and bounds.                    *)
(*                                                                         *)
(* The lists a script makes (pages, batches, requests) are given by        *)
(* recursive functions and folds; what they hold is proved first, by       *)
(* induction on the sets of numbers a statement holds of (Induction,       *)
(* Iteration).  What the rest needs of a list of requests is what is       *)
(* pending in it, kind by kind, and that papers come first (BuildJobsFacts,*)
(* PendTail, PapersFirstTail).  Then                                       *)
(*   Shape      the types of every variable, each paper once in the file;  *)
(*   SourceInv  what is pending comes from the papers of the script;       *)
(*   WriteInv   a paper of a build is pending, in the graph or gone for a  *)
(*              cause: when edges are written no paper is pending;         *)
(*   TextInv    a paper that was never revised has one text everywhere;    *)
(*   DoneInv    while nothing disturbs a run, what is not pending is done; *)
(*   FetchInv   while nothing disturbs a download, it has the newest       *)
(*              papers up to the page it is at.                            *)
(***************************************************************************)
EXTENDS GraphLoad, SequenceTheorems, FiniteSetTheorems, WellFoundedInduction, TLAPS

-----------------------------------------------------------------------------
(* Induction and recursion over the natural numbers.                       *)

\* A set of natural numbers has a least element.
LEMMA LeastElement ==
  ASSUME NEW T \in SUBSET Nat, T # {}
  PROVE  \E n \in T : \A m \in T : n <= m
<1>1. IsWellFoundedOn({x \in Nat \X Nat : x[1] < x[2]}, Nat)
  BY NatLessThanWellFounded DEF OpToRel
<1>2. PICK n \in T : \A m \in T : <<m, n>> \notin {x \in Nat \X Nat : x[1] < x[2]}
  BY <1>1, WFMin
<1>3. ASSUME NEW m \in T PROVE n <= m
  <2>1. m \in Nat /\ n \in Nat /\ <<m, n>> \in Nat \X Nat
    OBVIOUS
  <2>2. ~(<<m, n>>[1] < <<m, n>>[2])
    BY <1>2, <2>1
  <2>3. ~(m < n)
    BY <2>2
  <2>4. QED
    BY <2>1, <2>3
<1>4. QED
  BY <1>3

\* Induction, for a set in the place of a predicate.
LEMMA Induction ==
  ASSUME NEW S, 0 \in S, \A n \in Nat : n \in S => n + 1 \in S
  PROVE  Nat \subseteq S
<1>1. SUFFICES ASSUME Nat \ S # {} PROVE FALSE
  OBVIOUS
<1>2. PICK n \in Nat \ S : \A m \in Nat \ S : n <= m
  BY <1>1, LeastElement
<1>3. n - 1 \in Nat /\ n - 1 \in S
  BY <1>2
<1>4. QED
  BY <1>2, <1>3

\* What takes a value of X to the next, at each of n steps.
Steps(n, X) == [1 .. n -> [X -> X]]

\* f is the run of n such steps from b.
Chain(f, n, X, b, step) ==
  /\ f \in [0 .. n -> X]
  /\ f[0] = b
  /\ \A i \in 1 .. n : f[i] = step[i][f[i - 1]]

\* A function whose values follow, each from the one before, exists.
LEMMA Iteration ==
  ASSUME NEW X, NEW b \in X, NEW n \in Nat, NEW step \in Steps(n, X)
  PROVE  \E f : Chain(f, n, X, b, step)
<1> DEFINE S == {k \in Nat : k <= n => \E f : Chain(f, k, X, b, step)}
<1>1. 0 \in S
  <2>1. Chain([i \in 0 .. 0 |-> b], 0, X, b, step)
    BY DEF Chain
  <2>2. QED
    BY <2>1
<1>2. ASSUME NEW k \in Nat, k \in S PROVE k + 1 \in S
  <2>1. CASE k + 1 <= n
    <3>1. PICK f : Chain(f, k, X, b, step)
      BY <1>2, <2>1
    <3>2. k + 1 \in 1 .. n /\ f[k] \in X
      BY <2>1, <3>1 DEF Chain
    <3>3. step[k + 1][f[k]] \in X
      BY <3>2 DEF Steps
    <3> DEFINE g == [i \in 0 .. k + 1 |-> IF i = k + 1 THEN step[k + 1][f[k]] ELSE f[i]]
    <3>4. g \in [0 .. k + 1 -> X]
      BY <3>1, <3>3 DEF Chain
    <3>5. g[0] = b
      BY <3>1 DEF Chain
    <3>6. ASSUME NEW i \in 1 .. k + 1 PROVE g[i] = step[i][g[i - 1]]
      <4>1. CASE i = k + 1
        BY <4>1
      <4>2. CASE i # k + 1
        <5>1. i \in 1 .. k /\ i - 1 \in 0 .. k /\ i - 1 # k + 1
          BY <4>2
        <5>2. QED
          BY <3>1, <5>1 DEF Chain
      <4>3. QED
        BY <4>1, <4>2
    <3>7. Chain(g, k + 1, X, b, step)
      <4> HIDE DEF g
      <4> QED BY <3>4, <3>5, <3>6 DEF Chain
    <3>8. QED
      <4> HIDE DEF g
      <4> QED BY <3>7
  <2>2. QED
    BY <2>1
<1>3. Nat \subseteq S
  <2> HIDE DEF S
  <2> QED BY <1>1, <1>2, Induction
<1>4. n \in S /\ n <= n
  BY <1>3
<1>5. QED
  BY <1>4

-----------------------------------------------------------------------------
(* The operators on sequences.                                             *)

\* No two entries of a sequence have the same id.
Once(papers) == \A i, j \in DOMAIN papers : papers[i].id = papers[j].id => i = j

\* How Those comes about: kept[i] are those of the first i elements.
ThoseChain(kept, s, S, T) ==
  /\ kept \in [0 .. Len(s) -> Seq(T)]
  /\ kept[0] = <<>>
  /\ \A i \in 1 .. Len(s) :
       kept[i] = IF s[i] \in S THEN Append(kept[i - 1], s[i]) ELSE kept[i - 1]
  /\ Those(s, S) = kept[Len(s)]

\* The recursive definition of Those has the function it defines.
LEMMA ThoseUnfolds ==
  ASSUME NEW T, NEW s \in Seq(T), NEW S
  PROVE  \E kept : ThoseChain(kept, s, S, T)
<1> DEFINE n == Len(s)
           step == [i \in 1 .. n |-> [v \in Seq(T) |-> IF s[i] \in S THEN Append(v, s[i]) ELSE v]]
           Next1(f, i) == IF i = 0 THEN <<>>
                          ELSE IF s[i] \in S THEN Append(f[i - 1], s[i]) ELSE f[i - 1]
<1>1. n \in Nat /\ <<>> \in Seq(T)
  OBVIOUS
<1>2. step \in Steps(n, Seq(T))
  <2>1. ASSUME NEW i \in 1 .. n, NEW v \in Seq(T)
        PROVE  (IF s[i] \in S THEN Append(v, s[i]) ELSE v) \in Seq(T)
    BY AppendProperties
  <2>2. QED
    BY <2>1 DEF Steps
<1>3. PICK g : Chain(g, n, Seq(T), <<>>, step)
  <2> HIDE DEF n, step
  <2> QED BY <1>1, <1>2, Iteration
<1>4. ASSUME NEW i \in 1 .. n PROVE g[i] = Next1(g, i)
  <2> HIDE DEF n
  <2>1. n \in Nat /\ i \in Nat /\ i # 0 /\ i - 1 \in 0 .. n
    BY <1>1
  <2>2. g[i - 1] \in Seq(T)
    BY <1>3, <2>1 DEF Chain
  <2>3. step[i][g[i - 1]] = IF s[i] \in S THEN Append(g[i - 1], s[i]) ELSE g[i - 1]
    BY <2>2
  <2>4. QED
    BY <1>3, <2>1, <2>3 DEF Chain
<1>5. g = [i \in 0 .. n |-> Next1(g, i)]
  <2>1. g[0] = Next1(g, 0) /\ g \in [0 .. n -> Seq(T)]
    BY <1>3 DEF Chain
  <2>2. \A i \in 0 .. n : i = 0 \/ i \in 1 .. n
    OBVIOUS
  <2>3. \A i \in 0 .. n : g[i] = Next1(g, i)
    <3> HIDE DEF Next1, n
    <3> QED BY <1>4, <2>1, <2>2
  <2>4. QED
    <3> HIDE DEF Next1, n
    <3> QED BY <2>1, <2>3
<1> DEFINE kept == CHOOSE f : f = [i \in 0 .. n |-> Next1(f, i)]
<1>6. kept = [i \in 0 .. n |-> Next1(kept, i)]
  BY <1>5
<1>7. Those(s, S) = kept[n]
  BY DEF Those
<1>8. kept[0] = <<>> /\ \A i \in 1 .. n :
        kept[i] = IF s[i] \in S THEN Append(kept[i - 1], s[i]) ELSE kept[i - 1]
  <2> HIDE DEF kept
  <2>1. 0 \in 0 .. n /\ \A i \in 1 .. n : i \in 0 .. n /\ i # 0
    OBVIOUS
  <2>2. \A i \in 0 .. n : kept[i] = Next1(kept, i)
    BY <1>6
  <2>3. QED
    BY <2>1, <2>2
<1> DEFINE P == {k \in Nat : k <= n => kept[k] \in Seq(T)}
<1>9. 0 \in P
  <2> HIDE DEF kept
  <2> QED BY <1>1, <1>8
<1>10. ASSUME NEW k \in Nat, k \in P PROVE k + 1 \in P
  <2> HIDE DEF kept
  <2>1. CASE k + 1 <= n
    <3>1. kept[k] \in Seq(T) /\ s[k + 1] \in T
      BY <1>10, <2>1
    <3>2. kept[k + 1] = IF s[k + 1] \in S THEN Append(kept[k], s[k + 1]) ELSE kept[k]
      BY <1>8, <2>1
    <3>3. kept[k + 1] \in Seq(T)
      BY <3>1, <3>2, AppendProperties
    <3>4. QED
      BY <3>3
  <2>2. QED
    BY <2>1
<1>11. Nat \subseteq P
  <2> HIDE DEF P
  <2> QED BY <1>9, <1>10, Induction
<1>12. kept \in [0 .. n -> Seq(T)]
  <2>1. \A i \in 0 .. n : kept[i] \in Seq(T)
    <3> HIDE DEF kept
    <3> QED BY <1>11
  <2>2. DOMAIN kept = 0 .. n
    BY <1>6
  <2>3. kept = [i \in 0 .. n |-> kept[i]]
    <3> HIDE DEF kept
    <3> QED BY <1>6
  <2>4. QED
    <3> HIDE DEF kept
    <3> QED BY <2>1, <2>3
<1>13. QED
  <2> HIDE DEF kept
  <2> QED BY <1>7, <1>8, <1>12 DEF ThoseChain

\* What is in a sequence after one more element.
LEMMA MembersOfAppend ==
  ASSUME NEW T, NEW s \in Seq(T), NEW x \in T
  PROVE  ToSet(Append(s, x)) = ToSet(s) \cup {x}
<1>1. /\ Append(s, x) \in Seq(T)
      /\ Len(Append(s, x)) = Len(s) + 1
      /\ \A i \in 1 .. Len(s) : Append(s, x)[i] = s[i]
      /\ Append(s, x)[Len(s) + 1] = x
  BY AppendProperties
<1>2. /\ Len(s) \in Nat
      /\ DOMAIN Append(s, x) = 1 .. Len(s) + 1
      /\ DOMAIN s = 1 .. Len(s)
  BY <1>1, LenProperties
<1>3. \A i \in 1 .. Len(s) + 1 : i \in 1 .. Len(s) \/ i = Len(s) + 1
  BY <1>2
<1>4. 1 .. Len(s) \subseteq 1 .. Len(s) + 1 /\ Len(s) + 1 \in 1 .. Len(s) + 1
  BY <1>2
<1>5. QED
  BY <1>1, <1>2, <1>3, <1>4 DEF ToSet

\* A sequence stays free of repetitions when what is appended is new.
LEMMA OnceAppend ==
  ASSUME NEW T, NEW s \in Seq(T), NEW x \in T, Once(s), \A y \in ToSet(s) : y.id # x.id
  PROVE  Once(Append(s, x))
<1>1. /\ Append(s, x) \in Seq(T)
      /\ Len(Append(s, x)) = Len(s) + 1
      /\ \A i \in 1 .. Len(s) : Append(s, x)[i] = s[i]
      /\ Append(s, x)[Len(s) + 1] = x
  BY AppendProperties
<1>2. /\ Len(s) \in Nat
      /\ DOMAIN Append(s, x) = 1 .. Len(s) + 1
      /\ DOMAIN s = 1 .. Len(s)
  BY <1>1, LenProperties
<1>3. \A i \in 1 .. Len(s) + 1 : i \in 1 .. Len(s) \/ i = Len(s) + 1
  BY <1>2
<1>4. \A i \in 1 .. Len(s) : s[i].id # x.id
  BY <1>2 DEF ToSet
<1>5. QED
  BY <1>1, <1>2, <1>3, <1>4 DEF Once

\* Those(s, S) has the elements of s that are in S, no more often than s has
\* them, and is s when all of them are.
LEMMA ThoseFacts ==
  ASSUME NEW T, NEW s \in Seq(T), NEW S
  PROVE  /\ Those(s, S) \in Seq(T)
         /\ ToSet(Those(s, S)) = ToSet(s) \cap S
         /\ Once(s) => Once(Those(s, S))
         /\ ToSet(s) \subseteq S => Those(s, S) = s
<1>0. PICK kept : ThoseChain(kept, s, S, T)
  BY ThoseUnfolds
<1>1. /\ kept \in [0 .. Len(s) -> Seq(T)]
      /\ kept[0] = <<>>
      /\ \A i \in 1 .. Len(s) :
           kept[i] = IF s[i] \in S THEN Append(kept[i - 1], s[i]) ELSE kept[i - 1]
      /\ Those(s, S) = kept[Len(s)]
  BY <1>0 DEF ThoseChain
<1>2. Len(s) \in Nat /\ DOMAIN s = 1 .. Len(s) /\ \A i \in 1 .. Len(s) : s[i] \in T
  BY LenProperties, ElementOfSeq
<1> DEFINE Upto(k) == {s[i] : i \in 1 .. k} \cap S
           Kept(k) == /\ ToSet(kept[k]) = Upto(k)
                      /\ Once(s) => Once(kept[k])
                      /\ ToSet(s) \subseteq S => Len(kept[k]) = k /\ \A i \in 1 .. k : kept[k][i] = s[i]
           P == {k \in Nat : k <= Len(s) => Kept(k)}
<1>3. 0 \in P
  <2>1. Len(kept[0]) = 0 /\ DOMAIN kept[0] = {} /\ 1 .. 0 = {}
    BY <1>1
  <2>2. ToSet(kept[0]) = {} /\ Upto(0) = {}
    BY <2>1 DEF ToSet
  <2>3. Once(kept[0])
    BY <2>1 DEF Once
  <2>4. Kept(0)
    BY <2>1, <2>2, <2>3
  <2>5. QED
    <3> HIDE DEF Kept
    <3> QED BY <2>4
<1>4. ASSUME NEW k \in Nat, k \in P PROVE k + 1 \in P
  <2>1. SUFFICES ASSUME k + 1 <= Len(s) PROVE Kept(k + 1)
    <3> HIDE DEF Kept
    <3> QED OBVIOUS
  <2>2. Kept(k)
    <3> HIDE DEF Kept
    <3> QED BY <1>2, <1>4, <2>1
  <2>3. /\ k \in 0 .. Len(s) /\ k + 1 \in 1 .. Len(s) /\ k + 1 - 1 = k
        /\ \A i \in 1 .. k + 1 : i \in 1 .. k \/ i = k + 1
        /\ \A i \in 1 .. k : i \in 1 .. k + 1 /\ i \in 1 .. Len(s) /\ i # k + 1
        /\ k + 1 \in 1 .. k + 1
    BY <1>2, <2>1
  <2>4. kept[k] \in Seq(T) /\ s[k + 1] \in T
    BY <1>1, <1>2, <2>3
  <2>5. kept[k + 1] = IF s[k + 1] \in S THEN Append(kept[k], s[k + 1]) ELSE kept[k]
    BY <1>1, <2>3
  <2>6. CASE s[k + 1] \in S
    <3>1. kept[k + 1] = Append(kept[k], s[k + 1])
      BY <2>5, <2>6
    <3>2. ToSet(kept[k + 1]) = ToSet(kept[k]) \cup {s[k + 1]}
      BY <2>4, <3>1, MembersOfAppend
    <3>3. Upto(k + 1) = Upto(k) \cup {s[k + 1]}
      BY <2>3, <2>6
    <3>4. Once(s) => Once(kept[k + 1])
      <4>1. SUFFICES ASSUME Once(s) PROVE Once(Append(kept[k], s[k + 1]))
        BY <3>1
      <4>2. \A i \in 1 .. k : s[i].id # s[k + 1].id
        BY <1>2, <2>3, <4>1 DEF Once
      <4>3. \A y \in ToSet(kept[k]) : y.id # s[k + 1].id
        BY <2>2, <4>2
      <4>4. QED
        BY <2>2, <2>4, <4>1, <4>3, OnceAppend
    <3>5. ToSet(s) \subseteq S => Len(kept[k + 1]) = k + 1 /\ \A i \in 1 .. k + 1 : kept[k + 1][i] = s[i]
      <4>1. SUFFICES ASSUME ToSet(s) \subseteq S
                     PROVE  Len(kept[k + 1]) = k + 1 /\ \A i \in 1 .. k + 1 : kept[k + 1][i] = s[i]
        OBVIOUS
      <4>2. Len(kept[k]) = k /\ \A i \in 1 .. k : kept[k][i] = s[i]
        BY <2>2, <4>1
      <4>3. /\ Len(kept[k + 1]) = k + 1
            /\ \A i \in 1 .. k : kept[k + 1][i] = kept[k][i]
            /\ kept[k + 1][k + 1] = s[k + 1]
        BY <2>4, <3>1, <4>2, AppendProperties
      <4>4. QED
        BY <2>3, <4>2, <4>3
    <3>6. QED
      BY <2>2, <3>2, <3>3, <3>4, <3>5
  <2>7. CASE s[k + 1] \notin S
    <3>1. kept[k + 1] = kept[k]
      BY <2>5, <2>7
    <3>2. Upto(k + 1) = Upto(k)
      BY <2>3, <2>7
    <3>3. ~(ToSet(s) \subseteq S)
      BY <1>2, <2>3, <2>7 DEF ToSet
    <3>4. QED
      BY <2>2, <3>1, <3>2, <3>3
  <2>8. QED
    BY <2>6, <2>7
<1>5. Kept(Len(s))
  <2>1. Nat \subseteq P
    <3> HIDE DEF P
    <3> QED BY <1>3, <1>4, Induction
  <2>2. Len(s) \in P /\ Len(s) <= Len(s)
    <3> HIDE DEF P
    <3> QED BY <1>2, <2>1
  <2>3. QED
    <3> HIDE DEF Kept
    <3> QED BY <2>2
<1>6. Those(s, S) \in Seq(T)
  BY <1>1, <1>2
<1>7. ToSet(Those(s, S)) = ToSet(s) \cap S
  <2>1. ToSet(Those(s, S)) = Upto(Len(s))
    BY <1>1, <1>5
  <2>2. ToSet(s) = {s[i] : i \in 1 .. Len(s)}
    BY <1>2 DEF ToSet
  <2>3. QED
    BY <2>1, <2>2
<1>8. ToSet(s) \subseteq S => Those(s, S) = s
  <2>1. SUFFICES ASSUME ToSet(s) \subseteq S PROVE Those(s, S) = s
    OBVIOUS
  <2>2. Len(Those(s, S)) = Len(s) /\ \A i \in 1 .. Len(s) : Those(s, S)[i] = s[i]
    BY <1>1, <1>5, <2>1
  <2>3. QED
    BY <1>6, <2>2, SeqEqual
<1>9. QED
  BY <1>1, <1>5, <1>6, <1>7, <1>8

\* What is in the concatenation of two sequences.
LEMMA MembersOfConcat ==
  ASSUME NEW T, NEW s \in Seq(T), NEW t \in Seq(T)
  PROVE  s \o t \in Seq(T) /\ ToSet(s \o t) = ToSet(s) \cup ToSet(t)
<1>1. /\ s \o t \in Seq(T)
      /\ Len(s \o t) = Len(s) + Len(t)
      /\ \A i \in 1 .. Len(s) + Len(t) : (s \o t)[i] = IF i <= Len(s) THEN s[i] ELSE t[i - Len(s)]
  BY ConcatProperties
<1>2. /\ Len(s) \in Nat /\ Len(t) \in Nat
      /\ DOMAIN s = 1 .. Len(s) /\ DOMAIN t = 1 .. Len(t)
      /\ DOMAIN (s \o t) = 1 .. Len(s) + Len(t)
  BY <1>1, LenProperties
<1>3. ASSUME NEW x, x \in ToSet(s \o t) PROVE x \in ToSet(s) \cup ToSet(t)
  <2>1. PICK i \in 1 .. Len(s) + Len(t) : x = (s \o t)[i]
    BY <1>2, <1>3 DEF ToSet
  <2>2. CASE i <= Len(s)
    <3>1. i \in DOMAIN s /\ x = s[i]
      BY <1>1, <1>2, <2>1, <2>2
    <3>2. QED
      BY <3>1 DEF ToSet
  <2>3. CASE ~(i <= Len(s))
    <3>1. i - Len(s) \in DOMAIN t /\ x = t[i - Len(s)]
      BY <1>1, <1>2, <2>1, <2>3
    <3>2. QED
      BY <3>1 DEF ToSet
  <2>4. QED
    BY <2>2, <2>3
<1>4. ASSUME NEW x, x \in ToSet(s) PROVE x \in ToSet(s \o t)
  <2>1. PICK i \in 1 .. Len(s) : x = s[i]
    BY <1>2, <1>4 DEF ToSet
  <2>2. i \in 1 .. Len(s) + Len(t) /\ i <= Len(s)
    BY <1>2
  <2>3. x = (s \o t)[i]
    BY <1>1, <2>1, <2>2
  <2>4. QED
    BY <1>2, <2>2, <2>3 DEF ToSet
<1>5. ASSUME NEW x, x \in ToSet(t) PROVE x \in ToSet(s \o t)
  <2>1. PICK i \in 1 .. Len(t) : x = t[i]
    BY <1>2, <1>5 DEF ToSet
  <2>2. Len(s) + i \in 1 .. Len(s) + Len(t) /\ ~(Len(s) + i <= Len(s)) /\ Len(s) + i - Len(s) = i
    BY <1>2
  <2>3. x = (s \o t)[Len(s) + i]
    BY <1>1, <2>1, <2>2
  <2>4. QED
    BY <1>2, <2>2, <2>3 DEF ToSet
<1>6. QED
  BY <1>1, <1>3, <1>4, <1>5

\* FlattenSeq puts the sequences one after another.
LEMMA FlattenFacts ==
  ASSUME NEW T, NEW s \in Seq(Seq(T))
  PROVE  FlattenSeq(s) \in Seq(T) /\ ToSet(FlattenSeq(s)) = UNION {ToSet(s[i]) : i \in DOMAIN s}
<1> DEFINE n == Len(s)
           Next1(f, i) == IF i = 1 THEN s[i] ELSE f[i - 1] \o s[i]
           step == [i \in 1 .. n |-> [v \in Seq(T) |-> v \o s[i]]]
<1>1. n \in Nat /\ DOMAIN s = 1 .. n /\ \A i \in 1 .. n : s[i] \in Seq(T)
  BY LenProperties, ElementOfSeq
<1>2. CASE n = 0
  <2>1. s = <<>>
    BY <1>2
  <2>2. FlattenSeq(s) = <<>>
    BY <1>2, <2>1 DEF FlattenSeq
  <2>3. <<>> \in Seq(T) /\ DOMAIN <<>> = {} /\ DOMAIN s = {}
    BY <1>1, <1>2
  <2>4. QED
    BY <2>2, <2>3 DEF ToSet
<1>3. CASE n # 0
  <2>1. step \in Steps(n, Seq(T))
    <3>1. ASSUME NEW i \in 1 .. n, NEW v \in Seq(T) PROVE v \o s[i] \in Seq(T)
      BY <1>1, MembersOfConcat
    <3>2. QED
      BY <3>1 DEF Steps
  <2>2. PICK g : Chain(g, n, Seq(T), <<>>, step)
    <3>1. <<>> \in Seq(T)
      OBVIOUS
    <3>2. QED
      <4> HIDE DEF n, step
      <4> QED BY <1>1, <2>1, <3>1, Iteration
  <2> DEFINE h == [i \in 1 .. n |-> g[i]]
  <2>3. ASSUME NEW i \in 1 .. n PROVE h[i] = Next1(h, i)
    <3> HIDE DEF n
    <3>1. n \in Nat /\ i \in Nat /\ i - 1 \in 0 .. n /\ (i # 1 => i - 1 \in 1 .. n)
      BY <1>1
    <3>2. g[i - 1] \in Seq(T) /\ g[i] = step[i][g[i - 1]]
      BY <2>2, <3>1 DEF Chain
    <3>3. g[i] = g[i - 1] \o s[i]
      BY <3>2
    <3>4. CASE i = 1
      <4>1. g[i - 1] = <<>>
        BY <2>2, <3>4 DEF Chain
      <4>2. <<>> \o s[i] = s[i]
        BY <1>1, ConcatEmptySeq
      <4>3. QED
        BY <3>3, <3>4, <4>1, <4>2
    <3>5. CASE i # 1
      BY <3>1, <3>3, <3>5
    <3>6. QED
      BY <3>4, <3>5
  <2>4. h = [i \in 1 .. n |-> Next1(h, i)]
    <3>1. h = [i \in 1 .. n |-> h[i]]
      OBVIOUS
    <3>2. QED
      <4> HIDE DEF h, Next1, n
      <4> QED BY <2>3, <3>1
  <2> DEFINE flat == CHOOSE f : f = [i \in 1 .. n |-> Next1(f, i)]
  <2>5. flat = [i \in 1 .. n |-> Next1(flat, i)]
    <3> HIDE DEF h, n
    <3> QED BY <2>4
  <2>6. FlattenSeq(s) = flat[n]
    BY <1>3 DEF FlattenSeq
  <2>7. \A i \in 1 .. n : flat[i] = Next1(flat, i)
    <3> HIDE DEF flat, Next1, n
    <3> QED BY <2>5
  <2>8. \A i \in 1 .. n : i # 1 => flat[i] = flat[i - 1] \o s[i]
    <3> HIDE DEF flat, n
    <3> QED BY <2>7
  <2> DEFINE Upto(k) == UNION {ToSet(s[i]) : i \in 1 .. k}
             Flat(k) == flat[k] \in Seq(T) /\ ToSet(flat[k]) = Upto(k)
             P == {k \in Nat : k + 1 <= n => Flat(k + 1)}
  <2>9. 0 \in P
    <3> HIDE DEF flat
    <3>1. 1 \in 1 .. n /\ 1 .. 1 = {1}
      BY <1>1, <1>3
    <3>2. flat[1] = s[1]
      BY <2>7, <3>1
    <3>3. Upto(1) = ToSet(s[1])
      BY <3>1
    <3>4. Flat(1)
      BY <1>1, <3>1, <3>2, <3>3
    <3>5. QED
      <4> HIDE DEF Flat
      <4> QED BY <3>4
  <2>10. ASSUME NEW k \in Nat, k \in P PROVE k + 1 \in P
    <3> HIDE DEF flat
    <3>1. SUFFICES ASSUME k + 2 <= n PROVE Flat(k + 2)
      <4> HIDE DEF Flat, n
      <4>1. k + 1 + 1 = k + 2 /\ k + 1 \in Nat
        OBVIOUS
      <4>2. k + 1 + 1 <= n => Flat(k + 1 + 1)
        BY <4>1
      <4>3. QED
        BY <4>1, <4>2
    <3>2. Flat(k + 1)
      <4> HIDE DEF Flat, n
      <4>1. k + 1 <= n
        BY <1>1, <3>1
      <4>2. QED
        BY <2>10, <4>1
    <3>3. /\ k + 1 \in 1 .. n /\ k + 2 \in 1 .. n /\ k + 2 - 1 = k + 1 /\ k + 2 # 1
          /\ \A i \in 1 .. k + 2 : i \in 1 .. k + 1 \/ i = k + 2
          /\ \A i \in 1 .. k + 1 : i \in 1 .. k + 2
          /\ k + 2 \in 1 .. k + 2
      BY <1>1, <3>1
    <3>4. flat[k + 2] = flat[k + 1] \o s[k + 2]
      <4> HIDE DEF n
      <4>1. PICK m \in 1 .. n : m = k + 2 /\ m # 1 /\ m - 1 = k + 1
        BY <3>3
      <4>2. flat[m] = flat[m - 1] \o s[m]
        BY <2>8, <4>1
      <4>3. QED
        BY <4>1, <4>2
    <3>5. flat[k + 2] \in Seq(T) /\ ToSet(flat[k + 2]) = ToSet(flat[k + 1]) \cup ToSet(s[k + 2])
      BY <1>1, <3>2, <3>3, <3>4, MembersOfConcat
    <3>6. Upto(k + 2) = Upto(k + 1) \cup ToSet(s[k + 2])
      BY <3>3
    <3>7. QED
      BY <3>2, <3>5, <3>6
  <2>11. Flat(n)
    <3>1. Nat \subseteq P
      <4> HIDE DEF P
      <4> QED BY <2>9, <2>10, Induction
    <3>2. n - 1 \in P /\ n - 1 + 1 = n /\ n - 1 + 1 <= n
      <4> HIDE DEF P
      <4> QED BY <1>1, <1>3, <3>1
    <3>3. QED
      <4> HIDE DEF Flat
      <4> QED BY <3>2
  <2>12. QED
    <3> HIDE DEF flat
    <3> QED BY <1>1, <2>6, <2>11
<1>4. QED
  BY <1>2, <1>3

\* SetToSeq lists a finite set.
LEMMA SetToSeqFacts ==
  ASSUME NEW S, IsFiniteSet(S)
  PROVE  SetToSeq(S) \in Seq(S) /\ ToSet(SetToSeq(S)) = S
<1> DEFINE n == Cardinality(S)
<1>1. n \in Nat /\ ExistsBijection(1 .. n, S)
  BY FS_CardinalityType
<1>2. \E f \in [1 .. n -> S] : IsInjective(f)
  BY <1>1 DEF ExistsBijection, Bijection, Injection, IsInjective
<1>3. SetToSeq(S) \in [1 .. n -> S] /\ IsInjective(SetToSeq(S))
  BY <1>2 DEF SetToSeq
<1>4. SetToSeq(S) \in Injection(1 .. n, S)
  BY <1>3 DEF Injection
<1>5. IsFiniteSet(1 .. n) /\ Cardinality(1 .. n) = n
  BY <1>1, FS_Interval
<1>6. SetToSeq(S) \in Surjection(1 .. n, S)
  BY <1>4, <1>5, FS_Injection
<1>7. SetToSeq(S) \in Seq(S) /\ DOMAIN SetToSeq(S) = 1 .. n
  BY <1>1, <1>3, SeqDef
<1>8. QED
  BY <1>6, <1>7 DEF Surjection, ToSet

\* What is in a sequence is its head and what is in its tail.
LEMMA MembersOfTail ==
  ASSUME NEW T, NEW s \in Seq(T), s # <<>>
  PROVE  Tail(s) \in Seq(T) /\ ToSet(s) = {Head(s)} \cup ToSet(Tail(s))
<1>1. /\ Tail(s) \in Seq(T)
      /\ Len(Tail(s)) = Len(s) - 1
      /\ \A i \in 1 .. Len(s) - 1 : Tail(s)[i] = s[i + 1]
      /\ Head(s) = s[1]
  BY HeadTailProperties
<1>2. Len(s) \in Nat \ {0}
  BY EmptySeq
<1>3. DOMAIN s = 1 .. Len(s) /\ DOMAIN Tail(s) = 1 .. Len(s) - 1
  BY <1>1, LenProperties
<1>4. ASSUME NEW i \in 1 .. Len(s) PROVE s[i] \in {Head(s)} \cup ToSet(Tail(s))
  <2>1. CASE i = 1
    BY <1>1, <2>1
  <2>2. CASE i # 1
    <3>1. PICK j \in 1 .. Len(s) - 1 : i = j + 1
      <4>1. i - 1 \in 1 .. Len(s) - 1 /\ i = (i - 1) + 1
        BY <1>2, <2>2
      <4>2. QED
        BY <4>1
    <3>2. s[i] = Tail(s)[j]
      BY <1>1, <3>1
    <3>3. QED
      BY <1>3, <3>2 DEF ToSet
  <2>3. QED
    BY <2>1, <2>2
<1>5. ASSUME NEW j \in 1 .. Len(s) - 1 PROVE Tail(s)[j] \in ToSet(s)
  <2>1. j + 1 \in 1 .. Len(s)
    BY <1>2
  <2>2. QED
    BY <1>1, <1>3, <2>1 DEF ToSet
<1>6. Head(s) \in ToSet(s)
  <2>1. 1 \in 1 .. Len(s)
    BY <1>2
  <2>2. QED
    BY <1>1, <1>3, <2>1 DEF ToSet
<1>7. ToSet(s) \subseteq {Head(s)} \cup ToSet(Tail(s))
  BY <1>3, <1>4 DEF ToSet
<1>8. ToSet(Tail(s)) \subseteq ToSet(s)
  BY <1>3, <1>5 DEF ToSet
<1>9. QED
  BY <1>1, <1>6, <1>7, <1>8

\* The lesser of two numbers.
LEMMA MinOfTwo ==
  ASSUME NEW a \in Int, NEW b \in Int
  PROVE  Min({a, b}) = IF a <= b THEN a ELSE b
<1>1. \E x \in {a, b} : \A y \in {a, b} : x <= y
  BY SMT
<1>2. Min({a, b}) \in {a, b} /\ \A y \in {a, b} : Min({a, b}) <= y
  BY <1>1 DEF Min
<1>3. QED
  BY <1>2

-----------------------------------------------------------------------------
(* What the scripts send.                                                  *)

\* What each kind of request sends.
Job == [kind : {"Paper", "PaperEmb", "embed"}, items : Seq(Entry)]
       \cup [kind : {"name"}, items : Seq(Names)]
       \cup [kind : {"edge"}, items : Seq(Ids \X Names)]

\* What some requests still have to send of a kind.
Pend(jobs, kind) == UNION {ToSet(j.items) : j \in {j \in ToSet(jobs) : j.kind = kind}}

\* Papers are sent before anything else.
PapersFirst(jobs) ==
  \A i, j \in DOMAIN jobs : i < j /\ jobs[j].kind = "Paper" => jobs[i].kind = "Paper"

\* A sequence falls into batches that leave nothing out.
LEMMA BatchesFacts ==
  ASSUME NEW T, NEW s \in Seq(T)
  PROVE  /\ Batches(s) \in Seq(Seq(T))
         /\ UNION {ToSet(Batches(s)[i]) : i \in DOMAIN Batches(s)} = ToSet(s)
<1> DEFINE n == Len(s)
           N == (n + Batch - 1) \div Batch
           from(i) == (i - 1) * Batch + 1
           to(i) == Min({i * Batch, n})
<1>1. n \in Nat /\ DOMAIN s = 1 .. n /\ Batch \in Nat \ {0}
  BY LenProperties, LoadAssumption
<1>2. N \in Nat
  BY <1>1
<1>3. ASSUME NEW i \in 1 .. N
      PROVE  /\ from(i) \in Nat \ {0} /\ to(i) \in Nat /\ to(i) <= n
             /\ to(i) = IF i * Batch <= n THEN i * Batch ELSE n
  <2> HIDE DEF n, N
  <2>1. i \in Nat \ {0} /\ i - 1 \in Nat
    BY <1>2
  <2>2. (i - 1) * Batch \in Nat /\ i * Batch \in Nat
    BY <1>1, <2>1
  <2>3. Min({i * Batch, n}) = IF i * Batch <= n THEN i * Batch ELSE n
    BY <1>1, <2>2, MinOfTwo
  <2>4. QED
    BY <1>1, <2>2, <2>3
<1>4. ASSUME NEW i \in 1 .. N
      PROVE  /\ SubSeq(s, from(i), to(i)) \in Seq(T)
             /\ ToSet(SubSeq(s, from(i), to(i))) = {s[k] : k \in from(i) .. to(i)}
  <2> HIDE DEF N, from, to
  <2>1. from(i) \in Nat \ {0} /\ to(i) \in Nat /\ to(i) <= n
    BY <1>3
  <2>2. \A k \in from(i) .. to(i) : k \in 1 .. n /\ s[k] \in T
    BY <1>1, <2>1, ElementOfSeq
  <2> DEFINE q == SubSeq(s, from(i), to(i))
             l == IF from(i) <= to(i) THEN to(i) - from(i) + 1 ELSE 0
  <2>3. /\ q \in Seq(T)
        /\ Len(q) = l
        /\ \A k \in 1 .. l : q[k] = s[from(i) + k - 1]
    BY <2>1, <2>2, SubSeqProperties
  <2>4. DOMAIN q = 1 .. l
    BY <2>3, LenProperties
  <2>5. \A k \in 1 .. l : from(i) + k - 1 \in from(i) .. to(i)
    BY <2>1
  <2>6. \A k \in from(i) .. to(i) : k - from(i) + 1 \in 1 .. l /\ from(i) + (k - from(i) + 1) - 1 = k
    BY <2>1
  <2>7. ToSet(q) \subseteq {s[k] : k \in from(i) .. to(i)}
    <3> HIDE DEF q, l
    <3> QED BY <2>3, <2>4, <2>5 DEF ToSet
  <2>8. ASSUME NEW k \in from(i) .. to(i) PROVE s[k] \in ToSet(q)
    <3> HIDE DEF q, l
    <3>1. PICK m \in 1 .. l : from(i) + m - 1 = k
      BY <2>6
    <3>2. s[k] = q[m]
      BY <2>3, <3>1
    <3>3. QED
      BY <2>4, <3>2 DEF ToSet
  <2>9. QED
    BY <2>3, <2>7, <2>8
<1>5. /\ Batches(s) \in [1 .. N -> Seq(T)]
      /\ \A i \in 1 .. N : Batches(s)[i] = SubSeq(s, from(i), to(i))
  BY <1>4 DEF Batches
<1>6. Batches(s) \in Seq(Seq(T)) /\ DOMAIN Batches(s) = 1 .. N
  <2> HIDE DEF N
  <2> QED BY <1>2, <1>5, SeqDef
<1>7. ASSUME NEW i \in 1 .. N PROVE ToSet(Batches(s)[i]) \subseteq ToSet(s)
  <2> HIDE DEF N, from, to
  <2>1. from(i) .. to(i) \subseteq 1 .. n
    BY <1>1, <1>3
  <2>2. ToSet(Batches(s)[i]) = {s[k] : k \in from(i) .. to(i)}
    BY <1>4, <1>5
  <2>3. ToSet(s) = {s[k] : k \in 1 .. n}
    BY <1>1 DEF ToSet
  <2>4. QED
    BY <2>1, <2>2, <2>3
<1>8. ASSUME NEW k \in 1 .. n PROVE \E i \in 1 .. N : s[k] \in ToSet(Batches(s)[i])
  <2> DEFINE i == ((k - 1) \div Batch) + 1
  <2>1. i \in 1 .. N /\ (i - 1) * Batch <= k - 1 /\ k <= i * Batch
    <3>1. \A a, b \in Nat : b > 0 => /\ a \div b \in Nat
                                     /\ (a \div b) * b <= a
                                     /\ a < (a \div b) * b + b
      OBVIOUS
    <3>2. \A a, b \in Nat : b > 0 => ((a \div b) + 1) * b = (a \div b) * b + b
      OBVIOUS
    <3>3. \A a, b, m \in Nat : b > 0 /\ a < m => (a \div b) + 1 <= (m + b - 1) \div b
      OBVIOUS
    <3>4. k - 1 \in Nat /\ k - 1 < n
      BY <1>1
    <3>5. (k - 1) \div Batch \in Nat /\ ((k - 1) \div Batch) * Batch <= k - 1
          /\ k - 1 < ((k - 1) \div Batch) * Batch + Batch
      BY <1>1, <3>1, <3>4
    <3>6. ((k - 1) \div Batch) + 1 <= N
      BY <1>1, <3>3, <3>4
    <3>7. (((k - 1) \div Batch) + 1) * Batch = ((k - 1) \div Batch) * Batch + Batch
      BY <1>1, <3>2, <3>4
    <3>8. (((k - 1) \div Batch) + 1) - 1 = (k - 1) \div Batch
      BY <3>5
    <3>9. k <= (((k - 1) \div Batch) + 1) * Batch
      <4> DEFINE d == ((k - 1) \div Batch) * Batch
      <4>1. d \in Nat /\ k - 1 < d + Batch
        BY <1>1, <3>5
      <4>2. k <= d + Batch
        <5> HIDE DEF d
        <5> QED BY <1>1, <4>1
      <4>3. QED
        BY <3>7, <4>2
    <3>10. QED
      BY <1>2, <3>5, <3>6, <3>8, <3>9
  <2>2. k \in from(i) .. to(i)
    <3> HIDE DEF i
    <3>1. i \in Nat /\ (i - 1) * Batch \in Nat
      BY <1>1, <2>1
    <3>2. (i - 1) * Batch + 1 <= k /\ k <= to(i) /\ to(i) \in Nat
      <4> HIDE DEF to, n, N
      <4>1. k \in Nat /\ k <= n
        BY <1>1
      <4>2. QED
        BY <1>1, <1>3, <2>1, <3>1, <4>1
    <3>3. from(i) \in Nat /\ from(i) <= k
      BY <3>1, <3>2
    <3>4. QED
      <4> HIDE DEF to, from
      <4> QED BY <3>2, <3>3
  <2>3. QED
    <3> HIDE DEF from, to, i, N
    <3> QED BY <1>4, <1>5, <2>1, <2>2
<1>9. QED
  <2> HIDE DEF N
  <2>1. ToSet(s) = {s[k] : k \in 1 .. n}
    BY <1>1 DEF ToSet
  <2>2. \A x \in ToSet(s) : \E i \in 1 .. N : x \in ToSet(Batches(s)[i])
    BY <1>8, <2>1
  <2>3. UNION {ToSet(Batches(s)[i]) : i \in 1 .. N} = ToSet(s)
    BY <1>7, <2>2
  <2>4. QED
    BY <1>6, <2>3

\* What some requests send is what each of them sends.
LEMMA PendConcat ==
  ASSUME NEW s \in Seq(Job), NEW t \in Seq(Job), NEW kind
  PROVE  s \o t \in Seq(Job) /\ Pend(s \o t, kind) = Pend(s, kind) \cup Pend(t, kind)
<1>1. s \o t \in Seq(Job) /\ ToSet(s \o t) = ToSet(s) \cup ToSet(t)
  BY MembersOfConcat
<1>2. QED
  BY <1>1 DEF Pend

\* The next request and those after it.
LEMMA PendTail ==
  ASSUME NEW s \in Seq(Job), s # <<>>, NEW kind
  PROVE  /\ Tail(s) \in Seq(Job) /\ Head(s) \in Job
         /\ Pend(s, kind) = Pend(Tail(s), kind)
                            \cup (IF Head(s).kind = kind THEN ToSet(Head(s).items) ELSE {})
<1>1. Tail(s) \in Seq(Job) /\ ToSet(s) = {Head(s)} \cup ToSet(Tail(s)) /\ Head(s) \in Job
  BY MembersOfTail, HeadTailProperties
<1>2. {j \in ToSet(s) : j.kind = kind}
        = {j \in ToSet(Tail(s)) : j.kind = kind} \cup (IF Head(s).kind = kind THEN {Head(s)} ELSE {})
  BY <1>1
<1>3. CASE Head(s).kind = kind
  BY <1>1, <1>2, <1>3 DEF Pend
<1>4. CASE Head(s).kind # kind
  BY <1>1, <1>2, <1>4 DEF Pend
<1>5. QED
  BY <1>3, <1>4

\* The requests for some items of a kind send them all and nothing else.
LEMMA JobsFacts ==
  ASSUME NEW T, NEW s \in Seq(T), NEW kind, [kind : {kind}, items : Seq(T)] \subseteq Job
  PROVE  /\ Jobs(kind, s) \in Seq(Job)
         /\ Len(Jobs(kind, s)) = Len(Batches(s))
         /\ \A j \in ToSet(Jobs(kind, s)) : j.kind = kind
         /\ \A k : Pend(Jobs(kind, s), k) = IF k = kind THEN ToSet(s) ELSE {}
<1> DEFINE b == Batches(s)
<1>1. b \in Seq(Seq(T)) /\ UNION {ToSet(b[i]) : i \in DOMAIN b} = ToSet(s)
  BY BatchesFacts
<1>2. Len(b) \in Nat /\ DOMAIN b = 1 .. Len(b) /\ \A i \in 1 .. Len(b) : b[i] \in Seq(T)
  <2> HIDE DEF b
  <2> QED BY <1>1, LenProperties, ElementOfSeq
<1>3. Jobs(kind, s) = [i \in 1 .. Len(b) |-> [kind |-> kind, items |-> b[i]]]
  BY <1>2 DEF Jobs
<1> HIDE DEF b
<1>4. ASSUME NEW i \in 1 .. Len(b)
      PROVE  /\ Jobs(kind, s)[i] = [kind |-> kind, items |-> b[i]]
             /\ Jobs(kind, s)[i] \in Job
  <2>1. [kind |-> kind, items |-> b[i]] \in [kind : {kind}, items : Seq(T)]
    BY <1>2
  <2>2. QED
    BY <1>3, <2>1
<1>5. Jobs(kind, s) \in [1 .. Len(b) -> Job]
  BY <1>3, <1>4
<1>6. Jobs(kind, s) \in Seq(Job) /\ Len(Jobs(kind, s)) = Len(b) /\ DOMAIN Jobs(kind, s) = 1 .. Len(b)
  BY <1>2, <1>5, SeqDef
<1>7. ToSet(Jobs(kind, s)) = {[kind |-> kind, items |-> b[i]] : i \in 1 .. Len(b)}
  BY <1>4, <1>6 DEF ToSet
<1>8. ASSUME NEW k PROVE Pend(Jobs(kind, s), k) = IF k = kind THEN ToSet(s) ELSE {}
  <2>1. CASE k = kind
    <3>1. {j \in ToSet(Jobs(kind, s)) : j.kind = k} = {[kind |-> kind, items |-> b[i]] : i \in 1 .. Len(b)}
      BY <1>7, <2>1
    <3>2. Pend(Jobs(kind, s), k) = UNION {ToSet(b[i]) : i \in 1 .. Len(b)}
      <4>1. \A i \in 1 .. Len(b) : [kind |-> kind, items |-> b[i]].items = b[i]
        OBVIOUS
      <4>2. {ToSet(j.items) : j \in {[kind |-> kind, items |-> b[i]] : i \in 1 .. Len(b)}}
              = {ToSet(b[i]) : i \in 1 .. Len(b)}
        BY <4>1
      <4>3. QED
        BY <3>1, <4>2 DEF Pend
    <3>3. QED
      BY <1>1, <1>2, <2>1, <3>2
  <2>2. CASE k # kind
    <3>1. {j \in ToSet(Jobs(kind, s)) : j.kind = k} = {}
      BY <1>7, <2>2
    <3>2. QED
      BY <2>2, <3>1 DEF Pend
  <2>3. QED
    BY <2>1, <2>2
<1>9. QED
  BY <1>6, <1>7, <1>8 DEF b

\* The edges a build writes for a paper, and for several.
LinksOf(p) == {<<p.id, n>> : n \in Authors[p.id] \cup Concepts[p.text]}
LinksOfAll(papers) == UNION {LinksOf(papers[i]) : i \in DOMAIN papers}

\* The authors and the concepts of a paper are names.
LEMMA NamesOf ==
  ASSUME NEW p \in Entry
  PROVE  /\ p.id \in Ids /\ p.text \in Texts
         /\ Authors[p.id] \subseteq Names /\ Concepts[p.text] \subseteq Names
<1>1. p.id \in DOMAIN Authors /\ p.text \in DOMAIN Concepts
  BY LoadAssumption DEF Entry
<1>2. Authors[p.id] \in Range(Authors) /\ Concepts[p.text] \in Range(Concepts)
  BY <1>1 DEF Range
<1>3. QED
  BY <1>2 DEF Names, Entry

\* The edges from a paper to some names, as a sequence.
LEMMA EdgesFacts ==
  ASSUME NEW p \in Entry, NEW names \in SUBSET Names
  PROVE  Edges(p, names) \in Seq(Ids \X Names) /\ ToSet(Edges(p, names)) = {<<p.id, n>> : n \in names}
<1> DEFINE E == {<<p.id, n>> : n \in names}
           f == [n \in names |-> <<p.id, n>>]
<1>1. IsFiniteSet(names)
  BY LoadAssumption, FS_Subset
<1>2. f \in Surjection(names, E)
  BY DEF Surjection
<1>3. IsFiniteSet(E)
  <2> HIDE DEF f, E
  <2> QED BY <1>1, <1>2, FS_Surjection
<1>4. E \subseteq Ids \X Names
  BY NamesOf
<1>5. SetToSeq(E) \in Seq(E) /\ ToSet(SetToSeq(E)) = E
  <2> HIDE DEF E
  <2> QED BY <1>3, SetToSeqFacts
<1>6. SetToSeq(E) \in Seq(Ids \X Names)
  <2> HIDE DEF E
  <2> QED BY <1>4, <1>5, SeqMonotonic
<1>7. QED
  BY <1>5, <1>6 DEF Edges

\* The edges of several papers, as a sequence: names[i] are those of the i-th.
LEMMA AllEdges ==
  ASSUME NEW papers \in Seq(Entry), NEW names, \A i \in DOMAIN papers : names[i] \subseteq Names
  PROVE  LET s == FlattenSeq([i \in DOMAIN papers |-> Edges(papers[i], names[i])])
         IN  /\ s \in Seq(Ids \X Names)
             /\ ToSet(s) = UNION {{<<papers[i].id, n>> : n \in names[i]} : i \in DOMAIN papers}
<1> DEFINE q == [i \in DOMAIN papers |-> Edges(papers[i], names[i])]
<1>1. Len(papers) \in Nat /\ DOMAIN papers = 1 .. Len(papers) /\ \A i \in DOMAIN papers : papers[i] \in Entry
  BY LenProperties, ElementOfSeq
<1>2. ASSUME NEW i \in DOMAIN papers
      PROVE  /\ Edges(papers[i], names[i]) \in Seq(Ids \X Names)
             /\ ToSet(Edges(papers[i], names[i])) = {<<papers[i].id, n>> : n \in names[i]}
  BY <1>1, EdgesFacts
<1>3. q \in [1 .. Len(papers) -> Seq(Ids \X Names)]
  BY <1>1, <1>2
<1>4. q \in Seq(Seq(Ids \X Names)) /\ DOMAIN q = DOMAIN papers
  <2> HIDE DEF q
  <2> QED BY <1>1, <1>3, SeqDef
<1>5. FlattenSeq(q) \in Seq(Ids \X Names) /\ ToSet(FlattenSeq(q)) = UNION {ToSet(q[i]) : i \in DOMAIN q}
  <2> HIDE DEF q
  <2> QED BY <1>4, FlattenFacts
<1>6. \A i \in DOMAIN papers : ToSet(q[i]) = {<<papers[i].id, n>> : n \in names[i]}
  BY <1>2
<1>7. QED
  <2> DEFINE A == {ToSet(q[i]) : i \in DOMAIN q}
             B == {{<<papers[i].id, n>> : n \in names[i]} : i \in DOMAIN papers}
  <2>1. A = B
    <3> HIDE DEF q
    <3> QED BY <1>4, <1>6
  <2>2. ToSet(FlattenSeq(q)) = UNION B
    <3> HIDE DEF q, B
    <3> QED BY <1>5, <2>1
  <2>3. QED
    BY <1>5, <2>2

\* The requests for papers come first if others follow them,
LEMMA PapersFirstConcat ==
  ASSUME NEW s \in Seq(Job), NEW t \in Seq(Job),
         PapersFirst(s), \A j \in ToSet(t) : j.kind # "Paper"
  PROVE  PapersFirst(s \o t)
<1>1. /\ s \o t \in Seq(Job)
      /\ Len(s \o t) = Len(s) + Len(t)
      /\ \A i \in 1 .. Len(s) + Len(t) : (s \o t)[i] = IF i <= Len(s) THEN s[i] ELSE t[i - Len(s)]
  BY ConcatProperties
<1>2. /\ Len(s) \in Nat /\ Len(t) \in Nat
      /\ DOMAIN s = 1 .. Len(s) /\ DOMAIN t = 1 .. Len(t)
      /\ DOMAIN (s \o t) = 1 .. Len(s) + Len(t)
  BY <1>1, LenProperties
<1>3. ASSUME NEW i \in 1 .. Len(s) + Len(t), (s \o t)[i].kind = "Paper"
      PROVE  i \in 1 .. Len(s) /\ s[i].kind = "Paper"
  <2>1. CASE i <= Len(s)
    BY <1>1, <1>2, <1>3, <2>1
  <2>2. CASE ~(i <= Len(s))
    <3>1. i - Len(s) \in DOMAIN t /\ (s \o t)[i] = t[i - Len(s)]
      BY <1>1, <1>2, <2>2
    <3>2. QED
      BY <1>3, <3>1 DEF ToSet
  <2>3. QED
    BY <2>1, <2>2
<1>4. ASSUME NEW i \in 1 .. Len(s) + Len(t), NEW j \in 1 .. Len(s) + Len(t),
             i < j, (s \o t)[j].kind = "Paper"
      PROVE  (s \o t)[i].kind = "Paper"
  <2>1. j \in 1 .. Len(s) /\ s[j].kind = "Paper" /\ i \in 1 .. Len(s)
    BY <1>2, <1>3, <1>4
  <2>2. s[i].kind = "Paper"
    BY <1>2, <1>4, <2>1 DEF PapersFirst
  <2>3. (s \o t)[i] = s[i]
    BY <1>1, <1>2, <2>1
  <2>4. QED
    BY <2>2, <2>3
<1>5. QED
  BY <1>2, <1>4 DEF PapersFirst

\* ... and go on doing so; after the last of them there are no more.
LEMMA PapersFirstTail ==
  ASSUME NEW s \in Seq(Job), s # <<>>, PapersFirst(s)
  PROVE  PapersFirst(Tail(s)) /\ (Head(s).kind # "Paper" => Pend(s, "Paper") = {})
<1>1. /\ Tail(s) \in Seq(Job)
      /\ Len(Tail(s)) = Len(s) - 1
      /\ \A i \in 1 .. Len(s) - 1 : Tail(s)[i] = s[i + 1]
      /\ Head(s) = s[1]
  BY HeadTailProperties
<1>2. Len(s) \in Nat \ {0}
  BY EmptySeq
<1>3. DOMAIN s = 1 .. Len(s) /\ DOMAIN Tail(s) = 1 .. Len(s) - 1
  BY <1>1, LenProperties
<1>4. \A i, j \in 1 .. Len(s) - 1 : i < j => i + 1 \in 1 .. Len(s) /\ j + 1 \in 1 .. Len(s) /\ i + 1 < j + 1
  BY <1>2
<1>5. PapersFirst(Tail(s))
  BY <1>1, <1>3, <1>4 DEF PapersFirst
<1>6. ASSUME Head(s).kind # "Paper" PROVE \A j \in ToSet(s) : j.kind # "Paper"
  <2>1. \A i \in 1 .. Len(s) : i = 1 \/ (1 < i /\ 1 \in 1 .. Len(s))
    BY <1>2
  <2>2. \A i \in 1 .. Len(s) : s[i].kind # "Paper"
    BY <1>1, <1>3, <1>6, <2>1 DEF PapersFirst
  <2>3. QED
    BY <1>3, <2>2 DEF ToSet
<1>7. QED
  BY <1>5, <1>6 DEF Pend

\* What build_kg.py sends for some papers: the papers before anything else,
\* all their edges, and their vectors if it embeds.
LEMMA BuildJobsFacts ==
  ASSUME NEW papers \in Seq(Entry), NEW embed \in BOOLEAN
  PROVE  LET jobs == BuildJobs(papers, embed)
         IN  /\ jobs \in Seq(Job)
             /\ PapersFirst(jobs)
             /\ Pend(jobs, "Paper") = ToSet(papers)
             /\ Pend(jobs, "edge") = LinksOfAll(papers)
             /\ Pend(jobs, "PaperEmb") = IF embed THEN ToSet(papers) ELSE {}
<1> DEFINE authors  == UNION {Authors[papers[i].id] : i \in DOMAIN papers}
           concepts == UNION {Concepts[papers[i].text] : i \in DOMAIN papers}
           byId     == [i \in DOMAIN papers |-> Authors[papers[i].id]]
           byText   == [i \in DOMAIN papers |-> Concepts[papers[i].text]]
           written  == FlattenSeq([i \in DOMAIN papers |-> Edges(papers[i], Authors[papers[i].id])])
           about    == FlattenSeq([i \in DOMAIN papers |-> Edges(papers[i], Concepts[papers[i].text])])
           s1 == Jobs("Paper", papers)
           s2 == Jobs("name", SetToSeq(authors))
           s3 == Jobs("name", SetToSeq(concepts))
           s4 == Jobs("edge", written)
           s5 == Jobs("edge", about)
           s6 == Jobs("embed", papers)
           s7 == Jobs("PaperEmb", papers)
           e  == IF embed THEN s6 \o s7 ELSE <<>>
           t2 == s1 \o s2
           t3 == t2 \o s3
           t4 == t3 \o s4
           t5 == t4 \o s5
<1>1. \A i \in DOMAIN papers : papers[i] \in Entry
  BY LenProperties, ElementOfSeq
<1>2. /\ \A i \in DOMAIN papers : Authors[papers[i].id] \subseteq Names /\ Concepts[papers[i].text] \subseteq Names
      /\ authors \subseteq Names /\ concepts \subseteq Names
  BY <1>1, NamesOf
<1>3. IsFiniteSet(authors) /\ IsFiniteSet(concepts)
  <2> HIDE DEF authors, concepts
  <2> QED BY <1>2, LoadAssumption, FS_Subset
<1>4. SetToSeq(authors) \in Seq(Names) /\ SetToSeq(concepts) \in Seq(Names)
  <2> HIDE DEF authors, concepts
  <2> QED BY <1>2, <1>3, SetToSeqFacts, SeqMonotonic
<1>5. /\ written \in Seq(Ids \X Names)
      /\ ToSet(written) = UNION {{<<papers[i].id, n>> : n \in Authors[papers[i].id]} : i \in DOMAIN papers}
  <2>1. \A i \in DOMAIN papers : byId[i] \subseteq Names
    BY <1>2
  <2>2. written = FlattenSeq([i \in DOMAIN papers |-> Edges(papers[i], byId[i])])
    OBVIOUS
  <2>3. UNION {{<<papers[i].id, n>> : n \in Authors[papers[i].id]} : i \in DOMAIN papers}
          = UNION {{<<papers[i].id, n>> : n \in byId[i]} : i \in DOMAIN papers}
    OBVIOUS
  <2>4. QED
    <3> HIDE DEF byId, written
    <3> QED BY <2>1, <2>2, <2>3, AllEdges
<1>6. /\ about \in Seq(Ids \X Names)
      /\ ToSet(about) = UNION {{<<papers[i].id, n>> : n \in Concepts[papers[i].text]} : i \in DOMAIN papers}
  <2>1. \A i \in DOMAIN papers : byText[i] \subseteq Names
    BY <1>2
  <2>2. about = FlattenSeq([i \in DOMAIN papers |-> Edges(papers[i], byText[i])])
    OBVIOUS
  <2>3. UNION {{<<papers[i].id, n>> : n \in Concepts[papers[i].text]} : i \in DOMAIN papers}
          = UNION {{<<papers[i].id, n>> : n \in byText[i]} : i \in DOMAIN papers}
    OBVIOUS
  <2>4. QED
    <3> HIDE DEF byText, about
    <3> QED BY <2>1, <2>2, <2>3, AllEdges
<1>7. /\ [kind : {"Paper"}, items : Seq(Entry)] \subseteq Job
      /\ [kind : {"embed"}, items : Seq(Entry)] \subseteq Job
      /\ [kind : {"PaperEmb"}, items : Seq(Entry)] \subseteq Job
      /\ [kind : {"name"}, items : Seq(Names)] \subseteq Job
      /\ [kind : {"edge"}, items : Seq(Ids \X Names)] \subseteq Job
  BY DEF Job
<1> HIDE DEF authors, concepts, byId, byText, written, about
<1>8. /\ s1 \in Seq(Job) /\ (\A j \in ToSet(s1) : j.kind = "Paper")
      /\ \A k : Pend(s1, k) = IF k = "Paper" THEN ToSet(papers) ELSE {}
  BY <1>7, JobsFacts
<1>9. /\ s2 \in Seq(Job) /\ (\A j \in ToSet(s2) : j.kind = "name")
      /\ \A k : Pend(s2, k) = IF k = "name" THEN ToSet(SetToSeq(authors)) ELSE {}
  BY <1>4, <1>7, JobsFacts
<1>10. /\ s3 \in Seq(Job) /\ (\A j \in ToSet(s3) : j.kind = "name")
       /\ \A k : Pend(s3, k) = IF k = "name" THEN ToSet(SetToSeq(concepts)) ELSE {}
  BY <1>4, <1>7, JobsFacts
<1>11. /\ s4 \in Seq(Job) /\ (\A j \in ToSet(s4) : j.kind = "edge")
       /\ \A k : Pend(s4, k) = IF k = "edge" THEN ToSet(written) ELSE {}
  BY <1>5, <1>7, JobsFacts
<1>12. /\ s5 \in Seq(Job) /\ (\A j \in ToSet(s5) : j.kind = "edge")
       /\ \A k : Pend(s5, k) = IF k = "edge" THEN ToSet(about) ELSE {}
  BY <1>6, <1>7, JobsFacts
<1>13. /\ s6 \in Seq(Job) /\ (\A j \in ToSet(s6) : j.kind = "embed")
       /\ \A k : Pend(s6, k) = IF k = "embed" THEN ToSet(papers) ELSE {}
  BY <1>7, JobsFacts
<1>14. /\ s7 \in Seq(Job) /\ (\A j \in ToSet(s7) : j.kind = "PaperEmb")
       /\ \A k : Pend(s7, k) = IF k = "PaperEmb" THEN ToSet(papers) ELSE {}
  BY <1>7, JobsFacts
<1> HIDE DEF s1, s2, s3, s4, s5, s6, s7
<1>15. /\ e \in Seq(Job) /\ \A j \in ToSet(e) : j.kind # "Paper"
       /\ Pend(e, "Paper") = {} /\ Pend(e, "edge") = {}
       /\ Pend(e, "PaperEmb") = IF embed THEN ToSet(papers) ELSE {}
  <2>1. CASE embed
    <3>1. s6 \o s7 \in Seq(Job) /\ ToSet(s6 \o s7) = ToSet(s6) \cup ToSet(s7)
      BY <1>13, <1>14, MembersOfConcat
    <3>2. \A k : Pend(s6 \o s7, k) = Pend(s6, k) \cup Pend(s7, k)
      BY <1>13, <1>14, PendConcat
    <3>3. e = s6 \o s7
      BY <2>1
    <3> HIDE DEF e
    <3>4. \A j \in ToSet(e) : j.kind # "Paper"
      BY <1>13, <1>14, <3>1, <3>3
    <3>5. Pend(e, "Paper") = {} /\ Pend(e, "edge") = {}
      BY <1>13, <1>14, <3>2, <3>3
    <3>6. Pend(s6, "PaperEmb") = {} /\ Pend(s7, "PaperEmb") = ToSet(papers)
      BY <1>13, <1>14
    <3>7. Pend(e, "PaperEmb") = ToSet(papers)
      BY <3>2, <3>3, <3>6
    <3>8. QED
      BY <2>1, <3>1, <3>3, <3>4, <3>5, <3>7
  <2>2. CASE ~embed
    <3>1. e = <<>> /\ ToSet(<<>>) = {} /\ <<>> \in Seq(Job)
      BY <2>2 DEF ToSet
    <3>2. QED
      <4> HIDE DEF e
      <4> QED BY <2>2, <3>1 DEF Pend
  <2>3. QED
    BY <2>1, <2>2
<1> HIDE DEF e
<1>16. PapersFirst(s1)
  <2>1. \A i \in DOMAIN s1 : s1[i] \in ToSet(s1)
    BY DEF ToSet
  <2>2. QED
    BY <1>8, <2>1 DEF PapersFirst
<1>17. t2 \in Seq(Job) /\ PapersFirst(t2) /\ \A k : Pend(t2, k) = Pend(s1, k) \cup Pend(s2, k)
  BY <1>8, <1>9, <1>16, PendConcat, PapersFirstConcat
<1> HIDE DEF t2
<1>18. t3 \in Seq(Job) /\ PapersFirst(t3) /\ \A k : Pend(t3, k) = Pend(t2, k) \cup Pend(s3, k)
  BY <1>10, <1>17, PendConcat, PapersFirstConcat
<1> HIDE DEF t3
<1>19. t4 \in Seq(Job) /\ PapersFirst(t4) /\ \A k : Pend(t4, k) = Pend(t3, k) \cup Pend(s4, k)
  BY <1>11, <1>18, PendConcat, PapersFirstConcat
<1> HIDE DEF t4
<1>20. t5 \in Seq(Job) /\ PapersFirst(t5) /\ \A k : Pend(t5, k) = Pend(t4, k) \cup Pend(s5, k)
  BY <1>12, <1>19, PendConcat, PapersFirstConcat
<1> HIDE DEF t5
<1>21. t5 \o e \in Seq(Job) /\ PapersFirst(t5 \o e) /\ \A k : Pend(t5 \o e, k) = Pend(t5, k) \cup Pend(e, k)
  BY <1>15, <1>20, PendConcat, PapersFirstConcat
<1>22. BuildJobs(papers, embed) = t5 \o e
  BY DEF BuildJobs, authors, concepts, written, about, s1, s2, s3, s4, s5, s6, s7, e, t2, t3, t4, t5
<1>23. \A k : Pend(t5, k) = Pend(s1, k) \cup Pend(s2, k) \cup Pend(s3, k) \cup Pend(s4, k) \cup Pend(s5, k)
  BY <1>17, <1>18, <1>19, <1>20
<1>24. /\ Pend(t5, "Paper") = ToSet(papers)
       /\ Pend(t5, "PaperEmb") = {}
       /\ Pend(t5, "edge") = ToSet(written) \cup ToSet(about)
  <2>1. Pend(t5, "Paper") = ToSet(papers) \cup {} \cup {} \cup {} \cup {}
    BY <1>8, <1>9, <1>10, <1>11, <1>12, <1>23
  <2>2. Pend(t5, "PaperEmb") = {} \cup {} \cup {} \cup {} \cup {}
    BY <1>8, <1>9, <1>10, <1>11, <1>12, <1>23
  <2>3. Pend(t5, "edge") = {} \cup {} \cup {} \cup ToSet(written) \cup ToSet(about)
    BY <1>8, <1>9, <1>10, <1>11, <1>12, <1>23
  <2>4. QED
    BY <2>1, <2>2, <2>3
<1>25. ToSet(written) \cup ToSet(about) = LinksOfAll(papers)
  <2>1. \A i \in DOMAIN papers : LinksOf(papers[i]) = {<<papers[i].id, n>> : n \in Authors[papers[i].id]}
                                                       \cup {<<papers[i].id, n>> : n \in Concepts[papers[i].text]}
    BY DEF LinksOf
  <2>2. QED
    BY <1>5, <1>6, <2>1 DEF LinksOfAll
<1>26. QED
  BY <1>15, <1>21, <1>22, <1>24, <1>25

\* What embed_backfill.py sends for some papers: no vertex and no edge.
LEMMA BackfillFacts ==
  ASSUME NEW papers \in Seq(Entry)
  PROVE  LET jobs == BackfillJobs(papers)
         IN  /\ jobs \in Seq(Job)
             /\ PapersFirst(jobs)
             /\ Pend(jobs, "Paper") = {} /\ Pend(jobs, "edge") = {}
             /\ Pend(jobs, "PaperEmb") = ToSet(papers)
<1> DEFINE em == Jobs("embed", papers)
           wr == Jobs("PaperEmb", papers)
           b  == BackfillJobs(papers)
           n  == Len(em)
<1>1. /\ [kind : {"embed"}, items : Seq(Entry)] \subseteq Job
      /\ [kind : {"PaperEmb"}, items : Seq(Entry)] \subseteq Job
  BY DEF Job
<1>2. /\ em \in Seq(Job) /\ (\A j \in ToSet(em) : j.kind = "embed")
      /\ Len(em) = Len(Batches(papers))
      /\ \A k : Pend(em, k) = IF k = "embed" THEN ToSet(papers) ELSE {}
  BY <1>1, JobsFacts
<1>3. /\ wr \in Seq(Job) /\ (\A j \in ToSet(wr) : j.kind = "PaperEmb")
      /\ Len(wr) = Len(Batches(papers))
      /\ \A k : Pend(wr, k) = IF k = "PaperEmb" THEN ToSet(papers) ELSE {}
  BY <1>1, JobsFacts
<1>4. b = [i \in 1 .. 2 * n |-> IF i % 2 = 1 THEN em[(i + 1) \div 2] ELSE wr[i \div 2]]
  BY DEF BackfillJobs
<1> HIDE DEF em, wr, b
<1>5. n \in Nat /\ Len(wr) = n
  BY <1>2, <1>3
<1>6. DOMAIN em = 1 .. n /\ DOMAIN wr = 1 .. n
  BY <1>2, <1>3, <1>5, LenProperties
<1>7. \A m \in Nat : \A i \in 1 .. 2 * m : /\ i % 2 = 1 => (i + 1) \div 2 \in 1 .. m
                                           /\ i % 2 # 1 => i \div 2 \in 1 .. m
  OBVIOUS
<1>8. ASSUME NEW i \in 1 .. 2 * n PROVE b[i] \in ToSet(em) \cup ToSet(wr)
  <2>1. CASE i % 2 = 1
    <3>1. (i + 1) \div 2 \in 1 .. n
      <4> HIDE DEF n
      <4> QED BY <1>5, <1>7, <2>1
    <3>2. b[i] = em[(i + 1) \div 2]
      BY <1>4, <2>1
    <3>3. QED
      BY <1>6, <3>1, <3>2 DEF ToSet
  <2>2. CASE i % 2 # 1
    <3>1. i \div 2 \in 1 .. n
      <4> HIDE DEF n
      <4> QED BY <1>5, <1>7, <2>2
    <3>2. b[i] = wr[i \div 2]
      BY <1>4, <2>2
    <3>3. QED
      BY <1>6, <3>1, <3>2 DEF ToSet
  <2>3. QED
    BY <2>1, <2>2
<1>9. \A m \in Nat : \A k \in 1 .. m : /\ 2 * k - 1 \in 1 .. 2 * m /\ (2 * k - 1) % 2 = 1 /\ ((2 * k - 1) + 1) \div 2 = k
                                       /\ 2 * k \in 1 .. 2 * m /\ (2 * k) % 2 # 1 /\ (2 * k) \div 2 = k
  OBVIOUS
<1>10. ASSUME NEW k \in 1 .. n PROVE \E i, j \in 1 .. 2 * n : b[i] = em[k] /\ b[j] = wr[k]
  <2> HIDE DEF n
  <2>1. /\ 2 * k - 1 \in 1 .. 2 * n /\ (2 * k - 1) % 2 = 1 /\ ((2 * k - 1) + 1) \div 2 = k
        /\ 2 * k \in 1 .. 2 * n /\ (2 * k) % 2 # 1 /\ (2 * k) \div 2 = k
    BY <1>5, <1>9
  <2>2. b[2 * k - 1] = em[k]
    BY <1>4, <2>1
  <2>3. b[2 * k] = wr[k]
    BY <1>4, <2>1
  <2>4. QED
    BY <2>1, <2>2, <2>3
<1>11. \A j \in ToSet(em) \cup ToSet(wr) : j \in Job
  <2>1. \A i \in 1 .. n : em[i] \in Job /\ wr[i] \in Job
    BY <1>2, <1>3, <1>5, ElementOfSeq
  <2>2. QED
    BY <1>6, <2>1 DEF ToSet
<1>12. DOMAIN b = 1 .. 2 * n
  BY <1>4
<1>13. b \in Seq(Job)
  <2>1. b = [i \in 1 .. 2 * n |-> b[i]]
    BY <1>4
  <2>2. \A i \in 1 .. 2 * n : b[i] \in Job
    BY <1>8, <1>11
  <2>3. b \in [1 .. 2 * n -> Job]
    BY <2>1, <2>2
  <2>4. 2 * n \in Nat
    BY <1>5
  <2>5. QED
    BY <2>3, <2>4, SeqDef
<1>14. ToSet(b) = ToSet(em) \cup ToSet(wr)
  <2>1. ToSet(b) = {b[i] : i \in 1 .. 2 * n}
    BY <1>12 DEF ToSet
  <2>2. ToSet(em) = {em[i] : i \in 1 .. n} /\ ToSet(wr) = {wr[i] : i \in 1 .. n}
    BY <1>6 DEF ToSet
  <2>3. QED
    BY <1>8, <1>10, <2>1, <2>2
<1>15. \A k : Pend(b, k) = Pend(em, k) \cup Pend(wr, k)
  BY <1>14 DEF Pend
<1>16. Pend(b, "Paper") = {} /\ Pend(b, "edge") = {} /\ Pend(b, "PaperEmb") = ToSet(papers)
  <2>1. Pend(em, "PaperEmb") = {} /\ Pend(wr, "PaperEmb") = ToSet(papers)
    BY <1>2, <1>3
  <2>2. Pend(b, "Paper") = {} /\ Pend(b, "edge") = {}
    BY <1>2, <1>3, <1>15
  <2>3. QED
    BY <1>15, <2>1, <2>2
<1>17. PapersFirst(b)
  <2>1. \A i \in DOMAIN b : b[i] \in ToSet(b)
    BY DEF ToSet
  <2>2. QED
    BY <1>2, <1>3, <1>14, <2>1 DEF PapersFirst
<1>18. QED
  BY <1>13, <1>16, <1>17 DEF b

-----------------------------------------------------------------------------
(* Pages.                                                                  *)

\* A sequence whose elements are in a set is a sequence of that set.
LEMMA SeqOfMembers ==
  ASSUME NEW T, NEW s \in Seq(T), NEW U, ToSet(s) \subseteq U
  PROVE  s \in Seq(U)
<1>1. Len(s) \in Nat /\ s \in [1 .. Len(s) -> T] /\ DOMAIN s = 1 .. Len(s)
  BY LenProperties
<1>2. \A i \in 1 .. Len(s) : s[i] \in U
  BY <1>1 DEF ToSet
<1>3. s \in [1 .. Len(s) -> U]
  BY <1>1, <1>2
<1>4. QED
  BY <1>1, <1>3, SeqDef

\* A part of a sequence.
LEMMA PartFacts ==
  ASSUME NEW T, NEW s \in Seq(T), NEW m \in Nat \ {0}, NEW n \in Nat, n <= Len(s)
  PROVE  /\ SubSeq(s, m, n) \in Seq(T)
         /\ Len(SubSeq(s, m, n)) = IF m <= n THEN n - m + 1 ELSE 0
         /\ \A i \in 1 .. Len(SubSeq(s, m, n)) : m + i - 1 \in 1 .. Len(s) /\ SubSeq(s, m, n)[i] = s[m + i - 1]
         /\ ToSet(SubSeq(s, m, n)) \subseteq ToSet(s)
         /\ Once(s) => Once(SubSeq(s, m, n))
<1> DEFINE q == SubSeq(s, m, n)
<1>1. Len(s) \in Nat /\ DOMAIN s = 1 .. Len(s)
  BY LenProperties
<1>2. \A i \in m .. n : i \in 1 .. Len(s) /\ s[i] \in T
  BY <1>1, ElementOfSeq
<1>3. /\ q \in Seq(T)
      /\ Len(q) = IF m <= n THEN n - m + 1 ELSE 0
      /\ \A i \in 1 .. Len(q) : q[i] = s[m + i - 1]
  BY <1>2, SubSeqProperties
<1> HIDE DEF q
<1>4. DOMAIN q = 1 .. Len(q)
  BY <1>3, LenProperties
<1>5. \A i \in 1 .. Len(q) : m + i - 1 \in 1 .. Len(s) /\ q[i] = s[m + i - 1]
  BY <1>1, <1>3
<1>6. ToSet(q) \subseteq ToSet(s)
  BY <1>1, <1>4, <1>5 DEF ToSet
<1>7. Once(s) => Once(q)
  BY <1>1, <1>4, <1>5 DEF Once
<1>8. QED
  BY <1>3, <1>5, <1>6, <1>7 DEF q

\* Two sequences without repetitions and without a common id.
LEMMA OnceConcat ==
  ASSUME NEW T, NEW s \in Seq(T), NEW t \in Seq(T), Once(s), Once(t),
         \A x \in ToSet(s), y \in ToSet(t) : x.id # y.id
  PROVE  Once(s \o t)
<1>1. /\ s \o t \in Seq(T)
      /\ Len(s \o t) = Len(s) + Len(t)
      /\ \A i \in 1 .. Len(s) + Len(t) : (s \o t)[i] = IF i <= Len(s) THEN s[i] ELSE t[i - Len(s)]
  BY ConcatProperties
<1>2. /\ Len(s) \in Nat /\ Len(t) \in Nat
      /\ DOMAIN s = 1 .. Len(s) /\ DOMAIN t = 1 .. Len(t)
      /\ DOMAIN (s \o t) = 1 .. Len(s) + Len(t)
  BY <1>1, LenProperties
<1>3. \A i \in DOMAIN s, j \in DOMAIN t : s[i].id # t[j].id
  BY DEF ToSet
<1>4. ASSUME NEW i \in 1 .. Len(s) + Len(t), NEW j \in 1 .. Len(s) + Len(t), (s \o t)[i].id = (s \o t)[j].id
      PROVE  i = j
  <2>1. \A k \in 1 .. Len(s) + Len(t) :
          \/ k \in DOMAIN s /\ (s \o t)[k] = s[k]
          \/ ~(k <= Len(s)) /\ k - Len(s) \in DOMAIN t /\ (s \o t)[k] = t[k - Len(s)]
    BY <1>1, <1>2
  <2>2. CASE i \in DOMAIN s /\ (s \o t)[i] = s[i]
    <3>1. CASE j \in DOMAIN s /\ (s \o t)[j] = s[j]
      BY <1>4, <2>2, <3>1 DEF Once
    <3>2. CASE j - Len(s) \in DOMAIN t /\ (s \o t)[j] = t[j - Len(s)]
      BY <1>3, <1>4, <2>2, <3>2
    <3>3. QED
      BY <2>1, <3>1, <3>2
  <2>3. CASE i - Len(s) \in DOMAIN t /\ (s \o t)[i] = t[i - Len(s)]
    <3>1. CASE j \in DOMAIN s /\ (s \o t)[j] = s[j]
      BY <1>3, <1>4, <2>3, <3>1
    <3>2. CASE j - Len(s) \in DOMAIN t /\ (s \o t)[j] = t[j - Len(s)]
      <4>1. i - Len(s) = j - Len(s)
        BY <1>4, <2>3, <3>2 DEF Once
      <4>2. QED
        BY <1>2, <4>1
    <3>3. QED
      BY <2>1, <3>1, <3>2
  <2>4. QED
    BY <2>1, <2>2, <2>3
<1>5. QED
  BY <1>2, <1>4 DEF Once

ArxivOK == arxiv \in [listed : 1 .. Len(Submissions), text : [Ids -> Texts]]

\* What arXiv lists: the newest first, each once.
LEMMA ListingFacts ==
  ASSUME ArxivOK
  PROVE  /\ Listing \in Seq(Ids) /\ Len(Listing) = arxiv.listed /\ arxiv.listed \in Nat
         /\ \A i, j \in 1 .. Len(Listing) : Listing[i] = Listing[j] => i = j
<1> DEFINE n == Len(Submissions)
           m == n - arxiv.listed + 1
<1>1. /\ Submissions \in Seq(Ids) /\ n \in Nat /\ DOMAIN Submissions = 1 .. n
      /\ arxiv.listed \in 1 .. n
  BY LoadAssumption, LenProperties DEF ArxivOK
<1>2. \A i, j \in 1 .. n : Submissions[i] = Submissions[j] => i = j
  BY <1>1, LoadAssumption DEF IsInjective
<1>3. m \in Nat \ {0} /\ m <= n /\ n - m + 1 = arxiv.listed
  BY <1>1
<1>4. /\ SubSeq(Submissions, m, n) \in Seq(Ids)
      /\ Len(SubSeq(Submissions, m, n)) = arxiv.listed
      /\ \A i \in 1 .. Len(SubSeq(Submissions, m, n)) :
           m + i - 1 \in 1 .. n /\ SubSeq(Submissions, m, n)[i] = Submissions[m + i - 1]
  <2> HIDE DEF n, m
  <2>1. n <= Len(Submissions)
    BY <1>1 DEF n
  <2>2. QED
    BY <1>1, <1>3, <2>1, PartFacts DEF n
<1>5. Listing = SubSeq(Submissions, m, n)
  BY DEF Listing
<1>6. ASSUME NEW i \in 1 .. Len(Listing), NEW j \in 1 .. Len(Listing), Listing[i] = Listing[j] PROVE i = j
  <2> HIDE DEF n, m
  <2>1. m + i - 1 = m + j - 1
    BY <1>2, <1>4, <1>5, <1>6
  <2>2. QED
    BY <1>3, <2>1
<1>7. QED
  BY <1>1, <1>4, <1>5, <1>6

NoneEmpty == Range(arxiv.text) \cap Empty = {}

\* Where the next page begins and ends in the listing.
PageFrom == script.page * PageSize
PageTo == LET size == IF PageSize <= Count - Len(script.papers) THEN PageSize ELSE Count - Len(script.papers)
          IN  IF PageFrom + size <= arxiv.listed THEN PageFrom + size ELSE arxiv.listed

\* A page has papers with an abstract, each once; and all it could have if
\* every paper has an abstract.
LEMMA PageFacts ==
  ASSUME ArxivOK, script.page \in Nat, script.papers \in Seq(Entry), MorePages
  PROVE  /\ PageFrom \in Nat /\ PageTo \in Nat
         /\ Page \in Seq(Entry) /\ Once(Page)
         /\ \A p \in ToSet(Page) : p.text = arxiv.text[p.id]
         /\ NoneEmpty => Page = [i \in 1 .. (IF PageFrom < PageTo THEN PageTo - PageFrom ELSE 0) |->
                                   Paper(Listing[PageFrom + i])]
<1> DEFINE size == Min({PageSize, Count - Len(script.papers)})
           to  == Min({PageFrom + size, Len(Listing)})
           ids == SubSeq(Listing, PageFrom + 1, to)
           raw == [i \in DOMAIN ids |-> Paper(ids[i])]
           All == [id : Ids, text : Texts]
<1>1. /\ PageSize \in Nat \ {0} /\ Count \in Nat \ {0}
      /\ Len(script.papers) \in Nat /\ Len(script.papers) < Count
  BY LoadAssumption, LenProperties DEF MorePages
<1>2. PageFrom \in Nat
  BY <1>1 DEF PageFrom
<1>3. /\ Listing \in Seq(Ids) /\ Len(Listing) = arxiv.listed /\ arxiv.listed \in Nat
      /\ \A i, j \in 1 .. Len(Listing) : Listing[i] = Listing[j] => i = j
  BY ListingFacts
<1>4. size \in Nat \ {0} /\ size = IF PageSize <= Count - Len(script.papers) THEN PageSize ELSE Count - Len(script.papers)
  <2>1. Count - Len(script.papers) \in Int /\ Count - Len(script.papers) > 0
    BY <1>1
  <2>2. QED
    BY <1>1, <2>1, MinOfTwo
<1>5. to \in Nat /\ to <= Len(Listing) /\ to = PageTo
  <2> HIDE DEF size
  <2>1. PageFrom + size \in Nat
    BY <1>2, <1>4
  <2>2. to = IF PageFrom + size <= Len(Listing) THEN PageFrom + size ELSE Len(Listing)
    BY <1>3, <2>1, MinOfTwo
  <2>3. PageTo = IF PageFrom + size <= arxiv.listed THEN PageFrom + size ELSE arxiv.listed
    BY <1>4 DEF PageTo
  <2>4. QED
    <3> HIDE DEF to
    <3> QED BY <1>3, <2>1, <2>2, <2>3
<1> HIDE DEF size, to
<1>6. /\ ids \in Seq(Ids)
      /\ Len(ids) = IF PageFrom + 1 <= to THEN to - (PageFrom + 1) + 1 ELSE 0
      /\ \A i \in 1 .. Len(ids) : PageFrom + 1 + i - 1 \in 1 .. Len(Listing) /\ ids[i] = Listing[PageFrom + 1 + i - 1]
  <2>1. PageFrom + 1 \in Nat \ {0}
    BY <1>2
  <2>2. QED
    BY <1>3, <1>5, <2>1, PartFacts
<1> HIDE DEF ids
<1>7. Len(ids) \in Nat /\ DOMAIN ids = 1 .. Len(ids) /\ \A i \in 1 .. Len(ids) : ids[i] \in Ids
  BY <1>6, LenProperties, ElementOfSeq
<1>8. \A id \in Ids : Paper(id) \in All /\ Paper(id).id = id /\ Paper(id).text = arxiv.text[id]
  BY DEF Paper, ArxivOK
<1>9. raw \in Seq(All) /\ Len(raw) = Len(ids) /\ DOMAIN raw = 1 .. Len(ids)
  <2>1. raw \in [1 .. Len(ids) -> All]
    BY <1>7, <1>8
  <2>2. QED
    <3> HIDE DEF raw, All
    <3>1. raw \in Seq(All)
      BY <1>7, <2>1, SeqDef
    <3>2. DOMAIN raw = 1 .. Len(ids)
      BY <2>1
    <3>3. QED
      BY <1>7, <3>1, <3>2, LenProperties
<1>10. Once(raw)
  <2>1. ASSUME NEW i \in 1 .. Len(ids), NEW j \in 1 .. Len(ids), raw[i].id = raw[j].id PROVE i = j
    <3>1. raw[i] = Paper(ids[i]) /\ raw[j] = Paper(ids[j])
      BY <1>7
    <3>2. ids[i] = ids[j]
      <4> HIDE DEF raw
      <4> QED BY <1>7, <1>8, <2>1, <3>1
    <3>3. PageFrom + 1 + i - 1 = PageFrom + 1 + j - 1
      <4>1. Listing[PageFrom + 1 + i - 1] = Listing[PageFrom + 1 + j - 1]
        BY <1>6, <3>2
      <4>2. PageFrom + 1 + i - 1 \in 1 .. Len(Listing) /\ PageFrom + 1 + j - 1 \in 1 .. Len(Listing)
        BY <1>6
      <4>3. QED
        BY <1>3, <4>1, <4>2
    <3>4. QED
      BY <1>2, <3>3
  <2>2. QED
    <3> HIDE DEF raw
    <3> QED BY <1>9, <2>1 DEF Once
<1>11. Page = Those(raw, Entry)
  BY DEF Page, PageFrom, ids, to, size
<1>12. /\ Those(raw, Entry) \in Seq(All)
       /\ ToSet(Those(raw, Entry)) = ToSet(raw) \cap Entry
       /\ Once(Those(raw, Entry))
       /\ ToSet(raw) \subseteq Entry => Those(raw, Entry) = raw
  <2> HIDE DEF raw, All
  <2> QED BY <1>9, <1>10, ThoseFacts
<1>13. Page \in Seq(Entry)
  <2> HIDE DEF raw, All
  <2>1. ToSet(Those(raw, Entry)) \subseteq Entry
    BY <1>12
  <2>2. QED
    BY <1>11, <1>12, <2>1, SeqOfMembers
<1>14. ASSUME NoneEmpty
       PROVE  Page = [i \in 1 .. (IF PageFrom < PageTo THEN PageTo - PageFrom ELSE 0) |-> Paper(Listing[PageFrom + i])]
  <2>1. \A id \in Ids : arxiv.text[id] \in Texts \ Empty
    BY <1>14 DEF NoneEmpty, Range, ArxivOK
  <2>2. \A id \in Ids : Paper(id) \in Entry
    BY <2>1 DEF Paper, Entry
  <2>3. ToSet(raw) \subseteq Entry
    <3>1. \A i \in 1 .. Len(ids) : raw[i] \in Entry
      BY <1>7, <2>2
    <3>2. QED
      <4> HIDE DEF raw
      <4> QED BY <1>9, <3>1 DEF ToSet
  <2>4. Page = raw
    <3> HIDE DEF raw, All
    <3> QED BY <1>11, <1>12, <2>3
  <2>5. Len(ids) = IF PageFrom < PageTo THEN PageTo - PageFrom ELSE 0
    BY <1>2, <1>5, <1>6
  <2>6. \A i \in 1 .. Len(ids) : ids[i] = Listing[PageFrom + i]
    <3>1. \A i \in 1 .. Len(ids) : PageFrom + 1 + i - 1 = PageFrom + i
      BY <1>2
    <3>2. QED
      BY <1>6, <3>1
  <2>7. raw = [i \in 1 .. Len(ids) |-> Paper(Listing[PageFrom + i])]
    BY <1>7, <2>6
  <2>8. QED
    <3> HIDE DEF raw
    <3> QED BY <2>4, <2>5, <2>7
<1>15. PageTo \in Nat
  BY <1>5
<1>16. \A p \in ToSet(Page) : p.text = arxiv.text[p.id]
  <2>1. ToSet(raw) = {raw[i] : i \in 1 .. Len(ids)}
    BY <1>9 DEF ToSet
  <2>2. \A i \in 1 .. Len(ids) : raw[i].text = arxiv.text[raw[i].id]
    BY <1>7, <1>8
  <2>3. QED
    <3> HIDE DEF raw, All
    <3> QED BY <1>11, <1>12, <2>1, <2>2
<1>17. QED
  BY <1>2, <1>11, <1>12, <1>13, <1>14, <1>15, <1>16

-----------------------------------------------------------------------------
(* Types.                                                                  *)

FileOK == file \in Seq(Entry) /\ Once(file)

GraphOK ==
  /\ DOMAIN graph = {"schema", "papers", "names", "edges", "vectors"}
  /\ graph.schema \subseteq Types
  /\ DOMAIN graph.papers \subseteq Ids /\ DOMAIN graph.vectors \subseteq Ids
  /\ \A id \in DOMAIN graph.papers : graph.papers[id] \in (Texts \ Empty) \cup {Stub}
  /\ \A id \in DOMAIN graph.vectors : graph.vectors[id] \in Texts \ Empty
  /\ \A e \in graph.edges : e[1] \in DOMAIN graph.papers /\ e[2] \in graph.names

Kinds == {"none", "download", "build", "embedding build", "backfill"}
Stages == {"none", "run", "save", "end"}
Opts == {"min-tokens", "key"}

ScriptOK ==
  /\ script \in [kind : Kinds, stage : Stages, page : Nat, tries : Nat, papers : Seq(Entry),
                 jobs : Seq(Job), opts : SUBSET Opts, clean : BOOLEAN]
  /\ Once(script.papers)
  /\ script.stage = "none" <=> script.kind = "none"
  /\ script.stage = "save" => script.kind = "download"
  /\ script.kind \in {"none", "download"} => script.jobs = <<>>
  /\ script.stage = "end" => script.jobs = <<>>
  /\ script.tries <= IF script.kind = "download" THEN FetchTries ELSE EmbedRetries
  /\ script.kind = "download" /\ script.stage = "run" => script.tries < FetchTries

Lapses == {"unbuilt", "unwritten", "deleted", "revised"} \X Ids

LapsesOK == lapses \subseteq Lapses

Shape == ArxivOK /\ FileOK /\ GraphOK /\ ScriptOK /\ LapsesOK

\* The shape holds initially.
LEMMA ShapeInit == Init => Shape
<1> SUFFICES ASSUME Init PROVE Shape
  OBVIOUS
<1>1. ArxivOK
  BY LoadAssumption DEF Init, ArxivOK
<1>2. <<>> \in Seq(Entry) /\ <<>> \in Seq(Job) /\ Once(<<>>)
  BY DEF Once
<1>3. FileOK
  BY <1>2 DEF Init, FileOK
<1>4. GraphOK
  BY DEF Init, GraphOK
<1>5. EmbedRetries \in Nat
  BY LoadAssumption
<1>6. ScriptOK
  BY <1>2, <1>5 DEF Init, Idle, ScriptOK, Kinds, Stages
<1>7. LapsesOK
  BY DEF Init, LapsesOK, Lapses
<1>8. QED
  BY <1>1, <1>3, <1>4, <1>6, <1>7 DEF Shape

\* What arXiv lists changes only when a paper is submitted or revised.
LEMMA ArxivStep == Shape /\ [Next]_vars => ArxivOK'
<1> SUFFICES ASSUME Shape, [Next]_vars PROVE ArxivOK'
  OBVIOUS
<1>1. arxiv \in [listed : 1 .. Len(Submissions), text : [Ids -> Texts]]
  BY DEF Shape, ArxivOK
<1>2. CASE UNCHANGED arxiv
  BY <1>1, <1>2 DEF ArxivOK
<1>3. CASE Submit
  <2>1. Len(Submissions) \in Nat
    BY LoadAssumption, LenProperties
  <2>2. arxiv.listed + 1 \in 1 .. Len(Submissions)
    BY <1>1, <1>3, <2>1 DEF Submit
  <2>3. arxiv' = [arxiv EXCEPT !.listed = arxiv.listed + 1]
    BY <1>3 DEF Submit
  <2>4. QED
    BY <1>1, <2>2, <2>3 DEF ArxivOK
<1>4. CASE Revise
  <2>1. PICK id \in ToSet(Listing), text \in Texts : arxiv' = [arxiv EXCEPT !.text[id] = text]
    BY <1>4 DEF Revise
  <2>2. QED
    BY <1>1, <2>1 DEF ArxivOK
<1>5. QED
  BY <1>2, <1>3, <1>4
     DEF Next, vars, Download, Fetch, FetchFails, LastPage, Save, Build, Backfill, Upsert, Embed,
         EmbedFails, EmbedShort, Verify, Exit, Kill, Delete

\* What is saved of some papers is a part of them, each once.
LEMMA SavedFacts ==
  ASSUME NEW papers \in Seq(Entry)
  PROVE  /\ Saved(papers) \in Seq(Entry)
         /\ ToSet(Saved(papers)) \subseteq ToSet(papers)
         /\ Once(papers) => Once(Saved(papers))
<1> DEFINE long == {p \in Entry : p.text \notin Short}
<1>1. /\ Those(papers, long) \in Seq(Entry)
      /\ ToSet(Those(papers, long)) = ToSet(papers) \cap long
      /\ Once(papers) => Once(Those(papers, long))
  <2> HIDE DEF long
  <2> QED BY ThoseFacts
<1>2. CASE "min-tokens" \in script.opts
  <2>1. Saved(papers) = Those(papers, long)
    BY <1>2 DEF Saved
  <2>2. QED
    <3> HIDE DEF long
    <3> QED BY <1>1, <2>1
<1>3. CASE "min-tokens" \notin script.opts
  BY <1>3 DEF Saved
<1>4. QED
  BY <1>2, <1>3

\* The file changes only when a download saves it or is stopped over it.
LEMMA FileStep == Shape /\ [Next]_vars => FileOK'
<1> SUFFICES ASSUME Shape, [Next]_vars PROVE FileOK'
  OBVIOUS
<1>1. script.papers \in Seq(Entry) /\ Once(script.papers)
  BY DEF Shape, ScriptOK
<1>2. CASE UNCHANGED file
  BY <1>2 DEF Shape, FileOK, Once
<1> DEFINE saved == Saved(script.papers)
<1>6. saved \in Seq(Entry) /\ Once(saved)
  BY <1>1, SavedFacts
<1>3. CASE Save
  <2>1. file' = saved
    BY <1>3 DEF Save
  <2>2. QED
    <3> HIDE DEF saved
    <3> QED BY <1>6, <2>1 DEF FileOK, Once
<1>4. CASE Kill
  <2>1. CASE script.stage = "save"
    <3>1. PICK n \in 0 .. Len(saved) : file' = SubSeq(saved, 1, n)
      BY <1>4, <2>1 DEF Kill
    <3> HIDE DEF saved
    <3>2. Len(saved) \in Nat
      BY <1>6, LenProperties
    <3>3. n \in Nat /\ n <= Len(saved) /\ 1 \in Nat \ {0}
      BY <3>2
    <3>4. SubSeq(saved, 1, n) \in Seq(Entry) /\ Once(SubSeq(saved, 1, n))
      BY <1>6, <3>3, PartFacts
    <3>5. QED
      BY <3>1, <3>4 DEF FileOK, Once
  <2>2. QED
    BY <1>2, <1>4, <2>1 DEF Kill
<1>5. QED
  BY <1>2, <1>3, <1>4
     DEF Next, vars, Download, Fetch, FetchFails, LastPage, Build, Backfill, Upsert, Embed,
         EmbedFails, EmbedShort, Verify, Exit, Submit, Revise, Delete

IdsOf(items) == {p.id : p \in items}

\* f holds the texts of some papers and, for other ids, what g holds.
Rewritten(f, g, items) ==
  /\ DOMAIN f = DOMAIN g \cup IdsOf(items)
  /\ \A id \in IdsOf(items) : \E p \in items : p.id = id /\ f[id] = p.text
  /\ \A id \in DOMAIN g \ IdsOf(items) : f[id] = g[id]

\* What writing the texts of some papers over others leaves.
LEMMA OverBrought ==
  ASSUME NEW items, NEW g
  PROVE  Rewritten(Over(Brought(items), g), g, items)
<1> DEFINE b == Brought(items)
           o == Over(b, g)
<1>1. DOMAIN b = IdsOf(items)
  BY DEF Brought, IdsOf
<1>2. ASSUME NEW id \in IdsOf(items) PROVE \E p \in items : p.id = id /\ b[id] = p.text
  <2>1. \E p \in items : p.id = id
    BY DEF IdsOf
  <2> DEFINE q == CHOOSE p \in items : p.id = id
  <2>2. q \in items /\ q.id = id
    BY <2>1
  <2>3. b[id] = q.text
    BY DEF Brought, IdsOf
  <2>4. QED
    <3> HIDE DEF q, b
    <3> QED BY <2>2, <2>3
<1> HIDE DEF b
<1>3. o = [i \in DOMAIN b \cup DOMAIN g |-> IF i \in DOMAIN b THEN b[i] ELSE g[i]]
  BY DEF Over
<1>4. /\ DOMAIN o = DOMAIN g \cup IdsOf(items)
      /\ \A id \in IdsOf(items) : o[id] = b[id]
      /\ \A id \in DOMAIN g \ IdsOf(items) : o[id] = g[id]
  BY <1>1, <1>3
<1> HIDE DEF o
<1>5. Rewritten(o, g, items)
  BY <1>2, <1>4 DEF Rewritten
<1>6. QED
  BY <1>5 DEF o, b

\* What an upsert of papers stores.
LEMMA StoredPapers ==
  ASSUME GraphOK, NEW items
  PROVE  LET g == Stored("Paper", items)
         IN  /\ DOMAIN g = DOMAIN graph
             /\ g.schema = graph.schema /\ g.names = graph.names /\ g.edges = graph.edges
             /\ g.vectors = graph.vectors
             /\ Rewritten(g.papers, graph.papers, items)
<1>1. Stored("Paper", items) = [graph EXCEPT !.papers = Over(Brought(items), graph.papers)]
  BY DEF Stored
<1>2. Rewritten(Over(Brought(items), graph.papers), graph.papers, items)
  BY OverBrought
<1>3. QED
  BY <1>1, <1>2 DEF GraphOK

\* What an upsert of vectors stores.
LEMMA StoredVectors ==
  ASSUME GraphOK, NEW items
  PROVE  LET g == Stored("PaperEmb", items)
         IN  /\ DOMAIN g = DOMAIN graph
             /\ g.schema = graph.schema /\ g.names = graph.names /\ g.edges = graph.edges
             /\ g.papers = graph.papers
             /\ Rewritten(g.vectors, graph.vectors, items)
<1>1. Stored("PaperEmb", items) = [graph EXCEPT !.vectors = Over(Brought(items), graph.vectors)]
  BY DEF Stored
<1>2. Rewritten(Over(Brought(items), graph.vectors), graph.vectors, items)
  BY OverBrought
<1>3. QED
  BY <1>1, <1>2 DEF GraphOK

\* What an upsert of names stores.
LEMMA StoredNames ==
  ASSUME GraphOK, NEW items
  PROVE  LET g == Stored("name", items)
         IN  /\ DOMAIN g = DOMAIN graph
             /\ g.schema = graph.schema /\ g.names = graph.names \cup items /\ g.edges = graph.edges
             /\ g.papers = graph.papers /\ g.vectors = graph.vectors
<1>1. Stored("name", items) = [graph EXCEPT !.names = graph.names \cup items]
  BY DEF Stored
<1>2. QED
  BY <1>1 DEF GraphOK

\* What an upsert of edges stores: their end points too.
LEMMA StoredEdges ==
  ASSUME GraphOK, NEW items
  PROVE  LET g == Stored("edge", items)
         IN  /\ DOMAIN g = DOMAIN graph
             /\ g.schema = graph.schema /\ g.vectors = graph.vectors
             /\ g.edges = graph.edges \cup items
             /\ g.names = graph.names \cup {e[2] : e \in items}
             /\ DOMAIN g.papers = DOMAIN graph.papers \cup {e[1] : e \in items}
             /\ \A id \in DOMAIN graph.papers : g.papers[id] = graph.papers[id]
             /\ \A id \in DOMAIN g.papers \ DOMAIN graph.papers : g.papers[id] = Stub
<1> DEFINE stubs == [i \in {e[1] : e \in items} |-> Stub]
           o == Over(graph.papers, stubs)
<1>1. Stored("edge", items) = [graph EXCEPT !.edges = graph.edges \cup items,
                                            !.names = graph.names \cup {e[2] : e \in items},
                                            !.papers = o]
  BY DEF Stored
<1>2. /\ DOMAIN o = DOMAIN graph.papers \cup {e[1] : e \in items}
      /\ \A id \in DOMAIN graph.papers : o[id] = graph.papers[id]
      /\ \A id \in DOMAIN o \ DOMAIN graph.papers : o[id] = Stub
  BY DEF Over
<1> HIDE DEF o
<1>3. QED
  BY <1>1, <1>2 DEF GraphOK

\* The batch an upsert sends is one of papers, of vectors, of names or of edges.
LEMMA HeadFacts ==
  ASSUME ScriptOK, script.jobs # <<>>
  PROVE  LET job == Head(script.jobs)
             items == ToSet(job.items)
         IN  /\ Tail(script.jobs) \in Seq(Job)
             /\ job.kind \in Upserts \cup {"embed"}
             /\ job.kind \in {"Paper", "PaperEmb"} => items \subseteq Entry
             /\ job.kind = "name" => items \subseteq Names
             /\ job.kind = "edge" => items \subseteq Ids \X Names
<1>1. script.jobs \in Seq(Job)
  BY DEF ScriptOK
<1>2. Head(script.jobs) \in Job /\ Tail(script.jobs) \in Seq(Job)
  BY <1>1, HeadTailProperties
<1>3. \A T : \A s \in Seq(T) : ToSet(s) \subseteq T
  <2>1. ASSUME NEW T, NEW s \in Seq(T) PROVE ToSet(s) \subseteq T
    <3>1. \A i \in DOMAIN s : s[i] \in T
      BY LenProperties, ElementOfSeq
    <3>2. QED
      BY <3>1 DEF ToSet
  <2>2. QED
    BY <2>1
<1>4. Head(script.jobs).kind \in Upserts \cup {"embed"}
  BY <1>2 DEF Job, Upserts
<1>5. /\ Head(script.jobs).kind \in {"Paper", "PaperEmb"} => Head(script.jobs).items \in Seq(Entry)
      /\ Head(script.jobs).kind = "name" => Head(script.jobs).items \in Seq(Names)
      /\ Head(script.jobs).kind = "edge" => Head(script.jobs).items \in Seq(Ids \X Names)
  BY <1>2 DEF Job
<1>6. QED
  BY <1>2, <1>3, <1>4, <1>5

\* What a batch may write: a part of it, of the kind its request has.
LEMMA UpsertFacts ==
  ASSUME ScriptOK, Upsert
  PROVE  LET job == Head(script.jobs)
             items == ToSet(job.items)
         IN  /\ script.jobs # <<>> /\ script.stage = "run" /\ job.kind \in Upserts
             /\ \E written \in SUBSET items, fails \in BOOLEAN :
                  /\ ~fails => written = items
                  /\ graph' = Stored(job.kind, written)
                  /\ script' = [script EXCEPT !.jobs = Tail(script.jobs), !.clean = script.clean /\ ~fails]
                  /\ lapses' = IF job.kind # "Paper" THEN lapses
                               ELSE {l \in lapses : l[1] = "revised" \/ l[2] \notin IdsOf(written)}
                                    \cup {<<"unwritten", p.id>> : p \in items \ written}
<1>1. script.jobs # <<>> /\ script.stage = "run" /\ Head(script.jobs).kind # "embed"
  BY DEF Upsert
<1>2. Head(script.jobs).kind \in Upserts
  BY <1>1, HeadFacts
<1>3. PICK written \in SUBSET ToSet(Head(script.jobs).items), fails \in BOOLEAN :
        /\ IF Needs(Head(script.jobs).kind) \in graph.schema
           THEN IF fails THEN Fault ELSE written = ToSet(Head(script.jobs).items) /\ UNCHANGED spent
           ELSE fails /\ written = {} /\ UNCHANGED spent
        /\ graph' = Stored(Head(script.jobs).kind, written)
        /\ script' = [script EXCEPT !.jobs = Tail(script.jobs), !.clean = script.clean /\ ~fails]
        /\ lapses' = IF Head(script.jobs).kind # "Paper" THEN lapses
                     ELSE {l \in lapses : l[1] = "revised" \/ l[2] \notin {p.id : p \in written}}
                          \cup {<<"unwritten", p.id>> : p \in ToSet(Head(script.jobs).items) \ written}
  BY DEF Upsert
<1>4. ~fails => written = ToSet(Head(script.jobs).items)
  BY <1>3
<1>5. QED
  BY <1>1, <1>2, <1>3, <1>4 DEF IdsOf

\* The graph keeps its type.
LEMMA GraphStep == Shape /\ [Next]_vars => GraphOK'
<1> SUFFICES ASSUME Shape, [Next]_vars PROVE GraphOK'
  OBVIOUS
<1>1. GraphOK /\ ScriptOK
  BY DEF Shape
<1>2. CASE UNCHANGED graph
  BY <1>1, <1>2 DEF GraphOK
<1>3. CASE Build
  <2>1. PICK made \in SUBSET Types : graph' = [graph EXCEPT !.schema = graph.schema \cup made]
    BY <1>3 DEF Build
  <2>2. QED
    BY <1>1, <2>1 DEF GraphOK
<1>4. CASE Delete
  <2>1. PICK id \in DOMAIN graph.papers :
          graph' = [graph EXCEPT !.papers = Restrict(graph.papers, DOMAIN graph.papers \ {id}),
                                 !.edges = {e \in graph.edges : e[1] # id}]
    BY <1>4 DEF Delete
  <2>2. /\ DOMAIN graph' = DOMAIN graph
        /\ graph'.schema = graph.schema /\ graph'.names = graph.names /\ graph'.vectors = graph.vectors
        /\ graph'.papers = [i \in DOMAIN graph.papers \ {id} |-> graph.papers[i]]
        /\ graph'.edges = {e \in graph.edges : e[1] # id}
    BY <1>1, <2>1 DEF GraphOK, Restrict
  <2>3. QED
    BY <1>1, <2>2 DEF GraphOK
<1>5. CASE Upsert
  <2> DEFINE job == Head(script.jobs)
             items == ToSet(job.items)
  <2>1. /\ script.jobs # <<>> /\ job.kind \in Upserts
        /\ \E written \in SUBSET items : graph' = Stored(job.kind, written)
    BY <1>1, <1>5, UpsertFacts
  <2>2. PICK written \in SUBSET items : graph' = Stored(job.kind, written)
    BY <2>1
  <2>3. /\ job.kind \in {"Paper", "PaperEmb"} => written \subseteq Entry
        /\ job.kind = "name" => written \subseteq Names
        /\ job.kind = "edge" => written \subseteq Ids \X Names
    BY <1>1, <2>1, HeadFacts
  <2> HIDE DEF job, items
  <2>4. \A p \in Entry : p.id \in Ids /\ p.text \in Texts \ Empty
    BY DEF Entry
  <2>5. CASE job.kind = "Paper"
    <3>1. /\ DOMAIN graph' = DOMAIN graph
          /\ graph'.schema = graph.schema /\ graph'.names = graph.names /\ graph'.edges = graph.edges
          /\ graph'.vectors = graph.vectors
          /\ Rewritten(graph'.papers, graph.papers, written)
      BY <1>1, <2>2, <2>5, StoredPapers
    <3>2. IdsOf(written) \subseteq Ids
      BY <2>3, <2>4, <2>5 DEF IdsOf
    <3>3. \A id \in DOMAIN graph'.papers : graph'.papers[id] \in (Texts \ Empty) \cup {Stub}
      <4>1. \A id \in IdsOf(written) : graph'.papers[id] \in Texts \ Empty
        BY <2>3, <2>4, <2>5, <3>1 DEF Rewritten
      <4>2. \A id \in DOMAIN graph.papers \ IdsOf(written) : graph'.papers[id] \in (Texts \ Empty) \cup {Stub}
        BY <1>1, <3>1 DEF Rewritten, GraphOK
      <4>3. QED
        BY <3>1, <4>1, <4>2 DEF Rewritten
    <3>4. DOMAIN graph'.papers = DOMAIN graph.papers \cup IdsOf(written)
      BY <3>1 DEF Rewritten
    <3>5. QED
      BY <1>1, <3>1, <3>2, <3>3, <3>4 DEF GraphOK
  <2>6. CASE job.kind = "PaperEmb"
    <3>1. /\ DOMAIN graph' = DOMAIN graph
          /\ graph'.schema = graph.schema /\ graph'.names = graph.names /\ graph'.edges = graph.edges
          /\ graph'.papers = graph.papers
          /\ Rewritten(graph'.vectors, graph.vectors, written)
      BY <1>1, <2>2, <2>6, StoredVectors
    <3>2. IdsOf(written) \subseteq Ids
      BY <2>3, <2>4, <2>6 DEF IdsOf
    <3>3. \A id \in DOMAIN graph'.vectors : graph'.vectors[id] \in Texts \ Empty
      <4>1. \A id \in IdsOf(written) : graph'.vectors[id] \in Texts \ Empty
        BY <2>3, <2>4, <2>6, <3>1 DEF Rewritten
      <4>2. \A id \in DOMAIN graph.vectors \ IdsOf(written) : graph'.vectors[id] \in Texts \ Empty
        BY <1>1, <3>1 DEF Rewritten, GraphOK
      <4>3. QED
        BY <3>1, <4>1, <4>2 DEF Rewritten
    <3>4. DOMAIN graph'.vectors = DOMAIN graph.vectors \cup IdsOf(written)
      BY <3>1 DEF Rewritten
    <3>5. QED
      BY <1>1, <3>1, <3>2, <3>3, <3>4 DEF GraphOK
  <2>7. CASE job.kind = "name"
    <3>1. /\ DOMAIN graph' = DOMAIN graph
          /\ graph'.schema = graph.schema /\ graph'.names = graph.names \cup written
          /\ graph'.edges = graph.edges
          /\ graph'.papers = graph.papers /\ graph'.vectors = graph.vectors
      BY <1>1, <2>2, <2>7, StoredNames
    <3>2. QED
      BY <1>1, <3>1 DEF GraphOK
  <2>8. CASE job.kind = "edge"
    <3>1. /\ DOMAIN graph' = DOMAIN graph
          /\ graph'.schema = graph.schema /\ graph'.vectors = graph.vectors
          /\ graph'.edges = graph.edges \cup written
          /\ graph'.names = graph.names \cup {e[2] : e \in written}
          /\ DOMAIN graph'.papers = DOMAIN graph.papers \cup {e[1] : e \in written}
          /\ \A id \in DOMAIN graph.papers : graph'.papers[id] = graph.papers[id]
          /\ \A id \in DOMAIN graph'.papers \ DOMAIN graph.papers : graph'.papers[id] = Stub
      BY <1>1, <2>2, <2>8, StoredEdges
    <3>2. \A e \in written : e[1] \in Ids
      BY <2>3, <2>8
    <3>3. QED
      BY <1>1, <3>1, <3>2 DEF GraphOK
  <2>9. QED
    BY <2>1, <2>5, <2>6, <2>7, <2>8 DEF Upserts
<1>6. QED
  BY <1>2, <1>3, <1>4, <1>5
     DEF Next, vars, Download, Fetch, FetchFails, LastPage, Save, Backfill, Embed,
         EmbedFails, EmbedShort, Verify, Exit, Kill, Submit, Revise

\* The ledger keeps its type.
LEMMA LapsesStep == Shape /\ [Next]_vars => LapsesOK'
<1> SUFFICES ASSUME Shape, [Next]_vars PROVE LapsesOK'
  OBVIOUS
<1>1. lapses \subseteq Lapses
  BY DEF Shape, LapsesOK
<1>2. CASE UNCHANGED lapses
  BY <1>1, <1>2 DEF LapsesOK
<1>3. CASE Upsert
  <2> DEFINE job == Head(script.jobs)
             items == ToSet(job.items)
  <2>1. /\ script.jobs # <<>> /\ job.kind \in Upserts
        /\ \E written \in SUBSET items :
              lapses' = IF job.kind # "Paper" THEN lapses
                        ELSE {l \in lapses : l[1] = "revised" \/ l[2] \notin IdsOf(written)}
                             \cup {<<"unwritten", p.id>> : p \in items \ written}
    BY <1>3, UpsertFacts DEF Shape
  <2>2. job.kind = "Paper" => items \subseteq Entry
    BY <2>1, HeadFacts DEF Shape
  <2> HIDE DEF job, items
  <2>3. CASE job.kind # "Paper"
    BY <1>1, <2>1, <2>3 DEF LapsesOK
  <2>4. CASE job.kind = "Paper"
    <3>1. PICK written \in SUBSET items :
            lapses' = {l \in lapses : l[1] = "revised" \/ l[2] \notin IdsOf(written)}
                      \cup {<<"unwritten", p.id>> : p \in items \ written}
      BY <2>1, <2>4
    <3>2. \A p \in items : <<"unwritten", p.id>> \in Lapses
      BY <2>2, <2>4 DEF Lapses, Entry
    <3>3. QED
      BY <1>1, <3>1, <3>2 DEF LapsesOK
  <2>5. QED
    BY <2>3, <2>4
<1>4. CASE Revise
  <2>1. PICK id \in ToSet(Listing) : lapses' = lapses \cup {<<"revised", id>>}
    BY <1>4 DEF Revise
  <2>2. id \in Ids
    <3>1. Listing \in Seq(Ids)
      BY ListingFacts DEF Shape
    <3>2. \A i \in DOMAIN Listing : Listing[i] \in Ids
      BY <3>1, LenProperties, ElementOfSeq
    <3>3. QED
      BY <3>2 DEF ToSet
  <2>3. QED
    BY <1>1, <2>1, <2>2 DEF LapsesOK, Lapses
<1>5. CASE Delete
  <2>1. PICK id \in DOMAIN graph.papers : lapses' = lapses \cup {<<"deleted", id>>}
    BY <1>5 DEF Delete
  <2>2. id \in Ids
    BY DEF Shape, GraphOK
  <2>3. QED
    BY <1>1, <2>1, <2>2 DEF LapsesOK, Lapses
<1>6. QED
  BY <1>2, <1>3, <1>4, <1>5
     DEF Next, vars, Download, Fetch, FetchFails, LastPage, Save, Build, Backfill, Embed,
         EmbedFails, EmbedShort, Verify, Exit, Kill, Submit

\* What is loaded of the file, and what of it has no vector.
LEMMA LoadedFacts ==
  ASSUME FileOK
  PROVE  /\ Loaded \in Seq(Entry) /\ Once(Loaded) /\ ToSet(Loaded) \subseteq ToSet(file)
         /\ Unembedded \in Seq(Entry)
         /\ ToSet(Unembedded) = {p \in ToSet(Loaded) : p.id \notin DOMAIN graph.vectors}
<1>1. file \in Seq(Entry) /\ Len(file) \in Nat /\ Limit \in Nat
  BY LoadAssumption, LenProperties DEF FileOK
<1>2. Min({Limit, Len(file)}) \in Nat /\ Min({Limit, Len(file)}) <= Len(file) /\ 1 \in Nat \ {0}
  BY <1>1, MinOfTwo
<1>3. Loaded \in Seq(Entry) /\ Once(Loaded) /\ ToSet(Loaded) \subseteq ToSet(file)
  BY <1>1, <1>2, PartFacts DEF Loaded, FileOK
<1> DEFINE S == {p \in Entry : p.id \notin DOMAIN graph.vectors}
<1>4. Those(Loaded, S) \in Seq(Entry) /\ ToSet(Those(Loaded, S)) = ToSet(Loaded) \cap S
  BY <1>3, ThoseFacts
<1>5. ToSet(Loaded) \subseteq Entry
  <2>1. \A i \in DOMAIN Loaded : Loaded[i] \in Entry
    BY <1>3, LenProperties, ElementOfSeq
  <2>2. QED
    BY <2>1 DEF ToSet
<1>6. QED
  BY <1>3, <1>4, <1>5 DEF Unembedded

\* The script that a start leaves.
LEMMA Started ==
  ASSUME NEW kind, NEW opts, NEW papers, NEW jobs,
         script' = [Idle EXCEPT !.kind = kind, !.stage = "run", !.papers = papers, !.jobs = jobs, !.opts = opts]
  PROVE  script' = [kind |-> kind, stage |-> "run", page |-> 0, tries |-> 0, papers |-> papers,
                    jobs |-> jobs, opts |-> opts, clean |-> TRUE]
BY DEF Idle

\* An empty list of papers or of requests.
LEMMA NothingFacts == <<>> \in Seq(Entry) /\ <<>> \in Seq(Job) /\ Once(<<>>) /\ ToSet(<<>>) = {}
BY DEF Once, ToSet

Builds == {"build", "embedding build"}

\* How a build begins: it asks for embeddings if it is told to and has a key.
BuildStarted ==
  \E kind \in Builds, asks \in BOOLEAN, opts \in SUBSET Opts :
    /\ script' = [kind |-> kind, stage |-> "run", page |-> 0, tries |-> 0, papers |-> Loaded,
                  jobs |-> BuildJobs(Loaded, asks), opts |-> opts, clean |-> TRUE]
    /\ kind = "embedding build" /\ "key" \in opts => asks

LEMMA BuildFacts == Build => script.kind = "none" /\ (script' = script \/ BuildStarted)
<1> SUFFICES ASSUME Build PROVE script.kind = "none" /\ (script' = script \/ BuildStarted)
  OBVIOUS
<1>1. script.kind = "none"
  BY DEF Build
<1>2. PICK embed \in BOOLEAN, opts \in SUBSET {"key"}, raised \in BOOLEAN :
        script' = IF raised THEN script
                  ELSE [Idle EXCEPT !.kind = IF embed THEN "embedding build" ELSE "build", !.stage = "run",
                                    !.papers = Loaded, !.jobs = BuildJobs(Loaded, embed /\ "key" \in opts),
                                    !.opts = opts]
  BY ZenonT(60) DEF Build
<1>3. CASE ~raised
  <2> DEFINE kind == IF embed THEN "embedding build" ELSE "build"
             asks == embed /\ "key" \in opts
             jobs == BuildJobs(Loaded, asks)
  <2>1. script' = [Idle EXCEPT !.kind = kind, !.stage = "run", !.papers = Loaded, !.jobs = jobs, !.opts = opts]
    BY <1>2, <1>3
  <2>2. /\ kind \in Builds /\ asks \in BOOLEAN /\ opts \in SUBSET Opts
        /\ kind = "embedding build" /\ "key" \in opts => asks
    BY DEF Builds, Opts
  <2> HIDE DEF kind, asks
  <2>3. script' = [kind |-> kind, stage |-> "run", page |-> 0, tries |-> 0, papers |-> Loaded,
                   jobs |-> jobs, opts |-> opts, clean |-> TRUE]
    <3> HIDE DEF jobs
    <3> QED BY <2>1, Started
  <2>4. QED
    BY <1>1, <2>2, <2>3 DEF BuildStarted
<1>4. QED
  BY <1>1, <1>2, <1>3

\* How a download begins.
LEMMA DownloadStarted ==
  ASSUME Download
  PROVE  \E opts \in SUBSET {"min-tokens"} :
           script' = [kind |-> "download", stage |-> "run", page |-> 0, tries |-> 0, papers |-> <<>>,
                      jobs |-> <<>>, opts |-> opts, clean |-> TRUE]
<1>1. PICK opts \in SUBSET {"min-tokens"} : Start("download", opts, <<>>, <<>>)
  BY DEF Download
<1>2. script' = [Idle EXCEPT !.kind = "download", !.stage = "run", !.papers = <<>>, !.jobs = <<>>, !.opts = opts]
  BY <1>1 DEF Start
<1>3. QED
  BY <1>2, Started

\* How a backfill begins.
LEMMA BackfillStarted ==
  ASSUME Backfill
  PROVE  \E opts \in SUBSET {"key"} :
           script' = [kind |-> "backfill", stage |-> "run", page |-> 0, tries |-> 0, papers |-> Loaded,
                      jobs |-> IF "key" \in script'.opts THEN BackfillJobs(Unembedded) ELSE <<>>,
                      opts |-> opts, clean |-> TRUE]
<1>1. PICK opts \in SUBSET {"key"} :
        Start("backfill", opts, Loaded, IF "key" \in opts THEN BackfillJobs(Unembedded) ELSE <<>>)
  BY DEF Backfill
<1> DEFINE jobs == IF "key" \in opts THEN BackfillJobs(Unembedded) ELSE <<>>
<1>2. script' = [Idle EXCEPT !.kind = "backfill", !.stage = "run", !.papers = Loaded, !.jobs = jobs,
                             !.opts = opts]
  BY <1>1 DEF Start
<1>3. script' = [kind |-> "backfill", stage |-> "run", page |-> 0, tries |-> 0, papers |-> Loaded,
                 jobs |-> jobs, opts |-> opts, clean |-> TRUE]
  <2> HIDE DEF jobs
  <2> QED BY <1>2, Started
<1>4. script'.opts = opts
  BY <1>3
<1>5. QED
  BY <1>3, <1>4

\* Without requests nothing is sent.
LEMMA NoJobs == PapersFirst(<<>>) /\ \A kind : Pend(<<>>, kind) = {}
BY DEF PapersFirst, Pend, ToSet

\* After a short answer there is nothing left but to embed what is not embedded
\* yet and to write vectors that were to be written anyway.
LEMMA WithoutFacts ==
  ASSUME ScriptOK, Embedding, NEW lost
  PROVE  /\ Without(lost) \in Seq(Job)
         /\ PapersFirst(Without(lost))
         /\ Pend(Without(lost), "Paper") = {} /\ Pend(Without(lost), "edge") = {}
         /\ Pend(Without(lost), "PaperEmb") \subseteq Pend(script.jobs, "PaperEmb")
<1> DEFINE rest   == Tail(script.jobs)
           ask    == Those(rest, {j \in ToSet(rest) : j.kind = "embed"})
           write  == Those(rest, {j \in ToSet(rest) : j.kind = "PaperEmb"})
           papers == FlattenSeq([i \in DOMAIN write |-> write[i].items])
           kept   == Those(papers, Entry \ lost)
           put    == Jobs("PaperEmb", kept)
<1>1. script.jobs \in Seq(Job) /\ script.jobs # <<>>
  BY DEF ScriptOK, Embedding
<1>2. rest \in Seq(Job) /\ Pend(rest, "PaperEmb") \subseteq Pend(script.jobs, "PaperEmb")
  BY <1>1, PendTail
<1>3. Without(lost) = IF script.kind = "backfill" THEN <<>> ELSE ask \o put
  BY DEF Without
<1> HIDE DEF rest
<1>4. /\ ask \in Seq(Job) /\ (\A j \in ToSet(ask) : j.kind = "embed")
      /\ write \in Seq(Job) /\ ToSet(write) = {j \in ToSet(rest) : j.kind = "PaperEmb"}
  <2> DEFINE E == {j \in ToSet(rest) : j.kind = "embed"}
             W == {j \in ToSet(rest) : j.kind = "PaperEmb"}
  <2>1. Those(rest, E) \in Seq(Job) /\ ToSet(Those(rest, E)) = ToSet(rest) \cap E
    <3> HIDE DEF E
    <3> QED BY <1>2, ThoseFacts
  <2>2. Those(rest, W) \in Seq(Job) /\ ToSet(Those(rest, W)) = ToSet(rest) \cap W
    <3> HIDE DEF W
    <3> QED BY <1>2, ThoseFacts
  <2>3. QED
    BY <2>1, <2>2
<1> HIDE DEF write, ask
<1> DEFINE lists == [i \in DOMAIN write |-> write[i].items]
<1>5. /\ DOMAIN write = 1 .. Len(write) /\ Len(write) \in Nat
      /\ \A i \in DOMAIN write : write[i] \in Job /\ write[i] \in ToSet(write) /\ write[i].kind = "PaperEmb"
  <2>1. DOMAIN write = 1 .. Len(write) /\ Len(write) \in Nat
    BY <1>4, LenProperties
  <2>2. \A i \in DOMAIN write : write[i] \in Job
    BY <1>4, <2>1, ElementOfSeq
  <2>3. \A i \in DOMAIN write : write[i] \in ToSet(write)
    BY DEF ToSet
  <2>4. QED
    BY <1>4, <2>1, <2>2, <2>3
<1>6. \A i \in DOMAIN write : write[i].items \in Seq(Entry)
  BY <1>5 DEF Job
<1>7. lists \in Seq(Seq(Entry)) /\ DOMAIN lists = DOMAIN write
  <2>1. lists \in [1 .. Len(write) -> Seq(Entry)]
    BY <1>5, <1>6
  <2>2. QED
    BY <1>5, <2>1, SeqDef
<1>8. papers \in Seq(Entry) /\ ToSet(papers) = UNION {ToSet(lists[i]) : i \in DOMAIN lists}
  <2>1. papers = FlattenSeq(lists)
    OBVIOUS
  <2>2. QED
    <3> HIDE DEF lists, papers
    <3> QED BY <1>7, <2>1, FlattenFacts
<1>9. ToSet(papers) \subseteq Pend(rest, "PaperEmb")
  <2>1. ASSUME NEW x \in ToSet(papers) PROVE x \in Pend(rest, "PaperEmb")
    <3>1. PICK i \in DOMAIN write : x \in ToSet(write[i].items)
      <4> HIDE DEF papers
      <4> QED BY <1>7, <1>8
    <3>2. write[i] \in {j \in ToSet(rest) : j.kind = "PaperEmb"}
      BY <1>4, <1>5
    <3>3. QED
      BY <3>1, <3>2 DEF Pend
  <2>2. QED
    BY <2>1
<1> HIDE DEF papers
<1>10. kept \in Seq(Entry) /\ ToSet(kept) \subseteq ToSet(papers)
  BY <1>8, ThoseFacts
<1> HIDE DEF kept
<1>11. /\ put \in Seq(Job) /\ (\A j \in ToSet(put) : j.kind = "PaperEmb")
       /\ \A k : Pend(put, k) = IF k = "PaperEmb" THEN ToSet(kept) ELSE {}
  <2>1. [kind : {"PaperEmb"}, items : Seq(Entry)] \subseteq Job
    BY DEF Job
  <2>2. QED
    BY <1>10, <2>1, JobsFacts
<1> HIDE DEF put
<1>12. PapersFirst(ask)
  <2>1. \A i \in DOMAIN ask : ask[i] \in ToSet(ask)
    BY DEF ToSet
  <2>2. QED
    BY <1>4, <2>1 DEF PapersFirst
<1>13. PapersFirst(ask \o put)
  BY <1>4, <1>11, <1>12, PapersFirstConcat
<1>14. \A k : k # "embed" => Pend(ask, k) = {}
  BY <1>4 DEF Pend
<1>15. \A k : ask \o put \in Seq(Job) /\ Pend(ask \o put, k) = Pend(ask, k) \cup Pend(put, k)
  BY <1>4, <1>11, PendConcat
<1>16. /\ Pend(ask \o put, "Paper") = {} /\ Pend(ask \o put, "edge") = {}
       /\ Pend(ask \o put, "PaperEmb") = ToSet(kept)
  BY <1>11, <1>14, <1>15
<1>17. CASE script.kind = "backfill"
  BY <1>3, <1>17, NoJobs, NothingFacts
<1>18. CASE script.kind # "backfill"
  BY <1>2, <1>3, <1>9, <1>10, <1>13, <1>15, <1>16, <1>18
<1>19. QED
  BY <1>17, <1>18

\* The script keeps its type.
LEMMA ScriptStep == Shape /\ [Next]_vars => ScriptOK'
<1> SUFFICES ASSUME Shape, [Next]_vars PROVE ScriptOK'
  OBVIOUS
<1> DEFINE S == [kind : Kinds, stage : Stages, page : Nat, tries : Nat, papers : Seq(Entry),
                 jobs : Seq(Job), opts : SUBSET Opts, clean : BOOLEAN]
<1>1. ArxivOK /\ FileOK /\ ScriptOK /\ script \in S
  BY DEF Shape, ScriptOK
<1>2. FetchTries \in Nat \ {0} /\ EmbedRetries \in Nat /\ 0 <= EmbedRetries
  BY LoadAssumption
<1>3. script' = Idle => ScriptOK'
  BY <1>2, NothingFacts DEF Idle, ScriptOK, Kinds, Stages, Opts
<1>4. CASE UNCHANGED script
  BY <1>1, <1>4 DEF ScriptOK, Once
<1>5. CASE Download
  <2>1. PICK opts \in SUBSET {"min-tokens"} :
          script' = [kind |-> "download", stage |-> "run", page |-> 0, tries |-> 0, papers |-> <<>>,
                     jobs |-> <<>>, opts |-> opts, clean |-> TRUE]
    BY <1>5, DownloadStarted
  <2>2. opts \in SUBSET Opts
    BY DEF Opts
  <2>3. QED
    BY <1>2, <2>1, <2>2, NothingFacts DEF ScriptOK, Kinds, Stages
<1>6. CASE Fetch
  <2> DEFINE new == {p \in Entry : ~Has(script.papers, p.id)}
             fresh == Those(Page, new)
  <2>1. /\ script.kind = "download" /\ script.stage = "run" /\ MorePages
        /\ script' = [script EXCEPT !.papers = script.papers \o fresh, !.page = script.page + 1, !.tries = 0,
                                    !.stage = IF Page = <<>> THEN "save" ELSE script.stage]
    BY <1>6 DEF Fetch, Run
  <2>2. Page \in Seq(Entry) /\ Once(Page)
    BY <1>1, <2>1, PageFacts
  <2>3. fresh \in Seq(Entry) /\ ToSet(fresh) = ToSet(Page) \cap new /\ Once(fresh)
    BY <2>2, ThoseFacts
  <2>4. \A x \in ToSet(script.papers), y \in ToSet(fresh) : x.id # y.id
    BY <2>3 DEF Has, ToSet
  <2> HIDE DEF fresh, new
  <2>5. script.papers \o fresh \in Seq(Entry)
    BY <1>1, <2>3, MembersOfConcat
  <2>6. Once(script.papers \o fresh)
    BY <1>1, <2>3, <2>4, OnceConcat DEF ScriptOK
  <2>7. /\ script'.kind = "download" /\ script'.stage \in {"run", "save"} /\ script'.page = script.page + 1
        /\ script'.tries = 0 /\ script'.papers = script.papers \o fresh
        /\ script'.jobs = script.jobs /\ script'.clean = script.clean
        /\ script' \in S
    <3>1. PICK stage \in {"run", "save"} :
            script' = [script EXCEPT !.papers = script.papers \o fresh, !.page = script.page + 1, !.tries = 0,
                                     !.stage = stage]
      BY <2>1
    <3> DEFINE papers == script.papers \o fresh
    <3> HIDE DEF papers
    <3>2. script' = [script EXCEPT !.papers = papers, !.page = script.page + 1, !.tries = 0, !.stage = stage]
      BY <3>1 DEF papers
    <3>3. papers \in Seq(Entry) /\ stage \in Stages
      BY <2>5 DEF papers, Stages
    <3>4. script' \in S
      <4>1. script' = [kind |-> script.kind, stage |-> stage, page |-> script.page + 1, tries |-> 0,
                       papers |-> papers, jobs |-> script.jobs, opts |-> script.opts, clean |-> script.clean]
        BY <1>1, <3>2
      <4>2. QED
        BY <1>1, <3>3, <4>1
    <3>5. /\ script'.kind = script.kind /\ script'.stage = stage /\ script'.page = script.page + 1
          /\ script'.tries = 0 /\ script'.papers = papers
          /\ script'.jobs = script.jobs /\ script'.clean = script.clean
      BY <1>1, <3>2
    <3>6. QED
      BY <2>1, <3>4, <3>5 DEF papers
  <2>8. Once(script'.papers)
    BY <2>6, <2>7
  <2>9. script.jobs = <<>>
    BY <1>1, <2>1 DEF ScriptOK
  <2>10. QED
    BY <1>2, <2>7, <2>8, <2>9 DEF ScriptOK, Once
<1>7. CASE FetchFails
  <2>1. /\ script.kind = "download" /\ script.stage = "run"
        /\ script' = [script EXCEPT !.tries = script.tries + 1,
                                    !.clean = script.clean /\ script.tries + 1 < FetchTries,
                                    !.stage = IF script.tries + 1 < FetchTries THEN script.stage ELSE "save"]
    BY <1>7 DEF FetchFails, Run
  <2>2. script.tries \in Nat /\ script.tries < FetchTries /\ script.jobs = <<>>
    BY <1>1, <2>1 DEF ScriptOK
  <2>3. /\ script'.kind = "download" /\ script'.tries = script.tries + 1 /\ script'.papers = script.papers
        /\ script'.jobs = <<>> /\ script'.stage \in {"run", "save"}
        /\ script'.stage = "run" => script.tries + 1 < FetchTries
        /\ script' \in S
    <3>1. PICK stage \in {"run", "save"}, clean \in BOOLEAN :
            /\ script' = [script EXCEPT !.tries = script.tries + 1, !.clean = clean, !.stage = stage]
            /\ stage = "run" => script.tries + 1 < FetchTries
      <4>1. CASE script.tries + 1 < FetchTries
        BY <1>1, <2>1, <4>1
      <4>2. CASE ~(script.tries + 1 < FetchTries)
        BY <1>1, <2>1, <4>2
      <4>3. QED
        BY <4>1, <4>2
    <3>2. script' \in S
      <4>1. script' = [kind |-> script.kind, stage |-> stage, page |-> script.page, tries |-> script.tries + 1,
                       papers |-> script.papers, jobs |-> script.jobs, opts |-> script.opts, clean |-> clean]
        BY <1>1, <3>1
      <4>2. script.tries + 1 \in Nat /\ stage \in Stages
        BY <2>2 DEF Stages
      <4>3. QED
        BY <1>1, <4>1, <4>2
    <3>3. /\ script'.kind = script.kind /\ script'.tries = script.tries + 1 /\ script'.papers = script.papers
          /\ script'.jobs = script.jobs /\ script'.stage = stage
      BY <1>1, <3>1
    <3>4. QED
      BY <2>1, <2>2, <3>1, <3>2, <3>3
  <2>4. QED
    BY <1>1, <1>2, <2>2, <2>3 DEF ScriptOK, Once
<1>8. CASE LastPage
  <2>1. script.kind = "download" /\ script' = [script EXCEPT !.stage = "save"]
    BY <1>8 DEF LastPage, Run
  <2>2. QED
    BY <1>1, <2>1 DEF ScriptOK, Stages, Once
<1>9. CASE Save
  <2>1. script.stage = "save" /\ script' = [script EXCEPT !.stage = "end"]
    BY <1>9 DEF Save
  <2>2. script.kind = "download" /\ script.jobs = <<>>
    BY <1>1, <2>1 DEF ScriptOK
  <2>3. QED
    BY <1>1, <2>1, <2>2 DEF ScriptOK, Stages, Once
<1>10. CASE Build
  <2>1. script' = script \/ BuildStarted
    BY <1>10, BuildFacts
  <2>2. CASE script' = script
    BY <1>1, <2>2 DEF ScriptOK, Once
  <2>3. CASE BuildStarted
    <3>1. PICK kind \in Builds, asks \in BOOLEAN, opts \in SUBSET Opts :
            script' = [kind |-> kind, stage |-> "run", page |-> 0, tries |-> 0, papers |-> Loaded,
                       jobs |-> BuildJobs(Loaded, asks), opts |-> opts, clean |-> TRUE]
      BY <2>3 DEF BuildStarted
    <3>2. Loaded \in Seq(Entry) /\ Once(Loaded)
      BY <1>1, LoadedFacts
    <3>3. BuildJobs(Loaded, asks) \in Seq(Job)
      BY <3>2, BuildJobsFacts
    <3>4. script' \in S
      BY <3>1, <3>2, <3>3 DEF Kinds, Stages, Builds
    <3>5. script'.kind = kind /\ script'.stage = "run" /\ script'.tries = 0 /\ script'.papers = Loaded
      BY <3>1
    <3>6. Once(script'.papers)
      BY <3>2, <3>5
    <3>7. script'.kind \notin {"none", "download"} /\ script'.stage = "run" /\ script'.tries <= EmbedRetries
      BY <1>2, <3>5 DEF Builds
    <3>8. QED
      BY <3>4, <3>6, <3>7 DEF ScriptOK, Once
  <2>4. QED
    BY <2>1, <2>2, <2>3
<1>11. CASE Backfill
  <2> DEFINE jobs == IF "key" \in script'.opts THEN BackfillJobs(Unembedded) ELSE <<>>
  <2>1. PICK opts \in SUBSET {"key"} :
          script' = [kind |-> "backfill", stage |-> "run", page |-> 0, tries |-> 0, papers |-> Loaded,
                     jobs |-> jobs, opts |-> opts, clean |-> TRUE]
    BY <1>11, BackfillStarted
  <2>2. Loaded \in Seq(Entry) /\ Once(Loaded) /\ Unembedded \in Seq(Entry)
    BY <1>1, LoadedFacts
  <2>3. jobs \in Seq(Job) /\ opts \in SUBSET Opts
    BY <2>2, BackfillFacts, NothingFacts DEF Opts
  <2> HIDE DEF jobs
  <2>4. QED
    BY <1>2, <2>1, <2>2, <2>3 DEF ScriptOK, Kinds, Stages
<1>12. CASE Upsert
  <2>1. PICK fails \in BOOLEAN :
          script' = [script EXCEPT !.jobs = Tail(script.jobs), !.clean = script.clean /\ ~fails]
    BY <1>1, <1>12, UpsertFacts
  <2>2. script.jobs # <<>> /\ script.stage = "run"
    BY <1>12 DEF Upsert
  <2>3. Tail(script.jobs) \in Seq(Job)
    BY <1>1, <2>2, HeadFacts
  <2>4. QED
    BY <1>1, <2>1, <2>2, <2>3 DEF ScriptOK, Once
<1>13. CASE Embed
  <2>1. script' = [script EXCEPT !.jobs = Tail(script.jobs), !.tries = 0]
        /\ script.jobs # <<>> /\ script.stage = "run"
    BY <1>13 DEF Embed, Embedding
  <2>2. Tail(script.jobs) \in Seq(Job)
    BY <1>1, <2>1, HeadFacts
  <2>3. script.kind \notin {"none", "download"}
    BY <1>1, <2>1 DEF ScriptOK
  <2>4. /\ script'.kind = script.kind /\ script'.tries = 0 /\ script'.papers = script.papers
        /\ script'.stage = "run" /\ script' \in S
    BY <1>1, <2>1, <2>2
  <2>5. QED
    BY <1>1, <1>2, <2>3, <2>4 DEF ScriptOK, Once
<1>14. CASE EmbedFails
  <2>1. script.jobs # <<>> /\ script.stage = "run"
    BY <1>14 DEF EmbedFails, Embedding
  <2>2. script.kind \notin {"none", "download"}
    BY <1>1, <2>1 DEF ScriptOK
  <2>3. CASE script.tries < EmbedRetries /\ script' = [script EXCEPT !.tries = script.tries + 1]
    <3>1. script.tries + 1 <= EmbedRetries
      BY <1>1, <1>2, <2>3
    <3>2. QED
      BY <1>1, <2>1, <2>2, <2>3, <3>1 DEF ScriptOK, Once
  <2>4. CASE script' = [script EXCEPT !.jobs = <<>>, !.clean = FALSE]
    BY <1>1, <2>1, <2>2, <2>4, NothingFacts DEF ScriptOK, Once
  <2>5. QED
    BY <1>14, <2>3, <2>4 DEF EmbedFails
<1>21. CASE EmbedShort
  <2>1. script.jobs # <<>> /\ script.stage = "run" /\ Embedding
    BY <1>21 DEF EmbedShort, Embedding
  <2>2. script.kind \notin {"none", "download"}
    BY <1>1, <2>1 DEF ScriptOK
  <2>3. PICK lost : script' = [script EXCEPT !.jobs = Without(lost), !.tries = 0, !.clean = FALSE]
    BY <1>21 DEF EmbedShort
  <2>4. Without(lost) \in Seq(Job)
    BY <1>1, <2>1, WithoutFacts
  <2>5. /\ script'.kind = script.kind /\ script'.tries = 0 /\ script'.papers = script.papers
        /\ script'.stage = "run" /\ script' \in S
    BY <1>1, <2>1, <2>3, <2>4
  <2>6. QED
    BY <1>1, <1>2, <2>2, <2>5 DEF ScriptOK, Once
<1>15. CASE Verify
  <2>1. script.stage = "run" /\ script.kind # "download" /\ script.jobs = <<>>
        /\ script' = [script EXCEPT !.stage = "end"]
    BY <1>15 DEF Verify, Loads
  <2>2. QED
    BY <1>1, <2>1 DEF ScriptOK, Stages, Once
<1>16. CASE Exit
  BY <1>3, <1>16 DEF Exit
<1>17. CASE Kill
  BY <1>3, <1>17 DEF Kill
<1>18. ASSUME script' = Disturbed PROVE ScriptOK'
  <2>1. script' = [script EXCEPT !.clean = (script.kind = "none")]
    BY <1>18 DEF Disturbed
  <2>2. QED
    BY <1>1, <2>1 DEF ScriptOK, Once
<1>19. CASE Submit \/ Revise \/ Delete
  BY <1>18, <1>19 DEF Submit, Revise, Delete
<1>20. QED
  BY <1>4, <1>5, <1>6, <1>7, <1>8, <1>9, <1>10, <1>11, <1>12, <1>13, <1>14, <1>15, <1>16, <1>17, <1>19, <1>21
     DEF Next, vars

\* The shape implies the types.
LEMMA ShapeTypes == Shape => TypeOK
<1> SUFFICES ASSUME Shape PROVE TypeOK
  OBVIOUS
<1>1. Len(Submissions) \in Nat /\ FetchTries \in Nat /\ EmbedRetries \in Nat
  BY LoadAssumption, LenProperties
<1>2. arxiv.listed \in 0 .. Len(Submissions) /\ arxiv.text \in [Ids -> Texts]
  <2>1. arxiv \in [listed : 1 .. Len(Submissions), text : [Ids -> Texts]]
    BY DEF Shape, ArxivOK
  <2>2. QED
    BY <1>1, <2>1
<1>3. \A s \in Seq(Entry) : ToSet(s) \subseteq Entry
  <2>1. ASSUME NEW s \in Seq(Entry) PROVE ToSet(s) \subseteq Entry
    <3>1. \A i \in DOMAIN s : s[i] \in Entry
      BY LenProperties, ElementOfSeq
    <3>2. QED
      BY <3>1 DEF ToSet
  <2>2. QED
    BY <2>1
<1>4. ToSet(file) \cup ToSet(script.papers) \subseteq Entry
  BY <1>3 DEF Shape, FileOK, ScriptOK
<1>5. IsInjective([i \in DOMAIN file |-> file[i].id])
  BY DEF Shape, FileOK, Once, IsInjective
<1>6. /\ graph.schema \subseteq Types
      /\ DOMAIN graph.papers \cup DOMAIN graph.vectors \subseteq Ids
      /\ Range(graph.papers) \subseteq (Texts \ Empty) \cup {Stub}
      /\ Range(graph.vectors) \subseteq Texts \ Empty
      /\ \A e \in graph.edges : e[1] \in DOMAIN graph.papers /\ e[2] \in graph.names
  BY DEF Shape, GraphOK, Range
<1>7. script \in [kind : Kinds, stage : Stages, page : Nat, tries : Nat, papers : Seq(Entry),
                  jobs : Seq(Job), opts : SUBSET Opts, clean : BOOLEAN]
  BY DEF Shape, ScriptOK
<1>8. script.kind \in Kinds /\ script.stage \in Stages /\ script.opts \subseteq {"min-tokens", "key"}
  BY <1>7 DEF Opts
<1>9. script.tries \in 0 .. EmbedRetries + FetchTries
  <2>1. script.tries \in Nat
    BY <1>7
  <2>2. script.tries <= FetchTries \/ script.tries <= EmbedRetries
    BY DEF Shape, ScriptOK
  <2>3. QED
    BY <1>1, <2>1, <2>2
<1>10. \A i \in DOMAIN script.jobs : script.jobs[i].kind \in Upserts \cup {"embed"}
  <2>1. \A i \in DOMAIN script.jobs : script.jobs[i] \in Job
    BY <1>7, LenProperties, ElementOfSeq
  <2>2. \A j \in Job : j.kind \in Upserts \cup {"embed"}
    BY DEF Job, Upserts
  <2>3. QED
    BY <2>1, <2>2
<1>11. lapses \subseteq {"unbuilt", "unwritten", "deleted", "revised"} \X Ids
  BY DEF Shape, LapsesOK, Lapses
<1>12. QED
  BY <1>2, <1>4, <1>5, <1>6, <1>8, <1>9, <1>10, <1>11 DEF TypeOK, Kinds, Stages

\* The shape is an invariant.
LEMMA ShapeStep == Shape /\ [Next]_vars => Shape'
BY ArxivStep, FileStep, GraphStep, ScriptStep, LapsesStep DEF Shape

\* The scripts keep their types: the file has no paper twice and none without
\* an abstract, though a page may repeat what an earlier page had
\* (download_papers.py:176-179), and an edge has both its end points
\* (construction.py:511-524 deletes a paper's edges with it).
THEOREM TypeCorrect == Spec => []TypeOK
<1>1. Spec => []Shape
  BY ShapeInit, ShapeStep, PTL DEF Spec
<1>2. QED
  BY <1>1, ShapeTypes, PTL

-----------------------------------------------------------------------------
(* How a step moves a script on.                                           *)

KeepsJobs == /\ script'.kind = script.kind
             /\ script'.papers = script.papers
             /\ script'.jobs = script.jobs
             /\ script'.opts = script.opts
             /\ script'.clean => script.clean \/ script.kind = "none"

NextJob == /\ script.jobs # <<>>
           /\ Upsert \/ Head(script.jobs).kind = "embed"
           /\ script'.kind = script.kind
           /\ script'.papers = script.papers
           /\ script'.jobs = Tail(script.jobs)
           /\ script'.opts = script.opts
           /\ script'.clean => script.clean

GivesUp == /\ Embedding
           /\ script'.kind = script.kind
           /\ script'.papers = script.papers
           /\ script'.jobs = <<>> \/ \E lost : script'.jobs = Without(lost)
           /\ ~script'.clean

BuildStarts ==
  \E asks \in BOOLEAN : /\ script'.kind \in Builds
                        /\ script'.kind = "embedding build" /\ "key" \in script'.opts => asks
                        /\ script'.papers = Loaded
                        /\ script'.jobs = BuildJobs(Loaded, asks)

BackfillStarts ==
  /\ script'.kind = "backfill"
  /\ script'.papers = Loaded
  /\ script'.jobs = IF "key" \in script'.opts THEN BackfillJobs(Unembedded) ELSE <<>>

Downloads == /\ Fetch \/ script'.papers = <<>>
             /\ script'.kind = "download"
             /\ script'.jobs = <<>>

\* Every step moves the script in one of these ways.
LEMMA Moves ==
  ASSUME Shape, [Next]_vars
  PROVE  \/ KeepsJobs \/ NextJob \/ GivesUp \/ BuildStarts \/ BackfillStarts \/ Downloads
         \/ script' = Idle
<1>1. script \in [kind : Kinds, stage : Stages, page : Nat, tries : Nat, papers : Seq(Entry),
                  jobs : Seq(Job), opts : SUBSET Opts, clean : BOOLEAN]
  BY DEF Shape, ScriptOK
<1>2. CASE UNCHANGED script
  BY <1>2 DEF KeepsJobs
<1>3. CASE Download
  <2>1. PICK opts :
          script' = [kind |-> "download", stage |-> "run", page |-> 0, tries |-> 0, papers |-> <<>>, jobs |-> <<>>,
                     opts |-> opts, clean |-> TRUE]
    BY <1>3, DownloadStarted
  <2>2. QED
    BY <2>1 DEF Downloads
<1>4. CASE Fetch
  <2>1. script.kind = "download" /\ script.stage = "run"
    BY <1>4 DEF Fetch, Run
  <2>2. script.jobs = <<>>
    BY <2>1 DEF Shape, ScriptOK
  <2>3. script'.kind = script.kind /\ script'.jobs = script.jobs
    BY <1>1, <1>4 DEF Fetch
  <2>4. QED
    BY <1>4, <2>1, <2>2, <2>3 DEF Downloads
<1>5. CASE FetchFails
  BY <1>1, <1>5 DEF FetchFails, KeepsJobs
<1>6. CASE LastPage \/ Save \/ Verify
  BY <1>1, <1>6 DEF LastPage, Save, Verify, KeepsJobs
<1>7. CASE Build
  <2>1. script' = script \/ BuildStarted
    BY <1>7, BuildFacts
  <2>2. CASE script' = script
    BY <2>2 DEF KeepsJobs
  <2>3. CASE BuildStarted
    <3>1. PICK kind \in Builds, asks \in BOOLEAN, opts \in SUBSET Opts :
            /\ script' = [kind |-> kind, stage |-> "run", page |-> 0, tries |-> 0, papers |-> Loaded,
                          jobs |-> BuildJobs(Loaded, asks), opts |-> opts, clean |-> TRUE]
            /\ kind = "embedding build" /\ "key" \in opts => asks
      BY <2>3 DEF BuildStarted
    <3>2. /\ script'.kind = kind /\ script'.papers = Loaded /\ script'.opts = opts
          /\ script'.jobs = BuildJobs(Loaded, asks)
      BY <3>1
    <3>3. script'.kind \in Builds /\ (script'.kind = "embedding build" /\ "key" \in script'.opts => asks)
      BY <3>1, <3>2
    <3>4. QED
      BY <3>2, <3>3 DEF BuildStarts
  <2>4. QED
    BY <2>1, <2>2, <2>3
<1>8. CASE Backfill
  <2> DEFINE jobs == IF "key" \in script'.opts THEN BackfillJobs(Unembedded) ELSE <<>>
  <2>1. PICK opts :
          script' = [kind |-> "backfill", stage |-> "run", page |-> 0, tries |-> 0, papers |-> Loaded,
                     jobs |-> jobs, opts |-> opts, clean |-> TRUE]
    BY <1>8, BackfillStarted
  <2>2. script'.kind = "backfill" /\ script'.papers = Loaded /\ script'.jobs = jobs
    <3> HIDE DEF jobs
    <3> QED BY <2>1
  <2>3. QED
    BY <2>2 DEF BackfillStarts
<1>9. CASE Upsert
  <2>1. PICK fails \in BOOLEAN :
          script' = [script EXCEPT !.jobs = Tail(script.jobs), !.clean = script.clean /\ ~fails]
    BY <1>9 DEF Upsert
  <2>2. script.jobs # <<>>
    BY <1>9 DEF Upsert
  <2>3. QED
    BY <1>1, <1>9, <2>1, <2>2 DEF NextJob
<1>10. CASE Embed
  BY <1>1, <1>10 DEF Embed, Embedding, NextJob
<1>11. CASE EmbedFails
  <2>1. Embedding
    BY <1>11 DEF EmbedFails
  <2>2. CASE script' = [script EXCEPT !.tries = script.tries + 1]
    BY <1>1, <2>2 DEF KeepsJobs
  <2>3. CASE script' = [script EXCEPT !.jobs = <<>>, !.clean = FALSE]
    BY <1>1, <2>1, <2>3 DEF GivesUp
  <2>4. QED
    BY <1>11, <2>2, <2>3 DEF EmbedFails
<1>15. CASE EmbedShort
  <2>1. Embedding
    BY <1>15 DEF EmbedShort
  <2>2. PICK lost : script' = [script EXCEPT !.jobs = Without(lost), !.tries = 0, !.clean = FALSE]
    BY <1>15 DEF EmbedShort
  <2>3. QED
    BY <1>1, <2>1, <2>2 DEF GivesUp
<1>12. CASE Submit \/ Revise \/ Delete
  <2>1. script' = [script EXCEPT !.clean = (script.kind = "none")]
    BY <1>12 DEF Submit, Revise, Delete, Disturbed
  <2>2. QED
    BY <1>1, <2>1 DEF KeepsJobs
<1>13. CASE Exit \/ Kill
  BY <1>13 DEF Exit, Kill
<1>14. QED
  BY <1>15, <1>2, <1>3, <1>4, <1>5, <1>6, <1>7, <1>8, <1>9, <1>10, <1>11, <1>12, <1>13 DEF Next, vars

\* What the graph holds changes only by an upsert and a deletion, and the
\* ledger by these and a revision.
SameGraph == /\ graph'.papers = graph.papers /\ graph'.vectors = graph.vectors /\ graph'.edges = graph.edges
             /\ lapses' = lapses

\* The steps that change what the graph holds or the ledger.
LEMMA GraphMoves ==
  ASSUME Shape, [Next]_vars
  PROVE  Upsert \/ Delete \/ Revise \/ SameGraph
<1>1. DOMAIN graph = {"schema", "papers", "names", "edges", "vectors"}
  BY DEF Shape, GraphOK
<1>2. CASE Build
  <2>1. PICK made \in SUBSET Types : graph' = [graph EXCEPT !.schema = graph.schema \cup made]
    BY <1>2 DEF Build
  <2>2. QED
    BY <1>1, <1>2, <2>1 DEF SameGraph, Build
<1>3. CASE UNCHANGED <<graph, lapses>>
  BY <1>3 DEF SameGraph
<1>4. QED
  BY <1>2, <1>3
     DEF Next, vars, Download, Fetch, FetchFails, LastPage, Save, Backfill, Embed,
         EmbedFails, EmbedShort, Verify, Exit, Kill, Submit

-----------------------------------------------------------------------------
(* What a script sends comes from its papers.                              *)

SourceInv ==
  /\ Pend(script.jobs, "Paper") \subseteq ToSet(script.papers)
  /\ Pend(script.jobs, "PaperEmb") \subseteq ToSet(script.papers)
  /\ Pend(script.jobs, "edge") \subseteq LinksOfAll(script.papers)
  /\ script.kind \notin Builds => Pend(script.jobs, "Paper") = {} /\ Pend(script.jobs, "edge") = {}
  /\ PapersFirst(script.jobs)

\* The sources hold initially.
LEMMA SourceInit == Init => SourceInv
BY NoJobs DEF Init, Idle, SourceInv

\* Every step keeps the sources.
LEMMA SourceStep == Shape /\ SourceInv /\ [Next]_vars => SourceInv'
<1> SUFFICES ASSUME Shape, SourceInv, [Next]_vars PROVE SourceInv'
  OBVIOUS
<1>1. script.jobs \in Seq(Job)
  BY DEF Shape, ScriptOK
<1>2. script'.jobs = <<>> => SourceInv'
  BY NoJobs DEF SourceInv
<1>3. CASE KeepsJobs
  BY <1>3 DEF KeepsJobs, SourceInv
<1>4. CASE NextJob
  <2>1. /\ script.jobs # <<>> /\ script'.kind = script.kind /\ script'.papers = script.papers
        /\ script'.jobs = Tail(script.jobs)
    BY <1>4 DEF NextJob
  <2>2. \A kind : Pend(Tail(script.jobs), kind) \subseteq Pend(script.jobs, kind)
    BY <1>1, <2>1, PendTail
  <2>3. PapersFirst(Tail(script.jobs))
    BY <1>1, <2>1, PapersFirstTail DEF SourceInv
  <2>4. \A kind : Pend(script.jobs, kind)' \subseteq Pend(script.jobs, kind)
    BY <2>1, <2>2
  <2>5. QED
    BY <2>1, <2>3, <2>4 DEF SourceInv
<1>5. CASE GivesUp
  <2>1. CASE script'.jobs = <<>>
    BY <1>2, <2>1
  <2>2. ASSUME NEW lost, script'.jobs = Without(lost) PROVE SourceInv'
    <3>1. /\ PapersFirst(script'.jobs)
          /\ Pend(script'.jobs, "Paper") = {} /\ Pend(script'.jobs, "edge") = {}
          /\ Pend(script'.jobs, "PaperEmb") \subseteq Pend(script.jobs, "PaperEmb")
      BY <1>5, <2>2, WithoutFacts DEF GivesUp, Shape
    <3>2. script'.papers = script.papers
      BY <1>5 DEF GivesUp
    <3>3. QED
      BY <3>1, <3>2 DEF SourceInv
  <2>3. QED
    BY <1>5, <2>1, <2>2 DEF GivesUp
<1>6. CASE BuildStarts
  <2>1. PICK asks \in BOOLEAN : /\ script'.kind \in Builds
                                /\ script'.papers = Loaded
                                /\ script'.jobs = BuildJobs(Loaded, asks)
    BY <1>6 DEF BuildStarts
  <2>2. Loaded \in Seq(Entry)
    BY LoadedFacts DEF Shape
  <2>3. /\ PapersFirst(script'.jobs)
        /\ Pend(script'.jobs, "Paper") = ToSet(script'.papers)
        /\ Pend(script'.jobs, "edge") = LinksOfAll(script'.papers)
        /\ Pend(script'.jobs, "PaperEmb") \subseteq ToSet(script'.papers)
    BY <2>1, <2>2, BuildJobsFacts
  <2>4. script'.kind \in Builds
    BY <2>1
  <2>5. QED
    BY <2>3, <2>4 DEF SourceInv
<1>7. CASE BackfillStarts
  <2>1. /\ Loaded \in Seq(Entry) /\ Unembedded \in Seq(Entry)
        /\ ToSet(Unembedded) \subseteq ToSet(Loaded)
    BY LoadedFacts DEF Shape
  <2>2. /\ PapersFirst(script'.jobs)
        /\ Pend(script'.jobs, "Paper") = {} /\ Pend(script'.jobs, "edge") = {}
        /\ Pend(script'.jobs, "PaperEmb") \subseteq ToSet(Unembedded) /\ script'.papers = Loaded
    BY <1>7, <2>1, BackfillFacts, NoJobs DEF BackfillStarts
  <2>3. QED
    BY <2>1, <2>2 DEF SourceInv
<1>8. CASE Downloads
  BY <1>2, <1>8 DEF Downloads
<1>9. CASE script' = Idle
  BY <1>2, <1>9 DEF Idle
<1>10. QED
  BY <1>3, <1>4, <1>5, <1>6, <1>7, <1>8, <1>9, Moves

-----------------------------------------------------------------------------
(* Why a defect has a cause: what has been written, and of which text.     *)

Gone(id) == Suffered(id, "unwritten") \/ Suffered(id, "deleted")

\* A build comes to its papers before it comes to their edges.
PapersCome ==
  script.kind \in Builds =>
    \A p \in ToSet(script.papers) :
      p \in Pend(script.jobs, "Paper") \/ p.id \in DOMAIN graph.papers \/ Gone(p.id)

AbsentHasCause == \A id \in Ids \ DOMAIN graph.papers : Suffered(id, "unbuilt") \/ Gone(id)

StubHasCause == \A id \in DOMAIN graph.papers : graph.papers[id] = Stub => Gone(id)

WriteInv == PapersCome /\ AbsentHasCause /\ StubHasCause

\* What is pending after a step that leaves the graph and the ledger alone.
LEMMA PapersComeStep ==
  ASSUME Shape, SourceInv, PapersCome, [Next]_vars, ~Upsert, DOMAIN graph.papers = DOMAIN graph'.papers,
         lapses \subseteq lapses'
  PROVE  PapersCome'
<1>1. \A id : Gone(id) => Gone(id)'
  BY DEF Gone, Suffered
<1>2. script.jobs \in Seq(Job)
  BY DEF Shape, ScriptOK
<1>3. CASE KeepsJobs
  BY <1>1, <1>3 DEF KeepsJobs, PapersCome
<1>4. CASE NextJob
  <2>1. Head(script.jobs).kind = "embed" /\ script.jobs # <<>> /\ script'.jobs = Tail(script.jobs)
    BY <1>4 DEF NextJob
  <2>2. Pend(script'.jobs, "Paper") = Pend(script.jobs, "Paper")
    <3>1. Pend(script.jobs, "Paper") = Pend(Tail(script.jobs), "Paper")
                                       \cup (IF Head(script.jobs).kind = "Paper" THEN ToSet(Head(script.jobs).items) ELSE {})
      BY <1>2, <2>1, PendTail
    <3>2. QED
      BY <2>1, <3>1
  <2>3. QED
    BY <1>1, <1>4, <2>2 DEF NextJob, PapersCome
<1>5. CASE GivesUp
  <2>1. Head(script.jobs).kind = "embed" /\ script.jobs # <<>>
    BY <1>5 DEF GivesUp, Embedding
  <2>2. Pend(script.jobs, "Paper") = {}
    BY <1>2, <2>1, PapersFirstTail DEF SourceInv
  <2>3. QED
    BY <1>1, <1>5, <2>2 DEF GivesUp, PapersCome
<1>6. CASE BuildStarts
  <2>1. PICK asks \in BOOLEAN : script'.papers = Loaded /\ script'.jobs = BuildJobs(Loaded, asks)
    BY <1>6 DEF BuildStarts
  <2>2. Pend(script'.jobs, "Paper") = ToSet(script'.papers)
    BY <2>1, LoadedFacts, BuildJobsFacts DEF Shape
  <2>3. QED
    BY <2>2 DEF PapersCome
<1>7. CASE BackfillStarts \/ Downloads \/ script' = Idle
  <2>1. script'.kind \in {"backfill", "download", "none"}
    BY <1>7 DEF BackfillStarts, Downloads, Idle
  <2>2. QED
    BY <2>1 DEF PapersCome, Builds
<1>8. QED
  BY <1>3, <1>4, <1>5, <1>6, <1>7, Moves

\* Nothing is written and every paper is unbuilt initially.
LEMMA WriteInit == Init => WriteInv
<1> SUFFICES ASSUME Init PROVE WriteInv
  OBVIOUS
<1>1. script.kind = "none" /\ DOMAIN graph.papers = {} /\ lapses = {"unbuilt"} \X Ids
  BY DEF Init, Idle
<1>2. QED
  BY <1>1 DEF WriteInv, PapersCome, AbsentHasCause, StubHasCause, Builds, Suffered

\* What an upsert writes comes from the papers of the script.
LEMMA UpsertSource ==
  ASSUME Shape, SourceInv, Upsert
  PROVE  LET job   == Head(script.jobs)
             items == ToSet(job.items)
         IN  /\ job.kind \in {"Paper", "PaperEmb"} => items \subseteq ToSet(script.papers)
             /\ job.kind = "edge" => /\ items \subseteq LinksOfAll(script.papers)
                                     /\ items # {} => script.kind \in Builds
                                     /\ Pend(script.jobs, "Paper") = {}
<1> DEFINE job == Head(script.jobs)
           items == ToSet(job.items)
<1>1. script.jobs \in Seq(Job) /\ script.jobs # <<>>
  BY DEF Shape, ScriptOK, Upsert
<1>2. items \subseteq Pend(script.jobs, job.kind)
  BY <1>1, PendTail
<1>3. job.kind = "edge" => Pend(script.jobs, "Paper") = {}
  BY <1>1, PapersFirstTail DEF SourceInv
<1>4. QED
  BY <1>2, <1>3 DEF SourceInv

\* Every step keeps what the writing promises.
LEMMA WriteStep == Shape /\ SourceInv /\ WriteInv /\ [Next]_vars => WriteInv'
<1> SUFFICES ASSUME Shape, SourceInv, WriteInv, [Next]_vars PROVE WriteInv'
  OBVIOUS
<1>1. CASE Upsert
  <2> DEFINE job == Head(script.jobs)
             items == ToSet(job.items)
  <2>1. PICK written \in SUBSET items, fails \in BOOLEAN :
          /\ graph' = Stored(job.kind, written)
          /\ script' = [script EXCEPT !.jobs = Tail(script.jobs), !.clean = script.clean /\ ~fails]
          /\ lapses' = IF job.kind # "Paper" THEN lapses
                       ELSE {l \in lapses : l[1] = "revised" \/ l[2] \notin IdsOf(written)}
                            \cup {<<"unwritten", p.id>> : p \in items \ written}
    BY <1>1, UpsertFacts DEF Shape
  <2>2. /\ job.kind \in Upserts
        /\ script'.jobs = Tail(script.jobs) /\ script'.kind = script.kind /\ script'.papers = script.papers
        /\ script.jobs \in Seq(Job) /\ script.jobs # <<>>
    BY <1>1, <2>1, UpsertFacts DEF Shape, ScriptOK
  <2>3. /\ Pend(script.jobs, "Paper") =
             Pend(script'.jobs, "Paper") \cup (IF job.kind = "Paper" THEN items ELSE {})
    BY <2>2, PendTail
  <2>4. GraphOK
    BY DEF Shape
  <2>5. CASE job.kind = "Paper"
    <3>1. items \subseteq Entry
      BY <2>2, <2>5, HeadFacts DEF Shape
    <3>2. Rewritten(graph'.papers, graph.papers, written)
      BY <2>1, <2>4, <2>5, StoredPapers
    <3>3. \A id \in IdsOf(written) : id \in DOMAIN graph'.papers /\ graph'.papers[id] # Stub
      <4>1. \A p \in written : p.text # Stub
        BY <3>1, LoadAssumption DEF Entry
      <4>2. QED
        BY <3>2, <4>1 DEF Rewritten
    <3>4. \A id, what : Suffered(id, what) /\ id \notin IdsOf(written) => Suffered(id, what)'
      BY <2>1, <2>5 DEF Suffered
    <3>5. \A p \in items \ written : Gone(p.id)'
      BY <2>1, <2>5 DEF Suffered, Gone
    <3>6. \A id \in DOMAIN graph.papers : id \in DOMAIN graph'.papers
      BY <3>2 DEF Rewritten
    <3>7. PapersCome'
      <4>1. \A p \in items : p.id \in DOMAIN graph'.papers \/ Gone(p.id)'
        <5>1. \A p \in written : p.id \in IdsOf(written)
          BY DEF IdsOf
        <5>2. QED
          BY <3>3, <3>5, <5>1
      <4>2. \A id : Gone(id) => id \in DOMAIN graph'.papers \/ Gone(id)'
        BY <3>3, <3>4 DEF Gone
      <4> HIDE DEF items
      <4>3. ASSUME script.kind \in Builds, NEW p \in ToSet(script.papers)
            PROVE  p \in Pend(script'.jobs, "Paper") \/ p.id \in DOMAIN graph'.papers \/ Gone(p.id)'
        <5>1. p \in Pend(script.jobs, "Paper") \/ p.id \in DOMAIN graph.papers \/ Gone(p.id)
          BY <4>3 DEF WriteInv, PapersCome
        <5>2. QED
          BY <2>3, <3>6, <4>1, <4>2, <5>1
      <4>4. QED
        BY <2>2, <4>3 DEF PapersCome
    <3>8. AbsentHasCause'
      <4>1. ASSUME NEW id \in Ids \ DOMAIN graph'.papers PROVE Suffered(id, "unbuilt")' \/ Gone(id)'
        <5>1. id \notin IdsOf(written) /\ id \notin DOMAIN graph.papers
          BY <3>3, <3>6
        <5>2. Suffered(id, "unbuilt") \/ Gone(id)
          BY <5>1 DEF WriteInv, AbsentHasCause
        <5>3. QED
          BY <3>4, <5>1, <5>2 DEF Gone
      <4>2. QED
        BY <4>1 DEF AbsentHasCause
    <3>9. StubHasCause'
      <4>1. ASSUME NEW id \in DOMAIN graph'.papers, graph'.papers[id] = Stub PROVE Gone(id)'
        <5>1. id \notin IdsOf(written)
          BY <3>3, <4>1
        <5>2. id \in DOMAIN graph.papers /\ graph.papers[id] = Stub
          BY <3>2, <4>1, <5>1 DEF Rewritten
        <5>3. QED
          BY <3>4, <5>1, <5>2 DEF WriteInv, StubHasCause, Gone
      <4>2. QED
        BY <4>1 DEF StubHasCause
    <3>10. QED
      BY <3>7, <3>8, <3>9 DEF WriteInv
  <2>6. ASSUME job.kind # "Paper" PROVE /\ \A id, what : Suffered(id, what)' <=> Suffered(id, what)
                                        /\ \A id : Gone(id)' <=> Gone(id)
                                        /\ Pend(script.jobs, "Paper") = Pend(script'.jobs, "Paper")
    BY <2>1, <2>3, <2>6 DEF Suffered, Gone
  <2>7. CASE job.kind = "edge"
    <3>1. /\ DOMAIN graph'.papers = DOMAIN graph.papers \cup {e[1] : e \in written}
          /\ \A id \in DOMAIN graph.papers : graph'.papers[id] = graph.papers[id]
      BY <2>1, <2>4, <2>7, StoredEdges
    <3>2. \A e \in written : e[1] \in DOMAIN graph.papers \/ Gone(e[1])
      <4>1. ASSUME NEW e \in written PROVE e[1] \in DOMAIN graph.papers \/ Gone(e[1])
        <5>1. e \in LinksOfAll(script.papers) /\ script.kind \in Builds /\ Pend(script.jobs, "Paper") = {}
          BY <1>1, <2>7, UpsertSource
        <5>2. PICK p \in ToSet(script.papers) : e \in LinksOf(p)
          BY <5>1 DEF LinksOfAll, ToSet
        <5>3. e[1] = p.id
          BY <5>2 DEF LinksOf
        <5>4. QED
          BY <5>1, <5>3 DEF WriteInv, PapersCome
      <4>2. QED
        BY <4>1
    <3>3. PapersCome'
      BY <2>2, <2>6, <2>7, <3>1 DEF WriteInv, PapersCome
    <3>4. AbsentHasCause'
      BY <2>6, <2>7, <3>1 DEF WriteInv, AbsentHasCause
    <3>5. StubHasCause'
      BY <2>6, <2>7, <3>1, <3>2 DEF WriteInv, StubHasCause
    <3>6. QED
      BY <3>3, <3>4, <3>5 DEF WriteInv
  <2>8. CASE job.kind \in {"PaperEmb", "name"}
    <3>1. graph'.papers = graph.papers
      BY <2>1, <2>4, <2>8, StoredVectors, StoredNames
    <3>2. QED
      BY <2>2, <2>6, <2>8, <3>1 DEF WriteInv, PapersCome, AbsentHasCause, StubHasCause
  <2>9. QED
    BY <2>2, <2>5, <2>7, <2>8 DEF Upserts
<1>2. CASE Delete
  <2>1. PICK id \in DOMAIN graph.papers :
          /\ graph' = [graph EXCEPT !.papers = Restrict(graph.papers, DOMAIN graph.papers \ {id}),
                                    !.edges = {e \in graph.edges : e[1] # id}]
          /\ lapses' = lapses \cup {<<"deleted", id>>}
    BY <1>2 DEF Delete
  <2>2. /\ DOMAIN graph'.papers = DOMAIN graph.papers \ {id}
        /\ \A i \in DOMAIN graph'.papers : graph'.papers[i] = graph.papers[i]
    BY <2>1 DEF Restrict, Shape, GraphOK
  <2>3. /\ \A i, what : Suffered(i, what) => Suffered(i, what)'
        /\ \A i : Gone(i) => Gone(i)'
        /\ Gone(id)'
    BY <2>1 DEF Suffered, Gone
  <2>4. script'.kind = script.kind /\ script'.papers = script.papers /\ script'.jobs = script.jobs
    BY <1>2 DEF Delete, Disturbed, Shape, ScriptOK
  <2>5. PapersCome'
    BY <2>2, <2>3, <2>4 DEF WriteInv, PapersCome
  <2>6. AbsentHasCause'
    BY <2>2, <2>3 DEF WriteInv, AbsentHasCause
  <2>7. StubHasCause'
    BY <2>2, <2>3 DEF WriteInv, StubHasCause
  <2>8. QED
    BY <2>5, <2>6, <2>7 DEF WriteInv
<1>3. CASE ~Upsert /\ (Revise \/ SameGraph)
  <2>1. graph'.papers = graph.papers /\ lapses \subseteq lapses'
    BY <1>3 DEF Revise, SameGraph
  <2>2. /\ \A i, what : Suffered(i, what) => Suffered(i, what)'
        /\ \A i : Gone(i) => Gone(i)'
    BY <2>1 DEF Suffered, Gone
  <2>3. PapersCome'
    BY <1>3, <2>1, PapersComeStep DEF WriteInv
  <2>4. QED
    BY <2>1, <2>2, <2>3 DEF WriteInv, AbsentHasCause, StubHasCause
<1>4. QED
  BY <1>1, <1>2, <1>3, GraphMoves

Unrevised(id) == ~Suffered(id, "revised")

ArxivFirst == \A id \in Ids : Unrevised(id) => arxiv.text[id] = First[id]

EntriesFirst(papers) == \A p \in ToSet(papers) : Unrevised(p.id) => p.text = First[p.id]

GraphFirst ==
  /\ \A id \in DOMAIN graph.papers : Unrevised(id) => graph.papers[id] \in {First[id], Stub}
  /\ \A id \in DOMAIN graph.vectors : Unrevised(id) => graph.vectors[id] = First[id]
  /\ \A e \in graph.edges : Unrevised(e[1]) => e[2] \in Authors[e[1]] \cup Concepts[First[e[1]]]

\* Of a paper that was never revised there is one text everywhere.
TextInv == ArxivFirst /\ EntriesFirst(file) /\ EntriesFirst(script.papers) /\ GraphFirst

\* Initially there is only arXiv.
LEMMA TextInit == Init => TextInv
<1> SUFFICES ASSUME Init PROVE TextInv
  OBVIOUS
<1>1. /\ arxiv.text = First /\ ToSet(file) = {} /\ ToSet(script.papers) = {}
      /\ DOMAIN graph.papers = {} /\ DOMAIN graph.vectors = {} /\ graph.edges = {}
  BY NothingFacts DEF Init, Idle
<1>2. QED
  BY <1>1 DEF TextInv, ArxivFirst, EntriesFirst, GraphFirst

\* The ledger forgets no revision.
LEMMA RevisedStays == ASSUME Shape, [Next]_vars PROVE \A id : Unrevised(id)' => Unrevised(id)
<1>1. CASE Upsert
  BY <1>1, UpsertFacts DEF Shape, Unrevised, Suffered
<1>2. CASE ~Upsert
  <2>1. lapses \subseteq lapses'
    BY <1>2, GraphMoves DEF Delete, Revise, SameGraph
  <2>2. QED
    BY <2>1 DEF Unrevised, Suffered
<1>3. QED
  BY <1>1, <1>2

\* Only a revision changes a text on arXiv.
LEMMA ArxivFirstStep == Shape /\ ArxivFirst /\ [Next]_vars => ArxivFirst'
<1> SUFFICES ASSUME Shape, ArxivFirst, [Next]_vars PROVE ArxivFirst'
  OBVIOUS
<1>1. arxiv \in [listed : 1 .. Len(Submissions), text : [Ids -> Texts]]
  BY DEF Shape, ArxivOK
<1>2. CASE Revise
  <2>1. PICK id, text : arxiv' = [arxiv EXCEPT !.text[id] = text] /\ lapses' = lapses \cup {<<"revised", id>>}
    BY <1>2 DEF Revise
  <2>2. \A i \in Ids \ {id} : arxiv'.text[i] = arxiv.text[i]
    BY <1>1, <2>1
  <2>3. ~Unrevised(id)'
    BY <2>1 DEF Unrevised, Suffered
  <2>4. QED
    BY <2>2, <2>3, RevisedStays DEF ArxivFirst
<1>3. CASE ~Revise
  <2>1. arxiv'.text = arxiv.text
    BY <1>1, <1>3
       DEF Next, vars, Download, Fetch, FetchFails, LastPage, Save, Build, Backfill, Upsert, Embed,
           EmbedFails, EmbedShort, Verify, Exit, Kill, Submit, Delete
  <2>2. QED
    BY <2>1, RevisedStays DEF ArxivFirst
<1>4. QED
  BY <1>2, <1>3

\* The file's papers were the last download's.
LEMMA FileMoves == ASSUME Shape, [Next]_vars PROVE ToSet(file') \subseteq ToSet(file) \cup ToSet(script.papers)
<1>1. CASE Kill
  <2>1. CASE file' = file
    BY <2>1
  <2>2. CASE script.stage = "save"
    <3> DEFINE saved == Saved(script.papers)
    <3>1. PICK n \in 0 .. Len(saved) : file' = SubSeq(saved, 1, n)
      BY <1>1, <2>2 DEF Kill
    <3>2. saved \in Seq(Entry) /\ ToSet(saved) \subseteq ToSet(script.papers)
      BY SavedFacts DEF Shape, ScriptOK
    <3> HIDE DEF saved
    <3>3. n \in Nat /\ n <= Len(saved)
      BY <3>1, <3>2, LenProperties
    <3>4. ToSet(SubSeq(saved, 1, n)) \subseteq ToSet(saved)
      BY <3>2, <3>3, PartFacts
    <3>5. QED
      BY <3>1, <3>2, <3>4
  <2>3. QED
    BY <1>1, <2>1, <2>2 DEF Kill
<1>2. CASE Save
  BY <1>2, SavedFacts DEF Save, Shape, ScriptOK
<1>3. CASE UNCHANGED file
  BY <1>3
<1>4. QED
  BY <1>1, <1>2, <1>3
     DEF Next, vars, Download, Fetch, FetchFails, LastPage, Build, Backfill, Upsert, Embed,
         EmbedFails, EmbedShort, Verify, Exit, Submit, Revise, Delete

\* A script's papers were its own, are the file's or come from arXiv.
LEMMA PaperMoves ==
  ASSUME Shape, [Next]_vars, NEW p \in ToSet(script'.papers)
  PROVE  p \in ToSet(script.papers) \/ p \in ToSet(file) \/ (p.id \in Ids /\ p.text = arxiv.text[p.id])
<1>1. CASE KeepsJobs \/ NextJob \/ GivesUp
  BY <1>1 DEF KeepsJobs, NextJob, GivesUp
<1>2. CASE BuildStarts \/ BackfillStarts
  <2>1. ToSet(Loaded) \subseteq ToSet(file)
    BY LoadedFacts DEF Shape
  <2>2. script'.papers = Loaded
    BY <1>2 DEF BuildStarts, BackfillStarts
  <2>3. QED
    BY <2>1, <2>2
<1>3. CASE script' = Idle
  BY <1>3, NothingFacts DEF Idle
<1>4. CASE Fetch
  <2> DEFINE new == {q \in Entry : ~Has(script.papers, q.id)}
             fresh == Those(Page, new)
  <2>1. script.page \in Nat /\ script.papers \in Seq(Entry) /\ MorePages /\ ArxivOK
    BY <1>4 DEF Fetch, Shape, ScriptOK
  <2>2. Page \in Seq(Entry) /\ \A q \in ToSet(Page) : q.text = arxiv.text[q.id]
    BY <2>1, PageFacts
  <2>3. fresh \in Seq(Entry) /\ ToSet(fresh) = ToSet(Page) \cap new
    BY <2>2, ThoseFacts
  <2>4. script'.papers = script.papers \o fresh
    BY <1>4 DEF Fetch, Shape, ScriptOK
  <2> HIDE DEF fresh
  <2>5. ToSet(script'.papers) = ToSet(script.papers) \cup ToSet(fresh)
    BY <2>1, <2>3, <2>4, MembersOfConcat
  <2>6. CASE p \in ToSet(fresh)
    BY <2>2, <2>3, <2>6 DEF Entry
  <2>7. QED
    BY <2>5, <2>6
<1>5. CASE Downloads /\ ~Fetch
  BY <1>5, NothingFacts DEF Downloads
<1>6. QED
  BY <1>1, <1>2, <1>3, <1>4, <1>5, Moves

\* Every step keeps one text of a paper that is not revised.
LEMMA TextStep == Shape /\ SourceInv /\ TextInv /\ [Next]_vars => TextInv'
<1> SUFFICES ASSUME Shape, SourceInv, TextInv, [Next]_vars PROVE TextInv'
  OBVIOUS
<1>1. \A id : Unrevised(id)' => Unrevised(id)
  BY RevisedStays
<1>2. ArxivFirst'
  BY ArxivFirstStep DEF TextInv
<1>3. EntriesFirst(file)'
  BY <1>1, FileMoves DEF TextInv, EntriesFirst
<1>4. EntriesFirst(script.papers)'
  <2>1. ASSUME NEW p \in ToSet(script'.papers), Unrevised(p.id)' PROVE p.text = First[p.id]
    <3>1. Unrevised(p.id)
      BY <1>1, <2>1
    <3>2. p \in ToSet(script.papers) \/ p \in ToSet(file) \/ (p.id \in Ids /\ p.text = arxiv.text[p.id])
      BY PaperMoves
    <3>3. QED
      BY <3>1, <3>2 DEF TextInv, EntriesFirst, ArxivFirst
  <2>2. QED
    BY <2>1 DEF EntriesFirst
<1>5. GraphFirst'
  <2>1. CASE Upsert
    <3> DEFINE job == Head(script.jobs)
               items == ToSet(job.items)
    <3>1. PICK written \in SUBSET items : graph' = Stored(job.kind, written)
      BY <2>1, UpsertFacts DEF Shape
    <3>2. job.kind \in Upserts /\ GraphOK
      BY <2>1, UpsertFacts DEF Shape
    <3>3. job.kind \in {"Paper", "PaperEmb"} => written \subseteq ToSet(script.papers)
      BY <2>1, UpsertSource
    <3>4. job.kind = "edge" => written \subseteq LinksOfAll(script.papers)
      BY <2>1, UpsertSource
    <3> HIDE DEF items
    <3>5. CASE job.kind = "Paper"
      <4>1. Rewritten(graph'.papers, graph.papers, written)
        BY <3>1, <3>2, <3>5, StoredPapers
      <4>2. graph'.vectors = graph.vectors /\ graph'.edges = graph.edges
        BY <3>1, <3>2, <3>5, StoredPapers
      <4>3. ASSUME NEW id \in DOMAIN graph'.papers, Unrevised(id) PROVE graph'.papers[id] \in {First[id], Stub}
        <5>1. CASE id \in IdsOf(written)
          <6>1. PICK p \in written : p.id = id /\ graph'.papers[id] = p.text
            BY <4>1, <5>1 DEF Rewritten
          <6>2. QED
            BY <3>3, <3>5, <4>3, <6>1 DEF TextInv, EntriesFirst
        <5>2. CASE id \notin IdsOf(written)
          BY <4>1, <4>3, <5>2 DEF Rewritten, TextInv, GraphFirst
        <5>3. QED
          BY <5>1, <5>2
      <4>4. QED
        BY <1>1, <4>2, <4>3 DEF TextInv, GraphFirst
    <3>6. CASE job.kind = "PaperEmb"
      <4>1. Rewritten(graph'.vectors, graph.vectors, written)
        BY <3>1, <3>2, <3>6, StoredVectors
      <4>2. graph'.papers = graph.papers /\ graph'.edges = graph.edges
        BY <3>1, <3>2, <3>6, StoredVectors
      <4>3. ASSUME NEW id \in DOMAIN graph'.vectors, Unrevised(id) PROVE graph'.vectors[id] = First[id]
        <5>1. CASE id \in IdsOf(written)
          <6>1. PICK p \in written : p.id = id /\ graph'.vectors[id] = p.text
            BY <4>1, <5>1 DEF Rewritten
          <6>2. QED
            BY <3>3, <3>6, <4>3, <6>1 DEF TextInv, EntriesFirst
        <5>2. CASE id \notin IdsOf(written)
          BY <4>1, <4>3, <5>2 DEF Rewritten, TextInv, GraphFirst
        <5>3. QED
          BY <5>1, <5>2
      <4>4. QED
        BY <1>1, <4>2, <4>3 DEF TextInv, GraphFirst
    <3>7. CASE job.kind = "name"
      BY <1>1, <3>1, <3>2, <3>7, StoredNames DEF TextInv, GraphFirst
    <3>8. CASE job.kind = "edge"
      <4>1. /\ graph'.vectors = graph.vectors /\ graph'.edges = graph.edges \cup written
            /\ \A id \in DOMAIN graph.papers : graph'.papers[id] = graph.papers[id]
            /\ \A id \in DOMAIN graph'.papers \ DOMAIN graph.papers : graph'.papers[id] = Stub
        BY <3>1, <3>2, <3>8, StoredEdges
      <4>2. ASSUME NEW e \in written, Unrevised(e[1]) PROVE e[2] \in Authors[e[1]] \cup Concepts[First[e[1]]]
        <5>1. PICK p \in ToSet(script.papers) : e \in LinksOf(p)
          BY <3>4, <3>8 DEF LinksOfAll, ToSet
        <5>2. e[1] = p.id /\ e[2] \in Authors[p.id] \cup Concepts[p.text]
          BY <5>1 DEF LinksOf
        <5>3. p.text = First[p.id]
          BY <4>2, <5>2 DEF TextInv, EntriesFirst
        <5>4. QED
          BY <5>2, <5>3
      <4>3. \A e \in graph'.edges : Unrevised(e[1]) => e[2] \in Authors[e[1]] \cup Concepts[First[e[1]]]
        BY <4>1, <4>2 DEF TextInv, GraphFirst
      <4>4. \A id \in DOMAIN graph'.papers : Unrevised(id) => graph'.papers[id] \in {First[id], Stub}
        BY <4>1 DEF TextInv, GraphFirst
      <4>5. QED
        BY <1>1, <4>1, <4>3, <4>4 DEF TextInv, GraphFirst
    <3>9. QED
      BY <3>2, <3>5, <3>6, <3>7, <3>8 DEF Upserts
  <2>2. CASE Delete
    <3>1. PICK id \in DOMAIN graph.papers :
            graph' = [graph EXCEPT !.papers = Restrict(graph.papers, DOMAIN graph.papers \ {id}),
                                   !.edges = {e \in graph.edges : e[1] # id}]
      BY <2>2 DEF Delete
    <3>2. /\ DOMAIN graph'.papers \subseteq DOMAIN graph.papers
          /\ \A i \in DOMAIN graph'.papers : graph'.papers[i] = graph.papers[i]
          /\ graph'.vectors = graph.vectors /\ graph'.edges \subseteq graph.edges
      BY <3>1 DEF Restrict, Shape, GraphOK
    <3>3. QED
      BY <1>1, <3>2 DEF TextInv, GraphFirst
  <2>3. CASE Revise \/ SameGraph
    BY <1>1, <2>3 DEF Revise, SameGraph, TextInv, GraphFirst
  <2>4. QED
    BY <2>1, <2>2, <2>3, GraphMoves
<1>6. QED
  BY <1>2, <1>3, <1>4, <1>5 DEF TextInv

\* What is wrong in the graph has a cause: build_kg.py writes the vertices
\* before the edges (360-429) and passes over what fails (254-255, 269-270).
THEOREM DefectsExplained == Spec => []DefectHasCause
<1>1. Shape /\ WriteInv /\ TextInv => DefectHasCause
  <2> SUFFICES ASSUME Shape, WriteInv, TextInv, NEW id \in Ids
               PROVE  LET held == id \in DOMAIN graph.papers
                          real == held /\ graph.papers[id] # Stub
                      IN /\ held /\ ~real => Suffered(id, "unwritten") \/ Suffered(id, "deleted")
                         /\ id \in DOMAIN graph.vectors /\ ~held =>
                              Suffered(id, "unbuilt") \/ Suffered(id, "unwritten") \/ Suffered(id, "deleted")
                         /\ real /\ id \in DOMAIN graph.vectors /\ graph.vectors[id] # graph.papers[id] =>
                              Suffered(id, "revised")
                         /\ \A e \in graph.edges :
                              real /\ e[1] = id /\ e[2] \notin Authors[id] \cup Concepts[graph.papers[id]] =>
                                Suffered(id, "revised")
    BY DEF DefectHasCause
  <2>1. id \in DOMAIN graph.papers /\ graph.papers[id] = Stub => Gone(id)
    BY DEF WriteInv, StubHasCause
  <2>2. id \notin DOMAIN graph.papers => Suffered(id, "unbuilt") \/ Gone(id)
    BY DEF WriteInv, AbsentHasCause
  <2>3. id \in DOMAIN graph.papers /\ Unrevised(id) => graph.papers[id] \in {First[id], Stub}
    BY DEF TextInv, GraphFirst
  <2>4. id \in DOMAIN graph.vectors /\ Unrevised(id) => graph.vectors[id] = First[id]
    BY DEF TextInv, GraphFirst
  <2>5. \A e \in graph.edges : e[1] = id /\ Unrevised(id) => e[2] \in Authors[id] \cup Concepts[First[id]]
    BY DEF TextInv, GraphFirst
  <2>6. QED
    BY <2>1, <2>2, <2>3, <2>4, <2>5 DEF Gone, Unrevised
<1>2. Spec => []Shape
  BY ShapeInit, ShapeStep, PTL DEF Spec
<1>3. Spec => [](Shape /\ SourceInv)
  BY <1>2, SourceInit, SourceStep, PTL DEF Spec
<1>4. Spec => [](Shape /\ WriteInv /\ TextInv)
  BY <1>3, WriteInit, WriteStep, TextInit, TextStep, PTL DEF Spec
<1>5. QED
  BY <1>1, <1>4, PTL

-----------------------------------------------------------------------------
(* Why an undisturbed run is complete: what is not done yet is pending.    *)

Held(p) == p.id \in DOMAIN graph.papers /\ graph.papers[p.id] = p.text
Embedded(p) == p.id \in DOMAIN graph.vectors /\ graph.vectors[p.id] = p.text

PapersDone == \A p \in ToSet(script.papers) : p \in Pend(script.jobs, "Paper") \/ Held(p)

LinksDone == \A e \in LinksOfAll(script.papers) : e \in Pend(script.jobs, "edge") \/ e \in graph.edges

VectorsDone == \A p \in ToSet(script.papers) : p \in Pend(script.jobs, "PaperEmb") \/ Embedded(p)

SomeVector ==
  \A p \in ToSet(script.papers) : p \in Pend(script.jobs, "PaperEmb") \/ p.id \in DOMAIN graph.vectors

DoneInv ==
  script.clean =>
    /\ script.kind \in Builds => PapersDone /\ LinksDone
    /\ script.kind = "embedding build" /\ "key" \in script.opts => VectorsDone
    /\ script.kind = "backfill" /\ "key" \in script.opts => SomeVector

\* Papers of one id are one paper.
LEMMA OnePaper ==
  ASSUME NEW papers, Once(papers), NEW p \in ToSet(papers), NEW q \in ToSet(papers), p.id = q.id
  PROVE  p = q
BY DEF Once, ToSet

\* What is written of a script's papers is theirs.
LEMMA WrittenOnce ==
  ASSUME NEW f, NEW g, NEW papers, Once(papers), NEW items, items \subseteq ToSet(papers), Rewritten(f, g, items),
         NEW p \in ToSet(papers), p \in items \/ (p.id \in DOMAIN g /\ g[p.id] = p.text)
  PROVE  p.id \in DOMAIN f /\ f[p.id] = p.text
<1>1. CASE p.id \in IdsOf(items)
  <2>1. PICK q \in items : q.id = p.id /\ f[p.id] = q.text
    BY <1>1 DEF Rewritten
  <2>2. q = p
    BY <2>1, OnePaper
  <2>3. QED
    BY <1>1, <2>1, <2>2 DEF Rewritten
<1>2. CASE p.id \notin IdsOf(items)
  BY <1>2 DEF Rewritten, IdsOf
<1>3. QED
  BY <1>1, <1>2

\* Nothing runs initially.
LEMMA DoneInit == Init => DoneInv
BY DEF Init, Idle, DoneInv, Builds

\* An upsert that does not fail has written what it took.
LEMMA DoneUpsert == Shape /\ SourceInv /\ DoneInv /\ Upsert => DoneInv'
<1> SUFFICES ASSUME Shape, SourceInv, DoneInv, Upsert, script'.clean PROVE DoneInv'
  BY DEF DoneInv
<1> DEFINE job == Head(script.jobs)
           items == ToSet(job.items)
<1>1. PICK fails \in BOOLEAN :
        /\ ~fails => graph' = Stored(job.kind, items)
        /\ script' = [script EXCEPT !.jobs = Tail(script.jobs), !.clean = script.clean /\ ~fails]
  BY UpsertFacts DEF Shape
<1>2. /\ script'.kind = script.kind /\ script'.papers = script.papers /\ script'.jobs = Tail(script.jobs)
      /\ script'.opts = script.opts
      /\ script'.clean = (script.clean /\ ~fails)
      /\ script.jobs \in Seq(Job) /\ script.jobs # <<>> /\ Once(script.papers)
  BY <1>1, UpsertFacts DEF Shape, ScriptOK
<1>3. script.clean /\ graph' = Stored(job.kind, items)
  BY <1>1, <1>2
<1>4. \A kind : Pend(script.jobs, kind) = Pend(script'.jobs, kind) \cup (IF job.kind = kind THEN items ELSE {})
  BY <1>2, PendTail
<1>5. GraphOK /\ job.kind \in Upserts
  BY UpsertFacts DEF Shape
<1>6. job.kind \in {"Paper", "PaperEmb"} => items \subseteq ToSet(script.papers)
  BY UpsertSource
<1> HIDE DEF items
<1>7. PapersDone => PapersDone'
  <2> SUFFICES ASSUME PapersDone, NEW p \in ToSet(script.papers), p \notin Pend(script'.jobs, "Paper")
               PROVE  p.id \in DOMAIN graph'.papers /\ graph'.papers[p.id] = p.text
    BY <1>2 DEF PapersDone, Held
  <2>1. CASE job.kind = "Paper"
    <3>1. Rewritten(graph'.papers, graph.papers, items)
      BY <1>3, <1>5, <2>1, StoredPapers
    <3>2. p \in items \/ Held(p)
      BY <1>4, <2>1 DEF PapersDone
    <3>3. QED
      <4>1. Once(script.papers) /\ items \subseteq ToSet(script.papers)
        BY <1>2, <1>6, <2>1
      <4>2. p \in items \/ (p.id \in DOMAIN graph.papers /\ graph.papers[p.id] = p.text)
        BY <3>2 DEF Held
      <4>3. QED
        BY <3>1, <4>1, <4>2, WrittenOnce
  <2>2. CASE job.kind # "Paper"
    <3>1. Held(p)
      BY <1>4, <2>2 DEF PapersDone
    <3>2. CASE job.kind = "edge"
      BY <1>3, <1>5, <3>1, <3>2, StoredEdges DEF Held
    <3>3. CASE job.kind \in {"PaperEmb", "name"}
      BY <1>3, <1>5, <3>1, <3>3, StoredVectors, StoredNames DEF Held
    <3>4. QED
      BY <1>5, <2>2, <3>2, <3>3 DEF Upserts
  <2>3. QED
    BY <2>1, <2>2
<1>8. LinksDone => LinksDone'
  <2>1. LinksOfAll(script.papers)' = LinksOfAll(script.papers)
    BY <1>2 DEF LinksOfAll
  <2>2. CASE job.kind = "edge"
    <3>1. graph'.edges = graph.edges \cup items
      BY <1>3, <1>5, <2>2, StoredEdges
    <3>2. Pend(script.jobs, "edge") = Pend(script'.jobs, "edge") \cup items
      BY <1>4, <2>2
    <3>3. QED
      BY <2>1, <3>1, <3>2 DEF LinksDone
  <2>3. CASE job.kind # "edge"
    <3>1. graph'.edges = graph.edges
      BY <1>3, <1>5, <2>3, StoredPapers, StoredVectors, StoredNames DEF Upserts
    <3>2. Pend(script.jobs, "edge") = Pend(script'.jobs, "edge")
      BY <1>4, <2>3
    <3>3. QED
      BY <2>1, <3>1, <3>2 DEF LinksDone
  <2>4. QED
    BY <2>2, <2>3
<1>9. CASE job.kind = "PaperEmb"
  <2>1. Rewritten(graph'.vectors, graph.vectors, items)
    BY <1>3, <1>5, <1>9, StoredVectors
  <2>2. Pend(script.jobs, "PaperEmb") = Pend(script'.jobs, "PaperEmb") \cup items
    BY <1>4, <1>9
  <2>3. VectorsDone => VectorsDone'
    <3> SUFFICES ASSUME VectorsDone, NEW p \in ToSet(script.papers), p \notin Pend(script'.jobs, "PaperEmb")
                 PROVE  p.id \in DOMAIN graph'.vectors /\ graph'.vectors[p.id] = p.text
      BY <1>2 DEF VectorsDone, Embedded
    <3>1. p \in items \/ Embedded(p)
      BY <2>2 DEF VectorsDone
    <3>2. QED
      <4>1. Once(script.papers) /\ items \subseteq ToSet(script.papers)
        BY <1>2, <1>6, <1>9
      <4>2. p \in items \/ (p.id \in DOMAIN graph.vectors /\ graph.vectors[p.id] = p.text)
        BY <3>1 DEF Embedded
      <4>3. QED
        BY <2>1, <4>1, <4>2, WrittenOnce
  <2>4. SomeVector => SomeVector'
    BY <1>2, <2>1, <2>2 DEF SomeVector, Rewritten, IdsOf
  <2>5. QED
    BY <1>2, <1>3, <1>7, <1>8, <2>3, <2>4 DEF DoneInv
<1>10. CASE job.kind # "PaperEmb"
  <2>1. graph'.vectors = graph.vectors
    BY <1>3, <1>5, <1>10, StoredPapers, StoredEdges, StoredNames DEF Upserts
  <2>2. Pend(script.jobs, "PaperEmb") = Pend(script'.jobs, "PaperEmb")
    BY <1>4, <1>10
  <2>3. (VectorsDone => VectorsDone') /\ (SomeVector => SomeVector')
    BY <1>2, <2>1, <2>2 DEF VectorsDone, SomeVector, Embedded
  <2>4. QED
    BY <1>2, <1>3, <1>7, <1>8, <2>3 DEF DoneInv
<1>11. QED
  BY <1>9, <1>10

\* Every step keeps what an undisturbed run has done.
LEMMA DoneStep == Shape /\ SourceInv /\ DoneInv /\ [Next]_vars => DoneInv'
<1> SUFFICES ASSUME Shape, SourceInv, DoneInv, [Next]_vars, ~Upsert, script'.clean PROVE DoneInv'
  BY DoneUpsert DEF DoneInv
<1>1. CASE Delete \/ Revise
  <2>1. script'.kind = "none"
    BY <1>1 DEF Delete, Revise, Disturbed, Shape, ScriptOK
  <2>2. QED
    BY <2>1 DEF DoneInv, Builds
<1>2. CASE SameGraph
  <2>1. script.jobs \in Seq(Job)
    BY DEF Shape, ScriptOK
  <2>2. ASSUME script.kind \notin {"none"}, script.clean, script'.kind = script.kind, script'.papers = script.papers,
               script'.opts = script.opts,
               \A kind \in {"Paper", "edge", "PaperEmb"} : Pend(script'.jobs, kind) = Pend(script.jobs, kind)
        PROVE  DoneInv'
    <3>1. /\ PapersDone => PapersDone'
          /\ LinksDone => LinksDone'
          /\ VectorsDone => VectorsDone'
          /\ SomeVector => SomeVector'
      BY <1>2, <2>2 DEF SameGraph, PapersDone, LinksDone, VectorsDone, SomeVector, Held, Embedded
    <3>2. QED
      BY <2>2, <3>1 DEF DoneInv
  <2>3. CASE script'.kind \in {"none", "download"}
    BY <2>3 DEF DoneInv, Builds
  <2>4. CASE KeepsJobs
    BY <2>2, <2>3, <2>4 DEF KeepsJobs
  <2>5. CASE NextJob
    <3>1. Head(script.jobs).kind = "embed" /\ script.jobs # <<>> /\ script'.jobs = Tail(script.jobs)
      BY <2>5 DEF NextJob
    <3>2. \A kind : Pend(script.jobs, kind) = Pend(Tail(script.jobs), kind)
                     \cup (IF Head(script.jobs).kind = kind THEN ToSet(Head(script.jobs).items) ELSE {})
      BY <2>1, <3>1, PendTail
    <3>3. \A kind \in {"Paper", "edge", "PaperEmb"} : Pend(script'.jobs, kind) = Pend(script.jobs, kind)
      BY <3>1, <3>2, ZenonT(60)
    <3>4. script.kind # "none"
      BY <3>1 DEF Shape, ScriptOK
    <3>5. QED
      BY <2>2, <2>5, <3>3, <3>4 DEF NextJob
  <2>6. CASE GivesUp
    BY <2>6 DEF GivesUp
  <2>7. CASE BuildStarts
    <3>1. PICK asks \in BOOLEAN : /\ script'.kind \in Builds
                                  /\ script'.kind = "embedding build" /\ "key" \in script'.opts => asks
                                  /\ script'.papers = Loaded
                                  /\ script'.jobs = BuildJobs(Loaded, asks)
      BY <2>7 DEF BuildStarts
    <3>2. Loaded \in Seq(Entry)
      BY LoadedFacts DEF Shape
    <3>3. /\ Pend(script'.jobs, "Paper") = ToSet(script'.papers)
          /\ Pend(script'.jobs, "edge") = LinksOfAll(script'.papers)
          /\ Pend(script'.jobs, "PaperEmb") = IF asks THEN ToSet(script'.papers) ELSE {}
      BY <3>1, <3>2, BuildJobsFacts
    <3>4. PapersDone' /\ LinksDone'
      BY <3>3 DEF PapersDone, LinksDone, LinksOfAll
    <3>5. script'.kind = "embedding build" /\ "key" \in script'.opts => VectorsDone'
      BY <3>1, <3>3 DEF VectorsDone
    <3>6. script'.kind # "backfill"
      BY <3>1 DEF Builds
    <3>7. QED
      BY <3>4, <3>5, <3>6 DEF DoneInv
  <2>8. CASE BackfillStarts
    <3>1. /\ Unembedded \in Seq(Entry)
          /\ ToSet(Unembedded) = {p \in ToSet(Loaded) : p.id \notin DOMAIN graph.vectors}
      BY LoadedFacts DEF Shape
    <3>2. /\ "key" \in script'.opts => Pend(script'.jobs, "PaperEmb") = ToSet(Unembedded)
          /\ script'.papers = Loaded /\ script'.kind = "backfill"
      BY <2>8, <3>1, BackfillFacts DEF BackfillStarts
    <3>3. "key" \in script'.opts => SomeVector'
      BY <1>2, <3>1, <3>2 DEF SomeVector, SameGraph
    <3>4. QED
      BY <3>2, <3>3 DEF DoneInv, Builds
  <2>9. QED
    BY <2>3, <2>4, <2>5, <2>6, <2>7, <2>8, Moves DEF Downloads, Idle
<1>3. QED
  BY <1>1, <1>2, GraphMoves

-----------------------------------------------------------------------------
(* Why an undisturbed download has the newest papers.                      *)

Shorter(a, b) == IF a <= b THEN a ELSE b

\* How many papers there are to fetch, and the n newest of them.
All == Shorter(Count, arxiv.listed)
Newest(n) == [i \in 1 .. n |-> Paper(Listing[i])]

FetchInv ==
  script.kind = "download" /\ script.clean /\ NoneEmpty =>
    /\ script.stage = "run" => script.papers = Newest(Shorter(All, PageFrom))
    /\ script.stage = "save" => script.papers = Newest(All)
    /\ script.stage = "end" => file = Saved(Newest(All))

\* The n newest papers are a sequence.
LEMMA NewestFacts ==
  ASSUME ArxivOK, NEW n \in Nat, n <= arxiv.listed
  PROVE  /\ Newest(n) \in Seq([id : Ids, text : Texts]) /\ Len(Newest(n)) = n
         /\ \A i \in 1 .. n : Newest(n)[i] = Paper(Listing[i]) /\ Listing[i] \in Ids
<1>1. Listing \in Seq(Ids) /\ Len(Listing) = arxiv.listed /\ arxiv.listed \in Nat
  BY ListingFacts
<1>2. \A i \in 1 .. n : Listing[i] \in Ids
  <2>1. \A i \in 1 .. n : i \in 1 .. Len(Listing)
    BY <1>1
  <2>2. QED
    BY <1>1, <2>1, ElementOfSeq
<1>3. \A id \in Ids : Paper(id) \in [id : Ids, text : Texts]
  BY DEF Paper, ArxivOK
<1>4. Newest(n) \in [1 .. n -> [id : Ids, text : Texts]]
  BY <1>2, <1>3 DEF Newest
<1>5. Newest(n) \in Seq([id : Ids, text : Texts])
  BY <1>4, SeqDef
<1>6. DOMAIN Newest(n) = 1 .. n /\ \A i \in 1 .. n : Newest(n)[i] = Paper(Listing[i])
  BY DEF Newest
<1>7. Len(Newest(n)) = n
  BY <1>5, <1>6, LenProperties
<1>8. QED
  BY <1>2, <1>5, <1>6, <1>7

\* The newest papers and the ones after them.
LEMMA NewestConcat ==
  ASSUME ArxivOK, NEW m \in Nat, NEW n \in Nat, m <= n, n <= arxiv.listed,
         NEW s \in Seq([id : Ids, text : Texts]), Len(s) = n - m,
         \A i \in 1 .. n - m : s[i] = Paper(Listing[m + i])
  PROVE  Newest(m) \o s = Newest(n)
<1> DEFINE P == [id : Ids, text : Texts]
<1>1. arxiv.listed \in Nat
  BY ListingFacts
<1>2. /\ Newest(m) \in Seq(P) /\ Len(Newest(m)) = m /\ \A i \in 1 .. m : Newest(m)[i] = Paper(Listing[i])
      /\ Newest(n) \in Seq(P) /\ Len(Newest(n)) = n /\ \A i \in 1 .. n : Newest(n)[i] = Paper(Listing[i])
  <2>1. m <= arxiv.listed
    BY <1>1
  <2>2. Newest(m) \in Seq(P) /\ Len(Newest(m)) = m /\ \A i \in 1 .. m : Newest(m)[i] = Paper(Listing[i])
    BY <2>1, NewestFacts
  <2>3. Newest(n) \in Seq(P) /\ Len(Newest(n)) = n /\ \A i \in 1 .. n : Newest(n)[i] = Paper(Listing[i])
    BY NewestFacts
  <2>4. QED
    BY <2>2, <2>3
<1>3. s \in Seq(P)
  OBVIOUS
<1> HIDE DEF P
<1>4. /\ Newest(m) \o s \in Seq(P) /\ Len(Newest(m) \o s) = n
      /\ \A i \in 1 .. n : (Newest(m) \o s)[i] = IF i <= m THEN Newest(m)[i] ELSE s[i - m]
  <2>1. /\ Newest(m) \o s \in Seq(P) /\ Len(Newest(m) \o s) = Len(Newest(m)) + Len(s)
        /\ \A i \in 1 .. Len(Newest(m)) + Len(s) :
             (Newest(m) \o s)[i] = IF i <= Len(Newest(m)) THEN Newest(m)[i] ELSE s[i - Len(Newest(m))]
    BY <1>2, <1>3, ConcatProperties
  <2>2. Len(Newest(m)) + Len(s) = n
    BY <1>2
  <2>3. QED
    BY <1>2, <2>1, <2>2
<1>5. ASSUME NEW i \in 1 .. n PROVE (Newest(m) \o s)[i] = Newest(n)[i]
  <2>1. CASE i <= m
    BY <1>2, <1>4, <2>1
  <2>2. CASE ~(i <= m)
    <3>1. PICK j \in 1 .. n - m : j = i - m /\ m + j = i
      BY <2>2
    <3>2. s[i - m] = Paper(Listing[i])
      BY <3>1
    <3>3. QED
      BY <1>2, <1>4, <2>2, <3>2
  <2>3. QED
    BY <2>1, <2>2
<1>6. QED
  BY <1>2, <1>4, <1>5, SeqEqual

\* Nothing is fetched initially.
LEMMA FetchInit == Init => FetchInv
BY DEF Init, Idle, FetchInv

\* A page adds what comes next, and an empty one tells that all is fetched.
LEMMA PageAdds ==
  ASSUME Shape, Fetch, NoneEmpty, script.papers = Newest(Shorter(All, PageFrom))
  PROVE  /\ Page # <<>> => script'.papers = Newest(Shorter(All, PageFrom + PageSize))
         /\ Page = <<>> => script'.papers = Newest(All)
<1> DEFINE m == Shorter(All, PageFrom)
           n == IF PageFrom < PageTo THEN PageTo - PageFrom ELSE 0
           new == {q \in Entry : ~Has(script.papers, q.id)}
<1>1. /\ ArxivOK /\ script.page \in Nat /\ script.papers \in Seq(Entry) /\ MorePages
      /\ script'.papers = script.papers \o Those(Page, new)
  BY DEF Shape, ScriptOK, Fetch
<1>2. /\ Listing \in Seq(Ids) /\ Len(Listing) = arxiv.listed /\ arxiv.listed \in Nat
      /\ \A i, j \in 1 .. Len(Listing) : Listing[i] = Listing[j] => i = j
  BY <1>1, ListingFacts
<1>3. /\ PageFrom \in Nat /\ PageTo \in Nat /\ Page \in Seq(Entry)
      /\ Page = [i \in 1 .. n |-> Paper(Listing[PageFrom + i])]
  BY <1>1, PageFacts
<1>4. PageSize \in Nat \ {0} /\ Count \in Nat \ {0}
  BY LoadAssumption
<1>5. All \in Nat /\ All <= Count /\ All <= arxiv.listed /\ All \in {Count, arxiv.listed}
  BY <1>2, <1>4 DEF All, Shorter
<1>6. m \in Nat /\ m <= arxiv.listed /\ m <= PageFrom /\ m <= All /\ m \in {All, PageFrom}
  BY <1>2, <1>3, <1>5 DEF Shorter
<1>7. n \in Nat
  BY <1>3
<1> HIDE DEF m, n, new
<1>8. Len(script.papers) = m /\ script.papers = Newest(m)
  BY <1>1, <1>6, NewestFacts DEF m
<1>9. m < Count
  BY <1>1, <1>8 DEF MorePages
<1>10. DOMAIN Page = 1 .. n /\ Len(Page) = n /\ \A i \in 1 .. n : Page[i] = Paper(Listing[PageFrom + i])
  <2>1. DOMAIN Page = 1 .. n /\ \A i \in 1 .. n : Page[i] = Paper(Listing[PageFrom + i])
    BY <1>3
  <2>2. QED
    BY <1>3, <1>7, <2>1, LenProperties
<1>11. /\ m = PageFrom => PageTo = Shorter(All, PageFrom + PageSize)
       /\ m # PageFrom => n = 0 /\ m = All
  <2>1. CASE m = PageFrom
    <3>1. Count - Len(script.papers) = Count - PageFrom
      BY <1>8, <2>1
    <3>2. QED
      BY <1>2, <1>3, <1>4, <1>5, <1>6, <1>9, <2>1, <3>1 DEF PageTo, Shorter, All
  <2>2. CASE m # PageFrom
    <3>1. m = All /\ All < PageFrom /\ All = arxiv.listed
      BY <1>3, <1>5, <1>6, <1>9, <2>2
    <3>2. PageTo <= arxiv.listed
      BY <1>1, <1>2, <1>3, <1>4, <1>8, <1>9 DEF PageTo
    <3>3. ~(PageFrom < PageTo)
      BY <1>2, <1>3, <3>1, <3>2
    <3>4. QED
      BY <2>2, <3>1, <3>3 DEF n
  <2>3. QED
    BY <2>1, <2>2
<1>12. n = 0 => Page = <<>>
  <2>1. n = 0 => Len(Page) = 0
    BY <1>10
  <2>2. QED
    BY <1>3, <2>1, EmptySeq
<1>13. Page = <<>> => n = 0
  <2>1. Page = <<>> => Len(Page) = 0
    BY <1>3, EmptySeq
  <2>2. QED
    BY <1>10, <2>1
<1>14. Those(Page, new) = Page
  <2>1. ASSUME NEW i \in 1 .. n PROVE Page[i] \in new
    <3>1. PageFrom < PageTo /\ n = PageTo - PageFrom /\ m = PageFrom /\ PageTo <= arxiv.listed
      <4>1. n # 0
        BY <1>7, <2>1
      <4>2. m = PageFrom
        BY <1>11, <4>1
      <4>3. PageFrom < PageTo /\ n = PageTo - PageFrom
        BY <4>1 DEF n
      <4>4. PageTo <= arxiv.listed
        BY <1>2, <1>3, <1>4, <1>5, <1>11, <4>2 DEF Shorter
      <4>5. QED
        BY <4>2, <4>3, <4>4
    <3>2. PICK k \in 1 .. Len(Listing) : k = PageFrom + i /\ k > m
      BY <1>2, <1>3, <3>1
    <3>3. Page[i] = Paper(Listing[k]) /\ Page[i] \in Entry
      <4>1. Page[i] = Paper(Listing[k])
        BY <1>10, <3>2
      <4>2. i \in 1 .. Len(Page)
        BY <1>10
      <4>3. QED
        BY <1>3, <4>1, <4>2, ElementOfSeq
    <3>4. Page[i].id = Listing[k]
      BY <3>3 DEF Paper
    <3>5. ASSUME NEW j \in DOMAIN script.papers, script.papers[j].id = Listing[k] PROVE FALSE
      <4>1. j \in 1 .. m
        BY <1>1, <1>8, LenProperties
      <4>2. script.papers[j] = Paper(Listing[j])
        <5>1. Newest(m)[j] = Paper(Listing[j])
          BY <4>1 DEF Newest
        <5>2. QED
          BY <1>8, <5>1
      <4>3. Listing[j] = Listing[k]
        BY <3>5, <4>2 DEF Paper
      <4>4. j \in 1 .. Len(Listing) /\ j # k
        BY <1>2, <1>6, <3>2, <4>1
      <4>5. QED
        BY <1>2, <4>3, <4>4
    <3>6. QED
      BY <3>3, <3>4, <3>5 DEF new, Has
  <2>2. ToSet(Page) \subseteq new
    BY <1>10, <2>1 DEF ToSet
  <2>3. QED
    BY <1>3, <2>2, ThoseFacts
<1>15. CASE Page = <<>>
  <2>1. m = All
    <3>1. CASE m = PageFrom
      <4>1. ~(PageFrom < PageTo)
        BY <1>3, <1>13, <1>15 DEF n
      <4>2. QED
        BY <1>3, <1>4, <1>5, <1>6, <1>11, <3>1, <4>1 DEF Shorter
    <3>2. QED
      BY <1>11, <3>1
  <2>2. script'.papers = script.papers
    BY <1>1, <1>14, <1>15, ConcatEmptySeq
  <2>3. QED
    BY <1>8, <1>15, <2>1, <2>2
<1>16. CASE Page # <<>>
  <2>1. m = PageFrom /\ PageTo = Shorter(All, PageFrom + PageSize) /\ PageFrom < PageTo /\ n = PageTo - PageFrom
    BY <1>11, <1>12, <1>16 DEF n
  <2>2. PageTo <= arxiv.listed
    BY <1>2, <1>3, <1>4, <1>5, <2>1 DEF Shorter
  <2>3. Page \in Seq([id : Ids, text : Texts])
    <3>1. Entry \subseteq [id : Ids, text : Texts]
      BY DEF Entry
    <3>2. QED
      BY <1>3, <3>1, SeqMonotonic
  <2>4. m <= PageTo /\ Len(Page) = PageTo - m /\ \A i \in 1 .. PageTo - m : Page[i] = Paper(Listing[m + i])
    BY <1>3, <1>10, <2>1
  <2>5. Newest(m) \o Page = Newest(PageTo)
    BY <1>1, <1>3, <1>6, <2>2, <2>3, <2>4, NewestConcat
  <2>6. QED
    BY <1>1, <1>8, <1>14, <1>16, <2>1, <2>5
<1>17. QED
  BY <1>15, <1>16

\* Without more pages everything is fetched.
LEMMA NoMorePages ==
  ASSUME Shape, ~MorePages, script.papers = Newest(Shorter(All, PageFrom))
  PROVE  script.papers = Newest(All)
<1> DEFINE m == Shorter(All, PageFrom)
           N == (Count + PageSize - 1) \div PageSize
<1>1. ArxivOK /\ script.page \in Nat /\ arxiv.listed \in Nat
  BY ListingFacts DEF Shape, ScriptOK
<1>2. PageSize \in Nat \ {0} /\ Count \in Nat \ {0}
  BY LoadAssumption
<1>3. PageFrom \in Nat
  BY <1>1, <1>2 DEF PageFrom
<1>4. All \in Nat /\ All <= Count /\ All <= arxiv.listed
  BY <1>1, <1>2 DEF All, Shorter
<1>5. m \in Nat /\ m <= All /\ m <= arxiv.listed /\ (PageFrom < All => m = PageFrom) /\ (PageFrom >= All => m = All)
  BY <1>1, <1>3, <1>4 DEF Shorter
<1> HIDE DEF m
<1>6. Len(script.papers) = m
  BY <1>1, <1>5, NewestFacts DEF m
<1>7. CASE ~(Len(script.papers) < Count)
  <2>1. m = All
    BY <1>2, <1>4, <1>5, <1>6, <1>7
  <2>2. QED
    BY <2>1 DEF m
<1>8. CASE ~(script.page < N)
  <2>1. N \in Nat /\ N * PageSize >= Count
    BY <1>2
  <2>2. script.page >= N
    BY <1>1, <1>8, <2>1
  <2>3. script.page * PageSize >= N * PageSize
    <3> HIDE DEF N
    <3> QED BY <1>1, <1>2, <2>1, <2>2
  <2>4. PageFrom >= Count
    <3> HIDE DEF N
    <3>1. N * PageSize \in Nat /\ script.page * PageSize \in Nat
      BY <1>1, <1>2, <2>1
    <3>2. QED
      BY <1>2, <2>1, <2>3, <3>1 DEF PageFrom
  <2>5. m = All
    BY <1>2, <1>3, <1>4, <1>5, <2>4
  <2>6. QED
    BY <2>5 DEF m
<1>9. QED
  BY <1>7, <1>8 DEF MorePages

\* Every step keeps what an undisturbed download has fetched.
LEMMA FetchStep == Shape /\ FetchInv /\ [Next]_vars => FetchInv'
<1> SUFFICES ASSUME Shape, FetchInv, [Next]_vars, script'.kind = "download", script'.clean, NoneEmpty'
             PROVE  /\ script'.stage = "run" => script'.papers = Newest(Shorter(All, PageFrom))'
                    /\ script'.stage = "save" => script'.papers = Newest(All)'
                    /\ script'.stage = "end" => file' = Saved(Newest(All))'
  BY DEF FetchInv
<1>1. script \in [kind : Kinds, stage : Stages, page : Nat, tries : Nat, papers : Seq(Entry),
                  jobs : Seq(Job), opts : SUBSET Opts, clean : BOOLEAN]
  BY DEF Shape, ScriptOK
<1>2. arxiv' = arxiv
  <2>1. CASE Submit \/ Revise
    <3>1. script' = [script EXCEPT !.clean = (script.kind = "none")]
      BY <2>1 DEF Submit, Revise, Disturbed
    <3>2. QED
      BY <1>1, <3>1
  <2>2. QED
    BY <2>1
       DEF Next, vars, Download, Fetch, FetchFails, LastPage, Save, Build, Backfill, Upsert, Embed,
           EmbedFails, EmbedShort, Verify, Exit, Kill, Delete
<1>3. /\ NoneEmpty /\ All' = All /\ \A n : Newest(n)' = Newest(n)
  BY <1>2 DEF NoneEmpty, All, Newest, Paper, Listing
<1>4. CASE script' = script /\ file' = file
  <2>1. Saved(Newest(All))' = Saved(Newest(All))
    BY <1>3, <1>4 DEF Saved
  <2>2. QED
    BY <1>3, <1>4, <2>1 DEF FetchInv, PageFrom
<1>5. CASE Download
  <2>1. PICK opts :
          script' = [kind |-> "download", stage |-> "run", page |-> 0, tries |-> 0, papers |-> <<>>, jobs |-> <<>>,
                     opts |-> opts, clean |-> TRUE]
    BY <1>5, DownloadStarted
  <2>2. PageSize \in Nat /\ Count \in Nat
    BY LoadAssumption
  <2>3. PageFrom' = 0
    BY <2>1, <2>2 DEF PageFrom
  <2>4. arxiv.listed \in Nat
    BY ListingFacts DEF Shape
  <2>5. Shorter(All, 0) = 0
    BY <2>2, <2>4 DEF Shorter, All
  <2>6. Newest(0) = <<>>
    <3>1. 0 \in Nat /\ 0 <= arxiv.listed /\ ArxivOK
      BY <2>4 DEF Shape
    <3>2. Newest(0) \in Seq([id : Ids, text : Texts]) /\ Len(Newest(0)) = 0
      BY <3>1, NewestFacts
    <3>3. QED
      BY <3>2, EmptySeq
  <2>7. Newest(Shorter(All, PageFrom))' = <<>>
    BY <1>3, <2>3, <2>5, <2>6 DEF Shorter
  <2>8. QED
    BY <2>1, <2>7
<1>6. CASE Fetch
  <2>1. script.kind = "download" /\ script.stage = "run"
    BY <1>6 DEF Fetch, Run
  <2>2. /\ script'.clean = script.clean /\ script'.page = script.page + 1
        /\ script'.stage = IF Page = <<>> THEN "save" ELSE "run"
    BY <1>1, <1>6, <2>1 DEF Fetch
  <2>3. script.papers = Newest(Shorter(All, PageFrom))
    BY <1>3, <2>1, <2>2 DEF FetchInv
  <2>4. PageFrom' = PageFrom + PageSize
    <3>1. PageSize \in Nat
      BY LoadAssumption
    <3>2. QED
      BY <1>1, <2>2, <3>1 DEF PageFrom
  <2>5. Newest(Shorter(All, PageFrom))' = Newest(Shorter(All, PageFrom + PageSize))
    BY <1>3, <2>4 DEF Shorter
  <2>6. QED
    BY <1>3, <1>6, <2>2, <2>3, <2>5, PageAdds
<1>7. CASE FetchFails
  <2>1. /\ script.kind = "download" /\ script.stage = "run"
        /\ script' = [script EXCEPT !.tries = script.tries + 1,
                                    !.clean = script.clean /\ script.tries + 1 < FetchTries,
                                    !.stage = IF script.tries + 1 < FetchTries THEN script.stage ELSE "save"]
    BY <1>7 DEF FetchFails, Run
  <2>2. script.clean /\ script'.stage = "run" /\ script'.papers = script.papers /\ script'.page = script.page
    <3>1. script'.clean = (script.clean /\ script.tries + 1 < FetchTries)
      BY <1>1, <2>1
    <3>2. script.clean /\ script.tries + 1 < FetchTries
      BY <3>1
    <3>3. QED
      BY <1>1, <2>1, <3>2
  <2>3. PageFrom' = PageFrom
    BY <2>2 DEF PageFrom
  <2>4. QED
    BY <1>3, <2>1, <2>2, <2>3 DEF FetchInv, Shorter
<1>8. CASE LastPage
  <2>1. /\ script.kind = "download" /\ script.stage = "run" /\ ~MorePages
        /\ script' = [script EXCEPT !.stage = "save"]
    BY <1>8 DEF LastPage, Run
  <2>2. script'.stage = "save" /\ script'.papers = script.papers /\ script.clean
    BY <1>1, <2>1
  <2>3. script.papers = Newest(Shorter(All, PageFrom))
    BY <1>3, <2>1, <2>2 DEF FetchInv
  <2>4. QED
    BY <1>3, <2>1, <2>2, <2>3, NoMorePages
<1>9. CASE Save
  <2>1. /\ script.stage = "save" /\ script' = [script EXCEPT !.stage = "end"] /\ file' = Saved(script.papers)
    BY <1>9 DEF Save
  <2>2. script'.stage = "end" /\ script.kind = "download" /\ script.clean /\ script'.opts = script.opts
    BY <1>1, <2>1
  <2>3. script.papers = Newest(All)
    BY <1>3, <2>1, <2>2 DEF FetchInv
  <2>4. Saved(Newest(All))' = Saved(Newest(All))
    BY <1>3, <2>2 DEF Saved
  <2>5. QED
    BY <2>1, <2>2, <2>3, <2>4
<1>10. CASE Build
  <2>1. script.kind = "none" /\ (script' = script \/ BuildStarted)
    BY <1>10, BuildFacts
  <2>2. script'.kind \in Builds \cup {"none"}
    <3>1. CASE BuildStarted
      <4>1. PICK kind \in Builds, asks \in BOOLEAN, opts \in SUBSET Opts :
              script' = [kind |-> kind, stage |-> "run", page |-> 0, tries |-> 0, papers |-> Loaded,
                         jobs |-> BuildJobs(Loaded, asks), opts |-> opts, clean |-> TRUE]
        BY <3>1 DEF BuildStarted
      <4>2. script'.kind = kind
        BY <4>1
      <4>3. QED
        BY <4>2
    <3>2. QED
      BY <2>1, <3>1
  <2>3. QED
    BY <2>2 DEF Builds
<1>11. CASE Backfill
  <2> DEFINE jobs == IF "key" \in script'.opts THEN BackfillJobs(Unembedded) ELSE <<>>
  <2>1. PICK opts :
          script' = [kind |-> "backfill", stage |-> "run", page |-> 0, tries |-> 0, papers |-> Loaded,
                     jobs |-> jobs, opts |-> opts, clean |-> TRUE]
    BY <1>11, BackfillStarted
  <2>2. script'.kind = "backfill"
    <3> HIDE DEF jobs
    <3> QED BY <2>1
  <2>3. QED
    BY <2>2
<1>12. CASE Upsert \/ Embed \/ EmbedFails \/ EmbedShort \/ Verify
  <2>1. script.kind # "download"
    BY <1>12 DEF Upsert, Embed, EmbedFails, EmbedShort, Embedding, Verify, Loads, Shape, ScriptOK
  <2>2. script'.kind = script.kind
    BY <1>1, <1>12 DEF Upsert, Embed, EmbedFails, EmbedShort, Verify
  <2>3. QED
    BY <2>1, <2>2
<1>13. CASE Exit \/ Kill
  BY <1>13 DEF Exit, Kill, Idle
<1>14. CASE Submit \/ Revise \/ Delete
  <2>1. script' = [script EXCEPT !.clean = (script.kind = "none")]
    BY <1>14 DEF Submit, Revise, Delete, Disturbed
  <2>2. QED
    BY <1>1, <2>1
<1>15. QED
  BY <1>4, <1>5, <1>6, <1>7, <1>8, <1>9, <1>10, <1>11, <1>12, <1>13, <1>14 DEF Next, vars

\* A run that nothing failed in or disturbed has done its work: a download has
\* the newest papers that --min-tokens leaves, each once
\* (download_papers.py:154-197), a build has loaded the file (build_kg.py:327-429)
\* with its vectors if it embeds and has a key (build_kg.py:414-426), and a
\* backfill with a key has left no paper of it without a vector
\* (embed_backfill.py:106-145).
THEOREM RunsDone == Spec => []RunsComplete
<1>1. Shape /\ SourceInv /\ DoneInv /\ FetchInv => RunsComplete
  <2> SUFFICES ASSUME Shape, SourceInv, DoneInv, FetchInv PROVE RunsComplete
    OBVIOUS
  <2>1. ASSUME Ends("download"), Range(arxiv.text) \cap Empty = {}
        PROVE  file = Saved([i \in 1 .. Min({Count, arxiv.listed}) |-> Paper(Listing[i])])
    <3>1. file = Saved(Newest(All))
      BY <2>1 DEF Ends, NoneEmpty, FetchInv
    <3>2. Count \in Nat /\ arxiv.listed \in Nat
      BY LoadAssumption, ListingFacts DEF Shape
    <3>3. Min({Count, arxiv.listed}) = All
      BY <3>2, MinOfTwo DEF All, Shorter
    <3>4. QED
      BY <3>1, <3>3 DEF Newest
  <2>2. script.stage = "end" => \A kind : Pend(script.jobs, kind) = {}
    BY NoJobs DEF Shape, ScriptOK
  <2>3. ASSUME NEW p \in ToSet(script.papers)
        PROVE  /\ Ends("build") \/ Ends("embedding build") =>
                    p.id \in DOMAIN graph.papers /\ graph.papers[p.id] = p.text /\ Linked(p)
               /\ Ends("embedding build") /\ "key" \in script.opts =>
                    p.id \in DOMAIN graph.vectors /\ graph.vectors[p.id] = p.text
               /\ Ends("backfill") /\ "key" \in script.opts => p.id \in DOMAIN graph.vectors
    <3>1. ASSUME Ends("build") \/ Ends("embedding build")
          PROVE  p.id \in DOMAIN graph.papers /\ graph.papers[p.id] = p.text /\ Linked(p)
      <4>1. script.clean /\ script.kind \in Builds /\ script.stage = "end"
        BY <3>1 DEF Ends, Builds
      <4>2. Held(p)
        BY <2>2, <4>1 DEF DoneInv, PapersDone
      <4>3. LinksOf(p) \subseteq LinksOfAll(script.papers)
        BY DEF LinksOfAll, ToSet
      <4>4. LinksOf(p) \subseteq graph.edges
        BY <2>2, <4>1, <4>3 DEF DoneInv, LinksDone
      <4>5. QED
        BY <4>2, <4>4 DEF Held, Linked, LinksOf
    <3>2. ASSUME Ends("embedding build"), "key" \in script.opts
          PROVE  p.id \in DOMAIN graph.vectors /\ graph.vectors[p.id] = p.text
      BY <2>2, <3>2 DEF Ends, DoneInv, VectorsDone, Embedded
    <3>3. ASSUME Ends("backfill"), "key" \in script.opts PROVE p.id \in DOMAIN graph.vectors
      BY <2>2, <3>3 DEF Ends, DoneInv, SomeVector
    <3>4. QED
      BY <3>1, <3>2, <3>3
  <2>4. QED
    BY <2>1, <2>3 DEF RunsComplete
<1>2. Spec => []Shape
  BY ShapeInit, ShapeStep, PTL DEF Spec
<1>3. Spec => [](Shape /\ SourceInv)
  BY <1>2, SourceInit, SourceStep, PTL DEF Spec
<1>4. Spec => [](Shape /\ SourceInv /\ DoneInv /\ FetchInv)
  BY <1>3, DoneInit, DoneStep, FetchInit, FetchStep, PTL DEF Spec
<1>5. QED
  BY <1>1, <1>4, PTL

=============================================================================

-------------------------- MODULE Construction_proofs --------------------------
(***************************************************************************)
(* Proofs about Construction, for any workers, documents, payloads,        *)
(* batches and initial graphs whose edges have both their ends.            *)
(*                                                                         *)
(* TypeCorrect, NewOnlyInserts and CitationHarmless are about all          *)
(* requests.  The other theorems are about requests that nothing           *)
(* disturbed, and that are no dry run.  A request is calm as long as none  *)
(* of its calls has failed and none has overlapped it, and, unless it is a *)
(* deletion, as none of its ids has blanks: then no other worker has       *)
(* anything to do, so each of its steps sees the graph as its last one     *)
(* left it (AloneInv, CalmNext).  What such a step does is stated once,    *)
(* field by field (the Calm... definitions), and each property has an      *)
(* invariant of its own about the calm requests (DeleteInv, ReplaceInv,    *)
(* RepairInv, EventInv, CreatedInv, CountInv) on top of the three they     *)
(* share: what is left of the list (ListInv), what a document starts with  *)
(* (FreshInv), and what the probes have found (FoundInv).                  *)
(***************************************************************************)
EXTENDS Construction, SequenceTheorems, FiniteSetTheorems, TLAPS

\* The initial values of the records.
LEMMA Blanks ==
  /\ NoCall \in Call
  /\ Blank \in Report
  /\ NoHist \in History
<1>1. <<>> \in Seq(Document) /\ <<>> \in Seq(Docs)
  BY EmptySeq
<1>2. QED
  BY <1>1 DEF NoCall, Call, Blank, Report, NoHist, History, Strategies

\* The members of a sequence, one longer.
LEMMA MembersOfAppend ==
  ASSUME NEW S, NEW q \in Seq(S), NEW e \in S
  PROVE  ToSet(Append(q, e)) = ToSet(q) \cup {e}
<1>1. /\ Append(q, e) \in Seq(S)
      /\ Len(Append(q, e)) = Len(q) + 1
      /\ \A i \in 1..Len(q) : Append(q, e)[i] = q[i]
      /\ Append(q, e)[Len(q) + 1] = e
      /\ Len(q) \in Nat
  BY AppendProperties, LenProperties
<1>2. DOMAIN q = 1..Len(q) /\ DOMAIN Append(q, e) = 1..(Len(q) + 1)
  BY <1>1, LenProperties
<1>3. DOMAIN Append(q, e) = DOMAIN q \cup {Len(q) + 1}
  BY <1>1, <1>2
<1>4. QED
  BY <1>1, <1>2, <1>3 DEF ToSet

\* A worker with a document in hand knows it, its payload's triples and what
\* of its list is left.
LEMMA InHandTyped ==
  ASSUME TypeOK, NEW w \in Workers, pc[w] \in InHand
  PROVE  /\ Doc(w) \in Document /\ Doc(w).id \in Papers /\ Doc(w).content \in Contents
         /\ Id(w) \in Docs /\ Doc(w).id \in Vertices /\ Id(w) \in Vertices
         /\ Tail(call[w].docs) \in Seq(Document)
         /\ Triples(w) \in Seq(Docs \cup Objects) /\ Triples(w) \in Seq(Vertices)
<1>1. call[w].docs \in Seq(Document) /\ call[w].docs # <<>>
  BY DEF TypeOK, Call
<1>2. Doc(w) \in Document /\ Tail(call[w].docs) \in Seq(Document)
  BY <1>1, HeadTailProperties DEF Doc
<1>3. Doc(w).id \in Papers /\ Doc(w).content \in Contents
  BY <1>2 DEF Document
<1>4. Triples(w) \in Seq(Docs \cup Objects)
  BY <1>3, ConstructionConstants DEF Triples
<1>5. Triples(w) \in Seq(Vertices)
  <2>1. Docs \cup Objects \subseteq Vertices
    BY DEF Vertices, Papers
  <2>2. /\ Len(Triples(w)) \in Nat
        /\ \A i \in 1..Len(Triples(w)) : Triples(w)[i] \in Vertices
        /\ Triples(w) = [i \in 1..Len(Triples(w)) |-> Triples(w)[i]]
    BY <1>4, <2>1, LenProperties, ElementOfSeq
  <2>3. QED
    BY <2>2
<1>6. Id(w) \in Docs
  BY <1>3, ConstructionConstants DEF Id
<1>7. QED
  BY <1>2, <1>3, <1>4, <1>5, <1>6 DEF Vertices, Papers

\* So does one at a triple: its object is a vertex.
LEMMA TripleTyped ==
  ASSUME TypeOK, NEW w \in Workers, pc[w] = "links", call[w].k <= Len(Triples(w))
  PROVE  /\ Triples(w)[call[w].k] \in Docs \cup Objects
         /\ Triples(w)[call[w].k] \in Vertices
         /\ call[w].k \in Nat \ {0}
<1>1. Triples(w) \in Seq(Docs \cup Objects)
  BY InHandTyped DEF InHand
<1>2. call[w].k \in Nat \ {0}
  BY DEF TypeOK, Call
<1>3. Triples(w)[call[w].k] \in Docs \cup Objects
  BY <1>1, <1>2, ElementOfSeq
<1>4. QED
  BY <1>2, <1>3 DEF Vertices, Papers

\* Each worker's records.
LEMMA RecordsTyped ==
  ASSUME TypeOK, NEW w \in Workers
  PROVE  call[w] \in Call /\ report[w] \in Report /\ hist[w] \in History
BY DEF TypeOK

\* What a step that only asks the backend, or fails to, does to the history.
LEMMA FaultTyped ==
  ASSUME TypeOK, NEW w \in Workers,
         Success \/ WriteFails(w) \/ \E v \in Vertices, answer \in BOOLEAN : Probe(w, v, answer)
  PROVE  /\ faults' \in 0..MaxFaults
         /\ hist' \in [Workers -> History]
         /\ \A u \in Workers : hist'[u].kept = hist[u].kept
<1> USE ConstructionConstants DEF TypeOK
<1>1. hist[w] \in History
  OBVIOUS
<1>2. /\ [hist[w] EXCEPT !.failed = TRUE] \in History
      /\ [hist[w] EXCEPT !.blind = TRUE] \in History
      /\ [hist[w] EXCEPT !.failed = TRUE].kept = hist[w].kept
      /\ [hist[w] EXCEPT !.blind = TRUE].kept = hist[w].kept
  BY <1>1 DEF History
<1>3. \/ UNCHANGED <<faults, hist>>
      \/ \E mark \in {[hist[w] EXCEPT !.failed = TRUE], [hist[w] EXCEPT !.blind = TRUE]} :
           faults < MaxFaults /\ faults' = faults + 1 /\ hist' = [hist EXCEPT ![w] = mark]
  BY DEF Success, WriteFails, Probe, Failure
<1>4. /\ faults \in 0..MaxFaults /\ MaxFaults \in Nat
      /\ hist \in [Workers -> History]
  OBVIOUS
<1>5. CASE UNCHANGED <<faults, hist>>
  BY ONLY <1>4, <1>5
<1>6. ASSUME NEW mark \in History, mark.kept = hist[w].kept,
             faults < MaxFaults, faults' = faults + 1, hist' = [hist EXCEPT ![w] = mark]
      PROVE  /\ faults' \in 0..MaxFaults
             /\ hist' \in [Workers -> History]
             /\ \A u \in Workers : hist'[u].kept = hist[u].kept
  BY ONLY <1>4, <1>6
<1>7. QED
  BY ONLY <1>2, <1>3, <1>5, <1>6

\* The end of a document's turn.
LEMMA NextDocTyped ==
  ASSUME TypeOK, NEW w \in Workers, NEW rest \in Seq(Document), NextDoc(w, rest)
  PROVE  /\ pc' \in [Workers -> Steps]
         /\ call' \in [Workers -> Call]
         /\ \A u \in Workers : pc'[u] \in InHand => call'[u].docs # <<>>
<1> DEFINE c == [NoCall EXCEPT !.op = call[w].op, !.strategy = call[w].strategy,
                               !.dry = call[w].dry, !.docs = rest]
<1>1. call[w] \in Call
  BY DEF TypeOK
<1>2. c \in Call /\ c.docs = rest
  BY <1>1, Blanks DEF Call, NoCall
<1>3. call' = [call EXCEPT ![w] = c] /\ pc' = [pc EXCEPT ![w] = IF rest = <<>> THEN "emit" ELSE "probe"]
  BY DEF NextDoc, Goto
<1>4. QED
  BY <1>2, <1>3 DEF TypeOK, Steps, InHand

\* A step that leaves the present vertices present keeps what hist says is kept.
LEMMA KeptPresent ==
  ASSUME TypeOK,
         \A v \in Vertices : graph[v] # Absent => graph'[v] # Absent,
         \A u \in Workers : hist'[u].kept = hist[u].kept
  PROVE  \A u \in Workers : hist'[u].kept \subseteq Present'
BY DEF TypeOK, Present

\* What a step adds to the mutations of documents by creating vertices.
LEMMA CreatesTyped == ASSUME NEW vs PROVE Creates(vs) \subseteq Mutation
BY DEF Creates, Mutation, Papers

\* The values an upsert stores.
LEMMA UpsertedTyped ==
  ASSUME TypeOK, NEW v \in Vertices
  PROVE  Upserted(v) \in States /\ Upserted(v) # Absent
BY DEF TypeOK, Upserted, States, Absent, Stub, Named, Vertices

\* There are not more triples whose object was found than triples.
LEMMA ResolvedCounted ==
  ASSUME TypeOK, NEW w \in Workers, pc[w] \in InHand
  PROVE  Len(Triples(w)) - Cardinality(Resolved(w)) \in Nat
<1>1. Triples(w) \in Seq(Docs \cup Objects)
  BY InHandTyped
<1>2. Len(Triples(w)) \in Nat /\ DOMAIN Triples(w) = 1..Len(Triples(w))
  BY <1>1, LenProperties
<1>3. IsFiniteSet(1..Len(Triples(w))) /\ Cardinality(1..Len(Triples(w))) = Len(Triples(w))
  <2> DEFINE n == Len(Triples(w))
  <2>1. n \in Nat
    BY <1>2
  <2> HIDE DEF n
  <2>2. IsFiniteSet(1..n) /\ Cardinality(1..n) = IF 1 > n THEN 0 ELSE n - 1 + 1
    BY <2>1, FS_Interval
  <2>3. Cardinality(1..n) = n
    BY <2>1, <2>2
  <2>4. QED
    BY <2>2, <2>3 DEF n
<1>4. Resolved(w) \subseteq 1..Len(Triples(w))
  BY <1>2 DEF Resolved
<1>5. /\ IsFiniteSet(Resolved(w))
      /\ Cardinality(Resolved(w)) <= Cardinality(1..Len(Triples(w)))
  BY <1>3, <1>4, FS_Subset
<1>6. Cardinality(Resolved(w)) \in Nat
  BY <1>5, FS_CardinalityType
<1>7. QED
  BY <1>2, <1>3, <1>5, <1>6

\* Every variable keeps its type; the documents a report calls created are among
\* those it calls written (construction.py:358-369).
THEOREM TypeCorrect == Spec => []TypeOK
<1> USE ConstructionConstants
<1>1. Init => TypeOK
  BY Blanks DEF Init, TypeOK, Steps, InHand, NoHist, Blank
<1>2. TypeOK /\ [Next]_vars => TypeOK'
  <2> SUFFICES ASSUME TypeOK, [Next]_vars PROVE TypeOK'
    OBVIOUS
  <2>1. ASSUME NEW w \in Workers, NEW op \in {"ingest", "update", "delete"},
               NEW s \in Strategies, NEW dry \in BOOLEAN,
               NEW docs \in Seq(Document), docs # <<>>,
               NEW step \in {"probe", "update", "delete"},
               Begin(w, op, s, dry, docs, step)
        PROVE  TypeOK'
    <3> DEFINE c == [NoCall EXCEPT !.op = op, !.strategy = s, !.dry = dry, !.docs = docs]
    <3>1. c \in Call /\ c.docs = docs
      BY Blanks DEF Call, NoCall
    <3>2. /\ call' = [call EXCEPT ![w] = c]
          /\ pc' = [pc EXCEPT ![w] = step]
          /\ report' = [report EXCEPT ![w] = Blank]
          /\ events' = [events EXCEPT ![w] = {}]
          /\ calls' = calls + 1 /\ calls < MaxCalls
          /\ UNCHANGED <<graph, edges, faults>>
      BY <2>1 DEF Begin, Goto
    <3>12. calls' \in 0..MaxCalls
      BY <3>2 DEF TypeOK
    <3>3. PICK yes \in BOOLEAN : hist' = [u \in Workers |->
             IF u = w THEN [NoHist EXCEPT !.batch = docs, !.alone = yes,
                                          !.before = Present, !.kept = Present]
             ELSE [hist[u] EXCEPT !.alone = FALSE]]
      BY <2>1 DEF Begin
    <3>4. [NoHist EXCEPT !.batch = docs, !.alone = yes, !.before = Present, !.kept = Present]
            \in History
      BY Blanks DEF History, NoHist, Present
    <3>5. \A u \in Workers : /\ [hist[u] EXCEPT !.alone = FALSE] \in History
                             /\ [hist[u] EXCEPT !.alone = FALSE].kept = hist[u].kept
      <4>1. \A u \in Workers : hist[u] \in History
        BY RecordsTyped
      <4>2. QED
        BY ONLY <4>1 DEF History
    <3>6. /\ hist' \in [Workers -> History]
          /\ \A u \in Workers : hist'[u].kept \subseteq Present
      BY <3>3, <3>4, <3>5 DEF TypeOK, NoHist
    <3>7. /\ report' \in [Workers -> Report]
          /\ \A u \in Workers : report'[u].fresh \subseteq ToSet(report'[u].written)
      BY <3>2, Blanks DEF TypeOK, Blank
    <3>8. /\ pc' \in [Workers -> Steps]
          /\ call' \in [Workers -> Call]
          /\ \A u \in Workers : pc'[u] \in InHand => call'[u].docs # <<>>
      BY <2>1, <3>1, <3>2 DEF TypeOK, Steps, InHand
    <3>9. Present' = Present
      BY <3>2 DEF Present
    <3>10. events' \in [Workers -> SUBSET Mutation]
      BY <3>2 DEF TypeOK
    <3>11. QED
      BY <3>2, <3>6, <3>7, <3>8, <3>9, <3>10, <3>12 DEF TypeOK
  <2>2. ASSUME NEW w \in Workers, ProbeUpdate(w) PROVE TypeOK'
    <3>1. /\ pc[w] = "update"
          /\ \E answer \in BOOLEAN : Probe(w, Doc(w).id, answer)
          /\ pc' \in {[pc EXCEPT ![w] = "dropEdges"], [pc EXCEPT ![w] = "probe"]}
          /\ UNCHANGED <<graph, edges, calls, call, report, events>>
      BY <2>2 DEF ProbeUpdate, Goto
    <3>2. Doc(w).id \in Vertices
      BY <3>1, InHandTyped DEF InHand, Vertices
    <3>3. QED
      BY <3>1, <3>2, FaultTyped, ZenonT(60) DEF TypeOK, Steps, InHand, Present
  <2>3. ASSUME NEW w \in Workers, DropEdges(w) PROVE TypeOK'
    <3>1. Success \/ WriteFails(w)
      BY <2>3 DEF DropEdges
    <3>2. edges' \subseteq Docs \X (Docs \cup Objects)
      BY <2>3 DEF DropEdges, TypeOK
    <3>3. QED
      BY <2>3, <3>1, <3>2, FaultTyped DEF DropEdges, Goto, TypeOK, Steps, InHand, Present
  <2>4. ASSUME NEW w \in Workers, RejectDoc(w) PROVE TypeOK'
    <3>1. pc[w] = "probe" /\ NextDoc(w, Tail(call[w].docs)) /\ UNCHANGED <<graph, edges, calls, faults, report, events>>
      BY <2>4 DEF RejectDoc
    <3>2. Tail(call[w].docs) \in Seq(Document)
      BY <3>1, InHandTyped DEF InHand
    <3>3. /\ [hist[w] EXCEPT !.rejected = TRUE] \in History
          /\ [hist[w] EXCEPT !.rejected = TRUE].kept = hist[w].kept
      <4>1. hist[w] \in History
        BY RecordsTyped
      <4>2. QED
        BY ONLY <4>1 DEF History
    <3>4. hist' = [hist EXCEPT ![w] = [hist[w] EXCEPT !.rejected = TRUE]]
      BY <2>4 DEF RejectDoc
    <3>5. hist' \in [Workers -> History] /\ \A u \in Workers : hist'[u].kept = hist[u].kept
      BY <3>3, <3>4 DEF TypeOK
    <3>6. QED
      BY <3>1, <3>2, <3>5, NextDocTyped DEF TypeOK, Present
  <2>5. ASSUME NEW w \in Workers, ProbeObject(w) PROVE TypeOK'
    <3>1. pc[w] = "probe" /\ UNCHANGED <<graph, edges, calls, pc, report, events>>
      BY <2>5 DEF ProbeObject
    <3>2. PICK i \in DOMAIN Triples(w), answer \in BOOLEAN :
            /\ Probe(w, Triples(w)[i], answer)
            /\ call' = [call EXCEPT ![w] = [call[w] EXCEPT
                 !.asked = call[w].asked \cup {Triples(w)[i]},
                 !.found = call[w].found \cup IF answer THEN {Triples(w)[i]} ELSE {}]]
      BY <2>5 DEF ProbeObject
    <3> DEFINE v == Triples(w)[i]
               c == [call[w] EXCEPT !.asked = call[w].asked \cup {v},
                                    !.found = call[w].found \cup IF answer THEN {v} ELSE {}]
    <3>3. v \in Vertices
      <4>1. Triples(w) \in Seq(Vertices)
        BY <3>1, InHandTyped DEF InHand
      <4>2. QED
        BY <4>1
    <3>4. call[w] \in Call /\ call[w].asked \subseteq Vertices /\ call[w].found \subseteq Vertices
      BY DEF TypeOK, Call
    <3>5. c \in Call /\ c.docs = call[w].docs
      BY <3>3, <3>4 DEF Call
    <3>6. call' = [call EXCEPT ![w] = c] /\ Probe(w, v, answer)
      BY <3>2
    <3> HIDE DEF c, v
    <3>7. call' \in [Workers -> Call] /\ \A u \in Workers : call'[u].docs = call[u].docs
      BY <3>5, <3>6 DEF TypeOK
    <3>8. QED
      BY <3>1, <3>3, <3>6, <3>7, FaultTyped DEF TypeOK, Present
  <2>6. ASSUME NEW w \in Workers, ProbePaper(w) \/ ProbeDelete(w) PROVE TypeOK'
    <3>1. /\ pc[w] \in {"probe", "delete"}
          /\ \E step \in {"paper", "foresee", "remove", "emit"} : pc' = [pc EXCEPT ![w] = step]
          /\ UNCHANGED <<graph, edges, calls, events>>
      BY <2>6 DEF ProbePaper, ProbeDelete, Goto
    <3>3. Doc(w).id \in Papers /\ Doc(w).id \in Vertices /\ Id(w) \in Vertices
      BY <3>1, InHandTyped DEF InHand
    <3>2. PICK answer \in BOOLEAN, v \in Vertices :
            /\ Probe(w, v, answer)
            /\ call' = [call EXCEPT ![w] = [call[w] EXCEPT !.exists = answer]]
      BY <2>6, <3>3 DEF ProbePaper, ProbeDelete
    <3>31. report' = report
           \/ report' = [report EXCEPT ![w] = [report[w] EXCEPT !.deleted = {Doc(w).id}]]
      BY <2>6 DEF ProbePaper, ProbeDelete
    <3>32. /\ report' \in [Workers -> Report]
           /\ \A u \in Workers : /\ report'[u].fresh = report[u].fresh
                                 /\ report'[u].written = report[u].written
      <4> DEFINE r == [report[w] EXCEPT !.deleted = {Doc(w).id}]
      <4>1. report[w] \in Report /\ {Doc(w).id} \subseteq Papers
        BY <3>3 DEF TypeOK
      <4>2. r \in Report /\ r.fresh = report[w].fresh /\ r.written = report[w].written
        BY <4>1 DEF Report
      <4>3. report' = report \/ report' = [report EXCEPT ![w] = r]
        BY <3>31
      <4> HIDE DEF r
      <4>4. report \in [Workers -> Report]
        BY DEF TypeOK
      <4>5. QED
        BY ONLY <4>2, <4>3, <4>4
    <3> DEFINE c == [call[w] EXCEPT !.exists = answer]
    <3>4. c \in Call /\ c.docs = call[w].docs
      <4>1. call[w] \in Call
        BY RecordsTyped
      <4>2. QED
        BY ONLY <4>1 DEF Call
    <3>5. call' = [call EXCEPT ![w] = c]
      BY <3>2
    <3> HIDE DEF c
    <3>6. call' \in [Workers -> Call] /\ \A u \in Workers : call'[u].docs = call[u].docs
      BY <3>4, <3>5 DEF TypeOK
    <3>7. /\ faults' \in 0..MaxFaults
          /\ hist' \in [Workers -> History]
          /\ \A u \in Workers : hist'[u].kept = hist[u].kept
      BY <3>2, FaultTyped
    <3>8. /\ pc' \in [Workers -> Steps]
          /\ \A u \in Workers : pc'[u] \in InHand => pc[u] \in InHand
      BY <3>1 DEF TypeOK, Steps, InHand
    <3>9. QED
      BY <3>1, <3>32, <3>6, <3>7, <3>8 DEF TypeOK, Present
  <2>61. ASSUME NEW w \in Workers, Foresee(w) PROVE TypeOK'
    <3>1. /\ pc[w] = "foresee"
          /\ NextDoc(w, Tail(call[w].docs))
          /\ UNCHANGED <<graph, edges, calls, faults, events, hist>>
      BY <2>61 DEF Foresee
    <3>2. Tail(call[w].docs) \in Seq(Document)
      BY <3>1, InHandTyped DEF InHand
    <3> DEFINE n == report[w].created + (Len(Triples(w)) - Cardinality(Resolved(w)))
                      + IF call[w].exists THEN 0 ELSE 1
               r == [report[w] EXCEPT !.created = n]
    <3>3. report[w] \in Report
      BY DEF TypeOK
    <3>4. n \in Nat
      <4>1. Len(Triples(w)) - Cardinality(Resolved(w)) \in Nat
        BY <3>1, ResolvedCounted DEF InHand
      <4>2. report[w].created \in Nat /\ (IF call[w].exists THEN 0 ELSE 1) \in Nat
        BY <3>3 DEF Report
      <4>3. QED
        BY <4>1, <4>2
    <3>5. report' = [report EXCEPT ![w] = r]
      BY <2>61 DEF Foresee, TypeOK
    <3> HIDE DEF n
    <3>6. r \in Report /\ r.fresh = report[w].fresh /\ r.written = report[w].written
      BY <3>3, <3>4 DEF Report
    <3> HIDE DEF r
    <3>7. /\ report' \in [Workers -> Report]
          /\ \A u \in Workers : /\ report'[u].fresh = report[u].fresh
                                /\ report'[u].written = report[u].written
      BY <3>5, <3>6 DEF TypeOK
    <3>8. QED
      BY <3>1, <3>2, <3>7, NextDocTyped DEF TypeOK, Present
  <2>7. ASSUME NEW w \in Workers, SkipPaper(w) PROVE TypeOK'
    BY <2>7 DEF SkipPaper, Goto, TypeOK, Steps, InHand, Present
  <2>8. ASSUME NEW w \in Workers, Abort(w) PROVE TypeOK'
    <3>1. /\ call' \in [Workers -> Call]
          /\ report' \in [Workers -> Report]
          /\ hist' \in [Workers -> History]
      BY <2>8, Blanks DEF Abort, TypeOK
    <3>2. \A u \in Workers : /\ pc'[u] \in InHand => call'[u].docs # <<>>
                             /\ report'[u].fresh \subseteq ToSet(report'[u].written)
                             /\ hist'[u].kept \subseteq Present
      BY <2>8 DEF Abort, Goto, TypeOK, InHand, Blank, NoHist
    <3>3. QED
      BY <2>8, <3>1, <3>2 DEF Abort, Goto, TypeOK, Steps, InHand, Present
  <2>9. ASSUME NEW w \in Workers, UpsertPaper(w) PROVE TypeOK'
    <3> DEFINE d == Doc(w)
    <3>1. /\ pc[w] = "paper"
          /\ UNCHANGED <<edges, calls, call, events>>
      BY <2>9 DEF UpsertPaper
    <3>2. d.id \in Papers /\ d.id \in Vertices /\ d.content \in Contents
      BY <3>1, InHandTyped DEF InHand
    <3>3. CASE /\ graph' = [graph EXCEPT ![d.id] = d.content]
               /\ report' = [report EXCEPT ![w].created = @ + IF call[w].exists THEN 0 ELSE 1]
               /\ hist' = [hist EXCEPT ![w].did = @ \cup
                    {[kind |-> IF graph[d.id] = Absent THEN "created" ELSE "updated", id |-> d.id]}]
               /\ pc' = [pc EXCEPT ![w] = "links"]
               /\ UNCHANGED faults
      <4> DEFINE n == IF call[w].exists THEN 0 ELSE 1
                 r == [report[w] EXCEPT !.created = report[w].created + n]
                 m == [kind |-> IF graph[d.id] = Absent THEN "created" ELSE "updated", id |-> d.id]
                 h == [hist[w] EXCEPT !.did = hist[w].did \cup {m}]
      <4>1. n \in Nat /\ m \in Mutation
        BY <3>2 DEF Mutation
      <4>10. report[w] \in Report
        BY DEF TypeOK
      <4>11. report[w].created + n \in Nat
        BY <4>1, <4>10 DEF Report
      <4>2. /\ r \in Report /\ r.fresh = report[w].fresh /\ r.written = report[w].written
        BY ONLY <4>10, <4>11 DEF Report
      <4>3. h \in History /\ h.kept = hist[w].kept
        <5>1. hist[w] \in History
          BY RecordsTyped
        <5>2. hist[w].did \cup {m} \subseteq Mutation
          BY <4>1, <5>1 DEF History
        <5> HIDE DEF m
        <5>3. QED
          BY ONLY <5>1, <5>2 DEF History
      <4>4. report' = [report EXCEPT ![w] = r] /\ hist' = [hist EXCEPT ![w] = h]
        BY <3>3
      <4> HIDE DEF r, h, m
      <4>5. /\ report' \in [Workers -> Report]
            /\ \A u \in Workers : report'[u].fresh = report[u].fresh /\ report'[u].written = report[u].written
            /\ hist' \in [Workers -> History]
            /\ \A u \in Workers : hist'[u].kept = hist[u].kept
        BY <4>2, <4>3, <4>4 DEF TypeOK
      <4>6. d.content \in States /\ d.content # Absent /\ d.id \in Vertices
        BY <3>2, ConstructionConstants DEF States
      <4>7. /\ graph' \in [Vertices -> States]
            /\ \A v \in Vertices : graph[v] # Absent => graph'[v] # Absent
        BY <3>3, <4>6 DEF TypeOK
      <4>8. \A u \in Workers : hist'[u].kept \subseteq Present'
        BY <4>5, <4>7, KeptPresent
      <4>9. QED
        BY <3>1, <3>3, <4>5, <4>7, <4>8 DEF TypeOK, Steps, InHand
    <3>4. CASE WriteFails(w) /\ pc' = [pc EXCEPT ![w] = "account"] /\ UNCHANGED <<graph, report>>
      BY <3>1, <3>4, FaultTyped DEF TypeOK, Steps, InHand, Present
    <3>5. QED
      BY <2>9, <3>3, <3>4 DEF UpsertPaper, Goto
  <2>10. ASSUME NEW w \in Workers, UpsertObject(w) PROVE TypeOK'
    <3> DEFINE v == Triples(w)[call[w].k]
    <3>1. /\ pc[w] = "links" /\ call[w].k <= Len(Triples(w))
          /\ UNCHANGED <<edges, calls, pc, events>>
      BY <2>10 DEF UpsertObject
    <3>2. v \in Vertices /\ call[w].k \in Nat \ {0}
      BY <3>1, TripleTyped
    <3>3. CASE /\ graph' = [graph EXCEPT ![v] = Upserted(v)]
               /\ report' = [report EXCEPT ![w].created = @ + IF v \in call[w].found THEN 0 ELSE 1]
               /\ call' = [call EXCEPT ![w].done = @ \cup {v}]
               /\ hist' = [hist EXCEPT ![w].did = @ \cup Creates({v})]
               /\ UNCHANGED faults
      <4> DEFINE n == IF v \in call[w].found THEN 0 ELSE 1
                 r == [report[w] EXCEPT !.created = report[w].created + n]
                 h == [hist[w] EXCEPT !.did = hist[w].did \cup Creates({v})]
                 c == [call[w] EXCEPT !.done = call[w].done \cup {v}]
      <4>1. n \in Nat /\ report[w] \in Report
        BY DEF TypeOK
      <4>2. report[w].created + n \in Nat
        BY <4>1 DEF Report
      <4>3. r \in Report /\ r.fresh = report[w].fresh /\ r.written = report[w].written
        BY ONLY <4>1, <4>2 DEF Report
      <4>4. h \in History /\ h.kept = hist[w].kept
        <5> DEFINE new == hist[w].did \cup Creates({v})
        <5>1. hist[w] \in History
          BY RecordsTyped
        <5>2. new \subseteq Mutation
          BY <5>1, CreatesTyped DEF History
        <5> HIDE DEF new
        <5>3. [hist[w] EXCEPT !.did = new] \in History
              /\ [hist[w] EXCEPT !.did = new].kept = hist[w].kept
          BY ONLY <5>1, <5>2 DEF History
        <5>4. QED
          BY <5>3 DEF new
      <4>5. c \in Call /\ c.docs = call[w].docs
        <5> DEFINE done == call[w].done \cup {v}
        <5>1. call[w] \in Call
          BY RecordsTyped
        <5>2. done \subseteq Vertices
          BY <3>2, <5>1 DEF Call
        <5> HIDE DEF done
        <5>3. [call[w] EXCEPT !.done = done] \in Call
              /\ [call[w] EXCEPT !.done = done].docs = call[w].docs
          BY ONLY <5>1, <5>2 DEF Call
        <5>4. QED
          BY <5>3 DEF done
      <4>6. report' = [report EXCEPT ![w] = r] /\ hist' = [hist EXCEPT ![w] = h]
            /\ call' = [call EXCEPT ![w] = c]
        BY <3>3
      <4> HIDE DEF r, h, c, v, n
      <4>7. /\ report' \in [Workers -> Report]
            /\ \A u \in Workers : report'[u].fresh = report[u].fresh /\ report'[u].written = report[u].written
            /\ hist' \in [Workers -> History]
            /\ \A u \in Workers : hist'[u].kept = hist[u].kept
            /\ call' \in [Workers -> Call]
            /\ \A u \in Workers : call'[u].docs = call[u].docs
        BY <4>3, <4>4, <4>5, <4>6 DEF TypeOK
      <4>8. Upserted(v) \in States /\ Upserted(v) # Absent
        BY <3>2, UpsertedTyped
      <4>9. /\ graph' \in [Vertices -> States]
            /\ \A x \in Vertices : graph[x] # Absent => graph'[x] # Absent
        BY <3>2, <3>3, <4>8 DEF TypeOK
      <4>10. \A u \in Workers : hist'[u].kept \subseteq Present'
        BY <4>7, <4>9, KeptPresent
      <4>11. QED
        BY <3>1, <3>3, <4>7, <4>9, <4>10 DEF TypeOK
    <3>4. CASE /\ call' = [call EXCEPT ![w].done = @ \cup {v}, ![w].k = @ + 1]
               /\ WriteFails(w)
               /\ UNCHANGED <<graph, report>>
      <4> DEFINE c == [call[w] EXCEPT !.done = call[w].done \cup {v}, !.k = call[w].k + 1]
      <4>1. call[w] \in Call /\ call[w].k + 1 \in Nat \ {0}
        BY <3>2 DEF TypeOK
      <4>2. c \in Call /\ c.docs = call[w].docs
        BY <3>2, <4>1 DEF Call
      <4>3. call' = [call EXCEPT ![w] = c]
        BY <3>4, <4>1
      <4> HIDE DEF c, v
      <4>4. call' \in [Workers -> Call] /\ \A u \in Workers : call'[u].docs = call[u].docs
        BY <4>2, <4>3 DEF TypeOK
      <4>5. QED
        BY <3>1, <3>4, <4>4, FaultTyped DEF TypeOK, Present
    <3>5. QED
      BY <2>10, <3>3, <3>4 DEF UpsertObject
  <2>11. ASSUME NEW w \in Workers, UpsertEdge(w) PROVE TypeOK'
    <3> DEFINE d == Id(w)
               v == Triples(w)[call[w].k]
               c == [call[w] EXCEPT !.k = call[w].k + 1]
    <3>1. /\ pc[w] = "links" /\ call[w].k <= Len(Triples(w))
          /\ call' = [call EXCEPT ![w] = c]
          /\ UNCHANGED <<calls, pc, events>>
      BY <2>11 DEF UpsertEdge
    <3>2. v \in Docs \cup Objects /\ call[w].k + 1 \in Nat \ {0} /\ call[w] \in Call
      BY <3>1, TripleTyped DEF TypeOK
    <3>3. d \in Docs
      BY <3>1, InHandTyped DEF InHand
    <3>4. c \in Call /\ c.docs = call[w].docs
      BY <3>2 DEF Call
    <3> HIDE DEF c
    <3>5. call' \in [Workers -> Call] /\ \A u \in Workers : call'[u].docs = call[u].docs
      BY <3>1, <3>4 DEF TypeOK
    <3>6. CASE /\ edges' = edges \cup {<<d, v>>}
               /\ graph' = [x \in Vertices |->
                    IF x \in {d, v} /\ graph[x] = Absent THEN Stub ELSE graph[x]]
               /\ report' = [report EXCEPT ![w].edges = @ + 1]
               /\ hist' = [hist EXCEPT ![w].did = @ \cup Creates({d, v})]
               /\ UNCHANGED faults
      <4> DEFINE r == [report[w] EXCEPT !.edges = report[w].edges + 1]
                 h == [hist[w] EXCEPT !.did = hist[w].did \cup Creates({d, v})]
      <4>1. report[w] \in Report /\ report[w].edges + 1 \in Nat
        BY DEF TypeOK, Report
      <4>2. r \in Report /\ r.fresh = report[w].fresh /\ r.written = report[w].written
        BY ONLY <4>1 DEF Report
      <4>3. h \in History /\ h.kept = hist[w].kept
        <5> DEFINE new == hist[w].did \cup Creates({d, v})
        <5>1. hist[w] \in History
          BY RecordsTyped
        <5>2. new \subseteq Mutation
          BY <5>1, CreatesTyped DEF History
        <5> HIDE DEF new
        <5>3. [hist[w] EXCEPT !.did = new] \in History
              /\ [hist[w] EXCEPT !.did = new].kept = hist[w].kept
          BY ONLY <5>1, <5>2 DEF History
        <5>4. QED
          BY <5>3 DEF new
      <4>4. report' = [report EXCEPT ![w] = r] /\ hist' = [hist EXCEPT ![w] = h]
        BY <3>6
      <4> HIDE DEF r, h, v, d
      <4>5. /\ report' \in [Workers -> Report]
            /\ \A u \in Workers : report'[u].fresh = report[u].fresh /\ report'[u].written = report[u].written
            /\ hist' \in [Workers -> History]
            /\ \A u \in Workers : hist'[u].kept = hist[u].kept
        BY <4>2, <4>3, <4>4 DEF TypeOK
      <4>6. /\ graph' \in [Vertices -> States]
            /\ \A x \in Vertices : graph[x] # Absent => graph'[x] # Absent
        BY <3>6 DEF TypeOK, States, Stub, Absent
      <4>7. edges' \subseteq Docs \X (Docs \cup Objects)
        BY <3>2, <3>3, <3>6 DEF TypeOK
      <4>8. \A u \in Workers : hist'[u].kept \subseteq Present'
        BY <4>5, <4>6, KeptPresent
      <4>9. QED
        BY <3>1, <3>5, <3>6, <4>5, <4>6, <4>7, <4>8 DEF TypeOK
    <3>7. CASE WriteFails(w) /\ UNCHANGED <<edges, graph, report>>
      BY <3>1, <3>5, <3>7, FaultTyped DEF TypeOK, Present
    <3>8. QED
      BY <2>11, <3>6, <3>7 DEF UpsertEdge
  <2>12. ASSUME NEW w \in Workers, Account(w) PROVE TypeOK'
    <3> DEFINE d == Id(w)
    <3>1. /\ pc[w] \in {"account", "links"}
          /\ NextDoc(w, Tail(call[w].docs))
          /\ UNCHANGED <<graph, edges, calls, faults, events, hist>>
      BY <2>12 DEF Account
    <3>2. d \in Docs /\ Tail(call[w].docs) \in Seq(Document)
      BY <3>1, InHandTyped DEF InHand
    <3>3. report' \in [Workers -> Report]
          /\ \A u \in Workers : report'[u].fresh \subseteq ToSet(report'[u].written)
      <4> DEFINE r == [report[w] EXCEPT !.written = Append(report[w].written, d),
                         !.fresh = report[w].fresh \cup IF call[w].exists THEN {} ELSE {d}]
      <4>1. report' = report \/ report' = [report EXCEPT ![w] = r]
        BY <2>12 DEF Account, TypeOK
      <4>2. report[w] \in Report /\ report[w].written \in Seq(Docs) /\ report[w].fresh \subseteq Docs
            /\ report[w].fresh \subseteq ToSet(report[w].written)
        BY DEF TypeOK, Report
      <4>3. Append(report[w].written, d) \in Seq(Docs)
        BY <3>2, <4>2, AppendProperties
      <4>4. ToSet(Append(report[w].written, d)) = ToSet(report[w].written) \cup {d}
        BY <3>2, <4>2, MembersOfAppend
      <4>5. r \in Report
        BY <3>2, <4>2, <4>3 DEF Report
      <4>6. r.fresh \subseteq ToSet(r.written)
        BY <4>2, <4>4 DEF Report
      <4> HIDE DEF r
      <4>7. QED
        BY <4>1, <4>5, <4>6 DEF TypeOK
    <3>4. QED
      BY <3>1, <3>2, <3>3, NextDocTyped DEF TypeOK, Present
  <2>13. ASSUME NEW w \in Workers, RemoveDoc(w) PROVE TypeOK'
    <3> DEFINE d == Doc(w).id
    <3>1. /\ pc[w] = "remove"
          /\ pc' = [pc EXCEPT ![w] = "emit"]
          /\ UNCHANGED <<calls, call, events>>
      BY <2>13 DEF RemoveDoc, Goto
    <3>2. d \in Papers /\ d \in Vertices
      BY <3>1, InHandTyped DEF InHand
    <3>3. CASE /\ graph' = [graph EXCEPT ![d] = Absent]
               /\ edges' = {e \in edges : d \notin {e[1], e[2]}}
               /\ report' = [report EXCEPT ![w].deleted =
                    IF graph[d] # Absent \/ call[w].exists THEN {d} ELSE {}]
               /\ hist' = [u \in Workers |-> [hist[u] EXCEPT !.kept = @ \ {d},
                    !.did = IF u = w /\ graph[d] # Absent
                              THEN @ \cup {[kind |-> "deleted", id |-> d]} ELSE @]]
               /\ UNCHANGED faults
      <4> DEFINE x == IF graph[d] # Absent \/ call[w].exists THEN {d} ELSE {}
                 r == [report[w] EXCEPT !.deleted = x]
      <4>1. report[w] \in Report /\ x \subseteq Papers
        BY <3>2 DEF TypeOK
      <4>2. r \in Report /\ r.fresh = report[w].fresh /\ r.written = report[w].written
        BY <4>1 DEF Report
      <4>3. report' = [report EXCEPT ![w] = r]
        BY <3>3
      <4> HIDE DEF r
      <4>4. /\ report' \in [Workers -> Report]
            /\ \A u \in Workers : report'[u].fresh = report[u].fresh /\ report'[u].written = report[u].written
        BY <4>2, <4>3 DEF TypeOK
      <4>5. ASSUME NEW u \in Workers
            PROVE  hist'[u] \in History /\ hist'[u].kept = hist[u].kept \ {d}
        <5>1. [kind |-> "deleted", id |-> d] \in Mutation
          BY <3>2 DEF Mutation
        <5>2. hist[u] \in History
          BY DEF TypeOK
        <5>3. PICK new \in SUBSET Mutation :
                hist'[u] = [hist[u] EXCEPT !.kept = hist[u].kept \ {d}, !.did = new]
          BY <3>3, <5>1, <5>2 DEF History
        <5>4. QED
          BY <5>2, <5>3 DEF History
      <4>6. hist' \in [Workers -> History]
        <5>1. DOMAIN hist' = Workers /\ hist' = [u \in Workers |-> hist'[u]]
          BY <3>3
        <5>2. QED
          BY ONLY <4>5, <5>1
      <4>7. graph' \in [Vertices -> States]
        BY <3>2, <3>3 DEF TypeOK, States
      <4>8. \A u \in Workers : hist'[u].kept \subseteq Present'
        <5>1. Present' = Present \ {d}
          BY <3>2, <3>3 DEF TypeOK, Present
        <5>2. \A u \in Workers : hist[u].kept \subseteq Present
          BY DEF TypeOK
        <5>3. QED
          BY ONLY <4>5, <5>1, <5>2
      <4>9. edges' \subseteq Docs \X (Docs \cup Objects)
        BY <3>3 DEF TypeOK
      <4>10. QED
        BY <3>1, <3>3, <4>4, <4>6, <4>7, <4>8, <4>9 DEF TypeOK, Steps, InHand
    <3>4. CASE WriteFails(w) /\ UNCHANGED <<graph, edges, report>>
      BY <3>1, <3>4, FaultTyped DEF TypeOK, Steps, InHand, Present
    <3>5. QED
      BY <2>13, <3>3, <3>4 DEF RemoveDoc
  <2>14. ASSUME NEW w \in Workers, Emit(w) PROVE TypeOK'
    <3> DEFINE c == [NoCall EXCEPT !.op = call[w].op, !.strategy = call[w].strategy,
                                   !.dry = call[w].dry]
    <3>1. /\ call' = [call EXCEPT ![w] = c]
          /\ events' = [events EXCEPT ![w] = IF call[w].dry THEN {} ELSE Published(w)]
          /\ pc' = [pc EXCEPT ![w] = "done"]
          /\ UNCHANGED <<graph, edges, calls, faults, report, hist>>
      BY <2>14 DEF Emit, Goto
    <3>2. call[w] \in Call
      BY DEF TypeOK
    <3>3. c \in Call
      BY <3>2, Blanks DEF Call, NoCall
    <3>4. report[w].written \in Seq(Docs) /\ report[w].deleted \subseteq Papers
      BY DEF TypeOK, Report
    <3>5. ToSet(report[w].written) \subseteq Papers
      BY <3>4 DEF ToSet, Papers
    <3>6. Published(w) \subseteq Mutation
      BY <3>4, <3>5 DEF Mutation, Published
    <3> HIDE DEF c
    <3>7. QED
      BY <3>1, <3>3, <3>6 DEF TypeOK, Steps, InHand, Present
  <2>20. CASE UNCHANGED vars
    BY <2>20 DEF vars, Present, TypeOK
  <2>21. QED
    <3>1. ASSUME NEW b \in Batches PROVE b \in Seq(Document) /\ b # <<>> /\ <<Head(b)>> \in Seq(Document)
      <4>1. Head(b) \in Document
        BY HeadTailProperties
      <4>2. QED
        BY <4>1
    <3>2. ASSUME NEW w \in Workers, NEW s \in Strategies, NEW dry \in BOOLEAN, NEW b \in Batches,
                 \/ BeginIngest(w, s, dry, b) \/ BeginUpdate(w, s, dry, Head(b))
                 \/ BeginDelete(w, dry, Head(b))
          PROVE  TypeOK'
      <4>1. "exact_id" \in Strategies
        BY DEF Strategies
      <4>2. <<Head(b)>> # <<>>
        OBVIOUS
      <4>3. QED
        BY <2>1, <3>1, <3>2, <4>1, <4>2 DEF BeginIngest, BeginUpdate, BeginDelete
    <3>3. QED
      BY <2>2, <2>3, <2>4, <2>5, <2>6, <2>61, <2>7, <2>8, <2>9, <2>10, <2>11, <2>12, <2>13,
         <2>14, <2>20, <3>2 DEF Next, Strategies
<1>3. QED
  BY <1>1, <1>2, PTL DEF Spec

-----------------------------------------------------------------------------

\* Both ends of every edge exist.
EndsPresent == \A e \in edges : e[1] \in Present /\ e[2] \in Present

\* It stays so, whatever requests overlap and fail: the backend brings the ends of
\* an edge with it and takes its edges along with a vertex.
LEMMA EdgesHold == Spec => []EndsPresent
<1> USE ConstructionConstants
<1>1. Init => EndsPresent
  BY DEF Init, EndsPresent, Present, Vertices, Papers
<1>2. TypeOK /\ EndsPresent /\ [Next]_vars => EndsPresent'
  <2> SUFFICES ASSUME TypeOK, EndsPresent, [Next]_vars PROVE EndsPresent'
    OBVIOUS
  <2>1. ASSUME edges' \subseteq edges, \A v \in Vertices : graph[v] # Absent => graph'[v] # Absent
        PROVE  EndsPresent'
    BY <2>1 DEF EndsPresent, Present
  <2>2. ASSUME NEW w \in Workers, UpsertPaper(w) PROVE EndsPresent'
    <3>1. Doc(w).id \in Vertices /\ Doc(w).content # Absent
      BY <2>2, InHandTyped DEF UpsertPaper, InHand
    <3>2. edges' = edges /\ (graph' = graph \/ graph' = [graph EXCEPT ![Doc(w).id] = Doc(w).content])
      BY <2>2 DEF UpsertPaper
    <3>3. QED
      BY <2>1, <3>1, <3>2 DEF TypeOK
  <2>3. ASSUME NEW w \in Workers, UpsertObject(w) PROVE EndsPresent'
    <3> DEFINE v == Triples(w)[call[w].k]
    <3>1. v \in Vertices /\ Upserted(v) # Absent
      BY <2>3, TripleTyped, UpsertedTyped DEF UpsertObject
    <3>2. edges' = edges /\ (graph' = graph \/ graph' = [graph EXCEPT ![v] = Upserted(v)])
      BY <2>3 DEF UpsertObject
    <3> HIDE DEF v
    <3>3. QED
      BY <2>1, <3>1, <3>2 DEF TypeOK
  <2>4. ASSUME NEW w \in Workers, UpsertEdge(w) PROVE EndsPresent'
    <3> DEFINE d == Id(w)
               v == Triples(w)[call[w].k]
    <3>1. d \in Vertices /\ v \in Vertices
      BY <2>4, InHandTyped, TripleTyped DEF UpsertEdge, InHand
    <3>2. \/ edges' = edges /\ graph' = graph
          \/ /\ edges' = edges \cup {<<d, v>>}
             /\ graph' = [x \in Vertices |->
                  IF x \in {d, v} /\ graph[x] = Absent THEN Stub ELSE graph[x]]
      BY <2>4 DEF UpsertEdge
    <3> HIDE DEF d, v
    <3>3. QED
      BY <2>1, <3>1, <3>2 DEF EndsPresent, Present, Stub, Absent
  <2>5. ASSUME NEW w \in Workers, RemoveDoc(w) PROVE EndsPresent'
    <3> DEFINE d == Doc(w).id
    <3>1. \/ edges' = edges /\ graph' = graph
          \/ /\ edges' = {e \in edges : d \notin {e[1], e[2]}}
             /\ graph' = [graph EXCEPT ![d] = Absent]
      BY <2>5 DEF RemoveDoc
    <3> HIDE DEF d
    <3>2. QED
      BY <2>1, <3>1 DEF EndsPresent, Present, TypeOK
  <2>6. ASSUME NEW w \in Workers, DropEdges(w) PROVE EndsPresent'
    BY <2>1, <2>6 DEF DropEdges
  <2>7. CASE UNCHANGED <<graph, edges>>
    BY <2>1, <2>7
  <2>8. QED
    BY <2>2, <2>3, <2>4, <2>5, <2>6, <2>7
       DEF Next, vars, BeginIngest, BeginUpdate, BeginDelete, Begin, ProbeUpdate, RejectDoc,
           ProbeObject, ProbePaper, Foresee, SkipPaper, Abort, Account, ProbeDelete, Emit
<1>3. QED
  BY <1>1, <1>2, TypeCorrect, PTL DEF Spec

-----------------------------------------------------------------------------

\* What makes InsertOnly hold: a worker none of whose probes failed has found
\* each of the kept vertices it asked for, and before it writes it has asked
\* for all that it is about to write.
Known(w) ==
  ~hist[w].blind =>
    /\ hist[w].kept \cap call[w].asked \subseteq call[w].found
    /\ pc[w] \in {"paper", "links"} => ToSet(Triples(w)) \subseteq call[w].asked
    /\ pc[w] \in {"paper", "links"} /\ Id(w) \in hist[w].kept => call[w].exists

ProbeInv == \A w \in Workers : Known(w)

\* A step that leaves what a worker knows alone.
LEMMA KnownKept ==
  ASSUME NEW w \in Workers, Known(w),
         call'[w].asked = call[w].asked, call'[w].found = call[w].found,
         call'[w].exists = call[w].exists, call'[w].docs = call[w].docs,
         hist'[w].kept \subseteq hist[w].kept, hist[w].blind => hist'[w].blind,
         pc'[w] \in {"paper", "links"} => pc[w] \in {"paper", "links"}
  PROVE  Known(w)'
BY DEF Known, Triples, Id, Doc

\* A step after which a worker has asked for nothing yet.
LEMMA KnownFresh ==
  ASSUME NEW w \in Workers, call'[w].asked = {}, pc'[w] \notin {"paper", "links"}
  PROVE  Known(w)'
BY DEF Known

\* The steps of one worker.
Step(w) ==
  \/ \E op \in {"ingest", "update", "delete"}, s \in Strategies, dry \in BOOLEAN,
       docs \in Seq(Document), step \in {"probe", "update", "delete"} :
       Begin(w, op, s, dry, docs, step)
  \/ ProbeUpdate(w) \/ DropEdges(w)
  \/ RejectDoc(w) \/ ProbeObject(w) \/ ProbePaper(w) \/ Foresee(w)
  \/ UpsertPaper(w) \/ SkipPaper(w) \/ Abort(w) \/ UpsertObject(w) \/ UpsertEdge(w) \/ Account(w)
  \/ ProbeDelete(w) \/ RemoveDoc(w) \/ Emit(w)

\* Every step of the system is a step of one worker.
LEMMA NextIsStep == ASSUME Next PROVE \E w \in Workers : Step(w)
<1>1. ASSUME NEW b \in Batches PROVE b \in Seq(Document) /\ <<Head(b)>> \in Seq(Document)
  <2>1. b \in Seq(Document) /\ b # <<>>
    BY ConstructionConstants
  <2>2. Head(b) \in Document
    BY <2>1, HeadTailProperties
  <2>3. QED
    BY <2>1, <2>2
<1>2. ASSUME NEW w \in Workers, NEW s \in Strategies, NEW dry \in BOOLEAN, NEW b \in Batches,
             \/ BeginIngest(w, s, dry, b) \/ BeginUpdate(w, s, dry, Head(b))
             \/ BeginDelete(w, dry, Head(b))
      PROVE  Step(w)
  <2>1. "exact_id" \in Strategies
    BY DEF Strategies
  <2>2. QED
    BY <1>1, <1>2, <2>1 DEF Step, BeginIngest, BeginUpdate, BeginDelete
<1>3. QED
  BY <1>2 DEF Next, Step, Strategies

\* A worker's step leaves the others' local state alone; a deletion may take a
\* vertex from what is kept for them.
LEMMA OthersUntouched ==
  ASSUME TypeOK, NEW w \in Workers, Step(w), NEW u \in Workers, u # w
  PROVE  /\ call'[u] = call[u] /\ pc'[u] = pc[u]
         /\ hist'[u].kept \subseteq hist[u].kept /\ hist'[u].blind = hist[u].blind
<1> USE DEF TypeOK
<1>1. hist[u] \in History
  OBVIOUS
<1>2. ASSUME \E op, s, dry, docs, step : Begin(w, op, s, dry, docs, step)
      PROVE  /\ call'[u] = call[u] /\ pc'[u] = pc[u]
             /\ hist'[u] = [hist[u] EXCEPT !.alone = FALSE]
  BY <1>2 DEF Begin, Goto
<1>3. ASSUME RemoveDoc(w)
      PROVE  /\ call'[u] = call[u] /\ pc'[u] = pc[u]
             /\ hist'[u].kept \subseteq hist[u].kept /\ hist'[u].blind = hist[u].blind
  <2>1. CASE WriteFails(w)
    BY <1>3, <2>1 DEF RemoveDoc, Goto, WriteFails, Failure
  <2>2. CASE ~WriteFails(w)
    <3>1. /\ call'[u] = call[u] /\ pc'[u] = pc[u]
          /\ hist'[u] = [hist[u] EXCEPT !.kept = hist[u].kept \ {Doc(w).id}, !.did = hist[u].did]
      BY <1>3, <2>2 DEF RemoveDoc, Goto
    <3>2. QED
      BY <1>1, <3>1 DEF History
  <2>3. QED
    BY <2>1, <2>2
<1>4. ASSUME \/ ProbeUpdate(w) \/ DropEdges(w) \/ RejectDoc(w) \/ ProbeObject(w) \/ ProbePaper(w)
             \/ Foresee(w) \/ UpsertPaper(w) \/ SkipPaper(w) \/ Abort(w) \/ UpsertObject(w)
             \/ UpsertEdge(w) \/ Account(w) \/ ProbeDelete(w) \/ Emit(w)
      PROVE  call'[u] = call[u] /\ pc'[u] = pc[u] /\ hist'[u] = hist[u]
  BY <1>4 DEF ProbeUpdate, DropEdges, RejectDoc, ProbeObject, ProbePaper, Foresee, UpsertPaper,
              SkipPaper, Abort, UpsertObject, UpsertEdge, Account, ProbeDelete, Emit, NextDoc, Goto,
              Probe, Success, WriteFails, Failure
<1>5. QED
  BY <1>1, <1>2, <1>3, <1>4 DEF Step, History

\* ProbeInv is inductive.
LEMMA ProbesKnown == TypeOK /\ ProbeInv /\ [Next]_vars => ProbeInv'
<1> SUFFICES ASSUME TypeOK, ProbeInv, [Next]_vars PROVE ProbeInv'
  OBVIOUS
<1>1. ASSUME NEW w \in Workers, Step(w) PROVE ProbeInv'
  <2>1. ASSUME NEW u \in Workers, u # w PROVE Known(u)'
    BY <1>1, <2>1, OthersUntouched, KnownKept DEF ProbeInv
  <2>2. Known(w)'
    <3>1. hist[w] \in History /\ call[w] \in Call /\ Known(w)
      BY DEF TypeOK, ProbeInv
    <3>2. CASE \E op, s, dry, docs, step :
                 step \in {"probe", "update", "delete"} /\ Begin(w, op, s, dry, docs, step)
      <4>1. PICK op, s, dry, docs, step :
              step \in {"probe", "update", "delete"} /\ Begin(w, op, s, dry, docs, step)
        BY <3>2
      <4> DEFINE c == [NoCall EXCEPT !.op = op, !.strategy = s, !.dry = dry, !.docs = docs]
      <4>2. c.asked = {}
        BY DEF NoCall
      <4>3. call' = [call EXCEPT ![w] = c] /\ pc' = [pc EXCEPT ![w] = step]
        BY <4>1 DEF Begin, Goto
      <4> HIDE DEF c
      <4>4. call'[w].asked = {} /\ pc'[w] \notin {"paper", "links"}
        BY <4>1, <4>2, <4>3 DEF TypeOK
      <4>5. QED
        BY <4>4, KnownFresh
    <3>3. CASE RejectDoc(w) \/ Account(w) \/ Foresee(w) \/ Abort(w) \/ Emit(w)
      <4>1. ASSUME NEW rest, NextDoc(w, rest)
            PROVE  call'[w].asked = {} /\ pc'[w] \notin {"paper", "links"}
        <5> DEFINE c == [NoCall EXCEPT !.op = call[w].op, !.strategy = call[w].strategy,
                                       !.dry = call[w].dry, !.docs = rest]
        <5>1. c.asked = {}
          BY DEF NoCall
        <5>2. call' = [call EXCEPT ![w] = c] /\ pc'[w] \in {"emit", "probe"}
          BY <4>1 DEF NextDoc, Goto, TypeOK
        <5> HIDE DEF c
        <5>3. QED
          BY <5>1, <5>2 DEF TypeOK
      <4>2. CASE RejectDoc(w) \/ Account(w) \/ Foresee(w)
        BY <4>1, <4>2, KnownFresh DEF RejectDoc, Account, Foresee
      <4>3. CASE Abort(w)
        <5>1. call' = [call EXCEPT ![w] = NoCall] /\ pc' = [pc EXCEPT ![w] = "idle"]
          BY <4>3 DEF Abort, Goto
        <5>2. call'[w] = NoCall /\ pc'[w] = "idle"
          BY <5>1 DEF TypeOK
        <5>3. QED
          BY <5>2, KnownFresh DEF NoCall
      <4>4. CASE Emit(w)
        <5> DEFINE c == [NoCall EXCEPT !.op = call[w].op, !.strategy = call[w].strategy,
                                       !.dry = call[w].dry]
        <5>1. c.asked = {}
          BY DEF NoCall
        <5>2. call' = [call EXCEPT ![w] = c] /\ pc' = [pc EXCEPT ![w] = "done"]
          BY <4>4 DEF Emit, Goto
        <5> HIDE DEF c
        <5>3. call'[w].asked = {} /\ pc'[w] = "done"
          BY <5>1, <5>2 DEF TypeOK
        <5>4. QED
          BY <5>3, KnownFresh
      <4>5. QED
        BY <3>3, <4>2, <4>3, <4>4
    <3>4. CASE ProbeUpdate(w) \/ DropEdges(w) \/ SkipPaper(w)
      <4>1. call' = call /\ pc'[w] \notin {"paper", "links"}
        BY <3>4 DEF ProbeUpdate, DropEdges, SkipPaper, Goto, TypeOK
      <4>2. hist'[w].kept = hist[w].kept /\ (hist[w].blind => hist'[w].blind)
        BY <3>1, <3>4
           DEF ProbeUpdate, DropEdges, SkipPaper, Probe, Success, WriteFails, Failure, History, TypeOK
      <4>3. QED
        BY <3>1, <4>1, <4>2, KnownKept
    <3>5. CASE UpsertPaper(w)
      <4>1. call' = call /\ pc[w] = "paper"
        BY <3>5 DEF UpsertPaper
      <4>2. hist'[w].kept = hist[w].kept /\ hist'[w].blind = hist[w].blind
        BY <3>1, <3>5 DEF UpsertPaper, WriteFails, Failure, History, TypeOK
      <4>3. QED
        BY <3>1, <4>1, <4>2, KnownKept
    <3>6. CASE UpsertObject(w) \/ UpsertEdge(w)
      <4>1. pc' = pc
        BY <3>6 DEF UpsertObject, UpsertEdge
      <4>2. /\ call'[w].asked = call[w].asked /\ call'[w].found = call[w].found
            /\ call'[w].exists = call[w].exists /\ call'[w].docs = call[w].docs
        BY <3>1, <3>6 DEF UpsertObject, UpsertEdge, Call, TypeOK
      <4>3. hist'[w].kept = hist[w].kept /\ hist'[w].blind = hist[w].blind
        BY <3>1, <3>6 DEF UpsertObject, UpsertEdge, WriteFails, Failure, History, TypeOK
      <4>4. QED
        BY <3>1, <4>1, <4>2, <4>3, KnownKept
    <3>7. CASE RemoveDoc(w)
      <4>1. call' = call /\ pc'[w] \notin {"paper", "links"}
        BY <3>7 DEF RemoveDoc, Goto, TypeOK
      <4>2. hist'[w].kept \subseteq hist[w].kept /\ hist'[w].blind = hist[w].blind
        <5>1. CASE WriteFails(w)
          BY <3>1, <5>1 DEF WriteFails, Failure, History, TypeOK
        <5>2. CASE ~WriteFails(w)
          <6>1. \E new : hist'[w] = [hist[w] EXCEPT !.kept = hist[w].kept \ {Doc(w).id}, !.did = new]
            BY <3>7, <5>2 DEF RemoveDoc
          <6>2. QED
            BY <3>1, <6>1 DEF History
        <5>3. QED
          BY <5>1, <5>2
      <4>3. QED
        BY <3>1, <4>1, <4>2, KnownKept
    <3>8. CASE ProbeDelete(w)
      <4>1. /\ pc'[w] \in {"remove", "emit"}
            /\ call'[w].asked = call[w].asked /\ call'[w].found = call[w].found
        BY <3>1, <3>8 DEF ProbeDelete, Goto, Call, TypeOK
      <4>2. hist'[w].kept = hist[w].kept /\ (hist[w].blind => hist'[w].blind)
        BY <3>1, <3>8 DEF ProbeDelete, Probe, Success, Failure, History, TypeOK
      <4>3. QED
        BY <3>1, <4>1, <4>2 DEF Known
    <3>9. CASE ProbePaper(w)
      <4>1. PICK answer \in BOOLEAN :
              Probe(w, Id(w), answer) /\ call' = [call EXCEPT ![w].exists = answer]
        BY <3>9 DEF ProbePaper
      <4>2. ToSet(Triples(w)) \subseteq call[w].asked
        BY <3>9 DEF ProbePaper
      <4>3. /\ call'[w].asked = call[w].asked /\ call'[w].found = call[w].found
            /\ call'[w].docs = call[w].docs /\ call'[w].exists = answer
        BY <3>1, <4>1 DEF Call, TypeOK
      <4>4. CASE answer = (graph[Id(w)] # Absent) /\ Success
        <5>1. hist' = hist /\ hist[w].kept \subseteq Present
          BY <4>4 DEF Success, TypeOK
        <5>2. QED
          BY <3>1, <4>2, <4>3, <4>4, <5>1 DEF Known, Id, Doc, Triples, Present
      <4>5. CASE Failure(w, [hist[w] EXCEPT !.blind = TRUE])
        BY <3>1, <4>5 DEF Failure, Known, History, TypeOK
      <4>6. QED
        BY <4>1, <4>4, <4>5 DEF Probe
    <3>10. CASE ProbeObject(w)
      <4>1. PICK i \in DOMAIN Triples(w), answer \in BOOLEAN :
              /\ Probe(w, Triples(w)[i], answer)
              /\ call' = [call EXCEPT ![w] = [call[w] EXCEPT
                   !.asked = call[w].asked \cup {Triples(w)[i]},
                   !.found = call[w].found \cup IF answer THEN {Triples(w)[i]} ELSE {}]]
        BY <3>10 DEF ProbeObject
      <4> DEFINE v == Triples(w)[i]
      <4>2. /\ call'[w].asked = call[w].asked \cup {v}
            /\ call'[w].found = call[w].found \cup IF answer THEN {v} ELSE {}
        BY <3>1, <4>1 DEF Call, TypeOK
      <4>3. pc'[w] = "probe"
        BY <3>10 DEF ProbeObject
      <4>4. Probe(w, v, answer)
        BY <4>1
      <4> HIDE DEF v
      <4>5. CASE answer = (graph[v] # Absent) /\ Success
        <5>1. hist' = hist /\ hist[w].kept \subseteq Present
          BY <4>5 DEF Success, TypeOK
        <5>2. QED
          BY <3>1, <4>2, <4>3, <4>5, <5>1 DEF Known, Present
      <4>6. CASE Failure(w, [hist[w] EXCEPT !.blind = TRUE])
        BY <3>1, <4>6 DEF Failure, Known, History, TypeOK
      <4>7. QED
        BY <4>4, <4>5, <4>6 DEF Probe
    <3>11. QED
      BY <1>1, <3>2, <3>3, <3>4, <3>5, <3>6, <3>7, <3>8, <3>9, <3>10 DEF Step
  <2>3. QED
    BY <2>1, <2>2 DEF ProbeInv
<1>2. CASE UNCHANGED vars
  <2>1. call' = call /\ pc' = pc /\ hist' = hist
    BY <1>2 DEF vars
  <2>2. QED
    BY <2>1, KnownKept DEF ProbeInv
<1>3. QED
  BY <1>1, <1>2, NextIsStep

\* Under NEW_ONLY no step of a request changes a vertex that was there when the
\* request began and has not been deleted since, unless one of its probes failed
\* or it is a Paper under an id with blanks around it (construction.py:147-153, 396, 423-428; protocol_extensions.py:27-28).
THEOREM NewOnlyInserts == Spec => InsertOnly
<1> DEFINE Kept(w) ==
      /\ call[w].strategy = "new_only" /\ ~hist[w].blind
      /\ pc[w] \in {"paper", "links"} /\ <<pc[w], call[w]>>' # <<pc[w], call[w]>>
      => \A v \in hist[w].kept \ Padded : graph'[v] = graph[v]
<1>1. Init => ProbeInv
  BY DEF Init, ProbeInv, Known, NoCall, NoHist
<1>2. TypeOK /\ ProbeInv /\ [Next]_vars => [\A w \in Workers : Kept(w)]_vars
  <2> SUFFICES ASSUME TypeOK, ProbeInv, Next, NEW w \in Workers,
                      call[w].strategy = "new_only", ~hist[w].blind,
                      pc[w] \in {"paper", "links"},
                      <<pc[w], call[w]>>' # <<pc[w], call[w]>>
               PROVE  \A v \in hist[w].kept \ Padded : graph'[v] = graph[v]
    OBVIOUS
  <2>1. Step(w)
    <3>1. PICK u \in Workers : Step(u)
      BY NextIsStep
    <3>2. u = w
      BY <3>1, OthersUntouched
    <3>3. QED
      BY <3>1, <3>2
  <2>2. hist[w].kept \subseteq Present /\ Present \subseteq Vertices /\ Known(w)
    BY DEF TypeOK, ProbeInv, Present
  <2>3. CASE UpsertPaper(w)
    <3>1. ~call[w].exists
      BY <2>3 DEF UpsertPaper, Skips
    <3>2. Doc(w).id \notin hist[w].kept \ Padded
      <4>1. Id(w) \notin hist[w].kept
        BY <2>2, <3>1 DEF Known
      <4>2. Doc(w).id \in Papers
        BY InHandTyped DEF InHand
      <4>3. Doc(w).id \notin Padded => Id(w) = Doc(w).id
        BY <4>2, ConstructionConstants DEF Papers, Id
      <4>4. QED
        BY <4>1, <4>3
    <3>3. graph' = graph \/ graph' = [graph EXCEPT ![Doc(w).id] = Doc(w).content]
      BY <2>3 DEF UpsertPaper
    <3>4. QED
      BY <2>2, <3>2, <3>3 DEF TypeOK
  <2>4. CASE UpsertObject(w)
    <3> DEFINE v == Triples(w)[call[w].k]
    <3>1. graph' = graph \/ (v \notin call[w].found /\ graph' = [graph EXCEPT ![v] = Upserted(v)])
      BY <2>4 DEF UpsertObject, NeedsVertex
    <3>2. v \in call[w].asked
      <4>1. pc[w] = "links" /\ call[w].k <= Len(Triples(w))
        BY <2>4 DEF UpsertObject
      <4>2. call[w].k \in Nat \ {0} /\ Triples(w) \in Seq(Vertices)
        BY <4>1, TripleTyped, InHandTyped DEF InHand
      <4>3. call[w].k \in DOMAIN Triples(w)
        BY <4>1, <4>2
      <4>4. QED
        BY <2>2, <4>1, <4>3 DEF Known, ToSet
    <3>3. v \in call[w].found \/ v \notin hist[w].kept
      BY <2>2, <3>2 DEF Known
    <3> HIDE DEF v
    <3>4. QED
      BY <2>2, <3>1, <3>3 DEF TypeOK
  <2>5. CASE UpsertEdge(w)
    BY <2>2, <2>5 DEF UpsertEdge, Present
  <2>6. CASE graph' = graph
    BY <2>6
  <2>7. QED
    BY <2>1, <2>3, <2>4, <2>5, <2>6
       DEF Step, Begin, ProbeUpdate, DropEdges, RejectDoc, ProbeObject, ProbePaper, Foresee,
           SkipPaper, Abort, Account, ProbeDelete, RemoveDoc, Emit
<1>3. QED
  BY <1>1, <1>2, ProbesKnown, TypeCorrect, PTL DEF Spec, InsertOnly

-----------------------------------------------------------------------------

\* Citing a document never blanks or replaces what it says: the attributes of a
\* document change only in the upsert or the deletion of a request that names it
\* (construction.py:396-447; the upsert of a cited Paper carries no attribute).
THEOREM CitationHarmless == Spec => CitationKeepsContent
<1> DEFINE Explained(d) ==
      graph[d] \in Contents /\ graph'[d] # graph[d]
      => \E w \in Workers : /\ pc[w] \in {"paper", "remove"}
                            /\ Doc(w).id = d
<1>1. TypeOK /\ [Next]_vars => [\A d \in Papers : Explained(d)]_graph
  <2> SUFFICES ASSUME TypeOK, Next, NEW d \in Papers, graph[d] \in Contents, graph'[d] # graph[d]
               PROVE  \E w \in Workers : pc[w] \in {"paper", "remove"} /\ Doc(w).id = d
    BY DEF vars
  <2>1. PICK w \in Workers : Step(w)
    BY NextIsStep
  <2>2. d \in Vertices /\ d \notin Objects /\ graph[d] \notin {Absent, Stub, Named}
    BY ConstructionConstants DEF Vertices
  <2>3. graph \in [Vertices -> States]
    BY DEF TypeOK
  <2>4. CASE UpsertPaper(w)
    BY <2>2, <2>3, <2>4 DEF UpsertPaper
  <2>5. CASE RemoveDoc(w)
    BY <2>2, <2>3, <2>5 DEF RemoveDoc
  <2>6. CASE UpsertObject(w)
    <3> DEFINE v == Triples(w)[call[w].k]
    <3>1. graph' = graph \/ graph' = [graph EXCEPT ![v] = Upserted(v)]
      BY <2>6 DEF UpsertObject
    <3>2. Upserted(d) = graph[d]
      BY <2>2 DEF Upserted
    <3> HIDE DEF v
    <3>3. QED
      BY <2>2, <2>3, <3>1, <3>2
  <2>7. CASE UpsertEdge(w)
    BY <2>2, <2>3, <2>7 DEF UpsertEdge
  <2>8. CASE graph' = graph
    BY <2>8
  <2>9. QED
    BY <2>1, <2>4, <2>5, <2>6, <2>7, <2>8
       DEF Step, Begin, ProbeUpdate, DropEdges, RejectDoc, ProbeObject, ProbePaper, Foresee,
           SkipPaper, Abort, Account, ProbeDelete, Emit
<1>2. QED
  BY <1>1, TypeCorrect, PTL DEF Spec, CitationKeepsContent

-----------------------------------------------------------------------------
(* Requests that nothing disturbs.  While one is served no other is active, *)
(* so each of its steps sees the graph its last one left.                   *)

Quiet(w) == hist[w].alone /\ ~hist[w].blind /\ ~hist[w].failed

\* Of those, the deletions and plain writes.
Calm(w) ==
  /\ Quiet(w)
  /\ ~call[w].dry
  /\ call[w].op # "delete" => \A i \in DOMAIN Batch(w) : Batch(w)[i].id \in Docs

AloneInv ==
  \A w, u \in Workers : hist[w].alone /\ u # w => pc[u] \in {"idle", "done"}

Serves(w) ==
  \/ ProbeUpdate(w) \/ DropEdges(w)
  \/ RejectDoc(w) \/ ProbeObject(w) \/ ProbePaper(w) \/ Foresee(w)
  \/ UpsertPaper(w) \/ SkipPaper(w) \/ Abort(w) \/ UpsertObject(w) \/ UpsertEdge(w) \/ Account(w)
  \/ ProbeDelete(w) \/ RemoveDoc(w) \/ Emit(w)

Starts(w) ==
  \/ \E s \in Strategies, dry \in BOOLEAN, b \in Batches : BeginIngest(w, s, dry, b)
  \/ \E s \in Strategies, dry \in BOOLEAN, b \in Batches : BeginUpdate(w, s, dry, Head(b))
  \/ \E dry \in BOOLEAN, b \in Batches : BeginDelete(w, dry, Head(b))

LEMMA NextServes == ASSUME Next PROVE \E w \in Workers : Starts(w) \/ Serves(w)
BY DEF Next, Starts, Serves

\* Only an active worker's request is served, and that tells the others nothing
\* about overlaps.
LEMMA ServesAlone ==
  ASSUME TypeOK, NEW w \in Workers, Serves(w)
  PROVE  /\ pc[w] \notin {"idle", "done"}
         /\ \A u \in Workers \ {w} : pc'[u] = pc[u] /\ hist'[u].alone = hist[u].alone
         /\ hist'[w].alone => hist[w].alone
<1> USE DEF TypeOK
<1>1. hist \in [Workers -> History] /\ pc \in [Workers -> Steps]
  OBVIOUS
<1>2. CASE RemoveDoc(w)
  <2>1. CASE WriteFails(w)
    BY <1>1, <1>2, <2>1 DEF RemoveDoc, Goto, WriteFails, Failure, History
  <2>2. CASE ~WriteFails(w)
    <3>1. \A u \in Workers : hist'[u].alone = hist[u].alone
      <4> DEFINE d == Doc(w).id
                 did(u) == IF u = w /\ graph[d] # Absent
                             THEN hist[u].did \cup {[kind |-> "deleted", id |-> d]} ELSE hist[u].did
      <4>1. hist' = [u \in Workers |->
                       [hist[u] EXCEPT !.kept = hist[u].kept \ {d}, !.did = did(u)]]
        BY <1>2, <2>2 DEF RemoveDoc
      <4> HIDE DEF did, d
      <4>2. QED
        BY <1>1, <4>1 DEF History
    <3>2. QED
      BY <1>1, <1>2, <3>1 DEF RemoveDoc, Goto
  <2>3. QED
    BY <2>1, <2>2
<1>3. CASE Abort(w)
  BY <1>1, <1>3 DEF Abort, Goto, NoHist
<1>4. CASE \/ ProbeUpdate(w) \/ DropEdges(w) \/ RejectDoc(w) \/ ProbeObject(w) \/ ProbePaper(w)
           \/ Foresee(w) \/ UpsertPaper(w) \/ SkipPaper(w) \/ UpsertObject(w) \/ UpsertEdge(w)
           \/ Account(w) \/ ProbeDelete(w) \/ Emit(w)
  <2>1. /\ pc[w] \notin {"idle", "done"}
        /\ \A u \in Workers \ {w} : pc'[u] = pc[u]
    BY <1>1, <1>4
       DEF ProbeUpdate, DropEdges, RejectDoc, ProbeObject, ProbePaper, Foresee, UpsertPaper,
           SkipPaper, UpsertObject, UpsertEdge, Account, ProbeDelete, Emit, NextDoc, Goto
  <2>2. \/ hist' = hist
        \/ \E h : hist' = [hist EXCEPT ![w] = h] /\ h.alone = hist[w].alone
    <3>1. hist[w] \in History
      BY <1>1
    <3>2. \A a : /\ [hist[w] EXCEPT !.failed = a].alone = hist[w].alone
                 /\ [hist[w] EXCEPT !.blind = a].alone = hist[w].alone
                 /\ [hist[w] EXCEPT !.rejected = a].alone = hist[w].alone
                 /\ [hist[w] EXCEPT !.did = a].alone = hist[w].alone
      BY <3>1 DEF History
    <3>3. \/ hist' = hist
          \/ \E a : \/ hist' = [hist EXCEPT ![w] = [hist[w] EXCEPT !.failed = a]]
                   \/ hist' = [hist EXCEPT ![w] = [hist[w] EXCEPT !.blind = a]]
                   \/ hist' = [hist EXCEPT ![w] = [hist[w] EXCEPT !.rejected = a]]
                   \/ hist' = [hist EXCEPT ![w] = [hist[w] EXCEPT !.did = a]]
      BY <1>4 DEF ProbeUpdate, DropEdges, RejectDoc, ProbeObject, ProbePaper, Foresee, UpsertPaper,
           SkipPaper, UpsertObject, UpsertEdge, Account, ProbeDelete, Emit, Probe, Success, WriteFails, Failure
    <3>4. QED
      BY ONLY <3>2, <3>3
  <2>3. QED
    BY <1>1, <2>1, <2>2
<1>5. QED
  BY <1>2, <1>3, <1>4 DEF Serves

\* A request that begins ends the calm of every other one, and is alone itself
\* only if no other is active.
LEMMA StartsAlone ==
  ASSUME TypeOK, NEW w \in Workers, Starts(w)
  PROVE  /\ \A u \in Workers \ {w} : pc'[u] = pc[u] /\ ~hist'[u].alone
         /\ hist'[w].alone => \A u \in Workers \ {w} : pc[u] \in {"idle", "done"}
<1> USE DEF TypeOK
<1>1. PICK op, s, dry, docs, step : Begin(w, op, s, dry, docs, step)
  BY DEF Starts, BeginIngest, BeginUpdate, BeginDelete
<1> DEFINE overlap == \E u \in Workers \ {w} : pc[u] \notin {"idle", "done"}
           h == [NoHist EXCEPT !.batch = docs, !.alone = ~overlap,
                               !.before = Present, !.kept = Present]
<1>2. /\ hist' = [u \in Workers |-> IF u = w THEN h ELSE [hist[u] EXCEPT !.alone = FALSE]]
      /\ pc' = [pc EXCEPT ![w] = step]
  BY <1>1 DEF Begin, Goto
<1>3. h.alone = ~overlap
  BY DEF NoHist
<1> HIDE DEF h
<1>4. \A u \in Workers \ {w} : [hist[u] EXCEPT !.alone = FALSE].alone = FALSE
  BY DEF History
<1>5. QED
  BY <1>2, <1>3, <1>4

LEMMA AloneKept == TypeOK /\ AloneInv /\ [Next]_vars => AloneInv'
<1> SUFFICES ASSUME TypeOK, AloneInv, [Next]_vars PROVE AloneInv'
  OBVIOUS
<1>1. ASSUME NEW w \in Workers, Starts(w) PROVE AloneInv'
  BY <1>1, StartsAlone DEF AloneInv
<1>2. ASSUME NEW w \in Workers, Serves(w) PROVE AloneInv'
  <2> SUFFICES ASSUME NEW v \in Workers, NEW u \in Workers, hist'[v].alone, u # v
               PROVE  pc'[u] \in {"idle", "done"}
    BY DEF AloneInv
  <2>1. hist[v].alone
    BY <1>2, ServesAlone
  <2>2. v = w
    BY <1>2, <2>1, ServesAlone DEF AloneInv
  <2>3. QED
    BY <1>2, <2>1, <2>2, ServesAlone DEF AloneInv
<1>3. CASE UNCHANGED vars
  BY <1>3 DEF vars, AloneInv
<1>4. QED
  BY <1>1, <1>2, <1>3, NextServes

-----------------------------------------------------------------------------
(* What each step does to the graph and to its worker's records, when       *)
(* nothing disturbs the request.                                            *)

\* Every step after the first keeps what the request was asked to do.
Asked(w) ==
  UNCHANGED <<call[w].op, call[w].strategy, call[w].dry, hist[w].batch, hist[w].before>>

\* The next document of the list has its turn, if there is one.
Turn(w, rest) ==
  /\ call'[w].docs = rest
  /\ call'[w].asked = {} /\ call'[w].found = {} /\ call'[w].done = {} /\ call'[w].k = 1
  /\ pc'[w] = IF rest = <<>> THEN "emit" ELSE "probe"

CalmBegin(w) ==
  /\ UNCHANGED <<graph, edges>>
  /\ call'[w].strategy \in Strategies
  /\ call'[w].docs \in Seq(Document) \ {<<>>}
  /\ call'[w].asked = {} /\ call'[w].found = {} /\ call'[w].done = {} /\ call'[w].k = 1
  /\ \/ call'[w].op = "ingest" /\ pc'[w] = "probe"
     \/ /\ call'[w].op = "update" /\ Len(call'[w].docs) = 1
        /\ pc'[w] = IF call'[w].strategy = "exact_id" THEN "update" ELSE "probe"
     \/ call'[w].op = "delete" /\ Len(call'[w].docs) = 1 /\ pc'[w] = "delete"
  /\ report'[w] = Blank
  /\ hist'[w].batch = call'[w].docs
  /\ hist'[w].before = Present
  /\ hist'[w].did = {}
  /\ ~hist'[w].rejected

CalmProbeUpdate(w) ==
  /\ pc[w] = "update"
  /\ pc'[w] = IF graph[Doc(w).id] # Absent THEN "dropEdges" ELSE "probe"
  /\ UNCHANGED <<graph, edges, call[w], report[w], hist[w]>>

CalmDropEdges(w) ==
  /\ pc[w] = "dropEdges" /\ pc'[w] = "probe"
  /\ edges' = {e \in edges : e[1] # Doc(w).id}
  /\ UNCHANGED <<graph, call[w], report[w], hist[w]>>

CalmReject(w) ==
  /\ pc[w] = "probe"
  /\ Turn(w, Tail(call[w].docs))
  /\ hist'[w].rejected
  /\ UNCHANGED <<graph, edges, report[w], hist[w].did>>

CalmProbeObject(w) ==
  /\ pc[w] = "probe" /\ pc'[w] = "probe"
  /\ \E v \in ToSet(Triples(w)) :
       /\ call'[w].asked = call[w].asked \cup {v}
       /\ call'[w].found = call[w].found \cup ({v} \cap Present)
  /\ UNCHANGED <<graph, edges, report[w], hist[w],
                 call[w].docs, call[w].exists, call[w].done, call[w].k>>

CalmProbePaper(w) ==
  /\ pc[w] = "probe" /\ pc'[w] = "paper"
  /\ ToSet(Triples(w)) \subseteq call[w].asked
  /\ call'[w].exists = (graph[Doc(w).id] # Absent)
  /\ UNCHANGED <<graph, edges, report[w], hist[w],
                 call[w].docs, call[w].asked, call[w].found, call[w].done, call[w].k>>

CalmUpsertPaper(w) ==
  LET d == Doc(w) IN
  /\ pc[w] = "paper" /\ pc'[w] = "links"
  /\ ~Skips(w)
  /\ graph' = [graph EXCEPT ![d.id] = d.content]
  /\ report'[w].created = report[w].created + IF call[w].exists THEN 0 ELSE 1
  /\ hist'[w].did = hist[w].did \cup
       {[kind |-> IF graph[d.id] = Absent THEN "created" ELSE "updated", id |-> d.id]}
  /\ UNCHANGED <<edges, call[w], report[w].written, report[w].fresh, report[w].deleted,
                 hist[w].rejected>>

CalmSkipPaper(w) ==
  /\ pc[w] = "paper" /\ pc'[w] = "account"
  /\ Skips(w)
  /\ UNCHANGED <<graph, edges, call[w], report[w], hist[w]>>

CalmUpsertObject(w) ==
  LET v == Triples(w)[call[w].k] IN
  /\ pc[w] = "links" /\ pc'[w] = "links"
  /\ call[w].k <= Len(Triples(w))
  /\ NeedsVertex(w)
  /\ graph' = [graph EXCEPT ![v] = Upserted(v)]
  /\ report'[w].created = report[w].created + IF v \in call[w].found THEN 0 ELSE 1
  /\ call'[w].done = call[w].done \cup {v}
  /\ hist'[w].did = hist[w].did \cup Creates({v})
  /\ UNCHANGED <<edges, report[w].written, report[w].fresh, report[w].deleted,
                 call[w].docs, call[w].asked, call[w].found, call[w].exists, call[w].k,
                 hist[w].rejected>>

CalmUpsertEdge(w) ==
  LET d == Doc(w).id
      v == Triples(w)[call[w].k]
  IN
  /\ pc[w] = "links" /\ pc'[w] = "links"
  /\ call[w].k <= Len(Triples(w))
  /\ ~NeedsVertex(w)
  /\ edges' = edges \cup {<<d, v>>}
  /\ graph' = [x \in Vertices |->
       IF x \in {d, v} /\ graph[x] = Absent THEN Stub ELSE graph[x]]
  /\ call'[w].k = call[w].k + 1
  /\ hist'[w].did = hist[w].did \cup Creates({d, v})
  /\ UNCHANGED <<report[w].created, report[w].written, report[w].fresh, report[w].deleted,
                 call[w].docs, call[w].asked, call[w].found, call[w].exists, call[w].done,
                 hist[w].rejected>>

CalmAccount(w) ==
  LET d == Doc(w).id IN
  /\ \/ pc[w] = "account"
     \/ pc[w] = "links" /\ call[w].k > Len(Triples(w))
  /\ IF Skips(w)
       THEN UNCHANGED <<report[w].written, report[w].fresh>>
       ELSE /\ report'[w].written = Append(report[w].written, d)
            /\ report'[w].fresh = report[w].fresh \cup IF call[w].exists THEN {} ELSE {d}
  /\ Turn(w, Tail(call[w].docs))
  /\ UNCHANGED <<graph, edges, hist[w], report[w].created, report[w].deleted>>

CalmProbeDelete(w) ==
  /\ pc[w] = "delete" /\ pc'[w] = "remove"
  /\ call'[w].exists = (graph[Doc(w).id] # Absent)
  /\ UNCHANGED <<graph, edges, report[w], hist[w], call[w].docs>>

CalmRemoveDoc(w) ==
  LET d == Doc(w).id IN
  /\ pc[w] = "remove" /\ pc'[w] = "emit"
  /\ graph' = [graph EXCEPT ![d] = Absent]
  /\ edges' = {e \in edges : d \notin {e[1], e[2]}}
  /\ report'[w].deleted = IF graph[d] # Absent \/ call[w].exists THEN {d} ELSE {}
  /\ hist'[w].did = hist[w].did \cup
       IF graph[d] # Absent THEN {[kind |-> "deleted", id |-> d]} ELSE {}
  /\ UNCHANGED <<call[w], report[w].created, report[w].written, report[w].fresh,
                 hist[w].rejected>>

CalmEmit(w) ==
  /\ pc[w] = "emit" /\ pc'[w] = "done"
  /\ events'[w] = Published(w)
  /\ call'[w].docs = <<>>
  /\ UNCHANGED <<graph, edges, report[w], hist[w]>>

CalmStep(w) ==
  /\ Calm(w)
  /\ Asked(w)
  /\ \/ CalmProbeUpdate(w) \/ CalmDropEdges(w)
     \/ CalmReject(w) \/ CalmProbeObject(w) \/ CalmProbePaper(w)
     \/ CalmUpsertPaper(w) \/ CalmSkipPaper(w)
     \/ CalmUpsertObject(w) \/ CalmUpsertEdge(w) \/ CalmAccount(w)
     \/ CalmProbeDelete(w) \/ CalmRemoveDoc(w) \/ CalmEmit(w)

\* A failed call of the backend ends the calm.
LEMMA FaultDisturbs ==
  ASSUME TypeOK, NEW w \in Workers, Quiet(w)'
  PROVE  ~WriteFails(w) /\ \A v, answer : Probe(w, v, answer) => answer = (graph[v] # Absent) /\ Success
<1>1. hist \in [Workers -> History]
  BY DEF TypeOK
<1>2. hist[w] \in History
  BY <1>1
<1>3. /\ [hist[w] EXCEPT !.failed = TRUE].failed = TRUE
      /\ [hist[w] EXCEPT !.blind = TRUE].blind = TRUE
  BY <1>2 DEF History
<1>4. \A h : Failure(w, h) => hist'[w] = h
  BY <1>1 DEF Failure
<1>5. QED
  BY <1>3, <1>4 DEF WriteFails, Probe, Quiet

\* A step that leaves the request's history alone, or changes only what it did
\* or that it rejected a document.
LEMMA QuietHist ==
  ASSUME TypeOK, NEW w \in Workers, NEW a
  PROVE  /\ hist' = hist => UNCHANGED <<hist[w].batch, hist[w].before>> /\ (Quiet(w)' => Quiet(w))
         /\ hist' = [hist EXCEPT ![w] = [hist[w] EXCEPT !.did = a]] =>
              /\ UNCHANGED <<hist[w].batch, hist[w].before, hist[w].rejected>>
              /\ hist'[w].did = a
              /\ Quiet(w)' => Quiet(w)
         /\ hist' = [hist EXCEPT ![w] = [hist[w] EXCEPT !.rejected = a]] =>
              /\ UNCHANGED <<hist[w].batch, hist[w].before, hist[w].did>>
              /\ hist'[w].rejected = a
              /\ Quiet(w)' => Quiet(w)
<1>1. hist \in [Workers -> History] /\ hist[w] \in History
  BY DEF TypeOK
<1> DEFINE g == [hist[w] EXCEPT !.did = a]
           h == [hist[w] EXCEPT !.rejected = a]
<1>2. /\ g.batch = hist[w].batch /\ g.before = hist[w].before /\ g.rejected = hist[w].rejected
      /\ g.alone = hist[w].alone /\ g.blind = hist[w].blind /\ g.failed = hist[w].failed
      /\ g.did = a
  BY <1>1 DEF History
<1>3. /\ h.batch = hist[w].batch /\ h.before = hist[w].before /\ h.did = hist[w].did
      /\ h.alone = hist[w].alone /\ h.blind = hist[w].blind /\ h.failed = hist[w].failed
      /\ h.rejected = a
  BY <1>1 DEF History
<1> HIDE DEF g, h
<1>4. ASSUME hist' = [hist EXCEPT ![w] = g]
      PROVE  /\ UNCHANGED <<hist[w].batch, hist[w].before, hist[w].rejected>>
             /\ hist'[w].did = a
             /\ Quiet(w)' => Quiet(w)
  <2>1. hist'[w] = g
    BY <1>1, <1>4
  <2>2. QED
    BY <1>2, <2>1 DEF Quiet
<1>5. ASSUME hist' = [hist EXCEPT ![w] = h]
      PROVE  /\ UNCHANGED <<hist[w].batch, hist[w].before, hist[w].did>>
             /\ hist'[w].rejected = a
             /\ Quiet(w)' => Quiet(w)
  <2>1. hist'[w] = h
    BY <1>1, <1>5
  <2>2. QED
    BY <1>3, <2>1 DEF Quiet
<1>6. hist' = hist => UNCHANGED <<hist[w].batch, hist[w].before>> /\ (Quiet(w)' => Quiet(w))
  BY DEF Quiet
<1>7. QED
  BY <1>4, <1>5, <1>6 DEF g, h

\* The fields of a record that is changed field by field.
LEMMA CallFields ==
  ASSUME TypeOK, NEW w \in Workers, NEW a, NEW b
  PROVE  /\ call' = [call EXCEPT ![w] = [call[w] EXCEPT !.asked = a, !.found = b]] =>
              /\ call'[w].asked = a /\ call'[w].found = b
              /\ UNCHANGED <<call[w].op, call[w].strategy, call[w].dry, call[w].docs,
                             call[w].exists, call[w].done, call[w].k>>
         /\ call' = [call EXCEPT ![w] = [call[w] EXCEPT !.exists = a]] =>
              /\ call'[w].exists = a
              /\ UNCHANGED <<call[w].op, call[w].strategy, call[w].dry, call[w].docs,
                             call[w].asked, call[w].found, call[w].done, call[w].k>>
         /\ call' = [call EXCEPT ![w] = [call[w] EXCEPT !.done = a]] =>
              /\ call'[w].done = a
              /\ UNCHANGED <<call[w].op, call[w].strategy, call[w].dry, call[w].docs,
                             call[w].asked, call[w].found, call[w].exists, call[w].k>>
         /\ call' = [call EXCEPT ![w] = [call[w] EXCEPT !.k = a]] =>
              /\ call'[w].k = a
              /\ UNCHANGED <<call[w].op, call[w].strategy, call[w].dry, call[w].docs,
                             call[w].asked, call[w].found, call[w].exists, call[w].done>>
<1>1. call \in [Workers -> Call] /\ call[w] \in Call
  BY DEF TypeOK
<1> DEFINE c1 == [call[w] EXCEPT !.asked = a, !.found = b]
           c2 == [call[w] EXCEPT !.exists = a]
           c3 == [call[w] EXCEPT !.done = a]
           c4 == [call[w] EXCEPT !.k = a]
<1>2. /\ c1.op = call[w].op /\ c1.strategy = call[w].strategy /\ c1.dry = call[w].dry /\ c1.docs = call[w].docs /\ c1.asked = a
      /\ c1.found = b /\ c1.exists = call[w].exists /\ c1.done = call[w].done /\ c1.k = call[w].k
  BY <1>1 DEF Call
<1>3. /\ c2.op = call[w].op /\ c2.strategy = call[w].strategy /\ c2.dry = call[w].dry /\ c2.docs = call[w].docs /\ c2.asked = call[w].asked
      /\ c2.found = call[w].found /\ c2.exists = a /\ c2.done = call[w].done /\ c2.k = call[w].k
  BY <1>1 DEF Call
<1>4. /\ c3.op = call[w].op /\ c3.strategy = call[w].strategy /\ c3.dry = call[w].dry /\ c3.docs = call[w].docs /\ c3.asked = call[w].asked
      /\ c3.found = call[w].found /\ c3.exists = call[w].exists /\ c3.done = a /\ c3.k = call[w].k
  BY <1>1 DEF Call
<1>5. /\ c4.op = call[w].op /\ c4.strategy = call[w].strategy /\ c4.dry = call[w].dry /\ c4.docs = call[w].docs /\ c4.asked = call[w].asked
      /\ c4.found = call[w].found /\ c4.exists = call[w].exists /\ c4.done = call[w].done /\ c4.k = a
  BY <1>1 DEF Call
<1>6. \A c : call' = [call EXCEPT ![w] = c] => call'[w] = c
  BY <1>1
<1> HIDE DEF c1, c2, c3, c4
<1>7. /\ call' = [call EXCEPT ![w] = c1] => call'[w] = c1
      /\ call' = [call EXCEPT ![w] = c2] => call'[w] = c2
      /\ call' = [call EXCEPT ![w] = c3] => call'[w] = c3
      /\ call' = [call EXCEPT ![w] = c4] => call'[w] = c4
  BY <1>6
<1>8. QED
  BY <1>2, <1>3, <1>4, <1>5, <1>7 DEF c1, c2, c3, c4

LEMMA ReportFields ==
  ASSUME TypeOK, NEW w \in Workers, NEW a
  PROVE  /\ report' = [report EXCEPT ![w] = [report[w] EXCEPT !.created = a]] =>
              /\ report'[w].created = a
              /\ UNCHANGED <<report[w].written, report[w].fresh, report[w].deleted>>
         /\ report' = [report EXCEPT ![w] = [report[w] EXCEPT !.edges = a]] =>
              UNCHANGED <<report[w].created, report[w].written, report[w].fresh, report[w].deleted>>
         /\ report' = [report EXCEPT ![w] = [report[w] EXCEPT !.deleted = a]] =>
              /\ report'[w].deleted = a
              /\ UNCHANGED <<report[w].created, report[w].written, report[w].fresh>>
<1>1. report \in [Workers -> Report] /\ report[w] \in Report
  BY DEF TypeOK
<1> DEFINE c1 == [report[w] EXCEPT !.created = a]
           c2 == [report[w] EXCEPT !.edges = a]
           c3 == [report[w] EXCEPT !.deleted = a]
<1>2. /\ c1.created = a /\ c1.written = report[w].written
      /\ c1.fresh = report[w].fresh /\ c1.deleted = report[w].deleted
  BY <1>1 DEF Report
<1>3. /\ c2.created = report[w].created /\ c2.written = report[w].written
      /\ c2.fresh = report[w].fresh /\ c2.deleted = report[w].deleted
  BY <1>1 DEF Report
<1>4. /\ c3.created = report[w].created /\ c3.written = report[w].written
      /\ c3.fresh = report[w].fresh /\ c3.deleted = a
  BY <1>1 DEF Report
<1>5. \A c : report' = [report EXCEPT ![w] = c] => report'[w] = c
  BY <1>1
<1> HIDE DEF c1, c2, c3
<1>6. /\ report' = [report EXCEPT ![w] = c1] => report'[w] = c1
      /\ report' = [report EXCEPT ![w] = c2] => report'[w] = c2
      /\ report' = [report EXCEPT ![w] = c3] => report'[w] = c3
  BY <1>5
<1>7. QED
  BY <1>2, <1>3, <1>4, <1>6 DEF c1, c2, c3

LEMMA WrittenFields ==
  ASSUME TypeOK, NEW w \in Workers, NEW a, NEW b,
         report' = [report EXCEPT ![w] = [report[w] EXCEPT !.written = a, !.fresh = b]]
  PROVE  /\ report'[w].written = a /\ report'[w].fresh = b
         /\ UNCHANGED <<report[w].created, report[w].deleted>>
<1>1. report \in [Workers -> Report] /\ report[w] \in Report
  BY DEF TypeOK
<1> DEFINE c == [report[w] EXCEPT !.written = a, !.fresh = b]
<1>2. /\ c.created = report[w].created /\ c.written = a
      /\ c.fresh = b /\ c.deleted = report[w].deleted
  BY <1>1 DEF Report
<1> HIDE DEF c
<1>3. report'[w] = c
  BY <1>1 DEF c
<1>4. QED
  BY <1>2, <1>3

\* The list's next turn, as a step takes it.
LEMMA TurnTaken ==
  ASSUME TypeOK, NEW w \in Workers, NEW rest, NextDoc(w, rest)
  PROVE  Turn(w, rest) /\ UNCHANGED <<call[w].op, call[w].strategy, call[w].dry>>
<1> DEFINE c == [NoCall EXCEPT !.op = call[w].op, !.strategy = call[w].strategy,
                               !.dry = call[w].dry, !.docs = rest]
<1>1. /\ c.docs = rest /\ c.asked = {} /\ c.found = {} /\ c.done = {} /\ c.k = 1
      /\ c.op = call[w].op /\ c.strategy = call[w].strategy /\ c.dry = call[w].dry
  BY DEF NoCall
<1>2. /\ call' = [call EXCEPT ![w] = c]
      /\ pc' = [pc EXCEPT ![w] = IF rest = <<>> THEN "emit" ELSE "probe"]
  BY DEF NextDoc, Goto
<1> HIDE DEF c
<1>3. call'[w] = c /\ pc'[w] = IF rest = <<>> THEN "emit" ELSE "probe"
  BY <1>2 DEF TypeOK
<1>4. QED
  BY <1>1, <1>3 DEF Turn

LEMMA CalmStart ==
  ASSUME TypeOK, NEW w \in Workers, Starts(w), Calm(w)'
  PROVE  CalmBegin(w)
<1>1. PICK op, s, dry, docs, step :
        /\ Begin(w, op, s, dry, docs, step)
        /\ s \in Strategies /\ docs \in Seq(Document) \ {<<>>}
        /\ \/ op = "ingest" /\ step = "probe"
           \/ op = "update" /\ Len(docs) = 1 /\ step = IF s = "exact_id" THEN "update" ELSE "probe"
           \/ op = "delete" /\ Len(docs) = 1 /\ step = "delete"
  <2>1. ASSUME NEW b \in Batches
        PROVE  /\ b \in Seq(Document) \ {<<>>}
               /\ <<Head(b)>> \in Seq(Document) \ {<<>>} /\ Len(<<Head(b)>>) = 1
    <3>1. b \in Seq(Document) /\ b # <<>>
      BY ConstructionConstants
    <3>2. Head(b) \in Document
      BY <3>1, HeadTailProperties
    <3>3. QED
      BY <3>1, <3>2
  <2>2. "exact_id" \in Strategies
    BY DEF Strategies
  <2>3. CASE \E s \in Strategies, dry \in BOOLEAN, b \in Batches : BeginIngest(w, s, dry, b)
    BY <2>1, <2>3 DEF BeginIngest
  <2>4. CASE \E s \in Strategies, dry \in BOOLEAN, b \in Batches : BeginUpdate(w, s, dry, Head(b))
    BY <2>1, <2>4 DEF BeginUpdate
  <2>5. CASE \E dry \in BOOLEAN, b \in Batches : BeginDelete(w, dry, Head(b))
    BY <2>1, <2>2, <2>5 DEF BeginDelete
  <2>6. QED
    BY <2>3, <2>4, <2>5 DEF Starts
<1> DEFINE c == [NoCall EXCEPT !.op = op, !.strategy = s, !.dry = dry, !.docs = docs]
           h(alone) == [NoHist EXCEPT !.batch = docs, !.alone = alone,
                                      !.before = Present, !.kept = Present]
<1>2. PICK alone \in BOOLEAN : hist'[w] = h(alone)
  BY <1>1 DEF Begin
<1>3. /\ call' = [call EXCEPT ![w] = c]
      /\ pc' = [pc EXCEPT ![w] = step]
      /\ report' = [report EXCEPT ![w] = Blank]
      /\ UNCHANGED <<graph, edges>>
  BY <1>1 DEF Begin, Goto
<1>4. /\ c.op = op /\ c.strategy = s /\ c.docs = docs
      /\ c.asked = {} /\ c.found = {} /\ c.done = {} /\ c.k = 1
  BY DEF NoCall
<1>5. /\ h(alone).batch = docs /\ h(alone).before = Present
      /\ h(alone).did = {} /\ h(alone).rejected = FALSE
  BY DEF NoHist
<1> HIDE DEF c, h
<1>6. call'[w] = c /\ pc'[w] = step /\ report'[w] = Blank
  BY <1>3 DEF TypeOK
<1>7. QED
  BY <1>1, <1>2, <1>3, <1>4, <1>5, <1>6 DEF CalmBegin

-----------------------------------------------------------------------------
(* The list of documents of an undisturbed request.                         *)

\* The number of documents of its batch that w has done with.
At(w) == Len(Batch(w)) - Len(call[w].docs)

\* The list in hand is the rest of the batch, and the step fits the operation.
ListInv(w) ==
  /\ pc[w] \notin {"idle", "foresee"}
  /\ call[w].op \in {"ingest", "update", "delete"}
  /\ Batch(w) \in Seq(Document) \ {<<>>}
  /\ call[w].op # "ingest" => Len(Batch(w)) = 1
  /\ call[w].op = "delete" => pc[w] \in {"delete", "remove", "emit", "done"}
  /\ pc[w] \in {"delete", "remove"} => call[w].op = "delete"
  /\ pc[w] \in {"update", "dropEdges"} => call[w].op = "update" /\ call[w].strategy = "exact_id"
  /\ Len(call[w].docs) <= Len(Batch(w))
  /\ \A i \in 1..Len(call[w].docs) : call[w].docs[i] = Batch(w)[At(w) + i]
  /\ pc[w] = "done" => call[w].docs = <<>>
  /\ pc[w] = "emit" /\ call[w].op # "delete" => call[w].docs = <<>>
  /\ pc[w] \in {"delete", "remove", "update", "dropEdges"} => call[w].docs = Batch(w)
  /\ pc[w] = "account" => Skips(w)
  /\ pc[w] = "links" => ~Skips(w)

\* The document in hand is the next one of the batch.
LEMMA HandIsNext ==
  ASSUME TypeOK, NEW w \in Workers, ListInv(w), pc[w] \in InHand
  PROVE  /\ At(w) \in Nat /\ At(w) + 1 \in 1..Len(Batch(w))
         /\ Doc(w) = Batch(w)[At(w) + 1]
         /\ Doc(w) \in Document /\ Doc(w).id \in Papers /\ Doc(w).content \in Contents
         /\ Batch(w) \in Seq(Document)
<1>1. /\ call[w].docs \in Seq(Document) /\ call[w].docs # <<>>
      /\ Batch(w) \in Seq(Document)
      /\ Len(call[w].docs) <= Len(Batch(w))
      /\ \A i \in 1..Len(call[w].docs) : call[w].docs[i] = Batch(w)[At(w) + i]
  BY DEF TypeOK, Call, ListInv
<1>2. /\ Len(call[w].docs) \in Nat \ {0} /\ Len(Batch(w)) \in Nat
      /\ Head(call[w].docs) = call[w].docs[1]
  BY <1>1, LenProperties, EmptySeq, HeadTailProperties
<1>3. At(w) \in Nat /\ At(w) + 1 \in 1..Len(Batch(w))
  BY <1>1, <1>2 DEF At
<1>4. Doc(w) = Batch(w)[At(w) + 1]
  BY <1>1, <1>2 DEF Doc
<1>5. QED
  BY <1>1, <1>3, <1>4, InHandTyped

\* Of a calm write it has no blanks around its id.
LEMMA HandPlain ==
  ASSUME TypeOK, NEW w \in Workers, Calm(w), ListInv(w), pc[w] \in InHand,
         call[w].op # "delete"
  PROVE  Doc(w).id \in Docs /\ Id(w) = Doc(w).id
<1>1. At(w) + 1 \in 1..Len(Batch(w)) /\ Doc(w) = Batch(w)[At(w) + 1] /\ Batch(w) \in Seq(Document)
  BY HandIsNext
<1>2. At(w) + 1 \in DOMAIN Batch(w)
  BY <1>1, LenProperties
<1>3. Doc(w).id \in Docs
  BY <1>1, <1>2 DEF Calm
<1>4. QED
  BY <1>3, ConstructionConstants DEF Id

LEMMA CalmServes ==
  ASSUME TypeOK, NEW w \in Workers, Serves(w), Calm(w) => ListInv(w), Calm(w)'
  PROVE  CalmStep(w)
<1>1. /\ pc \in [Workers -> Steps]
      /\ call \in [Workers -> Call] /\ call[w] \in Call
      /\ report \in [Workers -> Report] /\ report[w] \in Report
      /\ hist \in [Workers -> History] /\ hist[w] \in History
  BY DEF TypeOK
<1>2. /\ ~WriteFails(w)
      /\ \A v, answer : Probe(w, v, answer) => answer = (graph[v] # Absent) /\ Success
  BY FaultDisturbs DEF Calm
<1>3. hist' = hist => UNCHANGED <<hist[w].batch, hist[w].before>> /\ Quiet(w)
  BY QuietHist DEF Calm
<1>30. Quiet(w) /\ Asked(w) => Calm(w)
  BY DEF Calm, Asked, Batch
<1>31. Quiet(w) /\ Asked(w) /\ pc[w] \in {"probe", "paper", "links", "account"}
       => Id(w) = Doc(w).id
  <2>1. SUFFICES ASSUME Quiet(w), Asked(w), pc[w] \in {"probe", "paper", "links", "account"}
                 PROVE  Id(w) = Doc(w).id
    OBVIOUS
  <2>2. Calm(w) /\ ListInv(w)
    BY <1>30, <2>1
  <2>3. pc[w] \in InHand /\ call[w].op # "delete"
    BY <2>1, <2>2 DEF InHand, ListInv
  <2>4. QED
    BY <2>2, <2>3, HandPlain
<1>32. ~call[w].dry \/ ~Asked(w)
  BY DEF Calm, Asked
<1>4. CASE ProbeUpdate(w)
  <2>1. /\ UNCHANGED <<graph, edges, call, report, hist>>
        /\ pc[w] = "update"
        /\ pc'[w] = IF graph[Doc(w).id] # Absent THEN "dropEdges" ELSE "probe"
    BY <1>1, <1>2, <1>4 DEF ProbeUpdate, Success, Goto
  <2>2. QED
    BY <1>3, <1>30, <2>1 DEF CalmStep, CalmProbeUpdate, Asked
<1>5. CASE DropEdges(w)
  <2>1. /\ UNCHANGED <<graph, call, report, hist>>
        /\ edges' = {e \in edges : e[1] # Doc(w).id}
        /\ pc[w] = "dropEdges" /\ pc'[w] = "probe"
    BY <1>1, <1>2, <1>5 DEF DropEdges, Success, Goto
  <2>2. QED
    BY <1>3, <1>30, <2>1 DEF CalmStep, CalmDropEdges, Asked
<1>6. CASE RejectDoc(w)
  <2>1. /\ UNCHANGED <<graph, edges, report>>
        /\ pc[w] = "probe"
        /\ NextDoc(w, Tail(call[w].docs))
        /\ hist' = [hist EXCEPT ![w] = [hist[w] EXCEPT !.rejected = TRUE]]
    BY <1>6 DEF RejectDoc
  <2>2. /\ UNCHANGED <<hist[w].batch, hist[w].before, hist[w].did>>
        /\ hist'[w].rejected = TRUE
        /\ Quiet(w)
    BY <2>1, QuietHist DEF Calm
  <2>3. QED
    BY <1>30, <2>1, <2>2, TurnTaken DEF CalmStep, CalmReject, Asked
<1>7. CASE ProbeObject(w)
  <2>1. PICK i \in DOMAIN Triples(w), answer \in BOOLEAN :
          /\ Probe(w, Triples(w)[i], answer)
          /\ call' = [call EXCEPT ![w] = [call[w] EXCEPT
               !.asked = call[w].asked \cup {Triples(w)[i]},
               !.found = call[w].found \cup IF answer THEN {Triples(w)[i]} ELSE {}]]
    BY <1>7 DEF ProbeObject
  <2> DEFINE v == Triples(w)[i]
             new == IF answer THEN {v} ELSE {}
  <2>2. v \in ToSet(Triples(w)) /\ v \in Vertices
    <3>1. Triples(w) \in Seq(Vertices)
      BY <1>7, InHandTyped DEF ProbeObject, InHand
    <3>2. QED
      BY <3>1 DEF ToSet
  <2>3. answer = (graph[v] # Absent) /\ hist' = hist
    BY <1>2, <2>1 DEF Success
  <2>4. new = {v} \cap Present
    BY <2>2, <2>3 DEF Present
  <2>5. call' = [call EXCEPT ![w] = [call[w] EXCEPT
             !.asked = call[w].asked \cup {v}, !.found = call[w].found \cup new]]
    BY <2>1
  <2> HIDE DEF v, new
  <2>6. /\ call'[w].asked = call[w].asked \cup {v} /\ call'[w].found = call[w].found \cup new
        /\ UNCHANGED <<call[w].op, call[w].strategy, call[w].dry, call[w].docs,
                       call[w].exists, call[w].done, call[w].k>>
    BY <2>5, CallFields
  <2>7. UNCHANGED <<graph, edges, pc, report>> /\ pc[w] = "probe"
    BY <1>7 DEF ProbeObject
  <2>8. CalmProbeObject(w)
    BY <2>2, <2>3, <2>4, <2>6, <2>7 DEF CalmProbeObject
  <2>9. QED
    BY <1>3, <1>30, <2>3, <2>6, <2>8 DEF CalmStep, Asked
<1>8. CASE ProbePaper(w)
  <2>1. PICK answer \in BOOLEAN :
          /\ Probe(w, Id(w), answer)
          /\ call' = [call EXCEPT ![w] = [call[w] EXCEPT !.exists = answer]]
    BY <1>8 DEF ProbePaper
  <2>2. answer = (graph[Id(w)] # Absent) /\ hist' = hist
    BY <1>2, <2>1 DEF Success
  <2>3. /\ call'[w].exists = answer
        /\ UNCHANGED <<call[w].op, call[w].strategy, call[w].dry, call[w].docs,
                       call[w].asked, call[w].found, call[w].done, call[w].k>>
    BY <2>1, CallFields
  <2>4. Asked(w) /\ Quiet(w)
    BY <1>3, <2>2, <2>3 DEF Asked
  <2>5. /\ UNCHANGED <<graph, edges, report>>
        /\ pc[w] = "probe" /\ pc'[w] = "paper"
        /\ ToSet(Triples(w)) \subseteq call[w].asked
    BY <1>1, <1>8, <1>32, <2>4 DEF ProbePaper, Goto
  <2>6. Id(w) = Doc(w).id
    BY <1>31, <2>4, <2>5
  <2>7. CalmProbePaper(w)
    BY <2>2, <2>3, <2>5, <2>6 DEF CalmProbePaper
  <2>8. QED
    BY <1>30, <2>4, <2>7 DEF CalmStep
<1>81. CASE Foresee(w)
  <2>1. pc[w] = "foresee" /\ NextDoc(w, Tail(call[w].docs)) /\ hist' = hist
    BY <1>81 DEF Foresee
  <2>2. Calm(w)
    BY <1>3, <1>30, <2>1, TurnTaken DEF Asked
  <2>3. QED
    BY <2>1, <2>2 DEF ListInv
<1>9. CASE UpsertPaper(w)
  <2> DEFINE d == Doc(w)
             n == report[w].created + IF call[w].exists THEN 0 ELSE 1
             m == hist[w].did \cup
                    {[kind |-> IF graph[d.id] = Absent THEN "created" ELSE "updated", id |-> d.id]}
  <2>1. /\ UNCHANGED <<edges, call>>
        /\ pc[w] = "paper" /\ pc'[w] = "links"
        /\ ~Skips(w)
        /\ graph' = [graph EXCEPT ![d.id] = d.content]
        /\ report' = [report EXCEPT ![w] = [report[w] EXCEPT !.created = n]]
        /\ hist' = [hist EXCEPT ![w] = [hist[w] EXCEPT !.did = m]]
    BY <1>1, <1>2, <1>9 DEF UpsertPaper, Goto
  <2> HIDE DEF n, m
  <2>2. /\ UNCHANGED <<hist[w].batch, hist[w].before, hist[w].rejected>>
        /\ hist'[w].did = m
        /\ Quiet(w)
    BY <2>1, QuietHist DEF Calm
  <2>3. /\ report'[w].created = n
        /\ UNCHANGED <<report[w].written, report[w].fresh, report[w].deleted>>
    BY <2>1, ReportFields
  <2>4. CalmUpsertPaper(w)
    BY <2>1, <2>2, <2>3 DEF CalmUpsertPaper, n, m
  <2>5. QED
    BY <1>30, <2>1, <2>2, <2>4 DEF CalmStep, Asked
<1>10. CASE SkipPaper(w)
  <2>1. /\ UNCHANGED <<graph, edges, call, report, hist>>
        /\ pc[w] = "paper" /\ pc'[w] = "account" /\ Skips(w)
    BY <1>1, <1>10 DEF SkipPaper, Goto
  <2>2. QED
    BY <1>3, <1>30, <2>1 DEF CalmStep, CalmSkipPaper, Asked
<1>11. CASE Abort(w)
  <2>1. hist'[w] = NoHist
    BY <1>1, <1>11 DEF Abort
  <2>2. QED
    BY <2>1 DEF NoHist, Calm, Quiet
<1>12. CASE UpsertObject(w)
  <2> DEFINE v == Triples(w)[call[w].k]
             n == report[w].created + IF v \in call[w].found THEN 0 ELSE 1
             m == hist[w].did \cup Creates({v})
             x == call[w].done \cup {v}
  <2>1. /\ UNCHANGED <<edges, pc>>
        /\ pc[w] = "links" /\ call[w].k <= Len(Triples(w)) /\ NeedsVertex(w)
        /\ graph' = [graph EXCEPT ![v] = Upserted(v)]
        /\ report' = [report EXCEPT ![w] = [report[w] EXCEPT !.created = n]]
        /\ call' = [call EXCEPT ![w] = [call[w] EXCEPT !.done = x]]
        /\ hist' = [hist EXCEPT ![w] = [hist[w] EXCEPT !.did = m]]
    BY <1>2, <1>12 DEF UpsertObject
  <2> HIDE DEF n, m, x
  <2>2. /\ UNCHANGED <<hist[w].batch, hist[w].before, hist[w].rejected>>
        /\ hist'[w].did = m
        /\ Quiet(w)
    BY <2>1, QuietHist DEF Calm
  <2>3. /\ report'[w].created = n
        /\ UNCHANGED <<report[w].written, report[w].fresh, report[w].deleted>>
    BY <2>1, ReportFields
  <2>4. /\ call'[w].done = x
        /\ UNCHANGED <<call[w].op, call[w].strategy, call[w].dry, call[w].docs,
                       call[w].asked, call[w].found, call[w].exists, call[w].k>>
    BY <2>1, CallFields
  <2>5. CalmUpsertObject(w)
    BY <2>1, <2>2, <2>3, <2>4 DEF CalmUpsertObject, n, m, x
  <2>6. QED
    BY <1>30, <2>2, <2>4, <2>5 DEF CalmStep, Asked
<1>13. CASE UpsertEdge(w)
  <2> DEFINE d == Id(w)
             v == Triples(w)[call[w].k]
             n == report[w].edges + 1
             m == hist[w].did \cup Creates({d, v})
             x == call[w].k + 1
  <2>1. /\ UNCHANGED pc
        /\ pc[w] = "links" /\ call[w].k <= Len(Triples(w)) /\ ~NeedsVertex(w)
        /\ edges' = edges \cup {<<d, v>>}
        /\ graph' = [y \in Vertices |->
             IF y \in {d, v} /\ graph[y] = Absent THEN Stub ELSE graph[y]]
        /\ report' = [report EXCEPT ![w] = [report[w] EXCEPT !.edges = n]]
        /\ call' = [call EXCEPT ![w] = [call[w] EXCEPT !.k = x]]
        /\ hist' = [hist EXCEPT ![w] = [hist[w] EXCEPT !.did = m]]
    BY <1>2, <1>13 DEF UpsertEdge
  <2> HIDE DEF n, m, x
  <2>2. /\ UNCHANGED <<hist[w].batch, hist[w].before, hist[w].rejected>>
        /\ hist'[w].did = m
        /\ Quiet(w)
    BY <2>1, QuietHist DEF Calm
  <2>3. UNCHANGED <<report[w].created, report[w].written, report[w].fresh, report[w].deleted>>
    BY <2>1, ReportFields
  <2>4. /\ call'[w].k = x
        /\ UNCHANGED <<call[w].op, call[w].strategy, call[w].dry, call[w].docs,
                       call[w].asked, call[w].found, call[w].exists, call[w].done>>
    BY <2>1, CallFields
  <2>41. d = Doc(w).id
    BY <1>31, <2>1, <2>2, <2>4 DEF Asked
  <2>5. CalmUpsertEdge(w)
    BY <2>1, <2>2, <2>3, <2>4, <2>41 DEF CalmUpsertEdge, m, x
  <2>6. QED
    BY <1>30, <2>2, <2>4, <2>5 DEF CalmStep, Asked
<1>14. CASE Account(w)
  <2> DEFINE d == Id(w)
             a == Append(report[w].written, d)
             b == report[w].fresh \cup IF call[w].exists THEN {} ELSE {d}
  <2>1. /\ UNCHANGED <<graph, edges, hist>>
        /\ \/ pc[w] = "account"
           \/ pc[w] = "links" /\ call[w].k > Len(Triples(w))
        /\ NextDoc(w, Tail(call[w].docs))
        /\ report' = IF Skips(w) THEN report
                     ELSE [report EXCEPT ![w] = [report[w] EXCEPT !.written = a, !.fresh = b]]
    BY <1>14 DEF Account
  <2> HIDE DEF a, b
  <2>11. Asked(w) /\ Quiet(w)
    BY <1>3, <2>1, TurnTaken DEF Asked
  <2>12. d = Doc(w).id
    BY <1>31, <2>1, <2>11
  <2>2. CASE Skips(w)
    <3>1. UNCHANGED report
      BY <2>1, <2>2
    <3>2. CalmAccount(w)
      BY <2>1, <2>2, <3>1, TurnTaken DEF CalmAccount
    <3>3. QED
      BY <1>30, <2>11, <3>2 DEF CalmStep
  <2>3. CASE ~Skips(w)
    <3>1. /\ report'[w].written = a /\ report'[w].fresh = b
          /\ UNCHANGED <<report[w].created, report[w].deleted>>
      BY <2>1, <2>3, WrittenFields
    <3>2. CalmAccount(w)
      BY <2>1, <2>12, <2>3, <3>1, TurnTaken DEF CalmAccount, a, b
    <3>3. QED
      BY <1>30, <2>11, <3>2 DEF CalmStep
  <2>4. QED
    BY <2>2, <2>3
<1>15. CASE ProbeDelete(w)
  <2>1. PICK answer \in BOOLEAN :
          /\ Probe(w, Doc(w).id, answer)
          /\ call' = [call EXCEPT ![w] = [call[w] EXCEPT !.exists = answer]]
    BY <1>15 DEF ProbeDelete
  <2>2. answer = (graph[Doc(w).id] # Absent) /\ hist' = hist
    BY <1>2, <2>1 DEF Success
  <2>3. call'[w].exists = answer /\ UNCHANGED <<call[w].op, call[w].strategy, call[w].dry, call[w].docs>>
    BY <2>1, CallFields, ZenonT(60)
  <2>4. Asked(w) /\ Quiet(w)
    BY <1>3, <2>2, <2>3 DEF Asked
  <2>5. /\ UNCHANGED <<graph, edges, report>>
        /\ pc[w] = "delete" /\ pc'[w] = "remove"
    BY <1>1, <1>15, <1>32, <2>4 DEF ProbeDelete, Goto
  <2>6. CalmProbeDelete(w)
    BY <2>2, <2>3, <2>5 DEF CalmProbeDelete
  <2>7. QED
    BY <1>30, <2>4, <2>6 DEF CalmStep
<1>16. CASE RemoveDoc(w)
  <2> DEFINE d == Doc(w).id
             x == IF graph[d] # Absent \/ call[w].exists THEN {d} ELSE {}
             did(u) == IF u = w /\ graph[d] # Absent
                         THEN hist[u].did \cup {[kind |-> "deleted", id |-> d]} ELSE hist[u].did
  <2>1. /\ UNCHANGED call
        /\ pc[w] = "remove" /\ pc'[w] = "emit"
        /\ graph' = [graph EXCEPT ![d] = Absent]
        /\ edges' = {e \in edges : d \notin {e[1], e[2]}}
        /\ report' = [report EXCEPT ![w] = [report[w] EXCEPT !.deleted = x]]
        /\ hist' = [u \in Workers |->
                      [hist[u] EXCEPT !.kept = hist[u].kept \ {d}, !.did = did(u)]]
    BY <1>1, <1>2, <1>16 DEF RemoveDoc, Goto
  <2>2. did(w) = hist[w].did \cup
          IF graph[d] # Absent THEN {[kind |-> "deleted", id |-> d]} ELSE {}
    OBVIOUS
  <2> HIDE DEF x, did
  <2> DEFINE h == [hist[w] EXCEPT !.kept = hist[w].kept \ {d}, !.did = did(w)]
  <2>3. /\ h.batch = hist[w].batch /\ h.before = hist[w].before /\ h.rejected = hist[w].rejected
        /\ h.alone = hist[w].alone /\ h.blind = hist[w].blind /\ h.failed = hist[w].failed
        /\ h.did = did(w)
    BY <1>1 DEF History
  <2>4. hist'[w] = h
    BY <2>1
  <2> HIDE DEF h
  <2>5. /\ UNCHANGED <<hist[w].batch, hist[w].before, hist[w].rejected>>
        /\ hist'[w].did = did(w)
        /\ Quiet(w)
    BY <2>3, <2>4 DEF Calm, Quiet
  <2>6. /\ report'[w].deleted = x
        /\ UNCHANGED <<report[w].created, report[w].written, report[w].fresh>>
    BY <2>1, ReportFields
  <2>7. CalmRemoveDoc(w)
    BY <2>1, <2>2, <2>5, <2>6 DEF CalmRemoveDoc, x
  <2>8. QED
    BY <1>30, <2>1, <2>5, <2>7 DEF CalmStep, Asked
<1>17. CASE Emit(w)
  <2> DEFINE c == [NoCall EXCEPT !.op = call[w].op, !.strategy = call[w].strategy,
                                 !.dry = call[w].dry]
  <2>1. /\ c.op = call[w].op /\ c.strategy = call[w].strategy /\ c.dry = call[w].dry
        /\ c.docs = <<>>
    BY DEF NoCall
  <2>2. /\ UNCHANGED <<graph, edges, report, hist>>
        /\ pc[w] = "emit" /\ pc'[w] = "done"
        /\ call' = [call EXCEPT ![w] = c]
        /\ events' = [events EXCEPT ![w] = IF call[w].dry THEN {} ELSE Published(w)]
    BY <1>1, <1>17 DEF Emit, Goto
  <2> HIDE DEF c
  <2>3. call'[w] = c
    BY <1>1, <2>2
  <2>4. Asked(w) /\ Quiet(w)
    BY <1>3, <2>1, <2>2, <2>3 DEF Asked
  <2>5. events'[w] = Published(w)
    BY <1>32, <2>2, <2>4 DEF TypeOK
  <2>6. CalmEmit(w)
    BY <2>1, <2>2, <2>3, <2>5 DEF CalmEmit
  <2>7. QED
    BY <1>30, <2>4, <2>6 DEF CalmStep
<1>18. QED
  BY <1>4, <1>5, <1>6, <1>7, <1>8, <1>81, <1>9, <1>10, <1>11, <1>12, <1>13, <1>14, <1>15, <1>16, <1>17
     DEF Serves

\* A request that is calm after a step has just begun, or has taken a step of
\* its own in calm, or was not touched.
LEMMA CalmNext ==
  ASSUME TypeOK, AloneInv, [Next]_vars, NEW w \in Workers, Calm(w) => ListInv(w), Calm(w)'
  PROVE  \/ CalmBegin(w)
         \/ CalmStep(w)
         \/ Calm(w) /\ UNCHANGED vars
<1>1. ASSUME NEW u \in Workers, Starts(u) \/ Serves(u) PROVE u = w
  <2>1. hist'[w].alone
    BY DEF Calm, Quiet
  <2>2. CASE Starts(u)
    BY <2>1, <2>2, StartsAlone
  <2>3. CASE Serves(u)
    BY <2>1, <2>3, ServesAlone DEF AloneInv
  <2>4. QED
    BY <1>1, <2>2, <2>3
<1>2. CASE Next
  BY <1>1, <1>2, NextServes, CalmStart, CalmServes
<1>3. CASE UNCHANGED vars
  BY <1>3 DEF vars, Calm, Quiet, Batch
<1>4. QED
  BY <1>2, <1>3

\* When the next document has its turn, one more of the batch is done with.
LEMMA TurnMoves ==
  ASSUME TypeOK, NEW w \in Workers, ListInv(w), pc[w] \in InHand,
         Turn(w, Tail(call[w].docs)), Asked(w)
  PROVE  /\ At(w)' = At(w) + 1
         /\ Batch(w)' = Batch(w)
         /\ Len(call'[w].docs) <= Len(Batch(w))
         /\ \A i \in 1..Len(call'[w].docs) : call'[w].docs[i] = Batch(w)[At(w)' + i]
         /\ call[w].op # "ingest" => call'[w].docs = <<>>
         /\ pc'[w] = "emit" => call'[w].docs = <<>>
<1>1. /\ call[w].docs \in Seq(Document) /\ call[w].docs # <<>>
      /\ Batch(w) \in Seq(Document)
      /\ Len(call[w].docs) <= Len(Batch(w))
      /\ \A i \in 1..Len(call[w].docs) : call[w].docs[i] = Batch(w)[At(w) + i]
      /\ call[w].op # "ingest" => Len(Batch(w)) = 1
  BY DEF TypeOK, Call, ListInv
<1>2. /\ call'[w].docs = Tail(call[w].docs)
      /\ pc'[w] = IF Tail(call[w].docs) = <<>> THEN "emit" ELSE "probe"
      /\ Batch(w)' = Batch(w)
  BY DEF Turn, Asked, Batch
<1> DEFINE rest == Tail(call[w].docs)
<1>3. /\ Len(call[w].docs) \in Nat \ {0} /\ Len(Batch(w)) \in Nat
      /\ rest \in Seq(Document) /\ Len(rest) = Len(call[w].docs) - 1
      /\ \A i \in 1..Len(rest) : rest[i] = call[w].docs[i + 1]
  BY <1>1, LenProperties, EmptySeq, HeadTailProperties
<1>4. rest = <<>> <=> Len(rest) = 0
  BY <1>3, EmptySeq
<1> HIDE DEF rest
<1>5. At(w)' = At(w) + 1 /\ At(w) \in Int
  <2>1. Len(call'[w].docs) = Len(call[w].docs) - 1
    BY <1>2, <1>3 DEF rest
  <2>2. At(w)' = Len(Batch(w)) - (Len(call[w].docs) - 1)
    BY <1>2, <2>1 DEF At
  <2>3. \A m, n \in Nat : m - (n - 1) = (m - n) + 1 /\ m - n \in Int
    OBVIOUS
  <2>4. QED
    BY <1>3, <2>2, <2>3 DEF At
<1>6. \A i \in 1..Len(rest) : rest[i] = Batch(w)[At(w)' + i]
  <2> TAKE i \in 1..Len(rest)
  <2>1. i + 1 \in 1..Len(call[w].docs) /\ rest[i] = call[w].docs[i + 1]
    BY <1>3
  <2>2. rest[i] = Batch(w)[At(w) + (i + 1)]
    BY <1>1, <2>1
  <2>3. At(w) + (i + 1) = At(w)' + i
    BY <1>3, <1>5
  <2>4. QED
    BY <2>2, <2>3
<1>7. call[w].op # "ingest" => rest = <<>>
  BY <1>1, <1>3, <1>4
<1>8. call'[w].docs = rest /\ (pc'[w] = "emit" => rest = <<>>)
  BY <1>2 DEF rest
<1>9. Len(rest) <= Len(Batch(w))
  BY <1>1, <1>3
<1>10. QED
  BY <1>2, <1>5, <1>6, <1>7, <1>8, <1>9

LEMMA ListKept ==
  ASSUME TypeOK, NEW w \in Workers,
         \/ CalmBegin(w)
         \/ CalmStep(w) /\ ListInv(w)
  PROVE  ListInv(w)'
<1>1. CASE CalmBegin(w)
  <2>1. Batch(w)' = call'[w].docs /\ call'[w].docs \in Seq(Document) \ {<<>>}
    BY <1>1 DEF CalmBegin, Batch
  <2>2. At(w)' = 0
    BY <2>1, LenProperties DEF At
  <2>3. \A i \in 1..Len(call'[w].docs) : call'[w].docs[i] = Batch(w)'[At(w)' + i]
    BY <2>1, <2>2
  <2>4. QED
    BY <1>1, <2>1, <2>3, LenProperties DEF CalmBegin, ListInv
<1>2. ASSUME CalmStep(w), ListInv(w), UNCHANGED call[w].docs, UNCHANGED call[w].exists,
             \/ pc[w] = "update" /\ pc'[w] \in {"dropEdges", "probe"}
             \/ pc[w] = "dropEdges" /\ pc'[w] = "probe"
             \/ pc[w] = "probe" /\ pc'[w] = "probe"
             \/ pc[w] = "paper" /\ pc'[w] = "links" /\ ~Skips(w)
             \/ pc[w] = "paper" /\ pc'[w] = "account" /\ Skips(w)
             \/ pc[w] = "links" /\ pc'[w] = "links"
             \/ pc[w] = "remove" /\ pc'[w] = "emit"
      PROVE  ListInv(w)'
  BY <1>2 DEF ListInv, CalmStep, Asked, Batch, At, Skips
<1>3. ASSUME CalmStep(w), ListInv(w), UNCHANGED call[w].docs,
             \/ pc[w] = "probe" /\ pc'[w] = "paper"
             \/ pc[w] = "delete" /\ pc'[w] = "remove"
      PROVE  ListInv(w)'
  BY <1>3 DEF ListInv, CalmStep, Asked, Batch, At
<1>4. CASE CalmStep(w) /\ ListInv(w) /\ (CalmReject(w) \/ CalmAccount(w))
  <2>1. /\ pc[w] \in InHand /\ pc[w] \notin {"delete", "remove", "update", "dropEdges"}
        /\ Turn(w, Tail(call[w].docs)) /\ Asked(w)
        /\ pc'[w] \in {"probe", "emit"}
    BY <1>4 DEF CalmStep, CalmReject, CalmAccount, InHand, Turn
  <2>2. /\ Batch(w)' = Batch(w)
        /\ Len(call'[w].docs) <= Len(Batch(w))
        /\ \A i \in 1..Len(call'[w].docs) : call'[w].docs[i] = Batch(w)[At(w)' + i]
        /\ call[w].op # "ingest" => call'[w].docs = <<>>
        /\ pc'[w] = "emit" => call'[w].docs = <<>>
    BY <1>4, <2>1, TurnMoves
  <2>3. call[w].op # "delete"
    BY <1>4, <2>1 DEF ListInv, InHand
  <2>4. QED
    BY <1>4, <2>1, <2>2, <2>3 DEF ListInv, Asked
<1>5. CASE CalmStep(w) /\ ListInv(w) /\ CalmEmit(w)
  <2>1. /\ call'[w].docs = <<>> /\ pc'[w] = "done"
        /\ Asked(w) /\ Batch(w)' = Batch(w)
    BY <1>5 DEF CalmStep, CalmEmit, Asked, Batch
  <2>2. Len(call'[w].docs) = 0 /\ Len(Batch(w)) \in Nat
    BY <1>5, <2>1, LenProperties, EmptySeq DEF ListInv
  <2>3. QED
    BY <1>5, <2>1, <2>2 DEF ListInv, Asked
<1>6. QED
  BY <1>1, <1>2, <1>3, <1>4, <1>5
     DEF CalmStep, CalmProbeUpdate, CalmDropEdges, CalmProbeObject, CalmProbePaper, CalmUpsertPaper,
         CalmSkipPaper, CalmUpsertObject, CalmUpsertEdge, CalmProbeDelete, CalmRemoveDoc

\* A list that has not been touched has its first document in hand.
LEMMA FirstInHand ==
  ASSUME TypeOK, NEW w \in Workers, ListInv(w), pc[w] \in {"delete", "remove", "update", "dropEdges"}
  PROVE  Doc(w) = Batch(w)[1] /\ Doc(w).id \in Papers
<1>1. pc[w] \in InHand
  BY DEF InHand
<1>2. At(w) = 0
  <2>1. call[w].docs = Batch(w) /\ Len(Batch(w)) \in Nat
    BY LenProperties DEF ListInv
  <2>2. QED
    BY <2>1 DEF At
<1>3. Doc(w) = Batch(w)[At(w) + 1] /\ Doc(w).id \in Papers
  BY <1>1, HandIsNext
<1>4. QED
  BY <1>2, <1>3

-----------------------------------------------------------------------------
(* delete_document.                                                         *)

DeleteInv(w) ==
  LET d == Batch(w)[1].id IN
  call[w].op = "delete" =>
    /\ pc[w] \in {"delete", "remove"} => hist[w].before = Present
    /\ pc[w] = "remove" => (call[w].exists <=> d \in Present)
    /\ pc[w] \in {"emit", "done"} =>
         /\ graph[d] = Absent
         /\ \A e \in edges : d \notin {e[1], e[2]}
         /\ report[w].deleted = {d} \cap hist[w].before

LEMMA DeleteKept ==
  ASSUME TypeOK, NEW w \in Workers,
         \/ CalmBegin(w)
         \/ CalmStep(w) /\ ListInv(w) /\ DeleteInv(w)
  PROVE  DeleteInv(w)'
<1>1. CASE CalmBegin(w)
  BY <1>1 DEF CalmBegin, DeleteInv, Present
<1>2. CASE CalmStep(w) /\ ListInv(w) /\ DeleteInv(w)
  <2> SUFFICES ASSUME call'[w].op = "delete" PROVE DeleteInv(w)'
    BY DEF DeleteInv
  <2>1. /\ call[w].op = "delete" /\ pc[w] \in {"delete", "remove", "emit", "done"}
        /\ Batch(w)' = Batch(w) /\ hist'[w].before = hist[w].before
    BY <1>2 DEF CalmStep, Asked, ListInv, Batch
  <2>2. CASE CalmProbeDelete(w)
    <3>1. Doc(w) = Batch(w)[1] /\ Doc(w).id \in Papers
      BY <1>2, <2>2, FirstInHand DEF CalmProbeDelete
    <3>2. call'[w].exists <=> Doc(w).id \in Present'
      BY <2>2, <3>1 DEF CalmProbeDelete, Present, Vertices
    <3>3. QED
      BY <1>2, <2>1, <2>2, <3>1, <3>2 DEF CalmProbeDelete, DeleteInv, Present
  <2>3. CASE CalmRemoveDoc(w)
    <3> DEFINE d == Doc(w).id
    <3>1. d = Batch(w)[1].id /\ d \in Papers
      BY <1>2, <2>3, FirstInHand DEF CalmRemoveDoc
    <3>2. graph[d] # Absent <=> d \in Present
      BY <3>1 DEF Present, Vertices
    <3>3. hist[w].before = Present /\ (call[w].exists <=> d \in Present)
      BY <1>2, <2>1, <2>3, <3>1 DEF CalmRemoveDoc, DeleteInv
    <3>4. report'[w].deleted = {d} \cap hist'[w].before
      BY <2>1, <2>3, <3>2, <3>3 DEF CalmRemoveDoc
    <3>5. graph'[d] = Absent /\ \A e \in edges' : d \notin {e[1], e[2]}
      BY <2>3, <3>1 DEF CalmRemoveDoc, TypeOK, Vertices
    <3>6. pc'[w] = "emit"
      BY <2>3 DEF CalmRemoveDoc
    <3> HIDE DEF d
    <3>7. QED
      BY <2>1, <3>1, <3>4, <3>5, <3>6 DEF DeleteInv
  <2>4. CASE CalmEmit(w)
    BY <1>2, <2>1, <2>4 DEF CalmEmit, DeleteInv
  <2>5. QED
    BY <1>2, <2>1, <2>2, <2>3, <2>4
       DEF CalmStep, CalmProbeUpdate, CalmDropEdges, CalmReject, CalmProbeObject, CalmProbePaper,
           CalmUpsertPaper, CalmSkipPaper, CalmUpsertObject, CalmUpsertEdge, CalmAccount
<1>3. QED
  BY <1>1, <1>2

-----------------------------------------------------------------------------
(* The events of what was done.                                             *)

EventInv(w) ==
  /\ \A d \in report[w].fresh : [kind |-> "created", id |-> d] \in hist[w].did
  /\ \A d \in ToSet(report[w].written) \ report[w].fresh :
       [kind |-> "updated", id |-> d] \in hist[w].did
  /\ \A d \in report[w].deleted : [kind |-> "deleted", id |-> d] \in hist[w].did
  /\ pc[w] \in {"paper", "remove"} => (call[w].exists <=> Doc(w).id \in Present)
  /\ pc[w] = "links" =>
       [kind |-> IF call[w].exists THEN "updated" ELSE "created", id |-> Doc(w).id] \in hist[w].did
  /\ pc[w] = "done" => events[w] \subseteq hist[w].did

LEMMA EventKept ==
  ASSUME TypeOK, NEW w \in Workers,
         \/ CalmBegin(w)
         \/ CalmStep(w) /\ ListInv(w) /\ EventInv(w)
  PROVE  EventInv(w)'
<1>1. CASE CalmBegin(w)
  BY <1>1 DEF CalmBegin, EventInv, Blank, ToSet
<1>2. ASSUME CalmStep(w), EventInv(w), UNCHANGED <<graph, report[w], hist[w]>>,
             pc'[w] \in {"dropEdges", "probe", "account", "emit"}
      PROVE  EventInv(w)'
  BY <1>2 DEF EventInv
<1>3. CASE CalmStep(w) /\ ListInv(w) /\ EventInv(w) /\ CalmReject(w)
  BY <1>3 DEF EventInv, CalmReject, Turn
<1>4. CASE CalmStep(w) /\ ListInv(w) /\ EventInv(w) /\ (CalmProbePaper(w) \/ CalmProbeDelete(w))
  <2>1. pc[w] \in InHand /\ UNCHANGED <<graph, report[w], hist[w], call[w].docs>>
        /\ call'[w].exists = (graph[Doc(w).id] # Absent) /\ pc'[w] \in {"paper", "remove"}
    BY <1>4 DEF CalmProbePaper, CalmProbeDelete, InHand
  <2>2. Doc(w)' = Doc(w) /\ Doc(w).id \in Papers
    BY <2>1, InHandTyped DEF Doc
  <2>3. QED
    BY <1>4, <2>1, <2>2 DEF EventInv, Present, Vertices
<1>5. CASE CalmStep(w) /\ ListInv(w) /\ EventInv(w) /\ CalmUpsertPaper(w)
  <2>1. pc[w] \in InHand
    BY <1>5 DEF CalmUpsertPaper, InHand
  <2>2. Doc(w)' = Doc(w) /\ Doc(w).id \in Papers
    BY <1>5, <2>1, InHandTyped DEF Doc, CalmUpsertPaper
  <2>3. call[w].exists <=> graph[Doc(w).id] # Absent
    BY <1>5, <2>2 DEF EventInv, CalmUpsertPaper, Present, Vertices
  <2>4. call'[w].exists = call[w].exists /\ pc'[w] = "links"
    BY <1>5 DEF CalmUpsertPaper
  <2>5. hist'[w].did = hist[w].did \cup
          {[kind |-> IF call[w].exists THEN "updated" ELSE "created", id |-> Doc(w).id]}
    BY <1>5, <2>3 DEF CalmUpsertPaper
  <2>6. UNCHANGED <<report[w].written, report[w].fresh, report[w].deleted>>
    BY <1>5 DEF CalmUpsertPaper
  <2>7. QED
    BY <1>5, <2>2, <2>4, <2>5, <2>6 DEF EventInv
<1>6. CASE CalmStep(w) /\ ListInv(w) /\ EventInv(w) /\ (CalmUpsertObject(w) \/ CalmUpsertEdge(w))
  <2>1. /\ UNCHANGED <<report[w].written, report[w].fresh, report[w].deleted,
                       call[w].docs, call[w].exists>>
        /\ hist[w].did \subseteq hist'[w].did
        /\ pc[w] = "links" /\ pc'[w] = "links"
    BY <1>6 DEF CalmUpsertObject, CalmUpsertEdge
  <2>2. Doc(w)' = Doc(w)
    BY <2>1 DEF Doc
  <2>3. QED
    BY <1>6, <2>1, <2>2 DEF EventInv
<1>7. CASE CalmStep(w) /\ ListInv(w) /\ EventInv(w) /\ CalmAccount(w)
  <2>1. UNCHANGED hist[w] /\ pc'[w] \in {"emit", "probe"} /\ UNCHANGED report[w].deleted
    BY <1>7 DEF CalmAccount, Turn
  <2>2. CASE Skips(w)
    BY <1>7, <2>1, <2>2 DEF CalmAccount, EventInv
  <2>3. CASE ~Skips(w)
    <3> DEFINE d == Doc(w).id
    <3>1. pc[w] = "links"
      BY <1>7, <2>3 DEF CalmAccount, ListInv
    <3>2. d \in Docs /\ report[w].written \in Seq(Docs)
      <4>1. Calm(w) /\ ListInv(w) /\ pc[w] \in InHand /\ call[w].op # "delete"
        BY <1>7, <3>1 DEF CalmStep, InHand, ListInv
      <4>2. QED
        BY <4>1, HandPlain DEF TypeOK, Report
    <3>3. ToSet(report'[w].written) = ToSet(report[w].written) \cup {d}
      <4>1. report'[w].written = Append(report[w].written, d)
        BY <1>7, <2>3 DEF CalmAccount
      <4>2. ToSet(Append(report[w].written, d)) = ToSet(report[w].written) \cup {d}
        BY <3>2, MembersOfAppend
      <4>3. QED
        BY <4>1, <4>2
    <3>4. report'[w].fresh = report[w].fresh \cup IF call[w].exists THEN {} ELSE {d}
      BY <1>7, <2>3 DEF CalmAccount
    <3>5. [kind |-> IF call[w].exists THEN "updated" ELSE "created", id |-> d] \in hist[w].did
      BY <1>7, <3>1 DEF EventInv
    <3> HIDE DEF d
    <3>6. \A x \in report'[w].fresh : [kind |-> "created", id |-> x] \in hist[w].did
      BY <1>7, <3>4, <3>5 DEF EventInv
    <3>7. \A x \in ToSet(report'[w].written) \ report'[w].fresh :
            [kind |-> "updated", id |-> x] \in hist[w].did
      BY <1>7, <3>3, <3>4, <3>5 DEF EventInv
    <3>8. QED
      BY <1>7, <2>1, <3>6, <3>7 DEF EventInv
  <2>4. QED
    BY <2>2, <2>3
<1>8. CASE CalmStep(w) /\ ListInv(w) /\ EventInv(w) /\ CalmRemoveDoc(w)
  <2> DEFINE d == Doc(w).id
  <2>1. d \in Papers
    BY <1>8, InHandTyped DEF CalmRemoveDoc, InHand
  <2>2. call[w].exists <=> graph[d] # Absent
    BY <1>8, <2>1 DEF EventInv, CalmRemoveDoc, Present, Vertices
  <2>3. \A x \in report'[w].deleted : [kind |-> "deleted", id |-> x] \in hist'[w].did
    BY <1>8, <2>2 DEF CalmRemoveDoc
  <2>4. /\ UNCHANGED <<report[w].written, report[w].fresh>> /\ pc'[w] = "emit"
        /\ hist[w].did \subseteq hist'[w].did
    BY <1>8 DEF CalmRemoveDoc
  <2>5. QED
    BY <1>8, <2>3, <2>4 DEF EventInv
<1>9. CASE CalmStep(w) /\ ListInv(w) /\ EventInv(w) /\ CalmEmit(w)
  <2>1. UNCHANGED <<report[w], hist[w]>> /\ pc'[w] = "done"
    BY <1>9 DEF CalmEmit
  <2>2. ASSUME NEW m \in events'[w] PROVE m \in hist[w].did
    <3>1. \/ \E d \in ToSet(report[w].written) :
               m = [kind |-> IF d \in report[w].fresh THEN "created" ELSE "updated", id |-> d]
          \/ \E d \in report[w].deleted : m = [kind |-> "deleted", id |-> d]
      BY <1>9, <2>2 DEF CalmEmit, Published
    <3>2. QED
      BY <1>9, <3>1 DEF EventInv
  <2>3. QED
    BY <1>9, <2>1, <2>2 DEF EventInv
<1>10. QED
  BY <1>1, <1>2, <1>3, <1>4, <1>5, <1>6, <1>7, <1>8, <1>9
     DEF CalmStep, CalmProbeUpdate, CalmDropEdges, CalmProbeObject, CalmSkipPaper

-----------------------------------------------------------------------------
(* The edges of a document that is replaced.                                *)

\* A document that is not yet being written has none of its triples done.
FreshInv(w) ==
  /\ pc[w] \in {"update", "dropEdges"} => call[w].asked = {} /\ call[w].found = {}
  /\ pc[w] \in {"update", "dropEdges", "probe", "paper"} => call[w].done = {} /\ call[w].k = 1

LEMMA FreshKept ==
  ASSUME TypeOK, NEW w \in Workers,
         \/ CalmBegin(w)
         \/ CalmStep(w) /\ ListInv(w) /\ FreshInv(w)
  PROVE  FreshInv(w)'
<1>1. CASE CalmBegin(w)
  BY <1>1 DEF CalmBegin, FreshInv
<1>2. CASE CalmStep(w) /\ ListInv(w) /\ FreshInv(w)
  <2>1. CASE CalmReject(w) \/ CalmAccount(w)
    BY <2>1 DEF CalmReject, CalmAccount, Turn, FreshInv
  <2>2. CASE CalmProbeUpdate(w) \/ CalmDropEdges(w) \/ CalmProbeObject(w) \/ CalmProbePaper(w)
    BY <1>2, <2>2 DEF CalmProbeUpdate, CalmDropEdges, CalmProbeObject, CalmProbePaper, FreshInv
  <2>3. CASE pc'[w] \in {"links", "account", "remove", "emit", "done"}
    BY <2>3 DEF FreshInv
  <2>4. QED
    BY <1>2, <2>1, <2>2, <2>3
       DEF CalmStep, CalmUpsertPaper, CalmSkipPaper, CalmUpsertObject, CalmUpsertEdge,
           CalmProbeDelete, CalmRemoveDoc, CalmEmit
<1>3. QED
  BY <1>1, <1>2

\* What d is linked to, and the members of a sequence before a position.
LinksOf(d) == {e[2] : e \in {x \in edges : x[1] = d}}
Before(s, k) == {s[i] : i \in {j \in DOMAIN s : j < k}}

LEMMA BeforeBounds ==
  ASSUME NEW S, NEW s \in Seq(S)
  PROVE  /\ Before(s, 1) = {}
         /\ \A k \in Nat : k > Len(s) => Before(s, k) = ToSet(s)
         /\ \A k \in 1..Len(s) : Before(s, k + 1) = Before(s, k) \cup {s[k]}
<1>1. Len(s) \in Nat /\ DOMAIN s = 1..Len(s)
  BY LenProperties
<1>2. {j \in DOMAIN s : j < 1} = {}
  BY <1>1
<1>3. ASSUME NEW k \in Nat, k > Len(s) PROVE {j \in DOMAIN s : j < k} = DOMAIN s
  BY <1>1, <1>3
<1>4. ASSUME NEW k \in 1..Len(s)
      PROVE {j \in DOMAIN s : j < k + 1} = {j \in DOMAIN s : j < k} \cup {k}
  BY <1>1, <1>4
<1>5. QED
  BY <1>2, <1>3, <1>4 DEF Before, ToSet

\* A request that is no ingest has one document, the first of its batch.
LEMMA OnlyOne ==
  ASSUME TypeOK, NEW w \in Workers, ListInv(w), pc[w] \in InHand, call[w].op # "ingest"
  PROVE  Doc(w) = Batch(w)[1] /\ At(w) = 0
<1>1. At(w) \in Nat /\ At(w) + 1 \in 1..Len(Batch(w)) /\ Doc(w) = Batch(w)[At(w) + 1]
  BY HandIsNext
<1>2. Len(Batch(w)) = 1
  BY DEF ListInv
<1>3. At(w) = 0
  BY <1>1, <1>2
<1>4. QED
  BY <1>1, <1>3

Replaces(w) == call[w].op = "update" /\ call[w].strategy = "exact_id" /\ ~hist[w].rejected

ReplaceInv(w) ==
  LET b == Batch(w)[1] IN
  Replaces(w) =>
    /\ pc[w] \in {"probe", "paper"} => LinksOf(b.id) = {}
    /\ pc[w] = "links" => LinksOf(b.id) = Before(Links[b.content], call[w].k)
    /\ pc[w] \in {"emit", "done"} => LinksOf(b.id) = ToSet(Links[b.content])

LEMMA ReplaceKept ==
  ASSUME TypeOK, EndsPresent, NEW w \in Workers,
         \/ CalmBegin(w)
         \/ CalmStep(w) /\ ListInv(w) /\ FreshInv(w) /\ ReplaceInv(w)
  PROVE  ReplaceInv(w)'
<1>1. CASE CalmBegin(w)
  BY <1>1 DEF CalmBegin, ReplaceInv, Replaces
<1>2. CASE CalmStep(w) /\ ListInv(w) /\ FreshInv(w) /\ ReplaceInv(w)
  <2> SUFFICES ASSUME Replaces(w)' PROVE ReplaceInv(w)'
    BY DEF ReplaceInv
  <2> DEFINE b == Batch(w)[1]
  <2>1. call[w].op = "update" /\ call[w].strategy = "exact_id" /\ b' = b
    BY <1>2 DEF CalmStep, Asked, Replaces, Batch
  <2>2. ~Skips(w) /\ pc[w] \notin {"account", "delete", "remove"}
    BY <1>2, <2>1 DEF Skips, ListInv
  <2>3. Replaces(w)
    BY <1>2, <2>1
       DEF Replaces, CalmStep, CalmProbeUpdate, CalmDropEdges, CalmReject, CalmProbeObject,
           CalmProbePaper, CalmUpsertPaper, CalmSkipPaper, CalmUpsertObject, CalmUpsertEdge,
           CalmAccount, CalmProbeDelete, CalmRemoveDoc, CalmEmit
  <2>4. pc[w] \in InHand => /\ Doc(w) = b /\ b.id \in Papers /\ b.content \in Contents
                            /\ Triples(w) = Links[b.content] /\ Links[b.content] \in Seq(Vertices)
    BY <1>2, <2>1, OnlyOne, InHandTyped DEF Triples
  <2> HIDE DEF b
  <2>5. CASE CalmProbeUpdate(w)
    <3>1. pc'[w] = "probe" => graph[b.id] = Absent
      BY <2>4, <2>5 DEF CalmProbeUpdate, InHand
    <3>2. graph[b.id] = Absent => LinksOf(b.id) = {}
      BY DEF EndsPresent, Present, LinksOf
    <3>3. UNCHANGED edges /\ pc'[w] \in {"probe", "dropEdges"}
      BY <2>5 DEF CalmProbeUpdate
    <3>4. QED
      BY <2>1, <3>1, <3>2, <3>3 DEF ReplaceInv, LinksOf, b
  <2>6. CASE CalmDropEdges(w)
    <3>1. edges' = {e \in edges : e[1] # b.id} /\ pc'[w] = "probe"
      BY <2>4, <2>6 DEF CalmDropEdges, InHand
    <3>2. {x \in edges' : x[1] = b.id} = {}
      BY <3>1
    <3>3. QED
      BY <2>1, <3>1, <3>2 DEF ReplaceInv, LinksOf, b
  <2>7. CASE CalmProbeObject(w) \/ CalmProbePaper(w)
    <3>1. UNCHANGED edges /\ pc[w] = "probe" /\ pc'[w] \in {"probe", "paper"}
      BY <2>7 DEF CalmProbeObject, CalmProbePaper
    <3>2. QED
      BY <1>2, <2>1, <2>3, <3>1 DEF ReplaceInv, LinksOf, b
  <2>8. CASE CalmUpsertPaper(w)
    <3>1. UNCHANGED <<edges, call[w]>> /\ pc[w] = "paper" /\ pc'[w] = "links"
      BY <2>8 DEF CalmUpsertPaper
    <3>2. LinksOf(b.id) = {}
      BY <1>2, <2>3, <3>1 DEF ReplaceInv, b
    <3>3. call'[w].k = 1
      BY <1>2, <3>1 DEF FreshInv
    <3>4. Before(Links[b.content], 1) = {}
      BY <2>4, <3>1, BeforeBounds DEF InHand
    <3>5. QED
      BY <2>1, <3>1, <3>2, <3>3, <3>4 DEF ReplaceInv, LinksOf, b
  <2>9. CASE CalmUpsertObject(w)
    <3>1. UNCHANGED <<edges, call[w].k>> /\ pc[w] = "links" /\ pc'[w] = "links"
      BY <2>9 DEF CalmUpsertObject
    <3>2. QED
      BY <1>2, <2>1, <2>3, <3>1 DEF ReplaceInv, LinksOf, b
  <2>10. CASE CalmUpsertEdge(w)
    <3> DEFINE s == Links[b.content]
               k == call[w].k
    <3>1. pc[w] = "links" /\ pc'[w] = "links" /\ call'[w].k = k + 1 /\ k <= Len(Triples(w))
      BY <2>10 DEF CalmUpsertEdge
    <3>2. Triples(w) = s /\ s \in Seq(Vertices) /\ k \in Nat \ {0} /\ Len(s) \in Nat
      BY <2>4, <3>1, TripleTyped, LenProperties DEF InHand
    <3>3. edges' = edges \cup {<<b.id, s[k]>>}
      BY <2>4, <2>10, <3>1, <3>2 DEF CalmUpsertEdge, InHand
    <3>4. LinksOf(b.id) = Before(s, k)
      BY <1>2, <2>3, <3>1 DEF ReplaceInv, b
    <3>5. Before(s, k + 1) = Before(s, k) \cup {s[k]}
      BY <3>1, <3>2, BeforeBounds, SMTT(30)
    <3>6. LinksOf(b.id)' = LinksOf(b.id) \cup {s[k]}
      <4>1. LinksOf(b.id)' = {e[2] : e \in {x \in edges' : x[1] = b.id}}
        BY <2>1 DEF LinksOf
      <4> HIDE DEF s, k
      <4>2. {x \in edges' : x[1] = b.id} = {x \in edges : x[1] = b.id} \cup {<<b.id, s[k]>>}
        BY <3>3
      <4>3. <<b.id, s[k]>>[2] = s[k]
        OBVIOUS
      <4>4. QED
        BY <4>1, <4>2, <4>3 DEF LinksOf
    <3>7. QED
      BY <2>1, <3>1, <3>4, <3>5, <3>6 DEF ReplaceInv, b
  <2>11. CASE CalmAccount(w)
    <3>1. /\ UNCHANGED edges /\ Turn(w, Tail(call[w].docs)) /\ Asked(w)
          /\ pc[w] = "links" /\ call[w].k > Len(Triples(w))
      BY <1>2, <2>2, <2>11 DEF CalmAccount, CalmStep
    <3>2. call'[w].docs = <<>>
      BY <1>2, <2>1, <3>1, TurnMoves DEF InHand
    <3>3. pc'[w] = "emit"
      BY <3>1, <3>2 DEF Turn
    <3>4. LinksOf(b.id) = Before(Links[b.content], call[w].k)
      BY <1>2, <2>3, <3>1 DEF ReplaceInv, b
    <3>5. call[w].k \in Nat
      BY DEF TypeOK, Call
    <3>6. Before(Links[b.content], call[w].k) = ToSet(Links[b.content])
      BY <2>4, <3>1, <3>5, BeforeBounds DEF InHand
    <3>7. QED
      BY <2>1, <3>1, <3>3, <3>4, <3>6 DEF ReplaceInv, LinksOf, b
  <2>12. CASE CalmEmit(w)
    <3>1. UNCHANGED edges /\ pc[w] = "emit" /\ pc'[w] = "done"
      BY <2>12 DEF CalmEmit
    <3>2. QED
      BY <1>2, <2>1, <2>3, <3>1 DEF ReplaceInv, LinksOf, b
  <2>13. CASE CalmReject(w)
    BY <2>13 DEF CalmReject, Replaces
  <2>14. QED
    BY <1>2, <2>2, <2>5, <2>6, <2>7, <2>8, <2>9, <2>10, <2>11, <2>12, <2>13
       DEF CalmStep, CalmSkipPaper, CalmProbeDelete, CalmRemoveDoc
<1>3. QED
  BY <1>1, <1>2

-----------------------------------------------------------------------------
(* What an ingest under EXACT_ID leaves of every document of its batch.     *)

Repairs(w) == call[w].op # "delete" /\ call[w].strategy = "exact_id" /\ ~hist[w].rejected

\* A document that is done with has its payload, or a later one of the same id
\* has been done with, or is in hand and written.
Settled(w, i) ==
  LET d == Batch(w)[i] IN
  \/ graph[d.id] = d.content
  \/ \E j \in 1..At(w) : i < j /\ Batch(w)[j].id = d.id
  \/ pc[w] = "links" /\ Doc(w).id = d.id

Linked(d, vs) == \A v \in vs : <<d.id, v>> \in edges

RepairInv(w) ==
  Repairs(w) =>
    /\ \A i \in 1..At(w) : /\ Settled(w, i)
                           /\ Linked(Batch(w)[i], ToSet(Links[Batch(w)[i].content]))
    /\ pc[w] = "links" => /\ graph[Doc(w).id] = Doc(w).content
                          /\ Linked(Doc(w), Before(Triples(w), call[w].k))

\* A step that loses no payload but that of the document in hand, and no edge.
LEMMA StaysSettled ==
  ASSUME TypeOK, NEW w \in Workers, NEW i, Settled(w, i), Batch(w)' = Batch(w), At(w)' = At(w),
         \A x \in Papers : graph[x] \in Contents =>
           graph'[x] = graph[x] \/ (pc'[w] = "links" /\ Doc(w).id = x),
         pc[w] = "links" => pc'[w] = "links",
         Doc(w)' = Doc(w), Batch(w)[i] \in Document
  PROVE  Settled(w, i)'
<1>1. CASE graph[Batch(w)[i].id] = Batch(w)[i].content
  <2>1. Batch(w)[i].id \in Papers /\ Batch(w)[i].content \in Contents
    BY DEF Document
  <2>2. QED
    BY <1>1, <2>1 DEF Settled
<1>2. CASE \E j \in 1..At(w) : i < j /\ Batch(w)[j].id = Batch(w)[i].id
  BY <1>2 DEF Settled
<1>3. CASE pc[w] = "links" /\ Doc(w).id = Batch(w)[i].id
  BY <1>3 DEF Settled
<1>4. QED
  BY <1>1, <1>2, <1>3 DEF Settled

\* Citing changes the attributes of no document.
LEMMA UpsertsKeep ==
  ASSUME TypeOK, NEW w \in Workers, CalmUpsertObject(w) \/ CalmUpsertEdge(w)
  PROVE  \A d \in Papers : graph[d] \in Contents => graph'[d] = graph[d]
<1> SUFFICES ASSUME NEW d \in Papers, graph[d] \in Contents PROVE graph'[d] = graph[d]
  OBVIOUS
<1>1. d \in Vertices /\ d \notin Objects /\ graph[d] \notin {Absent, Stub, Named}
  BY ConstructionConstants DEF Vertices
<1>2. graph \in [Vertices -> States]
  BY DEF TypeOK
<1>3. CASE CalmUpsertObject(w)
  <2> DEFINE v == Triples(w)[call[w].k]
  <2>1. graph' = [graph EXCEPT ![v] = Upserted(v)]
    BY <1>3 DEF CalmUpsertObject
  <2>2. Upserted(d) = graph[d]
    BY <1>1 DEF Upserted
  <2> HIDE DEF v
  <2>3. QED
    BY <1>1, <1>2, <2>1, <2>2
<1>4. CASE CalmUpsertEdge(w)
  BY <1>1, <1>2, <1>4 DEF CalmUpsertEdge
<1>5. QED
  BY <1>3, <1>4

\* The documents that are done with are of the batch.
LEMMA DoneWith ==
  ASSUME TypeOK, NEW w \in Workers, ListInv(w)
  PROVE  /\ At(w) \in 0..Len(Batch(w)) /\ Len(Batch(w)) \in Nat \ {0}
         /\ \A i \in 1..At(w) : i \in DOMAIN Batch(w) /\ Batch(w)[i] \in Document
<1>1. call[w].docs \in Seq(Document) /\ Batch(w) \in Seq(Document) /\ Batch(w) # <<>>
      /\ Len(call[w].docs) <= Len(Batch(w))
  BY DEF TypeOK, Call, ListInv
<1>2. /\ Len(call[w].docs) \in Nat /\ Len(Batch(w)) \in Nat \ {0}
      /\ DOMAIN Batch(w) = 1..Len(Batch(w))
  BY <1>1, LenProperties, EmptySeq
<1>3. At(w) \in 0..Len(Batch(w))
  BY <1>1, <1>2 DEF At
<1>4. QED
  BY <1>1, <1>2, <1>3, ElementOfSeq

LEMMA RepairKept ==
  ASSUME TypeOK, NEW w \in Workers,
         \/ CalmBegin(w)
         \/ CalmStep(w) /\ ListInv(w) /\ FreshInv(w) /\ RepairInv(w)
  PROVE  RepairInv(w)'
<1>1. CASE CalmBegin(w)
  <2>1. At(w)' = 0
    BY <1>1, LenProperties DEF CalmBegin, At, Batch
  <2>2. pc'[w] # "links"
    BY <1>1 DEF CalmBegin
  <2>3. QED
    BY <2>1, <2>2 DEF RepairInv
<1>2. CASE CalmStep(w) /\ ListInv(w) /\ FreshInv(w) /\ RepairInv(w)
  <2> SUFFICES ASSUME Repairs(w)' PROVE RepairInv(w)'
    BY DEF RepairInv
  <2>1. call[w].op # "delete" /\ call[w].strategy = "exact_id" /\ Batch(w)' = Batch(w)
    BY <1>2 DEF CalmStep, Asked, Repairs, Batch
  <2>2. ~Skips(w) /\ pc[w] \notin {"account", "delete", "remove"}
    BY <1>2, <2>1 DEF Skips, ListInv
  <2>3. Repairs(w)
    BY <1>2, <2>1
       DEF Repairs, CalmStep, CalmProbeUpdate, CalmDropEdges, CalmReject, CalmProbeObject,
           CalmProbePaper, CalmUpsertPaper, CalmSkipPaper, CalmUpsertObject, CalmUpsertEdge,
           CalmAccount, CalmProbeDelete, CalmRemoveDoc, CalmEmit
  <2>4. \A i \in 1..At(w) : /\ Settled(w, i) /\ Batch(w)[i] \in Document
                            /\ Linked(Batch(w)[i], ToSet(Links[Batch(w)[i].content]))
    BY <1>2, <2>3, DoneWith DEF RepairInv
  <2>5. pc[w] = "links" => /\ graph[Doc(w).id] = Doc(w).content
                           /\ Linked(Doc(w), Before(Triples(w), call[w].k))
    BY <1>2, <2>3 DEF RepairInv
  <2>6. pc[w] \in InHand => /\ Doc(w).id \in Papers /\ Doc(w).content \in Contents
                            /\ Triples(w) \in Seq(Vertices)
    BY InHandTyped
  <2>7. At(w) \in Nat /\ Len(Batch(w)) \in Nat
    BY <1>2, DoneWith
  <2>8. ASSUME UNCHANGED <<graph, edges, call[w].docs>>, pc[w] # "links", pc'[w] # "links"
        PROVE  RepairInv(w)'
    <3>1. At(w)' = At(w)
      BY <2>1, <2>8 DEF At
    <3>2. \A i \in 1..At(w) : Settled(w, i)'
      BY <2>1, <2>4, <2>8, <3>1 DEF Settled
    <3>3. QED
      BY <2>1, <2>4, <2>8, <3>1, <3>2 DEF RepairInv, Linked
  <2>9. CASE CalmDropEdges(w)
    <3>1. call[w].docs = Batch(w) /\ UNCHANGED call[w].docs /\ pc'[w] = "probe"
      BY <1>2, <2>9 DEF ListInv, CalmDropEdges
    <3>2. At(w)' = 0
      BY <2>1, <2>7, <3>1 DEF At
    <3>3. QED
      BY <3>1, <3>2 DEF RepairInv
  <2>10. CASE CalmUpsertPaper(w)
    <3>1. /\ UNCHANGED <<edges, call[w]>> /\ pc[w] = "paper" /\ pc'[w] = "links"
          /\ graph' = [graph EXCEPT ![Doc(w).id] = Doc(w).content]
      BY <2>10 DEF CalmUpsertPaper
    <3>2. At(w)' = At(w) /\ Doc(w)' = Doc(w) /\ Triples(w)' = Triples(w)
      BY <2>1, <3>1 DEF At, Doc, Triples
    <3>3. \A x \in Papers : graph'[x] = graph[x] \/ Doc(w).id = x
      BY <3>1 DEF TypeOK, Vertices
    <3>4. \A i \in 1..At(w) : Settled(w, i)'
      BY <2>1, <2>4, <3>1, <3>2, <3>3, StaysSettled
    <3>5. graph'[Doc(w).id] = Doc(w).content
      BY <2>6, <3>1 DEF TypeOK, Vertices, InHand
    <3>6. call'[w].k = 1 /\ Before(Triples(w), 1) = {}
      BY <1>2, <2>6, <3>1, BeforeBounds DEF FreshInv, InHand
    <3>7. QED
      BY <2>1, <2>4, <3>1, <3>2, <3>4, <3>5, <3>6 DEF RepairInv, Linked
  <2>11. CASE CalmUpsertObject(w) \/ CalmUpsertEdge(w)
    <3>1. /\ pc[w] = "links" /\ pc'[w] = "links" /\ UNCHANGED call[w].docs
          /\ edges \subseteq edges'
      BY <2>11 DEF CalmUpsertObject, CalmUpsertEdge
    <3>2. At(w)' = At(w) /\ Doc(w)' = Doc(w) /\ Triples(w)' = Triples(w)
      BY <2>1, <3>1 DEF At, Doc, Triples
    <3>3. \A x \in Papers : graph[x] \in Contents => graph'[x] = graph[x]
      BY <2>11, UpsertsKeep
    <3>4. \A i \in 1..At(w) : Settled(w, i)'
      BY <2>1, <2>4, <3>1, <3>2, <3>3, StaysSettled
    <3>5. graph'[Doc(w).id] = Doc(w).content
      BY <2>5, <2>6, <3>1, <3>3 DEF InHand
    <3>6. \A v \in Before(Triples(w), call'[w].k) : <<Doc(w).id, v>> \in edges'
      <4>1. CASE CalmUpsertObject(w)
        BY <2>5, <3>1, <4>1 DEF CalmUpsertObject, Linked
      <4>2. CASE CalmUpsertEdge(w)
        <5> DEFINE s == Triples(w)
                   k == call[w].k
        <5>1. call'[w].k = k + 1 /\ k <= Len(s) /\ <<Doc(w).id, s[k]>> \in edges'
          BY <4>2 DEF CalmUpsertEdge
        <5>2. s \in Seq(Vertices) /\ k \in Nat \ {0} /\ Len(s) \in Nat
          BY <2>6, <3>1, <5>1, TripleTyped, LenProperties DEF InHand
        <5>3. Before(s, k + 1) = Before(s, k) \cup {s[k]}
          BY <5>1, <5>2, BeforeBounds, SMTT(30)
        <5>4. QED
          BY <2>5, <3>1, <5>1, <5>3 DEF Linked
      <4>3. QED
        BY <2>11, <4>1, <4>2
    <3>7. QED
      BY <2>1, <2>4, <3>1, <3>2, <3>4, <3>5, <3>6 DEF RepairInv, Linked
  <2>12. CASE CalmAccount(w)
    <3>1. /\ UNCHANGED <<graph, edges>> /\ Turn(w, Tail(call[w].docs)) /\ Asked(w)
          /\ pc[w] = "links" /\ call[w].k > Len(Triples(w)) /\ pc'[w] # "links"
      BY <1>2, <2>2, <2>12 DEF CalmAccount, CalmStep, Turn
    <3>2. At(w)' = At(w) + 1
      BY <1>2, <3>1, TurnMoves DEF InHand
    <3>3. Doc(w) = Batch(w)[At(w) + 1]
      BY <1>2, <3>1, HandIsNext DEF InHand
    <3>4. call[w].k \in Nat
      BY DEF TypeOK, Call
    <3>5. Before(Triples(w), call[w].k) = ToSet(Links[Doc(w).content])
      BY <2>6, <3>1, <3>4, BeforeBounds DEF InHand, Triples
    <3>6. ASSUME NEW i \in 1..At(w)' PROVE Settled(w, i)'
      <4>1. CASE i = At(w) + 1
        BY <2>1, <2>5, <3>1, <3>3, <4>1 DEF Settled
      <4>2. CASE i \in 1..At(w)
        <5>1. Settled(w, i)
          BY <2>4, <4>2
        <5>2. i < At(w) + 1 /\ At(w) + 1 \in 1..At(w)' /\ 1..At(w) \subseteq 1..At(w)'
          BY <2>7, <3>2, <4>2
        <5>3. QED
          BY <2>1, <3>1, <3>3, <5>1, <5>2 DEF Settled
      <4>3. QED
        BY <2>7, <3>2, <3>6, <4>1, <4>2
    <3>7. ASSUME NEW i \in 1..At(w)'
          PROVE  Linked(Batch(w)[i], ToSet(Links[Batch(w)[i].content]))'
      <4>1. i \in 1..At(w) \/ i = At(w) + 1
        BY <2>7, <3>2, <3>7
      <4>2. Linked(Batch(w)[i], ToSet(Links[Batch(w)[i].content]))
        BY <2>4, <2>5, <3>1, <3>3, <3>5, <4>1
      <4>3. QED
        BY <2>1, <3>1, <4>2 DEF Linked
    <3>8. QED
      BY <3>1, <3>6, <3>7 DEF RepairInv
  <2>13. CASE CalmReject(w)
    BY <2>13 DEF CalmReject, Repairs
  <2>14. CASE CalmEmit(w)
    <3>1. UNCHANGED <<graph, edges>> /\ pc[w] = "emit" /\ pc'[w] = "done" /\ call'[w].docs = <<>>
      BY <2>14 DEF CalmEmit
    <3>2. call[w].docs = <<>>
      BY <1>2, <2>1, <3>1 DEF ListInv
    <3>3. QED
      BY <2>8, <3>1, <3>2
  <2>15. CASE CalmProbeUpdate(w) \/ CalmProbeObject(w) \/ CalmProbePaper(w)
    BY <2>8, <2>15 DEF CalmProbeUpdate, CalmProbeObject, CalmProbePaper
  <2>16. QED
    BY <1>2, <2>2, <2>9, <2>10, <2>11, <2>12, <2>13, <2>14, <2>15
       DEF CalmStep, CalmSkipPaper, CalmProbeDelete, CalmRemoveDoc
<1>3. QED
  BY <1>1, <1>2

-----------------------------------------------------------------------------
(* What an undisturbed request says that it has created.                    *)

\* The documents that one of those done with cites.
Cited(w) == {d \in Docs : \E i \in 1..At(w) : d \in ToSet(Links[Batch(w)[i].content])}

CreatedInv(w) ==
  LET r == report[w] IN
  call[w].op # "delete" =>
    /\ hist[w].before \subseteq Present
    /\ r.fresh \subseteq ToSet(r.written) \ hist[w].before
    /\ \A d \in ToSet(r.written) \ (hist[w].before \cup r.fresh) :
         \E i, j \in DOMAIN Batch(w) :
           i < j /\ Batch(w)[j].id = d /\ d \in ToSet(Links[Batch(w)[i].content])
    /\ (Present \cap Docs) \subseteq hist[w].before \cup r.fresh \cup Cited(w) \cup
         IF pc[w] = "links" THEN {Doc(w).id} \cup ToSet(Triples(w)) ELSE {}
    /\ pc[w] \in {"paper", "links"} =>
         IF call[w].exists
           THEN Doc(w).id \in hist[w].before \cup r.fresh \cup Cited(w)
           ELSE Doc(w).id \notin hist[w].before

\* What the writes add to the vertices that are present.
LEMMA PresentGrows ==
  ASSUME TypeOK, NEW w \in Workers
  PROVE  /\ CalmUpsertPaper(w) => Present' = Present \cup {Doc(w).id}
         /\ CalmUpsertObject(w) => Present' = Present \cup {Triples(w)[call[w].k]}
         /\ CalmUpsertEdge(w) => Present' = Present \cup {Doc(w).id, Triples(w)[call[w].k]}
<1>1. CASE CalmUpsertPaper(w)
  <2>1. Doc(w).id \in Vertices /\ Doc(w).content # Absent
    BY <1>1, InHandTyped, ConstructionConstants DEF CalmUpsertPaper, InHand, Vertices
  <2>2. graph' = [graph EXCEPT ![Doc(w).id] = Doc(w).content]
    BY <1>1 DEF CalmUpsertPaper
  <2>3. Present' = Present \cup {Doc(w).id}
    BY <2>1, <2>2 DEF Present, TypeOK
  <2>4. QED
    BY <1>1, <2>3 DEF CalmUpsertPaper, CalmUpsertObject, CalmUpsertEdge
<1>2. CASE CalmUpsertObject(w)
  <2> DEFINE v == Triples(w)[call[w].k]
  <2>1. v \in Vertices /\ Upserted(v) # Absent
    BY <1>2, TripleTyped, UpsertedTyped DEF CalmUpsertObject
  <2>2. graph' = [graph EXCEPT ![v] = Upserted(v)] /\ NeedsVertex(w)
    BY <1>2 DEF CalmUpsertObject
  <2>3. v \notin call[w].done /\ v \in call'[w].done
    BY <1>2 DEF CalmUpsertObject, NeedsVertex
  <2>4. ~CalmUpsertEdge(w) /\ ~CalmUpsertPaper(w)
    BY <1>2, <2>2 DEF CalmUpsertEdge, CalmUpsertPaper, CalmUpsertObject
  <2> HIDE DEF v
  <2>5. Present' = Present \cup {v}
    BY <2>1, <2>2 DEF Present, TypeOK
  <2>6. QED
    BY <2>4, <2>5 DEF v
<1>3. CASE CalmUpsertEdge(w)
  <2> DEFINE v == Triples(w)[call[w].k]
             d == Doc(w).id
  <2>1. v \in Vertices /\ d \in Vertices
    BY <1>3, TripleTyped, InHandTyped DEF CalmUpsertEdge, InHand, Vertices
  <2>2. graph' = [x \in Vertices |->
          IF x \in {d, v} /\ graph[x] = Absent THEN Stub ELSE graph[x]]
    BY <1>3 DEF CalmUpsertEdge
  <2>3. ~CalmUpsertObject(w) /\ ~CalmUpsertPaper(w)
    BY <1>3 DEF CalmUpsertEdge, CalmUpsertPaper, CalmUpsertObject
  <2> HIDE DEF v, d
  <2>4. Present' = Present \cup {d, v}
    BY <2>1, <2>2 DEF Present, Absent, Stub
  <2>5. QED
    BY <2>3, <2>4 DEF d, v
<1>4. QED
  BY <1>1, <1>2, <1>3

\* When the next document has its turn, the one in hand counts as cited from.
LEMMA CitedMoves ==
  ASSUME TypeOK, NEW w \in Workers, ListInv(w), pc[w] \in InHand,
         Turn(w, Tail(call[w].docs)), Asked(w)
  PROVE  /\ Cited(w)' = Cited(w) \cup (ToSet(Triples(w)) \cap Docs)
         /\ \A d \in Cited(w) : \E i \in DOMAIN Batch(w) :
              i <= At(w) /\ d \in ToSet(Links[Batch(w)[i].content])
<1>1. At(w)' = At(w) + 1 /\ Batch(w)' = Batch(w)
  BY TurnMoves
<1>2. At(w) \in Nat /\ Doc(w) = Batch(w)[At(w) + 1]
  BY HandIsNext
<1>3. \A i \in 1..At(w) : i \in DOMAIN Batch(w)
  BY DoneWith
<1>4. 1..(At(w) + 1) = 1..At(w) \cup {At(w) + 1}
  BY <1>2
<1>5. Cited(w)' = {d \in Docs : \E i \in 1..(At(w) + 1) : d \in ToSet(Links[Batch(w)[i].content])}
  BY <1>1 DEF Cited
<1>6. QED
  BY <1>2, <1>3, <1>4, <1>5 DEF Cited, Triples

LEMMA CreatedKept ==
  ASSUME TypeOK, NEW w \in Workers,
         \/ CalmBegin(w)
         \/ CalmStep(w) /\ ListInv(w) /\ CreatedInv(w)
  PROVE  CreatedInv(w)'
<1>1. CASE CalmBegin(w)
  <2>1. hist'[w].before = Present' /\ pc'[w] \notin {"paper", "links"}
        /\ report'[w].written = <<>> /\ report'[w].fresh = {}
    BY <1>1 DEF CalmBegin, Present, Blank
  <2>2. ToSet(report'[w].written) = {}
    BY <2>1 DEF ToSet
  <2>3. QED
    BY <2>1, <2>2 DEF CreatedInv
<1>2. CASE CalmStep(w) /\ ListInv(w) /\ CreatedInv(w)
  <2> SUFFICES ASSUME call'[w].op # "delete" PROVE CreatedInv(w)'
    BY DEF CreatedInv
  <2>1. /\ call[w].op # "delete" /\ Batch(w)' = Batch(w) /\ hist'[w].before = hist[w].before
        /\ pc[w] \notin {"delete", "remove"}
    BY <1>2 DEF CalmStep, Asked, Batch, ListInv
  <2>11. pc[w] \in InHand => Doc(w).id \in Docs
    BY <1>2, <2>1, HandPlain DEF CalmStep
  <2> DEFINE old == hist[w].before
             r == report[w]
  <2>2. /\ old \subseteq Present
        /\ r.fresh \subseteq ToSet(r.written) \ old
        /\ \A d \in ToSet(r.written) \ (old \cup r.fresh) :
             \E i, j \in DOMAIN Batch(w) :
               i < j /\ Batch(w)[j].id = d /\ d \in ToSet(Links[Batch(w)[i].content])
        /\ (Present \cap Docs) \subseteq old \cup r.fresh \cup Cited(w) \cup
             IF pc[w] = "links" THEN {Doc(w).id} \cup ToSet(Triples(w)) ELSE {}
        /\ pc[w] \in {"paper", "links"} =>
             IF call[w].exists THEN Doc(w).id \in old \cup r.fresh \cup Cited(w)
                               ELSE Doc(w).id \notin old
    BY <1>2, <2>1 DEF CreatedInv
  <2> HIDE DEF old, r
  <2>3. hist'[w].before = old
    BY <2>1 DEF old
  <2>4. ASSUME UNCHANGED <<graph, call[w].docs, report[w].written, report[w].fresh>>,
               pc[w] # "links", pc'[w] \notin {"paper", "links"}
        PROVE  CreatedInv(w)'
    <3>1. Cited(w)' = Cited(w) /\ Present' = Present
      BY <2>1, <2>4 DEF Cited, At, Present
    <3>2. QED
      BY <2>1, <2>2, <2>3, <2>4, <3>1 DEF CreatedInv, r
  <2>5. CASE CalmProbePaper(w)
    <3>1. /\ UNCHANGED <<graph, call[w].docs, report[w]>> /\ pc[w] = "probe" /\ pc'[w] = "paper"
          /\ call'[w].exists = (graph[Doc(w).id] # Absent)
      BY <2>5 DEF CalmProbePaper
    <3>2. Cited(w)' = Cited(w) /\ Present' = Present /\ Doc(w)' = Doc(w)
      BY <2>1, <3>1 DEF Cited, At, Present, Doc
    <3>3. Doc(w).id \in Docs /\ (graph[Doc(w).id] # Absent <=> Doc(w).id \in Present)
      BY <2>11, <3>1, InHandTyped DEF InHand, Present
    <3>4. QED
      BY <2>1, <2>2, <2>3, <3>1, <3>2, <3>3 DEF CreatedInv, r
  <2>6. CASE CalmUpsertPaper(w) \/ CalmUpsertObject(w) \/ CalmUpsertEdge(w)
    <3> DEFINE hand == {Doc(w).id} \cup ToSet(Triples(w))
    <3>1. /\ UNCHANGED <<call[w].docs, call[w].exists, report[w].written, report[w].fresh>>
          /\ pc[w] \in {"paper", "links"} /\ pc'[w] = "links"
      BY <2>6 DEF CalmUpsertPaper, CalmUpsertObject, CalmUpsertEdge
    <3>2. Cited(w)' = Cited(w) /\ Doc(w)' = Doc(w) /\ hand' = hand
      BY <2>1, <3>1 DEF Cited, At, Doc, Triples
    <3>3. CalmUpsertObject(w) \/ CalmUpsertEdge(w) => Triples(w)[call[w].k] \in ToSet(Triples(w))
      <4>1. ASSUME CalmUpsertObject(w) \/ CalmUpsertEdge(w)
            PROVE  call[w].k <= Len(Triples(w)) /\ pc[w] = "links"
        BY <4>1 DEF CalmUpsertObject, CalmUpsertEdge
      <4>2. Triples(w) \in Seq(Vertices) /\ call[w].k \in Nat \ {0}
        BY <3>1, InHandTyped DEF InHand, TypeOK, Call
      <4>3. QED
        BY <4>1, <4>2, LenProperties DEF ToSet
    <3>4. Present \subseteq Present' /\ Present' \subseteq Present \cup hand
      BY <2>6, <3>3, PresentGrows
    <3>5. QED
      BY <2>1, <2>2, <2>3, <3>1, <3>2, <3>4 DEF CreatedInv, r
  <2>7. CASE CalmReject(w)
    <3>1. /\ UNCHANGED <<graph, report[w]>> /\ pc[w] = "probe" /\ pc'[w] \notin {"paper", "links"}
          /\ Turn(w, Tail(call[w].docs)) /\ Asked(w)
      BY <1>2, <2>7 DEF CalmReject, CalmStep, Turn
    <3>2. Cited(w) \subseteq Cited(w)' /\ Present' = Present
      BY <1>2, <3>1, CitedMoves DEF InHand, Present
    <3>3. QED
      BY <2>1, <2>2, <2>3, <3>1, <3>2 DEF CreatedInv, r
  <2>8. CASE CalmAccount(w)
    <3> DEFINE d == Doc(w).id
    <3>1. /\ UNCHANGED graph /\ Turn(w, Tail(call[w].docs)) /\ Asked(w) /\ pc[w] \in InHand
          /\ pc'[w] \notin {"paper", "links"}
      BY <1>2, <2>8 DEF CalmAccount, CalmStep, Turn, InHand
    <3>2. /\ Cited(w)' = Cited(w) \cup (ToSet(Triples(w)) \cap Docs) /\ Present' = Present
          /\ \A x \in Cited(w) : \E i \in DOMAIN Batch(w) :
               i <= At(w) /\ x \in ToSet(Links[Batch(w)[i].content])
      BY <1>2, <3>1, CitedMoves DEF Present
    <3>3. CASE Skips(w)
      <4>1. pc[w] # "links" /\ UNCHANGED <<report[w].written, report[w].fresh>>
        BY <1>2, <2>8, <3>3 DEF ListInv, CalmAccount
      <4>2. QED
        BY <2>1, <2>2, <2>3, <3>1, <3>2, <4>1 DEF CreatedInv, r
    <3>4. CASE ~Skips(w)
      <4>1. pc[w] = "links" /\ report'[w].written = Append(r.written, d)
            /\ report'[w].fresh = r.fresh \cup IF call[w].exists THEN {} ELSE {d}
        BY <1>2, <2>8, <3>4 DEF ListInv, CalmAccount, r
      <4>2. d \in Docs /\ r.written \in Seq(Docs)
        BY <2>11, <3>1 DEF TypeOK, Report, r
      <4>3. ToSet(Append(r.written, d)) = ToSet(r.written) \cup {d}
        BY <4>2, MembersOfAppend
      <4>4. ToSet(report'[w].written) = ToSet(r.written) \cup {d}
        BY <4>1, <4>3
      <4>5. /\ At(w) \in Nat /\ At(w) + 1 \in DOMAIN Batch(w) /\ d = Batch(w)[At(w) + 1].id
        BY <1>2, <3>1, HandIsNext, LenProperties
      <4> HIDE DEF d
      <4>6. report'[w].fresh \subseteq ToSet(report'[w].written) \ old
        BY <2>2, <4>1, <4>4 DEF d
      <4>7. ASSUME NEW x \in ToSet(report'[w].written) \ (old \cup report'[w].fresh)
            PROVE  \E i, j \in DOMAIN Batch(w) :
                     i < j /\ Batch(w)[j].id = x /\ x \in ToSet(Links[Batch(w)[i].content])
        <5>1. CASE x \in ToSet(r.written)
          <6>1. x \notin old \cup r.fresh
            BY <4>1, <4>7
          <6>2. QED
            BY <2>2, <5>1, <6>1
        <5>2. CASE x = d
          <6>1. call[w].exists /\ d \notin old \cup r.fresh
            BY <4>1, <4>7, <5>2
          <6>2. d \in Cited(w)
            BY <2>2, <4>1, <6>1 DEF d
          <6>3. PICK i \in DOMAIN Batch(w) :
                  i <= At(w) /\ d \in ToSet(Links[Batch(w)[i].content])
            BY <3>2, <6>2
          <6>4. i < At(w) + 1
            <7>1. DOMAIN Batch(w) \subseteq Nat
              BY <1>2, LenProperties DEF ListInv
            <7>2. QED
              BY <4>5, <6>3, <7>1
          <6>5. QED
            BY <4>5, <5>2, <6>3, <6>4
        <5>3. QED
          BY <4>4, <4>7, <5>1, <5>2
      <4>8. (Present \cap Docs) \subseteq old \cup report'[w].fresh \cup Cited(w)'
        BY <2>2, <3>2, <4>1 DEF d
      <4>9. QED
        BY <2>1, <2>2, <2>3, <3>1, <3>2, <4>6, <4>7, <4>8 DEF CreatedInv
    <3>5. QED
      BY <3>3, <3>4
  <2>9. CASE CalmEmit(w)
    <3>1. UNCHANGED <<graph, report[w]>> /\ pc[w] = "emit" /\ pc'[w] = "done" /\ call'[w].docs = <<>>
      BY <2>9 DEF CalmEmit
    <3>2. call[w].docs = <<>>
      BY <1>2, <2>1, <3>1 DEF ListInv
    <3>3. QED
      BY <2>4, <3>1, <3>2
  <2>10. CASE CalmProbeUpdate(w) \/ CalmDropEdges(w) \/ CalmProbeObject(w) \/ CalmSkipPaper(w)
    BY <2>4, <2>10 DEF CalmProbeUpdate, CalmDropEdges, CalmProbeObject, CalmSkipPaper
  <2>12. QED
    BY <1>2, <2>1, <2>5, <2>6, <2>7, <2>8, <2>9, <2>10
       DEF CalmStep, CalmProbeDelete, CalmRemoveDoc
<1>3. QED
  BY <1>1, <1>2

-----------------------------------------------------------------------------
(* What an undisturbed request counts.                                      *)

\* Its probes answer for the graph as it is: what was asked for and is present
\* has been found, or has been written since for the same document.
FoundInv(w) ==
  call[w].op # "delete" =>
    /\ pc[w] \in {"probe", "paper", "links"} => call[w].found \subseteq Present
    /\ pc[w] \in {"probe", "paper"} => call[w].asked \cap Present \subseteq call[w].found
    /\ pc[w] \in {"paper", "links"} => ToSet(Triples(w)) \subseteq call[w].asked
    /\ pc[w] = "links" =>
         /\ Doc(w).id \in Present
         /\ call[w].done \subseteq Present \cap ToSet(Triples(w))
         /\ call[w].asked \cap Present \subseteq call[w].found \cup call[w].done \cup {Doc(w).id}

LEMMA TripleMember ==
  ASSUME TypeOK, NEW w \in Workers, pc[w] = "links", call[w].k <= Len(Triples(w))
  PROVE  Triples(w)[call[w].k] \in ToSet(Triples(w))
<1>1. Triples(w) \in Seq(Vertices) /\ call[w].k \in Nat \ {0}
  BY InHandTyped DEF InHand, TypeOK, Call
<1>2. QED
  BY <1>1, LenProperties DEF ToSet

LEMMA FoundKept ==
  ASSUME TypeOK, NEW w \in Workers,
         \/ CalmBegin(w)
         \/ CalmStep(w) /\ ListInv(w) /\ FreshInv(w) /\ FoundInv(w)
  PROVE  FoundInv(w)'
<1>1. CASE CalmBegin(w)
  BY <1>1 DEF CalmBegin, FoundInv
<1>2. CASE CalmStep(w) /\ ListInv(w) /\ FreshInv(w) /\ FoundInv(w)
  <2> SUFFICES ASSUME call'[w].op # "delete" PROVE FoundInv(w)'
    BY DEF FoundInv
  <2>1. call[w].op # "delete" /\ pc[w] \notin {"delete", "remove"}
    BY <1>2 DEF CalmStep, Asked, ListInv
  <2>2. CASE CalmReject(w) \/ CalmAccount(w)
    BY <2>2 DEF CalmReject, CalmAccount, Turn, FoundInv
  <2>3. CASE CalmProbeUpdate(w) \/ CalmDropEdges(w)
    BY <1>2, <2>3 DEF CalmProbeUpdate, CalmDropEdges, FreshInv, FoundInv
  <2>4. CASE CalmProbeObject(w)
    <3>1. PICK v \in ToSet(Triples(w)) :
            /\ call'[w].asked = call[w].asked \cup {v}
            /\ call'[w].found = call[w].found \cup ({v} \cap Present)
      BY <2>4 DEF CalmProbeObject
    <3>2. UNCHANGED graph /\ pc[w] = "probe" /\ pc'[w] = "probe"
      BY <2>4 DEF CalmProbeObject
    <3>3. Present' = Present
      BY <3>2 DEF Present
    <3>4. QED
      BY <1>2, <2>1, <3>1, <3>2, <3>3 DEF FoundInv
  <2>5. CASE CalmProbePaper(w)
    <3>1. /\ UNCHANGED <<graph, call[w].docs, call[w].asked, call[w].found>>
          /\ pc[w] = "probe" /\ pc'[w] = "paper" /\ ToSet(Triples(w)) \subseteq call[w].asked
      BY <2>5 DEF CalmProbePaper
    <3>2. Present' = Present /\ Triples(w)' = Triples(w)
      BY <3>1 DEF Present, Triples, Doc
    <3>3. QED
      BY <1>2, <2>1, <3>1, <3>2 DEF FoundInv
  <2>6. CASE CalmUpsertPaper(w)
    <3>1. /\ UNCHANGED call[w] /\ pc[w] = "paper" /\ pc'[w] = "links"
          /\ Present' = Present \cup {Doc(w).id}
      BY <2>6, PresentGrows DEF CalmUpsertPaper
    <3>2. Triples(w)' = Triples(w) /\ Doc(w)' = Doc(w) /\ call'[w].done = {}
      BY <1>2, <3>1 DEF Triples, Doc, FreshInv
    <3>3. QED
      BY <1>2, <2>1, <3>1, <3>2 DEF FoundInv
  <2>7. CASE CalmUpsertObject(w)
    <3> DEFINE v == Triples(w)[call[w].k]
    <3>1. /\ UNCHANGED <<call[w].docs, call[w].asked, call[w].found>>
          /\ pc[w] = "links" /\ pc'[w] = "links" /\ call[w].k <= Len(Triples(w))
          /\ call'[w].done = call[w].done \cup {v}
          /\ Present' = Present \cup {v}
      BY <2>7, PresentGrows DEF CalmUpsertObject
    <3>2. v \in ToSet(Triples(w))
      BY <3>1, TripleMember
    <3>3. Triples(w)' = Triples(w) /\ Doc(w)' = Doc(w)
      BY <3>1 DEF Triples, Doc
    <3> HIDE DEF v
    <3>4. QED
      BY <1>2, <2>1, <3>1, <3>2, <3>3 DEF FoundInv
  <2>8. CASE CalmUpsertEdge(w)
    <3> DEFINE v == Triples(w)[call[w].k]
    <3>1. /\ UNCHANGED <<call[w].docs, call[w].asked, call[w].found, call[w].done>>
          /\ pc[w] = "links" /\ pc'[w] = "links" /\ ~NeedsVertex(w)
          /\ Present' = Present \cup {Doc(w).id, v}
      BY <2>8, PresentGrows DEF CalmUpsertEdge
    <3>2. v \in call[w].done \cup call[w].found
      BY <3>1 DEF NeedsVertex
    <3>3. Triples(w)' = Triples(w) /\ Doc(w)' = Doc(w)
      BY <3>1 DEF Triples, Doc
    <3> HIDE DEF v
    <3>4. Present' = Present
      BY <1>2, <2>1, <3>1, <3>2 DEF FoundInv
    <3>5. QED
      BY <1>2, <2>1, <3>1, <3>3, <3>4 DEF FoundInv
  <2>9. CASE pc'[w] \in {"account", "done"}
    BY <2>9 DEF FoundInv
  <2>10. QED
    BY <1>2, <2>1, <2>2, <2>3, <2>4, <2>5, <2>6, <2>7, <2>8, <2>9
       DEF CalmStep, CalmSkipPaper, CalmProbeDelete, CalmRemoveDoc, CalmEmit
<1>3. QED
  BY <1>1, <1>2

\* The vertices that the request added, the documents of the batch that cite
\* themselves, and whether the one in hand has been counted as its own object.
Growth(w) == Present \ hist[w].before

Selves(w, n) == {i \in 1..n : Batch(w)[i].id \in ToSet(Links[Batch(w)[i].content])}

SelfCounted(w) == pc[w] = "links" /\ Doc(w).id \in call[w].done

CountInv(w) ==
  call[w].op # "delete" =>
    /\ IsFiniteSet(Growth(w))
    /\ Cardinality(Growth(w)) <= report[w].created
    /\ report[w].created <= Cardinality(Growth(w)) + Cardinality(Selves(w, At(w)))
                              + IF SelfCounted(w) THEN 1 ELSE 0

LEMMA SelvesFinite ==
  ASSUME NEW w \in Workers, NEW n \in Nat
  PROVE  IsFiniteSet(Selves(w, n)) /\ Cardinality(Selves(w, n)) \in Nat
<1>1. IsFiniteSet(1..n) /\ Selves(w, n) \in SUBSET (1..n)
  BY FS_Interval DEF Selves
<1>2. IsFiniteSet(Selves(w, n))
  BY <1>1, FS_Subset
<1>3. QED
  BY <1>2, FS_CardinalityType

\* When the next document has its turn, the one in hand counts if it cites itself.
LEMMA SelvesMove ==
  ASSUME TypeOK, NEW w \in Workers, ListInv(w), pc[w] \in InHand,
         Turn(w, Tail(call[w].docs)), Asked(w)
  PROVE  Cardinality(Selves(w, At(w)))' =
           Cardinality(Selves(w, At(w))) + IF Doc(w).id \in ToSet(Triples(w)) THEN 1 ELSE 0
<1> DEFINE n == At(w)
           S == Selves(w, n)
<1>1. At(w)' = n + 1 /\ Batch(w)' = Batch(w)
  BY TurnMoves
<1>2. n \in Nat /\ Doc(w) = Batch(w)[n + 1]
  BY HandIsNext
<1>3. Selves(w, At(w))' = Selves(w, n + 1)
  BY <1>1 DEF Selves
<1>4. 1..(n + 1) = 1..n \cup {n + 1} /\ n + 1 \notin 1..n
  BY <1>2
<1>5. Selves(w, n + 1) = IF Doc(w).id \in ToSet(Triples(w)) THEN S \cup {n + 1} ELSE S
  BY <1>2, <1>4 DEF Selves, Triples
<1>6. n + 1 \notin S /\ IsFiniteSet(S) /\ Cardinality(S) \in Nat
  BY <1>2, <1>4, SelvesFinite DEF Selves
<1>7. Cardinality(S \cup {n + 1}) = Cardinality(S) + 1
  BY <1>6, FS_AddElement
<1> HIDE DEF S, n
<1>8. Cardinality(Selves(w, At(w)))' = Cardinality(Selves(w, n + 1))
  BY <1>3
<1>9. Cardinality(Selves(w, n + 1)) = Cardinality(S) + IF Doc(w).id \in ToSet(Triples(w)) THEN 1 ELSE 0
  BY <1>5, <1>6, <1>7
<1>10. QED
  BY <1>8, <1>9 DEF S, n

LEMMA CountKept ==
  ASSUME TypeOK, NEW w \in Workers,
         \/ CalmBegin(w)
         \/ /\ CalmStep(w) /\ ListInv(w) /\ FreshInv(w) /\ FoundInv(w)
            /\ EventInv(w) /\ CreatedInv(w) /\ CountInv(w)
  PROVE  CountInv(w)'
<1>1. CASE CalmBegin(w)
  <2>1. Growth(w)' = {} /\ At(w)' = 0 /\ report'[w].created = 0 /\ pc'[w] # "links"
    BY <1>1, LenProperties DEF CalmBegin, Growth, Present, At, Batch, Blank
  <2>2. Selves(w, At(w))' = {}
    BY <2>1 DEF Selves
  <2>3. IsFiniteSet(Growth(w))' /\ Cardinality(Growth(w))' = 0 /\ Cardinality(Selves(w, At(w)))' = 0
    BY <2>1, <2>2, FS_EmptySet
  <2>4. ~SelfCounted(w)'
    BY <2>1 DEF SelfCounted
  <2>5. QED
    BY <2>1, <2>3, <2>4 DEF CountInv
<1>2. CASE /\ CalmStep(w) /\ ListInv(w) /\ FreshInv(w) /\ FoundInv(w)
           /\ EventInv(w) /\ CreatedInv(w) /\ CountInv(w)
  <2> SUFFICES ASSUME call'[w].op # "delete" PROVE CountInv(w)'
    BY DEF CountInv
  <2> DEFINE g == Cardinality(Growth(w))
             s == Cardinality(Selves(w, At(w)))
             n == report[w].created
  <2>1. /\ call[w].op # "delete" /\ Batch(w)' = Batch(w) /\ hist'[w].before = hist[w].before
        /\ pc[w] \notin {"delete", "remove"}
    BY <1>2 DEF CalmStep, Asked, Batch, ListInv
  <2>2. /\ IsFiniteSet(Growth(w)) /\ g <= n
        /\ n <= g + s + IF SelfCounted(w) THEN 1 ELSE 0
    BY <1>2, <2>1 DEF CountInv
  <2>3. g \in Nat /\ n \in Nat /\ s \in Nat
    <3>1. g \in Nat
      BY <2>2, FS_CardinalityType
    <3>2. n \in Nat
      BY DEF TypeOK, Report
    <3>3. At(w) \in Nat
      BY <1>2, DoneWith
    <3>4. QED
      BY <3>1, <3>2, <3>3, SelvesFinite
  <2>4. hist[w].before \subseteq Present
    BY <1>2, <2>1 DEF CreatedInv
  <2>5. ASSUME UNCHANGED call[w].docs
        PROVE  Cardinality(Selves(w, At(w)))' = s
    BY <2>1, <2>5 DEF Selves, At
  <2>6. \A v : Present' = Present \cup {v} =>
          /\ IsFiniteSet(Growth(w))'
          /\ Cardinality(Growth(w))' = IF v \in Present THEN g ELSE g + 1
    <3> TAKE v
    <3>1. HAVE Present' = Present \cup {v}
    <3>2. CASE v \in Present
      <4>1. Growth(w)' = Growth(w)
        BY <2>1, <3>1, <3>2 DEF Growth
      <4>2. QED
        BY <2>2, <3>2, <4>1
    <3>3. CASE v \notin Present
      <4>1. Growth(w)' = Growth(w) \cup {v} /\ v \notin Growth(w)
        BY <2>1, <2>4, <3>1, <3>3 DEF Growth
      <4>2. QED
        BY <2>2, <3>3, <4>1, FS_AddElement
    <3>4. QED
      BY <3>2, <3>3
  <2> HIDE DEF g, s, n
  <2>7. ASSUME UNCHANGED <<graph, report[w].created, call[w].docs>>, SelfCounted(w) => SelfCounted(w)'
        PROVE  CountInv(w)'
    <3>1. Growth(w)' = Growth(w)
      BY <2>1, <2>7 DEF Growth, Present
    <3>2. IsFiniteSet(Growth(w))' /\ Cardinality(Growth(w))' = g
      BY <2>2, <3>1 DEF g
    <3>3. report'[w].created = n
      BY <2>7 DEF n
    <3>4. QED
      BY <2>2, <2>3, <2>5, <2>7, <3>2, <3>3 DEF CountInv
  <2>8. CASE CalmUpsertPaper(w)
    <3> DEFINE d == Doc(w).id
    <3>1. /\ pc[w] = "paper" /\ UNCHANGED call[w].docs /\ Present' = Present \cup {d}
          /\ report'[w].created = n + IF call[w].exists THEN 0 ELSE 1
      BY <2>8, PresentGrows DEF CalmUpsertPaper, n
    <3>2. call[w].exists <=> d \in Present
      BY <1>2, <3>1 DEF EventInv
    <3>3. ~SelfCounted(w)
      BY <3>1 DEF SelfCounted
    <3> HIDE DEF d
    <3>4. /\ IsFiniteSet(Growth(w))'
          /\ Cardinality(Growth(w))' = IF call[w].exists THEN g ELSE g + 1
          /\ Cardinality(Selves(w, At(w)))' = s
      BY <2>5, <2>6, <3>1, <3>2
    <3>5. QED
      BY <2>2, <2>3, <3>1, <3>3, <3>4 DEF CountInv
  <2>9. CASE CalmUpsertObject(w)
    <3> DEFINE d == Doc(w).id
               v == Triples(w)[call[w].k]
    <3>1. /\ pc[w] = "links" /\ pc'[w] = "links" /\ UNCHANGED call[w].docs
          /\ Present' = Present \cup {v}
          /\ call[w].k <= Len(Triples(w)) /\ v \notin call[w].done
          /\ call'[w].done = call[w].done \cup {v}
          /\ report'[w].created = n + IF v \in call[w].found THEN 0 ELSE 1
      BY <2>9, PresentGrows DEF CalmUpsertObject, NeedsVertex, n
    <3>2. v \in call[w].asked
      BY <1>2, <2>1, <3>1, TripleMember DEF FoundInv
    <3>3. /\ v \in call[w].found => v \in Present
          /\ v \in Present => v \in call[w].found \/ v = d
      BY <1>2, <2>1, <3>1, <3>2 DEF FoundInv
    <3>4. Doc(w)' = Doc(w)
      BY <3>1 DEF Doc
    <3> HIDE DEF v
    <3>5. /\ SelfCounted(w) => SelfCounted(w)'
          /\ v = d => ~SelfCounted(w) /\ SelfCounted(w)'
      BY <3>1, <3>4 DEF SelfCounted
    <3> HIDE DEF d
    <3>6. /\ IsFiniteSet(Growth(w))'
          /\ Cardinality(Growth(w))' = IF v \in Present THEN g ELSE g + 1
          /\ Cardinality(Selves(w, At(w)))' = s
      BY <2>5, <2>6, <3>1
    <3>7. CASE v \in call[w].found
      BY <2>2, <2>3, <3>1, <3>3, <3>5, <3>6, <3>7 DEF CountInv
    <3>8. CASE v \notin Present
      BY <2>2, <2>3, <3>1, <3>3, <3>5, <3>6, <3>8 DEF CountInv
    <3>9. CASE v \in Present /\ v \notin call[w].found
      BY <2>2, <2>3, <3>1, <3>3, <3>5, <3>6, <3>9 DEF CountInv
    <3>10. QED
      BY <3>7, <3>8, <3>9
  <2>10. CASE CalmUpsertEdge(w)
    <3> DEFINE v == Triples(w)[call[w].k]
    <3>1. /\ UNCHANGED <<call[w].docs, call[w].done, report[w].created>>
          /\ pc[w] = "links" /\ pc'[w] = "links" /\ ~NeedsVertex(w)
          /\ Present' = Present \cup {Doc(w).id, v}
      BY <2>10, PresentGrows DEF CalmUpsertEdge
    <3>2. Doc(w).id \in Present /\ v \in Present /\ Doc(w)' = Doc(w)
      BY <1>2, <2>1, <3>1 DEF NeedsVertex, FoundInv, Doc
    <3> HIDE DEF v
    <3>3. Present' = Present \cup {v}
      BY <3>1, <3>2
    <3>4. /\ IsFiniteSet(Growth(w))' /\ Cardinality(Growth(w))' = g
          /\ Cardinality(Selves(w, At(w)))' = s
      BY <2>5, <2>6, <3>1, <3>2, <3>3
    <3>5. SelfCounted(w)' <=> SelfCounted(w)
      BY <3>1, <3>2 DEF SelfCounted
    <3>6. report'[w].created = n
      BY <3>1 DEF n
    <3>7. QED
      BY <2>2, <2>3, <3>4, <3>5, <3>6 DEF CountInv
  <2>11. CASE CalmReject(w) \/ CalmAccount(w)
    <3>1. /\ UNCHANGED <<graph, report[w].created>> /\ Turn(w, Tail(call[w].docs)) /\ Asked(w)
          /\ pc[w] \in InHand /\ pc'[w] # "links"
      BY <1>2, <2>11 DEF CalmReject, CalmAccount, CalmStep, Turn, InHand
    <3>2. Cardinality(Selves(w, At(w)))' = s + IF Doc(w).id \in ToSet(Triples(w)) THEN 1 ELSE 0
      BY <1>2, <3>1, SelvesMove DEF s
    <3>3. SelfCounted(w) => Doc(w).id \in ToSet(Triples(w))
      BY <1>2, <2>1 DEF SelfCounted, FoundInv
    <3>4. ~SelfCounted(w)'
      BY <3>1 DEF SelfCounted
    <3>5. Growth(w)' = Growth(w)
      BY <2>1, <3>1 DEF Growth, Present
    <3>6. IsFiniteSet(Growth(w))' /\ Cardinality(Growth(w))' = g /\ report'[w].created = n
      BY <2>2, <3>1, <3>5 DEF g, n
    <3>7. QED
      BY <2>2, <2>3, <3>2, <3>3, <3>4, <3>6 DEF CountInv
  <2>12. CASE CalmEmit(w)
    <3>1. UNCHANGED <<graph, report[w]>> /\ pc[w] = "emit" /\ call'[w].docs = <<>>
      BY <2>12 DEF CalmEmit
    <3>2. call[w].docs = <<>> /\ ~SelfCounted(w)
      BY <1>2, <2>1, <3>1 DEF ListInv, SelfCounted
    <3>3. QED
      BY <2>7, <3>1, <3>2
  <2>13. CASE \/ CalmProbeUpdate(w) \/ CalmDropEdges(w) \/ CalmProbeObject(w) \/ CalmProbePaper(w)
              \/ CalmSkipPaper(w)
    <3>1. UNCHANGED <<graph, report[w].created, call[w].docs>> /\ pc[w] # "links"
      BY <2>13 DEF CalmProbeUpdate, CalmDropEdges, CalmProbeObject, CalmProbePaper, CalmSkipPaper
    <3>2. QED
      BY <2>7, <3>1 DEF SelfCounted
  <2>14. QED
    BY <1>2, <2>1, <2>8, <2>9, <2>10, <2>11, <2>12, <2>13
       DEF CalmStep, CalmProbeDelete, CalmRemoveDoc
<1>3. QED
  BY <1>1, <1>2

-----------------------------------------------------------------------------
(* The properties of undisturbed requests.                                  *)

CalmInv ==
  /\ AloneInv
  /\ \A w \in Workers : Calm(w) =>
       /\ ListInv(w) /\ FreshInv(w)
       /\ DeleteInv(w) /\ ReplaceInv(w) /\ RepairInv(w)
       /\ EventInv(w) /\ CreatedInv(w)
       /\ FoundInv(w) /\ CountInv(w)

LEMMA CalmKept == TypeOK /\ EndsPresent /\ CalmInv /\ [Next]_vars => CalmInv'
<1> SUFFICES ASSUME TypeOK, EndsPresent, CalmInv, [Next]_vars PROVE CalmInv'
  OBVIOUS
<1> DEFINE All(w) == /\ ListInv(w) /\ FreshInv(w)
                     /\ DeleteInv(w) /\ ReplaceInv(w) /\ RepairInv(w)
                     /\ EventInv(w) /\ CreatedInv(w)
                     /\ FoundInv(w) /\ CountInv(w)
<1>1. AloneInv /\ AloneInv'
  BY AloneKept DEF CalmInv
<1>2. ASSUME NEW w \in Workers, Calm(w)' PROVE All(w)'
  <2>1. CASE CalmBegin(w)
    BY <2>1, ListKept, FreshKept, DeleteKept, ReplaceKept, RepairKept, EventKept, CreatedKept,
       FoundKept, CountKept
  <2>2. CASE CalmStep(w)
    <3>1. All(w)
      BY <2>2 DEF CalmInv, CalmStep
    <3>2. QED
      BY <2>2, <3>1, ListKept, FreshKept, DeleteKept, ReplaceKept, RepairKept, EventKept,
         CreatedKept, FoundKept, CountKept
  <2>3. CASE Calm(w) /\ UNCHANGED vars
    <3>1. All(w)
      BY <2>3 DEF CalmInv
    <3>2. UNCHANGED <<graph, edges, pc, call, report, events, hist>>
      BY <2>3 DEF vars
    <3>3. ListInv(w)' /\ FreshInv(w)'
      BY <3>1, <3>2 DEF ListInv, FreshInv, Batch, At, Skips
    <3>4. DeleteInv(w)' /\ EventInv(w)'
      BY <3>1, <3>2 DEF DeleteInv, EventInv, Batch, Present, Doc
    <3>5. ReplaceInv(w)'
      BY <3>1, <3>2 DEF ReplaceInv, Replaces, LinksOf, Batch
    <3>6. RepairInv(w)'
      BY <3>1, <3>2 DEF RepairInv, Repairs, Settled, Linked, Batch, At, Doc, Triples
    <3>7. CreatedInv(w)' /\ FoundInv(w)'
      BY <3>1, <3>2 DEF CreatedInv, FoundInv, Cited, Batch, At, Doc, Triples, Present
    <3>8. CountInv(w)'
      BY <3>1, <3>2 DEF CountInv, Growth, Selves, SelfCounted, Batch, At, Doc, Present
    <3>9. QED
      BY <3>3, <3>4, <3>5, <3>6, <3>7, <3>8
  <2>4. QED
    <3>1. Calm(w) => ListInv(w)
      BY DEF CalmInv
    <3>2. QED
      BY <1>1, <1>2, <2>1, <2>2, <2>3, <3>1, CalmNext
<1>3. QED
  BY <1>1, <1>2 DEF CalmInv

LEMMA CalmAlways == Spec => []CalmInv
<1>1. Init => CalmInv
  BY DEF Init, CalmInv, AloneInv, Calm, Quiet, NoHist
<1>2. QED
  BY <1>1, CalmKept, TypeCorrect, EdgesHold, PTL DEF Spec

\* What holds of a worker whose request has ended in calm: all of its batch is
\* done with.
LEMMA Ended ==
  ASSUME TypeOK, CalmInv, NEW w \in Workers, Calm(w), pc[w] = "done"
  PROVE  /\ ListInv(w)
         /\ DeleteInv(w) /\ ReplaceInv(w) /\ RepairInv(w)
         /\ EventInv(w) /\ CreatedInv(w) /\ CountInv(w)
         /\ Len(Batch(w)) \in Nat \ {0} /\ At(w) = Len(Batch(w))
         /\ DOMAIN Batch(w) = 1..Len(Batch(w))
<1>1. ListInv(w) /\ call[w].docs = <<>> /\ Batch(w) \in Seq(Document)
  BY DEF CalmInv, ListInv
<1>2. Len(Batch(w)) \in Nat \ {0} /\ Len(call[w].docs) = 0 /\ DOMAIN Batch(w) = 1..Len(Batch(w))
  BY <1>1, DoneWith, LenProperties, EmptySeq
<1>3. At(w) = Len(Batch(w))
  BY <1>2 DEF At
<1>4. QED
  BY <1>1, <1>2, <1>3 DEF CalmInv

\* An undisturbed plain write, and an undisturbed deletion, ends in calm.
LEMMA EndsCalm ==
  ASSUME NEW w \in Workers, Undisturbed(w), Plain(w) \/ (~call[w].dry /\ call[w].op = "delete")
  PROVE  Calm(w) /\ pc[w] = "done"
BY DEF Undisturbed, Calm, Quiet, Plain

\* An undisturbed delete_document leaves no vertex and no edge of the document,
\* and reports the deletion exactly if there was one (construction.py:481-523).
THEOREM DeletesExactly == Spec => []DeleteExact
<1>1. TypeOK /\ CalmInv => DeleteExact
  BY Ended, EndsCalm DEF DeleteExact, DeleteInv
<1>2. QED
  BY <1>1, CalmAlways, TypeCorrect, PTL

\* Each event that an undisturbed plain request published is of a mutation that
\* it made (construction.py:358-369, 512-523; streaming.py:198-269).
THEOREM EventsTrue == Spec => []EventsOfUndisturbed
<1>1. TypeOK /\ CalmInv => EventsOfUndisturbed
  BY Ended, EndsCalm DEF EventsOfUndisturbed, EventInv
<1>2. QED
  BY <1>1, CalmAlways, TypeCorrect, PTL

\* An undisturbed update under EXACT_ID, no dry run and of an id without blanks,
\* leaves none of the document's old edges (construction.py:450-479, 525-530).
THEOREM UpdatesReplace == Spec => []UpdateReplaces
<1>1. TypeOK /\ CalmInv => UpdateReplaces
  BY Ended, EndsCalm DEF UpdateReplaces, ReplaceInv, Replaces, LinksOf, Cites
<1>2. QED
  BY <1>1, CalmAlways, TypeCorrect, PTL

\* After an undisturbed ingest under EXACT_ID, no dry run and of ids without
\* blanks, every document of the batch has its payload and all its edges,
\* whatever was left behind before it (construction.py:304-371, 378-448).
THEOREM RetriesRepair == Spec => []RetryRepairs
<1>1. TypeOK /\ CalmInv => RetryRepairs
  <2> SUFFICES ASSUME TypeOK, CalmInv, NEW w \in Workers, Undisturbed(w), Plain(w), Repairs(w),
                      NEW i \in DOMAIN Batch(w)
               PROVE  LET d == Batch(w)[i] IN
                      /\ (\A j \in DOMAIN Batch(w) : j > i => Batch(w)[j].id # d.id)
                           => graph[d.id] = d.content
                      /\ \A v \in Cites(d) : <<d.id, v>> \in edges
    BY DEF RetryRepairs, Repairs
  <2>1. pc[w] = "done" /\ At(w) = Len(Batch(w)) /\ DOMAIN Batch(w) = 1..Len(Batch(w)) /\ RepairInv(w)
    BY Ended, EndsCalm
  <2>2. Settled(w, i) /\ Linked(Batch(w)[i], ToSet(Links[Batch(w)[i].content]))
    BY <2>1 DEF RepairInv
  <2>3. QED
    BY <2>1, <2>2 DEF Settled, Linked, Cites
<1>2. QED
  BY <1>1, CalmAlways, TypeCorrect, PTL

\* documents_created of an undisturbed plain write is the written documents that
\* did not exist before it, unless an earlier document of the batch cites one
\* (construction.py:347-369; protocol_extensions.py:75-76).
THEOREM CreatedExplains == Spec => []CreatedExplained
<1>1. TypeOK /\ CalmInv => CreatedExplained
  <2> SUFFICES ASSUME TypeOK, CalmInv, NEW w \in Workers, Undisturbed(w), Plain(w),
                      call[w].op # "delete",
                      \A i, j \in DOMAIN Batch(w) : i < j => Batch(w)[j].id \notin Cites(Batch(w)[i])
               PROVE  report[w].fresh = ToSet(report[w].written) \ hist[w].before
    BY DEF CreatedExplained
  <2>1. CreatedInv(w)
    BY Ended, EndsCalm
  <2>2. /\ report[w].fresh \subseteq ToSet(report[w].written) \ hist[w].before
        /\ \A d \in ToSet(report[w].written) \ (hist[w].before \cup report[w].fresh) :
             \E i, j \in DOMAIN Batch(w) :
               i < j /\ Batch(w)[j].id = d /\ d \in ToSet(Links[Batch(w)[i].content])
    BY <2>1 DEF CreatedInv
  <2>3. ASSUME NEW d \in ToSet(report[w].written) \ (hist[w].before \cup report[w].fresh)
        PROVE  FALSE
    BY <2>2, <2>3 DEF Cites
  <2>4. QED
    BY <2>2, <2>3
<1>2. QED
  BY <1>1, CalmAlways, TypeCorrect, PTL

\* entities_created of an undisturbed plain write, in which no document cites
\* itself, is the number of vertices that it added (construction.py:311-314,
\* 414-437; protocol_extensions.py:73-80).
THEOREM CreatedCounts == Spec => []CreatedMeasured
<1>1. TypeOK /\ CalmInv => CreatedMeasured
  <2> SUFFICES ASSUME TypeOK, CalmInv, NEW w \in Workers, Undisturbed(w), Plain(w),
                      call[w].op # "delete",
                      \A i \in DOMAIN Batch(w) : Batch(w)[i].id \notin Cites(Batch(w)[i])
               PROVE  report[w].created = Cardinality(Growth(w))
    BY DEF CreatedMeasured, Growth
  <2>1. /\ pc[w] = "done" /\ At(w) = Len(Batch(w)) /\ DOMAIN Batch(w) = 1..Len(Batch(w))
        /\ CountInv(w)
    BY Ended, EndsCalm
  <2>2. ~SelfCounted(w)
    BY <2>1 DEF SelfCounted
  <2>3. Selves(w, At(w)) = {}
    BY <2>1 DEF Selves, Cites
  <2>4. Cardinality(Selves(w, At(w))) = 0
    BY <2>3, FS_EmptySet
  <2>5. Cardinality(Growth(w)) \in Nat /\ report[w].created \in Nat
    BY <2>1, FS_CardinalityType DEF CountInv, TypeOK, Report
  <2>6. /\ Cardinality(Growth(w)) <= report[w].created
        /\ report[w].created <= Cardinality(Growth(w)) + Cardinality(Selves(w, At(w)))
    BY <2>1, <2>2, <2>4, <2>5 DEF CountInv
  <2>7. QED
    BY <2>4, <2>5, <2>6
<1>2. QED
  BY <1>1, CalmAlways, TypeCorrect, PTL

=============================================================================

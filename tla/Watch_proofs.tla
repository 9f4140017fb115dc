----------------------------- MODULE Watch_proofs ------------------------------
(***************************************************************************)
(* Proofs about Watch, for any publishers, servers, clients and filters,   *)
(* any limits and any sequence of events.                                  *)
(*                                                                         *)
(* LossHasCause is inductive given the types: a call either asks for a row *)
(* or has a token that is past it already.  TokenInv, that a token is as   *)
(* new as the newest event its client was sent, carries RepeatsAtToken.    *)
(***************************************************************************)
EXTENDS Watch, FiniteSetTheorems, TLAPS

\* The limits that reach the SQL statement are those of watch: the second clamp
\* changes nothing.
LEMMA ClampsAgree ==
  ASSUME NEW c \in Clients
  PROVE  /\ Limit(c) \in Nat \ {0}
         /\ StoreLimit(c) = Limit(c)
<1>1. Asked[c] \in Int
  BY WatchConstants
<1>2. QED
  BY <1>1, WatchConstants DEF Limit, StoreLimit, Clamp

\* What a call selects and what it returns are rows.
LEMMA AnswerOfRows ==
  ASSUME NEW c \in Clients, NEW n, NEW B \in Newest(Matching(c), n)
  PROVE  /\ Matching(c) \subseteq rows
         /\ B \subseteq Matching(c)
         /\ OfEntity(c, B) \subseteq B
         /\ First(OfEntity(c, B)) \subseteq OfEntity(c, B)
BY DEF Matching, Newest, OfEntity, First

\* Every variable keeps its type; in particular what clients were sent stays in
\* the table (storage.py:173).
THEOREM TypeCorrect == Spec => []TypeOK
<1> USE WatchConstants
<1>1. Init => TypeOK
  BY FS_EmptySet DEF Init, TypeOK, NoToken
<1>2. TypeOK /\ [Next]_vars => TypeOK'
  <2> SUFFICES ASSUME TypeOK, [Next]_vars PROVE TypeOK'
    OBVIOUS
  <2>1. CASE Tick
    BY <2>1 DEF Tick, TypeOK
  <2>2. ASSUME NEW p \in Publishers, Stamp(p) PROVE TypeOK'
    <3>1. PICK k \in Kinds :
            flight' = [flight EXCEPT ![p] =
                         [server |-> ServerOf[p], id |-> counter[ServerOf[p]] + 1, ts |-> clock,
                          topic |-> k[1], entity |-> k[2]]]
      BY <2>2 DEF Stamp
    <3>2. k[1] \in Topics /\ k[2] \in Entities \cup {None}
      OBVIOUS
    <3>3. ServerOf[p] \in Servers /\ counter[ServerOf[p]] + 1 \in Nat
      BY DEF TypeOK
    <3>4. flight' \in [Publishers -> Event \cup {None}]
      BY <3>1, <3>2, <3>3 DEF TypeOK, Event
    <3>5. counter' \in [Servers -> Nat]
      BY <2>2, <3>3 DEF Stamp, TypeOK
    <3>6. QED
      BY <2>2, <3>4, <3>5 DEF Stamp, TypeOK
  <2>3. ASSUME NEW p \in Publishers, Insert(p) PROVE TypeOK'
    <3>1. flight' \in [Publishers -> Event \cup {None}]
      BY <2>3 DEF Insert, TypeOK
    <3>2. CASE Known(flight[p])
      BY <2>3, <3>1, <3>2 DEF Insert, TypeOK
    <3>3. CASE ~Known(flight[p])
      <4>1. flight[p] \in Event
        BY <2>3 DEF Insert, TypeOK
      <4>2. rows' = rows \cup {flight[p]}
        BY <2>3, <3>3 DEF Insert
      <4>3. rows' \subseteq Event /\ IsFiniteSet(rows')
        BY <4>1, <4>2, FS_AddElement DEF TypeOK
      <4>4. late' \in [Clients -> SUBSET rows']
        BY <2>3, <3>3, <4>2 DEF Insert, TypeOK
      <4>5. QED
        BY <2>3, <3>1, <4>2, <4>3, <4>4 DEF Insert, TypeOK
    <3>4. QED
      BY <3>2, <3>3
  <2>4. ASSUME NEW p \in Publishers, InsertFails(p) PROVE TypeOK'
    BY <2>4 DEF InsertFails, TypeOK
  <2>5. ASSUME NEW s \in Servers, Restart(s) PROVE TypeOK'
    BY <2>5 DEF Restart, TypeOK
  <2>6. ASSUME NEW c \in Clients, Poll(c) PROVE TypeOK'
    <3>1. PICK B \in Newest(Matching(c), StoreLimit(c)) :
            /\ answer' = [answer EXCEPT ![c] = OfEntity(c, B)]
            /\ got' = [got EXCEPT ![c] = @ \cup OfEntity(c, B)]
            /\ cut' = [cut EXCEPT ![c] = @ \cup (Matching(c) \ B)]
            /\ \/ OfEntity(c, B) = {} /\ UNCHANGED since
               \/ \E r \in First(OfEntity(c, B)) : since' = [since EXCEPT ![c] = r.ts]
      BY <2>6 DEF Poll
    <3>2. OfEntity(c, B) \subseteq rows /\ Matching(c) \subseteq rows
      BY AnswerOfRows
    <3>3. \A r \in First(OfEntity(c, B)) : r.ts \in Nat
      BY <3>2, AnswerOfRows DEF TypeOK, Event
    <3>4. since' \in [Clients -> Nat]
      BY <3>1, <3>3 DEF TypeOK
    <3>5. UNCHANGED <<clock, counter, flight, rows, late>>
      BY <2>6 DEF Poll
    <3>6. QED
      BY <3>1, <3>2, <3>4, <3>5 DEF TypeOK
  <2>7. CASE UNCHANGED vars
    BY <2>7 DEF vars, TypeOK
  <2>8. QED
    BY <2>1, <2>2, <2>3, <2>4, <2>5, <2>6, <2>7 DEF Next
<1>3. QED
  BY <1>1, <1>2, PTL DEF Spec

-----------------------------------------------------------------------------
\* A client is sent a row it asks for, or the limit left it out, or its token is
\* past the row: these are all the ways not to get one (watch.py:43-55,
\* storage.py:193-220).
THEOREM LossExplained == Spec => []LossHasCause
<1> USE WatchConstants
<1>1. Init => LossHasCause
  BY DEF Init, LossHasCause, Lost
<1>2. TypeOK /\ LossHasCause /\ [Next]_vars => LossHasCause'
  <2> SUFFICES ASSUME TypeOK, LossHasCause, [Next]_vars,
                      NEW c \in Clients, NEW r \in Lost(c)'
               PROVE  r \in late'[c] \cup cut'[c]
    BY DEF LossHasCause
  <2>0. r \in rows' /\ r \notin got'[c] /\ Wanted(c, r) /\ r.ts < since'[c]
    BY DEF Lost, Wanted
  <2>1. CASE UNCHANGED <<rows, since, got, late, cut>>
    BY <2>0, <2>1 DEF LossHasCause, Lost
  <2>2. ASSUME NEW p \in Publishers, Insert(p) PROVE r \in late'[c] \cup cut'[c]
    <3>1. UNCHANGED <<since, got, cut>>
      BY <2>2 DEF Insert
    <3>2. CASE r \in rows
      <4>1. r \in late[c] \cup cut[c]
        BY <2>0, <3>1, <3>2 DEF LossHasCause, Lost
      <4>2. late[c] \subseteq late'[c]
        BY <2>2 DEF Insert, TypeOK
      <4>3. QED
        BY <3>1, <4>1, <4>2
    <3>3. CASE r \notin rows
      <4>1. ~Known(flight[p]) /\ r = flight[p]
        BY <2>0, <2>2, <3>3 DEF Insert
      <4>2. late' = [x \in Clients |->
                       IF r.ts < since[x] THEN late[x] \cup {r} ELSE late[x]]
        BY <2>2, <4>1 DEF Insert
      <4>3. QED
        BY <2>0, <3>1, <4>2
    <3>4. QED
      BY <3>2, <3>3
  <2>3. ASSUME NEW d \in Clients, Poll(d) PROVE r \in late'[c] \cup cut'[c]
    <3>1. PICK B \in Newest(Matching(d), StoreLimit(d)) :
            /\ got' = [got EXCEPT ![d] = @ \cup OfEntity(d, B)]
            /\ cut' = [cut EXCEPT ![d] = @ \cup (Matching(d) \ B)]
            /\ \/ OfEntity(d, B) = {} /\ UNCHANGED since
               \/ \E x \in First(OfEntity(d, B)) : since' = [since EXCEPT ![d] = x.ts]
      BY <2>3 DEF Poll
    <3>2. UNCHANGED <<rows, late>>
      BY <2>3 DEF Poll
    <3>3. CASE d # c
      <4>1. got'[c] = got[c] /\ cut'[c] = cut[c] /\ since'[c] = since[c]
        BY <3>1, <3>3 DEF TypeOK
      <4>2. QED
        BY <2>0, <3>2, <4>1 DEF LossHasCause, Lost
    <3>4. CASE d = c
      <4>1. got'[c] = got[c] \cup OfEntity(c, B) /\ cut'[c] = cut[c] \cup (Matching(c) \ B)
        BY <3>1, <3>4 DEF TypeOK
      <4>2. CASE r.ts < since[c]
        BY <2>0, <3>2, <4>1, <4>2 DEF LossHasCause, Lost
      <4>3. CASE ~(r.ts < since[c])
        <5>1. r.ts \in Nat /\ since[c] \in Nat
          BY <2>0, <3>2 DEF TypeOK, Event
        <5>2. r \in Matching(c)
          BY <2>0, <3>2, <4>3, <5>1 DEF Matching, Wanted
        <5>3. r \notin B
          BY <2>0, <4>1 DEF OfEntity, Wanted
        <5>4. QED
          BY <4>1, <5>2, <5>3
      <4>4. QED
        BY <4>2, <4>3
    <3>5. QED
      BY <3>3, <3>4
  <2>4. QED
    BY <2>1, <2>2, <2>3 DEF Next, vars, Tick, Stamp, InsertFails, Restart
<1>3. QED
  BY <1>1, <1>2, TypeCorrect, PTL DEF Spec

-----------------------------------------------------------------------------
\* An answer that leaves rows out is full, so that a client that filters by
\* nothing but SQL sees it from total_events (watch.py:42-60).
THEOREM CutIsVisible == Spec => CutShows
<1> USE WatchConstants
<1>1. ASSUME TypeOK, [Next]_vars, NEW c \in Clients, EntityId[c] = None, cut'[c] # cut[c]
      PROVE  Cardinality(answer'[c]) = Limit(c)
  <2>1. PICK d \in Clients : Poll(d)
    BY <1>1 DEF Next, vars, Tick, Stamp, Insert, InsertFails, Restart
  <2>2. PICK B \in Newest(Matching(d), StoreLimit(d)) :
          /\ answer' = [answer EXCEPT ![d] = OfEntity(d, B)]
          /\ cut' = [cut EXCEPT ![d] = @ \cup (Matching(d) \ B)]
    BY <2>1 DEF Poll
  <2>3. d = c
    BY <1>1, <2>2 DEF TypeOK
  <2>4. Matching(c) \ B # {} /\ answer'[c] = OfEntity(c, B)
    BY <1>1, <2>2, <2>3 DEF TypeOK
  <2>5. OfEntity(c, B) = B
    BY <1>1 DEF OfEntity
  <2>6. /\ B \subseteq Matching(c) /\ B # Matching(c)
        /\ IsFiniteSet(Matching(c))
    BY <1>1, <2>2, <2>3, <2>4, AnswerOfRows, FS_Subset DEF TypeOK
  <2>7. /\ Cardinality(B) \in Nat /\ Cardinality(Matching(c)) \in Nat
        /\ Cardinality(B) < Cardinality(Matching(c))
    BY <2>6, FS_Subset, FS_CardinalityType
  <2>8. Cardinality(B) = StoreLimit(c)
    BY <2>2, <2>3, <2>7 DEF Newest
  <2>9. QED
    BY <2>4, <2>5, <2>8, ClampsAgree
<1>2. TypeOK /\ [Next]_vars =>
        [\A c \in Clients : EntityId[c] = None /\ cut'[c] # cut[c]
                              => Cardinality(answer'[c]) = Limit(c)]_vars
  BY <1>1
<1>3. QED
  BY <1>2, TypeCorrect, PTL DEF Spec, CutShows

-----------------------------------------------------------------------------
\* A token is as new as the newest event its client was sent.
TokenInv == \A c \in Clients : \A r \in got[c] : r.ts <= since[c]

\* Events that come back after a resumption bear the time of the token
\* (storage.py:207, watch.py:55).
THEOREM RepeatsExplained == Spec => RepeatsAtToken
<1> USE WatchConstants
<1>1. Init => TokenInv
  BY DEF Init, TokenInv
<1>2. ASSUME TypeOK, TokenInv, NEW d \in Clients, Poll(d)
      PROVE  /\ TokenInv'
             /\ \A c \in Clients : c # d => answer'[c] = answer[c]
             /\ \A r \in answer'[d] \cap got[d] : r.ts = since[d]
  <2>1. PICK B \in Newest(Matching(d), StoreLimit(d)) :
          /\ answer' = [answer EXCEPT ![d] = OfEntity(d, B)]
          /\ got' = [got EXCEPT ![d] = @ \cup OfEntity(d, B)]
          /\ \/ OfEntity(d, B) = {} /\ UNCHANGED since
             \/ \E r \in First(OfEntity(d, B)) : since' = [since EXCEPT ![d] = r.ts]
    BY <1>2 DEF Poll
  <2>2. \A r \in OfEntity(d, B) : r \in Matching(d) /\ r.ts \in Nat
    BY AnswerOfRows, <1>2 DEF TypeOK, Event
  <2>3. since[d] \in Nat /\ \A r \in got[d] : r.ts \in Nat \ {0} /\ r.ts <= since[d]
    BY <1>2 DEF TypeOK, TokenInv, Event
  <2>4. \A r \in OfEntity(d, B) : since[d] <= r.ts
    <3> SUFFICES ASSUME NEW r \in OfEntity(d, B) PROVE since[d] <= r.ts
      OBVIOUS
    <3>1. CASE since[d] = NoToken
      BY <2>2, <3>1 DEF NoToken
    <3>2. CASE since[d] # NoToken
      BY <2>2, <3>2 DEF Matching
    <3>3. QED
      BY <3>1, <3>2
  <2>5. /\ since[d] <= since'[d] /\ since'[d] \in Nat
        /\ \A r \in OfEntity(d, B) : r.ts <= since'[d]
    <3>1. CASE OfEntity(d, B) = {} /\ UNCHANGED since
      BY <2>3, <3>1
    <3>2. ASSUME NEW x \in First(OfEntity(d, B)), since' = [since EXCEPT ![d] = x.ts]
          PROVE  /\ since[d] <= since'[d] /\ since'[d] \in Nat
                 /\ \A r \in OfEntity(d, B) : r.ts <= since'[d]
      <4>1. since'[d] = x.ts
        BY <1>2, <3>2 DEF TypeOK
      <4>2. x \in OfEntity(d, B) /\ \A r \in OfEntity(d, B) : x.ts >= r.ts
        BY DEF First
      <4>3. QED
        BY <2>2, <2>4, <4>1, <4>2
    <3>3. QED
      BY <2>1, <3>1, <3>2
  <2>6. TokenInv'
    <3> SUFFICES ASSUME NEW c \in Clients, NEW r \in got'[c] PROVE r.ts <= since'[c]
      BY DEF TokenInv
    <3>1. CASE c # d
      <4>1. got'[c] = got[c] /\ since'[c] = since[c]
        BY <1>2, <2>1, <3>1 DEF TypeOK
      <4>2. QED
        BY <1>2, <4>1 DEF TokenInv
    <3>2. CASE c = d
      <4>1. r \in got[d] \/ r \in OfEntity(d, B)
        BY <1>2, <2>1, <3>2 DEF TypeOK
      <4>2. QED
        BY <2>2, <2>3, <2>5, <3>2, <4>1
    <3>3. QED
      BY <3>1, <3>2
  <2>7. \A c \in Clients : c # d => answer'[c] = answer[c]
    BY <1>2, <2>1 DEF TypeOK
  <2>8. ASSUME NEW r \in answer'[d] \cap got[d] PROVE r.ts = since[d]
    <3>1. r \in OfEntity(d, B)
      BY <1>2, <2>1, <2>8 DEF TypeOK
    <3>2. QED
      BY <2>2, <2>3, <2>4, <2>8, <3>1
  <2>9. QED
    BY <2>6, <2>7, <2>8
<1>3. ASSUME [Next]_vars
      PROVE  UNCHANGED <<got, since, answer>> \/ \E d \in Clients : Poll(d)
  BY <1>3 DEF Next, vars, Tick, Stamp, Insert, InsertFails, Restart
<1>4. TypeOK /\ TokenInv /\ [Next]_vars => TokenInv'
  <2> SUFFICES ASSUME TypeOK, TokenInv, [Next]_vars PROVE TokenInv'
    OBVIOUS
  <2>1. CASE UNCHANGED <<got, since, answer>>
    BY <2>1 DEF TokenInv
  <2>2. CASE \E d \in Clients : Poll(d)
    BY <2>2, <1>2
  <2>3. QED
    BY <1>3, <2>1, <2>2
<1>5. TypeOK /\ TokenInv /\ [Next]_vars =>
        [\A c \in Clients : answer'[c] # answer[c]
           => \A r \in answer'[c] \cap got[c] : r.ts = since[c]]_vars
  <2> SUFFICES ASSUME TypeOK, TokenInv, [Next]_vars,
                      NEW c \in Clients, answer'[c] # answer[c]
               PROVE  \A r \in answer'[c] \cap got[c] : r.ts = since[c]
    OBVIOUS
  <2>1. PICK d \in Clients : Poll(d)
    BY <1>3
  <2>2. d = c
    BY <1>2, <2>1
  <2>3. QED
    BY <1>2, <2>1, <2>2
<1>6. QED
  BY <1>1, <1>4, <1>5, TypeCorrect, PTL DEF Spec, RepeatsAtToken
=============================================================================

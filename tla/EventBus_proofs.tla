---------------------------- MODULE EventBus_proofs ----------------------------
(***************************************************************************)
(* Proofs about EventBus, for any publishers, subscribers and sizes.       *)
(*                                                                         *)
(* The bus implements the audit trail by the form of the log's one writer. *)
(* That its first run is complete needs LogInv: the numbers of the events  *)
(* in flight are distinct, and in the first run no row has the number of   *)
(* an event that is still to be inserted.  That nobody misses an event     *)
(* between the replay and the live events needs GapInv: what is due to a   *)
(* subscriber moves from step to step without ever being nowhere.  That a  *)
(* publisher's events arrive in their order needs OrderInv: along the way  *)
(* from the publisher over the loop and the queue to the subscriber they   *)
(* stand in order, whichever of the two ways each of them takes.           *)
(***************************************************************************)
EXTENDS EventBus, SequenceTheorems, TLAPS

USE DEF Couriers, Steps

\* What an event is, field by field.
LEMMA EventFields ==
  ASSUME NEW r \in 1..MaxRuns, NEW n \in 1..MaxEvents[r], NEW p \in Publishers
  PROVE  [run |-> r, id |-> n, pub |-> p] \in Event
BY DEF Event

LEMMA EventIdsAreNumbers == \A e \in Event : e.id \in Nat
<1> SUFFICES ASSUME NEW e \in Event PROVE e.id \in Nat
  OBVIOUS
<1>1. PICK r \in 1..MaxRuns : e \in [run : {r}, id : 1..MaxEvents[r], pub : Publishers]
  BY DEF Event
<1>2. MaxEvents[r] \in Nat
  BY <1>1, BusConstants
<1>3. QED
  BY <1>1, <1>2

\* The members of a sequence of events are events.
LEMMA MembersAreEvents ==
  ASSUME NEW q \in Seq(Event)
  PROVE  ToSet(q) \subseteq Event
BY DEF ToSet

-----------------------------------------------------------------------------
(* What a courier's step at a queue does, whichever of the calls of          *)
(* asyncio.Queue it is.                                                      *)

Delivering == {"direct", "evict", "retry"}

\* The fate of the courier's event at the queue of s.
Given(c, s) ==
  /\ Len(queue[s]) < MaxQueue
  /\ queue'[s] = Append(queue[s], event[c])
  /\ dropped'[s] = dropped[s] /\ missed'[s] = missed[s]

GivenUp(c, s) ==
  /\ queue'[s] = queue[s] /\ dropped'[s] = dropped[s]
  /\ missed'[s] = missed[s] \cup {event[c]}

PassedOver(s) ==
  /\ s \notin Attached
  /\ queue'[s] = queue[s] /\ dropped'[s] = dropped[s] /\ missed'[s] = missed[s]

\* The courier goes on to the next queue, or is done.
Leaves(c, s) ==
  /\ targets'[c] = targets[c] \ {s} /\ at'[c] = None
  /\ targets[c] # {s} => pc'[c] = "direct" /\ event'[c] = event[c]
  /\ targets[c] = {s} => pc'[c] = "idle" /\ event'[c] = NoEvent
  /\ Given(c, s) \/ GivenUp(c, s) \/ PassedOver(s)

\* The courier stays at the queue of s.
Stays(c, s) ==
  /\ targets'[c] = targets[c] /\ event'[c] = event[c]
  /\ pc'[c] \in {"evict", "retry"} /\ at'[c] = s
  /\ missed'[s] = missed[s]
  /\ \/ queue'[s] = queue[s] /\ dropped'[s] = dropped[s]
     \/ /\ queue[s] # <<>> /\ queue'[s] = Tail(queue[s])
        /\ dropped'[s] = dropped[s] \cup {Head(queue[s])}

AtQueue(c, s) ==
  /\ pc[c] \in Delivering /\ s \in targets[c] /\ event[c] \in Event
  /\ UNCHANGED <<run, counter, history, log, bound, loopq, stage, backlog, seen, due, stored>>
  /\ pc' = [pc EXCEPT ![c] = pc'[c]] /\ event' = [event EXCEPT ![c] = event'[c]]
  /\ targets' = [targets EXCEPT ![c] = targets'[c]] /\ at' = [at EXCEPT ![c] = at'[c]]
  /\ queue' = [queue EXCEPT ![s] = queue'[s]]
  /\ dropped' = [dropped EXCEPT ![s] = dropped'[s]]
  /\ missed' = [missed EXCEPT ![s] = missed'[s]]
  /\ crossed' \in {crossed, crossed \cup {s}}
  /\ Leaves(c, s) \/ Stays(c, s)

LEMMA CarryEffects ==
  ASSUME TypeOK, NEW c \in Couriers, Carry(c)
  PROVE  \E s \in Subscribers : AtQueue(c, s)
<1>0. /\ pc \in [Couriers -> Steps]
      /\ event \in [Couriers -> Event \cup {NoEvent}]
      /\ targets \in [Couriers -> SUBSET Subscribers]
      /\ at \in [Couriers -> Subscribers \cup {None}]
      /\ queue \in [Subscribers -> Seq(Event)]
      /\ dropped \in [Subscribers -> SUBSET Event]
      /\ missed \in [Subscribers -> SUBSET Event]
      /\ pc[c] # "idle" => event[c] \in Event
      /\ pc[c] \in {"evict", "retry"} => at[c] \in targets[c]
  BY DEF TypeOK
<1>1. ASSUME NEW s \in Subscribers, s \in targets[c], Done(c, s)
      PROVE  /\ pc' = [pc EXCEPT ![c] = pc'[c]] /\ event' = [event EXCEPT ![c] = event'[c]]
             /\ targets' = [targets EXCEPT ![c] = targets'[c]] /\ at' = [at EXCEPT ![c] = at'[c]]
             /\ targets'[c] = targets[c] \ {s} /\ at'[c] = None
             /\ targets[c] # {s} => pc'[c] = "direct" /\ event'[c] = event[c]
             /\ targets[c] = {s} => pc'[c] = "idle" /\ event'[c] = NoEvent
  BY <1>0, <1>1 DEF Done, Finish, Continue, Goto
<1>2. ASSUME NEW s \in Subscribers, s \in targets[c],
             PutAside(c, s) \/ (Len(queue[s]) < MaxQueue /\ Put(c, s)) \/ Miss(c, s)
      PROVE  /\ Leaves(c, s)
             /\ pc' = [pc EXCEPT ![c] = pc'[c]] /\ event' = [event EXCEPT ![c] = event'[c]]
             /\ targets' = [targets EXCEPT ![c] = targets'[c]] /\ at' = [at EXCEPT ![c] = at'[c]]
             /\ queue' = [queue EXCEPT ![s] = queue'[s]]
             /\ dropped' = [dropped EXCEPT ![s] = dropped'[s]]
             /\ missed' = [missed EXCEPT ![s] = missed'[s]]
  <2>1. Done(c, s)
    BY <1>2 DEF PutAside, Put, Miss
  <2>2. /\ Given(c, s) \/ GivenUp(c, s) \/ PassedOver(s)
        /\ queue' = [queue EXCEPT ![s] = queue'[s]]
        /\ dropped' = [dropped EXCEPT ![s] = dropped'[s]]
        /\ missed' = [missed EXCEPT ![s] = missed'[s]]
    BY <1>0, <1>2 DEF PutAside, Put, Miss, Given, GivenUp, PassedOver
  <2>3. QED
    BY <1>1, <1>2, <2>1, <2>2 DEF Leaves
<1>3. ASSUME NEW s \in Subscribers, TryPut(c, s) PROVE AtQueue(c, s)
  <2>1. /\ pc[c] = "direct" /\ s \in targets[c] /\ event[c] \in Event
        /\ UNCHANGED <<run, counter, history, log, bound, loopq, stage, backlog, seen, due, stored>>
        /\ crossed' \in {crossed, crossed \cup {s}}
    BY <1>0, <1>3 DEF TryPut, bus
  <2>2. CASE PutAside(c, s) \/ (Len(queue[s]) < MaxQueue /\ Put(c, s))
    BY <1>2, <2>1, <2>2 DEF AtQueue, Delivering
  <2>3. CASE /\ at' = [at EXCEPT ![c] = s]
             /\ Continue(c, "evict")
             /\ UNCHANGED <<queue, targets, dropped, missed>>
    BY <1>0, <2>1, <2>3 DEF AtQueue, Stays, Delivering, Continue, Goto
  <2>4. QED
    BY <1>3, <2>2, <2>3 DEF TryPut
<1>4. ASSUME Evict(c) \/ Retry(c) PROVE AtQueue(c, at[c]) /\ at[c] \in Subscribers
  <2>1. /\ pc[c] \in {"evict", "retry"} /\ at[c] \in targets[c] /\ event[c] \in Event
        /\ UNCHANGED <<run, counter, history, log, bound, loopq, stage, backlog, seen, due, stored>>
        /\ crossed' = crossed
    BY <1>0, <1>4 DEF Evict, Retry, bus
  <2>2. at[c] \in Subscribers
    BY <1>0, <2>1
  <2>3. CASE \/ PutAside(c, at[c]) \/ Miss(c, at[c])
             \/ (Len(queue[at[c]]) < MaxQueue /\ Put(c, at[c]))
    BY <1>2, <2>1, <2>2, <2>3 DEF AtQueue, Delivering
  <2>4. CASE /\ queue[at[c]] # <<>>
             /\ queue' = [queue EXCEPT ![at[c]] = Tail(@)]
             /\ dropped' = [dropped EXCEPT ![at[c]] = @ \cup {Head(queue[at[c]])}]
             /\ Continue(c, "retry")
             /\ UNCHANGED <<targets, at, missed>>
    BY <1>0, <2>1, <2>2, <2>4 DEF AtQueue, Stays, Delivering, Continue, Goto
  <2>5. QED
    BY <1>4, <2>2, <2>3, <2>4 DEF Evict, Retry
<1>5. QED
  BY <1>3, <1>4 DEF Carry

-----------------------------------------------------------------------------

\* Every variable keeps its type; in particular _history and each subscriber's
\* queue stay within their bounds (streaming.py:38, 120-122, 145).
THEOREM TypeCorrect == Spec => []TypeOK
<1> USE BusConstants
<1>1. Init => TypeOK
  <2> SUFFICES ASSUME Init PROVE TypeOK
    OBVIOUS
  <2>1. <<>> \in Seq(Event) /\ Len(<<>>) = 0
    BY EmptySeq
  <2>2. /\ queue \in [Subscribers -> Seq(Event)]
        /\ \A s \in Subscribers : Len(queue[s]) <= MaxQueue
        /\ backlog \in [Subscribers -> Seq(Event)]
        /\ seen \in [Subscribers -> Seq(Event)]
    BY <2>1 DEF Init
  <2>3. /\ history \in Seq(Event) /\ Len(history) <= HistorySize
        /\ log \in Seq(Event)
        /\ loopq \in Seq(Event)
    BY <2>1 DEF Init
  <2>4. /\ run \in 1..MaxRuns
        /\ counter \in 0..MaxEvents[run]
    BY DEF Init
  <2>5. /\ stage \in [Subscribers -> {"new", "bound", "attached", "live", "gone"}]
        /\ pc \in [Couriers -> Steps]
        /\ event \in [Couriers -> Event \cup {NoEvent}]
        /\ \A c \in Couriers : pc[c] # "idle" => event[c] \in Event
        /\ targets \in [Couriers -> SUBSET Subscribers]
        /\ at \in [Couriers -> Subscribers \cup {None}]
        /\ \A c \in Couriers : pc[c] \in {"evict", "retry"} => at[c] \in targets[c]
        /\ due \in [Subscribers -> SUBSET Event]
        /\ dropped \in [Subscribers -> SUBSET Event]
        /\ missed \in [Subscribers -> SUBSET Event]
        /\ crossed \in SUBSET Subscribers
        /\ stored \in SUBSET Event
    BY DEF Init
  <2>6. bound \in BOOLEAN
    BY DEF Init
  <2>7. QED
    BY <2>2, <2>3, <2>4, <2>5, <2>6 DEF TypeOK
<1>2. TypeOK /\ [Next]_vars => TypeOK'
  <2> SUFFICES ASSUME TypeOK, [Next]_vars PROVE TypeOK'
    OBVIOUS
  <2> USE DEF TypeOK
  <2> USE DEF Goto, Continue, Finish, bus, subs, pubs, lost, aux
  <2>1. ASSUME NEW p \in Publishers, TakeId(p) PROVE TypeOK'
    <3>1. run \in 1..MaxRuns /\ MaxEvents[run] \in Nat /\ counter \in Nat
      BY DEF TypeOK
    <3>2. counter' = counter + 1 /\ counter < MaxEvents[run] /\ run' = run
      BY <2>1 DEF TakeId
    <3>3. counter' \in 1..MaxEvents[run]
      BY <3>1, <3>2
    <3>4. [run |-> run, id |-> counter', pub |-> p] \in Event
      BY <3>1, <3>3, EventFields
    <3>5. event'[p] \in Event
      BY <2>1, <3>4 DEF TakeId
    <3>6. counter' \in 0..MaxEvents[run']
      BY <3>1, <3>2, <3>3
    <3>7. QED
      BY <2>1, <3>5, <3>6 DEF TakeId
  <2>2. ASSUME NEW p \in Publishers, Retain(p) PROVE TypeOK'
    <3> DEFINE longer == Append(history, event[p])
    <3>1. event[p] \in Event
      BY <2>2 DEF Retain
    <3>2. history \in Seq(Event) /\ Len(history) \in Nat
      BY LenProperties
    <3>3. longer \in Seq(Event) /\ Len(longer) = Len(history) + 1 /\ longer # <<>>
      BY ONLY <3>1, <3>2, AppendProperties
    <3>4. Tail(longer) \in Seq(Event) /\ Len(Tail(longer)) = Len(history)
      BY ONLY <3>2, <3>3, HeadTailProperties
    <3> HIDE DEF longer
    <3>5. history' = IF Len(longer) > HistorySize THEN Tail(longer) ELSE longer
      BY <2>2 DEF Retain, longer
    <3>6. history' \in Seq(Event) /\ Len(history') <= HistorySize
      BY <3>2, <3>3, <3>4, <3>5
    <3>7. due' \in [Subscribers -> SUBSET Event]
      BY <2>2, <3>1 DEF Retain
    <3>8. QED
      BY <2>2, <3>6, <3>7 DEF Retain
  <2>3. ASSUME NEW p \in Publishers, Persist(p) PROVE TypeOK'
    <3>1. event[p] \in Event
      BY <2>3 DEF Persist
    <3>2. Append(log, event[p]) \in Seq(Event) /\ stored \cup {event[p]} \in SUBSET Event
      BY <3>1, AppendProperties
    <3>3. log' \in Seq(Event) /\ stored' \in SUBSET Event
      BY <2>3, <3>2 DEF Persist
    <3>4. QED
      BY <2>3, <3>3 DEF Persist
  <2>4. ASSUME NEW p \in Publishers, Route(p) PROVE TypeOK'
    <3>1. event[p] \in Event
      BY <2>4 DEF Route
    <3>2. Append(loopq, event[p]) \in Seq(Event)
      BY <3>1, AppendProperties
    <3>3. loopq' \in Seq(Event)
      BY <2>4, <3>2 DEF Route
    <3>4. QED
      BY <2>4, <3>3 DEF Route
  <2>5. ASSUME NEW p \in Publishers, ListTargets(p) PROVE TypeOK'
    BY <2>5 DEF ListTargets, Attached
  <2>6. ASSUME NEW c \in Couriers, Carry(c) PROVE TypeOK'
    <3>1. PICK s \in Subscribers : AtQueue(c, s)
      BY <2>6, CarryEffects
    <3>2. /\ queue'[s] \in Seq(Event) /\ Len(queue'[s]) <= MaxQueue
          /\ dropped'[s] \subseteq Event /\ missed'[s] \subseteq Event
      <4>1. event[c] \in Event /\ queue[s] \in Seq(Event) /\ Len(queue[s]) <= MaxQueue
        BY <3>1 DEF AtQueue
      <4>2. Append(queue[s], event[c]) \in Seq(Event)
            /\ Len(Append(queue[s], event[c])) = Len(queue[s]) + 1 /\ Len(queue[s]) \in Nat
        BY <4>1, AppendProperties, LenProperties
      <4>3. queue[s] # <<>> =>
              /\ Tail(queue[s]) \in Seq(Event) /\ Len(Tail(queue[s])) = Len(queue[s]) - 1
              /\ Head(queue[s]) \in Event
        BY <4>1, HeadTailProperties
      <4>4. dropped[s] \subseteq Event /\ missed[s] \subseteq Event
        OBVIOUS
      <4>5. CASE Stays(c, s)
        <5>1. missed'[s] = missed[s]
          BY <4>5 DEF Stays
        <5>2. CASE queue'[s] = queue[s] /\ dropped'[s] = dropped[s]
          BY ONLY <4>1, <4>4, <5>1, <5>2
        <5>3. CASE /\ queue[s] # <<>> /\ queue'[s] = Tail(queue[s])
                   /\ dropped'[s] = dropped[s] \cup {Head(queue[s])}
          <6>1. Len(queue'[s]) <= MaxQueue
            BY <4>1, <4>2, <4>3, <5>3, BusConstants
          <6>2. QED
            BY <4>3, <4>4, <5>1, <5>3, <6>1
        <5>4. QED
          BY <4>5, <5>2, <5>3 DEF Stays
      <4>6. CASE Leaves(c, s)
        <5>1. Given(c, s) \/ GivenUp(c, s) \/ PassedOver(s)
          BY <4>6 DEF Leaves
        <5>2. CASE Given(c, s)
          BY ONLY <4>1, <4>2, <4>4, <5>2, BusConstants DEF Given
        <5>3. CASE GivenUp(c, s) \/ PassedOver(s)
          BY ONLY <4>1, <4>4, <5>3 DEF GivenUp, PassedOver
        <5>4. QED
          BY <5>1, <5>2, <5>3
      <4>7. QED
        BY <3>1, <4>5, <4>6 DEF AtQueue
    <3>3. /\ queue' \in [Subscribers -> Seq(Event)]
          /\ \A x \in Subscribers : Len(queue'[x]) <= MaxQueue
          /\ dropped' \in [Subscribers -> SUBSET Event]
          /\ missed' \in [Subscribers -> SUBSET Event]
          /\ crossed' \in SUBSET Subscribers
      <4>1. /\ queue' = [queue EXCEPT ![s] = queue'[s]]
            /\ dropped' = [dropped EXCEPT ![s] = dropped'[s]]
            /\ missed' = [missed EXCEPT ![s] = missed'[s]]
            /\ crossed' \in {crossed, crossed \cup {s}}
        BY <3>1 DEF AtQueue
      <4>2. QED
        BY <3>2, <4>1
    <3>4. /\ pc'[c] \in Steps /\ event'[c] \in Event \cup {NoEvent}
          /\ pc'[c] # "idle" => event'[c] \in Event
          /\ targets'[c] \subseteq Subscribers /\ at'[c] \in Subscribers \cup {None}
          /\ pc'[c] \in {"evict", "retry"} => at'[c] \in targets'[c]
      <4>1. pc[c] \in Steps /\ event[c] \in Event /\ s \in targets[c] /\ targets[c] \subseteq Subscribers
        BY <3>1 DEF AtQueue
      <4>2. CASE Leaves(c, s)
        BY <4>1, <4>2 DEF Leaves
      <4>3. CASE Stays(c, s)
        BY <4>1, <4>3 DEF Stays
      <4>4. QED
        BY <3>1, <4>2, <4>3 DEF AtQueue
    <3>5. /\ pc' = [pc EXCEPT ![c] = pc'[c]] /\ event' = [event EXCEPT ![c] = event'[c]]
          /\ targets' = [targets EXCEPT ![c] = targets'[c]] /\ at' = [at EXCEPT ![c] = at'[c]]
          /\ UNCHANGED <<run, counter, history, log, bound, loopq, stage, backlog, seen, due, stored>>
      BY <3>1 DEF AtQueue
    <3>6. /\ pc' \in [Couriers -> Steps]
          /\ event' \in [Couriers -> Event \cup {NoEvent}]
          /\ \A d \in Couriers : pc'[d] # "idle" => event'[d] \in Event
          /\ targets' \in [Couriers -> SUBSET Subscribers]
          /\ at' \in [Couriers -> Subscribers \cup {None}]
          /\ \A d \in Couriers : pc'[d] \in {"evict", "retry"} => at'[d] \in targets'[d]
      BY <3>4, <3>5
    <3>7. QED
      BY <3>3, <3>5, <3>6
  <2>7. CASE Deliver
    <3>1. Head(loopq) \in Event /\ Tail(loopq) \in Seq(Event)
      BY <2>7 DEF Deliver
    <3>2. Attached \subseteq Subscribers
      BY DEF Attached
    <3>3. QED
      BY <2>7, <3>1, <3>2 DEF Deliver
  <2>8. ASSUME NEW s \in Subscribers, Bind(s) PROVE TypeOK'
    BY <2>8 DEF Bind
  <2>9. ASSUME NEW s \in Subscribers, Attach(s) PROVE TypeOK'
    BY <2>9 DEF Attach
  <2>10. ASSUME NEW s \in Subscribers, Snapshot(s) PROVE TypeOK'
    <3>1. ToSet(history) \subseteq Event
      BY MembersAreEvents
    <3>2. CASE s \in Replays
      <4>1. /\ backlog' = [backlog EXCEPT ![s] = history]
            /\ due' = [due EXCEPT ![s] = due[s] \cup ToSet(history)]
        BY <2>10, <3>2 DEF Snapshot
      <4>2. backlog' \in [Subscribers -> Seq(Event)] /\ due' \in [Subscribers -> SUBSET Event]
        BY <3>1, <4>1
      <4>3. QED
        BY <2>10, <4>2 DEF Snapshot
    <3>3. CASE s \notin Replays
      BY <2>10, <3>3 DEF Snapshot
    <3>4. QED
      BY <3>2, <3>3
  <2>11. ASSUME NEW s \in Subscribers, Yield(s) PROVE TypeOK'
    <3>1. CASE backlog[s] # <<>>
      <4>1. Head(backlog[s]) \in Event /\ Tail(backlog[s]) \in Seq(Event)
        BY <3>1
      <4>2. Append(seen[s], Head(backlog[s])) \in Seq(Event)
        BY <4>1, AppendProperties
      <4>3. /\ seen' = [seen EXCEPT ![s] = Append(seen[s], Head(backlog[s]))]
            /\ backlog' = [backlog EXCEPT ![s] = Tail(backlog[s])]
            /\ queue' = queue
        BY <2>11, <3>1 DEF Yield
      <4>4. seen' \in [Subscribers -> Seq(Event)] /\ backlog' \in [Subscribers -> Seq(Event)]
        BY <4>1, <4>2, <4>3
      <4>5. QED
        BY <2>11, <4>3, <4>4 DEF Yield
    <3>2. CASE backlog[s] = <<>>
      <4>1. queue[s] # <<>>
        BY <2>11, <3>2 DEF Yield
      <4>2. /\ Head(queue[s]) \in Event
            /\ Tail(queue[s]) \in Seq(Event)
            /\ Len(Tail(queue[s])) <= MaxQueue
        BY <4>1
      <4>3. Append(seen[s], Head(queue[s])) \in Seq(Event)
        BY <4>2, AppendProperties
      <4>4. /\ seen' = [seen EXCEPT ![s] = Append(seen[s], Head(queue[s]))]
            /\ queue' = [queue EXCEPT ![s] = Tail(queue[s])]
            /\ backlog' = backlog
        BY <2>11, <3>2 DEF Yield
      <4>5. /\ seen' \in [Subscribers -> Seq(Event)]
            /\ queue' \in [Subscribers -> Seq(Event)]
            /\ \A x \in Subscribers : Len(queue'[x]) <= MaxQueue
        BY <4>2, <4>3, <4>4
      <4>6. QED
        BY <2>11, <4>4, <4>5 DEF Yield
    <3>3. QED
      BY <3>1, <3>2
  <2>12. ASSUME NEW s \in Subscribers, Unsubscribe(s) PROVE TypeOK'
    BY <2>12 DEF Unsubscribe
  <2>13. CASE Restart
    <3>1. <<>> \in Seq(Event) /\ Len(<<>>) = 0
      BY EmptySeq
    <3>2. /\ queue' \in [Subscribers -> Seq(Event)]
          /\ \A s \in Subscribers : Len(queue'[s]) <= MaxQueue
          /\ backlog' \in [Subscribers -> Seq(Event)]
          /\ seen' \in [Subscribers -> Seq(Event)]
      BY <2>13, <3>1 DEF Restart
    <3>3. /\ run' \in 1..MaxRuns
          /\ counter' \in 0..MaxEvents[run']
          /\ history' \in Seq(Event) /\ Len(history') <= HistorySize
          /\ loopq' \in Seq(Event)
          /\ log' \in Seq(Event)
      BY <2>13, <3>1 DEF Restart
    <3>4. /\ stage' \in [Subscribers -> {"new", "bound", "attached", "live", "gone"}]
          /\ pc' \in [Couriers -> Steps]
          /\ event' \in [Couriers -> Event \cup {NoEvent}]
          /\ \A c \in Couriers : pc'[c] # "idle" => event'[c] \in Event
          /\ targets' \in [Couriers -> SUBSET Subscribers]
          /\ at' \in [Couriers -> Subscribers \cup {None}]
          /\ \A c \in Couriers : pc'[c] \in {"evict", "retry"} => at'[c] \in targets'[c]
          /\ due' \in [Subscribers -> SUBSET Event]
          /\ dropped' \in [Subscribers -> SUBSET Event]
          /\ missed' \in [Subscribers -> SUBSET Event]
          /\ crossed' \in SUBSET Subscribers
          /\ stored' \in SUBSET Event
      BY <2>13 DEF Restart
    <3>5. bound' \in BOOLEAN
      BY <2>13 DEF Restart
    <3>6. QED
      BY <3>2, <3>3, <3>4, <3>5
  <2>14. CASE UNCHANGED vars
    BY <2>14 DEF vars
  <2>15. QED
    BY <2>1, <2>2, <2>3, <2>4, <2>5, <2>6, <2>7, <2>8, <2>9, <2>10, <2>11, <2>12,
       <2>13, <2>14 DEF Next, Publish, Resume, Turn
<1>3. QED
  BY <1>1, <1>2, PTL DEF Spec

-----------------------------------------------------------------------------

\* The bus implements the audit trail (streaming.py:82-95, storage.py:169-185):
\* the one statement that writes to event_log inserts a row under an id that is
\* not taken, or does nothing, in every run of the process.
THEOREM ImplementsTrail == Spec => LogIsTrail
<1>1. Init => Trail!Init
  BY DEF Init, Trail!Init
<1>2. TypeOK /\ [Next]_vars => [Trail!Next]_log
  <2> SUFFICES ASSUME TypeOK, Next PROVE Trail!Next \/ UNCHANGED log
    BY DEF vars
  <2>1. ASSUME NEW p \in Publishers, Persist(p) PROVE Trail!Next \/ UNCHANGED log
    <3>1. event[p] \in Event
      BY <2>1 DEF Persist, TypeOK
    <3>2. CASE ~ \E i \in DOMAIN log : log[i].id = event[p].id
      <4>1. log' = log \/ log' = Append(log, event[p])
        BY <2>1, <3>2 DEF Persist
      <4>2. log' = Append(log, event[p]) => Trail!Enter(event[p])
        BY <3>2 DEF Trail!Enter
      <4>3. QED
        BY <3>1, <4>1, <4>2 DEF Trail!Next
    <3>3. CASE \E i \in DOMAIN log : log[i].id = event[p].id
      BY <2>1, <3>3 DEF Persist
    <3>4. QED
      BY <3>2, <3>3
  <2>2. ASSUME NEW p \in Publishers,
               TakeId(p) \/ Retain(p) \/ Route(p) \/ ListTargets(p)
        PROVE  UNCHANGED log
    BY <2>2 DEF TakeId, Retain, Route, ListTargets, bus
  <2>3. ASSUME NEW s \in Subscribers,
               Bind(s) \/ Attach(s) \/ Snapshot(s) \/ Yield(s) \/ Unsubscribe(s)
        PROVE  UNCHANGED log
    BY <2>3 DEF Bind, Attach, Snapshot, Yield, Unsubscribe, bus
  <2>4. ASSUME NEW c \in Couriers, Carry(c) PROVE UNCHANGED log
    BY <2>4 DEF Carry, TryPut, Evict, Retry, bus
  <2>5. CASE Deliver \/ Restart
    BY <2>5 DEF Deliver, Restart
  <2>6. QED
    BY <2>1, <2>2, <2>3, <2>4, <2>5 DEF Next, Publish, Resume, Turn
<1>3. QED
  BY <1>1, <1>2, TypeCorrect, PTL DEF Spec, LogIsTrail, Trail!Spec

-----------------------------------------------------------------------------

InFlight(p) == pc[p] # "idle"

Pending(p)  == pc[p] \in {"retain", "persist"}

Logged == {log[i] : i \in DOMAIN log}

\* What makes FirstRunLogged inductive: events in flight are of this run and
\* have distinct numbers up to the counter's; in the first run so has every row,
\* and none has the number of an event that is still to be inserted.
LogInv ==
  /\ \A p \in Publishers : InFlight(p) => event[p].run = run /\ event[p].id <= counter
  /\ \A p, q \in Publishers :
       p # q /\ InFlight(p) /\ InFlight(q) => event[p].id # event[q].id
  /\ run = 1 => \A r \in Logged : r.id <= counter
  /\ run = 1 => \A p \in Publishers : Pending(p) => \A r \in Logged : r.id # event[p].id
  /\ \A e \in stored : e.run = 1 => e \in Logged

\* A step that leaves the log, the counter and the run alone keeps LogInv, if
\* it puts nothing in flight and makes nothing pending.
LEMMA LogInvKept ==
  ASSUME LogInv, UNCHANGED <<run, counter, log, stored>>,
         \A p \in Publishers : InFlight(p)' => InFlight(p) /\ event'[p] = event[p],
         \A p \in Publishers : Pending(p)' => Pending(p)
  PROVE  LogInv'
BY DEF LogInv, Logged, InFlight, Pending

LEMMA NumbersInFlight == Spec => []LogInv
<1> USE BusConstants
<1>1. Init => LogInv
  BY DEF Init, LogInv, InFlight, Pending, Logged
<1>2. TypeOK /\ LogInv /\ [Next]_vars => LogInv'
  <2> SUFFICES ASSUME TypeOK, LogInv, [Next]_vars PROVE LogInv'
    OBVIOUS
  <2>1. ASSUME NEW p \in Publishers, TakeId(p) PROVE LogInv'
    <3>1. /\ event' = [event EXCEPT ![p] = [run |-> run, id |-> counter + 1, pub |-> p]]
          /\ counter' = counter + 1
          /\ pc' = [pc EXCEPT ![p] = "retain"]
          /\ UNCHANGED <<run, log, stored>>
      BY <2>1 DEF TakeId, Goto, aux
    <3>2. counter \in Nat
      BY DEF TypeOK
    <3>3. /\ pc \in [Couriers -> Steps]
          /\ event \in [Couriers -> Event \cup {NoEvent}]
          /\ \A q \in Publishers : InFlight(q) => event[q] \in Event
          /\ Logged \subseteq Event
      BY DEF TypeOK, InFlight, Logged
    <3>4. \A e \in Event : e.id \in Nat
      BY EventIdsAreNumbers
    <3>5. /\ pc'[p] = "retain"
          /\ event'[p].run = run /\ event'[p].id = counter + 1
          /\ \A q \in Publishers \ {p} : event'[q] = event[q] /\ pc'[q] = pc[q]
      BY <3>1, <3>3
    <3>6. ASSUME NEW q \in Publishers, InFlight(q)'
          PROVE  event'[q].run = run' /\ event'[q].id <= counter'
      <4>1. CASE q = p
        BY <3>1, <3>2, <3>5, <4>1
      <4>2. CASE q # p
        <5>1. InFlight(q) /\ event'[q] = event[q]
          BY <3>5, <3>6, <4>2 DEF InFlight
        <5>2. event[q].run = run /\ event[q].id <= counter /\ event[q].id \in Nat
          BY <3>3, <3>4, <5>1 DEF LogInv
        <5>3. QED
          BY <3>1, <3>2, <5>1, <5>2
      <4>3. QED
        BY <4>1, <4>2
    <3>7. ASSUME NEW q \in Publishers, NEW r \in Publishers, q # r, InFlight(q)', InFlight(r)'
          PROVE  event'[q].id # event'[r].id
      <4>1. \A x \in Publishers \ {p} : InFlight(x)' =>
              /\ InFlight(x) /\ event'[x] = event[x]
              /\ event[x].id \in Nat /\ event[x].id <= counter
        BY <3>3, <3>4, <3>5 DEF LogInv, InFlight
      <4>2. CASE q = p
        BY <3>2, <3>5, <3>7, <4>1, <4>2
      <4>3. CASE r = p
        BY <3>2, <3>5, <3>7, <4>1, <4>3
      <4>4. CASE q # p /\ r # p
        BY <3>7, <4>1, <4>4 DEF LogInv
      <4>5. QED
        BY <4>2, <4>3, <4>4
    <3>8. run' = 1 => \A r \in Logged' : r.id <= counter'
      <4>1. Logged' = Logged /\ run' = run
        BY <3>1 DEF Logged
      <4>2. run = 1 => \A r \in Logged : r.id <= counter /\ r.id \in Nat
        BY <3>3, <3>4 DEF LogInv
      <4>3. QED
        BY <3>1, <3>2, <4>1, <4>2
    <3>9. ASSUME run' = 1, NEW q \in Publishers, Pending(q)'
          PROVE  \A r \in Logged' : r.id # event'[q].id
      <4>1. Logged' = Logged /\ \A r \in Logged : r.id <= counter /\ r.id \in Nat
        BY <3>1, <3>3, <3>4, <3>9 DEF LogInv, Logged
      <4>2. CASE q = p
        BY <3>2, <3>5, <4>1, <4>2
      <4>3. CASE q # p
        <5>1. Pending(q) /\ event'[q] = event[q] /\ run = 1
          BY <3>1, <3>5, <3>9, <4>3 DEF Pending
        <5>2. QED
          BY <4>1, <5>1 DEF LogInv
      <4>4. QED
        BY <4>2, <4>3
    <3>10. \A e \in stored' : e.run = 1 => e \in Logged'
      BY <3>1 DEF LogInv, Logged
    <3>11. QED
      BY <3>6, <3>7, <3>8, <3>9, <3>10 DEF LogInv
  <2>2. ASSUME NEW p \in Publishers, Retain(p) PROVE LogInv'
    BY <2>2, LogInvKept DEF Retain, Goto, InFlight, Pending, TypeOK
  <2>3. ASSUME NEW p \in Publishers, Persist(p) PROVE LogInv'
    <3> DEFINE e == event[p]
    <3>1. /\ pc[p] = "persist"
          /\ pc' = [pc EXCEPT ![p] = "route"]
          /\ UNCHANGED <<run, counter, event>>
          /\ pc \in [Couriers -> Steps]
          /\ e \in Event /\ log \in Seq(Event)
      BY <2>3 DEF Persist, Goto, TypeOK
    <3>2. CASE UNCHANGED <<log, stored>>
      BY <3>1, <3>2, LogInvKept DEF InFlight, Pending
    <3>3. CASE stored' = stored \cup {e} /\ log' = log /\ \E r \in Logged : r.id = e.id
      <4>1. run # 1
        BY <3>1, <3>3 DEF LogInv, Pending
      <4>2. e.run # 1
        BY <3>1, <4>1 DEF LogInv, InFlight
      <4>3. QED
        BY <3>1, <3>3, <4>1, <4>2 DEF LogInv, InFlight, Pending, Logged
    <3>4. CASE stored' = stored \cup {e} /\ log' = Append(log, e)
      <4>1. Logged' = Logged \cup {e}
        <5>1. /\ Append(log, e) \in Seq(Event)
              /\ Len(Append(log, e)) = Len(log) + 1
              /\ \A i \in 1..Len(log) : Append(log, e)[i] = log[i]
              /\ Append(log, e)[Len(log) + 1] = e
              /\ Len(log) \in Nat
          BY ONLY <3>1, AppendProperties, LenProperties
        <5>2. DOMAIN log = 1..Len(log) /\ DOMAIN Append(log, e) = 1..(Len(log) + 1)
          BY ONLY <3>1, <5>1, LenProperties
        <5>3. DOMAIN Append(log, e) = DOMAIN log \cup {Len(log) + 1}
          BY <5>1, <5>2
        <5>4. QED
          BY <3>4, <5>1, <5>2, <5>3 DEF Logged
      <4>2. e.id <= counter /\ \A q \in Publishers \ {p} : InFlight(q) => event[q].id # e.id
        BY <3>1 DEF LogInv, InFlight
      <4>3. QED
        BY <3>1, <3>4, <4>1, <4>2 DEF LogInv, InFlight, Pending
    <3>5. QED
      BY <2>3, <3>2, <3>3, <3>4 DEF Persist, Logged
  <2>4. ASSUME NEW p \in Publishers, Route(p) PROVE LogInv'
    BY <2>4, LogInvKept DEF Route, Finish, Continue, Goto, InFlight, Pending, TypeOK, aux
  <2>5. ASSUME NEW p \in Publishers, ListTargets(p) PROVE LogInv'
    BY <2>5, LogInvKept DEF ListTargets, Finish, Continue, Goto, InFlight, Pending, TypeOK, bus, aux
  <2>6. ASSUME NEW c \in Couriers, Carry(c) PROVE LogInv'
    <3>1. PICK s \in Subscribers : AtQueue(c, s)
      BY <2>6, CarryEffects
    <3>2. /\ UNCHANGED <<run, counter, log, stored>>
          /\ pc[c] \in Delivering /\ pc'[c] \in {"idle", "direct", "evict", "retry"}
          /\ pc'[c] # "idle" => event'[c] = event[c]
          /\ \A d \in Couriers : d # c => pc'[d] = pc[d] /\ event'[d] = event[d]
      BY <3>1 DEF AtQueue, Leaves, Stays, TypeOK
    <3>3. QED
      BY <3>2, LogInvKept DEF InFlight, Pending, Delivering
  <2>7. ASSUME NEW s \in Subscribers,
               Bind(s) \/ Attach(s) \/ Snapshot(s) \/ Yield(s) \/ Unsubscribe(s)
        PROVE  LogInv'
    BY <2>7, LogInvKept
       DEF Bind, Attach, Snapshot, Yield, Unsubscribe, InFlight, Pending, bus, pubs, aux
  <2>8. CASE Deliver
    BY <2>8, LogInvKept, BusConstants DEF Deliver, InFlight, Pending, TypeOK, subs, aux
  <2>9. CASE Restart
    <3>1. run' # 1
      BY <2>9 DEF Restart, TypeOK
    <3>2. \A p \in Publishers : pc'[p] = "idle"
      BY <2>9 DEF Restart
    <3>3. log' = log /\ stored' = stored
      BY <2>9 DEF Restart
    <3>4. QED
      BY <3>1, <3>2, <3>3 DEF LogInv, InFlight, Pending, Logged
  <2>10. CASE UNCHANGED vars
    BY <2>10, LogInvKept DEF vars, InFlight, Pending
  <2>11. QED
    BY <2>1, <2>2, <2>3, <2>4, <2>5, <2>6, <2>7, <2>8, <2>9, <2>10
       DEF Next, Publish, Resume, Turn
<1>3. QED
  BY <1>1, <1>2, TypeCorrect, PTL DEF Spec

\* In the first run of a process on a database each event whose insert succeeded
\* has its row (streaming.py:56, 82-95; storage.py:169-185).
THEOREM FirstRunComplete == Spec => []FirstRunLogged
<1>1. LogInv => FirstRunLogged
  BY DEF LogInv, FirstRunLogged, Logged, ToSet
<1>2. QED
  BY <1>1, NumbersInFlight, PTL

-----------------------------------------------------------------------------
(* The members of the queues.                                              *)

LEMMA MembersOfAppend ==
  ASSUME NEW q \in Seq(Event), NEW e \in Event
  PROVE  ToSet(Append(q, e)) = ToSet(q) \cup {e}
<1>1. /\ Append(q, e) \in Seq(Event)
      /\ Len(Append(q, e)) = Len(q) + 1
      /\ \A i \in 1..Len(q) : Append(q, e)[i] = q[i]
      /\ Append(q, e)[Len(q) + 1] = e
      /\ Len(q) \in Nat
  BY ONLY AppendProperties, LenProperties, q \in Seq(Event), e \in Event
<1>2. DOMAIN q = 1..Len(q) /\ DOMAIN Append(q, e) = 1..(Len(q) + 1)
  BY ONLY <1>1, LenProperties, q \in Seq(Event)
<1>3. DOMAIN Append(q, e) = DOMAIN q \cup {Len(q) + 1}
  BY <1>1, <1>2
<1>4. QED
  BY <1>1, <1>2, <1>3 DEF ToSet

LEMMA MembersOfTail ==
  ASSUME NEW q \in Seq(Event), q # <<>>
  PROVE  /\ Head(q) \in Event /\ Tail(q) \in Seq(Event)
         /\ ToSet(q) = {Head(q)} \cup ToSet(Tail(q))
<1>1. /\ Head(q) \in Event /\ Head(q) = q[1]
      /\ Tail(q) \in Seq(Event)
      /\ Len(Tail(q)) = Len(q) - 1
      /\ \A i \in 1..Len(Tail(q)) : Tail(q)[i] = q[i + 1]
      /\ Len(q) \in Nat \ {0}
  BY ONLY HeadTailProperties, LenProperties, EmptySeq, q \in Seq(Event), q # <<>>
<1>2. DOMAIN q = 1..Len(q) /\ DOMAIN Tail(q) = 1..(Len(q) - 1)
  BY ONLY <1>1, LenProperties, q \in Seq(Event)
<1>3. ASSUME NEW i \in DOMAIN q PROVE q[i] \in {Head(q)} \cup ToSet(Tail(q))
  <2>1. CASE i = 1
    BY <1>1, <2>1
  <2>2. CASE i # 1
    <3>1. i - 1 \in DOMAIN Tail(q) /\ Tail(q)[i - 1] = q[i]
      BY <1>1, <1>2, <1>3, <2>2
    <3>2. QED
      BY <3>1 DEF ToSet
  <2>3. QED
    BY <2>1, <2>2
<1>4. ASSUME NEW i \in DOMAIN Tail(q) PROVE Tail(q)[i] \in ToSet(q)
  <2>1. i + 1 \in DOMAIN q /\ Tail(q)[i] = q[i + 1]
    BY <1>1, <1>2, <1>4
  <2>2. QED
    BY <2>1 DEF ToSet
<1>5. 1 \in DOMAIN q
  BY <1>1, <1>2
<1>6. Head(q) \in ToSet(q)
  BY <1>1, <1>5 DEF ToSet
<1>7. ToSet(q) \subseteq {Head(q)} \cup ToSet(Tail(q))
  BY <1>3 DEF ToSet
<1>8. ToSet(Tail(q)) \subseteq ToSet(q)
  BY <1>4 DEF ToSet
<1>9. QED
  BY <1>1, <1>6, <1>7, <1>8

LEMMA NoMembers == ToSet(<<>>) = {}
BY DEF ToSet

-----------------------------------------------------------------------------

\* Where an event that is due to s may be.
Reach(s) ==
  ToSet(seen[s]) \cup ToSet(backlog[s]) \cup ToSet(queue[s]) \cup ToSet(loopq)
    \cup OnTheWay(s) \cup dropped[s] \cup missed[s]

\* What makes the second half of NoGap inductive: a publisher that is at a full
\* queue has been there, and the loop finds a queue as it left it unless a
\* publisher has been there.
CrossInv ==
  /\ \A s \in Subscribers : missed[s] # {} => s \in crossed
  /\ \A p \in Publishers : pc[p] \in {"evict", "retry"} =>
       at[p] \in crossed \/ stage[at[p]] = "gone"
  /\ pc[Loop] = "evict" => at[Loop] \in crossed \/ Len(queue[at[Loop]]) >= MaxQueue
  /\ pc[Loop] = "retry" => at[Loop] \in crossed \/ Len(queue[at[Loop]]) < MaxQueue

\* What makes NoGap inductive: nothing is due to a subscriber whose queue is not
\* registered, and nothing is replayed before the history is copied.
GapInv ==
  /\ \A s \in Attached : due[s] \subseteq Reach(s)
  /\ \A s \in Subscribers \ Attached : due[s] = {}
  /\ \A s \in Subscribers : stage[s] # "live" => backlog[s] = <<>>

\* A step that moves the events that are due, and neither owes more to anybody
\* nor touches a subscription, keeps GapInv.
LEMMA GapKept ==
  ASSUME GapInv, UNCHANGED <<stage, due>>,
         \A s \in Subscribers : backlog[s] = <<>> => backlog'[s] = <<>>,
         \A s \in Attached : Reach(s) \subseteq Reach(s)'
  PROVE  GapInv'
<1>1. Attached' = Attached
  BY DEF Attached
<1>2. \A s \in Attached : due[s] \subseteq Reach(s)
  BY DEF GapInv
<1>3. \A s \in Attached' : due'[s] \subseteq Reach(s)'
  BY <1>1, <1>2
<1>4. QED
  BY <1>1, <1>3 DEF GapInv

\* What one courier does takes away no event that another one carries.
LEMMA OthersCarryOn ==
  ASSUME NEW p \in Couriers, NEW s \in Subscribers,
         \A q \in Couriers \ {p} :
           pc'[q] = pc[q] /\ event'[q] = event[q] /\ targets'[q] = targets[q]
  PROVE  OnTheWay(s) \subseteq OnTheWay(s)' \cup {event[p]}
<1> SUFFICES ASSUME NEW q \in Couriers, q # p,
                    \/ pc[q] \in {"persist", "route", "targets"}
                    \/ pc[q] \in {"direct", "evict", "retry"} /\ s \in targets[q]
             PROVE  event[q] \in OnTheWay(s)'
  BY DEF OnTheWay
<1>1. pc'[q] = pc[q] /\ event'[q] = event[q] /\ targets'[q] = targets[q]
  OBVIOUS
<1>2. QED
  BY <1>1 DEF OnTheWay

\* Nothing that is due is lost on the way but at a full queue.
LEMMA NothingOwed == Spec => []GapInv
<1>1. Init => GapInv
  BY DEF Init, GapInv, Attached
<1>2. TypeOK /\ GapInv /\ [Next]_vars => GapInv'
  <2> SUFFICES ASSUME TypeOK, GapInv, [Next]_vars PROVE GapInv'
    OBVIOUS
  <2>0. /\ stage \in [Subscribers -> {"new", "bound", "attached", "live", "gone"}]
        /\ queue \in [Subscribers -> Seq(Event)]
        /\ \A s \in Subscribers : Len(queue[s]) <= MaxQueue
        /\ backlog \in [Subscribers -> Seq(Event)]
        /\ seen \in [Subscribers -> Seq(Event)]
        /\ due \in [Subscribers -> SUBSET Event]
        /\ dropped \in [Subscribers -> SUBSET Event]
        /\ pc \in [Couriers -> Steps]
        /\ event \in [Couriers -> Event \cup {NoEvent}]
        /\ targets \in [Couriers -> SUBSET Subscribers]
        /\ \A c \in Couriers : pc[c] # "idle" => event[c] \in Event
        /\ missed \in [Subscribers -> SUBSET Event]
        /\ history \in Seq(Event) /\ loopq \in Seq(Event)
    BY DEF TypeOK
  <2>00. Attached \subseteq Subscribers
    BY DEF Attached
  <2>1. ASSUME NEW p \in Publishers, TakeId(p) PROVE GapInv'
    <3>1. /\ UNCHANGED <<loopq, targets, stage, queue, backlog, seen, due, dropped, missed>>
          /\ pc[p] = "idle"
          /\ \A q \in Couriers \ {p} :
               pc'[q] = pc[q] /\ event'[q] = event[q] /\ targets'[q] = targets[q]
      BY <2>0, <2>1 DEF TakeId, Goto, subs, aux
    <3>2. \A s \in Subscribers : OnTheWay(s) \subseteq OnTheWay(s)'
      BY <3>1 DEF OnTheWay
    <3>3. QED
      BY <2>00, <3>1, <3>2, GapKept DEF Reach
  <2>2. ASSUME NEW p \in Publishers, Retain(p) PROVE GapInv'
    <3>1. /\ UNCHANGED <<loopq, targets, stage, queue, backlog, seen, dropped, missed, event>>
          /\ pc[p] = "retain" /\ pc'[p] = "persist"
          /\ \A q \in Couriers \ {p} : pc'[q] = pc[q]
          /\ due' = [s \in Subscribers |->
               IF s \in Attached THEN due[s] \cup {event[p]} ELSE due[s]]
      BY <2>0, <2>2 DEF Retain, Goto, subs, lost
    <3>2. Attached' = Attached
      BY <3>1 DEF Attached
    <3>3. \A s \in Subscribers : OnTheWay(s) \cup {event[p]} \subseteq OnTheWay(s)'
      BY <3>1 DEF OnTheWay
    <3>4. \A s \in Attached : due'[s] \subseteq Reach(s)'
      <4> TAKE s \in Attached
      <4>1. due[s] \subseteq Reach(s)
        BY DEF GapInv
      <4>2. due'[s] = due[s] \cup {event[p]}
        BY <2>00, <3>1
      <4>3. Reach(s) \cup {event[p]} \subseteq Reach(s)'
        BY <2>00, <3>1, <3>3 DEF Reach
      <4>4. QED
        BY <4>1, <4>2, <4>3
    <3>5. QED
      BY <3>1, <3>2, <3>4 DEF GapInv
  <2>3. ASSUME NEW p \in Publishers, Persist(p) PROVE GapInv'
    <3>1. /\ UNCHANGED <<loopq, targets, stage, queue, backlog, seen, due, dropped, missed, event>>
          /\ pc[p] = "persist" /\ pc'[p] = "route"
          /\ \A q \in Couriers \ {p} : pc'[q] = pc[q]
      BY <2>0, <2>3 DEF Persist, Goto, subs, lost
    <3>2. \A s \in Subscribers : OnTheWay(s) \subseteq OnTheWay(s)'
      BY <3>1 DEF OnTheWay
    <3>3. QED
      BY <2>00, <3>1, <3>2, GapKept DEF Reach
  <2>4. ASSUME NEW p \in Publishers, Route(p) PROVE GapInv'
    <3>1. /\ UNCHANGED <<targets, stage, queue, backlog, seen, due, dropped, missed>>
          /\ pc[p] = "route" /\ event[p] \in Event
          /\ \A q \in Couriers \ {p} : pc'[q] = pc[q] /\ event'[q] = event[q]
      BY <2>0, <2>4 DEF Route, Finish, Continue, Goto, subs, aux
    <3>2. CASE loopq' = Append(loopq, event[p])
      <4>1. ToSet(loopq') = ToSet(loopq) \cup {event[p]}
        BY <2>0, <3>1, <3>2, MembersOfAppend
      <4>2. \A s \in Subscribers : OnTheWay(s) \subseteq OnTheWay(s)' \cup {event[p]}
        BY <3>1, OthersCarryOn
      <4>3. \A s \in Attached : Reach(s) \subseteq Reach(s)'
        BY <2>00, <3>1, <4>1, <4>2 DEF Reach
      <4>4. QED
        BY <3>1, <4>3, GapKept
    <3>3. CASE loopq' = loopq /\ event' = event /\ pc'[p] = "targets"
      <4>1. \A s \in Subscribers : OnTheWay(s) \subseteq OnTheWay(s)'
        BY <3>1, <3>3 DEF OnTheWay
      <4>2. QED
        BY <2>00, <3>1, <3>3, <4>1, GapKept DEF Reach
    <3>4. QED
      BY <2>0, <2>4, <3>2, <3>3 DEF Route, Continue, Goto
  <2>5. ASSUME NEW p \in Publishers, ListTargets(p) PROVE GapInv'
    <3>1. /\ UNCHANGED <<loopq, stage, queue, backlog, seen, due, dropped, missed>>
          /\ pc[p] = "targets"
          /\ targets'[p] = Attached
          /\ Attached # {} => pc'[p] = "direct" /\ event'[p] = event[p]
          /\ \A q \in Couriers \ {p} :
               pc'[q] = pc[q] /\ event'[q] = event[q] /\ targets'[q] = targets[q]
      BY <2>0, <2>5 DEF ListTargets, Finish, Continue, Goto, bus, subs, aux
    <3>2. \A s \in Attached : OnTheWay(s) \subseteq OnTheWay(s)'
      BY <3>1 DEF OnTheWay
    <3>3. \A s \in Attached : Reach(s) \subseteq Reach(s)'
      BY <3>1, <3>2 DEF Reach
    <3>4. QED
      BY <3>1, <3>3, GapKept
  <2>6. ASSUME NEW c \in Couriers, Carry(c) PROVE GapInv'
    <3>1. PICK s \in Subscribers : AtQueue(c, s)
      BY <2>6, CarryEffects
    <3>2. /\ UNCHANGED <<loopq, stage, backlog, seen, due>>
          /\ pc[c] \in Delivering /\ s \in targets[c] /\ event[c] \in Event
          /\ \A d \in Couriers \ {c} :
               pc'[d] = pc[d] /\ event'[d] = event[d] /\ targets'[d] = targets[d]
          /\ \A x \in Subscribers \ {s} :
               queue'[x] = queue[x] /\ dropped'[x] = dropped[x] /\ missed'[x] = missed[x]
      BY <2>0, <3>1 DEF AtQueue
    <3>3. OnTheWay(s) \subseteq OnTheWay(s)' \cup {event[c]}
      BY <3>2, OthersCarryOn
    <3>4. CASE Leaves(c, s)
      <4>1. \A x \in Subscribers \ {s} : OnTheWay(x) \subseteq OnTheWay(x)'
        <5> SUFFICES ASSUME NEW x \in Subscribers \ {s}, NEW d \in Couriers,
                            \/ pc[d] \in {"persist", "route", "targets"}
                            \/ pc[d] \in {"direct", "evict", "retry"} /\ x \in targets[d]
                     PROVE  event[d] \in OnTheWay(x)'
          BY DEF OnTheWay
        <5>1. CASE d = c
          <6>1. x \in targets[c] /\ targets[c] # {s}
            BY <3>2, <5>1 DEF Delivering
          <6>2. pc'[c] = "direct" /\ event'[c] = event[c] /\ x \in targets'[c]
            BY <3>4, <6>1 DEF Leaves
          <6>3. QED
            BY <5>1, <6>2 DEF OnTheWay
        <5>2. CASE d # c
          BY <3>2, <5>2 DEF OnTheWay
        <5>3. QED
          BY <5>1, <5>2
      <4>2. ASSUME s \in Attached PROVE Reach(s) \subseteq Reach(s)'
        <5>1. ToSet(queue[s]) \cup dropped[s] \cup missed[s] \cup {event[c]}
                \subseteq ToSet(queue'[s]) \cup dropped'[s] \cup missed'[s]
          <6>1. ToSet(Append(queue[s], event[c])) = ToSet(queue[s]) \cup {event[c]}
            BY <2>0, <3>2, MembersOfAppend
          <6>2. QED
            BY <3>4, <4>2, <6>1 DEF Leaves, Given, GivenUp, PassedOver
        <5>2. QED
          BY <3>2, <3>3, <5>1 DEF Reach
      <4>3. \A x \in Attached : Reach(x) \subseteq Reach(x)'
        BY <2>00, <3>2, <4>1, <4>2 DEF Reach
      <4>4. QED
        BY <3>2, <4>3, GapKept
    <3>5. CASE Stays(c, s)
      <4>1. \A x \in Subscribers : OnTheWay(x) \subseteq OnTheWay(x)'
        <5>1. /\ pc'[c] \in {"evict", "retry"} /\ event'[c] = event[c] /\ targets'[c] = targets[c]
          BY <3>5 DEF Stays
        <5>2. QED
          BY <3>2, <5>1 DEF OnTheWay, Delivering
      <4>2. ToSet(queue[s]) \cup dropped[s] \cup missed[s]
                \subseteq ToSet(queue'[s]) \cup dropped'[s] \cup missed'[s]
        <5>1. queue[s] # <<>> => ToSet(queue[s]) = {Head(queue[s])} \cup ToSet(Tail(queue[s]))
          BY <2>0, MembersOfTail
        <5>2. QED
          BY <3>5, <5>1 DEF Stays
      <4>3. \A x \in Attached : Reach(x) \subseteq Reach(x)'
        BY <2>00, <3>2, <4>1, <4>2 DEF Reach
      <4>4. QED
        BY <3>2, <4>3, GapKept
    <3>6. QED
      BY <3>1, <3>4, <3>5 DEF AtQueue
  <2>7. CASE Deliver
    <3>1. /\ UNCHANGED <<stage, backlog, queue, seen, due, dropped, missed>>
          /\ loopq # <<>> /\ loopq' = Tail(loopq)
          /\ pc[Loop] = "idle" /\ targets'[Loop] = Attached
          /\ Attached # {} => pc'[Loop] = "direct" /\ event'[Loop] = Head(loopq)
          /\ \A c \in Couriers \ {Loop} :
               pc'[c] = pc[c] /\ event'[c] = event[c] /\ targets'[c] = targets[c]
      BY <2>0, <2>7 DEF Deliver, LoopFree, subs, aux
    <3>2. ToSet(loopq) = {Head(loopq)} \cup ToSet(loopq')
      BY <2>0, <3>1, MembersOfTail
    <3>3. ASSUME NEW s \in Attached PROVE OnTheWay(s) \cup {Head(loopq)} \subseteq OnTheWay(s)'
      <4>1. \A c \in Couriers :
              (\/ pc[c] \in {"persist", "route", "targets"}
               \/ pc[c] \in {"direct", "evict", "retry"} /\ s \in targets[c]) => c # Loop
        BY <3>1
      <4>2. OnTheWay(s) \subseteq OnTheWay(s)'
        BY <3>1, <4>1 DEF OnTheWay
      <4>3. Head(loopq) \in OnTheWay(s)'
        BY <3>1, <3>3 DEF OnTheWay
      <4>4. QED
        BY <4>2, <4>3
    <3>4. \A s \in Attached : Reach(s) \subseteq Reach(s)'
      BY <3>1, <3>2, <3>3 DEF Reach
    <3>5. QED
      BY <3>1, <3>4, GapKept
  <2>8. ASSUME NEW s \in Subscribers, Bind(s) \/ Attach(s) PROVE GapInv'
    <3>1. /\ UNCHANGED <<loopq, queue, backlog, pc, event, targets, seen, due, dropped, missed>>
          /\ stage[s] \notin {"attached", "live", "gone"} /\ stage'[s] \in {"bound", "attached"}
          /\ \A x \in Subscribers \ {s} : stage'[x] = stage[x]
      BY <2>0, <2>8 DEF Bind, Attach, bus, pubs, aux
    <3>2. s \notin Attached /\ Attached' \subseteq Attached \cup {s} /\ Attached \subseteq Attached'
      BY <3>1 DEF Attached
    <3>3. due[s] = {}
      BY <3>2 DEF GapInv
    <3>4. \A x \in Subscribers : Reach(x)' = Reach(x)
      BY <3>1 DEF Reach, OnTheWay
    <3>5. \A x \in Subscribers : due[x] \subseteq Reach(x)
      BY DEF GapInv
    <3>6. \A x \in Attached' : due'[x] \subseteq Reach(x)'
      BY <3>1, <3>4, <3>5 DEF Attached
    <3>7. \A x \in Subscribers : stage'[x] # "live" => backlog'[x] = <<>>
      BY <3>1 DEF GapInv
    <3>8. QED
      BY <3>1, <3>2, <3>6, <3>7 DEF GapInv
  <2>9. ASSUME NEW s \in Subscribers, Snapshot(s) PROVE GapInv'
    <3>1. /\ UNCHANGED <<loopq, queue, pc, event, targets, seen, dropped, missed>>
          /\ stage[s] = "attached" /\ stage'[s] = "live"
          /\ \A x \in Subscribers \ {s} :
               stage'[x] = stage[x] /\ backlog'[x] = backlog[x] /\ due'[x] = due[x]
          /\ due'[s] \subseteq due[s] \cup ToSet(backlog'[s])
      BY <2>0, <2>9 DEF Snapshot, bus, pubs, lost
    <3>2. Attached' = Attached /\ s \in Attached
      BY <3>1 DEF Attached
    <3>3. backlog[s] = <<>>
      BY <3>1 DEF GapInv
    <3>4. \A x \in Subscribers : OnTheWay(x)' = OnTheWay(x)
      BY <3>1 DEF OnTheWay
    <3>5. \A x \in Attached : due[x] \subseteq Reach(x)
      BY DEF GapInv
    <3>6. due'[s] \subseteq Reach(s)'
      BY <3>1, <3>2, <3>3, <3>4, <3>5, NoMembers DEF Reach
    <3>7. \A x \in Attached \ {s} : due'[x] \subseteq Reach(x)'
      BY <2>00, <3>1, <3>4, <3>5 DEF Reach
    <3>8. QED
      BY <3>1, <3>2, <3>6, <3>7 DEF GapInv
  <2>10. ASSUME NEW s \in Subscribers, Yield(s) PROVE GapInv'
    <3>1. /\ UNCHANGED <<loopq, stage, pc, event, targets, due, dropped, missed>>
          /\ \A x \in Subscribers \ {s} :
               queue'[x] = queue[x] /\ backlog'[x] = backlog[x] /\ seen'[x] = seen[x]
      BY <2>0, <2>10 DEF Yield, bus, pubs, lost
    <3>2. /\ ToSet(seen[s]) \cup ToSet(backlog[s]) \cup ToSet(queue[s])
               \subseteq ToSet(seen'[s]) \cup ToSet(backlog'[s]) \cup ToSet(queue'[s])
          /\ backlog[s] = <<>> => backlog'[s] = <<>>
      <4>1. CASE backlog[s] # <<>>
        <5>1. /\ seen'[s] = Append(seen[s], Head(backlog[s]))
              /\ backlog'[s] = Tail(backlog[s])
              /\ queue'[s] = queue[s]
          BY <2>0, <2>10, <4>1 DEF Yield
        <5>2. /\ Head(backlog[s]) \in Event
              /\ ToSet(backlog[s]) = {Head(backlog[s])} \cup ToSet(backlog'[s])
          BY <2>0, <4>1, <5>1, MembersOfTail
        <5>3. ToSet(seen'[s]) = ToSet(seen[s]) \cup {Head(backlog[s])}
          BY <2>0, <5>1, <5>2, MembersOfAppend
        <5>4. QED
          BY <4>1, <5>1, <5>2, <5>3
      <4>2. CASE backlog[s] = <<>>
        <5>1. /\ queue[s] # <<>>
              /\ seen'[s] = Append(seen[s], Head(queue[s]))
              /\ queue'[s] = Tail(queue[s])
              /\ backlog'[s] = backlog[s]
          BY <2>0, <2>10, <4>2 DEF Yield
        <5>2. /\ Head(queue[s]) \in Event
              /\ ToSet(queue[s]) = {Head(queue[s])} \cup ToSet(queue'[s])
          BY <2>0, <5>1, MembersOfTail
        <5>3. ToSet(seen'[s]) = ToSet(seen[s]) \cup {Head(queue[s])}
          BY <2>0, <5>1, <5>2, MembersOfAppend
        <5>4. QED
          BY <4>2, <5>1, <5>2, <5>3
      <4>3. QED
        BY <4>1, <4>2
    <3>3. \A x \in Attached : Reach(x) \subseteq Reach(x)'
      BY <2>00, <3>1, <3>2 DEF Reach, OnTheWay
    <3>4. QED
      BY <3>1, <3>2, <3>3, GapKept
  <2>11. ASSUME NEW s \in Subscribers, Unsubscribe(s) PROVE GapInv'
    <3>1. /\ UNCHANGED <<loopq, pc, event, targets>>
          /\ stage'[s] = "gone" /\ due'[s] = {} /\ backlog'[s] = <<>>
          /\ \A x \in Subscribers \ {s} :
               /\ stage'[x] = stage[x] /\ queue'[x] = queue[x] /\ backlog'[x] = backlog[x]
               /\ seen'[x] = seen[x] /\ due'[x] = due[x]
               /\ dropped'[x] = dropped[x] /\ missed'[x] = missed[x]
      BY <2>0, <2>11 DEF Unsubscribe, bus, pubs
    <3>2. Attached' = Attached \ {s}
      BY <3>1 DEF Attached
    <3>3. \A x \in Attached' : due'[x] \subseteq Reach(x)'
      BY <2>00, <3>1, <3>2 DEF GapInv, Reach, OnTheWay
    <3>4. QED
      BY <3>1, <3>2, <3>3 DEF GapInv
  <2>12. CASE Restart
    BY <2>12 DEF Restart, GapInv, Attached
  <2>13. CASE UNCHANGED vars
    BY <2>13, GapKept, <2>00 DEF vars, Reach, OnTheWay
  <2>14. QED
    BY <2>1, <2>2, <2>3, <2>4, <2>5, <2>6, <2>7, <2>8, <2>9, <2>10, <2>11, <2>12,
       <2>13 DEF Next, Publish, Resume, Turn
<1>3. QED
  BY <1>1, <1>2, TypeCorrect, PTL DEF Spec

\* A new event is given up only at a queue where a publisher's thread has been.
LEMMA CrossingsNeeded == Spec => []CrossInv
<1> USE BusConstants
<1>1. Init => CrossInv
  BY DEF Init, CrossInv
<1>2. TypeOK /\ CrossInv /\ [Next]_vars => CrossInv'
  <2> SUFFICES ASSUME TypeOK, CrossInv, [Next]_vars PROVE CrossInv'
    OBVIOUS
  <2>0. /\ stage \in [Subscribers -> {"new", "bound", "attached", "live", "gone"}]
        /\ queue \in [Subscribers -> Seq(Event)]
        /\ \A s \in Subscribers : Len(queue[s]) <= MaxQueue
        /\ missed \in [Subscribers -> SUBSET Event]
        /\ crossed \subseteq Subscribers
        /\ pc \in [Couriers -> Steps]
        /\ at \in [Couriers -> Subscribers \cup {None}]
        /\ targets \in [Couriers -> SUBSET Subscribers]
        /\ \A c \in Couriers : pc[c] \in {"evict", "retry"} => at[c] \in targets[c]
        /\ Publishers \subseteq Couriers /\ Loop \in Couriers /\ Loop \notin Publishers
    BY DEF TypeOK
  <2>00. \A c \in Couriers : pc[c] \in {"evict", "retry"} => at[c] \in Subscribers
    BY <2>0
  <2>1. ASSUME NEW p \in Publishers,
               TakeId(p) \/ Retain(p) \/ Persist(p) \/ Route(p) \/ ListTargets(p)
        PROVE  CrossInv'
    <3>1. /\ UNCHANGED <<at, queue, stage, missed, crossed>>
          /\ \A c \in Couriers : pc'[c] \in {"evict", "retry"} => pc'[c] = pc[c]
      BY <2>0, <2>1
         DEF TakeId, Retain, Persist, Route, ListTargets, Finish, Continue, Goto, subs, lost, aux
    <3>2. QED
      BY <2>0, <3>1 DEF CrossInv
  <2>2. ASSUME NEW c \in Couriers, NEW s \in Subscribers, s \in targets[c],
               TryPut(c, s) \/ (s = at[c] /\ (Evict(c) \/ Retry(c)))
        PROVE  CrossInv'
    <3> USE DEF PutAside, Put, Miss, Done, Finish, Continue, Goto
    <3>1. /\ stage' = stage /\ pc[c] \in Delivering
          /\ crossed \subseteq crossed'
          /\ \A d \in Couriers \ {c} : pc'[d] = pc[d] /\ at'[d] = at[d]
          /\ \A x \in Subscribers \ {s} : queue'[x] = queue[x] /\ missed'[x] = missed[x]
          /\ pc'[c] \in {"evict", "retry"} => s \in Attached /\ at'[c] = s
      <4> USE DEF Delivering
      <4>1. CASE TryPut(c, s)
        <5>1. /\ stage' = stage /\ pc[c] = "direct" /\ crossed \subseteq crossed'
          BY <4>1 DEF TryPut
        <5>2. \A d \in Couriers \ {c} : pc'[d] = pc[d] /\ at'[d] = at[d]
          BY <2>0, <4>1 DEF TryPut
        <5>3. \A x \in Subscribers \ {s} : queue'[x] = queue[x] /\ missed'[x] = missed[x]
          BY <2>0, <4>1 DEF TryPut
        <5>4. pc'[c] \in {"evict", "retry"} => s \in Attached /\ at'[c] = s
          BY <2>0, <4>1 DEF TryPut
        <5>5. QED
          BY <5>1, <5>2, <5>3, <5>4
      <4>2. CASE s = at[c] /\ (Evict(c) \/ Retry(c))
        <5>1. /\ stage' = stage /\ pc[c] \in {"evict", "retry"} /\ crossed' = crossed
          BY <4>2 DEF Evict, Retry
        <5>2. \A d \in Couriers \ {c} : pc'[d] = pc[d] /\ at'[d] = at[d]
          BY <2>0, <4>2 DEF Evict, Retry
        <5>3. \A x \in Subscribers \ {s} : queue'[x] = queue[x] /\ missed'[x] = missed[x]
          BY <2>0, <4>2 DEF Evict, Retry
        <5>4. pc'[c] \in {"evict", "retry"} => s \in Attached /\ at'[c] = s
          BY <2>0, <4>2 DEF Evict, Retry
        <5>5. QED
          BY <5>1, <5>2, <5>3, <5>4
      <4>3. QED
        BY <2>2, <4>1, <4>2
    <3>2. ASSUME s \notin Attached PROVE queue'[s] = queue[s] /\ missed'[s] = missed[s]
      BY <2>0, <2>2, <3>2 DEF TryPut, Evict, Retry
    <3>3. ASSUME s \in Attached, c # Loop PROVE s \in crossed'
      <4>1. c \in Publishers /\ stage[s] # "gone"
        BY <3>3 DEF Attached
      <4>2. CASE TryPut(c, s)
        BY <3>3, <4>2 DEF TryPut
      <4>3. CASE s = at[c] /\ (Evict(c) \/ Retry(c))
        BY <4>1, <4>3 DEF CrossInv, Evict, Retry
      <4>4. QED
        BY <2>2, <4>2, <4>3
    <3>4. ASSUME c = Loop PROVE missed'[s] # {} => s \in crossed'
      BY <2>0, <2>2, <3>1, <3>4, MaxQueue \in Nat \ {0} DEF CrossInv, TryPut, Evict, Retry
    <3>5. ASSUME c = Loop, pc'[c] = "evict" PROVE Len(queue'[s]) >= MaxQueue
      BY <2>0, <2>2, <3>5 DEF TryPut, Evict, Retry
    <3>6. ASSUME c = Loop, pc'[c] = "retry" PROVE Len(queue'[s]) < MaxQueue
      <4>1. queue[s] # <<>> /\ queue'[s] = Tail(queue[s])
        BY <2>0, <2>2, <3>6 DEF TryPut, Evict, Retry
      <4>2. QED
        BY <2>0, <4>1, HeadTailProperties
    <3> HIDE DEF PutAside, Put, Miss, Done, Finish, Continue, Goto
    <3>7. \A x \in Subscribers : missed'[x] # {} => x \in crossed'
      <4>1. missed'[s] # {} => s \in crossed'
        BY <3>1, <3>2, <3>3, <3>4 DEF CrossInv
      <4>2. QED
        BY <3>1, <4>1 DEF CrossInv
    <3>8. \A p \in Publishers : pc'[p] \in {"evict", "retry"} =>
            at'[p] \in crossed' \/ stage'[at'[p]] = "gone"
      <4> TAKE p \in Publishers
      <4>1. CASE p = c
        BY <2>0, <3>1, <3>3, <4>1
      <4>2. CASE p # c
        BY <2>0, <3>1, <4>2 DEF CrossInv
      <4>3. QED
        BY <4>1, <4>2
    <3>9. /\ pc'[Loop] = "evict" => at'[Loop] \in crossed' \/ Len(queue'[at'[Loop]]) >= MaxQueue
          /\ pc'[Loop] = "retry" => at'[Loop] \in crossed' \/ Len(queue'[at'[Loop]]) < MaxQueue
      <4>1. CASE c = Loop
        BY <3>1, <3>5, <3>6, <4>1
      <4>2. CASE c # Loop /\ at[Loop] = s
        BY <2>0, <3>1, <3>2, <3>3, <4>2 DEF CrossInv
      <4>3. CASE c # Loop /\ at[Loop] # s
        BY <2>0, <2>00, <3>1, <4>3 DEF CrossInv
      <4>4. QED
        BY <4>1, <4>2, <4>3
    <3>10. QED
      BY <3>7, <3>8, <3>9 DEF CrossInv
  <2>3. ASSUME NEW c \in Couriers, Carry(c) PROVE CrossInv'
    BY <2>0, <2>00, <2>2, <2>3 DEF Carry, TryPut, Evict, Retry
  <2>4. CASE Deliver
    <3>1. /\ UNCHANGED <<at, queue, stage, missed, crossed>>
          /\ \A c \in Couriers : pc'[c] \in {"evict", "retry"} => pc'[c] = pc[c]
      BY <2>0, <2>4 DEF Deliver, subs, aux
    <3>2. QED
      BY <2>0, <3>1 DEF CrossInv
  <2>5. ASSUME NEW s \in Subscribers, Bind(s) \/ Attach(s) \/ Snapshot(s) PROVE CrossInv'
    <3>1. /\ UNCHANGED <<at, pc, queue, missed, crossed>>
          /\ \A x \in Subscribers : stage[x] = "gone" => stage'[x] = "gone"
      BY <2>0, <2>5 DEF Bind, Attach, Snapshot, bus, pubs, lost, aux
    <3>2. QED
      BY <2>0, <2>00, <3>1 DEF CrossInv
  <2>6. ASSUME NEW s \in Subscribers, Yield(s) PROVE CrossInv'
    BY <2>0, <2>6 DEF Yield, LoopFree, CrossInv, bus, pubs, lost
  <2>7. ASSUME NEW s \in Subscribers, Unsubscribe(s) PROVE CrossInv'
    <3>1. /\ UNCHANGED <<at, pc>> /\ pc[Loop] = "idle"
          /\ crossed' = crossed \ {s} /\ missed'[s] = {} /\ stage'[s] = "gone"
          /\ \A x \in Subscribers \ {s} : missed'[x] = missed[x] /\ stage'[x] = stage[x]
      BY <2>0, <2>7 DEF Unsubscribe, LoopFree, pubs
    <3>2. QED
      BY <2>0, <2>00, <3>1 DEF CrossInv
  <2>8. CASE Restart
    BY <2>0, <2>8 DEF Restart, CrossInv
  <2>9. CASE UNCHANGED vars
    BY <2>9 DEF vars, CrossInv
  <2>10. QED
    BY <2>1, <2>3, <2>4, <2>5, <2>6, <2>7, <2>8, <2>9 DEF Next, Publish, Resume, Turn
<1>3. QED
  BY <1>1, <1>2, TypeCorrect, PTL DEF Spec

\* Replay and live delivery meet without a gap: subscribe registers its queue
\* before it copies the history, and publish_update appends to the history
\* before it delivers (streaming.py:81-107, 145-153).  What _deliver loses
\* (streaming.py:114-122) is an old event evicted from a full queue, or a new
\* one given up at a queue where a publisher's own thread has been.
THEOREM GapFree == Spec => []NoGap
<1>1. GapInv /\ CrossInv => NoGap
  BY DEF GapInv, CrossInv, NoGap, Reach, Attached
<1>2. QED
  BY <1>1, NothingOwed, CrossingsNeeded, PTL

-----------------------------------------------------------------------------
(* Order by number, within each publisher.                                 *)

Ordered(q) ==
  \A i, j \in DOMAIN q : i < j /\ q[i].pub = q[j].pub => q[i].id < q[j].id

Older(A, B) == \A a \in A, b \in B : a.pub = b.pub => a.id < b.id

LEMMA OrderedAppend ==
  ASSUME NEW q \in Seq(Event), NEW e \in Event, Ordered(q), Older(ToSet(q), {e})
  PROVE  Ordered(Append(q, e))
<1> DEFINE longer == Append(q, e)
<1>1. /\ longer \in Seq(Event)
      /\ Len(longer) = Len(q) + 1
      /\ \A i \in 1..Len(q) : longer[i] = q[i]
      /\ longer[Len(q) + 1] = e
      /\ Len(q) \in Nat
  BY ONLY AppendProperties, LenProperties, q \in Seq(Event), e \in Event
<1>2. DOMAIN q = 1..Len(q) /\ DOMAIN longer = 1..(Len(q) + 1)
  BY ONLY <1>1, LenProperties, q \in Seq(Event)
<1>3. \A i \in DOMAIN q : q[i] \in ToSet(q)
  BY DEF ToSet
<1> HIDE DEF longer
<1>4. ASSUME NEW i \in DOMAIN longer, NEW j \in DOMAIN longer, i < j, longer[i].pub = longer[j].pub
      PROVE  longer[i].id < longer[j].id
  <2>1. i \in DOMAIN q /\ longer[i] = q[i]
    BY <1>1, <1>2, <1>4
  <2>2. CASE j = Len(q) + 1
    BY <1>1, <1>3, <1>4, <2>1, <2>2 DEF Older
  <2>3. CASE j # Len(q) + 1
    <3>1. j \in DOMAIN q /\ longer[j] = q[j]
      BY <1>1, <1>2, <2>3
    <3>2. QED
      BY <1>4, <2>1, <3>1 DEF Ordered
  <2>4. QED
    BY <2>2, <2>3
<1>5. Ordered(longer)
  BY <1>4 DEF Ordered
<1>6. QED
  BY <1>5 DEF longer

LEMMA OrderedTail ==
  ASSUME NEW q \in Seq(Event), q # <<>>, Ordered(q)
  PROVE  Ordered(Tail(q)) /\ Older({Head(q)}, ToSet(Tail(q)))
<1> DEFINE rest == Tail(q)
<1>1. /\ Head(q) = q[1]
      /\ rest \in Seq(Event)
      /\ Len(rest) = Len(q) - 1
      /\ \A i \in 1..Len(rest) : rest[i] = q[i + 1]
      /\ Len(q) \in Nat \ {0}
  BY ONLY HeadTailProperties, LenProperties, EmptySeq, q \in Seq(Event), q # <<>>
<1>2. DOMAIN q = 1..Len(q) /\ DOMAIN rest = 1..(Len(q) - 1)
  BY ONLY <1>1, LenProperties, q \in Seq(Event)
<1> HIDE DEF rest
<1>3. \A i \in DOMAIN rest : i \in Int /\ i + 1 \in DOMAIN q /\ rest[i] = q[i + 1] /\ 1 < i + 1
  BY <1>1, <1>2
<1>4. ASSUME NEW i \in DOMAIN rest, NEW j \in DOMAIN rest, i < j, rest[i].pub = rest[j].pub
      PROVE  rest[i].id < rest[j].id
  <2>1. i + 1 < j + 1
    BY <1>3, <1>4
  <2>2. QED
    BY <1>3, <1>4, <2>1 DEF Ordered
<1>5. \A i \in DOMAIN rest : Head(q).pub = rest[i].pub => Head(q).id < rest[i].id
  <2>1. 1 \in DOMAIN q
    BY <1>1, <1>2
  <2>2. QED
    BY <1>1, <1>3, <2>1 DEF Ordered
<1>6. Older({Head(q)}, ToSet(rest))
  BY <1>5 DEF Older, ToSet
<1>7. Ordered(rest)
  BY <1>4 DEF Ordered
<1>8. QED
  BY <1>6, <1>7 DEF rest

LEMMA NothingOrdered == Ordered(<<>>)
BY DEF Ordered

-----------------------------------------------------------------------------

\* What was delivered to s, and whether a courier's delivery to s is still to
\* come.
Got(s) == ToSet(seen[s]) \cup ToSet(queue[s])

Coming(c, s) == InFlight(c) /\ (pc[c] \in Delivering => s \in targets[c])

\* The events of the loop: scheduled, or in its hands.
InLoop == ToSet(loopq) \cup {event[c] : c \in {x \in {Loop} : InFlight(x)}}

\* The loop's deliveries are in each publisher's order and older than what the
\* publisher has in flight.  A publisher delivers in its own thread only what it
\* published before the loop was bound, and then the loop has nothing of it.
LoopInv ==
  /\ ~bound => loopq = <<>> /\ ~InFlight(Loop)
  /\ \A p \in Publishers : InFlight(p) => event[p].pub = p
  /\ Ordered(loopq)
  /\ \A e \in InLoop : e.id <= counter
  /\ InFlight(Loop) => Older({event[Loop]}, ToSet(loopq))
  /\ \A p \in Publishers : InFlight(p) => Older(InLoop, {event[p]})
  /\ \A p \in Publishers :
       pc[p] \in {"targets"} \cup Delivering => \A e \in InLoop : e.pub # p

\* What a subscriber has seen is older than what waits in its queue, that is
\* older than what waits on the loop, and all of it is older than what a
\* courier is still to hand to it.
StreamInv(s) ==
  /\ Ordered(seen[s])
  /\ Ordered(queue[s])
  /\ Older(ToSet(seen[s]), ToSet(queue[s]))
  /\ Older(Got(s), ToSet(loopq))
  /\ \A e \in Got(s) : e.id <= counter
  /\ \A c \in Couriers : Coming(c, s) => Older(Got(s), {event[c]})

OrderInv ==
  /\ LoopInv
  /\ \A s \in Subscribers \ Replays : backlog[s] = <<>> /\ StreamInv(s)

\* A step that leaves the scheduled deliveries alone and puts nothing in flight
\* keeps LoopInv.
LEMMA LoopKept ==
  ASSUME LoopInv, UNCHANGED <<loopq, counter>>, bound => bound',
         \A c \in Couriers : InFlight(c)' => InFlight(c) /\ event'[c] = event[c],
         \A p \in Publishers :
           pc'[p] \in {"targets"} \cup Delivering => pc[p] \in {"targets"} \cup Delivering \/ ~bound
  PROVE  LoopInv'
<1>1. ~bound => InLoop = {}
  BY NoMembers DEF LoopInv, InLoop
<1>2. InLoop' \subseteq InLoop
  BY DEF InLoop
<1>3. InFlight(Loop)' => InFlight(Loop) /\ event'[Loop] = event[Loop]
  OBVIOUS
<1>4. \A p \in Publishers : InFlight(p)' => Older(InLoop, {event[p]}) /\ event'[p] = event[p]
  BY DEF LoopInv
<1>5. \A p \in Publishers : InFlight(p)' => Older(InLoop', {event'[p]})
  BY <1>2, <1>4 DEF Older
<1>6. \A p \in Publishers :
        pc'[p] \in {"targets"} \cup Delivering => \A e \in InLoop' : e.pub # p
  BY <1>1, <1>2 DEF LoopInv
<1>7. \A p \in Publishers : InFlight(p)' => event'[p].pub = p
  BY DEF LoopInv
<1>8. InFlight(Loop)' => Older({event'[Loop]}, ToSet(loopq'))
  BY <1>3 DEF LoopInv
<1>9. \A e \in InLoop' : e.id <= counter'
  BY <1>2 DEF LoopInv
<1>10. ~bound' => loopq' = <<>> /\ ~InFlight(Loop)'
  BY <1>3 DEF LoopInv
<1>11. Ordered(loopq')
  BY DEF LoopInv
<1>12. QED
  BY <1>5, <1>6, <1>7, <1>8, <1>9, <1>10, <1>11 DEF LoopInv

\* A step that gives s nothing and brings nothing nearer to it keeps StreamInv.
LEMMA StreamKept ==
  ASSUME NEW s \in Subscribers, StreamInv(s), UNCHANGED <<loopq, counter>>,
         seen'[s] = seen[s], queue'[s] = queue[s],
         \A c \in Couriers : Coming(c, s)' => Coming(c, s) /\ event'[c] = event[c]
  PROVE  StreamInv(s)'
<1>1. Got(s)' = Got(s)
  BY DEF Got
<1>2. QED
  BY <1>1 DEF StreamInv

\* A subscriber without replay is given each publisher's events in the order of
\* publication, across the change from delivery in the publisher's thread to
\* delivery by the loop (streaming.py:97-123, 146-163).
THEOREM InPublisherOrder == Spec => []PublisherOrder
<1> USE BusConstants
<1>1. Init => OrderInv
  <2> SUFFICES ASSUME Init PROVE OrderInv
    OBVIOUS
  <2>1. LoopInv
    BY NoMembers, NothingOrdered DEF Init, LoopInv, InFlight, InLoop, Delivering
  <2>2. \A s \in Subscribers : StreamInv(s)
    BY NoMembers, NothingOrdered DEF Init, StreamInv, Got, Older, Coming, InFlight
  <2>3. QED
    BY <2>1, <2>2 DEF OrderInv, Init
<1>2. TypeOK /\ LogInv /\ OrderInv /\ [Next]_vars => OrderInv'
  <2> SUFFICES ASSUME TypeOK, LogInv, OrderInv, [Next]_vars PROVE OrderInv'
    OBVIOUS
  <2>0. /\ queue \in [Subscribers -> Seq(Event)]
        /\ \A s \in Subscribers : Len(queue[s]) <= MaxQueue
        /\ backlog \in [Subscribers -> Seq(Event)]
        /\ seen \in [Subscribers -> Seq(Event)]
        /\ pc \in [Couriers -> Steps]
        /\ event \in [Couriers -> Event \cup {NoEvent}]
        /\ targets \in [Couriers -> SUBSET Subscribers]
        /\ \A c \in Couriers : pc[c] # "idle" => event[c] \in Event
        /\ loopq \in Seq(Event)
        /\ counter \in Nat
        /\ Publishers \subseteq Couriers /\ Loop \in Couriers /\ Loop \notin Publishers
    BY DEF TypeOK
  <2>00. /\ LoopInv
         /\ \A s \in Subscribers \ Replays : backlog[s] = <<>> /\ StreamInv(s)
    BY DEF OrderInv
  <2>000. \A c \in Couriers : InFlight(c) => event[c] \in Event
    BY <2>0 DEF InFlight
  <2>1. ASSUME NEW p \in Publishers, TakeId(p) PROVE OrderInv'
    <3>1. /\ UNCHANGED <<bound, loopq, targets, queue, backlog, seen>>
          /\ counter' = counter + 1
          /\ pc'[p] = "retain" /\ event'[p].id = counter + 1 /\ event'[p].pub = p
          /\ \A q \in Couriers \ {p} : pc'[q] = pc[q] /\ event'[q] = event[q]
      BY <2>0, <2>1 DEF TakeId, Goto, subs, aux
    <3>2. /\ \A e \in InLoop : e.id \in Nat
          /\ \A s \in Subscribers : \A e \in Got(s) : e.id \in Nat
      <4>1. InLoop \subseteq Event
        BY <2>0, <2>000, MembersAreEvents DEF InLoop
      <4>2. \A s \in Subscribers : Got(s) \subseteq Event
        BY <2>0, MembersAreEvents DEF Got
      <4>3. QED
        BY <4>1, <4>2, EventIdsAreNumbers
    <3>3. LoopInv'
      <4>0. InLoop' = InLoop /\ (InFlight(Loop)' <=> InFlight(Loop)) /\ event'[Loop] = event[Loop]
        <5>1. (InFlight(Loop)' <=> InFlight(Loop)) /\ event'[Loop] = event[Loop]
          BY <2>0, <3>1 DEF InFlight
        <5>2. QED
          BY <3>1, <5>1 DEF InLoop
      <4>1. \A e \in InLoop' : e.id < counter' /\ e.id <= counter'
        BY <2>0, <2>00, <3>1, <3>2, <4>0 DEF LoopInv
      <4>2. Older(InLoop', {event'[p]})
        BY <3>1, <4>1 DEF Older
      <4>3. \A q \in Publishers : InFlight(q)' => Older(InLoop', {event'[q]})
        BY <2>0, <2>00, <3>1, <4>0, <4>2 DEF LoopInv, InFlight
      <4>4. \A q \in Publishers :
              /\ InFlight(q)' => event'[q].pub = q
              /\ pc'[q] \in {"targets"} \cup Delivering => \A e \in InLoop' : e.pub # q
        BY <2>0, <2>00, <3>1, <4>0 DEF LoopInv, InFlight, Delivering
      <4>5. InFlight(Loop)' => Older({event'[Loop]}, ToSet(loopq'))
        BY <2>00, <3>1, <4>0 DEF LoopInv
      <4>6. Ordered(loopq') /\ (~bound' => loopq' = <<>> /\ ~InFlight(Loop)')
        BY <2>00, <3>1, <4>0 DEF LoopInv
      <4>7. QED
        BY <4>1, <4>3, <4>4, <4>5, <4>6 DEF LoopInv
    <3>4. ASSUME NEW s \in Subscribers \ Replays PROVE StreamInv(s)'
      <4>1. Got(s)' = Got(s)
        BY <3>1 DEF Got
      <4>2. \A e \in Got(s) : e.id < counter' /\ e.id <= counter'
        <5>1. \A e \in Got(s) : e.id <= counter /\ e.id \in Nat
          BY <2>00, <3>2 DEF StreamInv
        <5>2. QED
          BY <2>0, <3>1, <5>1
      <4>3. Older(Got(s), {event'[p]})
        BY <3>1, <4>2 DEF Older
      <4>4. \A q \in Couriers : Coming(q, s)' => Older(Got(s), {event'[q]})
        BY <2>00, <3>1, <4>3 DEF StreamInv, Coming, InFlight
      <4>5. QED
        BY <2>00, <3>1, <4>1, <4>2, <4>4 DEF StreamInv
    <3>5. QED
      BY <2>00, <3>1, <3>3, <3>4 DEF OrderInv
  <2>2. ASSUME NEW p \in Publishers,
               Retain(p) \/ Persist(p) \/ ListTargets(p)
        PROVE  OrderInv'
    <3>1. /\ UNCHANGED <<bound, loopq, counter, queue, backlog, seen>>
          /\ pc[p] # "idle"
          /\ pc'[p] \in {"idle", "persist", "route", "direct"}
          /\ pc'[p] = "direct" => pc[p] = "targets"
          /\ pc'[p] # "idle" => event'[p] = event[p]
          /\ pc[p] \notin Delivering
          /\ \A q \in Couriers \ {p} :
               pc'[q] = pc[q] /\ event'[q] = event[q] /\ targets'[q] = targets[q]
      BY <2>0, <2>2
         DEF Retain, Persist, ListTargets, Finish, Continue, Goto, Delivering, bus, subs, aux
    <3>2. LoopInv'
      <4>1. \A c \in Couriers : InFlight(c)' => InFlight(c) /\ event'[c] = event[c]
        BY <3>1 DEF InFlight
      <4>2. \A q \in Publishers : pc'[q] \in {"targets"} \cup Delivering =>
              pc[q] \in {"targets"} \cup Delivering
        BY <2>0, <3>1 DEF Delivering
      <4>3. QED
        BY <2>00, <3>1, <4>1, <4>2, LoopKept
    <3>3. \A s \in Subscribers \ Replays : StreamInv(s)'
      <4>1. \A c \in Couriers : \A s \in Subscribers :
              Coming(c, s)' => Coming(c, s) /\ event'[c] = event[c]
        BY <3>1 DEF Coming, InFlight
      <4>2. QED
        BY <2>00, <3>1, <4>1, StreamKept
    <3>4. QED
      BY <2>00, <3>1, <3>2, <3>3 DEF OrderInv
  <2>3. ASSUME NEW p \in Publishers, Route(p) PROVE OrderInv'
    <3>1. /\ UNCHANGED <<bound, counter, targets, queue, backlog, seen>>
          /\ pc[p] = "route" /\ event[p] \in Event
          /\ \A q \in Couriers \ {p} : pc'[q] = pc[q] /\ event'[q] = event[q]
      BY <2>0, <2>3 DEF Route, Finish, Continue, Goto, subs, aux
    <3>2. CASE bound /\ loopq' = Append(loopq, event[p]) /\ pc'[p] = "idle"
      <4>1. /\ ToSet(loopq') = ToSet(loopq) \cup {event[p]}
            /\ InLoop' = InLoop \cup {event[p]}
            /\ (InFlight(Loop)' <=> InFlight(Loop)) /\ event'[Loop] = event[Loop]
        <5>1. ToSet(loopq') = ToSet(loopq) \cup {event[p]}
          BY <2>0, <3>1, <3>2, MembersOfAppend
        <5>2. (InFlight(Loop)' <=> InFlight(Loop)) /\ event'[Loop] = event[Loop]
          BY <2>0, <3>1 DEF InFlight
        <5>3. QED
          BY <5>1, <5>2 DEF InLoop
      <4>2. event[p].pub = p /\ event[p].id <= counter /\ Older(InLoop, {event[p]})
        BY <2>00, <3>1 DEF LoopInv, LogInv, InFlight
      <4>3. Ordered(loopq')
        <5>1. Older(ToSet(loopq), {event[p]})
          BY <4>2 DEF Older, InLoop
        <5>2. QED
          BY <2>0, <2>00, <3>1, <3>2, <5>1, OrderedAppend DEF LoopInv
      <4>4. ASSUME NEW q \in Publishers, InFlight(q)'
            PROVE  /\ event'[q].pub = q
                   /\ Older(InLoop', {event'[q]})
                   /\ pc'[q] \in {"targets"} \cup Delivering => \A e \in InLoop' : e.pub # q
        <5>1. q # p /\ InFlight(q) /\ event'[q] = event[q] /\ pc'[q] = pc[q]
          BY <3>1, <3>2, <4>4 DEF InFlight
        <5>2. event[q].pub = q /\ Older(InLoop, {event[q]})
          BY <2>00, <5>1 DEF LoopInv
        <5>3. Older({event[p]}, {event[q]})
          BY <4>2, <5>1, <5>2 DEF Older
        <5>4. Older(InLoop', {event[q]})
          BY <4>1, <5>2, <5>3 DEF Older
        <5>5. QED
          BY <2>00, <4>1, <4>2, <5>1, <5>2, <5>4 DEF LoopInv
      <4>5. LoopInv'
        <5>1. \A e \in InLoop' : e.id <= counter'
          BY <2>00, <3>1, <4>1, <4>2 DEF LoopInv
        <5>2. bound'
          BY <3>1, <3>2
        <5>3. InFlight(Loop)' => Older({event'[Loop]}, ToSet(loopq'))
          <6>1. InFlight(Loop) => Older({event[Loop]}, ToSet(loopq)) /\ event[Loop] \in InLoop
            BY <2>00 DEF LoopInv, InLoop
          <6>2. QED
            BY <4>1, <4>2, <6>1 DEF Older
        <5>4. \A q \in Publishers :
                pc'[q] \in {"targets"} \cup Delivering => \A e \in InLoop' : e.pub # q
          BY <4>4 DEF InFlight, Delivering
        <5>5. QED
          BY <4>3, <4>4, <5>1, <5>2, <5>3, <5>4 DEF LoopInv
      <4>6. ASSUME NEW s \in Subscribers \ Replays PROVE StreamInv(s)'
        <5>1. Got(s)' = Got(s)
          BY <3>1 DEF Got
        <5>2. Older(Got(s), {event[p]}) /\ Older(Got(s), ToSet(loopq))
          BY <2>0, <2>00, <3>1 DEF StreamInv, Coming, InFlight, Delivering
        <5>3. Older(Got(s), ToSet(loopq'))
          BY <4>1, <5>2 DEF Older
        <5>4. \A q \in Couriers : Coming(q, s)' => Coming(q, s) /\ event'[q] = event[q]
          BY <3>1, <3>2 DEF Coming, InFlight
        <5>5. QED
          BY <2>00, <3>1, <5>1, <5>3, <5>4 DEF StreamInv
      <4>7. QED
        BY <2>00, <3>1, <4>5, <4>6 DEF OrderInv
    <3>3. CASE ~bound /\ loopq' = loopq /\ event' = event /\ pc'[p] = "targets"
      <4>1. LoopInv'
        <5>1. \A c \in Couriers : InFlight(c)' => InFlight(c) /\ event'[c] = event[c]
          BY <3>1, <3>3 DEF InFlight
        <5>2. QED
          BY <2>00, <3>1, <3>3, <5>1, LoopKept
      <4>2. \A s \in Subscribers \ Replays : StreamInv(s)'
        <5>1. \A c \in Couriers : \A s \in Subscribers :
                Coming(c, s)' => Coming(c, s) /\ event'[c] = event[c]
          BY <3>1, <3>3 DEF Coming, InFlight, Delivering
        <5>2. QED
          BY <2>00, <3>1, <3>3, <5>1, StreamKept
      <4>3. QED
        BY <2>00, <3>1, <4>1, <4>2 DEF OrderInv
    <3>4. QED
      BY <2>0, <2>3, <3>2, <3>3 DEF Route, Finish, Continue, Goto
  <2>4. ASSUME NEW c \in Couriers, Carry(c) PROVE OrderInv'
    <3>0. PICK s \in Subscribers : AtQueue(c, s)
      BY <2>4, CarryEffects
    <3> DEFINE e == event[c]
    <3>1. /\ UNCHANGED <<bound, loopq, counter, backlog, seen>>
          /\ pc[c] \in Delivering /\ e \in Event /\ s \in targets[c]
          /\ pc'[c] \in {"idle"} \cup Delivering
          /\ pc'[c] # "idle" => event'[c] = e /\ targets'[c] \subseteq targets[c]
          /\ \A d \in Couriers \ {c} :
               pc'[d] = pc[d] /\ event'[d] = event[d] /\ targets'[d] = targets[d]
          /\ \A x \in Subscribers \ {s} : queue'[x] = queue[x]
      <4>1. /\ UNCHANGED <<bound, loopq, counter, backlog, seen>>
            /\ pc[c] \in Delivering /\ e \in Event /\ s \in targets[c]
        BY <3>0 DEF AtQueue
      <4>2. /\ \A d \in Couriers \ {c} :
                 pc'[d] = pc[d] /\ event'[d] = event[d] /\ targets'[d] = targets[d]
            /\ \A x \in Subscribers \ {s} : queue'[x] = queue[x]
        BY <2>0, <3>0 DEF AtQueue
      <4>3. /\ pc'[c] \in {"idle"} \cup Delivering
            /\ pc'[c] # "idle" => event'[c] = e /\ targets'[c] \subseteq targets[c]
        BY <3>0 DEF AtQueue, Leaves, Stays, Delivering
      <4>4. QED
        BY <4>1, <4>2, <4>3
    <3> HIDE DEF e
    <3>2. LoopInv'
      <4>1. \A d \in Couriers : InFlight(d)' => InFlight(d) /\ event'[d] = event[d]
        BY <3>1 DEF InFlight, Delivering, e
      <4>2. \A p \in Publishers : pc'[p] \in {"targets"} \cup Delivering =>
              pc[p] \in {"targets"} \cup Delivering
        BY <2>0, <3>1 DEF Delivering
      <4>3. QED
        BY <2>00, <3>1, <4>1, <4>2, LoopKept
    <3>3. \A x \in Subscribers : \A d \in Couriers :
            Coming(d, x)' => Coming(d, x) /\ event'[d] = event[d]
      <4> TAKE x \in Subscribers
      <4> TAKE d \in Couriers
      <4>1. CASE d = c
        BY <3>1, <4>1 DEF Coming, InFlight, Delivering, e
      <4>2. CASE d # c
        BY <3>1, <4>2 DEF Coming, InFlight
      <4>3. QED
        BY <4>1, <4>2
    <3>4. \A x \in Subscribers \ Replays : x # s => StreamInv(x)'
      BY <2>00, <3>1, <3>3, StreamKept
    <3>5. CASE queue'[s] = queue[s]
      <4>1. s \notin Replays => StreamInv(s)'
        BY <2>00, <3>1, <3>3, <3>5, StreamKept
      <4>2. QED
        BY <2>00, <3>1, <3>2, <3>4, <4>1 DEF OrderInv
    <3>6. CASE queue[s] # <<>> /\ queue'[s] = Tail(queue[s])
      <4>1. ASSUME s \notin Replays PROVE StreamInv(s)'
        <5>1. StreamInv(s)
          BY <2>00, <4>1
        <5>2. ToSet(queue'[s]) \subseteq ToSet(queue[s]) /\ Ordered(queue'[s])
          <6>1. queue[s] \in Seq(Event) /\ Ordered(queue[s])
            BY <2>0, <5>1 DEF StreamInv
          <6>2. /\ ToSet(queue[s]) = {Head(queue[s])} \cup ToSet(Tail(queue[s]))
                /\ Ordered(Tail(queue[s]))
            BY <3>6, <6>1, MembersOfTail, OrderedTail
          <6>3. QED
            BY <3>6, <6>2
        <5>3. Got(s)' \subseteq Got(s)
          BY <3>1, <5>2 DEF Got
        <5>4. Older(ToSet(seen'[s]), ToSet(queue'[s]))
          BY <3>1, <5>1, <5>2 DEF Older, StreamInv
        <5>5. Older(Got(s)', ToSet(loopq')) /\ \A x \in Got(s)' : x.id <= counter'
          BY <3>1, <5>1, <5>3 DEF Older, StreamInv
        <5>6. \A d \in Couriers : Coming(d, s)' => Older(Got(s)', {event'[d]})
          BY <3>3, <5>1, <5>3 DEF Older, StreamInv
        <5>7. QED
          BY <3>1, <5>1, <5>2, <5>4, <5>5, <5>6 DEF StreamInv
      <4>2. QED
        BY <2>00, <3>1, <3>2, <3>4, <4>1 DEF OrderInv
    <3>7. CASE Leaves(c, s) /\ queue'[s] = Append(queue[s], e)
      <4>1. ASSUME s \notin Replays PROVE StreamInv(s)'
        <5>1. StreamInv(s)
          BY <2>00, <4>1
        <5>2. Older(Got(s), {e})
          BY <3>1, <5>1 DEF StreamInv, Coming, InFlight, Delivering, e
        <5>3. ToSet(queue'[s]) = ToSet(queue[s]) \cup {e}
          BY <2>0, <3>1, <3>7, MembersOfAppend
        <5>4. Ordered(queue'[s])
          <6>1. Older(ToSet(queue[s]), {e}) /\ Ordered(queue[s])
            BY <5>1, <5>2 DEF Older, Got, StreamInv
          <6>2. QED
            BY <2>0, <3>1, <3>7, <6>1, OrderedAppend
        <5>5. Older(ToSet(seen'[s]), ToSet(queue'[s]))
          BY <3>1, <5>1, <5>2, <5>3 DEF Older, Got, StreamInv
        <5>6. Got(s)' \subseteq Got(s) \cup {e}
          BY <3>1, <5>3 DEF Got
        <5>7. /\ e.id <= counter
              /\ Older({e}, ToSet(loopq))
              /\ \A d \in Couriers \ {c} : InFlight(d) => Older({e}, {event[d]})
          <6>0. InFlight(c)
            BY <3>1 DEF InFlight, Delivering
          <6>1. CASE c = Loop
            <7>1. e \in InLoop
              BY <6>0, <6>1 DEF InLoop, e
            <7>2. Older({e}, ToSet(loopq)) /\ e.id <= counter
              BY <2>00, <6>0, <6>1, <7>1 DEF LoopInv, e
            <7>3. \A p \in Publishers : InFlight(p) => Older({e}, {event[p]})
              BY <2>00, <7>1 DEF LoopInv, Older
            <7>4. QED
              BY <6>1, <7>2, <7>3
          <6>2. CASE c \in Publishers
            <7>1. e.pub = c /\ e.id <= counter /\ \A x \in InLoop : x.pub # c
              BY <2>00, <3>1, <6>0, <6>2 DEF LoopInv, LogInv, e
            <7>2. Older({e}, ToSet(loopq))
              BY <7>1 DEF Older, InLoop
            <7>3. InFlight(Loop) => Older({e}, {event[Loop]})
              BY <7>1 DEF Older, InLoop
            <7>4. \A p \in Publishers \ {c} : InFlight(p) => Older({e}, {event[p]})
              BY <2>00, <7>1 DEF LoopInv, Older
            <7>5. QED
              BY <7>1, <7>2, <7>3, <7>4
          <6>3. QED
            BY <6>1, <6>2
        <5>8. Older(Got(s)', ToSet(loopq'))
          BY <3>1, <5>1, <5>6, <5>7 DEF Older, StreamInv
        <5>9. \A x \in Got(s)' : x.id <= counter'
          BY <3>1, <5>1, <5>6, <5>7 DEF StreamInv
        <5>10. ASSUME NEW d \in Couriers, Coming(d, s)' PROVE Older(Got(s)', {event'[d]})
          <6>1. d # c
            BY <3>7, <5>10 DEF Coming, InFlight, Leaves, Delivering
          <6>2. Coming(d, s) /\ event'[d] = event[d] /\ InFlight(d)
            BY <3>3, <5>10 DEF Coming
          <6>3. Older(Got(s), {event[d]}) /\ Older({e}, {event[d]})
            BY <5>1, <5>7, <6>1, <6>2 DEF StreamInv
          <6>4. QED
            BY <5>6, <6>2, <6>3 DEF Older
        <5>11. Ordered(seen'[s])
          BY <3>1, <5>1 DEF StreamInv
        <5>12. QED
          BY <5>4, <5>5, <5>8, <5>9, <5>10, <5>11 DEF StreamInv
      <4>2. QED
        BY <2>00, <3>1, <3>2, <3>4, <4>1 DEF OrderInv
    <3>8. QED
      BY <3>0, <3>5, <3>6, <3>7 DEF AtQueue, Leaves, Stays, Given, GivenUp, PassedOver, e
  <2>5. CASE Deliver
    <3> DEFINE e == Head(loopq)
    <3>1. /\ UNCHANGED <<bound, counter, backlog, seen, queue>>
          /\ loopq # <<>> /\ loopq' = Tail(loopq)
          /\ InFlight(Loop)' => event'[Loop] = e
          /\ \A c \in Couriers \ {Loop} :
               pc'[c] = pc[c] /\ event'[c] = event[c] /\ targets'[c] = targets[c]
      BY <2>0, <2>5 DEF Deliver, InFlight, subs, aux
    <3>2. /\ e \in Event /\ loopq' \in Seq(Event)
          /\ ToSet(loopq) = {e} \cup ToSet(loopq')
          /\ Ordered(loopq') /\ Older({e}, ToSet(loopq'))
      BY <2>0, <2>00, <3>1, MembersOfTail, OrderedTail DEF LoopInv
    <3> HIDE DEF e
    <3>3. LoopInv'
      <4>1. InLoop' \subseteq InLoop /\ bound' = bound /\ bound
        BY <2>00, <3>1, <3>2 DEF LoopInv, InLoop
      <4>2. \A p \in Publishers : InFlight(p)' => Older(InLoop', {event'[p]})
        <5>1. \A p \in Publishers : InFlight(p)' =>
                Older(InLoop, {event[p]}) /\ event'[p] = event[p]
          BY <2>0, <2>00, <3>1 DEF LoopInv, InFlight
        <5>2. QED
          BY <4>1, <5>1 DEF Older
      <4>3. \A p \in Publishers :
              /\ InFlight(p)' => event'[p].pub = p
              /\ pc'[p] \in {"targets"} \cup Delivering => \A x \in InLoop' : x.pub # p
        BY <2>0, <2>00, <3>1, <4>1 DEF LoopInv, InFlight
      <4>4. \A x \in InLoop' : x.id <= counter'
        BY <2>00, <3>1, <4>1 DEF LoopInv
      <4>5. InFlight(Loop)' => Older({event'[Loop]}, ToSet(loopq'))
        BY <3>1, <3>2
      <4>6. QED
        BY <3>2, <4>1, <4>2, <4>3, <4>4, <4>5 DEF LoopInv
    <3>4. ASSUME NEW s \in Subscribers \ Replays PROVE StreamInv(s)'
      <4>1. StreamInv(s) /\ Got(s)' = Got(s)
        BY <2>00, <3>1 DEF Got
      <4>2. Older(Got(s), {e}) /\ Older(Got(s), ToSet(loopq'))
        BY <3>2, <4>1 DEF StreamInv, Older
      <4>3. \A c \in Couriers : Coming(c, s)' => Older(Got(s), {event'[c]})
        <5> TAKE c \in Couriers
        <5>1. CASE c = Loop
          BY <3>1, <4>2, <5>1 DEF Coming
        <5>2. CASE c # Loop
          BY <3>1, <4>1, <5>2 DEF Coming, InFlight, StreamInv
        <5>3. QED
          BY <5>1, <5>2
      <4>4. QED
        BY <3>1, <4>1, <4>2, <4>3 DEF StreamInv
    <3>5. QED
      BY <2>00, <3>1, <3>3, <3>4 DEF OrderInv
  <2>6. ASSUME NEW s \in Subscribers, Bind(s) \/ Attach(s) \/ Snapshot(s) PROVE OrderInv'
    <3>1. /\ UNCHANGED <<loopq, counter, queue, seen, pc, event, targets>>
          /\ bound => bound'
          /\ \A x \in Subscribers \ Replays : backlog'[x] = backlog[x]
      BY <2>0, <2>6 DEF Bind, Attach, Snapshot, bus, pubs, lost, aux
    <3>2. LoopInv'
      BY <2>0, <2>00, <3>1, LoopKept DEF InFlight
    <3>3. \A x \in Subscribers \ Replays : StreamInv(x)'
      BY <2>00, <3>1, StreamKept DEF Coming, InFlight
    <3>4. QED
      BY <2>00, <3>1, <3>2, <3>3 DEF OrderInv
  <2>7. ASSUME NEW s \in Subscribers, Yield(s) PROVE OrderInv'
    <3>1. /\ UNCHANGED <<bound, loopq, counter, pc, event, targets>>
          /\ \A x \in Subscribers \ {s} :
               queue'[x] = queue[x] /\ backlog'[x] = backlog[x] /\ seen'[x] = seen[x]
      BY <2>0, <2>7 DEF Yield, bus, pubs
    <3>2. LoopInv'
      BY <2>0, <2>00, <3>1, LoopKept DEF InFlight
    <3>3. \A x \in Subscribers \ Replays : x # s => StreamInv(x)'
      BY <2>00, <3>1, StreamKept DEF Coming, InFlight
    <3>4. ASSUME s \notin Replays PROVE StreamInv(s)' /\ backlog'[s] = <<>>
      <4> DEFINE e == Head(queue[s])
      <4>1. StreamInv(s) /\ backlog[s] = <<>>
        BY <2>00, <3>4
      <4>2. /\ queue[s] # <<>>
            /\ seen'[s] = Append(seen[s], e)
            /\ queue'[s] = Tail(queue[s])
            /\ backlog'[s] = <<>>
        BY <2>0, <2>7, <4>1 DEF Yield
      <4>3. /\ e \in Event
            /\ ToSet(queue[s]) = {e} \cup ToSet(queue'[s])
            /\ Ordered(queue'[s]) /\ Older({e}, ToSet(queue'[s]))
        <5>1. queue[s] \in Seq(Event) /\ Ordered(queue[s])
          BY <2>0, <4>1 DEF StreamInv
        <5>2. QED
          BY <4>2, <5>1, MembersOfTail, OrderedTail
      <4> HIDE DEF e
      <4>4. ToSet(seen'[s]) = ToSet(seen[s]) \cup {e}
        BY <2>0, <4>2, <4>3, MembersOfAppend
      <4>5. Older(ToSet(seen[s]), {e}) /\ Older(ToSet(seen[s]), ToSet(queue'[s]))
        BY <4>1, <4>3 DEF StreamInv, Older
      <4>6. Ordered(seen'[s])
        BY <2>0, <4>1, <4>2, <4>3, <4>5, OrderedAppend DEF StreamInv
      <4>7. Older(ToSet(seen'[s]), ToSet(queue'[s]))
        BY <4>3, <4>4, <4>5 DEF Older
      <4>8. Got(s)' = Got(s)
        BY <4>3, <4>4 DEF Got
      <4>9. QED
        BY <3>1, <4>1, <4>2, <4>3, <4>6, <4>7, <4>8 DEF StreamInv, Coming, InFlight
    <3>5. QED
      BY <2>00, <3>1, <3>2, <3>3, <3>4 DEF OrderInv
  <2>8. ASSUME NEW s \in Subscribers, Unsubscribe(s) PROVE OrderInv'
    <3>1. /\ UNCHANGED <<bound, loopq, counter, pc, event, targets>>
          /\ queue'[s] = <<>> /\ backlog'[s] = <<>> /\ seen'[s] = <<>>
          /\ \A x \in Subscribers \ {s} :
               queue'[x] = queue[x] /\ backlog'[x] = backlog[x] /\ seen'[x] = seen[x]
      BY <2>0, <2>8 DEF Unsubscribe, bus, pubs
    <3>2. LoopInv'
      BY <2>0, <2>00, <3>1, LoopKept DEF InFlight
    <3>3. \A x \in Subscribers \ Replays : x # s => StreamInv(x)'
      BY <2>00, <3>1, StreamKept DEF Coming, InFlight
    <3>4. StreamInv(s)'
      BY <3>1, NoMembers, NothingOrdered DEF StreamInv, Got, Older
    <3>5. QED
      BY <2>00, <3>1, <3>2, <3>3, <3>4 DEF OrderInv
  <2>9. CASE Restart
    <3>1. LoopInv'
      BY <2>9, NoMembers, NothingOrdered DEF Restart, LoopInv, InFlight, InLoop, Delivering
    <3>2. \A s \in Subscribers : seen'[s] = <<>> /\ queue'[s] = <<>> /\ backlog'[s] = <<>>
      BY <2>9 DEF Restart
    <3>3. \A s \in Subscribers : StreamInv(s)'
      BY <2>9, <3>2, NoMembers, NothingOrdered DEF StreamInv, Got, Older
    <3>4. QED
      BY <3>1, <3>2, <3>3 DEF OrderInv
  <2>10. CASE UNCHANGED vars
    <3>1. LoopInv' /\ \A x \in Subscribers \ Replays : StreamInv(x)'
      BY <2>00, <2>10, LoopKept, StreamKept DEF vars, Coming, InFlight
    <3>2. QED
      BY <2>00, <2>10, <3>1 DEF OrderInv, vars
  <2>11. QED
    BY <2>1, <2>2, <2>3, <2>4, <2>5, <2>6, <2>7, <2>8, <2>9, <2>10
       DEF Next, Publish, Resume, Turn
<1>3. OrderInv => PublisherOrder
  BY DEF OrderInv, StreamInv, Ordered, PublisherOrder
<1>4. QED
  BY <1>1, <1>2, <1>3, TypeCorrect, NumbersInFlight, PTL DEF Spec

=============================================================================

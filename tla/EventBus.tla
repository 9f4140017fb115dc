------------------------------- MODULE EventBus -------------------------------
(***************************************************************************)
(* The stream of graph-mutation events: StreamBus of                       *)
(* mcp_server/contracts/streaming.py, the event_log table it writes        *)
(* through (mcp_server/storage.py) and the SSE subscribers of              *)
(* mcp_server/server.py.                                                   *)
(*                                                                         *)
(* Publishers are worker threads (the handlers of FastAPI that ingest, the *)
(* ingestion jobs).  Subscribers are asynchronous generators, all of them  *)
(* on the one event loop of the process: whatever such a generator does    *)
(* between two awaits is not interleaved with another callback of the loop *)
(* but is interleaved with the publishers' threads.  A publisher hands an  *)
(* event to the loop (call_soon_threadsafe) once a loop has been bound,    *)
(* and delivers it in its own thread before that.  Publishers' threads and *)
(* the loop are the couriers: _deliver puts an event into one queue after  *)
(* the other with calls of asyncio.Queue that no lock holds together, so   *)
(* several couriers may be at one queue, next to the client that reads it. *)
(* Each of these calls (put_nowait, get_nowait) is one step.               *)
(*                                                                         *)
(* An event is [run, id, pub]: the process incarnation that emitted it,    *)
(* the number in its event_id "evt-<id>", and its publisher.  The stored   *)
(* event_id is the number alone.                                           *)
(***************************************************************************)
EXTENDS Integers, Sequences, SequencesExt, FiniteSets

CONSTANTS
  Publishers,   \* threads that call emit
  Loop,         \* the event loop, as a courier of events
  None,         \* no subscriber
  Subscribers,  \* clients, each of which subscribes at most once per run
  Replays,      \* the subscribers that ask for replay
  HistorySize,  \* maxlen of _history
  MaxQueue,     \* _MAX_QUEUE
  MaxEvents,    \* bound: events emitted in each run
  MaxCalls,     \* bound: calls of emit and of subscribe in each run
  Failing,      \* bound: the numbers of the events whose insert may fail
  MaxRuns       \* bound: process incarnations

Couriers == Publishers \cup {Loop}

ASSUME BusConstants ==
  /\ Loop \notin Publishers
  /\ None \notin Subscribers
  /\ HistorySize \in Nat \ {0}
  /\ MaxQueue \in Nat \ {0}
  /\ MaxRuns \in Nat \ {0}
  /\ MaxEvents \in [1..MaxRuns -> Nat]
  /\ MaxCalls \in [1..MaxRuns -> Nat]
  /\ Replays \subseteq Subscribers

VARIABLES
  run,       \* the present incarnation of the process
  counter,   \* _counter: the last number taken
  history,   \* _history
  log,       \* event_log, in insertion order
  bound,     \* _loop is set (and running)
  loopq,     \* deliveries scheduled on the loop
  stage,     \* how far each subscriber's generator is
  queue,     \* each subscriber's asyncio.Queue
  backlog,   \* what is left of the list a replaying subscriber iterates over
  pc,        \* the next step of each courier
  event,     \* the event each courier has in its hands
  targets,   \* the queues left in a courier's run of _deliver
  at,        \* the queue at which a courier makes room
  seen,      \* history variable: what each connected subscriber was given
  due,       \* history variable: what each subscriber may expect
  dropped,   \* history variable: the old events taken from each queue to make room
  missed,    \* history variable: the new events given up at each queue
  crossed,   \* history variable: the subscribers at whose queue a publisher's
             \* own thread has been
  stored     \* history variable: the events append_event returned normally for

bus  == <<run, counter, history, log, bound, loopq>>
subs == <<stage, queue, backlog>>
pubs == <<pc, event, targets, at>>
lost == <<dropped, missed, crossed>>
aux  == <<seen, due, dropped, missed, crossed, stored>>
vars == <<run, counter, history, log, bound, loopq, stage, queue, backlog,
          pc, event, targets, at, seen, due, dropped, missed, crossed, stored>>

Event   == UNION {[run : {r}, id : 1..MaxEvents[r], pub : Publishers] : r \in 1..MaxRuns}
NoEvent == [run |-> 0, id |-> 0]

\* _subscribers.
Attached == {s \in Subscribers : stage[s] \in {"attached", "live"}}

\* No delivery, and no generator between two awaits of its subscription, is
\* running on the loop.
LoopFree ==
  /\ pc[Loop] = "idle"
  /\ \A s \in Subscribers : stage[s] \notin {"bound", "attached"}

Steps == {"idle", "retain", "persist", "route", "targets", "direct", "evict", "retry"}

TypeOK ==
  /\ run \in 1..MaxRuns
  /\ counter \in 0..MaxEvents[run]
  /\ history \in Seq(Event) /\ Len(history) <= HistorySize
  /\ log \in Seq(Event)
  /\ bound \in BOOLEAN
  /\ loopq \in Seq(Event)
  /\ stage \in [Subscribers -> {"new", "bound", "attached", "live", "gone"}]
  /\ queue \in [Subscribers -> Seq(Event)]
  /\ \A s \in Subscribers : Len(queue[s]) <= MaxQueue
  /\ backlog \in [Subscribers -> Seq(Event)]
  /\ pc \in [Couriers -> Steps]
  /\ event \in [Couriers -> Event \cup {NoEvent}]
  /\ \A c \in Couriers : pc[c] # "idle" => event[c] \in Event
  /\ targets \in [Couriers -> SUBSET Subscribers]
  /\ at \in [Couriers -> Subscribers \cup {None}]
  /\ \A c \in Couriers : pc[c] \in {"evict", "retry"} => at[c] \in targets[c]
  /\ seen \in [Subscribers -> Seq(Event)]
  /\ due \in [Subscribers -> SUBSET Event]
  /\ dropped \in [Subscribers -> SUBSET Event]
  /\ missed \in [Subscribers -> SUBSET Event]
  /\ crossed \in SUBSET Subscribers
  /\ stored \in SUBSET Event

Init ==
  /\ run = 1
  /\ counter = 0
  /\ history = <<>>
  /\ log = <<>>
  /\ bound = FALSE
  /\ loopq = <<>>
  /\ stage = [s \in Subscribers |-> "new"]
  /\ queue = [s \in Subscribers |-> <<>>]
  /\ backlog = [s \in Subscribers |-> <<>>]
  /\ pc = [c \in Couriers |-> "idle"]
  /\ event = [c \in Couriers |-> NoEvent]
  /\ targets = [c \in Couriers |-> {}]
  /\ at = [c \in Couriers |-> None]
  /\ seen = [s \in Subscribers |-> <<>>]
  /\ due = [s \in Subscribers |-> {}]
  /\ dropped = [s \in Subscribers |-> {}]
  /\ missed = [s \in Subscribers |-> {}]
  /\ crossed = {}
  /\ stored = {}

-----------------------------------------------------------------------------
(* Publishing.                                                             *)

\* Bound: emit and subscribe can still be called in this run.
Callable == counter + Cardinality({s \in Subscribers : stage[s] # "new"}) < MaxCalls[run]

Goto(p, step) == pc' = [pc EXCEPT ![p] = step]

Finish(p) ==
  /\ pc' = [pc EXCEPT ![p] = "idle"]
  /\ event' = [event EXCEPT ![p] = NoEvent]

Continue(p, step) == Goto(p, step) /\ UNCHANGED event

\* (TakeIdTwice, RetainUnbounded, PersistReplacing, DeliverNewest,
\* DeliverUnlessReplaying and YieldReplayOnly are not the code: they are wrong
\* variants of the action below them, one for each property.)

\* emit: next(self._counter) is atomic.
TakeIdTwice(p) ==
  /\ pc[p] = "idle"
  /\ counter < MaxEvents[run] /\ Callable
  /\ counter' \in {counter, counter + 1}
  /\ event' = [event EXCEPT ![p] = [run |-> run, id |-> counter + 1, pub |-> p]]
  /\ Goto(p, "retain")
  /\ UNCHANGED <<run, history, log, bound, loopq, targets, at, subs, aux>>

TakeId(p) ==
  /\ pc[p] = "idle"
  /\ counter < MaxEvents[run] /\ Callable
  /\ counter' = counter + 1
  /\ event' = [event EXCEPT ![p] = [run |-> run, id |-> counter', pub |-> p]]
  /\ Goto(p, "retain")
  /\ UNCHANGED <<run, history, log, bound, loopq, targets, at, subs, aux>>

\* publish_update: _history.append on a deque with a maxlen.
RetainUnbounded(p) ==
  /\ pc[p] = "retain"
  /\ history' = Append(history, event[p])
  /\ due' = [s \in Subscribers |->
       IF s \in Attached THEN due[s] \cup {event[p]} ELSE due[s]]
  /\ Goto(p, "persist")
  /\ UNCHANGED <<run, counter, log, bound, loopq, event, targets, at, subs,
                 seen, lost, stored>>

Retain(p) ==
  LET longer == Append(history, event[p]) IN
  /\ pc[p] = "retain"
  /\ history' = IF Len(longer) > HistorySize THEN Tail(longer) ELSE longer
  /\ due' = [s \in Subscribers |->
       IF s \in Attached THEN due[s] \cup {event[p]} ELSE due[s]]
  /\ Goto(p, "persist")
  /\ UNCHANGED <<run, counter, log, bound, loopq, event, targets, at, subs,
                 seen, lost, stored>>

\* append_event: INSERT OR IGNORE on the primary key event_id; publish_update
\* swallows the exception of a failed insert.
PersistReplacing(p) ==
  /\ pc[p] = "persist"
  /\ \/ /\ log' = Append(SelectSeq(log, LAMBDA r : r.id # event[p].id), event[p])
        /\ stored' = stored \cup {event[p]}
     \/ /\ event[p].id \in Failing
        /\ UNCHANGED <<log, stored>>
  /\ Goto(p, "route")
  /\ UNCHANGED <<run, counter, history, bound, loopq, event, targets, at, subs,
                 seen, due, lost>>

Persist(p) ==
  /\ pc[p] = "persist"
  /\ \/ /\ log' = IF \E i \in DOMAIN log : log[i].id = event[p].id
                    THEN log ELSE Append(log, event[p])
        /\ stored' = stored \cup {event[p]}
     \/ /\ event[p].id \in Failing
        /\ UNCHANGED <<log, stored>>
  /\ Goto(p, "route")
  /\ UNCHANGED <<run, counter, history, bound, loopq, event, targets, at, subs,
                 seen, due, lost>>

\* publish_update: hand the event to the bound loop, or deliver it here.
Route(p) ==
  /\ pc[p] = "route"
  /\ \/ /\ bound
        /\ loopq' = Append(loopq, event[p])
        /\ Finish(p)
     \/ /\ ~bound
        /\ Continue(p, "targets")
        /\ UNCHANGED loopq
  /\ UNCHANGED <<run, counter, history, log, bound, targets, at, subs, aux>>

\* _deliver in the publisher's thread: the queues are listed under the lock...
ListTargets(p) ==
  /\ pc[p] = "targets"
  /\ targets' = [targets EXCEPT ![p] = Attached]
  /\ IF Attached = {} THEN Finish(p) ELSE Continue(p, "direct")
  /\ UNCHANGED <<bus, at, subs, aux>>

-----------------------------------------------------------------------------
(* _deliver: a courier puts its event into the queues, one after the other.  *)

\* The courier is done with the queue of s.
Done(c, s) ==
  /\ targets' = [targets EXCEPT ![c] = @ \ {s}]
  /\ at' = [at EXCEPT ![c] = None]
  /\ IF targets[c] = {s} THEN Finish(c) ELSE Continue(c, "direct")

\* The courier puts its event into the queue of s.
Put(c, s) ==
  /\ queue' = [queue EXCEPT ![s] = Append(@, event[c])]
  /\ Done(c, s)
  /\ UNCHANGED <<dropped, missed>>

\* `except (QueueEmpty, QueueFull): continue`: the event is given up.
Miss(c, s) ==
  /\ missed' = [missed EXCEPT ![s] = @ \cup {event[c]}]
  /\ Done(c, s)
  /\ UNCHANGED <<queue, dropped>>

\* A queue its client has given up is still filled, and nobody reads it.
PutAside(c, s) ==
  /\ s \notin Attached
  /\ Done(c, s)
  /\ UNCHANGED <<queue, dropped, missed>>

\* The first put_nowait, which may find the queue full.
TryPut(c, s) ==
  /\ pc[c] = "direct"
  /\ s \in targets[c]
  /\ \/ PutAside(c, s)
     \/ /\ s \in Attached /\ Len(queue[s]) < MaxQueue
        /\ Put(c, s)
     \/ /\ s \in Attached /\ Len(queue[s]) >= MaxQueue
        /\ at' = [at EXCEPT ![c] = s]
        /\ Continue(c, "evict")
        /\ UNCHANGED <<queue, targets, dropped, missed>>
  /\ crossed' = IF c = Loop \/ s \notin Attached THEN crossed ELSE crossed \cup {s}
  /\ UNCHANGED <<bus, stage, backlog, seen, due, stored>>

\* get_nowait: the oldest event makes room, unless the queue is empty by now.
Evict(c) ==
  LET s == at[c] IN
  /\ pc[c] = "evict"
  /\ \/ PutAside(c, s)
     \/ /\ s \in Attached /\ queue[s] = <<>>
        /\ Miss(c, s)
     \/ /\ s \in Attached /\ queue[s] # <<>>
        /\ queue' = [queue EXCEPT ![s] = Tail(@)]
        /\ dropped' = [dropped EXCEPT ![s] = @ \cup {Head(queue[s])}]
        /\ Continue(c, "retry")
        /\ UNCHANGED <<targets, at, missed>>
  /\ UNCHANGED <<bus, stage, backlog, seen, due, crossed, stored>>

\* The second put_nowait, unless the queue is full again.
Retry(c) ==
  LET s == at[c] IN
  /\ pc[c] = "retry"
  /\ \/ PutAside(c, s)
     \/ /\ s \in Attached /\ Len(queue[s]) < MaxQueue
        /\ Put(c, s)
     \/ /\ s \in Attached /\ Len(queue[s]) >= MaxQueue
        /\ Miss(c, s)
  /\ UNCHANGED <<bus, stage, backlog, seen, due, crossed, stored>>

Carry(c) ==
  \/ \E s \in Subscribers : TryPut(c, s)
  \/ Evict(c)
  \/ Retry(c)

-----------------------------------------------------------------------------
(* The event loop: deliveries and the subscribers' generators.             *)

\* A callback of the loop begins _deliver for one event.
DeliverNewest ==
  /\ LoopFree
  /\ loopq # <<>>
  /\ loopq' = Front(loopq)
  /\ targets' = [targets EXCEPT ![Loop] = Attached]
  /\ event' = [event EXCEPT ![Loop] = IF Attached = {} THEN NoEvent ELSE Last(loopq)]
  /\ pc' = [pc EXCEPT ![Loop] = IF Attached = {} THEN "idle" ELSE "direct"]
  /\ UNCHANGED <<run, counter, history, log, bound, at, subs, aux>>

DeliverUnlessReplaying ==
  LET ready == {s \in Attached : backlog[s] = <<>>} IN
  /\ LoopFree
  /\ loopq # <<>>
  /\ loopq' = Tail(loopq)
  /\ targets' = [targets EXCEPT ![Loop] = ready]
  /\ event' = [event EXCEPT ![Loop] = IF ready = {} THEN NoEvent ELSE Head(loopq)]
  /\ pc' = [pc EXCEPT ![Loop] = IF ready = {} THEN "idle" ELSE "direct"]
  /\ UNCHANGED <<run, counter, history, log, bound, at, subs, aux>>

Deliver ==
  /\ LoopFree
  /\ loopq # <<>>
  /\ loopq' = Tail(loopq)
  /\ targets' = [targets EXCEPT ![Loop] = Attached]
  /\ event' = [event EXCEPT ![Loop] = IF Attached = {} THEN NoEvent ELSE Head(loopq)]
  /\ pc' = [pc EXCEPT ![Loop] = IF Attached = {} THEN "idle" ELSE "direct"]
  /\ UNCHANGED <<run, counter, history, log, bound, at, subs, aux>>

\* subscribe up to its first yield: bind the loop, register the queue, copy the
\* history.  Publishers' threads may run in between, callbacks may not.
Bind(s) ==
  /\ LoopFree
  /\ stage[s] = "new" /\ Callable
  /\ bound' = TRUE
  /\ stage' = [stage EXCEPT ![s] = "bound"]
  /\ UNCHANGED <<run, counter, history, log, loopq, queue, backlog, pubs, aux>>

Attach(s) ==
  /\ stage[s] = "bound"
  /\ stage' = [stage EXCEPT ![s] = "attached"]
  /\ UNCHANGED <<bus, queue, backlog, pubs, aux>>

Snapshot(s) ==
  /\ stage[s] = "attached"
  /\ stage' = [stage EXCEPT ![s] = "live"]
  /\ IF s \in Replays
       THEN /\ backlog' = [backlog EXCEPT ![s] = history]
            /\ due' = [due EXCEPT ![s] = @ \cup ToSet(history)]
       ELSE UNCHANGED <<backlog, due>>
  /\ UNCHANGED <<bus, queue, pubs, seen, lost, stored>>

\* The generator yields one event: first the replayed ones, then the queue's.
YieldReplayOnly(s) ==
  /\ LoopFree
  /\ stage[s] = "live"
  /\ backlog[s] # <<>>
  /\ seen' = [seen EXCEPT ![s] = Append(@, Head(backlog[s]))]
  /\ backlog' = [backlog EXCEPT ![s] = Tail(@)]
  /\ UNCHANGED <<bus, stage, queue, pubs, due, lost, stored>>

Yield(s) ==
  /\ LoopFree
  /\ stage[s] = "live"
  /\ \/ /\ backlog[s] # <<>>
        /\ seen' = [seen EXCEPT ![s] = Append(@, Head(backlog[s]))]
        /\ backlog' = [backlog EXCEPT ![s] = Tail(@)]
        /\ UNCHANGED queue
     \/ /\ backlog[s] = <<>> /\ queue[s] # <<>>
        /\ seen' = [seen EXCEPT ![s] = Append(@, Head(queue[s]))]
        /\ queue' = [queue EXCEPT ![s] = Tail(@)]
        /\ UNCHANGED backlog
  /\ UNCHANGED <<bus, stage, pubs, due, lost, stored>>

\* The client disconnects: the finally clause discards the queue.
Unsubscribe(s) ==
  /\ LoopFree
  /\ stage[s] = "live"
  /\ stage' = [stage EXCEPT ![s] = "gone"]
  /\ queue' = [queue EXCEPT ![s] = <<>>]
  /\ backlog' = [backlog EXCEPT ![s] = <<>>]
  /\ seen' = [seen EXCEPT ![s] = <<>>]
  /\ due' = [due EXCEPT ![s] = {}]
  /\ dropped' = [dropped EXCEPT ![s] = {}]
  /\ missed' = [missed EXCEPT ![s] = {}]
  /\ crossed' = crossed \ {s}
  /\ UNCHANGED <<bus, pubs, stored>>

-----------------------------------------------------------------------------

\* The process ends and is started again: only the table survives, and the
\* counter starts from one.  Clients may connect anew.
Restart ==
  /\ run < MaxRuns
  /\ run' = run + 1
  /\ counter' = 0
  /\ history' = <<>>
  /\ bound' = FALSE
  /\ loopq' = <<>>
  /\ stage' = [s \in Subscribers |-> "new"]
  /\ queue' = [s \in Subscribers |-> <<>>]
  /\ backlog' = [s \in Subscribers |-> <<>>]
  /\ pc' = [c \in Couriers |-> "idle"]
  /\ event' = [c \in Couriers |-> NoEvent]
  /\ targets' = [c \in Couriers |-> {}]
  /\ at' = [c \in Couriers |-> None]
  /\ seen' = [s \in Subscribers |-> <<>>]
  /\ due' = [s \in Subscribers |-> {}]
  /\ dropped' = [s \in Subscribers |-> {}]
  /\ missed' = [s \in Subscribers |-> {}]
  /\ crossed' = {}
  /\ UNCHANGED <<log, stored>>

Publish(p) == Retain(p) \/ Persist(p) \/ Route(p) \/ ListTargets(p) \/ Carry(p)

\* What the loop and a generator do next.
Turn      == Deliver \/ Carry(Loop)
Resume(s) == Attach(s) \/ Snapshot(s) \/ Yield(s)

Next ==
  \/ \E p \in Publishers : TakeId(p) \/ Publish(p)
  \/ \E s \in Subscribers :
       Bind(s) \/ Resume(s) \/ Unsubscribe(s)
  \/ Turn
  \/ Restart

Spec == Init /\ [][Next]_vars

\* Threads that publish finish what they began, the loop runs its callbacks to
\* their end, and each generator is resumed while it has something to do (its
\* wait for the queue also ends by itself, after the 15 s of the heartbeat).
\* Nobody has to publish, connect, disconnect or restart.
Fairness ==
  /\ \A p \in Publishers : WF_vars(Publish(p))
  /\ \A s \in Subscribers : WF_vars(Resume(s))
  /\ WF_vars(Turn)

FairSpec == Spec /\ Fairness

-----------------------------------------------------------------------------
(* Properties.                                                             *)

\* The events that couriers have in their hands and not yet passed on to s.
OnTheWay(s) ==
  {event[c] : c \in {x \in Couriers :
     \/ pc[x] \in {"persist", "route", "targets"}
     \/ pc[x] \in {"direct", "evict", "retry"} /\ s \in targets[x]}}

\* The hand-over from replayed history to live delivery has no gap: an event in
\* the history a subscriber copied, or published after it registered its queue,
\* has been yielded to it, is on its way to it, made room for a newer one in its
\* own full queue, or was given up there: another courier filled the room made
\* for it, or the client emptied the queue before room was made.  That a new
\* event is given up takes a publisher that delivers in its own thread; once all
\* events come over the loop, only old ones are lost.
NoGap ==
  \A s \in Attached :
    /\ due[s] \subseteq ToSet(seen[s]) \cup ToSet(backlog[s]) \cup ToSet(queue[s])
                          \cup ToSet(loopq) \cup OnTheWay(s) \cup dropped[s] \cup missed[s]
    /\ missed[s] # {} => s \in crossed

\* A subscriber that did not ask for replay gets the events of one publisher in
\* the order of publication, although the first of them may come through the
\* publisher's own thread and the later ones through the loop.  (Replay breaks
\* this: an event queued while the history is being copied, and evicted from it
\* before the copy, is yielded after newer ones that were copied.)
PublisherOrder ==
  \A s \in Subscribers \ Replays : \A i, j \in DOMAIN seen[s] :
    (i < j /\ seen[s][i].pub = seen[s][j].pub) => seen[s][i].id < seen[s][j].id

\* The event log is an audit trail as AuditLog promises it: whatever the bus
\* does, restarts included, a step adds at most one row at its end, under an id
\* that is not taken, and no stored row changes, moves or disappears.
Trail == INSTANCE AuditLog

LogIsTrail == Trail!Spec

\* Within the first run of the process on a database the log is complete: each
\* event whose insert succeeded has its row.
FirstRunLogged == \A e \in stored : e.run = 1 => e \in ToSet(log)

\* What "persistent write operations log" and "immutable audit trail" say: each
\* event whose insert succeeded has its row.  The counter of the event ids
\* starts from one again in every process, so after a restart the rows of new
\* events are ignored as duplicates of old ones.
LogComplete == stored \subseteq ToSet(log)

\* The events a subscriber may still expect.
Owed(s) == due[s] \ (ToSet(seen[s]) \cup dropped[s] \cup missed[s])

\* Every event a connected subscriber may expect reaches it, unless it is lost at
\* its full queue in one of the two ways NoGap names, or the subscriber
\* disconnects, or the process is restarted (nothing is due then).  An event is
\* known by its number, as a run gives each number to one event.
EventuallySeen ==
  \A s \in Subscribers : \A n \in UNION {1..MaxEvents[r] : r \in 1..MaxRuns} :
    (\E e \in Owed(s) : e.id = n) ~> (\A e \in Owed(s) : e.id # n)

=============================================================================

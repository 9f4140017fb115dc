--------------------------------- MODULE Watch ---------------------------------
(***************************************************************************)
(* Clients that follow the event log by polling: WatchContract.watch in    *)
(* mcp_server/contracts/watch.py over get_events and append_event in       *)
(* mcp_server/storage.py, with StreamBus.emit as the writer.               *)
(*                                                                         *)
(* A client hands the latest_timestamp of one answer in as the             *)
(* since_timestamp of its next call.  An event is stamped when it is built *)
(* and becomes a row later, in another statement, and publishers of one    *)
(* server or of the two servers that share the file overtake each other.   *)
(*                                                                         *)
(* Data abstraction: a graph id and an event type select rows in the same  *)
(* way, in SQL and before the limit, and are one topic; an entity id       *)
(* selects among the rows that are left after the limit.                   *)
(***************************************************************************)
EXTENDS Integers, FiniteSets

CONSTANTS
  Publishers,  \* threads that emit events
  Servers,     \* processes that share the SQLite file
  ServerOf,    \* ServerOf[p]: the process p runs in
  Clients,     \* clients of graphrag_watch
  Topics,      \* what the filters of the SQL statement tell apart
  Entities,    \* entity ids
  Kinds,       \* the pairs of a topic and an entity (or None) that emit is called with
  None,        \* no filter; no entity; nothing in flight
  Topic,       \* Topic[c]: the topic c asks for, or None
  EntityId,    \* EntityId[c]: the entity_id c asks for, or None
  Asked,       \* Asked[c]: the limit c asks for
  WatchCap,    \* the largest limit of watch (500)
  StoreCap,    \* the largest limit of get_events (1000)
  MaxClock,    \* bound: the clock stops there
  MaxEvents    \* bound: so many events by one run of a server

NoToken == 0   \* since_timestamp is not given

Event == [server : Servers, id : Nat, ts : Nat \ {0},
          topic : Topics, entity : Entities \cup {None}]

ASSUME WatchConstants ==
  /\ ServerOf \in [Publishers -> Servers]
  /\ Kinds \subseteq Topics \X (Entities \cup {None})
  /\ Topic \in [Clients -> Topics \cup {None}]
  /\ EntityId \in [Clients -> Entities \cup {None}]
  /\ Asked \in [Clients -> Int]
  /\ WatchCap \in Nat \ {0}
  /\ StoreCap \in Nat
  /\ WatchCap <= StoreCap
  /\ MaxClock \in Nat \ {0}
  /\ MaxEvents \in Nat
  /\ None \notin Topics \cup Entities \cup Event

VARIABLES
  clock,    \* datetime.now, which emit and isoformat turn into a timestamp
  counter,  \* _counter of each server's bus: the number of its last event
  flight,   \* what each publisher has stamped and not yet inserted
  rows,     \* the table event_log
  since,    \* the token each client calls with next
  answer,   \* the events of each client's last answer
  got,      \* every event that each client has been sent
  late,     \* history: rows inserted when c's token was past them already
  cut       \* history: rows that the limit kept out of an answer to c

vars == <<clock, counter, flight, rows, since, answer, got, late, cut>>

TypeOK ==
  /\ clock \in Nat \ {0}
  /\ counter \in [Servers -> Nat]
  /\ flight \in [Publishers -> Event \cup {None}]
  /\ rows \subseteq Event
  /\ IsFiniteSet(rows)
  /\ since \in [Clients -> Nat]
  /\ answer \in [Clients -> SUBSET rows]
  /\ got \in [Clients -> SUBSET rows]
  /\ late \in [Clients -> SUBSET rows]
  /\ cut \in [Clients -> SUBSET rows]

Init ==
  /\ clock = 1
  /\ counter = [s \in Servers |-> 0]
  /\ flight = [p \in Publishers |-> None]
  /\ rows = {}
  /\ since = [c \in Clients |-> NoToken]
  /\ answer = [c \in Clients |-> {}]
  /\ got = [c \in Clients |-> {}]
  /\ late = [c \in Clients |-> {}]
  /\ cut = [c \in Clients |-> {}]

-----------------------------------------------------------------------------
(* The writer.  (MatchingAfter, StoreLimitTight, FirstOldest and            *)
(* RestartEmpty below are not the code: each makes a mistake that one of    *)
(* the properties rules out.)                                               *)

Tick ==
  /\ clock < MaxClock
  /\ clock' = clock + 1
  /\ UNCHANGED <<counter, flight, rows, since, answer, got, late, cut>>

\* emit: the next number of the server's counter, stamped with the time.
Stamp(p) ==
  LET s == ServerOf[p] IN
  /\ flight[p] = None
  /\ counter[s] < MaxEvents
  /\ \E k \in Kinds :
       flight' = [flight EXCEPT ![p] =
                    [server |-> s, id |-> counter[s] + 1, ts |-> clock,
                     topic |-> k[1], entity |-> k[2]]]
  /\ counter' = [counter EXCEPT ![s] = @ + 1]
  /\ UNCHANGED <<clock, rows, since, answer, got, late, cut>>

\* The primary key of the table is the event id, which the counter alone makes.
Known(e) == \E r \in rows : r.id = e.id

\* append_event: INSERT OR IGNORE, one statement.
Insert(p) ==
  LET e == flight[p] IN
  /\ e # None
  /\ IF Known(e)
       THEN UNCHANGED <<rows, late>>
       ELSE /\ rows' = rows \cup {e}
            /\ late' = [c \in Clients |->
                          IF e.ts < since[c] THEN late[c] \cup {e} ELSE late[c]]
  /\ flight' = [flight EXCEPT ![p] = None]
  /\ UNCHANGED <<clock, counter, since, answer, got, cut>>

\* The insert fails (the file is locked, or gone); the failure is swallowed.
InsertFails(p) ==
  /\ flight[p] # None
  /\ flight' = [flight EXCEPT ![p] = None]
  /\ UNCHANGED <<clock, counter, rows, since, answer, got, late, cut>>

\* The table is in memory.
RestartEmpty(s) ==
  /\ counter[s] > 0
  /\ counter' = [counter EXCEPT ![s] = 0]
  /\ flight' = [p \in Publishers |-> IF ServerOf[p] = s THEN None ELSE flight[p]]
  /\ rows' = {}
  /\ UNCHANGED <<clock, since, answer, got, late, cut>>

\* A server ends and is started again: what was in flight is gone, and the
\* counter starts again; the table is on disk and the tokens are the clients'.
Restart(s) ==
  /\ counter[s] > 0
  /\ counter' = [counter EXCEPT ![s] = 0]
  /\ flight' = [p \in Publishers |-> IF ServerOf[p] = s THEN None ELSE flight[p]]
  /\ UNCHANGED <<clock, rows, since, answer, got, late, cut>>

-----------------------------------------------------------------------------
(* The reader.                                                             *)

Clamp(n, cap) == IF n < 1 THEN 1 ELSE IF n > cap THEN cap ELSE n

Limit(c)      == Clamp(Asked[c], WatchCap)

\* get_events has a tighter limit of its own.
StoreLimitTight(c) == 1

StoreLimit(c) == Clamp(Limit(c), StoreCap)

\* since_timestamp is exclusive.
MatchingAfter(c) ==
  {r \in rows : /\ Topic[c] # None => r.topic = Topic[c]
                /\ since[c] # NoToken => r.ts > since[c]}

\* The WHERE clause of get_events for c's call.
Matching(c) ==
  {r \in rows : /\ Topic[c] # None => r.topic = Topic[c]
                /\ since[c] # NoToken => r.ts >= since[c]}

\* ORDER BY timestamp DESC LIMIT: the newest rows, any of those of equal age.
Newest(S, n) ==
  {B \in SUBSET S : /\ Cardinality(B) = IF Cardinality(S) < n THEN Cardinality(S) ELSE n
                    /\ \A b \in B, r \in S \ B : b.ts >= r.ts}

\* The filter that watch applies to what get_events returned.
OfEntity(c, B) == {r \in B : EntityId[c] # None => r.entity = EntityId[c]}

\* stored[-1].
FirstOldest(A) == {r \in A : \A x \in A : r.ts <= x.ts}

\* stored[0]: a newest event of the answer.
First(A) == {r \in A : \A x \in A : r.ts >= x.ts}

\* watch: the answer, and the token for the next call, which stays the same if
\* there is nothing in the answer.
Poll(c) ==
  \E B \in Newest(Matching(c), StoreLimit(c)) :
    LET A == OfEntity(c, B) IN
    /\ answer' = [answer EXCEPT ![c] = A]
    /\ got' = [got EXCEPT ![c] = @ \cup A]
    /\ cut' = [cut EXCEPT ![c] = @ \cup (Matching(c) \ B)]
    /\ \/ A = {} /\ UNCHANGED since
       \/ \E r \in First(A) : since' = [since EXCEPT ![c] = r.ts]
    /\ UNCHANGED <<clock, counter, flight, rows, late>>

-----------------------------------------------------------------------------
Next ==
  \/ Tick
  \/ \E p \in Publishers : Stamp(p) \/ Insert(p) \/ InsertFails(p)
  \/ \E s \in Servers : Restart(s)
  \/ \E c \in Clients : Poll(c)

Spec == Init /\ [][Next]_vars

-----------------------------------------------------------------------------
(* Properties.                                                             *)

\* What c asks for.
Wanted(c, r) ==
  /\ Topic[c] # None => r.topic = Topic[c]
  /\ EntityId[c] # None => r.entity = EntityId[c]

\* What c asks for, was never sent, and no further call of c will return.
Lost(c) == {r \in rows \ got[c] : Wanted(c, r) /\ r.ts < since[c]}

\* The hand-over of the token loses nothing by itself (storage.py:206-208,
\* watch.py:55): an event that a client has passed without being sent it was
\* either inserted behind the token or left out for the limit of a call.  In
\* particular, rows with the very time of the token are asked for again.
LossHasCause == \A c \in Clients : Lost(c) \subseteq late[c] \cup cut[c]

\* A client without an entity filter can tell that it may have lost events
\* (watch.py:44-49, storage.py:217): an answer that leaves rows out has as many
\* events as the client asked for, after the clamp that watch documents.
CutShows ==
  [][\A c \in Clients : EntityId[c] = None /\ cut'[c] # cut[c]
                          => Cardinality(answer'[c]) = Limit(c)]_vars

\* A resumed client sees an event twice only if the event bears the very time
\* of its token (storage.py:207, watch.py:55): older ones never come back.
RepeatsAtToken ==
  [][\A c \in Clients : answer'[c] # answer[c]
       => \A r \in answer'[c] \cap got[c] : r.ts = since[c]]_vars

\* README.md:265: "event journal with resumption tokens and filtered replay":
\* a client that resumes from its token misses nothing it asks for.
ResumptionComplete == \A c \in Clients : Lost(c) = {}

=============================================================================

------------------------------ MODULE QueryCache ------------------------------
(***************************************************************************)
(* The two-tier result cache of mcp_server/cache.py and the tool handlers  *)
(* of mcp_server/mcp_server.py that read, fill and invalidate it.          *)
(*                                                                         *)
(* The first tier is a dictionary guarded by one lock; the second is the   *)
(* table query_cache of a SQLite file (mcp_server/storage.py).  No lock    *)
(* spans the two tiers, so every method of the cache is a sequence of      *)
(* atomic steps: one critical section of the dictionary's lock, or one SQL *)
(* statement.  The tools that use the cache run in the worker threads of   *)
(* contracts/batch.py, in the executor of the asynchronous ingestion jobs  *)
(* and in the event loop, hence in any interleaving of these steps.        *)
(*                                                                         *)
(* Data abstraction: the payload of an answer is the version of the graph  *)
(* it was computed from.  Every write to the graph makes a new version.    *)
(***************************************************************************)
EXTENDS Integers, FiniteSets

CONSTANTS
  Threads,     \* threads that run tool handlers
  Keys,        \* cache keys, the results of make_key
  Graphs,      \* graph ids
  Default,     \* the graph id "default"
  GraphOf,     \* GraphOf[k]: the graph_id that k's caller passes to set
  TTL,         \* default_ttl, in clock ticks
  MaxSize,     \* max_size, the capacity of the first tier
  MaxClock,    \* bound: the clock stops there
  MaxVersion,  \* bound: so many writes to the graph
  MaxBoots,    \* bound: so many boots of the machine after the first
  Readings,    \* what the clock may read when the server comes up after a boot
  None         \* no entry; as the scope of an invalidation: graph_id is None

Scopes == Graphs \cup {None}

Entry == [ts : Nat, graph : Graphs, data : Nat, born : Nat, boot : Nat]
Row   == [created : Nat, graph : Graphs, data : Nat, boot : Nat]
Job   == [key : Keys \cup {None}, scope : Scopes, now : Nat, data : Nat, born : Nat, boot : Nat]

NoJob == [key |-> None, scope |-> None, now |-> 0, data |-> 0, born |-> 0, boot |-> 0]

ASSUME CacheConstants ==
  /\ TTL \in Nat
  /\ MaxSize \in Nat \ {0}
  /\ MaxClock \in Nat
  /\ MaxVersion \in Nat
  /\ MaxBoots \in Nat
  /\ Readings \subseteq Nat
  /\ Default \in Graphs
  /\ GraphOf \in [Keys -> Graphs]
  /\ None \notin Keys \cup Graphs \cup Threads
  /\ None \notin Entry
  /\ None \notin Row

VARIABLES
  clock,    \* time.monotonic(): only within a boot does it measure time
  boot,     \* history: the number of the boot
  version,  \* the version of the graph
  memory,   \* _memory: ts is the timestamp the code keeps; born and boot, kept for
            \* the properties alone, tell when set stored the payload
  rows,     \* the table query_cache; boot is kept for the properties
  pc,       \* the next step of each thread
  job,      \* the local variables of each thread
  floor,    \* history: floor[s] is the version of the graph at the last
            \* invalidation of scope s that no other thread overlapped
  alone     \* history: the invalidating thread that nobody has overlapped yet, if
            \* its scope is one the properties speak of (Default or None)

vars == <<clock, boot, version, memory, rows, pc, job, floor, alone>>

Steps == {"idle", "readRow", "deleteRow", "promote", "retrieve", "setMemory",
          "setRow", "clearMemory", "clearRows"}

TypeOK ==
  /\ clock \in Nat
  /\ boot \in Nat
  /\ version \in Nat
  /\ memory \in [Keys -> Entry \cup {None}]
  /\ rows \in [Keys -> Row \cup {None}]
  /\ pc \in [Threads -> Steps]
  /\ job \in [Threads -> Job]
  /\ \A t \in Threads :
       pc[t] \in Steps \ {"idle", "clearMemory", "clearRows"} => job[t].key \in Keys
  /\ \A t \in Threads : pc[t] = "clearRows" => job[t].scope \in Graphs
  /\ floor \in [Scopes -> Nat]
  /\ alone \in Threads \cup {None}

Init ==
  /\ clock = 0
  /\ boot = 0
  /\ version = 0
  /\ memory = [k \in Keys |-> None]
  /\ rows = [k \in Keys |-> None]
  /\ pc = [t \in Threads |-> "idle"]
  /\ job = [t \in Threads |-> NoJob]
  /\ floor = [s \in Scopes |-> 0]
  /\ alone = None

-----------------------------------------------------------------------------
(* The state of the two tiers.                                             *)

\* Age checks: an entry is good until it is older than its time to live.
FreshEntry(e) == e # None /\ clock - e.ts <= TTL
FreshRow(r)   == r # None /\ clock - r.created <= TTL

\* The keys that the first tier holds, good or expired.
Held == {k \in Keys : memory[k] # None}

\* The entries min() may pick as the victim of an eviction.
Oldest == {k \in Held : \A x \in Held : memory[k].ts <= memory[x].ts}

\* What a lookup of k made now answers from the cache.
Answers(k) ==
  IF FreshEntry(memory[k])
    THEN {[data |-> memory[k].data, born |-> memory[k].born, boot |-> memory[k].boot]}
    ELSE IF FreshRow(rows[k])
      THEN {[data |-> rows[k].data, born |-> rows[k].created, boot |-> rows[k].boot]}
      ELSE {}

OthersIdle(t) == \A u \in Threads \ {t} : pc[u] = "idle"

Finish(t) ==
  /\ pc' = [pc EXCEPT ![t] = "idle"]
  /\ job' = [job EXCEPT ![t] = NoJob]

-----------------------------------------------------------------------------
(* graphrag_search: QueryCache.get, the retrieval, QueryCache.set.          *)

\* (LookupUnbound, PromoteLate and ClearRowsNever are not the code: they are
\* wrong variants of the action below each of them, one for each property.)
LookupUnbound(t, k) ==
  /\ pc[t] = "idle"
  /\ ~FreshEntry(memory[k])
  /\ memory' = [memory EXCEPT ![k] = None]
  /\ pc' = [pc EXCEPT ![t] = "readRow"]
  /\ UNCHANGED <<clock, boot, version, rows, job, floor, alone>>

\* get, first critical section, when it does not hit: an expired entry is
\* deleted and the lookup goes on to the second tier, keeping the time at
\* which it began.  (A hit returns the entry and changes nothing else.)
LookupMemory(t, k) ==
  /\ pc[t] = "idle"
  /\ ~FreshEntry(memory[k])
  /\ memory' = [memory EXCEPT ![k] = None]
  /\ pc' = [pc EXCEPT ![t] = "readRow"]
  /\ job' = [job EXCEPT ![t] = [NoJob EXCEPT !.key = k, !.now = clock]]
  /\ alone' = None
  /\ UNCHANGED <<clock, boot, version, rows, floor>>

\* cache_get: the SELECT, and the age check on the row it returned.  Only a
\* promotion needs the time at which the lookup began any more.
ReadRow(t) ==
  LET r == rows[job[t].key] IN
  /\ pc[t] = "readRow"
  /\ \/ /\ r = None
        /\ pc' = [pc EXCEPT ![t] = "retrieve"]
        /\ job' = [job EXCEPT ![t].now = 0]
     \/ /\ r # None /\ ~FreshRow(r)
        /\ pc' = [pc EXCEPT ![t] = "deleteRow"]
        /\ job' = [job EXCEPT ![t].now = 0]
     \/ /\ FreshRow(r)
        /\ pc' = [pc EXCEPT ![t] = "promote"]
        /\ job' = [job EXCEPT ![t].data = r.data, ![t].born = r.created, ![t].boot = r.boot]
  /\ UNCHANGED <<clock, boot, version, memory, rows, floor, alone>>

\* cache_delete of the expired row: a statement of its own, by key, so it
\* removes whatever row is there by now.
DeleteRow(t) ==
  /\ pc[t] = "deleteRow"
  /\ rows' = [rows EXCEPT ![job[t].key] = None]
  /\ pc' = [pc EXCEPT ![t] = "retrieve"]
  /\ UNCHANGED <<clock, boot, version, memory, job, floor, alone>>

\* get, second critical section: the row's payload enters the first tier with
\* a full time to live, counted from the time the lookup began.  The payload
\* does not name its graph, so the entry is filed under Default.  There is no
\* check of max_size here.
PromoteLate(t) ==
  /\ pc[t] = "promote"
  /\ memory' = [memory EXCEPT ![job[t].key] =
       [ts |-> clock, graph |-> Default, data |-> job[t].data,
        born |-> job[t].born, boot |-> job[t].boot]]
  /\ Finish(t)
  /\ UNCHANGED <<clock, boot, version, rows, floor, alone>>

Promote(t) ==
  /\ pc[t] = "promote"
  /\ memory' = [memory EXCEPT ![job[t].key] =
       [ts |-> job[t].now, graph |-> Default, data |-> job[t].data,
        born |-> job[t].born, boot |-> job[t].boot]]
  /\ Finish(t)
  /\ UNCHANGED <<clock, boot, version, rows, floor, alone>>

\* STATE.retrieval.search: the payload is computed from the present graph.
Retrieve(t) ==
  /\ pc[t] = "retrieve"
  /\ job' = [job EXCEPT ![t].data = version]
  /\ pc' = [pc EXCEPT ![t] = "setMemory"]
  /\ UNCHANGED <<clock, boot, version, memory, rows, floor, alone>>

\* set, critical section: when the tier is full its oldest entry goes, even if
\* the key is already there; the new entry is good for TTL from now.
SetMemory(t) ==
  LET k == job[t].key
      new == [ts |-> clock, graph |-> GraphOf[k], data |-> job[t].data, born |-> clock, boot |-> boot]
  IN
  /\ pc[t] = "setMemory"
  /\ \E victim \in IF Cardinality(Held) >= MaxSize THEN Oldest ELSE {None} :
       memory' = [x \in Keys |->
         IF x = k THEN new ELSE IF x = victim THEN None ELSE memory[x]]
  /\ pc' = [pc EXCEPT ![t] = "setRow"]
  /\ UNCHANGED <<clock, boot, version, rows, job, floor, alone>>

\* cache_set: INSERT OR REPLACE.  set swallows an error of the statement, and
\* the handler returns the payload either way.
SetRow(t) ==
  LET k == job[t].key IN
  /\ pc[t] = "setRow"
  /\ \/ rows' = [rows EXCEPT ![k] =
           [created |-> clock, graph |-> GraphOf[k], data |-> job[t].data, boot |-> boot]]
     \/ UNCHANGED rows
  /\ Finish(t)
  /\ UNCHANGED <<clock, boot, version, memory, floor, alone>>

\* An exception of cache_get or of the retrieval ends the handler.
SearchFails(t) ==
  /\ pc[t] \in {"readRow", "deleteRow", "retrieve"}
  /\ Finish(t)
  /\ UNCHANGED <<clock, boot, version, memory, rows, floor, alone>>

-----------------------------------------------------------------------------
(* graphrag_ingest, graphrag_delete_document: a write, then invalidate().   *)

\* construction.ingest or delete_document changes the graph; then the handler
\* goes on to invalidate(), unless the call raised after part of its writes.
WriteGraph(t) ==
  /\ pc[t] = "idle"
  /\ version < MaxVersion
  /\ version' = version + 1
  /\ \/ /\ pc' = [pc EXCEPT ![t] = "clearMemory"]
        /\ alone' = IF OthersIdle(t) THEN t ELSE None
     \/ /\ UNCHANGED pc
        /\ alone' = None
  /\ UNCHANGED <<clock, boot, memory, rows, job, floor>>

\* The handlers of server.py write to the same graph in another process and
\* do not touch the cache.
ServerWrite ==
  /\ version < MaxVersion
  /\ version' = version + 1
  /\ UNCHANGED <<clock, boot, memory, rows, pc, job, floor, alone>>

\* A library caller asks for invalidate(graph_id = g).
RequestInvalidate(t, g) ==
  /\ pc[t] = "idle"
  /\ pc' = [pc EXCEPT ![t] = "clearMemory"]
  /\ job' = [job EXCEPT ![t] = [NoJob EXCEPT !.scope = g]]
  /\ alone' = IF g = Default /\ OthersIdle(t) THEN t ELSE None
  /\ UNCHANGED <<clock, boot, version, memory, rows, floor>>

\* History only: an invalidation ends; if nobody overlapped it, it vouches for
\* the version of the graph it ran at.
Vouch(t, s) == floor' = IF alone = t THEN [floor EXCEPT ![s] = version] ELSE floor
Leave(t)    == alone' = IF alone = t THEN None ELSE alone

\* invalidate, critical section.  Without a graph id it clears the first tier
\* and is done; with one it removes the entries filed under that graph and
\* goes on to the second tier.
ClearMemory(t) ==
  LET s == job[t].scope IN
  /\ pc[t] = "clearMemory"
  /\ \/ /\ s = None
        /\ memory' = [k \in Keys |-> None]
        /\ Finish(t)
        /\ Vouch(t, s)
        /\ Leave(t)
     \/ /\ s # None
        /\ memory' = [k \in Keys |->
             IF memory[k] # None /\ memory[k].graph = s THEN None ELSE memory[k]]
        /\ pc' = [pc EXCEPT ![t] = "clearRows"]
        /\ UNCHANGED <<job, floor, alone>>
  /\ UNCHANGED <<clock, boot, version, rows>>

\* cache_clear_for_graph: one DELETE, whose error invalidate swallows.
ClearRowsNever(t) ==
  /\ pc[t] = "clearRows"
  /\ Vouch(t, job[t].scope)
  /\ Finish(t)
  /\ Leave(t)
  /\ UNCHANGED <<clock, boot, version, memory, rows>>

ClearRows(t) ==
  LET g == job[t].scope IN
  /\ pc[t] = "clearRows"
  /\ \/ /\ rows' = [k \in Keys |->
             IF rows[k] # None /\ rows[k].graph = g THEN None ELSE rows[k]]
        /\ Vouch(t, g)
     \/ UNCHANGED <<rows, floor>>
  /\ Finish(t)
  /\ Leave(t)
  /\ UNCHANGED <<clock, boot, version, memory>>

-----------------------------------------------------------------------------
(* The environment.                                                        *)

Tick ==
  /\ clock < MaxClock
  /\ clock' = clock + 1
  /\ UNCHANGED <<boot, version, memory, rows, pc, job, floor, alone>>

\* The server process ends and is started again, on the machine as it was or
\* after a boot: the first tier and the threads are gone, the SQLite file is not.
\* A boot gives time.monotonic() another reference point, so the times in the rows
\* are compared with readings they have nothing to do with.
Restart ==
  /\ \/ UNCHANGED <<clock, boot>>
     \/ /\ boot < MaxBoots
        /\ boot' = boot + 1
        /\ clock' \in Readings
  /\ memory' = [k \in Keys |-> None]
  /\ pc' = [t \in Threads |-> "idle"]
  /\ job' = [t \in Threads |-> NoJob]
  /\ alone' = None
  /\ UNCHANGED <<version, rows, floor>>

Next ==
  \/ \E t \in Threads, k \in Keys : LookupMemory(t, k)
  \/ \E t \in Threads, g \in Graphs : RequestInvalidate(t, g)
  \/ \E t \in Threads :
       \/ ReadRow(t) \/ DeleteRow(t) \/ Promote(t) \/ Retrieve(t)
       \/ SetMemory(t) \/ SetRow(t) \/ SearchFails(t)
       \/ WriteGraph(t) \/ ClearMemory(t) \/ ClearRows(t)
  \/ ServerWrite \/ Tick \/ Restart

Spec == Init /\ [][Next]_vars

-----------------------------------------------------------------------------
(* Properties.                                                             *)

\* A lookup answered from the cache never returns a payload that was stored
\* more than twice the time to live ago, in the boot it was stored in.  One TTL
\* would be the naive bound: get gives a row it promotes a second full TTL, but
\* counts it from a clock reading taken before the row was read, so the two spans
\* are all there is.  After another boot no bound on the age is left: what is sure
\* is that the answer is gone two TTL after the clock reads what it read then.
StalenessBound ==
  \A k \in Keys : \A a \in Answers(k) :
    IF a.boot = boot THEN clock - a.born <= 2 * TTL
    ELSE clock <= a.born + 2 * TTL

\* invalidate(graph_id) flushes both tiers: once such a call for the default
\* graph has run with no lookup overlapping it, no cached answer of that graph
\* predates it, whatever lookups, writes and restarts follow.
FlushHolds ==
  \A k \in Keys : GraphOf[k] = Default =>
    \A a \in Answers(k) : a.data >= floor[Default]

\* What the module's docstring promises of the tools that mutate the graph
\* ("automatic invalidation when graph mutations occur"): once a mutating tool
\* has returned, no cached answer predates its write.  invalidate() without a
\* graph id leaves the rows of the second tier in place, so the next lookup
\* promotes one computed before the write.
MutationInvalidates ==
  \A k \in Keys : \A a \in Answers(k) : a.data >= floor[None]

=============================================================================

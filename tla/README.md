# A TLA+ verification project for graphrag-protocol

This directory models the parts of `graphrag-protocol` whose correctness hangs on the order in
which things happen: shared state without a common lock, calls of a backend that fail half-way,
processes that restart over a database that does not, caches that outlive what they hold. Each
component has a module that follows the source step by step, runs of TLC on small instances, and
theorems that TLAPS checks for every value of the constants.

    tlasany M.tla                                   parse a module
    tlc -workers 2 -config MCx.cfg MCx.tla          a run
    tlapm X_proofs.tla                              the proofs of a component

Paths below are relative to the repository (`src/`); `contracts/` stands for
`src/mcp_server/contracts/`.

## 1. The system

Two server processes offer a knowledge graph of papers: `mcp_server.py` (tools of the Model Context
Protocol) and `server.py` (HTTP, with a stream of server-sent events). Both keep lazily built
singletons: the backend's adapter, and one object per *contract*. By default they share one SQLite
file (`storage.py`) and, if so configured, one backend, but no memory.

**Where concurrency comes from.** FastAPI runs the synchronous handlers of `server.py` in a pool of
threads and the event stream in the event loop. In `mcp_server.py` the batch tool runs up to 8 tools
at once in threads (`contracts/batch.py`), asynchronous ingestion runs in an executor
(mcp_server.py:693-710), and everything else in the event loop. The federation contract has a pool
of its own per request. Hence every method of a contract, of the cache and of the storage may run in
several threads at once; each of them is atomic only as far as its own lock, one SQL statement, one
dictionary operation or one call of the backend reaches.

### Inventory

| Component | State | Operations | What makes it hard | What makes it correct |
|---|---|---|---|---|
| Query cache (`cache.py`, `storage.py`, search/ingest/delete tools) | dictionary under a lock; table `query_cache` | get, set, invalidate | no lock spans the two tiers; a promoted row starts a new time to live; rows survive restarts, and their times a boot | bounded staleness within a boot; a flush holds; writes invalidate |
| Event bus and log (`contracts/streaming.py`, `storage.py`, `/v1/events`) | counter, bounded history, a queue per client; table `event_log` | emit, publish_update, subscribe | publishers' threads against the loop, on queues that have no lock; hand-over from history to live; overflow; restart | no gap but at a full queue, order per publisher, log complete and append-only, eventual delivery |
| Construction (`contracts/construction.py`) | the graph itself, in the backend | ingest, update, delete_document, report and events | no transaction; every call may fail, most failures are swallowed; requests overlap; probes go stale; ids are stripped here and not there | insert-only really inserts, retry repairs, reports, events and dry runs are true |
| Federation (`contracts/federation.py`) | `_registered`: adapters by name | register, resolve, fan-out, merge, entity link | check-then-act on a shared dictionary in many threads; partial failure; ranking with ties and rounding | bound on connections, no backend lost, another graph answers only under a name used for it, merge respects agreement |
| Ingestion jobs (mcp_server.py:660-710, `storage.py`) | table `jobs` | start, run, poll | crash while running; failures that ingest swallows; status saved before the cache is invalidated | every job ends; completed means been through all its documents |
| Watch (`contracts/watch.py`) | none (cursor kept by the client) | poll | LIMIT before filter, newest first, equal timestamps | a client that follows its cursor misses nothing |
| Batch (`contracts/batch.py`) | results by index | run | failures, order of results | result i belongs to call i; all calls answered |
| Rate limiter (`rate_limiter.py`) | timestamps per client, under a lock | check | the clock is read before the lock; a limit of zero | at most max calls per window |
| Agent harness (`agent_harness.py`) | local to a call | investigate | strategy switches in a loop with a budget and a target | ends; keeps within max_steps |
| Retrieval routing (`contracts/retrieval.py`) | none | search | fall-backs between modes | a mode is always chosen; fall-backs end |
| Authorization (`contracts/authorization.py`) | the role table and the admin token; capability tokens are signed and kept by the client | issue, verify, check, require | expiry between check and use; several ways to a role | an expired token is refused; a token permits its operations only |
| TigerGraph adapter (`adapters/`) | connection, flag of the installed queries; the queries themselves in the server | install, seven retrieval operations | two threads install; a server that loses its queries; an expansion cut at a depth and searched afterwards | an answer is empty for want of the server only if a request failed; shortest paths found |
| Schema discovery (`contracts/schema_discovery.py`) | cached schema, time to live | discover | stale while the schema changes | bounded staleness |
| Diff, temporal, provenance, conflicts, ... (`contracts/`) | none | pure functions | ties, boundaries | agree with their definitions |
| Evaluation and pipelines (`pipelines.py`, `contracts/evaluation.py`) | none | run_pipelines, evaluate_report | retries with back-off, a query that raises | every row ends |
| Formatters | none | render in a token budget | trimming order | budget kept |
| Hackathon scripts (`hackathon/scripts`) | `papers.jsonl`, the graph | download, build, backfill | failures, a missing key, a short answer are printed or passed over; a page shifts under the download; runs over what others left | an undisturbed run does its work; what is wrong in the graph has a cause |
| Frontend, examples, benchmarks | - | - | presentation | - |

How they interact: a search reads the cache and fills it after a retrieval; ingest and delete write
through Construction, then invalidate the cache (in `mcp_server.py`; `server.py` does not) and
publish events on the bus (bound to a loop in `server.py` alone), which the log keeps and Watch reads
back; Federation and Retrieval use the same adapters as Construction. The hazards these parts are
exposed to are listed one by one, each at its line, in `PROJECT.json`.

## 2. The modules

### QueryCache
`memory` is the dictionary, `rows` the table, `pc` and `job` say where each thread is and what its
locals hold. Each action is one critical section of the lock or one SQL statement:
`LookupMemory`, `ReadRow`, `DeleteRow`, `Promote`, `SetMemory`, `SetRow`, `ClearMemory`, `ClearRows`.
`Retrieve` and `WriteGraph` are the tools' work between them; `ServerWrite` is the other process,
which writes to the graph and not to the cache. `clock` is `time.monotonic()`, whose readings the rows
persist (storage.py:244-257, 270-278). `Restart` empties the first tier alone, and may come with a boot
of the machine: then the clock goes on at any of `Readings`, and the times in the rows are compared with
readings they have nothing to do with. A payload is abstracted to the version of the graph it was
computed from, and carries its `born` time and `boot`. `floor` and `alone` are history variables: which
version the last undisturbed flush vouches for.

### EventBus
Publishers are threads (`TakeId`, `Retain`, `Persist`, `Route`). When no loop is bound they deliver
themselves, otherwise they leave a callback that `Deliver` starts on the `Loop`; both are
*couriers*, and both `Carry` their event through `_deliver`: each call of an `asyncio.Queue` is one
step (`TryPut`, and at a full queue `Evict` and `Retry`), since no lock protects the queues from a
publisher's thread. `Miss` is `except (QueueEmpty, QueueFull): continue`, which loses the *new*
event: another courier filled the room made for it, or the client emptied the queue before room was
made. Subscribers are generators on the one loop: `LoopFree` says that nothing else of the loop runs
before a callback has ended or a generator has come to its next await, while publishers' threads
may. `Restart` keeps the table and starts the counter from one. `dropped`, `missed`, `crossed` (the
clients at whose queues a publisher's own thread has been) and `stored` are history variables.
`AuditLog` says what a trail promises whoever writes it; `EventBus` implements it with the table
(`Trail == INSTANCE AuditLog`), restarts included.

### Construction
One action per call of the backend, in the code's order: probes (`ProbeUpdate`, `ProbeObject`,
`ProbePaper`, `ProbeDelete`), writes (`DropEdges`, `UpsertPaper`, `UpsertObject`, `UpsertEdge`,
`RemoveDoc`), and the accounting (`Account`, `Emit`). Every call may fail, and each failure does
what the code does with it: a failed probe reads as "absent", a failed upsert is counted and
skipped; a document without an id, or whose extraction raises, is skipped (`RejectDoc`), and one
whose attributes cannot be converted ends the request with an exception (`Abort`). An id may be
given with blanks around it (`Padded`): update, upsert and delete use it as it was given, while
probes, edges and report use what `Strip` leaves of it. A dry run (`dry`) probes and counts
(`Foresee`) and writes nothing, but that of an update drops the document's edges all the same. The
backend is external and modelled from how it is used: upserts by id, edges that create their missing
ends, deletions that take the edges along.

### Federation
`registry` is `_registered`; `_resolve` is a sequence of its dictionary operations (`Lookup`,
`Fetch`, `Reuse`, `CheckBound`, `ListKeys`, `Inspect`, `Delete`, `Build`), since nothing locks it. A
search runs its references in `MaxWorkers` threads (`Width`, `Start`), an entity link one by one;
opening and searching a backend may fail, and reading a name that was evicted meanwhile raises a
KeyError (outcome `raced`). `given` remembers which graphs a name was registered with, and
`Brought(n, g)` says that the name was used for g, by a registration or by a reference resolved
under it. `MergedEntities` is `_merge` for entities: rank or weighted scores, summed (`Total`),
rounded, sorted stably and cut (`Sorted`: the element at a position is the one that so many others
precede). Scores are integers; rounding is downwards instead of to nearest, which preserves what the
properties use of it (it is monotone and creates ties).

### Watch
The rows of the event log, the events that publishers of two servers have stamped and not yet
inserted (`flight`), and what each client holds: its token (`since`), its last `answer`, all it `got`.
`Stamp` and `Insert` are the two ends of `emit`, between which other publishers and clients run;
`Insert` ignores a known event id, as the key of the table does. `Poll` is one call of `watch`, whose
single SQL statement makes it atomic: `Matching` is the WHERE clause, `Newest` the order and the
limit (rows of one time in any order), `OfEntity` the filter behind the limit, `First` the row the
next token is taken from. `late` and `cut` are history variables, the two ways to miss a row.
A graph id and an event type filter in the same place and are one topic.

### ToolServer
`GraphRAGState`, `graphrag_batch` and the jobs of `mcp_server.py`. A `frame` says where each runner
(a thread of the batch's pool, or the worker of a job) is and what its locals hold. The lazy getters
are one step per test and per assignment (`GetContract`, `GetAdapter`, `Probe`, `Publish`, `Build`),
since nothing locks them; a search is `Lookup`, `LookupRow`, `Retrieve`, `Fill`, `Store`; a mutation
`WriteDoc` or `RemoveDoc` and `Flush`; a job `Launch`, `WriteDoc`, `Save`, `Flush`, `Fail`. It
composes what QueryCache and Construction model in detail, each cut down to what the composition
needs: one cached answer, with the set of documents it was computed from, and documents written one
by one. A failed upsert does not raise: `WriteDoc` goes on, the document is `listed` in the report
as written, and the tool or job ends as if it were; a refused document is skipped in silence. Over
the demo adapter ingestion raises, as a call of SQLite may. A deletion that fails is an entry of its
report, and the flush follows. `unwritten` (reported as written and not in the graph), `gaps` (what
was unwritten when an answer was computed), `flaws`, `raced`, `lost` and `tried` are history
variables: the ways a search can miss a document, the contracts come apart, or a job stay "running",
and what a job has been through. `JobBoard` is the abstract specification of the jobs table
(`Accept`, `Try`, `End`): a job is "completed" only when it has been through all of its documents,
which does not say that each was written. `ToolServer` implements it (`Board == INSTANCE JobBoard`).

### TigerGraph and Answering
`TigerGraph` is the adapter over an external server, given by the queries `installed` in it and a
constant graph. A thread's `frame` goes through `_run`: `Run`, `Probe`, `Replace`, `Install`,
`Rerun`, `Fallback`; `ready` is the flag the threads share. What each operation makes of its query's
result is an operator on the graph (`Expand`, `LocalAnswers`, `VectorHits`, `Merges`, `PathAnswers`,
`Community`, ...), a set of answers where the code leaves an order open. `Reset` is the server that
loses its queries. `Answering` EXTENDS it with everything that asks it: the clamps and the routing
of `contracts/retrieval.py` (`Local`, ..., `Classify`, `Routed`), the tools, the investigation of
`agent_harness.py` (`Link`, `Move`, `Advanced`, `Pursue`), `run_pipelines` and `evaluate_report`. A
`task` is where a thread is in one of them. Cosines are compared by their squares, percentages are
integers, a text is the set of its words, and a path its length.

### GraphLoad
The scripts that fill the graph. `script` is the one that runs: its stage, the papers it holds and
the `jobs` it has left, the batches in the order its `main` sends them (`BuildJobs`,
`BackfillJobs`); `Upsert` sends one, and a failed one may have stored any part of itself
(`atomic=False`). `opts` are the options that decide what a normal end means: with `min-tokens` the
download saves the long papers alone (`Saved`); without a `key` an embedding build and a backfill
have no vectors to make and end normally. A failed embedding drops the jobs that remain, which is
"continue without embeddings" in a build and an exception in a backfill. An answer with fewer
embeddings than texts (`EmbedShort`) is cut to the papers it has in a build, whose `zip` is not
strict, and raises in a backfill, whose `zip` is; it is assumed to answer the first texts of its
batch. `Submit`, `Revise` and `Delete` are arXiv and the MCP server going on meanwhile. `lapses` is
a ledger of what a paper suffered since its last good upsert. `DefectHasCause` speaks of a graph
that these scripts alone have written: ingestion, updates and the stubs of citations of the MCP
server are other sources of the same defects, and are Construction's matter.

## 3. The runs

| Run | Shows | Bounds, and why they are enough |
|---|---|---|
| `query_cache` | answers are at most 2 TTL old within a boot, and judged by the clock of the present one across boots; an undisturbed flush by graph id holds | 2 threads, 2 keys in 2 graphs, room for 1 entry, TTL 1, clock to 3, 1 write, 1 boot after which the clock starts from 1, behind the times of some rows: promotion after expiry, eviction, a lookup across a flush, a restart and a boot all happen; the worst age, 2 TTL, is reached |
| `query_cache_stale` | **violated**: `MutationInvalidates` | same instance |
| `event_bus` | no gap in the hand-over but at a full queue, a new event given up only where a publisher's own thread has been, order per publisher, the log implements an audit trail and is complete in the first run, every other event due is delivered | 2 publishers, a client with replay and one without, history and queue of one, 3 events and then 1 in 2 runs, an insert that fails: both overflow, both ways of delivery race on one queue, and a new event is lost in either of the two ways |
| `event_bus_audit` | **violated**: `LogComplete` | same instance as `event_bus` |
| `construction` | reports, events and effects of ingest, update and delete, what a dry run foretells | 2 workers, 2 requests in any overlap, 1 failure anywhere; a document cites another, one cites itself, one names an author twice, a batch of two, an id with blanks, dry runs; an empty graph, one with a stored document that cites itself, or one with a Paper under a padded id, whose links went to the other id and with it |
| `construction_events` | **violated**: `EventsAreReal` | same instance |
| `federation` | the bound, lost backends, when another graph answers, unanimity of the merge | 2 requests of 2 references, 2 threads each, room for 1 backend, 3 names, one of which is the primary's and one registered meanwhile and asked for with two graphs, as an entity link and a federated search do; rankings that disagree, ties after rounding, a list that is cut |
| `watch` | what a client can miss, how it can tell, what comes twice | 2 servers with one publisher each, 2 instants, 3 events by a run of a server; a client of one topic with a limit of 2 (so 3 rows overflow it), a client of one entity that asks for 0 and gets the least limit, 1 |
| `watch_resume` | **violated**: `ResumptionComplete` | same instance |
| `tool_server` | why a search misses a document that was reported as written, when the contracts come apart, that jobs keep to `JobBoard` and end | 2 pool threads and a job over 2 documents, 1 failure (swallowed or raised), 1 mutation by the other server, 1 restart; batches that search beside an ingestion, a deletion and a job, and that build the contracts at once |
| `answering` | when an answer is empty for want of the server, what path_search finds, that every task ends | 2 threads; 2 papers that share a concept, one with an author, and the vector of a deleted paper; 1 failure, 1 loss of the queries; the harness with its own 5 steps and target of 85 %: every strategy and every operation is reached. Two tool calls run beside each other, longer tasks alone, since tasks meet in the adapter only |
| `graph_load` | an undisturbed download, build or backfill does its work; what is wrong in the graph has a cause | 3 papers, 2 revisions and a withdrawn one, pages and batches of 2 (so that each has a last, shorter one), 4 runs of the scripts with and without `--min-tokens` and a key, 1 failure or short answer, 2 edits from outside: download, build, revise, download, build again |

`MaxClock`, `MaxVersion`, `MaxBoots`, `MaxEvents`, `MaxRuns`, `MaxCalls`, `MaxFaults`, `MaxRefs`,
`MaxBatches`, `MaxOthers`, `MaxCrashes`, `MaxTasks`, `MaxResets` and `MaxEdits` are bounds on
otherwise unbounded counters or inputs, `Readings` and `Failing` choose among them (what the clock
reads after a boot, which events' inserts may fail); each is named in its module's CONSTANTS. Where
a configuration switches deadlock checking off, the system may really come to rest: nobody has to
publish, connect or send a request, and the bounded requests may all have been served. In QueryCache
a restart is always possible and the check stays on. Symmetry is declared over threads, publishers
(in Watch together with their servers), workers or requests, which no constant tells apart, and
never in a run with liveness.

**Fairness.** `event_bus` assumes weak fairness of each publisher's remaining steps (a running thread
goes on), of the loop's callbacks and of each generator's resumption. The latter two are what asyncio
promises; the wait for the queue ends at least every 15 seconds (server.py:322-346). `tool_server`
assumes it of the pool's threads, of the jobs' workers and of the end of a batch, `answering` of a
thread that serves a task: threads of a running process go on, and every call they wait for has a
timeout or is bounded. Nobody is assumed to publish, connect, send, restart or fail.

### What disagrees with the documentation
Four statements of the repository do not hold of the code, each shown by a run of its own:

1. Cache (`query_cache_stale`): tools that mutate the graph call `invalidate()` without a graph id,
   which leaves the second tier; the next lookup promotes a row from before the write.
2. Event log (`event_bus_audit`): event ids start again in every process and the insert is
   `OR IGNORE`, so a restarted process's first events are missing from the "audit trail".
3. Events (`construction_events`): a document whose upsert failed is reported as created, and an
   event says so.
4. Watch (`watch_resume`): the README offers "resumption tokens and filtered replay"; a client that
   resumes from `latest_timestamp` never gets a row that the limit cut off, or that was stamped
   before the token and inserted after it.

In the following places the code departs from its documentation as well. The properties named say what is
left, exclude exactly the case, and a comment at each says so; there is no run of its own for these.

* *Time to live across boots.* Rows persist `time.monotonic()` (storage.py:244-257, 270-278), whose
  origin changes with a boot. After one, a time to live bounds no true age: an old row can look fresh for
  as long as the clock takes to reach it. `StalenessBound` promises 2 TTL within a boot, and across boots
  only that the answer is gone two TTL after the clock reads what it read then.
* *Delivery.* streaming.py:6 says "without loss", and `_deliver` "drops the oldest event on queue
  overflow". While a publisher's own thread delivers, the new event may be dropped instead
  (streaming.py:121-122); `NoGap` names both and says when the second can happen.
* *Dry runs.* protocol_extensions.py:66: "Extract and resolve but do not write". The dry run of an
  update drops the document's edges (construction.py:477-478) and does not bring them back. A dry run also
  counts an entity that a document names twice as two (construction.py:354). `DryRunForetells` says what
  holds: no vertex is added, nothing is published, and what a document naming each thing once would
  create is counted exactly.
* *Blanks around an id.* The Paper is upserted under the id as it was given (construction.py:396, 412),
  the probe, the edges and the report use the stripped one (205, 337, 349, 367): the content of ` p1 ` and
  its edges go to different vertices, and the report and the events name a document that was not written.
  `RetryRepairs`, `UpdateReplaces`, `CreatedMeasured`, `CreatedExplained` and `EventsOfUndisturbed` are
  about ids without blanks (`Plain`), `InsertOnly` leaves out the padded Papers.
* *entities_created.* "Measured against the backend, never estimated" (protocol_extensions.py:73), "only
  the vertices this call actually created" (construction.py:311-314), and yet a document that cites itself
  is counted twice, as the document and as its own object
  (`CreatedMeasured`).
* *documents_created.* The "ids that did not exist before this call" (protocol_extensions.py:75-76,
  89-91) miss a document that an earlier one of the batch cites: it exists, as a stub, when its turn comes
  (`CreatedExplained`).
* *Federation.* `BackendRef.graph_id` is the "graph name to fan the query out to"
  (protocol_extensions.py:123), and the registry goes by the name alone (federation.py:88-89). A name that
  was used for one graph answers from it when asked for another, as happens when an entity link and a
  federated search name the same backend (mcp_server.py:756 and 774). `WrongGraphNeedsReuse` says that
  nothing else can bring it about.
* *Jobs.* A job is saved "completed" although documents failed: ingest swallows failed extractions,
  upserts and edges (construction.py:338-345, 415-417, 446-447; mcp_server.py:700-704). `JobsOnBoard`
  promises "been through", `StaleHasCause` has the swallowed upsert among its reasons.
* *Paths.* `path_search` searches bare ids "across Paper/Author/Concept" (tigergraph_adapter.py:567-568)
  and finds the "shortest path ... between two entities" (README.md:281, retrieval.py:334-337), and its
  expansion starts from a Paper alone. `PathsAreShortest` says that what is found is shortest between any
  two vertices, and that one is found from a Paper only.
* *Scripts.* Without `GOOGLE_API_KEY` a backfill and an embedding build end normally with nothing embedded
  (embed_backfill.py:127-130, build_kg.py:416-418), an answer short of embeddings is cut in silence
  (build_kg.py:316), and `--min-tokens` saves fewer papers than asked for (download_papers.py:188-191).
  `RunsComplete` is stated with each of these.

### What a reader of the code should know
Met while modelling, and kept in the models as the code has it:

* A search in mode `global`, or `auto` when the classifier says so, raises a TypeError: the tool passes
  depth and top_k on (mcp_server.py:374) and `global_search` takes neither; so do diff.py:119 and
  temporal.py:66 (`Routed`).
* A path from, or a neighbourhood of, a concept or an author is always empty (see *Paths* above), and the
  investigation pivots away from it (`PathAnswers`).
* `community_members` reads abstracts off records that no longer have them, and returns no chunks.
* Adapters turn a failed query into an empty context, which the search tool caches like an answer
  (`StaleHasCause`, flaw "blank").
* The batch counts a tool's error, returned as JSON, as a success. A job that fails loses its document
  count. A job that was running when the process ended stays "running" (`lost`).
* `delete_document` leaves the paper's vector, so that a hybrid search still returns the paper, and an
  edge that a build writes afterwards brings it back as a stub (`DefectHasCause`).
* A download that cannot reach arXiv's next page replaces the file by what it has, and a build whose schema
  creation answers with an error goes on and loads nothing.
* The search tool's cache key leaves out `format_text` and `max_tokens`, and ingestion ignores the
  `extraction_strategy` it is given. `_safe_tool` and `_CURSORS` are not used.

## 4. The proofs

Assumptions: those on the constants (`CacheConstants`, `BusConstants`, `ConstructionConstants`,
`FederationConstants`, `WatchConstants`, `ServerConstants`, `AdapterConstants`, `AskingConstants`,
`LoadAssumption`), each of which TLC evaluates in a run of its module. Nothing else is assumed; all
numbers of threads, keys, names, documents, papers, sizes and times, and all finite graphs, are
arbitrary.

* **QueryCache_proofs.** `TypeCorrect`. `Staleness`: the property alone is not inductive, as a payload
  may be in a thread's hands; `AgeInv` adds that a stored time stamp is at most one TTL after the
  payload's birth, because a thread about to promote read its clock before the row it found fresh. None
  of this compares a time with the clock of another boot, so it outlives a restart.
  `Flush`: `FlushInv` adds that, while a flush runs alone, whatever the other tier or a thread holds
  for the graph is recent or about to be removed.
* **EventBus_proofs.** `TypeCorrect` (with the bounds on history and queues). `ImplementsTrail`: the bus
  implements `AuditLog`, step by step: every action leaves the table alone or, as `Persist`, adds a row
  whose id is new. `FirstRunComplete`: `LogInv` adds that events in flight have distinct
  numbers, none of which has a row in the first run, so that `OR IGNORE` ignores nothing.
  `GapFree`: the property names every place where an event a client is owed can be; `GapInv` adds that
  nothing is owed to a client before its queue is registered (`NothingOwed`), and that until it is live it
  has nothing left to replay, so that the copy of the history takes all that was retained before. That a
  new event is given up only where a publisher's own thread has been (`CrossingsNeeded`) needs `CrossInv`:
  at a queue no such thread has touched, the loop is the only courier, so that after its own eviction
  there is room, and before it the queue is full.
  `InPublisherOrder`, for clients that replay nothing: what one publisher has on its way to one client
  is in order at each station (`LoopInv`, `StreamInv`) and between the stations (`OrderInv`), since a
  publisher emits one event at a time, the loop runs its callbacks in the order of their calls, and a
  publisher that delivers in its own thread has nothing on the loop.
* **Construction_proofs.** `TypeCorrect`. `NewOnlyInserts`: `ProbeInv`
  says that a request none of whose probes failed has found every kept vertex it asked for, and has
  asked for all it is about to write. `CitationHarmless`: no step writes over a paper's content for the
  sake of a citation, whoever else is at work. The other six are about requests that nothing disturbed
  (`DeletesExactly`, `EventsTrue`, `UpdatesReplace`, `RetriesRepair`, `CreatedExplains`,
  `CreatedCounts`), all but the first also about `Plain` ones: no dry run, no blanks around an id. A
  request is *calm* while none of its calls has failed and none has overlapped it;
  then it is alone (`AloneInv`), so each of its steps finds the graph as its last one left it, and what
  a calm step does can be stated once, field by field. On that rest `ListInv` (what is left of the
  list), `FreshInv` (what a document starts with) and `FoundInv` (what the probes found), and one
  invariant per property: `DeleteInv`, `EventInv`, `ReplaceInv`, `RepairInv`, `CreatedInv`, `CountInv`.
  None of the properties is inductive without these: each speaks of the end of a request, and what
  makes it true was done document by document, call by call.
* **Federation_proofs.** `Controlled`: types, and that only requests that have begun have tasks, so that
  references never change under a task. `RaceNeeds`: nobody is in the eviction loop unless the
  registry was full, so a name once found stays. `ReuseNeeds`: `NameInv`, an adapter that the registry or a
  thread holds under a name was brought to that very name. `Overshoot`: `BoundInv` follows a lone adder:
  what it lists contains all clones, after its eviction there is room, and other threads can only
  take clones away. `UnanimousMerge`: a score is a recursive sum and the merged list a sort, so the
  theorem rests on lemmas about these: a sum is monotone in its terms (`TotalFacts`, by induction on a
  set of numbers), a better rank adds no less under either strategy (`ContributionFacts`), the places
  of a finite, strictly ordered set are each taken once (`PositionsTaken`, by counting), and among
  equal scores the entity ranked above was met first (`OutranksPrecedes`). `MergeInv` adds that the
  tasks of a request that is done are done, so that nothing changes what it merged; it also gives
  `TypeCorrect` the type of the merged list.
* **Watch_proofs.** `TypeCorrect`, with the fact that what a client was sent stays in the table.
  `LossExplained`: inductive given the types, as a call either asks for a row or has a token past it.
  `CutIsVisible`: the two clamps agree (`ClampsAgree`), and an answer short of its limit is all there
  is, by the cardinality of finite sets. `RepeatsExplained`: `TokenInv`, a token is as new as the
  newest event its client was sent.
* **ToolServer_proofs.** `TypeCorrect`: the types, with what a frame holds at the step it stands at.
  `SplitRace`: `SplitInv` adds that, until a published adapter is replaced, whoever is about to build a
  contract holds that adapter. `OnBoard`: the server implements `JobBoard`; `JobsInv` ties the place of
  a job's worker to its row, to what it has been through and to what it has left, and `CallsFit` says that only an
  asynchronous ingestion gets as far as starting a job. `StaleExplained`: the property is about answers
  that are returned, and says nothing of the answers still to come out of the first tier; `CacheInv`
  adds that, while no job is between its save and its flush, the first tier and every answer about to
  be put there hold all that was acknowledged, or bear the reason why not. What was acknowledged is in
  the graph or among the `unwritten`, and an answer's `gaps` are the latter at the time it was computed;
  so a swallowed failure is one of six reasons.
* **Answering_proofs.** `ShortestPaths`: for any graph, what `path_search` finds is a shortest path, and from a
  Paper it finds one if there is one. The
  server returns only the edges that led to a vertex not visited before, and the search runs over
  those: `Expansion` says that they lead to all that is within reach, `SameRounds` that the rounds of
  the search over them are the rounds of the expansion, `ReachedWalks` that a vertex is reached in a
  round iff some walk of that length or less leads there (each by induction on a set of numbers), and
  `ShortestWalk` puts them together. `FailuresExplained`: `ReadyInv` says that a thread runs a query
  without the flag only while an installation is unsettled, for the flag was set when it got there and
  only a failure that reinstalls clears it; `RerunInv` that a query its own call reinstalled is missing
  only if an installation dropped it, the server lost it again or another thread is installing.
  `TypeCorrect`: `TaskOK` and `InquiryOK` add that an investigation that looks for a path has seen two
  entities and that the first two differ, so that the request it makes is one the contract takes; and a
  task is in a call only at a stage that waits for one, so that no call is begun over another.
* **GraphLoad_proofs.** `TypeCorrect`, `DefectsExplained` and `RunsDone`, for any papers, page and
  batch sizes and retries. The lists a script makes are recursive functions and folds. What they hold is
  proved by induction on the *set* of numbers a statement holds of (`Induction`, `Iteration`, from the
  well-foundedness of the naturals), and the invariants then speak of what is *pending* in a list, kind
  by kind. `Shape`: types, each paper once in the file, papers before edges in a list. `SourceInv`: what
  is pending comes from the papers of the script. `WriteInv`: a paper of a build is pending, in the
  graph, or gone for a cause the ledger names, so that by the time edges are written every end exists
  or has a lapse. `TextInv`: a paper nobody revised has one text everywhere. `DoneInv`: while nothing
  disturbs a run, what is not pending is done, the vectors only if there is a key. `FetchInv`: while
  nothing disturbs a download, it holds the newest papers up to the page it is at, and saves those that
  `Saved` leaves of them.

Only model-checked: `EventuallySeen`, `JobsEnd` and `TasksEnd`, which are liveness, and
`DryRunForetells`. Every other property of the passing runs is a theorem.

## 5. What is not modelled, and the plan

Not modelled on purpose: the wording of answers and prompts, scoring of text, HTTP and MCP framing,
the stateless adapters, the frontend. In the modelled components: hit counters of the cache, the
scores of entity links and the categories `_merge` only deduplicates, explicit registrations beyond
the bound (`register_backend` does not check it; `Setups` assumes the caller keeps it).

Left out of the newer modules: a name is resolved in one step (a request that fails reads as "no such
vertex"); communities found by prefix are matched exactly; the limit of 500 vertices of an expansion
is out of a small graph's reach; the pages of a listing follow the submissions alone; the counts a
build polls at its end are only printed; a loop's five-minute wait for its workers at exit.

| Component | Why it is not modelled, or what is left |
|---|---|
| Rate limiter | created and never called at this commit |
| Authorization | one decision on a signed token and the clock; no state, no other actor |
| Schema discovery | a dictionary with a time to live, as the first tier of QueryCache, without its second tier or its writers |
| Diff, temporal, provenance, conflicts, explanation, similarity, aggregate, triage, export | pure functions of one or two contexts |
| Neo4j and fallback adapters | translations of a request into one query |
| Formatters | wording; the token budget is a cut of a list |
| MCP and HTTP servers | the handlers not named above call one contract and format its answer |
| Next | the token budget and the diff as operators against definitions; two scripts at once in GraphLoad |

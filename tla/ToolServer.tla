------------------------------ MODULE ToolServer ------------------------------
(***************************************************************************)
(* The tool server (mcp_server/mcp_server.py): the contracts that          *)
(* GraphRAGState builds when they are first needed, graphrag_batch and its *)
(* pool of threads (contracts/batch.py), the tools that search and mutate  *)
(* the graph around the two tiers of the query cache, and the background   *)
(* ingestion jobs with their rows in the jobs table (storage.py).          *)
(*                                                                         *)
(* A client sends one batch at a time; the pool's threads run its calls    *)
(* concurrently, and a job's worker runs beside them and outlives the      *)
(* batch that started it.  A runner is a thread of the pool or a job's     *)
(* worker.  One step of a runner is what it does between two points where  *)
(* another may see or change shared state.                                 *)
(*                                                                         *)
(* The cache holds the answer of one search key, as the set of documents   *)
(* the answer was computed from; QueryCache has its keys, times and sizes. *)
(* Construction has what the writing of a document consists of.            *)
(***************************************************************************)
EXTENDS Integers, Sequences, SequencesExt, FiniteSets

CONSTANTS
  Threads,     \* the threads of the pool
  Jobs,        \* ids of ingestion jobs
  Docs,        \* documents
  Batches,     \* the batches a client may send: sequences of calls
  MaxBatch,    \* BatchContract.MAX_BATCH_SIZE
  MaxBatches,  \* bound: batches sent
  MaxFaults,   \* bound: calls of the backend or of SQLite, and documents, that fail
  MaxOthers,   \* bound: mutations by the HTTP server, another process
  MaxCrashes   \* bound: restarts

ASSUME ServerConstants ==
  /\ Threads \cap Jobs = {}
  /\ Batches \subseteq Seq([tool : {"search", "ingest", "ingest_async", "delete"}, docs : SUBSET Docs])
  /\ MaxBatch \in Nat
  /\ <<MaxBatches, MaxFaults, MaxOthers, MaxCrashes>> \in Nat \X Nat \X Nat \X Nat

VARIABLES
  active,    \* GraphRAGState._adapter
  over,      \* the adapter each contract was built over
  stored,    \* the documents in the graph
  memory,    \* first tier of the cache
  row,       \* second tier, a row of query_cache
  status,    \* jobs.status of each job
  items,     \* the documents each job was given
  tried,     \* history variable: the documents each job has been through
  batch,     \* the batch being executed
  results,   \* its results list
  next,      \* how many of its calls were taken from the pool's queue
  frame,     \* what each runner is doing
  bounds,    \* counters of batches, faults, other mutations and restarts
  acked,     \* history variable: documents a client may rely on
  unwritten, \* history variable: documents reported written that are not in the graph
  raced,     \* history variable: an adapter that was published was replaced
  lost       \* history variable: the jobs nobody works for any more

shared == <<active, over>>
cache  == <<memory, row>>
board  == <<status, items, tried>>
pool   == <<batch, results, next>>
ghosts == <<acked, unwritten, raced, lost>>
vars   == <<active, over, stored, memory, row, status, items, tried, batch,
            results, next, frame, bounds, acked, unwritten, raced, lost>>

Runners   == Threads \cup Jobs
Backends  == {"graph", "demo"}
Contracts == {"retrieval", "construction"}
Tools     == {"search", "ingest", "ingest_async", "delete"}
Call      == [tool : Tools, docs : SUBSET Docs]

\* An answer and what it was computed from; gaps and flaws are history: what was
\* unwritten then, and why else it may lack a document.
NoAnswer == [of |-> "none", docs |-> {}, gaps |-> {}, flaws |-> {}]
Answer   == [of : Backends, docs : SUBSET Docs, gaps : SUBSET Docs,
             flaws : SUBSET {"row", "late", "blank", "window"}]

\* listed: of the documents its report lists as written, those nobody has deleted
\* since; must: history, what a search has to show.
NoCall == [tool |-> "search", docs |-> {}]
Steps  == {"idle", "lookup", "row", "contract", "adapter", "probe", "publish", "build",
           "retrieve", "fill", "store", "write", "save", "flush", "fail", "launch",
           "returned", "raised"}
Frame  == [at : Steps, call : Call, slot : 0..MaxBatch, goal : Contracts \cup {"name"},
           found : Backends, todo : SUBSET Docs, answer : Answer \cup {NoAnswer},
           listed : SUBSET Docs, must : SUBSET Docs]
Idle   == [at |-> "idle", call |-> NoCall, slot |-> 0, goal |-> "name", found |-> "demo",
           todo |-> {}, answer |-> NoAnswer, listed |-> {}, must |-> {}]

TypeOK ==
  /\ active \in Backends \cup {"none"}
  /\ over \in [Contracts -> Backends \cup {"none"}]
  /\ stored \subseteq Docs
  /\ {memory, row} \subseteq Answer \cup {NoAnswer}
  /\ status \in [Jobs -> {"none", "running", "completed", "failed"}]
  /\ items \in [Jobs -> SUBSET Docs]
  /\ tried \in [Jobs -> SUBSET Docs]
  /\ batch \in Seq(Call) /\ Len(batch) <= MaxBatch
  /\ results \in Seq({"pending", "success", "error"}) /\ Len(results) = Len(batch)
  /\ next \in 0..Len(batch)
  /\ frame \in [Runners -> Frame]
  /\ bounds \in [{"batch", "fault", "other", "crash"} -> Nat]
  /\ acked \subseteq Docs /\ unwritten \subseteq Docs
  /\ raced \in BOOLEAN
  /\ lost \subseteq Jobs

Init ==
  /\ active = "none"
  /\ over = [c \in Contracts |-> "none"]
  /\ stored = {}
  /\ memory = NoAnswer /\ row = NoAnswer
  /\ status = [j \in Jobs |-> "none"]
  /\ items = [j \in Jobs |-> {}]
  /\ tried = [j \in Jobs |-> {}]
  /\ batch = <<>> /\ results = <<>> /\ next = 0
  /\ frame = [r \in Runners |-> Idle]
  /\ bounds = [b \in {"batch", "fault", "other", "crash"} |-> 0]
  /\ acked = {} /\ unwritten = {}
  /\ raced = FALSE
  /\ lost = {}

At(r, step) == frame[r].at = step
Tool(r)     == frame[r].call.tool

\* Runner r goes to another step, taking new values of some fields with it.
Set(r, new)   == frame' = [frame EXCEPT ![r] = new]
Goto(r, step) == Set(r, [frame[r] EXCEPT !.at = step])
Spend(b)      == bounds' = [bounds EXCEPT ![b] = @ + 1]

\* A call of the backend or of SQLite raises, or a document is not fit to be written.
Fault == bounds["fault"] < MaxFaults /\ Spend("fault")

-----------------------------------------------------------------------------
(* graphrag_batch.                                                         *)

SendBatch ==
  /\ batch = <<>>
  /\ bounds["batch"] < MaxBatches
  /\ \E b \in Batches :
       /\ Len(b) \in 1..MaxBatch
       /\ batch' = b
       /\ results' = [i \in DOMAIN b |-> "pending"]
  /\ next' = 0
  /\ Spend("batch")
  /\ UNCHANGED <<shared, stored, cache, board, frame, ghosts>>

\* Where the handler of a tool begins: the mutating ones read the graph's name
\* off the adapter, delete needs the contract at once.
FirstStep == [search |-> "lookup", ingest |-> "adapter", ingest_async |-> "adapter",
              delete |-> "contract"]
FirstGoal == [search |-> "retrieval", ingest |-> "name", ingest_async |-> "name",
              delete |-> "construction"]

\* A thread of the pool takes the next call.
Take(w) ==
  /\ At(w, "idle")
  /\ next < Len(batch)
  /\ next' = next + 1
  /\ LET call == batch[next'] IN
     Set(w, [Idle EXCEPT !.at = FirstStep[call.tool], !.call = call, !.slot = next',
                         !.goal = FirstGoal[call.tool], !.todo = call.docs, !.must = acked])
  /\ UNCHANGED <<shared, stored, cache, board, batch, results, bounds, ghosts>>

\* _run_single returns: an exception is an error, an error a tool returns as its
\* JSON answer is a success.
Finish(w) ==
  /\ \/ At(w, "returned") /\ results' = [results EXCEPT ![frame[w].slot] = "success"]
     \/ At(w, "raised")   /\ results' = [results EXCEPT ![frame[w].slot] = "error"]
  /\ Set(w, Idle)
  /\ UNCHANGED <<shared, stored, cache, board, batch, next, bounds, ghosts>>

\* (EndBatchKeepingNext, BuildApart, FlushNothing, SaveThenFail and FailSilently
\* are not the code: they are wrong variants of the action below them, one for
\* each property.)

EndBatchKeepingNext ==
  /\ batch # <<>>
  /\ "pending" \notin ToSet(results)
  /\ batch' = <<>> /\ results' = <<>>
  /\ UNCHANGED <<shared, stored, cache, board, frame, next, bounds, ghosts>>

EndBatch ==
  /\ batch # <<>>
  /\ "pending" \notin ToSet(results)
  /\ batch' = <<>> /\ results' = <<>> /\ next' = 0
  /\ UNCHANGED <<shared, stored, cache, board, frame, bounds, ghosts>>

-----------------------------------------------------------------------------
(* The lazy properties of GraphRAGState.  Nothing locks them: what one thread *)
(* found unset another may set before it, and either assignment may be last.  *)

AfterContract(r) == IF Tool(r) = "search" THEN "retrieve" ELSE "write"

\* if self._retrieval is None: ... return self._retrieval
GetContract(r) ==
  /\ At(r, "contract")
  /\ LET have == over[frame[r].goal] IN
     IF have = "none" THEN Goto(r, "adapter")
     ELSE Set(r, [frame[r] EXCEPT !.found = have, !.at = AfterContract(r)])
  /\ UNCHANGED <<shared, stored, cache, board, pool, bounds, ghosts>>

\* if self._adapter is None: ... return self._adapter
GetAdapter(r) ==
  /\ At(r, "adapter")
  /\ IF active = "none" THEN Goto(r, "probe")
     ELSE LET f == [frame[r] EXCEPT !.found = active] IN
          Set(r, CASE f.goal # "name" -> [f EXCEPT !.at = "build"]
                   [] f.goal = "name" /\ Tool(r) = "ingest"
                        -> [f EXCEPT !.at = "contract", !.goal = "construction"]
                   [] OTHER -> [f EXCEPT !.at = "launch"])
  /\ UNCHANGED <<shared, stored, cache, board, pool, bounds, ghosts>>

\* _adapter(): the demo adapter takes over when the health check fails.
Probe(r) ==
  /\ At(r, "probe")
  /\ \/ Set(r, [frame[r] EXCEPT !.found = "graph", !.at = "publish"]) /\ UNCHANGED bounds
     \/ Set(r, [frame[r] EXCEPT !.found = "demo", !.at = "publish"]) /\ Fault
  /\ UNCHANGED <<shared, stored, cache, board, pool, ghosts>>

Publish(r) ==
  /\ At(r, "publish")
  /\ active' = frame[r].found
  /\ raced' = (raced \/ active # "none")
  /\ Goto(r, "adapter")
  /\ UNCHANGED <<over, stored, cache, board, pool, bounds, acked, unwritten, lost>>

BuildApart(r) ==
  /\ At(r, "build")
  /\ \E b \in Backends : over' = [over EXCEPT ![frame[r].goal] = b]
  /\ Goto(r, "contract")
  /\ UNCHANGED <<active, stored, cache, board, pool, bounds, ghosts>>

Build(r) ==
  /\ At(r, "build")
  /\ over' = [over EXCEPT ![frame[r].goal] = frame[r].found]
  /\ Goto(r, "contract")
  /\ UNCHANGED <<active, stored, cache, board, pool, bounds, ghosts>>

-----------------------------------------------------------------------------
(* graphrag_search.                                                        *)

Flawed(answer, why) == [answer EXCEPT !.flaws = @ \cup why]

\* A job has been saved as completed and its flush is still to come.
Window == IF \E j \in Jobs : At(j, "flush") THEN {"window"} ELSE {}

\* QueryCache.get, first tier.
Lookup(w) ==
  /\ At(w, "lookup")
  /\ IF memory = NoAnswer THEN Goto(w, "row")
     ELSE Set(w, [frame[w] EXCEPT !.answer = Flawed(memory, Window), !.at = "returned"])
  /\ UNCHANGED <<shared, stored, cache, board, pool, bounds, ghosts>>

\* QueryCache.get, second tier: a hit is promoted (QueryCache reads and promotes
\* in two steps); a failing read escapes.
LookupRow(w) ==
  /\ At(w, "row")
  /\ \/ /\ row # NoAnswer
        /\ memory' = Flawed(row, {"row"})
        /\ Set(w, [frame[w] EXCEPT !.answer = memory', !.at = "returned"])
        /\ UNCHANGED bounds
     \/ /\ row = NoAnswer
        /\ Goto(w, "contract")
        /\ UNCHANGED <<memory, bounds>>
     \/ Fault /\ Goto(w, "raised") /\ UNCHANGED memory
  /\ UNCHANGED <<shared, stored, row, board, pool, ghosts>>

\* RetrievalContract.search: the adapter turns a failure into an empty context,
\* the contract's own failures become the tool's error.
Retrieve(w) ==
  /\ At(w, "retrieve")
  /\ LET f == frame[w].found
         full == [of |-> f, docs |-> IF f = "graph" THEN stored ELSE {},
                  gaps |-> unwritten, flaws |-> {}]
     IN \/ /\ Set(w, [frame[w] EXCEPT !.answer = full, !.at = "fill"])
           /\ UNCHANGED bounds
        \/ /\ Fault
           /\ Set(w, [frame[w] EXCEPT !.at = "fill",
                        !.answer = [full EXCEPT !.docs = {}, !.flaws = {"blank"}]])
        \/ Fault /\ Goto(w, "returned")
  /\ UNCHANGED <<shared, stored, cache, board, pool, ghosts>>

\* QueryCache.set: the first tier, then the row, whose failure is swallowed.
Fill(w) ==
  /\ At(w, "fill")
  /\ memory' = frame[w].answer
  /\ Goto(w, "store")
  /\ UNCHANGED <<shared, stored, row, board, pool, bounds, ghosts>>

Store(w) ==
  /\ At(w, "store")
  /\ \/ row' = frame[w].answer /\ UNCHANGED bounds
     \/ Fault /\ UNCHANGED row
  /\ Goto(w, "returned")
  /\ UNCHANGED <<shared, stored, memory, board, pool, ghosts>>

-----------------------------------------------------------------------------
(* graphrag_ingest, graphrag_delete_document and the jobs.                 *)

\* The except clause of the handler, or of the job's worker.
Except(r) == Goto(r, IF r \in Jobs THEN "fail" ELSE "returned")

\* ingest has done with document d of its list; its report lists those in D.
PassOn(r, d, D) ==
  LET left == frame[r].todo \ {d} IN
  /\ tried' = IF r \in Jobs THEN [tried EXCEPT ![r] = @ \cup {d}] ELSE tried
  /\ Set(r, [frame[r] EXCEPT !.todo = left, !.listed = @ \cup D,
               !.at = IF left # {} THEN "write" ELSE IF r \in Jobs THEN "save" ELSE "flush"])

\* ConstructionContract.ingest takes one document after the other.  A Paper is
\* written, or its upsert fails: the error is swallowed and the document listed
\* as written all the same.
WritePaper(r, d) ==
  /\ frame[r].found = "graph"
  /\ \/ /\ stored' = stored \cup {d}
        /\ unwritten' = unwritten \ {d}
        /\ UNCHANGED bounds
     \/ /\ Fault
        /\ unwritten' = unwritten \cup ({d} \ stored)
        /\ UNCHANGED stored
  /\ PassOn(r, d, {d})

\* A document without an id, or whose extraction raises, is left out.  One with
\* attributes that cannot be converted raises out of ingest, as any other does
\* over the demo adapter.
WriteDoc(r) ==
  /\ At(r, "write") /\ Tool(r) # "delete"
  /\ \/ \E d \in frame[r].todo :
          \/ WritePaper(r, d)
          \/ Fault /\ PassOn(r, d, {}) /\ UNCHANGED <<stored, unwritten>>
     \/ /\ (frame[r].found = "demo" /\ UNCHANGED bounds) \/ Fault
        /\ Except(r)
        /\ UNCHANGED <<stored, unwritten, tried>>
  /\ UNCHANGED <<shared, cache, status, items, pool, acked, raced, lost>>

\* What a deletion takes from those that rely on the document.
Forget(D, f) == [r \in Runners |-> [f[r] EXCEPT !.listed = @ \ D, !.must = @ \ D]]

\* delete_document swallows its failure, over the demo adapter too: the tool goes
\* on to the flush.
RemoveDoc(w) ==
  /\ At(w, "write") /\ Tool(w) = "delete"
  /\ \/ /\ frame[w].found = "graph"
        /\ stored' = stored \ frame[w].call.docs
        /\ unwritten' = unwritten \ frame[w].call.docs
        /\ acked' = acked \ frame[w].call.docs
        /\ frame' = Forget(frame[w].call.docs, [frame EXCEPT ![w].at = "flush"])
        /\ UNCHANGED bounds
     \/ /\ (frame[w].found = "demo" /\ UNCHANGED bounds) \/ Fault
        /\ Goto(w, "flush")
        /\ UNCHANGED <<stored, unwritten, acked>>
  /\ UNCHANGED <<shared, cache, board, pool, raced, lost>>

FlushNothing(r) ==
  /\ At(r, "flush")
  /\ acked' = IF Tool(r) = "ingest" THEN acked \cup frame[r].listed ELSE acked
  /\ IF r \in Jobs THEN Set(r, Idle) ELSE Goto(r, "returned")
  /\ UNCHANGED <<shared, stored, cache, board, pool, bounds, unwritten, raced, lost>>

\* invalidate() without a graph id empties the first tier.
Flush(r) ==
  /\ At(r, "flush")
  /\ memory' = NoAnswer
  /\ acked' = IF Tool(r) = "ingest" THEN acked \cup frame[r].listed ELSE acked
  /\ frame' = [x \in Runners |->
       CASE x = r /\ r \in Jobs -> Idle
         [] x = r /\ r \notin Jobs -> [frame[r] EXCEPT !.at = "returned"]
         [] x # r /\ At(x, "fill") -> [frame[x] EXCEPT !.answer = Flawed(@, {"late"})]
         [] OTHER -> frame[x]]
  /\ UNCHANGED <<shared, stored, row, board, pool, bounds, unwritten, raced, lost>>

\* async_mode: save the job as running and start its worker; either may raise
\* (run_in_executor needs the loop of the calling thread).  That a loop of
\* asyncio.run waits for its workers, five minutes at most, is left out.
Launch(w) ==
  /\ At(w, "launch")
  /\ \/ \E j \in Jobs :
          /\ status[j] = "none"
          /\ status' = [status EXCEPT ![j] = "running"]
          /\ items' = [items EXCEPT ![j] = frame[w].todo]
          /\ \/ /\ frame' = [frame EXCEPT ![w].at = "returned",
                      ![j] = [Idle EXCEPT !.at = "contract", !.call = frame[w].call,
                                          !.goal = "construction", !.todo = frame[w].todo]]
                /\ UNCHANGED <<bounds, lost>>
             \/ Fault /\ Goto(w, "raised") /\ lost' = lost \cup {j}
     \/ Fault /\ Goto(w, "raised") /\ UNCHANGED <<status, items, lost>>
  /\ UNCHANGED <<shared, stored, cache, tried, pool, acked, unwritten, raced>>

SaveThenFail(j) ==
  /\ At(j, "save")
  /\ status' = [status EXCEPT ![j] = "completed"]
  /\ acked' = acked \cup frame[j].listed
  /\ \/ Goto(j, "flush") /\ UNCHANGED bounds
     \/ Fault /\ Goto(j, "fail")
  /\ UNCHANGED <<shared, stored, cache, items, tried, pool, unwritten, raced, lost>>

\* The worker's save_job: completed, or failed after an exception.
Save(j) ==
  /\ At(j, "save")
  /\ \/ /\ status' = [status EXCEPT ![j] = "completed"]
        /\ acked' = acked \cup frame[j].listed
        /\ Goto(j, "flush")
        /\ UNCHANGED bounds
     \/ Fault /\ Goto(j, "fail") /\ UNCHANGED <<status, acked>>
  /\ UNCHANGED <<shared, stored, cache, items, tried, pool, unwritten, raced, lost>>

FailSilently(j) ==
  /\ At(j, "fail")
  /\ Set(j, Idle)
  /\ UNCHANGED <<shared, stored, cache, board, pool, bounds, ghosts>>

Fail(j) ==
  /\ At(j, "fail")
  /\ \/ status' = [status EXCEPT ![j] = "failed"] /\ UNCHANGED <<bounds, lost>>
     \/ Fault /\ lost' = lost \cup {j} /\ UNCHANGED status
  /\ Set(j, Idle)
  /\ UNCHANGED <<shared, stored, cache, items, tried, pool, acked, unwritten, raced>>

-----------------------------------------------------------------------------

\* The HTTP server ingests and deletes in a process of its own, whose mutations
\* this server's cache is not told of.
HttpMutation ==
  /\ bounds["other"] < MaxOthers
  /\ Spend("other")
  /\ \E d \in Docs :
       \/ /\ d \notin stored
          /\ stored' = stored \cup {d}
          /\ unwritten' = unwritten \ {d}
          /\ UNCHANGED <<acked, frame>>
       \/ /\ d \in stored
          /\ stored' = stored \ {d}
          /\ UNCHANGED unwritten
          /\ acked' = acked \ {d}
          /\ frame' = Forget({d}, frame)
  /\ UNCHANGED <<shared, cache, board, pool, raced, lost>>

\* The process ends and starts again: the graph and the database survive, and
\* nothing takes up the jobs that were running.
Crash ==
  /\ bounds["crash"] < MaxCrashes
  /\ Spend("crash")
  /\ active' = "none"
  /\ over' = [c \in Contracts |-> "none"]
  /\ memory' = NoAnswer
  /\ batch' = <<>> /\ results' = <<>> /\ next' = 0
  /\ frame' = [r \in Runners |-> Idle]
  /\ raced' = FALSE
  /\ lost' = lost \cup {j \in Jobs : status[j] = "running"}
  /\ UNCHANGED <<stored, row, board, acked, unwritten>>

Getters(r) == GetContract(r) \/ GetAdapter(r) \/ Probe(r) \/ Publish(r) \/ Build(r)

Serve(w) ==
  \/ Take(w) \/ Finish(w) \/ Getters(w)
  \/ Lookup(w) \/ LookupRow(w) \/ Retrieve(w) \/ Fill(w) \/ Store(w)
  \/ WriteDoc(w) \/ RemoveDoc(w) \/ Flush(w) \/ Launch(w)

BgRun(j) == Getters(j) \/ WriteDoc(j) \/ Save(j) \/ Flush(j) \/ Fail(j)

Next ==
  \/ SendBatch \/ EndBatch
  \/ \E w \in Threads : Serve(w)
  \/ \E j \in Jobs : BgRun(j)
  \/ HttpMutation
  \/ Crash

\* Threads that have work go on with it; nobody has to send anything.
Fairness ==
  /\ \A w \in Threads : WF_vars(Serve(w))
  /\ \A j \in Jobs : WF_vars(BgRun(j))
  /\ WF_vars(EndBatch)

Spec == Init /\ [][Next]_vars /\ Fairness

-----------------------------------------------------------------------------
(* Properties.                                                             *)

\* A search that begins when an ingestion has been acknowledged (by the tool's
\* answer, or by a job that reads completed) sees the documents its report lists
\* as written unless they were deleted, except for one of the reasons the code
\* leaves: the upsert of the document had failed and was swallowed; the answer
\* came from a row, which no mutation clears; it was computed before a flush and
\* filled in after it; the backend had failed and the empty answer was kept;
\* the job was saved before its flush; or retrieval is over the demo adapter.
StaleHasCause ==
  \A w \in Threads :
    At(w, "returned") /\ Tool(w) = "search" /\ frame[w].answer # NoAnswer
    => LET a == frame[w].answer IN
       frame[w].must \subseteq a.docs \cup a.gaps \/ a.flaws # {} \/ a.of = "demo"

\* The contracts are built over different adapters (searches then answer from a
\* graph that ingestion does not write) only if two threads were in the getter
\* of the adapter at once.
SplitNeedsRace ==
  over["retrieval"] # over["construction"] /\ "none" \notin {over[c] : c \in Contracts}
  => raced

\* The jobs implement a board of jobs: each works through its own documents, ends
\* at most once and is completed only when it has been through all of them,
\* whatever fails.  (Been through, not written: a document whose upsert failed, or
\* that was refused, does not keep its job from being completed.)
Board == INSTANCE JobBoard WITH Items <- Docs

JobsOnBoard == Board!Spec

\* A job that was accepted ends, unless its worker could not be started, could
\* not save the end, or went down with the process.
JobsEnd == \A j \in Jobs : status[j] = "running" ~> (status[j] # "running" \/ j \in lost)

=============================================================================

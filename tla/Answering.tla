------------------------------ MODULE Answering -------------------------------
(***************************************************************************)
(* What asks the TigerGraph adapter: the retrieval contract with its       *)
(* routing (contracts/retrieval.py), the agentic investigation             *)
(* (agent_harness.py), the three pipelines that are compared               *)
(* (pipelines.py) and the evaluation report (contracts/evaluation.py).     *)
(* Each thread serves one task after the other over the adapter they       *)
(* share; a step of a task takes the adapter's reply, or the LLM's, and    *)
(* goes on to the next call.                                               *)
(***************************************************************************)
EXTENDS TigerGraph

CONSTANTS
  About,       \* what classify_query sees in each question
  Tokens,      \* _find_candidate_entities: the words it looks up, in order
  Named,       \* the ids of the entities whose name occurs in each question
  ToolCalls,   \* the calls of the retrieval tools
  QuerySets,   \* the query sets evaluated: sequences of questions
  AskedModes,  \* the modes asked of the pipelines and the report
  MaxSteps, Target,  \* investigate: max_steps, target_confidence in percent
  MaxTasks     \* bound: what the tasks may cost

Questions == DOMAIN About

Tools == {"search", "local", "global", "hybrid", "entity", "path", "neighborhood", "community"}

ASSUME AskingConstants ==
  /\ \A call \in ToolCalls :
       /\ call.tool \in Tools /\ {call.depth, call.top} \subseteq Int
       /\ call.tool = "path" => call.on \in Ids \X Ids
  /\ MaxSteps \in Int /\ MaxTasks \in Nat

VARIABLES
  task,    \* what each thread is doing
  tasks    \* what the tasks have cost so far

vars == <<tgVars, task, tasks>>

-----------------------------------------------------------------------------
(* RetrievalContract.                                                      *)

Clamp(n, lo, hi) == Max({lo, Min({hi, n})})

Request(op, on, depth, top) ==
  [NoRequest EXCEPT !.op = op, !.on = on, !.depth = depth, !.top = top]

Local(q, depth, top) == Request("local_search", q, Clamp(depth, 1, 10), Clamp(top, 1, 100))
Global(q, top)       == Request("global_search", q, 0, Clamp(top, 1, 100))
Entity(name, depth)  == Request("entity_lookup", name, Clamp(depth, 1, 10), 50)
Near(id, depth)      == Request("neighborhood", id, Clamp(depth, 1, 10), 200)
Path(ends, hops)     == Request("path_search", ends, Clamp(hops, 1, 10), 500)
Members_(c)          == Request("community_members", c, 1, 100)
\* The weights are normalised to a sum of one.
Hybrid(q, w, depth, top) ==
  LET total == w[1] + w[2] IN
  [Request("hybrid_search", q, Clamp(depth, 1, 10), Clamp(top, 1, 100)) EXCEPT
     !.weight = IF total > 0 THEN <<(100 * w[1]) \div total, (100 * w[2]) \div total>> ELSE w]

\* The lexicons of classify_query, in order, and their sizes.
Modes   == <<"global", "path", "local">>
Lexicon == [global |-> 19, path |-> 11, local |-> 12]

\* A bare name is an entity; otherwise the closest prototype decides if texts
\* can be embedded and it is close enough, else the lexicon with the largest
\* cosine (overlap / sqrt(tokens * size), whose square is compared here).
Classify(q, embeds) ==
  LET a == About[q]
      square(m, n) == a.overlap[m] ^ 2 * Lexicon[n]
      best == CHOOSE i \in DOMAIN Modes :
                /\ \A j \in DOMAIN Modes : square(Modes[i], Modes[j]) >= square(Modes[j], Modes[i])
                /\ \A j \in 1..(i - 1)   : square(Modes[i], Modes[j]) > square(Modes[j], Modes[i])
      close == {m \in ToSet(Modes) : a.closeness[m] = Max({a.closeness[n] : n \in ToSet(Modes)})}
  IN CASE a.words <= 3 /\ ~a.asks -> "entity"
       [] (a.words > 3 \/ a.asks) /\ embeds /\ (\E m \in close : a.closeness[m] > 65) -> CHOOSE m \in close : TRUE
       [] OTHER -> IF 10000 * square(Modes[best], Modes[best])
                        > 225 * a.tokens * Lexicon[Modes[best]] ^ 2
                   THEN Modes[best] ELSE "hybrid"

\* search: the operation a mode leads to, "path" to a hybrid search.  Given the
\* depth and top_k of its tool, global_search raises: it takes neither.
Routed(q, mode, kwargs) ==
  CASE mode = "global" -> IF kwargs = <<>> THEN {Global(q, 10)} ELSE {}
    [] mode = "local"  -> {IF kwargs = <<>> THEN Local(q, 2, 10) ELSE Local(q, kwargs[1], kwargs[2])}
    [] mode = "entity" -> {Entity(q, IF kwargs = <<>> THEN 1 ELSE kwargs[1])}
    [] OTHER -> {IF kwargs = <<>> THEN Hybrid(q, <<1, 1>>, 2, 10)
                 ELSE Hybrid(q, <<1, 1>>, kwargs[1], kwargs[2])}

Supported == {"auto", "local", "global", "hybrid", "entity"}

Search(q, mode, kwargs, embeds) ==
  IF mode \notin Supported THEN {}
  ELSE Routed(q, IF mode = "auto" THEN Classify(q, embeds) ELSE mode, kwargs)

\* The request a tool makes of the adapter; none if the contract raises.
Checked(call, embeds) ==
  CASE call.tool = "search"       -> Search(call.on, call.mode, <<call.depth, call.top>>, embeds)
    [] call.tool = "local"        -> {Local(call.on, call.depth, call.top)}
    [] call.tool = "global"       -> {Global(call.on, call.top)}
    [] call.tool = "hybrid"       -> {Hybrid(call.on, call.weight, call.depth, call.top)}
    [] call.tool = "entity"       -> {Entity(call.on, call.depth)}
    [] call.tool = "path"         -> IF call.on[1] = call.on[2] THEN {} ELSE {Path(call.on, call.depth)}
    [] call.tool = "neighborhood" -> {Near(call.on, call.depth)}
    [] call.tool = "community"    -> {Members_(call.on)}

-----------------------------------------------------------------------------
(* Tasks.                                                                  *)

Strategies == {"entity_link_and_expand", "multi_hop_path", "community_global_search",
               "keyword_local_search", "verify_evidence"}

\* The state of an investigation: the step, the strategy, the words not looked
\* up yet, the ids of the entities accumulated and the first two of them, how
\* many relationships and the sufficiency.
NoInquiry == [step |-> 1, strategy |-> "entity_link_and_expand", words |-> <<>>, seen |-> {},
              lead |-> <<>>, rels |-> 0, score |-> 0]

Kinds  == {"none", "tool", "investigate", "pipelines", "report"}
Stages == {"none", "reply", "link", "explore", "conclude", "retrieve", "row", "answer", "judge"}
Pipelines == {"agent", "search", "basic_rag", "graphrag"}

\* A task: the questions left, the stage, the pipeline that retrieves and its
\* mode, the investigation, the rows written and the attempts at the LLM.
NoTask == [kind |-> "none", stage |-> "none", asked |-> <<>>, pipeline |-> "search", mode |-> "auto",
           inquiry |-> NoInquiry, rows |-> 0, attempts |-> 0]

Question(k) == Head(k.asked)

Become(t, k) == task' = [task EXCEPT ![t] = k]

\* Thread t goes on with task k, after a call of the adapter if it makes one.
CallThen(t, req, k)  == Begin(t, req) /\ Become(t, k)
WithoutCall(t, k)    == Set(t, NoCall) /\ Become(t, k) /\ UNCHANGED faults
Free(t)              == WithoutCall(t, NoTask)

\* A contract that raises leaves nothing to wait for.
CallOrFree(t, reqs, k) ==
  \/ \E req \in reqs : CallThen(t, req, k)
  \/ reqs = {} /\ Free(t)

\* A text is embedded if there is a key, unless the embedding fails.
Embedded == IF key THEN BOOLEAN ELSE {FALSE}

\* A tool call costs one of MaxTasks, anything else two: what goes on at once only
\* meets in the adapter, where two tool calls meet in every way.
Begins(t, cost) == task[t].kind = "none" /\ tasks + cost <= MaxTasks /\ tasks' = tasks + cost
Awaits(t, stages) == task[t].stage \in stages /\ At(t, "reply")

CallTool(t) ==
  /\ Begins(t, 1)
  /\ \E call \in ToolCalls, embeds \in Embedded :
       CallOrFree(t, Checked(call, embeds), [NoTask EXCEPT !.kind = "tool", !.stage = "reply"])
  /\ UNCHANGED <<server, ready, broken, resets>>

\* build_response passes the context on.
ToolAnswers(t) ==
  /\ Awaits(t, {"reply"})
  /\ Free(t)
  /\ UNCHANGED <<server, ready, broken, resets, tasks>>

-----------------------------------------------------------------------------
(* AgenticInvestigationHarness.investigate.                                *)

\* _compute_evidence_sufficiency, in percent.
Sufficiency(q, i) ==
  IF i.seen = {} THEN 10
  ELSE Min({100, 20 + Min({40, 10 * Cardinality(i.seen)}) + Min({30, 5 * i.rels})
                   + IF Named[q] \cap i.seen # {} THEN 20 ELSE 0})

\* The first two keys, when the new ids come in any order behind the old ones.
Leads(i, new) ==
  LET seen == i.seen \cup new
      n == Min({2, Cardinality(seen)})
  IN {s \in [1..n -> seen] : IsPrefix(i.lead, s) /\ IsInjective(s)}

Add(i, new) == {[i EXCEPT !.seen = @ \cup new, !.lead = s] : s \in Leads(i, new)}

\* The ids of a context.
IdsOf(ctx)  == {v.id : v \in ctx.vertices}

\* What a strategy asks.
Move(i, q) ==
  CASE i.strategy = "entity_link_and_expand"  -> Near(i.lead[1], 2)
    [] i.strategy = "multi_hop_path"          -> Path(<<i.lead[1], i.lead[2]>>, 4)
    [] i.strategy = "community_global_search" -> Global(q, 3)
    [] OTHER                                  -> Local(q, 1, 5)

\* Variant for the mutants: the loop makes a step too many.
PursueAgain(t, k, i) ==
  IF i.step <= MaxSteps /\ (i.step = 1 \/ i.score < Target)
  THEN LET n == [i EXCEPT !.step = @ + 1] IN
       CallThen(t, Move(n, Question(k)), [k EXCEPT !.stage = "explore", !.inquiry = n])
  ELSE WithoutCall(t, [k EXCEPT !.stage = "conclude", !.inquiry = i])

\* Variant for the mutants: the loop does not count its steps.
PursueUncounted(t, k, i) ==
  IF i.step < MaxSteps /\ (i.step = 1 \/ i.score < Target)
  THEN CallThen(t, Move(i, Question(k)), [k EXCEPT !.stage = "explore", !.inquiry = i])
  ELSE WithoutCall(t, [k EXCEPT !.stage = "conclude", !.inquiry = i])

\* The loop goes on or ends.
Pursue(t, k, i) ==
  IF i.step < MaxSteps /\ (i.step = 1 \/ i.score < Target)
  THEN LET n == [i EXCEPT !.step = @ + 1] IN
       CallThen(t, Move(n, Question(k)), [k EXCEPT !.stage = "explore", !.inquiry = n])
  ELSE WithoutCall(t, [k EXCEPT !.stage = "conclude", !.inquiry = i])

\* The next word is looked up, or the loop begins.
Link(t, k, i) ==
  IF i.words # <<>>
  THEN CallThen(t, Entity(Head(i.words), 1),
                [k EXCEPT !.stage = "link", !.inquiry = [i EXCEPT !.words = Tail(@)]])
  ELSE Pursue(t, k, IF i.seen # {} THEN i ELSE [i EXCEPT !.strategy = "keyword_local_search"])

Inquire(t, k) ==
  LET words == Tokens[Question(k)] IN
  Link(t, k, [NoInquiry EXCEPT !.words = SubSeq(words, 1, Min({3, Len(words)}))])

Investigate(t) ==
  /\ Begins(t, 2)
  /\ \E q \in Questions : Inquire(t, [NoTask EXCEPT !.kind = "investigate", !.asked = <<q>>])
  /\ UNCHANGED <<server, ready, broken, resets>>

\* A lookup returns; two of its entities at most are taken up.
Linked(t) ==
  /\ Awaits(t, {"link"})
  /\ LET found == IdsOf(frame[t].reply) IN
     \E two \in kSubset(Min({2, Cardinality(found)}), found) :
       \E i \in Add(task[t].inquiry, two) : Link(t, task[t], i)
  /\ UNCHANGED <<server, ready, broken, resets, tasks>>

\* The neighbours that an expansion returned are taken up.
Expanded(i, ctx) ==
  [i EXCEPT !.rels = @ + Cardinality(ctx.edges),
            !.strategy = IF Cardinality(i.seen) >= 2 THEN "multi_hop_path" ELSE "verify_evidence"]

\* What a strategy makes of its reply.
Advanced(i, ctx) ==
  CASE i.strategy = "entity_link_and_expand" -> {Expanded(j, ctx) : j \in Add(i, IdsOf(ctx))}
    [] i.strategy = "multi_hop_path" ->
         {[i EXCEPT !.strategy = IF ctx.paths = {} THEN "community_global_search"
                                 ELSE "verify_evidence"]}
    [] i.strategy = "community_global_search" -> {[i EXCEPT !.strategy = "verify_evidence"]}
    [] OTHER -> Add(i, IdsOf(ctx))

\* A step of the loop returns.
Weighed(t, i) == [i EXCEPT !.score = Sufficiency(Question(task[t]), i)]
Explored(t) ==
  /\ Awaits(t, {"explore"})
  /\ \E i \in Advanced(task[t].inquiry, frame[t].reply) : Pursue(t, task[t], Weighed(t, i))
  /\ UNCHANGED <<server, ready, broken, resets, tasks>>

-----------------------------------------------------------------------------
(* The pipelines and the report.  An LLM that fails, or is not configured, is *)
(* replaced by an extract of the context; answers are not told apart here.    *)

\* run_pipelines: the LLM alone, then on a local search, then on what the agent
\* or a search retrieves.
RunPipelines(t) ==
  /\ Begins(t, 2)
  /\ \E q \in Questions, pipeline \in {"agent", "search"}, mode \in AskedModes :
       WithoutCall(t, [NoTask EXCEPT !.kind = "pipelines", !.stage = "row", !.asked = <<q>>,
                                     !.pipeline = pipeline, !.mode = mode])
  /\ UNCHANGED <<server, ready, broken, resets>>

\* evaluate_report; "llm_only" retrieves as "graphrag" does.
EvaluateReport(t) ==
  /\ Begins(t, 2)
  /\ \E qs \in QuerySets, pipeline \in {"basic_rag", "graphrag"}, mode \in AskedModes :
       WithoutCall(t, [NoTask EXCEPT !.kind = "report", !.stage = "retrieve", !.asked = qs,
                                     !.pipeline = pipeline, !.mode = mode])
  /\ UNCHANGED <<server, ready, broken, resets>>

\* The next query of a report, or its end.
NextQuery(k) == IF Len(k.asked) = 1 THEN NoTask
            ELSE [k EXCEPT !.asked = Tail(@), !.stage = "retrieve"]

\* What the next row, or the next query of a report, is answered from; a query
\* whose retrieval raises is noted and skipped.
Retrieve(t) ==
  /\ task[t].stage = "retrieve"
  /\ LET k == task[t]
         q == Question(k)
     IN IF k.pipeline = "basic_rag" \/ (k.kind = "pipelines" /\ k.rows = 1)
        THEN CallThen(t, Local(q, 1, 5), [k EXCEPT !.stage = IF k.kind = "report" THEN "answer" ELSE "row"])
        ELSE IF k.pipeline = "agent" THEN Inquire(t, k)
        ELSE \E embeds \in Embedded :
               LET reqs == Search(q, k.mode, <<>>, embeds) IN
               IF k.kind = "pipelines" THEN CallOrFree(t, reqs, [k EXCEPT !.stage = "row"])
               ELSE \/ \E req \in reqs : CallThen(t, req, [k EXCEPT !.stage = "answer"])
                    \/ reqs = {} /\ WithoutCall(t, NextQuery(k))
  /\ UNCHANGED <<server, ready, broken, resets, tasks>>

\* answer_question retries a transient failure twice; then a row is added.
Row(t) ==
  /\ task[t].stage = "row" /\ frame[t].at \in {"idle", "reply"}
  /\ LET k == task[t] IN
     \/ key /\ Fault /\ k.attempts < 2 /\ Become(t, [k EXCEPT !.attempts = @ + 1]) /\ UNCHANGED frame
     \/ WithoutCall(t, IF k.rows = 2 THEN NoTask
                       ELSE [k EXCEPT !.rows = @ + 1, !.attempts = 0, !.stage = "retrieve"])
  /\ UNCHANGED <<server, ready, broken, resets, tasks>>

\* _synthesize_answer of an investigation, which may be the third pipeline's.
Conclude(t) ==
  /\ task[t].stage = "conclude"
  /\ WithoutCall(t, IF task[t].kind = "pipelines" THEN [task[t] EXCEPT !.stage = "row"] ELSE NoTask)
  /\ UNCHANGED <<server, ready, broken, resets, tasks>>

\* The default answerer of a report, then its judge; each asks the LLM once.
Answer(t) ==
  /\ Awaits(t, {"answer"})
  /\ WithoutCall(t, [task[t] EXCEPT !.stage = "judge"])
  /\ UNCHANGED <<server, ready, broken, resets, tasks>>

Judge(t) ==
  /\ task[t].stage = "judge"
  /\ WithoutCall(t, NextQuery(task[t]))
  /\ UNCHANGED <<server, ready, broken, resets, tasks>>

-----------------------------------------------------------------------------
Init ==
  /\ AdapterInit
  /\ task = [t \in Threads |-> NoTask]
  /\ tasks = 0

Starts(t) == CallTool(t) \/ Investigate(t) \/ RunPipelines(t) \/ EvaluateReport(t)

\* A step of the task a thread is in.
Works(t) == \/ Adapter(t) /\ UNCHANGED <<task, tasks>>
            \/ ToolAnswers(t) \/ Linked(t) \/ Explored(t) \/ Conclude(t)
            \/ Retrieve(t) \/ Row(t) \/ Answer(t) \/ Judge(t)

Next ==
  \/ \E t \in Threads : Starts(t) \/ Works(t)
  \/ Reset /\ UNCHANGED <<task, tasks>>

\* A thread that serves a task goes on with it.
Spec == Init /\ [][Next]_vars /\ \A t \in Threads : WF_vars(Works(t))

-----------------------------------------------------------------------------
(* Properties.                                                             *)

TypeOK ==
  /\ {key, ready, broken} \subseteq BOOLEAN
  /\ installed \subseteq Queries
  /\ \A t \in Threads :
       /\ frame[t].at \in Calls /\ frame[t].req.op \in Ops \cup {"none"}
       /\ frame[t].hits \subseteq Graph.vectors /\ frame[t].query \in Queries /\ frame[t].wanted \subseteq Queries
       /\ frame[t].reply.vertices \subseteq Graph.vertices \cup [type : {"Paper"}, id : Graph.vectors]
       /\ frame[t].reply.edges \subseteq Graph.edges
       /\ task[t].kind \in Kinds /\ task[t].stage \in Stages
       /\ task[t].inquiry.step \in 1..Max({1, MaxSteps}) /\ task[t].inquiry.strategy \in Strategies
       /\ Len(task[t].inquiry.lead) = Min({2, Cardinality(task[t].inquiry.seen)})
  /\ resets \in 0..MaxResets /\ faults \in 0..MaxFaults /\ tasks \in 0..MaxTasks

\* A server that has lost its installed queries costs no answer (_run installs
\* them and runs the query again): an operation gives up only if a request of its
\* own failed, if another thread was installing or had failed to, or if the
\* server lost the queries again before the second attempt.
EmptyHasCause ==
  \A t \in Threads :
    At(t, "reply") /\ frame[t].reply.failed => frame[t].hit \/ frame[t].met \/ frame[t].lost

\* The walks of n edges from one vertex to another.
Walk(v, w, n) ==
  \E walk \in [0..n -> Graph.vertices] :
    /\ walk[0] = v /\ walk[n] = w
    /\ \A i \in 1..n : \E e \in Graph.edges : Pair(e) = {walk[i - 1], walk[i]}

\* The length of a shortest path, if there is one of at most so many hops.
Shortest(v, w, hops) ==
  {n \in 0..hops : Walk(v, w, n) /\ \A m \in 0..(n - 1) : ~Walk(v, w, m)}

\* path_search runs in two stages, an expansion on the server that collects the
\* edges leading outwards and a search over those edges: what it finds between two
\* vertices, each the only one of its id, is a shortest path within max_hops, and
\* from a paper it finds one if there is one.  (That it would find one from any
\* other vertex, as its docstring has it, is not so: a bare id is a paper's.)
PathsAreShortest ==
  \A t \in Threads :
    LET req == frame[t].req
        found == frame[t].reply.paths
        named(i) == WithId(Graph.vertices, i)
    IN At(t, "reply") /\ req.op = "path_search" /\ ~frame[t].reply.failed =>
         \A v \in named(req.on[1]), w \in named(req.on[2]) :
           named(v.id) = {v} /\ named(w.id) = {w} =>
             /\ found \subseteq Shortest(v, w, req.depth)
             /\ v.type = "Paper" => Shortest(v, w, req.depth) \subseteq found

\* Every task ends, whatever fails on the way and whichever strategies an
\* investigation is driven to.
TasksEnd == \A t \in Threads : task[t].kind # "none" ~> task[t].kind = "none"

=============================================================================

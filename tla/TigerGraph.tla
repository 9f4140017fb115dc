------------------------------ MODULE TigerGraph ------------------------------
(***************************************************************************)
(* The TigerGraph adapter (adapters/tigergraph_adapter.py) and the queries *)
(* it installs on the server (adapters/tigergraph_queries.py): what each   *)
(* retrieval operation answers from a graph, and how threads that share    *)
(* one adapter run the installed queries, install them when the server     *)
(* lacks them and give up with an empty context.                           *)
(*                                                                         *)
(* The server prints vertices and edges in an order of its own, so where   *)
(* the adapter sorts and cuts, any of the vertices that tie may stay.      *)
(* Scores are in percent.  Names, wording and metrics are left out.        *)
(***************************************************************************)
EXTENDS Integers, Sequences, SequencesExt, FiniteSets, FiniteSetsExt

CONSTANTS
  Threads,      \* threads that share the adapter
  Graph,        \* what the server holds: its vertices, edges and vectors
  Ids, Words,   \* ids of vertices; terms of a query and whole queries
  Title, Abstract,  \* the terms in the title and the abstract of each id
  TermsOf,      \* _terms: the terms of each query
  Similarity,   \* how close the vector of an id is to that of a query
  MaxResets,    \* bound: times the server loses its installed queries
  MaxFaults     \* bound: failing calls of the server or the LLM

Types    == {"Paper", "Concept", "Author"}
Vertices == [type : Types, id : Ids]
Edges    == [from : Vertices, to : Vertices]
Papers == {v \in Graph.vertices : v.type = "Paper"}
MaxDepth == 10   \* of RetrievalContract

ASSUME AdapterConstants ==
  /\ Graph.vertices \subseteq Vertices /\ Graph.vectors \subseteq Ids
  /\ IsFiniteSet(Graph.vertices) /\ IsFiniteSet(Graph.vectors)
  /\ \A e \in Graph.edges : {e.from, e.to} \subseteq Graph.vertices
  /\ MaxResets \in Nat /\ MaxFaults \in Nat

VARIABLES
  key,        \* GOOGLE_API_KEY is set: texts can be embedded, an LLM asked
  installed,  \* the queries the server can run
  ready,      \* TigerGraphAdapter._queries_installed
  broken,     \* history variable: the last installation raised or left queries out
  frame,      \* the call each thread is in
  resets, faults

server == <<key, installed>>
tgVars == <<key, installed, ready, broken, frame, resets, faults>>

Queries == {"neighborhood", "local_search", "entity_lookup", "top_concepts",
            "concept_members", "vector_search"}

Fault == faults < MaxFaults /\ faults' = faults + 1

-----------------------------------------------------------------------------
(* The installed queries.                                                  *)

Pair(e) == {e.from, e.to}

\* Variant for the mutants: edges are followed in their direction only.
Followed(edges, R) == {e.to : e \in {f \in edges : f.from \in R}}

\* The ends of the edges at some vertices.
Touched(edges, R) == UNION {Pair(e) : e \in {f \in edges : Pair(f) \cap R # {}}}

\* What some edges lead to from some vertices, round by round (the WHILE loop).
Rounds(edges, seeds, limit) ==
  LET reached[n \in 0..limit] ==
        IF n = 0 THEN seeds ELSE UNION {R \cup Touched(edges, R) : R \in {reached[n - 1]}}
  IN reached

\* What is reached from the seeds in n rounds.  The limit of tg_local_search, 500
\* vertices a result, is out of a small graph's reach.
Reach == [seeds \in SUBSET Graph.vertices |-> Rounds(Graph.edges, seeds, MaxDepth)]

\* What an expansion returns: the vertices it visits, and of the edges those that
\* led to a vertex not visited before (ACCUM).
Outward(seeds, n) ==
  {e \in Graph.edges : /\ Pair(e) \subseteq Reach[seeds][n]
                       /\ Cardinality(Pair(e) \cap Reach[seeds][n - 1]) = 1
                       /\ Cardinality(Pair(e)) = 2}
Expand ==
  [seeds \in SUBSET Graph.vertices |-> [depth \in 0..MaxDepth |->
     [vertices |-> Reach[seeds][depth], edges |-> UNION {Outward(seeds, n) : n \in 1..depth}]]]

\* tg_local_search: abstracts are only scanned when titles gave fewer than k,
\* and a paper found by its abstract counts one term.
Titled(terms) == {p \in Papers : Title[p.id] \cap terms # {}}
Seeds(terms, k) ==
  IF Cardinality(Titled(terms)) >= k THEN Titled(terms)
  ELSE Titled(terms) \cup {p \in Papers : Abstract[p.id] \cap terms # {}}
Relevance(terms, p) == Max({1, Cardinality(Title[p.id] \cap terms)})

Members(c) ==
  {p \in Papers : \E e \in Graph.edges : Pair(e) = {p, [type |-> "Concept", id |-> c]}}

-----------------------------------------------------------------------------
(* What the operations make of the results.                                *)

\* sorted(..., reverse=True)[:k]
Tops(S, score, k) ==
  IF Cardinality(S) <= k THEN {S}
  ELSE {T \in kSubset(k, S) : \A x \in T, y \in S \ T : score[x] >= score[y]}

Clip(n) == Max({0, Min({100, n})})

\* A SubgraphContext; failed is a history variable, the caller cannot tell a
\* failure from an answer that found nothing.
Empty == [vertices |-> {}, edges |-> {}, paths |-> {}, communities |-> {}, docs |-> {},
          failed |-> FALSE]
Failure == [Empty EXCEPT !.failed = TRUE]
Of(x)   == [Empty EXCEPT !.vertices = x.vertices, !.edges = x.edges]

LocalScore(terms, k, v) ==
  LET seeds == Seeds(terms, k) IN
  CASE v \in seeds -> 60 + (40 * Relevance(terms, v)) \div Max({Relevance(terms, s) : s \in seeds})
    [] v \notin seeds /\ v.type = "Paper" -> 50
    [] OTHER -> 40

LocalScores(terms, k, S) == [v \in S |-> LocalScore(terms, k, v)]

\* The documents cited are the seeds that have an abstract.
Citable(seeds) == {p \in seeds : Abstract[p.id] # {}}
Citing(D, V, edges) == [Empty EXCEPT !.vertices = V, !.edges = edges, !.docs = {p.id : p \in D}]
LocalAnswers(terms, depth, k) ==
  LET seeds == Seeds(terms, k)
      found == Expand[seeds][depth]
      score == LocalScores(terms, k, found.vertices \cup seeds)
  IN {Citing(D, V, found.edges) :
        V \in Tops(found.vertices, score, k), D \in Tops(Citable(seeds), score, k)}

\* _vector_search: the nearest PaperEmb vertices, shown as papers.
VectorHits(q, k) ==
  Tops(Graph.vectors, Similarity[q], k)

\* _merge; either weight counts at least a tenth.
Merges(terms, req, hits, local) ==
  LET found == {[type |-> "Paper", id |-> i] : i \in hits}
      score == [v \in local.vertices \cup found |->
                  Max({IF v \in local.vertices
                       THEN LocalScore(terms, req.top, v) * Max({req.weight[2], 10}) ELSE 0,
                       IF v \in found
                       THEN Clip(Similarity[req.on][v.id]) * Max({req.weight[1], 10}) ELSE 0})]
  IN {[local EXCEPT !.vertices = V] : V \in Tops(local.vertices \cup found, score, req.top)}

\* The vertices of an id.
WithId(S, i) == {v \in S : v.id = i}

Ranking == [Paper |-> 1, Concept |-> 2, Author |-> 3]

\* _resolve_entity: papers first, then concepts, then authors.
Resolved(name) ==
  LET hits == WithId(Graph.vertices, name) IN
  {v \in hits : \A w \in hits : Ranking[v.type] <= Ranking[w.type]}

\* _bfs_path over the edges that the expansion returned: the length of the
\* path, if it has one within hops.
BfsPath(edges, source, target, hops) ==
  LET known == UNION {Pair(e) : e \in edges}
      visited == Rounds(edges, {source}, Cardinality(known))
      rounds == {n \in DOMAIN visited : target \in visited[n]}
  IN IF {source, target} \subseteq known /\ rounds # {} /\ Min(rounds) <= hops
     THEN {Min(rounds)} ELSE {}

\* path_search: a bare id is taken for a paper's when the expansion starts, and
\* for that of any vertex the expansion returned when its ends are looked up.  The
\* length stands for the path, and the ends for its vertices.
Guesses(S, i) == IF WithId(S, i) = {} THEN {[type |-> "Paper", id |-> i]} ELSE WithId(S, i)
Between(ends, lengths) == [Empty EXCEPT !.vertices = ends, !.paths = lengths]
PathsIn(x, source, target, hops) ==
  LET ends == WithId(x.vertices, source) \cup WithId(x.vertices, target) IN
  {Between(ends, BfsPath(x.edges, s, t, hops)) :
     s \in Guesses(x.vertices, source), t \in Guesses(x.vertices, target)}
PathAnswers == [source \in Ids |-> [target \in Ids |-> [hops \in 0..MaxDepth |->
  PathsIn(Expand[WithId(Papers, source)][hops], source, target, hops)]]]

\* community_members looks for the abstracts in records that no longer have
\* them, so that it returns no chunks.
Community(c) ==
  [Empty EXCEPT !.communities = {v.id : v \in {w \in Graph.vertices : w.type = "Concept" /\ w.id = c}},
                !.vertices = Members(c), !.docs = {p.id : p \in Members(c)}]

TopConcepts(k) ==
  LET size == [c \in Ids |-> Cardinality(Members(c))]
      counted == {i \in {v.id : v \in {w \in Graph.vertices : w.type = "Concept"}} : size[i] > 0}
  IN {[Empty EXCEPT !.communities = C] : C \in Tops(counted, size, k)}

Lookup(name, depth) ==
  LET seed == Resolved(name) IN
  [Of(Expand[seed][depth]) EXCEPT !.docs = {v.id : v \in seed \cap Papers}]

\* The answers to a request, when its query ran with these terms; hits are what
\* the vector search of a hybrid search returned.
Answers(req, terms, hits) ==
  CASE req.op = "local_search"  -> LocalAnswers(terms, req.depth, req.top)
    [] req.op = "hybrid_search" ->
         UNION {Merges(terms, req, hits, local) :
                  local \in LocalAnswers(terms, req.depth, req.top)}
    [] req.op = "global_search" -> TopConcepts(req.top)
    [] req.op = "entity_lookup" -> {Lookup(req.on, req.depth)}
    [] req.op = "path_search"   -> PathAnswers[req.on[1]][req.on[2]][req.depth]
    [] req.op = "neighborhood"  -> {Of(Expand[WithId(Papers, req.on)][req.depth])}
    [] req.op = "community_members" -> {Community(req.on)}

-----------------------------------------------------------------------------
(* Calls.  A thread calls an operation, runs its queries through _run and is  *)
(* left with a reply, which the caller takes.                                 *)

QueryOf == [local_search |-> "local_search", hybrid_search |-> "local_search",
            global_search |-> "top_concepts", entity_lookup |-> "entity_lookup",
            path_search |-> "neighborhood", neighborhood |-> "neighborhood",
            community_members |-> "concept_members"]
Ops == DOMAIN QueryOf

NoRequest == [op |-> "none", on |-> <<>>, depth |-> 0, top |-> 0, weight |-> <<0, 0>>]
Calls == {"idle", "run", "probe", "replace", "install", "rerun", "fallback", "reply"}

\* wanted are the queries a thread is installing and forced is set when it does so
\* because its query had failed; hit, met and lost are history variables of the
\* call: one of its requests to the server failed, another thread's installation
\* was under way or had failed when its query did, the server lost its queries
\* after the call had reinstalled them.
NoCall == [at |-> "idle", req |-> NoRequest, query |-> "local_search", wanted |-> {},
           forced |-> FALSE, hits |-> {}, reply |-> Empty, hit |-> FALSE, met |-> FALSE,
           lost |-> FALSE]

At(t, step) == frame[t].at = step
Set(t, new) == frame' = [frame EXCEPT ![t] = new]
Goto(t, step) == Set(t, [frame[t] EXCEPT !.at = step])

\* Where _run(query) begins: install first if the flag is not set.
Entry == IF ready THEN "run" ELSE "probe"

\* _embedding_enabled.
Embeds == key /\ Graph.vectors # {}

\* The first step of an operation.  Resolving a name takes requests of its own,
\* whose failures read as "no such vertex".
Begin(t, req) ==
  LET start == [NoCall EXCEPT !.at = Entry, !.req = req, !.query = QueryOf[req.op]] IN
  \/ /\ CASE req.op = "hybrid_search" /\ Embeds -> Set(t, [start EXCEPT !.query = "vector_search"])
          [] req.op = "entity_lookup" /\ Resolved(req.on) = {} -> Set(t, [start EXCEPT !.at = "reply"])
          [] OTHER -> Set(t, start)
     /\ UNCHANGED faults
  \/ /\ req.op = "entity_lookup" /\ Fault
     /\ Set(t, [start EXCEPT !.at = "reply", !.hit = TRUE, !.reply = Failure])
  \/ req.op = "hybrid_search" /\ Embeds /\ Fault /\ Set(t, [start EXCEPT !.hit = TRUE])

\* An operation that cannot run its query is answered with an empty context; a
\* hybrid search goes on without vectors, or is left with those it found.
GiveUp(f) ==
  IF f.query = "vector_search" THEN [f EXCEPT !.at = Entry, !.query = "local_search"]
  ELSE [f EXCEPT !.at = "reply", !.reply = [Failure EXCEPT !.vertices = {[type |-> "Paper", id |-> i] : i \in f.hits}]]

\* A query has run.
Succeed(t, terms) ==
  LET f == frame[t] IN
  IF f.query = "vector_search"
  THEN \E h \in VectorHits(f.req.on, f.req.top) :
         Set(t, [f EXCEPT !.at = Entry, !.query = "local_search", !.hits = h])
  ELSE \E a \in Answers(f.req, terms, f.hits) : Set(t, [f EXCEPT !.at = "reply", !.reply = a])

Terms(f) == IF QueryOf[f.req.op] = "local_search" THEN TermsOf[f.req.on] ELSE {}

Installing(t) == At(t, "replace") \/ At(t, "install")
OthersInstall(t) == broken \/ \E u \in Threads \ {t} : Installing(u) 

\* The query raises: it is not installed, or the request failed.
Raises(t) ==
  \/ frame[t].query \notin installed /\ UNCHANGED faults
  \/ frame[t].query \in installed /\ Fault
Noted(t) ==
  [frame[t] EXCEPT !.hit = @ \/ frame[t].query \in installed, !.met = @ \/ OthersInstall(t)]

\* Variant for the mutants: no second attempt.
RunOnce(t) ==
  /\ At(t, "run")
  /\ \/ frame[t].query \in installed /\ Succeed(t, Terms(frame[t])) /\ UNCHANGED <<ready, faults>>
     \/ Raises(t) /\ ready' = FALSE /\ Set(t, GiveUp(Noted(t)))
  /\ UNCHANGED <<server, broken, resets>>

\* try: runInstalledQuery; its except clause reinstalls unless the flag has been
\* cleared since the call began.
Run(t) ==
  /\ At(t, "run")
  /\ \/ frame[t].query \in installed /\ Succeed(t, Terms(frame[t])) /\ UNCHANGED <<ready, faults>>
     \/ /\ Raises(t) /\ ready
        /\ ready' = FALSE
        /\ Set(t, [Noted(t) EXCEPT !.at = "replace", !.forced = TRUE, !.wanted = Queries])
     \/ /\ Raises(t) /\ ~ready
        /\ UNCHANGED ready
        /\ Set(t, GiveUp(Noted(t)))
  /\ UNCHANGED <<server, broken, resets>>

\* _installed_query_names; a failing probe means that all are wanted.
Probe(t) ==
  /\ At(t, "probe")
  /\ \E have \in {installed, {}} :
       /\ IF have = installed THEN UNCHANGED faults ELSE Fault
       /\ IF Queries \subseteq have
          THEN ready' = TRUE /\ broken' = FALSE /\ Goto(t, "run")
          ELSE /\ UNCHANGED <<ready, broken>>
               /\ Set(t, [frame[t] EXCEPT !.at = "replace", !.wanted = Queries \ have, !.forced = FALSE])
  /\ UNCHANGED <<server, resets>>

\* CREATE OR REPLACE of each wanted query, failures ignored.  The server may or
\* may not keep the version that is being replaced until the installation.
Replace(t) ==
  /\ At(t, "replace")
  /\ installed' \in {installed, installed \ frame[t].wanted}
  /\ \/ Goto(t, "install") /\ UNCHANGED <<broken, faults>>
     \/ broken' = TRUE /\ \E q \in frame[t].wanted :
          Fault /\ Set(t, [frame[t] EXCEPT !.at = "install", !.wanted = @ \ {q}, !.hit = TRUE])
  /\ UNCHANGED <<key, ready, resets>>

\* INSTALL QUERY.
Install(t) ==
  /\ At(t, "install")
  /\ \/ /\ installed' = installed \cup frame[t].wanted
        /\ ready' = TRUE
        /\ broken' = (installed' # Queries)
        /\ Goto(t, IF frame[t].forced THEN "rerun" ELSE "run")
        /\ UNCHANGED faults
     \/ /\ Fault
        /\ broken' = TRUE
        /\ UNCHANGED <<installed, ready>>
        /\ Set(t, GiveUp([frame[t] EXCEPT !.hit = TRUE]))
  /\ UNCHANGED <<key, resets>>

\* The second attempt, and for a local search a third with the whole query as
\* its only term.
Rerun(t) ==
  /\ At(t, "rerun")
  /\ \/ frame[t].query \in installed /\ Succeed(t, Terms(frame[t])) /\ UNCHANGED faults
     \/ /\ Raises(t)
        /\ Set(t, IF frame[t].query = "local_search" THEN [Noted(t) EXCEPT !.at = "fallback"]
                  ELSE GiveUp(Noted(t)))
  /\ UNCHANGED <<server, ready, broken, resets>>

Fallback(t) ==
  /\ At(t, "fallback")
  /\ \/ frame[t].query \in installed /\ Succeed(t, {frame[t].req.on}) /\ UNCHANGED faults
     \/ Raises(t) /\ Set(t, GiveUp(Noted(t)))
  /\ UNCHANGED <<server, ready, broken, resets>>

\* The server loses its installed queries.
Reset ==
  /\ resets < MaxResets
  /\ resets' = resets + 1
  /\ installed' = {}
  /\ frame' = [t \in Threads |-> [frame[t] EXCEPT !.lost = @ \/ frame[t].at \in {"rerun", "fallback"}]]
  /\ UNCHANGED <<key, ready, broken, faults>>

AdapterInit ==
  /\ key \in BOOLEAN
  /\ installed \in {{}, Queries}
  /\ ready = FALSE
  /\ broken = FALSE
  /\ frame = [t \in Threads |-> NoCall]
  /\ resets = 0 /\ faults = 0

Adapter(t) == Run(t) \/ Probe(t) \/ Replace(t) \/ Install(t) \/ Rerun(t) \/ Fallback(t)

=============================================================================

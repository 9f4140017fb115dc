------------------------------ MODULE Federation ------------------------------
(***************************************************************************)
(* Queries over several graphs: FederationContract of                      *)
(* mcp_server/contracts/federation.py.                                     *)
(*                                                                         *)
(* A search fans its backend references out to a pool of threads; an       *)
(* entity link goes through them one by one. All threads of all requests   *)
(* share one dictionary of adapters, by backend name, without a lock: each *)
(* of its operations is atomic, and _resolve is a sequence of them.        *)
(* Opening an adapter and searching with it are calls that take time and   *)
(* may fail; a failure is kept as that backend's result and the others are *)
(* merged.                                                                 *)
(*                                                                         *)
(* Data abstraction: an adapter is the graph it reaches, and the primary   *)
(* adapter is the only one that reaches Primary.  The order in which the   *)
(* dictionary lists its names is left open.  What the backend of graph g   *)
(* answers is Found[g].  Of the merged context only the entities are kept, *)
(* each of which a backend returns once; scores are integers, Scale times  *)
(* the code's.                                                             *)
(***************************************************************************)
EXTENDS Integers, Sequences, FiniteSets, FiniteSetsExt

CONSTANTS
  Requests,     \* calls of federated_search or cross_graph_entity_link
  Names,        \* backend names
  Graphs,       \* graph ids
  Primary,      \* the graph of the primary adapter
  None,         \* no adapter
  RefLists,     \* the lists of references that are asked for
  Setups,       \* adapters registered before the first request (the bound is not
                \* enforced by register_backend: here the caller keeps it)
  Registrable,  \* the names that register_backend is called with while requests run
  MaxBackends,  \* _MAX_REGISTERED_BACKENDS
  MaxWorkers,   \* _MAX_WORKERS
  MaxRefs,      \* bound: length of a list of references
  Entities,     \* entities, told apart by type and id
  Found,        \* Found[g]: what the backend of graph g answers
  RrfK,         \* rrf_k
  TopK,         \* top_k
  Scale,        \* unit of the scores: a multiple of every RrfK + rank
  Grain         \* scores are rounded to a multiple of it

Ref  == [name : Names, graph : Graphs, weight : Nat \ {0}]
Hit  == [entity : Entities, relevance : Nat]
Task == Requests \X (1..MaxRefs)

ASSUME FederationConstants ==
  /\ Primary \in Graphs
  /\ None \notin Graphs
  /\ IsFiniteSet(Names)
  /\ MaxRefs \in Nat
  /\ RefLists \subseteq Seq(Ref)
  /\ \A l \in RefLists : Len(l) \in 1..MaxRefs
  /\ Setups \subseteq [Names -> Graphs \cup {None}]
  /\ \A s \in Setups : Cardinality({n \in Names : s[n] \notin {None, Primary}}) <= MaxBackends
  /\ Registrable \subseteq Names
  /\ MaxBackends \in Nat \ {0}
  /\ MaxWorkers \in Nat \ {0}
  /\ IsFiniteSet(Entities)
  /\ Found \in [Graphs -> Seq(Hit)]
  /\ \A g \in Graphs : \A i, j \in DOMAIN Found[g] :
       Found[g][i].entity = Found[g][j].entity => i = j
  /\ RrfK \in Nat \ {0} /\ TopK \in Nat \ {0} /\ Scale \in Nat /\ Grain \in Nat \ {0}
  /\ \A rank \in 1..Cardinality(Entities) : Scale % (RrfK + rank) = 0

Strategies == {"rrf", "weighted_score"}
Operations == {"search", "link"}
Steps      == {"none", "queued", "lookup", "fetch", "reuse", "bound", "list", "inspect",
               "delete", "build", "search", "done"}
Outcomes   == {"none", "answered", "failed", "raced"}

VARIABLES
  registry,  \* _registered
  refs,      \* the references of each request, <<>> before it begins
  op,        \* which operation each request is
  merged,    \* the merged entities of each finished search
  phase,     \* of each request: idle, running, done
  pc,        \* the next step of each task: one reference of one request
  keys,      \* the names a task has listed for eviction and not yet inspected
  adapter,   \* the adapter each task has resolved
  outcome,   \* how each task ended
  given,     \* history variable: the graphs register_backend put under each name
  filled,    \* history variable: the registry was once found full
  crowded    \* history variable: two tasks were once adding a backend at the same time

requests == <<refs, op, phase, merged>>
tasks    == <<pc, keys, adapter, outcome>>
history  == <<given, filled, crowded>>
vars     == <<registry, requests, tasks, history>>

Registered == {n \in Names : registry[n] # None}

\* The backends other than the primary that hold a connection open.
Clones == {n \in Names : registry[n] \notin {None, Primary}}

\* The types of the control state.
ControlOK ==
  /\ registry \in [Names -> Graphs \cup {None}]
  /\ refs \in [Requests -> RefLists \cup {<<>>}]
  /\ op \in [Requests -> Operations]
  /\ phase \in [Requests -> {"idle", "running", "done"}]
  /\ pc \in [Task -> Steps]
  /\ keys \in [Task -> SUBSET Names]
  /\ adapter \in [Task -> Graphs \cup {None}]
  /\ outcome \in [Task -> Outcomes]
  /\ \A t \in Task : pc[t] # "none" => t[2] \in DOMAIN refs[t[1]]
  /\ \A t \in Task : pc[t] = "delete" => \E k \in Names : keys[t] = {k}
  /\ \A t \in Task : pc[t] = "search" \/ outcome[t] = "answered" => adapter[t] \in Graphs
  /\ given \in [Names -> SUBSET Graphs]
  /\ filled \in BOOLEAN
  /\ crowded \in BOOLEAN

TypeOK ==
  /\ ControlOK
  /\ merged \in [Requests -> Seq(Entities)]

Init ==
  /\ registry \in Setups
  /\ refs = [r \in Requests |-> <<>>]
  /\ op = [r \in Requests |-> "search"]
  /\ phase = [r \in Requests |-> "idle"]
  /\ merged = [r \in Requests |-> <<>>]
  /\ pc = [t \in Task |-> "none"]
  /\ keys = [t \in Task |-> {}]
  /\ adapter = [t \in Task |-> None]
  /\ outcome = [t \in Task |-> "none"]
  /\ given = [n \in Names |-> {registry[n]} \ {None}]
  /\ filled = FALSE
  /\ crowded = FALSE

-----------------------------------------------------------------------------
(* _resolve, one operation on the dictionary at a time.                    *)

RefOf(t) == refs[t[1]][t[2]]
Name(t)  == RefOf(t).name
Graph(t) == RefOf(t).graph

Goto(t, step) == pc' = [pc EXCEPT ![t] = step]

End(t, how) ==
  /\ Goto(t, "done")
  /\ outcome' = [outcome EXCEPT ![t] = how]

\* (The definitions named Bad... are not the code: they are wrong variants of
\* the definitions below them, one for each property.)
BadResolved(t, g) ==
  /\ UNCHANGED adapter
  /\ Goto(t, "search")

Resolved(t, g) ==
  /\ adapter' = [adapter EXCEPT ![t] = g]
  /\ Goto(t, "search")

\* The graph id is malformed.
Reject(t) ==
  /\ pc[t] = "lookup"
  /\ End(t, "failed")
  /\ UNCHANGED <<registry, requests, keys, adapter, history>>

\* Is the name registered?  Else, is it the primary's graph that is asked for?
Lookup(t) ==
  /\ pc[t] = "lookup"
  /\ Goto(t, IF registry[Name(t)] # None THEN "fetch"
             ELSE IF Graph(t) = Primary THEN "reuse" ELSE "bound")
  /\ UNCHANGED <<registry, requests, keys, adapter, outcome, history>>

\* The registered adapter, whatever graph it reaches; a KeyError if the name was
\* evicted since Lookup.
Fetch(t) ==
  LET g == registry[Name(t)] IN
  /\ pc[t] = "fetch"
  /\ \/ /\ g # None
        /\ Resolved(t, g)
        /\ UNCHANGED outcome
     \/ /\ g = None
        /\ End(t, "raced")
        /\ UNCHANGED adapter
  /\ UNCHANGED <<registry, requests, keys, history>>

Reuse(t) ==
  /\ pc[t] = "reuse"
  /\ registry' = [registry EXCEPT ![Name(t)] = Primary]
  /\ Resolved(t, Primary)
  /\ UNCHANGED <<requests, keys, outcome, history>>

\* The tasks that are between the check of the bound and the new registration.
Adding == {t \in Task : pc[t] \in {"list", "inspect", "delete", "build"}}

BadCheckBound(t) ==
  /\ pc[t] = "bound"
  /\ Goto(t, "list")
  /\ crowded' = (crowded \/ Adding # {})
  /\ UNCHANGED <<registry, requests, keys, adapter, outcome, given, filled>>

BadCheckNothing(t) ==
  /\ pc[t] = "bound"
  /\ Goto(t, "build")
  /\ crowded' = (crowded \/ Adding # {})
  /\ UNCHANGED <<registry, requests, keys, adapter, outcome, given, filled>>

CheckBound(t) ==
  LET full == Cardinality(Registered) >= MaxBackends IN
  /\ pc[t] = "bound"
  /\ Goto(t, IF full THEN "list" ELSE "build")
  /\ filled' = (filled \/ full)
  /\ crowded' = (crowded \/ Adding # {})
  /\ UNCHANGED <<registry, requests, keys, adapter, outcome, given>>

ListKeys(t) ==
  /\ pc[t] = "list"
  /\ keys' = [keys EXCEPT ![t] = Registered]
  /\ Goto(t, "inspect")
  /\ UNCHANGED <<registry, requests, adapter, outcome, history>>

\* The loop looks for an adapter that is not the primary; one of its names may
\* be gone by now.
Inspect(t) ==
  /\ pc[t] = "inspect"
  /\ \/ /\ keys[t] = {}
        /\ Goto(t, "build")
        /\ UNCHANGED <<keys, outcome>>
     \/ \E k \in keys[t] :
          \/ /\ registry[k] = Primary
             /\ keys' = [keys EXCEPT ![t] = @ \ {k}]
             /\ UNCHANGED <<pc, outcome>>
          \/ /\ registry[k] \notin {None, Primary}
             /\ keys' = [keys EXCEPT ![t] = {k}]
             /\ Goto(t, "delete")
             /\ UNCHANGED outcome
          \/ /\ registry[k] = None
             /\ End(t, "raced")
             /\ UNCHANGED keys
  /\ UNCHANGED <<registry, requests, adapter, history>>

Delete(t) ==
  /\ pc[t] = "delete"
  /\ \E k \in keys[t] :
       \/ /\ registry[k] # None
          /\ registry' = [registry EXCEPT ![k] = None]
          /\ Goto(t, "build")
          /\ UNCHANGED outcome
       \/ /\ registry[k] = None
          /\ End(t, "raced")
          /\ UNCHANGED registry
  /\ UNCHANGED <<requests, keys, adapter, history>>

\* The adapter is opened, then registered.
BadBuild(t) ==
  /\ pc[t] = "build"
  /\ \E g \in {Graph(t), Primary} :
       /\ registry' = [registry EXCEPT ![Name(t)] = g]
       /\ Resolved(t, g)
  /\ UNCHANGED <<requests, keys, outcome, history>>

Build(t) ==
  /\ pc[t] = "build"
  /\ \/ /\ registry' = [registry EXCEPT ![Name(t)] = Graph(t)]
        /\ Resolved(t, Graph(t))
        /\ UNCHANGED outcome
     \/ /\ End(t, "failed")
        /\ UNCHANGED <<registry, adapter>>
  /\ UNCHANGED <<requests, keys, history>>

\* RetrievalContract(adapter).search.
Search(t) ==
  /\ pc[t] = "search"
  /\ \E how \in {"answered", "failed"} : End(t, how)
  /\ UNCHANGED <<registry, requests, keys, adapter, history>>

-----------------------------------------------------------------------------
(* _merge.  The tasks of a request are named by their positions.           *)

Answered(r) == {i \in DOMAIN refs[r] : outcome[<<r, i>>] = "answered"}
Answer(r, i) == Found[adapter[<<r, i>>]]
Returned(r, i) == {Answer(r, i)[x].entity : x \in DOMAIN Answer(r, i)}
EntitiesOf(r) == UNION {Returned(r, i) : i \in Answered(r)}

\* The rank of an entity among what a backend answered: by relevance, and in the
\* answer's order where that is equal.
HitOf(l, e) == CHOOSE x \in DOMAIN l : l[x].entity = e
Rank(l, e) ==
  LET x == HitOf(l, e) IN
  1 + Cardinality({y \in DOMAIN l : \/ l[y].relevance > l[x].relevance
                                    \/ l[y].relevance = l[x].relevance /\ y < x})

Contribution(r, s, i, e) ==
  LET l == Answer(r, i) IN
  refs[r][i].weight * IF s = "rrf" THEN Scale \div (RrfK + Rank(l, e))
                      ELSE Scale * l[HitOf(l, e)].relevance

\* What is added up from the first position of a sequence to the last.
Total(f) ==
  LET upTo[n \in 0..Len(f)] == IF n = 0 THEN 0 ELSE upTo[n - 1] + f[n]
  IN upTo[Len(f)]

\* The weights of all the references, those that failed included.
TotalWeight(r) == Total([i \in DOMAIN refs[r] |-> refs[r][i].weight])

\* The answers that have an entity.
Holding(r, e) == {i \in Answered(r) : e \in Returned(r, i)}

BadScore(r, s, e) == Contribution(r, s, Max(Holding(r, e)), e) \div Grain

Gains(r, s, e) ==
  [i \in DOMAIN refs[r] |-> IF i \in Holding(r, e) THEN Contribution(r, s, i, e) ELSE 0]

Divisor(r, s) == IF s = "rrf" THEN 1 ELSE TotalWeight(r)

Score(r, s, e) == Total(Gains(r, s, e)) \div (Divisor(r, s) * Grain)

\* The answer, and the place in it, in which an entity was met first.
Met(r, e) ==
  LET i == Min(Holding(r, e))
  IN <<i, Rank(Answer(r, i), e)>>

Entries(r, s) ==
  {[entity |-> e, score |-> Score(r, s, e), met |-> Met(r, e)] : e \in EntitiesOf(r)}

\* entities is a dictionary and the sort is stable: among equal scores the entity
\* that was met first comes first.
Precedes(m, n) ==
  \/ m.score > n.score
  \/ /\ m.score = n.score
     /\ \/ m.met[1] < n.met[1]
        \/ m.met[1] = n.met[1] /\ m.met[2] < n.met[2]

Sorted(M, k) ==
  [x \in 1..Min({Cardinality(M), k}) |->
     CHOOSE m \in M : Cardinality({n \in M : Precedes(n, m)}) = x - 1]

MergedEntities(r, s) ==
  LET top == Sorted(Entries(r, s), TopK)
  IN [x \in DOMAIN top |-> top[x].entity]

-----------------------------------------------------------------------------
(* Requests.                                                               *)

Begin(r, l, o) ==
  /\ phase[r] = "idle"
  /\ phase' = [phase EXCEPT ![r] = "running"]
  /\ refs' = [refs EXCEPT ![r] = l]
  /\ op' = [op EXCEPT ![r] = o]
  /\ pc' = [t \in Task |-> IF t[1] = r /\ t[2] \in DOMAIN l THEN "queued" ELSE pc[t]]
  /\ UNCHANGED <<registry, merged, keys, adapter, outcome, history>>

\* cross_graph_entity_link resolves its references one after the other;
\* federated_search hands them to a pool of at most MaxWorkers threads.
Width(r) == IF op[r] = "search" THEN MaxWorkers ELSE 1

\* A pool takes up its tasks in order.
Start(t) ==
  LET mine == {u \in Task : u[1] = t[1]} IN
  /\ pc[t] = "queued"
  /\ \A u \in mine : u[2] < t[2] => pc[u] # "queued"
  /\ Cardinality({u \in mine : pc[u] \notin {"none", "queued", "done"}}) < Width(t[1])
  /\ Goto(t, "lookup")
  /\ UNCHANGED <<registry, requests, keys, adapter, outcome, history>>

Finish(r, entities) ==
  /\ phase[r] = "running"
  /\ \A i \in DOMAIN refs[r] : pc[<<r, i>>] = "done"
  /\ phase' = [phase EXCEPT ![r] = "done"]
  /\ merged' = [merged EXCEPT ![r] = entities]
  /\ UNCHANGED <<registry, refs, op, tasks, history>>

\* The strategy is part of the search; it is chosen where it is first used.
Merge(r) == op[r] = "search" /\ \E s \in Strategies : Finish(r, MergedEntities(r, s))

\* The links that were found are not modelled.
ReturnLinks(r) == op[r] = "link" /\ Finish(r, <<>>)

\* register_backend without an adapter, as graphrag_register_backend calls it:
\* the name stands for the primary adapter.
Register(n) ==
  /\ registry' = [registry EXCEPT ![n] = Primary]
  /\ given' = [given EXCEPT ![n] = @ \cup {Primary}]
  /\ UNCHANGED <<requests, tasks, filled, crowded>>

Step(t) ==
  \/ Start(t) \/ Reject(t) \/ Lookup(t) \/ Fetch(t) \/ Reuse(t) \/ CheckBound(t)
  \/ ListKeys(t) \/ Inspect(t) \/ Delete(t) \/ Build(t) \/ Search(t)

Next ==
  \/ \E r \in Requests :
       \/ \E l \in RefLists, o \in Operations : Begin(r, l, o)
       \/ Merge(r) \/ ReturnLinks(r)
  \/ \E t \in Task : Step(t)
  \/ \E n \in Registrable : Register(n)

Spec == Init /\ [][Next]_vars

-----------------------------------------------------------------------------
(* Properties.                                                             *)

\* The connections that the registry keeps open are bounded as _resolve intends,
\* until two threads are once past its check together: neither evictions, nor
\* names that are registered meanwhile, nor backends that cannot be opened ever
\* push a lone thread over the bound.
OvershootNeedsRace == ~crowded => Cardinality(Clones) <= MaxBackends

\* A backend is lost to a race on the registry (a KeyError in _resolve) only
\* after the registry has once been found full: as long as it is not, each
\* backend that can be reached answers, whatever runs at the same time.
RaceNeedsEviction == \A t \in Task : outcome[t] = "raced" => filled

\* The name n was used for graph g before: register_backend gave it an adapter of
\* g, or a reference that asked for g under it resolved to g.
Brought(n, g) ==
  \/ g \in given[n]
  \/ \E u \in Task : /\ pc[u] # "none"
                     /\ Name(u) = n /\ Graph(u) = g /\ adapter[u] = g

\* BackendRef calls graph_id the "graph name to fan the query out to", but the
\* registry is keyed by name alone.  A reference is answered by another graph than
\* the one it asks for only if its very name was used for that graph before: no
\* eviction, race, failure or use of other names ever makes it so.
WrongGraphNeedsReuse ==
  \A t \in Task :
    outcome[t] = "answered" /\ adapter[t] # Graph(t) => Brought(Name(t), adapter[t])

\* The merge is unanimous: an entity that every backend which returns f ranks
\* above f comes before f in the merged list, under either strategy, although
\* scores are rounded and the list is cut at top_k.
Unanimous ==
  \A r \in Requests : phase[r] = "done" /\ op[r] = "search" =>
    \A e, f \in EntitiesOf(r) :
      /\ e # f
      /\ \A i \in Answered(r) : f \in Returned(r, i) =>
           /\ e \in Returned(r, i)
           /\ Rank(Answer(r, i), e) < Rank(Answer(r, i), f)
      => \A y \in DOMAIN merged[r] : merged[r][y] = f => \E x \in 1..(y - 1) : merged[r][x] = e

=============================================================================

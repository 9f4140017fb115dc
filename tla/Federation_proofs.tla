-------------------------- MODULE Federation_proofs --------------------------
(***************************************************************************)
(* Theorems about Federation, for every number of requests, names, threads *)
(* and backends: types, where a race can lose a backend, which graph an    *)
(* answer comes from, and when the bound on open connections is kept.  The *)
(* last part is about the merge: sums, ranks and sorted lists as operators,*)
(* and from these that the merged list agrees with the backends where they *)
(* agree.                                                                  *)
(***************************************************************************)
EXTENDS Federation, FiniteSetTheorems, WellFoundedInduction, TLAPS

\* A request that has not begun has no task.
IdleInv ==
  \A t \in Task : phase[t[1]] = "idle" => pc[t] = "none" /\ outcome[t] = "none"

Shape == ControlOK /\ IdleInv

\* The shape holds initially.
LEMMA ShapeInit == Init => Shape
<1> SUFFICES ASSUME Init PROVE Shape
  OBVIOUS
<1>1. /\ registry \in [Names -> Graphs \cup {None}]
      /\ given \in [Names -> SUBSET Graphs]
  BY FederationConstants DEF Init
<1>2. /\ refs \in [Requests -> RefLists \cup {<<>>}]
      /\ op \in [Requests -> Operations]
      /\ phase \in [Requests -> {"idle", "running", "done"}]
      /\ pc \in [Task -> Steps]
      /\ keys \in [Task -> SUBSET Names]
      /\ adapter \in [Task -> Graphs \cup {None}]
      /\ outcome \in [Task -> Outcomes]
  BY DEF Init, Operations, Steps, Outcomes
<1>3. \A t \in Task : pc[t] = "none" /\ outcome[t] = "none"
  BY DEF Init
<1>4. filled \in BOOLEAN /\ crowded \in BOOLEAN
  BY DEF Init
<1> QED BY <1>1, <1>2, <1>3, <1>4 DEF Shape, ControlOK, IdleInv

\* The reference, name and graph of a task that exists have their types.
LEMMA TaskRef ==
  ASSUME ControlOK, NEW t \in Task, pc[t] # "none"
  PROVE  RefOf(t) \in Ref /\ Name(t) \in Names /\ Graph(t) \in Graphs
<1>1. t[1] \in Requests /\ t[2] \in DOMAIN refs[t[1]]
  BY DEF ControlOK, Task
<1>2. refs[t[1]] \in Seq(Ref)
  BY <1>1, FederationConstants DEF ControlOK
<1>3. refs[t[1]][t[2]] \in Ref
  BY <1>1, <1>2
<1> QED BY <1>3 DEF RefOf, Name, Graph, Ref

\* Every step keeps the shape.
LEMMA ShapeStep == Shape /\ [Next]_vars => Shape'
<1> SUFFICES ASSUME Shape, [Next]_vars PROVE Shape'
  OBVIOUS
<1> USE DEF Shape
<1>1. ASSUME NEW r \in Requests, NEW l \in RefLists, NEW o \in Operations, Begin(r, l, o)
      PROVE  Shape'
  <2>1. \A t \in Task : t[1] = r => pc[t] = "none" /\ outcome[t] = "none"
    BY <1>1 DEF Begin, IdleInv
  <2>2. pc' \in [Task -> Steps] /\ \A t \in Task : pc'[t] # "none" => t[2] \in DOMAIN refs'[t[1]]
    BY <1>1, <2>1 DEF Begin, ControlOK, Task, Steps
  <2>3. \A t \in Task : pc'[t] \in {"delete", "search"} => pc[t] = pc'[t]
    BY <1>1 DEF Begin, ControlOK
  <2>4. given' \in [Names -> SUBSET Graphs] /\ filled' \in BOOLEAN /\ crowded' \in BOOLEAN
    BY <1>1 DEF Begin, ControlOK, history
  <2>5. ControlOK'
    BY <1>1, <2>2, <2>3, <2>4 DEF Begin, ControlOK
  <2>6. IdleInv'
    BY <1>1 DEF Begin, ControlOK, IdleInv, Task
  <2> QED BY <2>5, <2>6
<1>2. ASSUME NEW r \in Requests, NEW m, Finish(r, m)
      PROVE  Shape'
  BY <1>2 DEF Finish, ControlOK, IdleInv, tasks, history, Task
<1>3. ASSUME NEW n \in Registrable, Register(n)
      PROVE  Shape'
  BY <1>3, FederationConstants DEF Register, ControlOK, IdleInv, tasks, requests
<1>4. ASSUME NEW t \in Task, Step(t)
      PROVE  Shape'
  <2>1. /\ UNCHANGED <<refs, op, phase>>
        /\ pc[t] # "none"
        /\ \E step \in Steps : pc' = [pc EXCEPT ![t] = step]
    <3>1. \A step \in Steps : Goto(t, step) => \E s \in Steps : pc' = [pc EXCEPT ![t] = s]
      BY DEF Goto
    <3>2. \E step \in Steps : Goto(t, step)
      <4>1. CASE Start(t) \/ Reject(t) \/ Lookup(t) \/ CheckBound(t) \/ ListKeys(t)
        BY <4>1 DEF Start, Reject, Lookup, CheckBound, ListKeys, End, Steps
      <4>2. CASE Fetch(t) \/ Reuse(t) \/ Delete(t) \/ Build(t) \/ Search(t)
        BY <4>2 DEF Fetch, Reuse, Delete, Build, Search, Resolved, End, Steps
      <4>3. CASE Inspect(t)
        <5>1. CASE UNCHANGED pc
          BY <5>1, <4>3 DEF Inspect, Goto, ControlOK, Steps
        <5>2. CASE Goto(t, "build") \/ Goto(t, "delete") \/ Goto(t, "done")
          BY <5>2 DEF Steps
        <5> QED BY <4>3, <5>1, <5>2 DEF Inspect, End
      <4> QED BY <1>4, <4>1, <4>2, <4>3 DEF Step
    <3>3. UNCHANGED <<refs, op, phase>> /\ pc[t] # "none"
      BY <1>4 DEF Step, Start, Reject, Lookup, Fetch, Reuse, CheckBound, ListKeys, Inspect, Delete,
                  Build, Search, requests
    <3> QED BY <3>1, <3>2, <3>3
  <2>2. pc' \in [Task -> Steps] /\ \A u \in Task : pc'[u] # "none" => u[2] \in DOMAIN refs'[u[1]]
    BY <2>1 DEF ControlOK
  <2>3. outcome' \in [Task -> Outcomes] /\ \A u \in Task \ {t} : outcome'[u] = outcome[u]
    BY <1>4 DEF Step, Start, Reject, Lookup, Fetch, Reuse, CheckBound, ListKeys, Inspect, Delete,
                Build, Search, Goto, End, Resolved, ControlOK, Outcomes
  <2>4. IdleInv'
    BY <2>1, <2>2, <2>3 DEF IdleInv, ControlOK
  <2>5. given' \in [Names -> SUBSET Graphs] /\ filled' \in BOOLEAN /\ crowded' \in BOOLEAN
    BY <1>4 DEF Step, Start, Reject, Lookup, Fetch, Reuse, CheckBound, ListKeys, Inspect, Delete,
                Build, Search, history, ControlOK
  <2>6. /\ registry' \in [Names -> Graphs \cup {None}]
        /\ adapter' \in [Task -> Graphs \cup {None}]
        /\ \A u \in Task : pc'[u] = "search" \/ outcome'[u] = "answered" => adapter'[u] \in Graphs
    <3>1. Name(t) \in Names /\ Graph(t) \in Graphs
      BY <2>1, TaskRef
    <3>2. CASE Fetch(t)
      BY <3>1, <3>2 DEF Fetch, End, Resolved, Goto, ControlOK
    <3>3. CASE Reuse(t)
      BY <3>1, <3>3, FederationConstants DEF Reuse, Resolved, Goto, ControlOK
    <3>4. CASE Delete(t)
      BY <3>1, <3>4 DEF Delete, End, Goto, ControlOK
    <3>5. CASE Build(t)
      BY <3>1, <3>5 DEF Build, Resolved, End, Goto, ControlOK
    <3>6. CASE Search(t)
      BY <3>6 DEF Search, End, Goto, ControlOK
    <3>7. CASE Start(t) \/ Reject(t) \/ Lookup(t) \/ CheckBound(t) \/ ListKeys(t) \/ Inspect(t)
      BY <3>7 DEF Start, Reject, Lookup, CheckBound, ListKeys, Inspect, End, Goto, ControlOK
    <3> QED BY <1>4, <3>2, <3>3, <3>4, <3>5, <3>6, <3>7 DEF Step
  <2>7. /\ keys' \in [Task -> SUBSET Names]
        /\ \A u \in Task : pc'[u] = "delete" => \E k \in Names : keys'[u] = {k}
    <3>1. CASE ListKeys(t)
      BY <3>1 DEF ListKeys, Goto, ControlOK, Registered
    <3>2. CASE Inspect(t)
      <4>1. keys' \in [Task -> SUBSET Names]
        BY <3>2 DEF Inspect, ControlOK
      <4>2. pc'[t] = "delete" => \E k \in Names : keys'[t] = {k}
        BY <3>2 DEF Inspect, Goto, End, ControlOK
      <4>3. \A u \in Task \ {t} : pc'[u] = pc[u] /\ keys'[u] = keys[u]
        BY <3>2 DEF Inspect, Goto, End, ControlOK
      <4> QED BY <4>1, <4>2, <4>3 DEF ControlOK
    <3>3. CASE UNCHANGED keys /\ pc'[t] # "delete"
      BY <2>1, <3>3 DEF ControlOK
    <3> QED
      BY <1>4, <3>1, <3>2, <3>3 DEF Step, Start, Reject, Lookup, Fetch, Reuse, CheckBound, Delete,
                Build, Search, Goto, End, Resolved, ControlOK
  <2>8. ControlOK'
    BY <2>1, <2>2, <2>3, <2>5, <2>6, <2>7 DEF ControlOK
  <2> QED BY <2>4, <2>8
<1>5. ASSUME UNCHANGED vars
      PROVE  Shape'
  BY <1>5 DEF vars, requests, tasks, history, ControlOK, IdleInv
<1> QED BY <1>1, <1>2, <1>3, <1>4, <1>5 DEF Next, Merge, ReturnLinks

-----------------------------------------------------------------------------
\* As long as the registry was not found full, nothing is ever deleted from it:
\* nobody is in the eviction loop, and a name that was found stays.
RaceInv ==
  /\ \A t \in Task : pc[t] \in {"list", "inspect", "delete"} => filled
  /\ \A t \in Task : outcome[t] = "raced" => filled
  /\ \A t \in Task : pc[t] = "fetch" => filled \/ registry[Name(t)] # None

\* A step keeps the references of the tasks that exist.
LEMMA NamesKept ==
  ASSUME Shape, [Next]_vars, NEW u \in Task, pc[u] # "none"
  PROVE  RefOf(u)' = RefOf(u) /\ Name(u)' = Name(u) /\ Graph(u)' = Graph(u)
<1>1. u[1] \in Requests
  BY DEF Task
<1>2. refs'[u[1]] = refs[u[1]]
  <2>1. CASE \E r \in Requests, l \in RefLists, o \in Operations : Begin(r, l, o)
    <3>1. PICK r \in Requests, l \in RefLists, o \in Operations : Begin(r, l, o)
      BY <2>1
    <3>2. u[1] # r
      BY <3>1 DEF Begin, Shape, IdleInv
    <3> QED BY <1>1, <3>1, <3>2 DEF Begin, Shape, ControlOK
  <2>2. CASE UNCHANGED refs
    BY <2>2
  <2> QED
    BY <2>1, <2>2 DEF Next, Step, Start, Reject, Lookup, Fetch, Reuse, CheckBound, ListKeys, Inspect,
                      Delete, Build, Search, Merge, ReturnLinks, Finish, Register, requests, vars
<1> QED BY <1>2 DEF RefOf, Name, Graph

\* RaceInv holds initially: no task exists.
LEMMA RaceInit == Init => RaceInv
<1> SUFFICES ASSUME Init PROVE RaceInv
  OBVIOUS
<1>1. \A t \in Task : pc[t] = "none" /\ outcome[t] = "none"
  BY DEF Init
<1> QED BY <1>1 DEF RaceInv

\* Every step keeps RaceInv: only Delete takes a name away, and it needs filled.
LEMMA RaceStep == Shape /\ RaceInv /\ [Next]_vars => RaceInv'
<1> SUFFICES ASSUME Shape, RaceInv, [Next]_vars PROVE RaceInv'
  OBVIOUS
<1>0. \A u \in Task : pc[u] # "none" => Name(u)' = Name(u) /\ Name(u) \in Names
  BY NamesKept, TaskRef DEF Shape
<1>1. ASSUME NEW r \in Requests, NEW l \in RefLists, NEW o \in Operations, Begin(r, l, o)
      PROVE  RaceInv'
  <2>1. /\ UNCHANGED <<registry, outcome, filled>>
        /\ \A u \in Task : pc'[u] = pc[u] \/ pc'[u] = "queued"
    BY <1>1 DEF Begin, history
  <2> QED BY <2>1, <1>0 DEF RaceInv
<1>2. ASSUME NEW r \in Requests, NEW m, Finish(r, m)
      PROVE  RaceInv'
  <2>1. UNCHANGED <<registry, outcome, filled, pc>>
    BY <1>2 DEF Finish, tasks, history
  <2> QED BY <2>1, <1>0 DEF RaceInv
<1>3. ASSUME NEW n \in Registrable, Register(n)
      PROVE  RaceInv'
  <2>1. UNCHANGED <<outcome, filled, pc>>
    BY <1>3 DEF Register, tasks
  <2>2. \A m \in Names : registry[m] # None => registry'[m] # None
    BY <1>3, FederationConstants DEF Register, Shape, ControlOK
  <2> QED BY <2>1, <2>2, <1>0 DEF RaceInv
<1>4. ASSUME NEW t \in Task, Step(t)
      PROVE  RaceInv'
  <2>1. /\ pc[t] # "none"
        /\ \A u \in Task \ {t} : pc'[u] = pc[u] /\ outcome'[u] = outcome[u]
        /\ filled => filled'
    BY <1>4 DEF Step, Start, Reject, Lookup, Fetch, Reuse, CheckBound, ListKeys, Inspect, Delete, Build,
                Search, Goto, End, Resolved, history, Shape, ControlOK
  <2>2. \A m \in Names : ~filled' /\ registry[m] # None => registry'[m] # None
    <3>1. CASE Delete(t)
      BY <3>1 DEF Delete, RaceInv, history
    <3>2. CASE Reuse(t) \/ Build(t)
      <4>1. Name(t) \in Names /\ Graph(t) \in Graphs
        BY <2>1, TaskRef DEF Shape
      <4> QED BY <3>2, <4>1, FederationConstants DEF Reuse, Build, Shape, ControlOK
    <3>3. CASE UNCHANGED registry
      BY <3>3
    <3> QED
      BY <1>4, <3>1, <3>2, <3>3 DEF Step, Start, Reject, Lookup, Fetch, CheckBound, ListKeys, Inspect, Search
  <2>3. /\ pc'[t] \in {"list", "inspect", "delete"} => filled'
        /\ outcome'[t] = "raced" => filled'
        /\ pc'[t] = "fetch" => filled' \/ registry'[Name(t)] # None
    <3>1. CASE Start(t) \/ Reject(t) \/ Search(t) \/ Reuse(t) \/ Build(t)
      BY <3>1, <2>1 DEF Start, Reject, Search, Reuse, Build, Goto, End, Resolved, Shape, ControlOK, RaceInv
    <3>2. CASE Lookup(t)
      BY <3>2, <2>1 DEF Lookup, Goto, Shape, ControlOK, RaceInv
    <3>3. CASE Fetch(t)
      BY <3>3, <2>1 DEF Fetch, Goto, End, Resolved, Shape, ControlOK, RaceInv
    <3>4. CASE CheckBound(t)
      BY <3>4, <2>1 DEF CheckBound, Goto, Shape, ControlOK, RaceInv
    <3>5. CASE ListKeys(t) \/ Inspect(t) \/ Delete(t)
      <4>1. filled
        BY <3>5 DEF ListKeys, Inspect, Delete, RaceInv
      <4> QED BY <4>1, <2>1, <3>5 DEF ListKeys, Inspect, Delete, Goto, End, Shape, ControlOK
    <3> QED BY <1>4, <3>1, <3>2, <3>3, <3>4, <3>5 DEF Step
  <2> QED BY <2>1, <2>2, <2>3, <1>0 DEF RaceInv
<1>5. ASSUME UNCHANGED vars
      PROVE  RaceInv'
  <2>1. UNCHANGED <<registry, outcome, filled, pc>>
    BY <1>5 DEF vars, tasks, history
  <2> QED BY <2>1, <1>0 DEF RaceInv
<1> QED BY <1>1, <1>2, <1>3, <1>4, <1>5 DEF Next, Merge, ReturnLinks

\* The control state has its types, and only requests that have begun have tasks.
THEOREM Controlled == Spec => []Shape
BY ShapeInit, ShapeStep, PTL DEF Spec

\* Only evictions lose a backend to a race, in every instance.
THEOREM RaceNeeds == Spec => []RaceNeedsEviction
<1>1. RaceInv => RaceNeedsEviction
  BY DEF RaceInv, RaceNeedsEviction
<1> QED BY <1>1, Controlled, RaceInit, RaceStep, PTL DEF Spec

-----------------------------------------------------------------------------
\* The registry holds, under each name, a graph the name was used for; only a task
\* that has resolved one has an adapter, and so does its name.
NameInv ==
  /\ \A n \in Names : registry[n] # None => Brought(n, registry[n])
  /\ \A t \in Task : pc[t] = "reuse" => Graph(t) = Primary
  /\ \A t \in Task : adapter[t] # None => pc[t] \in {"search", "done"} /\ Brought(Name(t), adapter[t])
  /\ \A t \in Task : outcome[t] = "answered" => pc[t] = "done" /\ adapter[t] # None

\* NameInv holds initially: what is registered was registered.
LEMMA NameInit == Init => NameInv
<1> SUFFICES ASSUME Init PROVE NameInv
  OBVIOUS
<1>1. \A t \in Task : pc[t] = "none" /\ outcome[t] = "none" /\ adapter[t] = None
  BY DEF Init
<1>2. \A n \in Names : registry[n] # None => registry[n] \in given[n]
  BY DEF Init
<1> QED BY <1>1, <1>2 DEF NameInv, Brought

\* What a name was used for stays so: tasks keep their references and adapters.
LEMMA BroughtKept ==
  ASSUME Shape,
         \A n \in Names : given[n] \subseteq given'[n],
         \A u \in Task : pc[u] # "none" =>
           /\ pc'[u] # "none"
           /\ Name(u)' = Name(u) /\ Graph(u)' = Graph(u)
           /\ adapter[u] # None => adapter'[u] = adapter[u]
  PROVE  \A n \in Names, g \in Graphs : Brought(n, g) => Brought(n, g)'
<1> SUFFICES ASSUME NEW n \in Names, NEW g \in Graphs, Brought(n, g) PROVE Brought(n, g)'
  OBVIOUS
<1>1. CASE g \in given[n]
  BY <1>1 DEF Brought
<1>2. CASE \E u \in Task : /\ pc[u] # "none"
                           /\ Name(u) = n /\ Graph(u) = g /\ adapter[u] = g
  <2>1. g # None
    BY FederationConstants
  <2>2. \E u \in Task : /\ pc'[u] # "none"
                        /\ Name(u)' = n /\ Graph(u)' = g /\ adapter'[u] = g
    BY <1>2, <2>1
  <2> QED BY <2>2 DEF Brought
<1> QED BY <1>1, <1>2 DEF Brought

\* Every step keeps NameInv: Register gives, Reuse and Build resolve what is asked
\* for, and Fetch finds what one of them has put there.
LEMMA NameStep == Shape /\ NameInv /\ [Next]_vars => NameInv'
<1> SUFFICES ASSUME Shape, NameInv, [Next]_vars PROVE NameInv'
  OBVIOUS
<1>0. \A u \in Task : pc[u] # "none" =>
        /\ Name(u)' = Name(u) /\ Graph(u)' = Graph(u)
        /\ Name(u) \in Names /\ Graph(u) \in Graphs
  BY NamesKept, TaskRef DEF Shape
<1>a. /\ \A n \in Names : registry[n] \in Graphs \cup {None}
      /\ \A u \in Task : adapter[u] \in Graphs \cup {None}
  BY DEF Shape, ControlOK
<1>b. ASSUME /\ UNCHANGED <<registry, outcome, adapter>>
             /\ \A n \in Names : given[n] \subseteq given'[n]
             /\ \A u \in Task : pc'[u] = pc[u] \/ (pc[u] = "none" /\ pc'[u] = "queued")
      PROVE  NameInv'
  <2>1. \A u \in Task : pc[u] # "none" => pc'[u] # "none"
    BY <1>b
  <2>2. \A n \in Names, g \in Graphs : Brought(n, g) => Brought(n, g)'
    BY <1>b, <1>0, <2>1, BroughtKept
  <2>3. \A n \in Names : registry'[n] # None => Brought(n, registry[n])'
    BY <1>b, <1>a, <2>2 DEF NameInv
  <2>4. \A u \in Task : pc'[u] = "reuse" => Graph(u)' = Primary
    BY <1>b, <1>0 DEF NameInv
  <2>5. ASSUME NEW u \in Task, adapter'[u] # None
        PROVE  pc'[u] \in {"search", "done"} /\ Brought(Name(u), adapter[u])'
    <3>1. adapter[u] # None /\ pc[u] \in {"search", "done"} /\ Brought(Name(u), adapter[u])
      BY <1>b, <2>5 DEF NameInv
    <3>2. /\ Name(u) \in Names /\ adapter[u] \in Graphs
          /\ Name(u)' = Name(u) /\ adapter'[u] = adapter[u]
      BY <3>1, <1>0, <1>a, <1>b
    <3>3. Brought(Name(u), adapter[u])'
      BY <3>1, <3>2, <2>2 DEF Brought
    <3> QED BY <3>1, <3>3, <1>b
  <2>6. \A u \in Task : outcome'[u] = "answered" => pc'[u] = "done" /\ adapter'[u] # None
    BY <1>b DEF NameInv
  <2> QED BY <2>3, <2>4, <2>5, <2>6 DEF NameInv
<1>1. ASSUME NEW r \in Requests, NEW l \in RefLists, NEW o \in Operations, Begin(r, l, o)
      PROVE  NameInv'
  <2>1. \A u \in Task : u[1] = r => pc[u] = "none"
    BY <1>1 DEF Begin, Shape, IdleInv
  <2>2. \A u \in Task : pc'[u] = pc[u] \/ (pc[u] = "none" /\ pc'[u] = "queued")
    BY <1>1, <2>1 DEF Begin
  <2> QED BY <1>1, <1>b, <2>2 DEF Begin, history
<1>2. ASSUME NEW r \in Requests, NEW m, Finish(r, m)
      PROVE  NameInv'
  BY <1>2, <1>b DEF Finish, tasks, history
<1>3. ASSUME NEW n \in Registrable, Register(n)
      PROVE  NameInv'
  <2>1. UNCHANGED <<outcome, adapter, pc, refs>>
    BY <1>3 DEF Register, tasks, requests
  <2>2. n \in Names /\ \A m \in Names : given[m] \subseteq given'[m]
    BY <1>3, FederationConstants DEF Register, Shape, ControlOK
  <2>3. \A m \in Names, g \in Graphs : Brought(m, g) => Brought(m, g)'
    BY <1>0, <2>1, <2>2, BroughtKept
  <2>4. ASSUME NEW m \in Names, registry'[m] # None
        PROVE  Brought(m, registry[m])'
    <3>1. CASE m = n
      <4>1. registry'[m] = Primary /\ Primary \in given'[m]
        BY <1>3, <2>2, <3>1 DEF Register, Shape, ControlOK
      <4> QED BY <4>1 DEF Brought
    <3>2. CASE m # n
      <4>1. registry'[m] = registry[m]
        BY <1>3, <3>2 DEF Register, Shape, ControlOK
      <4>2. Brought(m, registry[m]) /\ registry[m] \in Graphs
        BY <4>1, <2>4, <1>a DEF NameInv
      <4> QED BY <4>1, <4>2, <2>3 DEF Brought
    <3> QED BY <3>1, <3>2
  <2>5. ASSUME NEW u \in Task, adapter'[u] # None
        PROVE  pc'[u] \in {"search", "done"} /\ Brought(Name(u), adapter[u])'
    <3>1. adapter[u] # None /\ pc[u] \in {"search", "done"} /\ Brought(Name(u), adapter[u])
      BY <2>1, <2>5 DEF NameInv
    <3>2. /\ Name(u) \in Names /\ adapter[u] \in Graphs
          /\ Name(u)' = Name(u) /\ adapter'[u] = adapter[u]
      BY <3>1, <1>0, <1>a, <2>1
    <3>3. Brought(Name(u), adapter[u])'
      BY <3>1, <3>2, <2>3 DEF Brought
    <3> QED BY <3>1, <3>3, <2>1
  <2>6. \A u \in Task : pc'[u] = "reuse" => Graph(u)' = Primary
    BY <2>1, <1>0 DEF NameInv
  <2>7. \A u \in Task : outcome'[u] = "answered" => pc'[u] = "done" /\ adapter'[u] # None
    BY <2>1 DEF NameInv
  <2> QED BY <2>4, <2>5, <2>6, <2>7 DEF NameInv
<1>4. ASSUME NEW t \in Task, Step(t)
      PROVE  NameInv'
  <2>1. /\ pc[t] # "none" /\ pc'[t] # "none"
        /\ \A u \in Task \ {t} : pc'[u] = pc[u] /\ outcome'[u] = outcome[u] /\ adapter'[u] = adapter[u]
        /\ UNCHANGED given
    <3>1. CASE Inspect(t)
      BY <3>1 DEF Inspect, Goto, End, history, Shape, ControlOK
    <3>2. CASE ~Inspect(t)
      BY <1>4, <3>2 DEF Step, Start, Reject, Lookup, Fetch, Reuse, CheckBound, ListKeys, Delete, Build,
                Search, Goto, End, Resolved, history, Shape, ControlOK
    <3> QED BY <3>1, <3>2
  <2>2. /\ Name(t) \in Names /\ Graph(t) \in Graphs /\ Name(t)' = Name(t) /\ Graph(t)' = Graph(t)
        /\ pc[t] \notin {"search", "done"} => adapter[t] = None
    BY <2>1, <1>0 DEF NameInv
  \* The registry keeps what it had, or t puts the graph it asks for and resolves
  \* it; and t resolves that, or what the registry has.
  <2>3. /\ \A n \in Names : \/ registry'[n] \in {registry[n], None}
                            \/ /\ n = Name(t) /\ registry'[n] = Graph(t)
                               /\ adapter'[t] = Graph(t)
        /\ \/ adapter'[t] = adapter[t] /\ (adapter[t] # None => pc'[t] = "done")
           \/ /\ pc[t] \notin {"search", "done"} /\ pc'[t] = "search"
              /\ adapter'[t] \in {registry[Name(t)], Graph(t)} \ {None}
        /\ pc'[t] = "reuse" => Graph(t) = Primary
        /\ outcome'[t] = "answered" => pc'[t] = "done" /\ adapter'[t] # None
    <3>0. Primary # None /\ Graph(t) # None
      BY FederationConstants, <2>2
    <3>1. CASE Start(t) \/ Reject(t)
      BY <3>1, <2>1, <2>2 DEF Start, Reject, Goto, End, Shape, ControlOK, NameInv
    <3>2. CASE Lookup(t) \/ CheckBound(t) \/ ListKeys(t)
      BY <3>2, <2>1, <2>2 DEF Lookup, CheckBound, ListKeys, Goto, Shape, ControlOK, NameInv
    <3>3. CASE Fetch(t)
      BY <3>3, <2>1, <2>2 DEF Fetch, Goto, End, Resolved, Shape, ControlOK, NameInv
    <3>4. CASE Reuse(t)
      BY <3>4, <2>1, <2>2, <3>0 DEF Reuse, Goto, Resolved, Shape, ControlOK, NameInv
    <3>5. CASE Inspect(t)
      BY <3>5, <2>1, <2>2 DEF Inspect, Goto, End, Shape, ControlOK, NameInv
    <3>6. CASE Delete(t)
      BY <3>6, <2>1, <2>2 DEF Delete, Goto, End, Shape, ControlOK, NameInv
    <3>7. CASE Build(t)
      BY <3>7, <2>1, <2>2, <3>0 DEF Build, Goto, End, Resolved, Shape, ControlOK, NameInv
    <3>8. CASE Search(t)
      <4>1. adapter[t] # None
        BY <3>8, FederationConstants DEF Search, Shape, ControlOK
      <4> QED BY <3>8, <4>1, <2>1, <2>2 DEF Search, Goto, End, Shape, ControlOK, NameInv
    <3> QED BY <1>4, <3>1, <3>2, <3>3, <3>4, <3>5, <3>6, <3>7, <3>8 DEF Step
  <2>4. \A u \in Task : pc[u] # "none" =>
          /\ pc'[u] # "none"
          /\ Name(u)' = Name(u) /\ Graph(u)' = Graph(u)
          /\ adapter[u] # None => adapter'[u] = adapter[u]
    BY <2>1, <2>2, <2>3, <1>0
  <2>5. \A n \in Names, g \in Graphs : Brought(n, g) => Brought(n, g)'
    BY <2>1, <2>4, BroughtKept
  <2>6. adapter'[t] = Graph(t) => Brought(Name(t), Graph(t))'
    BY <2>1, <2>2 DEF Brought
  <2>7. ASSUME NEW n \in Names, registry'[n] # None
        PROVE  Brought(n, registry[n])'
    <3>1. CASE registry'[n] = registry[n]
      <4>1. Brought(n, registry[n]) /\ registry[n] \in Graphs
        BY <3>1, <2>7, <1>a DEF NameInv
      <4> QED BY <3>1, <4>1, <2>5 DEF Brought
    <3>2. CASE n = Name(t) /\ registry'[n] = Graph(t) /\ adapter'[t] = Graph(t)
      BY <3>2, <2>1, <2>2 DEF Brought
    <3> QED BY <2>3, <2>7, <3>1, <3>2
  <2>8. ASSUME NEW u \in Task, adapter'[u] # None
        PROVE  pc'[u] \in {"search", "done"} /\ Brought(Name(u), adapter[u])'
    <3>1. CASE adapter'[u] = adapter[u] /\ (u = t => pc'[t] = "done")
      <4>1. pc[u] \in {"search", "done"} /\ Brought(Name(u), adapter[u])
        BY <3>1, <2>8 DEF NameInv
      <4>2. /\ Name(u) \in Names /\ adapter[u] \in Graphs
            /\ Name(u)' = Name(u) /\ adapter'[u] = adapter[u]
        BY <4>1, <3>1, <2>8, <1>0, <1>a
      <4>3. Brought(Name(u), adapter[u])'
        BY <4>1, <4>2, <2>5 DEF Brought
      <4> QED BY <4>1, <4>3, <2>1, <3>1
    <3>2. CASE u = t /\ pc'[t] = "search" /\ adapter'[t] = Graph(t)
      BY <3>2, <2>1, <2>2 DEF Brought
    <3>3. CASE u = t /\ pc'[t] = "search" /\ adapter'[t] = registry[Name(t)]
      <4>1. Brought(Name(t), registry[Name(t)]) /\ registry[Name(t)] \in Graphs
        BY <3>3, <2>8, <2>2, <1>a DEF NameInv
      <4> QED BY <3>3, <4>1, <2>2, <2>5 DEF Brought
    <3> QED BY <2>1, <2>3, <2>8, <3>1, <3>2, <3>3
  <2>9. /\ \A u \in Task : pc'[u] = "reuse" => Graph(u)' = Primary
        /\ \A u \in Task : outcome'[u] = "answered" => pc'[u] = "done" /\ adapter'[u] # None
    BY <2>1, <2>2, <2>3, <1>0 DEF NameInv
  <2> QED BY <2>7, <2>8, <2>9 DEF NameInv
<1>5. ASSUME UNCHANGED vars
      PROVE  NameInv'
  BY <1>5, <1>b DEF vars, tasks, history
<1> QED BY <1>1, <1>2, <1>3, <1>4, <1>5 DEF Next, Merge, ReturnLinks

\* In every instance, only the use of its very name for another graph makes a
\* reference answer from that one.
THEOREM ReuseNeeds == Spec => []WrongGraphNeedsReuse
<1>1. NameInv => WrongGraphNeedsReuse
  BY DEF NameInv, WrongGraphNeedsReuse
<1> QED BY <1>1, Controlled, NameInit, NameStep, PTL DEF Spec

-----------------------------------------------------------------------------
\* As long as no two tasks added a backend at the same time: at most one does,
\* and the room it needs was there or has been made.
BoundInv ==
  ~crowded =>
    /\ \A t, u \in Adding : t = u
    /\ Cardinality(Clones) <= MaxBackends
    /\ \A t \in Task : pc[t] = "inspect" => Clones \subseteq keys[t]
    /\ \A t \in Task : pc[t] = "delete" => Cardinality(Clones \ keys[t]) < MaxBackends
    /\ \A t \in Task : pc[t] = "build" => Cardinality(Clones) < MaxBackends

\* The clones are finitely many, as names are.
LEMMA ClonesFinite ==
  /\ IsFiniteSet(Clones) /\ Cardinality(Clones) \in Nat
  /\ \A S : IsFiniteSet(Clones \ S) /\ Cardinality(Clones \ S) \in Nat
  /\ \A S : S \subseteq Clones => Cardinality(S) <= Cardinality(Clones)
<1>1. IsFiniteSet(Clones)
  BY FederationConstants, FS_Subset DEF Clones
<1> QED BY <1>1, FS_Subset, FS_CardinalityType

\* BoundInv holds initially, by the assumption on Setups.
LEMMA BoundInit == Init => BoundInv
<1> SUFFICES ASSUME Init PROVE BoundInv
  OBVIOUS
<1>1. \A t \in Task : pc[t] = "none"
  BY DEF Init
<1>2. Cardinality(Clones) <= MaxBackends
  BY FederationConstants DEF Init, Clones
<1> QED BY <1>1, <1>2 DEF BoundInv, Adding

\* Every step keeps BoundInv: a lone adder makes its room, and nobody else takes it.
LEMMA BoundStep == Shape /\ BoundInv /\ [Next]_vars => BoundInv'
<1> SUFFICES ASSUME Shape, BoundInv, [Next]_vars, ~crowded' PROVE BoundInv'
  BY DEF BoundInv
<1>0. MaxBackends \in Nat \ {0} /\ IsFiniteSet(Names) /\ Primary \in Graphs /\ None \notin Graphs
  BY FederationConstants
<1>1. ~crowded
  BY DEF Next, Step, Begin, Start, Reject, Lookup, Fetch, Reuse, CheckBound, ListKeys, Inspect, Delete,
         Build, Search, Merge, ReturnLinks, Finish, Register, history, vars, Shape, ControlOK
<1>2. /\ \A t, u \in Adding : t = u
      /\ Cardinality(Clones) <= MaxBackends
      /\ \A t \in Task : pc[t] = "inspect" => Clones \subseteq keys[t]
      /\ \A t \in Task : pc[t] = "delete" => Cardinality(Clones \ keys[t]) < MaxBackends
      /\ \A t \in Task : pc[t] = "build" => Cardinality(Clones) < MaxBackends
  BY <1>1 DEF BoundInv
\* Steps that start nothing and open nothing: clones can only become fewer.
<1>3. ASSUME Clones' \subseteq Clones, UNCHANGED keys,
             \A u \in Task : pc'[u] \in {"list", "inspect", "delete", "build"} => pc'[u] = pc[u]
      PROVE  BoundInv'
  <2>1. Cardinality(Clones') <= Cardinality(Clones) /\ Cardinality(Clones') \in Nat
    BY <1>3, ClonesFinite, FS_Subset, FS_CardinalityType
  <2>2. ASSUME NEW u \in Task, pc[u] = "delete" PROVE Cardinality(Clones' \ keys[u]) < MaxBackends
    <3>1. Clones' \ keys[u] \subseteq Clones \ keys[u]
      BY <1>3
    <3>2. Cardinality(Clones' \ keys[u]) <= Cardinality(Clones \ keys[u])
      BY <3>1, ClonesFinite, FS_Subset
    <3>3. Cardinality(Clones' \ keys[u]) \in Nat /\ Cardinality(Clones \ keys[u]) \in Nat
      BY <3>1, ClonesFinite, FS_Subset, FS_CardinalityType
    <3> QED BY <3>2, <3>3, <1>2, <2>2, <1>0
  <2>3. Adding' \subseteq Adding
    BY <1>3 DEF Adding
  <2>4. Cardinality(Clones) \in Nat
    BY ClonesFinite
  <2> QED BY <1>0, <1>2, <1>3, <2>1, <2>2, <2>3, <2>4 DEF BoundInv
<1>4. ASSUME NEW r \in Requests, NEW l \in RefLists, NEW o \in Operations, Begin(r, l, o)
      PROVE  BoundInv'
  <2>1. UNCHANGED <<registry, keys>> /\ \A u \in Task : pc'[u] = pc[u] \/ pc'[u] = "queued"
    BY <1>4 DEF Begin
  <2> QED BY <2>1, <1>3 DEF Clones
<1>5. ASSUME NEW r \in Requests, NEW m, Finish(r, m)
      PROVE  BoundInv'
  <2>1. UNCHANGED <<registry, keys, pc>>
    BY <1>5 DEF Finish, tasks
  <2> QED BY <2>1, <1>3 DEF Clones
<1>6. ASSUME NEW n \in Registrable, Register(n)
      PROVE  BoundInv'
  <2>1. UNCHANGED <<keys, pc>>
    BY <1>6 DEF Register, tasks
  <2>2. Clones' \subseteq Clones
    BY <1>6, FederationConstants DEF Register, Clones, Shape, ControlOK
  <2> QED BY <2>1, <2>2, <1>3
<1>7. ASSUME NEW t \in Task, Step(t)
      PROVE  BoundInv'
  <2>0. pc[t] # "none" /\ Name(t) \in Names /\ Graph(t) \in Graphs
    <3>1. pc[t] # "none"
      BY <1>7 DEF Step, Start, Reject, Lookup, Fetch, Reuse, CheckBound, ListKeys, Inspect, Delete,
                  Build, Search
    <3> QED BY <3>1, TaskRef DEF Shape
  <2>1. CASE Start(t) \/ Reject(t) \/ Lookup(t) \/ Fetch(t) \/ Search(t)
    <3>1. UNCHANGED <<registry, keys>>
      BY <2>1 DEF Start, Reject, Lookup, Fetch, Search
    <3>2. \A u \in Task : pc'[u] \in {"list", "inspect", "delete", "build"} => pc'[u] = pc[u]
      BY <2>1 DEF Start, Reject, Lookup, Fetch, Search, Goto, End, Resolved, Shape, ControlOK
    <3> QED BY <3>1, <3>2, <1>3 DEF Clones
  <2>2. CASE Reuse(t)
    <3>1. Clones' \subseteq Clones
      BY <2>2, <2>0 DEF Reuse, Clones, Shape, ControlOK
    <3>2. UNCHANGED keys
      BY <2>2 DEF Reuse
    <3>3. \A u \in Task : pc'[u] \in {"list", "inspect", "delete", "build"} => pc'[u] = pc[u]
      BY <2>2 DEF Reuse, Goto, Resolved, Shape, ControlOK
    <3> QED BY <3>1, <3>2, <3>3, <1>3
  <2>3. CASE CheckBound(t)
    <3>1. Adding = {}
      BY <2>3, <1>1 DEF CheckBound, Shape, ControlOK
    <3>2. \A u \in Task \ {t} : pc'[u] = pc[u] /\ pc'[u] \notin {"list", "inspect", "delete", "build"}
      BY <2>3, <3>1 DEF CheckBound, Goto, Adding, Shape, ControlOK
    <3>3. Adding' \subseteq {t}
      BY <3>2 DEF Adding
    <3>4. pc'[t] = "list" \/ (pc'[t] = "build" /\ Cardinality(Registered) < MaxBackends)
      <4>1. Clones \subseteq Names /\ Registered \subseteq Names
        BY DEF Clones, Registered
      <4>2. Cardinality(Registered) \in Nat
        BY <4>1, <1>0, FS_Subset, FS_CardinalityType
      <4>3. pc'[t] = IF Cardinality(Registered) >= MaxBackends THEN "list" ELSE "build"
        BY <2>3 DEF CheckBound, Goto, Shape, ControlOK
      <4>4. ~(Cardinality(Registered) >= MaxBackends) => Cardinality(Registered) < MaxBackends
        BY <4>2, <1>0
      <4> QED BY <4>3, <4>4
    <3>5. Cardinality(Clones) <= Cardinality(Registered) /\ Cardinality(Registered) \in Nat
      <4>1. Clones \subseteq Registered /\ Registered \subseteq Names
        BY DEF Clones, Registered
      <4>2. IsFiniteSet(Registered)
        BY <4>1, <1>0, FS_Subset
      <4> QED BY <4>1, <4>2, FS_Subset, FS_CardinalityType
    <3>6. Cardinality(Clones) \in Nat
      BY ClonesFinite
    <3>7. Clones' = Clones
      BY <2>3 DEF CheckBound, Clones
    <3> QED BY <3>2, <3>3, <3>4, <3>5, <3>6, <3>7, <1>0, <1>2 DEF BoundInv
  <2>4. CASE ListKeys(t) \/ Inspect(t) \/ Delete(t) \/ Build(t)
    <3>1. t \in Adding
      BY <2>4 DEF ListKeys, Inspect, Delete, Build, Adding
    <3>2. \A u \in Task \ {t} : pc'[u] = pc[u] /\ pc'[u] \notin {"list", "inspect", "delete", "build"}
      BY <2>4, <3>1, <1>2
         DEF ListKeys, Inspect, Delete, Build, Goto, End, Resolved, Adding, Shape, ControlOK
    <3>3. Adding' \subseteq {t}
      BY <3>2 DEF Adding
    <3>4. SUFFICES /\ Cardinality(Clones') <= MaxBackends
                   /\ pc'[t] = "inspect" => Clones' \subseteq keys'[t]
                   /\ pc'[t] = "delete" => Cardinality(Clones' \ keys'[t]) < MaxBackends
                   /\ pc'[t] = "build" => Cardinality(Clones') < MaxBackends
      BY <3>2, <3>3 DEF BoundInv
    <3>5. Cardinality(Clones) \in Nat
      BY ClonesFinite
    <3>6. CASE ListKeys(t)
      <4>1. Clones' = Clones /\ Clones \subseteq Registered
        BY <3>6 DEF ListKeys, Clones, Registered
      <4>2. keys'[t] = Registered /\ pc'[t] = "inspect"
        BY <3>6 DEF ListKeys, Goto, Shape, ControlOK
      <4> QED BY <4>1, <4>2, <1>2
    <3>7. CASE Inspect(t)
      <4>1. Clones' = Clones /\ pc[t] = "inspect" /\ Clones \subseteq keys[t]
        BY <3>7, <1>2 DEF Inspect, Clones
      <4>2. CASE keys[t] = {} /\ Goto(t, "build")
        <5>1. Clones = {} /\ pc'[t] = "build"
          BY <4>1, <4>2 DEF Goto, Shape, ControlOK
        <5>2. Cardinality(Clones) = 0
          BY <5>1, FS_EmptySet
        <5> QED BY <4>1, <5>1, <5>2, <1>0, <1>2
      <4>3. ASSUME NEW k \in keys[t], registry[k] = Primary, keys' = [keys EXCEPT ![t] = @ \ {k}],
                   UNCHANGED pc
            PROVE  /\ Cardinality(Clones') <= MaxBackends
                   /\ pc'[t] = "inspect" => Clones' \subseteq keys'[t]
                   /\ pc'[t] = "delete" => Cardinality(Clones' \ keys'[t]) < MaxBackends
                   /\ pc'[t] = "build" => Cardinality(Clones') < MaxBackends
        <5>1. k \notin Clones /\ keys'[t] = keys[t] \ {k}
          BY <4>3 DEF Clones, Shape, ControlOK
        <5> QED BY <4>1, <4>3, <5>1, <1>2
      <4>4. ASSUME NEW k \in keys[t], registry[k] \notin {None, Primary},
                   keys' = [keys EXCEPT ![t] = {k}], Goto(t, "delete")
            PROVE  /\ Cardinality(Clones') <= MaxBackends
                   /\ pc'[t] = "inspect" => Clones' \subseteq keys'[t]
                   /\ pc'[t] = "delete" => Cardinality(Clones' \ keys'[t]) < MaxBackends
                   /\ pc'[t] = "build" => Cardinality(Clones') < MaxBackends
        <5>1. k \in Clones /\ keys'[t] = {k} /\ pc'[t] = "delete"
          BY <4>4 DEF Clones, Goto, Shape, ControlOK
        <5>2. Cardinality(Clones \ {k}) = Cardinality(Clones) - 1
          BY <5>1, ClonesFinite, FS_RemoveElement
        <5> QED BY <4>1, <5>1, <5>2, <3>5, <1>0, <1>2
      <4>5. CASE Goto(t, "done")
        <5>1. pc'[t] = "done"
          BY <4>5 DEF Goto, Shape, ControlOK
        <5> QED BY <5>1, <4>1, <1>2
      <4> QED BY <3>7, <4>2, <4>3, <4>4, <4>5 DEF Inspect, End
    <3>8. CASE Delete(t)
      <4>1. pc[t] = "delete" /\ Cardinality(Clones \ keys[t]) < MaxBackends
        BY <3>8, <1>2 DEF Delete
      <4>2. PICK k \in keys[t] : \/ registry' = [registry EXCEPT ![k] = None] /\ Goto(t, "build")
                                 \/ registry' = registry /\ Goto(t, "done")
        BY <3>8 DEF Delete, End
      <4>3. keys[t] = {k} /\ k \in Names
        BY <4>1, <4>2 DEF Shape, ControlOK
      <4>4. CASE registry' = [registry EXCEPT ![k] = None] /\ Goto(t, "build")
        <5>1. Clones' = Clones \ {k} /\ pc'[t] = "build"
          BY <4>4, <4>3 DEF Clones, Goto, Shape, ControlOK
        <5>2. Cardinality(Clones') < MaxBackends /\ Cardinality(Clones') \in Nat
          BY <5>1, <4>1, <4>3, ClonesFinite
        <5> QED BY <5>1, <5>2, <1>0
      <4>5. CASE registry' = registry /\ Goto(t, "done")
        <5>1. Clones' = Clones /\ pc'[t] = "done"
          BY <4>5 DEF Clones, Goto, Shape, ControlOK
        <5> QED BY <5>1, <1>2
      <4> QED BY <4>2, <4>4, <4>5
    <3>9. CASE Build(t)
      <4>1. Cardinality(Clones) < MaxBackends
        BY <3>9, <1>2 DEF Build
      <4>2. pc'[t] \in {"search", "done"}
        BY <3>9 DEF Build, Resolved, End, Goto, Shape, ControlOK
      <4>3. Clones' \subseteq Clones \cup {Name(t)}
        BY <3>9, <2>0 DEF Build, Clones, Shape, ControlOK
      <4>4. /\ IsFiniteSet(Clones \cup {Name(t)})
            /\ Cardinality(Clones \cup {Name(t)}) <= Cardinality(Clones) + 1
            /\ Cardinality(Clones \cup {Name(t)}) \in Nat
        <5>1. IsFiniteSet(Clones)
          BY ClonesFinite
        <5>2. /\ IsFiniteSet(Clones \cup {Name(t)})
              /\ \/ Cardinality(Clones \cup {Name(t)}) = Cardinality(Clones)
                 \/ Cardinality(Clones \cup {Name(t)}) = Cardinality(Clones) + 1
          BY <5>1, FS_AddElement
        <5> QED BY <5>2, <3>5
      <4>5. Cardinality(Clones') <= Cardinality(Clones \cup {Name(t)}) /\ Cardinality(Clones') \in Nat
        BY <4>3, <4>4, FS_Subset, FS_CardinalityType
      <4> QED BY <4>1, <4>2, <4>4, <4>5, <3>5, <1>0
    <3> QED BY <2>4, <3>6, <3>7, <3>8, <3>9
  <2> QED BY <1>7, <2>1, <2>2, <2>3, <2>4 DEF Step
<1>8. ASSUME UNCHANGED vars
      PROVE  BoundInv'
  <2>1. UNCHANGED <<registry, keys, pc>>
    BY <1>8 DEF vars, tasks
  <2> QED BY <2>1, <1>3 DEF Clones
<1> QED BY <1>4, <1>5, <1>6, <1>7, <1>8 DEF Next, Merge, ReturnLinks

\* The bound is overshot only by threads that pass its check together, in every
\* instance.
THEOREM Overshoot == Spec => []OvershootNeedsRace
<1>1. BoundInv => OvershootNeedsRace
  BY DEF BoundInv, OvershootNeedsRace
<1> QED BY <1>1, Controlled, BoundInit, BoundStep, PTL DEF Spec

-----------------------------------------------------------------------------
(* The merge: sums, quotients, ranks and sorted lists.                     *)

\* A set of natural numbers has a least element.
LEMMA LeastElement ==
  ASSUME NEW T \in SUBSET Nat, T # {}
  PROVE  \E n \in T : \A m \in T : n <= m
<1>1. IsWellFoundedOn({x \in Nat \X Nat : x[1] < x[2]}, Nat)
  BY NatLessThanWellFounded DEF OpToRel
<1>2. PICK n \in T : \A m \in T : <<m, n>> \notin {x \in Nat \X Nat : x[1] < x[2]}
  BY <1>1, WFMin
<1>3. ASSUME NEW m \in T PROVE n <= m
  <2>1. m \in Nat /\ n \in Nat /\ <<m, n>> \in Nat \X Nat
    OBVIOUS
  <2>2. ~(<<m, n>>[1] < <<m, n>>[2])
    BY <1>2, <2>1
  <2>3. ~(m < n)
    BY <2>2
  <2> QED BY <2>1, <2>3
<1> QED BY <1>3

\* Induction, for a set in the place of a predicate.
LEMMA Induction ==
  ASSUME NEW S, 0 \in S, \A n \in Nat : n \in S => n + 1 \in S
  PROVE  Nat \subseteq S
<1>1. SUFFICES ASSUME Nat \ S # {} PROVE FALSE
  OBVIOUS
<1>2. PICK n \in Nat \ S : \A m \in Nat \ S : n <= m
  BY <1>1, LeastElement
<1>3. n - 1 \in Nat /\ n - 1 \in S
  BY <1>2
<1> QED BY <1>2, <1>3

\* The sums of the first k elements, for each k up to n.
Sums(g, f, n) ==
  /\ g \in [0..n -> Nat]
  /\ g[0] = 0
  /\ \A k \in 1..n : g[k] = g[k - 1] + f[k]

\* Such sums exist.
LEMMA SumsExist ==
  ASSUME NEW n \in Nat, NEW f \in [1..n -> Nat]
  PROVE  \E g : Sums(g, f, n)
<1> DEFINE S == {k \in Nat : k <= n => \E g : Sums(g, f, k)}
<1>1. 0 \in S
  <2>1. Sums([k \in 0..0 |-> 0], f, 0)
    BY DEF Sums
  <2> QED BY <2>1
<1>2. ASSUME NEW k \in Nat, k \in S PROVE k + 1 \in S
  <2>1. SUFFICES ASSUME k + 1 <= n PROVE \E g : Sums(g, f, k + 1)
    OBVIOUS
  <2>2. PICK g : Sums(g, f, k)
    BY <1>2, <2>1
  <2> DEFINE h == [j \in 0..k + 1 |-> IF j = k + 1 THEN g[k] + f[k + 1] ELSE g[j]]
  <2>3. g[k] \in Nat /\ f[k + 1] \in Nat
    BY <2>1, <2>2 DEF Sums
  <2>4. h \in [0..k + 1 -> Nat] /\ h[0] = 0
    BY <2>2, <2>3 DEF Sums
  <2>5. ASSUME NEW j \in 1..k + 1 PROVE h[j] = h[j - 1] + f[j]
    <3>1. CASE j = k + 1
      BY <3>1
    <3>2. CASE j # k + 1
      <4>1. j \in 1..k /\ j - 1 \in 0..k + 1 /\ j - 1 # k + 1
        BY <3>2
      <4>2. h[j] = g[j] /\ h[j - 1] = g[j - 1]
        BY <3>2, <4>1
      <4> QED BY <2>2, <4>1, <4>2 DEF Sums
    <3> QED BY <3>1, <3>2
  <2>6. Sums(h, f, k + 1)
    <3> HIDE DEF h
    <3> QED BY <2>4, <2>5 DEF Sums
  <2> HIDE DEF h
  <2> QED BY <2>6
<1>3. Nat \subseteq S
  <2> HIDE DEF S
  <2> QED BY <1>1, <1>2, Induction
<1> QED BY <1>3

\* Total is the last of these sums.
LEMMA TotalSums ==
  ASSUME NEW n \in Nat, NEW f \in [1..n -> Nat]
  PROVE  \E g : Sums(g, f, n) /\ Total(f) = g[n]
<1>1. Len(f) = n
  <2>1. f \in Seq(Nat)
    OBVIOUS
  <2> QED BY <2>1
<1> DEFINE Next1(g, k) == IF k = 0 THEN 0 ELSE g[k - 1] + f[k]
<1>2. PICK g : Sums(g, f, n)
  BY SumsExist
<1>3. g = [k \in 0..n |-> Next1(g, k)]
  <2>1. \A k \in 0..n : k = 0 \/ k \in 1..n
    OBVIOUS
  <2>2. \A k \in 0..n : g[k] = Next1(g, k)
    BY <1>2, <2>1 DEF Sums
  <2>3. g = [k \in 0..n |-> g[k]]
    BY <1>2 DEF Sums
  <2> HIDE DEF Next1
  <2> QED BY <2>2, <2>3
<1> DEFINE upTo == CHOOSE h : h = [k \in 0..n |-> Next1(h, k)]
<1>4. upTo = [k \in 0..n |-> Next1(upTo, k)]
  BY <1>3
<1>5. Total(f) = upTo[n]
  BY <1>1 DEF Total
<1>6. \A k \in 0..n : upTo[k] = Next1(upTo, k)
  <2> HIDE DEF upTo, Next1
  <2> QED BY <1>4
<1>7. upTo[0] = 0 /\ \A k \in 1..n : upTo[k] = upTo[k - 1] + f[k]
  <2> HIDE DEF upTo
  <2>1. 0 \in 0..n /\ \A k \in 1..n : k \in 0..n /\ k # 0
    OBVIOUS
  <2> QED BY <1>6, <2>1
<1> DEFINE S == {k \in Nat : k <= n => upTo[k] = g[k]}
<1>8. Nat \subseteq S
  <2> HIDE DEF upTo
  <2>1. 0 \in S
    BY <1>2, <1>7 DEF Sums
  <2>2. ASSUME NEW k \in Nat, k \in S PROVE k + 1 \in S
    <3>1. SUFFICES ASSUME k + 1 <= n PROVE upTo[k + 1] = g[k + 1]
      OBVIOUS
    <3>2. k + 1 \in 1..n /\ (k + 1) - 1 = k
      BY <3>1
    <3> QED BY <1>2, <1>7, <2>2, <3>1, <3>2 DEF Sums
  <2> HIDE DEF S
  <2> QED BY <2>1, <2>2, Induction
<1>9. upTo[n] = g[n]
  <2> HIDE DEF upTo
  <2> QED BY <1>8
<1> HIDE DEF upTo
<1> QED BY <1>2, <1>5, <1>9

\* A total is a natural number, positive if its last term is; larger terms have
\* a larger total.
LEMMA TotalFacts ==
  ASSUME NEW n \in Nat, NEW f \in [1..n -> Nat]
  PROVE  /\ Total(f) \in Nat
         /\ n > 0 /\ f[n] > 0 => Total(f) > 0
         /\ \A h \in [1..n -> Nat] : (\A k \in 1..n : f[k] <= h[k]) => Total(f) <= Total(h)
<1>1. PICK g : Sums(g, f, n) /\ Total(f) = g[n]
  BY TotalSums
<1>2. Total(f) \in Nat
  BY <1>1 DEF Sums
<1>3. n > 0 /\ f[n] > 0 => Total(f) > 0
  <2>1. n > 0 => n \in 1..n /\ n - 1 \in 0..n
    OBVIOUS
  <2>2. n > 0 => g[n] = g[n - 1] + f[n] /\ g[n - 1] \in Nat /\ f[n] \in Nat
    BY <1>1, <2>1 DEF Sums
  <2> QED BY <1>1, <2>2
<1>4. ASSUME NEW h \in [1..n -> Nat], \A k \in 1..n : f[k] <= h[k]
      PROVE  Total(f) <= Total(h)
  <2>1. PICK q : Sums(q, h, n) /\ Total(h) = q[n]
    BY TotalSums
  <2> DEFINE S == {k \in Nat : k <= n => g[k] <= q[k]}
  <2>2. 0 \in S
    BY <1>1, <2>1 DEF Sums
  <2>3. ASSUME NEW k \in Nat, k \in S PROVE k + 1 \in S
    <3>1. SUFFICES ASSUME k + 1 <= n PROVE g[k + 1] <= q[k + 1]
      OBVIOUS
    <3>2. k + 1 \in 1..n /\ (k + 1) - 1 = k /\ k \in 0..n
      BY <3>1
    <3>3. /\ g[k + 1] = g[k] + f[k + 1] /\ q[k + 1] = q[k] + h[k + 1]
          /\ g[k] \in Nat /\ q[k] \in Nat /\ f[k + 1] \in Nat /\ h[k + 1] \in Nat
      BY <1>1, <2>1, <3>2 DEF Sums
    <3>4. g[k] <= q[k] /\ f[k + 1] <= h[k + 1]
      BY <1>4, <2>3, <3>1, <3>2
    <3> QED BY <3>3, <3>4
  <2>4. Nat \subseteq S
    <3> HIDE DEF S
    <3> QED BY <2>2, <2>3, Induction
  <2> QED BY <1>1, <2>1, <2>4
<1> QED BY <1>2, <1>3, <1>4

\* What is divided is no smaller if it was no smaller.
LEMMA DivMonotone ==
  ASSUME NEW a \in Nat, NEW b \in Nat, a <= b, NEW d \in Nat \ {0}
  PROVE  a \div d \in Nat /\ b \div d \in Nat /\ a \div d <= b \div d
OBVIOUS

\* What is divided by less is no smaller.
LEMMA DivAntitone ==
  ASSUME NEW n \in Nat, NEW a \in Nat \ {0}, NEW b \in Nat \ {0}, a <= b
  PROVE  n \div a \in Nat /\ n \div b \in Nat /\ n \div b <= n \div a
OBVIOUS

\* A weight keeps the order.
LEMMA TimesMonotone ==
  ASSUME NEW w \in Nat, NEW a \in Nat, NEW b \in Nat, a <= b
  PROVE  w * a \in Nat /\ w * b \in Nat /\ w * a <= w * b
OBVIOUS

\* A part that is not the whole has fewer elements.
LEMMA StrictPart ==
  ASSUME NEW S, IsFiniteSet(S), NEW T, T \subseteq S, T # S
  PROVE  Cardinality(T) \in Nat /\ Cardinality(S) \in Nat /\ Cardinality(T) < Cardinality(S)
BY FS_Subset, FS_CardinalityType

-----------------------------------------------------------------------------
(* The merge: ranks and sorted lists.                                      *)

\* The positions of a backend's answer that rank before position x.
Above(l, x) ==
  {y \in DOMAIN l : \/ l[y].relevance > l[x].relevance
                    \/ l[y].relevance = l[x].relevance /\ y < x}

\* Of two positions, the one that ranks before the other has fewer before it.
LEMMA AboveFacts ==
  ASSUME NEW l \in Seq(Hit), NEW x \in DOMAIN l
  PROVE  /\ Cardinality(Above(l, x)) \in Nat
         /\ Cardinality(Above(l, x)) < Cardinality(DOMAIN l)
         /\ \A y \in DOMAIN l :
              y \in Above(l, x) => Cardinality(Above(l, y)) < Cardinality(Above(l, x))
<1>0. \A y \in DOMAIN l : y \in Nat /\ l[y].relevance \in Nat
  <2>1. \A y \in DOMAIN l : y \in Nat /\ l[y] \in Hit
    OBVIOUS
  <2> QED BY <2>1 DEF Hit
<1>1. IsFiniteSet(DOMAIN l)
  <2>1. DOMAIN l = 1..Len(l) /\ Len(l) \in Nat
    OBVIOUS
  <2> QED BY <2>1, FS_Interval
<1>2. \A y \in DOMAIN l : Above(l, y) \subseteq DOMAIN l /\ IsFiniteSet(Above(l, y))
  BY <1>1, FS_Subset DEF Above
<1>3. Above(l, x) # DOMAIN l
  <2>1. x \notin Above(l, x)
    BY <1>0 DEF Above
  <2> QED BY <2>1
<1>4. /\ Cardinality(Above(l, x)) \in Nat
      /\ Cardinality(Above(l, x)) < Cardinality(DOMAIN l)
  BY <1>1, <1>2, <1>3, StrictPart
<1>5. ASSUME NEW y \in DOMAIN l, y \in Above(l, x)
      PROVE  Cardinality(Above(l, y)) < Cardinality(Above(l, x))
  <2>1. Above(l, y) \subseteq Above(l, x)
    BY <1>0, <1>5 DEF Above
  <2>2. y \notin Above(l, y)
    BY <1>0 DEF Above
  <2>3. Above(l, y) # Above(l, x)
    BY <1>5, <2>2
  <2> QED BY <1>2, <2>1, <2>3, StrictPart
<1> QED BY <1>4, <1>5

\* Each entity of an answer is at one position of it.
LEMMA HitFacts ==
  ASSUME NEW g \in Graphs, NEW x \in DOMAIN Found[g]
  PROVE  /\ Found[g] \in Seq(Hit)
         /\ Found[g][x] \in Hit
         /\ HitOf(Found[g], Found[g][x].entity) = x
<1>1. Found[g] \in Seq(Hit)
  BY FederationConstants
<1>2. \A i, j \in DOMAIN Found[g] : Found[g][i].entity = Found[g][j].entity => i = j
  BY FederationConstants
<1> QED BY <1>1, <1>2 DEF HitOf

\* Ranks tell the entities of an answer apart, and no entity is more relevant than
\* one that it ranks after.
LEMMA RankFacts ==
  ASSUME NEW g \in Graphs, NEW x \in DOMAIN Found[g], NEW y \in DOMAIN Found[g]
  PROVE  LET l == Found[g]
             e == l[x].entity
             f == l[y].entity
         IN /\ Rank(l, e) \in Nat \ {0}
            /\ Rank(l, e) = Rank(l, f) => e = f
            /\ Rank(l, e) < Rank(l, f) => l[HitOf(l, f)].relevance <= l[HitOf(l, e)].relevance
            /\ l[HitOf(l, e)].relevance \in Nat
<1> DEFINE l == Found[g]
<1>1. l \in Seq(Hit)
  BY HitFacts
<1>2. HitOf(l, l[x].entity) = x /\ HitOf(l, l[y].entity) = y
  BY HitFacts
<1>3. /\ Rank(l, l[x].entity) = 1 + Cardinality(Above(l, x))
      /\ Rank(l, l[y].entity) = 1 + Cardinality(Above(l, y))
  BY <1>2 DEF Rank, Above
<1>4. /\ x \in Nat /\ l[x].relevance \in Nat
      /\ y \in Nat /\ l[y].relevance \in Nat
  <2>1. x \in Nat /\ l[x] \in Hit /\ y \in Nat /\ l[y] \in Hit
    BY <1>1
  <2> QED BY <2>1 DEF Hit
<1>5. /\ Cardinality(Above(l, x)) \in Nat /\ Cardinality(Above(l, y)) \in Nat
      /\ y \in Above(l, x) => Cardinality(Above(l, y)) < Cardinality(Above(l, x))
      /\ x \in Above(l, y) => Cardinality(Above(l, x)) < Cardinality(Above(l, y))
  BY <1>1, AboveFacts
<1>6. x = y \/ x \in Above(l, y) \/ y \in Above(l, x)
  BY <1>4 DEF Above
<1>7. l[y].relevance > l[x].relevance => y \in Above(l, x)
  BY DEF Above
<1> HIDE DEF l
<1>8. Rank(l, l[x].entity) = Rank(l, l[y].entity) => l[x].entity = l[y].entity
  BY <1>3, <1>5, <1>6
<1>9. Rank(l, l[x].entity) < Rank(l, l[y].entity) => l[y].relevance <= l[x].relevance
  BY <1>3, <1>4, <1>5, <1>7
<1>10. Rank(l, l[x].entity) \in Nat \ {0}
  BY <1>3, <1>5
<1> QED BY <1>2, <1>4, <1>8, <1>9, <1>10 DEF l

\* The elements that Sorted puts before m.
Before(M, m) == {n \in M : Precedes(n, m)}

\* What the elements of a set need so that Precedes is a strict order of all of
\* them.
Comparable(M) ==
  /\ \A m \in M : m.score \in Nat /\ m.met[1] \in Nat /\ m.met[2] \in Nat
  /\ \A m, n \in M : m.met[1] = n.met[1] /\ m.met[2] = n.met[2] => m = n

\* An element is after fewer elements than those it precedes.
LEMMA BeforeFacts ==
  ASSUME NEW M, IsFiniteSet(M), Comparable(M), NEW m \in M
  PROVE  /\ Cardinality(Before(M, m)) \in Nat
         /\ Cardinality(Before(M, m)) < Cardinality(M)
         /\ \A n \in M : Precedes(n, m) => Cardinality(Before(M, n)) < Cardinality(Before(M, m))
         /\ \A n \in M : n = m \/ Precedes(n, m) \/ Precedes(m, n)
<1>1. \A n \in M : Before(M, n) \subseteq M /\ IsFiniteSet(Before(M, n)) /\ n \notin Before(M, n)
  <2>1. \A n \in M : Before(M, n) \subseteq M
    BY DEF Before
  <2>2. \A n \in M : n \notin Before(M, n)
    BY DEF Before, Precedes, Comparable
  <2> QED BY <2>1, <2>2, FS_Subset
<1>2. Cardinality(Before(M, m)) \in Nat /\ Cardinality(Before(M, m)) < Cardinality(M)
  BY <1>1, StrictPart
<1>3. ASSUME NEW n \in M, Precedes(n, m)
      PROVE  Cardinality(Before(M, n)) < Cardinality(Before(M, m))
  <2>1. \A k \in M : Precedes(k, n) => Precedes(k, m)
    BY <1>3 DEF Precedes, Comparable
  <2>2. Before(M, n) \subseteq Before(M, m) /\ n \in Before(M, m)
    BY <1>3, <2>1 DEF Before
  <2>3. Before(M, n) # Before(M, m)
    BY <1>1, <2>2
  <2> QED BY <1>1, <2>2, <2>3, StrictPart
<1>4. \A n \in M : n = m \/ Precedes(n, m) \/ Precedes(m, n)
  BY DEF Precedes, Comparable
<1> QED BY <1>2, <1>3, <1>4

\* Every position below the number of elements is that of one of them.
LEMMA PositionsTaken ==
  ASSUME NEW M, IsFiniteSet(M), Comparable(M), NEW x \in 1..Cardinality(M)
  PROVE  \E m \in M : Cardinality(Before(M, m)) = x - 1
<1> DEFINE N == Cardinality(M)
           p == [m \in M |-> 1 + Cardinality(Before(M, m))]
<1>1. N \in Nat /\ IsFiniteSet(1..N) /\ Cardinality(1..N) = N
  BY FS_CardinalityType, FS_Interval
<1>2. p \in [M -> 1..N]
  <2>1. \A m \in M : 1 + Cardinality(Before(M, m)) \in 1..N
    <3>1. SUFFICES ASSUME NEW m \in M PROVE 1 + Cardinality(Before(M, m)) \in 1..N
      OBVIOUS
    <3>2. Cardinality(Before(M, m)) \in Nat /\ Cardinality(Before(M, m)) < N
      BY BeforeFacts
    <3> QED BY <1>1, <3>2
  <2> QED BY <2>1
<1>3. \A m, n \in M : p[m] = p[n] => m = n
  <2>1. SUFFICES ASSUME NEW m \in M, NEW n \in M,
                        Cardinality(Before(M, m)) = Cardinality(Before(M, n)),
                        m # n
                 PROVE  FALSE
    <3>1. \A m \in M : Cardinality(Before(M, m)) \in Nat
      BY BeforeFacts
    <3> QED BY <3>1
  <2>2. Precedes(n, m) \/ Precedes(m, n)
    BY <2>1, BeforeFacts
  <2>3. Cardinality(Before(M, m)) \in Nat /\ Cardinality(Before(M, n)) \in Nat
    BY BeforeFacts
  <2>4. CASE Precedes(n, m)
    <3>1. Cardinality(Before(M, n)) < Cardinality(Before(M, m))
      BY <2>4, BeforeFacts
    <3> QED BY <2>1, <2>3, <3>1
  <2>5. CASE Precedes(m, n)
    <3>1. Cardinality(Before(M, m)) < Cardinality(Before(M, n))
      BY <2>5, BeforeFacts
    <3> QED BY <2>1, <2>3, <3>1
  <2> QED BY <2>2, <2>4, <2>5
<1>4. p \in Injection(M, 1..N)
  <2> HIDE DEF p
  <2> QED BY <1>2, <1>3 DEF Injection, IsInjective
<1>5. p \in Surjection(M, 1..N)
  <2> HIDE DEF p, N
  <2> QED BY <1>1, <1>4, FS_Injection DEF N
<1>6. PICK m \in M : p[m] = x
  <2> HIDE DEF p
  <2> QED BY <1>5 DEF Surjection
<1>7. 1 + Cardinality(Before(M, m)) = x /\ Cardinality(Before(M, m)) \in Nat
  BY <1>6, BeforeFacts
<1> QED BY <1>7

\* A sorted list holds elements of the set, and what precedes an element of the
\* list is before it in the list.
LEMMA SortedFacts ==
  ASSUME NEW M, IsFiniteSet(M), Comparable(M), NEW k \in Nat
  PROVE  /\ Sorted(M, k) \in Seq(M)
         /\ \A y \in DOMAIN Sorted(M, k), m \in M :
              Precedes(m, Sorted(M, k)[y]) => \E x \in 1..(y - 1) : Sorted(M, k)[x] = m
<1> DEFINE N == Min({Cardinality(M), k})
           s == Sorted(M, k)
<1>1. N \in Nat /\ N <= Cardinality(M)
  <2>1. Cardinality(M) \in Nat
    BY FS_CardinalityType
  <2>2. \E n \in {Cardinality(M), k} : \A m \in {Cardinality(M), k} : n <= m
    BY <2>1
  <2>3. N \in {Cardinality(M), k} /\ N <= Cardinality(M)
    BY <2>2 DEF Min
  <2> QED BY <2>1, <2>3
<1>2. s = [x \in 1..N |-> CHOOSE m \in M : Cardinality(Before(M, m)) = x - 1]
  BY DEF Sorted, Before
<1>3. \A x \in 1..N : s[x] \in M /\ Cardinality(Before(M, s[x])) = x - 1
  <2>1. SUFFICES ASSUME NEW x \in 1..N PROVE s[x] \in M /\ Cardinality(Before(M, s[x])) = x - 1
    OBVIOUS
  <2>2. x \in 1..Cardinality(M)
    <3>1. Cardinality(M) \in Nat
      BY FS_CardinalityType
    <3> HIDE DEF N
    <3> QED BY <1>1, <3>1
  <2>3. \E m \in M : Cardinality(Before(M, m)) = x - 1
    BY <2>2, PositionsTaken
  <2>4. s[x] = CHOOSE m \in M : Cardinality(Before(M, m)) = x - 1
    <3> HIDE DEF s, N
    <3> QED BY <1>2
  <2> HIDE DEF s, N
  <2> QED BY <2>3, <2>4
<1>4. s \in Seq(M)
  <2>1. s \in [1..N -> M]
    <3> HIDE DEF s, N
    <3> QED BY <1>2, <1>3
  <2> HIDE DEF s, N
  <2> QED BY <1>1, <2>1
<1>5. ASSUME NEW y \in DOMAIN s, NEW m \in M, Precedes(m, s[y])
      PROVE  \E x \in 1..(y - 1) : s[x] = m
  <2>1. y \in 1..N
    <3> HIDE DEF s, N
    <3> QED BY <1>2
  <2>2. s[y] \in M /\ Cardinality(Before(M, s[y])) = y - 1
    <3> HIDE DEF s, N
    <3> QED BY <1>3, <2>1
  <2> DEFINE x == 1 + Cardinality(Before(M, m))
  <2>3. x \in 1..(y - 1)
    <3> HIDE DEF s
    <3>1. Cardinality(Before(M, m)) \in Nat /\ Cardinality(Before(M, m)) < Cardinality(Before(M, s[y]))
      BY <1>5, <2>2, BeforeFacts
    <3> HIDE DEF N
    <3> QED BY <2>1, <2>2, <3>1
  <2>4. x \in 1..N
    <3> HIDE DEF x, N
    <3> QED BY <1>1, <2>1, <2>3
  <2>5. s[x] \in M /\ Cardinality(Before(M, s[x])) = x - 1
    <3> HIDE DEF x, s, N
    <3> QED BY <1>3, <2>4
  <2>6. Cardinality(Before(M, s[x])) = Cardinality(Before(M, m))
    <3>1. Cardinality(Before(M, m)) \in Nat
      BY BeforeFacts
    <3> HIDE DEF s
    <3> QED BY <2>5, <3>1
  <2>7. s[x] = m
    <3> HIDE DEF s, x
    <3>1. s[x] = m \/ Precedes(s[x], m) \/ Precedes(m, s[x])
      BY <2>5, BeforeFacts
    <3>2. Cardinality(Before(M, m)) \in Nat
      BY BeforeFacts
    <3>3. ~Precedes(s[x], m)
      <4>1. Precedes(s[x], m) => Cardinality(Before(M, s[x])) < Cardinality(Before(M, m))
        BY <2>5, BeforeFacts
      <4> QED BY <4>1, <2>6, <3>2
    <3>4. ~Precedes(m, s[x])
      <4>1. Precedes(m, s[x]) => Cardinality(Before(M, m)) < Cardinality(Before(M, s[x]))
        BY <2>5, BeforeFacts
      <4> QED BY <4>1, <2>6, <3>2
    <3> QED BY <3>1, <3>3, <3>4
  <2> QED BY <2>3, <2>7
<1> QED BY <1>4, <1>5

-----------------------------------------------------------------------------
(* The merge: what the backends of a request returned, and its order.      *)

\* The answers of a request, and the entities in them.
LEMMA AnswerFacts ==
  ASSUME ControlOK, NEW r \in Requests
  PROVE  /\ Len(refs[r]) \in Nat /\ DOMAIN refs[r] = 1..Len(refs[r])
         /\ \A i \in DOMAIN refs[r] : <<r, i>> \in Task /\ refs[r][i] \in Ref
         /\ \A i \in Answered(r) : i \in DOMAIN refs[r] /\ adapter[<<r, i>>] \in Graphs
         /\ EntitiesOf(r) \subseteq Entities
<1>1. refs[r] = <<>> \/ refs[r] \in RefLists
  BY DEF ControlOK
<1>2. refs[r] \in Seq(Ref) /\ Len(refs[r]) <= MaxRefs /\ MaxRefs \in Nat
  <2>1. CASE refs[r] = <<>>
    <3>1. <<>> \in Seq(Ref) /\ Len(<<>>) = 0
      OBVIOUS
    <3> QED BY <2>1, <3>1, FederationConstants
  <2>2. CASE refs[r] \in RefLists
    <3>1. MaxRefs \in Nat /\ Len(refs[r]) \in 1..MaxRefs /\ refs[r] \in Seq(Ref)
      BY <2>2, FederationConstants
    <3> QED BY <3>1
  <2> QED BY <1>1, <2>1, <2>2
<1>3. Len(refs[r]) \in Nat /\ DOMAIN refs[r] = 1..Len(refs[r])
  BY <1>2
<1>4. \A i \in DOMAIN refs[r] : refs[r][i] \in Ref
  BY <1>2
<1>5. \A i \in DOMAIN refs[r] : <<r, i>> \in Task
  BY <1>2, <1>3 DEF Task
<1>6. \A i \in Answered(r) : i \in DOMAIN refs[r] /\ adapter[<<r, i>>] \in Graphs
  BY <1>5 DEF Answered, ControlOK
<1>7. EntitiesOf(r) \subseteq Entities
  <2>1. SUFFICES ASSUME NEW i \in Answered(r), NEW x \in DOMAIN Answer(r, i)
                 PROVE  Answer(r, i)[x].entity \in Entities
    BY DEF EntitiesOf, Returned
  <2>2. Answer(r, i)[x] \in Hit
    BY <1>6, HitFacts DEF Answer
  <2> QED BY <2>2 DEF Hit
<1> QED BY <1>3, <1>4, <1>5, <1>6, <1>7

\* The references whose answers hold an entity are positions, and one of an entity
\* that was returned is the least.
LEMMA HoldingFacts ==
  ASSUME ControlOK, NEW r \in Requests, NEW e \in EntitiesOf(r)
  PROVE  /\ Holding(r, e) \subseteq DOMAIN refs[r]
         /\ \A i \in Holding(r, e) :
              /\ i \in Nat /\ i \in Answered(r) /\ adapter[<<r, i>>] \in Graphs
              /\ \E x \in DOMAIN Answer(r, i) : Answer(r, i)[x].entity = e
         /\ Min(Holding(r, e)) \in Holding(r, e)
         /\ \A i \in Holding(r, e) : Min(Holding(r, e)) <= i
<1>1. /\ Holding(r, e) \subseteq DOMAIN refs[r]
      /\ \A i \in Holding(r, e) : i \in Nat /\ i \in Answered(r) /\ adapter[<<r, i>>] \in Graphs
  <2>1. \A i \in Answered(r) : i \in DOMAIN refs[r] /\ i \in Nat /\ adapter[<<r, i>>] \in Graphs
    BY AnswerFacts
  <2> QED BY <2>1 DEF Holding
<1>2. \A i \in Holding(r, e) : \E x \in DOMAIN Answer(r, i) : Answer(r, i)[x].entity = e
  BY DEF Holding, Returned
<1>3. Holding(r, e) \in SUBSET Nat /\ Holding(r, e) # {}
  BY <1>1 DEF EntitiesOf, Holding
<1>4. \E n \in Holding(r, e) : \A m \in Holding(r, e) : n <= m
  BY <1>3, LeastElement
<1>5. /\ Min(Holding(r, e)) \in Holding(r, e)
      /\ \A i \in Holding(r, e) : Min(Holding(r, e)) <= i
  BY <1>4 DEF Min
<1> QED BY <1>1, <1>2, <1>5

\* A backend adds a natural number to an entity, and no more to one it ranks after.
LEMMA ContributionFacts ==
  ASSUME ControlOK, NEW r \in Requests, NEW s, NEW e \in EntitiesOf(r), NEW f \in EntitiesOf(r),
         NEW i \in Holding(r, e), i \in Holding(r, f)
  PROVE  /\ Contribution(r, s, i, e) \in Nat
         /\ Rank(Answer(r, i), e) < Rank(Answer(r, i), f) =>
              Contribution(r, s, i, f) <= Contribution(r, s, i, e)
<1> DEFINE g == adapter[<<r, i>>]
           l == Answer(r, i)
<1>1. g \in Graphs /\ l = Found[g] /\ refs[r][i].weight \in Nat
  <2>1. refs[r][i] \in Ref
    BY HoldingFacts, AnswerFacts
  <2> QED BY <2>1, HoldingFacts DEF Answer, Ref
<1>2. PICK x \in DOMAIN l : l[x].entity = e
  BY HoldingFacts
<1>3. PICK y \in DOMAIN l : l[y].entity = f
  BY HoldingFacts
<1> HIDE DEF g, l
<1>4. /\ Rank(l, e) \in Nat \ {0} /\ l[HitOf(l, e)].relevance \in Nat
      /\ Rank(l, e) < Rank(l, f) => l[HitOf(l, f)].relevance <= l[HitOf(l, e)].relevance
  BY <1>1, <1>2, <1>3, RankFacts
<1>5. Rank(l, f) \in Nat \ {0} /\ l[HitOf(l, f)].relevance \in Nat
  BY <1>1, <1>2, <1>3, RankFacts
<1>6. RrfK \in Nat \ {0} /\ Scale \in Nat
  BY FederationConstants
<1>7. CASE s = "rrf"
  <2>1. /\ Contribution(r, s, i, e) = refs[r][i].weight * (Scale \div (RrfK + Rank(l, e)))
        /\ Contribution(r, s, i, f) = refs[r][i].weight * (Scale \div (RrfK + Rank(l, f)))
    BY <1>7 DEF Contribution, l
  <2>2. RrfK + Rank(l, e) \in Nat \ {0} /\ RrfK + Rank(l, f) \in Nat \ {0}
    BY <1>4, <1>5, <1>6
  <2>3. Scale \div (RrfK + Rank(l, e)) \in Nat
    BY <1>6, <2>2, DivAntitone
  <2>4. Contribution(r, s, i, e) \in Nat
    BY <1>1, <2>1, <2>3, TimesMonotone
  <2>5. ASSUME Rank(l, e) < Rank(l, f)
        PROVE  Contribution(r, s, i, f) <= Contribution(r, s, i, e)
    <3>1. RrfK + Rank(l, e) <= RrfK + Rank(l, f)
      BY <1>4, <1>5, <1>6, <2>5
    <3>2. /\ Scale \div (RrfK + Rank(l, f)) \in Nat
          /\ Scale \div (RrfK + Rank(l, f)) <= Scale \div (RrfK + Rank(l, e))
      BY <1>6, <2>2, <3>1, DivAntitone
    <3> QED BY <1>1, <2>1, <2>3, <3>2, TimesMonotone
  <2> QED BY <2>4, <2>5 DEF l
<1>8. CASE s # "rrf"
  <2>1. /\ Contribution(r, s, i, e) = refs[r][i].weight * (Scale * l[HitOf(l, e)].relevance)
        /\ Contribution(r, s, i, f) = refs[r][i].weight * (Scale * l[HitOf(l, f)].relevance)
    BY <1>8 DEF Contribution, l
  <2>2. Scale * l[HitOf(l, e)].relevance \in Nat
    BY <1>4, <1>6, TimesMonotone
  <2>3. Contribution(r, s, i, e) \in Nat
    BY <1>1, <2>1, <2>2, TimesMonotone
  <2>4. ASSUME Rank(l, e) < Rank(l, f)
        PROVE  Contribution(r, s, i, f) <= Contribution(r, s, i, e)
    <3>1. /\ Scale * l[HitOf(l, f)].relevance \in Nat
          /\ Scale * l[HitOf(l, f)].relevance <= Scale * l[HitOf(l, e)].relevance
      BY <1>4, <1>5, <1>6, <2>4, TimesMonotone
    <3> QED BY <1>1, <2>1, <2>2, <3>1, TimesMonotone
  <2> QED BY <2>3, <2>4 DEF l
<1> QED BY <1>7, <1>8

\* An entity gains a natural number from each reference.
LEMMA GainsType ==
  ASSUME ControlOK, NEW r \in Requests, NEW s, NEW e \in EntitiesOf(r)
  PROVE  /\ Gains(r, s, e) \in [1..Len(refs[r]) -> Nat]
         /\ \A i \in 1..Len(refs[r]) :
              Gains(r, s, e)[i] = IF i \in Holding(r, e) THEN Contribution(r, s, i, e) ELSE 0
<1>1. DOMAIN refs[r] = 1..Len(refs[r])
  BY AnswerFacts
<1>2. \A i \in Holding(r, e) : Contribution(r, s, i, e) \in Nat
  BY ContributionFacts
<1> QED BY <1>1, <1>2 DEF Gains

\* Scores are divided by a positive number.
LEMMA DivisorPositive ==
  ASSUME ControlOK, NEW r \in Requests, NEW s, DOMAIN refs[r] # {}
  PROVE  Divisor(r, s) * Grain \in Nat \ {0}
<1>1. /\ Len(refs[r]) \in Nat /\ DOMAIN refs[r] = 1..Len(refs[r])
      /\ \A i \in DOMAIN refs[r] : refs[r][i] \in Ref
  BY AnswerFacts
<1> DEFINE n == Len(refs[r])
           w == [i \in DOMAIN refs[r] |-> refs[r][i].weight]
<1>2. w \in [1..n -> Nat] /\ \A i \in 1..n : w[i] > 0
  <2>1. \A i \in 1..n : refs[r][i].weight \in Nat \ {0}
    BY <1>1 DEF Ref
  <2> QED BY <1>1, <2>1
<1>3. TotalWeight(r) \in Nat \ {0}
  <2>1. n \in Nat /\ n > 0 /\ n \in 1..n
    BY <1>1
  <2>2. TotalWeight(r) = Total(w)
    BY DEF TotalWeight
  <2> HIDE DEF w, n
  <2>3. Total(w) \in Nat /\ Total(w) > 0
    BY <1>2, <2>1, TotalFacts
  <2> QED BY <2>2, <2>3
<1>4. Divisor(r, s) \in Nat \ {0}
  BY <1>3 DEF Divisor
<1>5. Grain \in Nat \ {0}
  BY FederationConstants
<1>6. \A a, b \in Nat \ {0} : a * b \in Nat \ {0}
  OBVIOUS
<1> QED BY <1>4, <1>5, <1>6

\* Scores are natural numbers; larger gains make no smaller score.
LEMMA ScoreFacts ==
  ASSUME ControlOK, NEW r \in Requests, NEW s, NEW e \in EntitiesOf(r), NEW f \in EntitiesOf(r)
  PROVE  /\ Score(r, s, e) \in Nat
         /\ (\A i \in 1..Len(refs[r]) : Gains(r, s, f)[i] <= Gains(r, s, e)[i]) =>
              Score(r, s, f) <= Score(r, s, e)
<1> DEFINE d == Divisor(r, s) * Grain
           p == Gains(r, s, e)
           q == Gains(r, s, f)
           n == Len(refs[r])
<1>1. d \in Nat \ {0}
  <2>1. DOMAIN refs[r] # {}
    BY DEF EntitiesOf, Answered
  <2> QED BY <2>1, DivisorPositive
<1>2. n \in Nat /\ p \in [1..n -> Nat] /\ q \in [1..n -> Nat]
  BY AnswerFacts, GainsType
<1>3. Score(r, s, e) = Total(p) \div d /\ Score(r, s, f) = Total(q) \div d
  BY DEF Score
<1> HIDE DEF d, p, q, n
<1>4. Total(p) \in Nat /\ Total(q) \in Nat
  BY <1>2, TotalFacts
<1>5. Score(r, s, e) \in Nat
  BY <1>1, <1>3, <1>4, DivMonotone
<1>6. ASSUME \A i \in 1..n : q[i] <= p[i]
      PROVE  Score(r, s, f) <= Score(r, s, e)
  <2>1. Total(q) <= Total(p)
    BY <1>2, <1>6, TotalFacts
  <2> QED BY <1>1, <1>3, <1>4, <2>1, DivMonotone
<1> QED BY <1>5, <1>6 DEF p, q, n

\* The element that is sorted for an entity.
Entry(r, s, e) == [entity |-> e, score |-> Score(r, s, e), met |-> Met(r, e)]

\* Where an entity was met first.
LEMMA MetFacts ==
  ASSUME ControlOK, NEW r \in Requests, NEW e \in EntitiesOf(r)
  PROVE  /\ Met(r, e)[1] = Min(Holding(r, e)) /\ Met(r, e)[1] \in Nat
         /\ Met(r, e)[2] = Rank(Answer(r, Met(r, e)[1]), e) /\ Met(r, e)[2] \in Nat
         /\ \A f \in EntitiesOf(r) :
              Met(r, f)[1] = Met(r, e)[1] /\ Met(r, f)[2] = Met(r, e)[2] => e = f
<1>1. ASSUME NEW f \in EntitiesOf(r)
      PROVE  /\ Met(r, f)[1] = Min(Holding(r, f))
             /\ Met(r, f)[2] = Rank(Answer(r, Min(Holding(r, f))), f)
             /\ Min(Holding(r, f)) \in Holding(r, f)
  BY HoldingFacts DEF Met
<1>2. ASSUME NEW f \in EntitiesOf(r), NEW i \in Holding(r, e), i \in Holding(r, f)
      PROVE  /\ Rank(Answer(r, i), e) \in Nat
             /\ Rank(Answer(r, i), e) = Rank(Answer(r, i), f) => e = f
  <2>1. adapter[<<r, i>>] \in Graphs /\ Answer(r, i) = Found[adapter[<<r, i>>]]
    BY HoldingFacts DEF Answer
  <2>2. PICK x \in DOMAIN Answer(r, i) : Answer(r, i)[x].entity = e
    BY HoldingFacts
  <2>3. PICK y \in DOMAIN Answer(r, i) : Answer(r, i)[y].entity = f
    BY <1>2, HoldingFacts
  <2> QED BY <2>1, <2>2, <2>3, RankFacts
<1>3. Met(r, e)[1] \in Nat /\ Met(r, e)[2] \in Nat
  <2>1. Min(Holding(r, e)) \in Nat
    BY <1>1, HoldingFacts
  <2> QED BY <1>1, <1>2, <2>1
<1>4. ASSUME NEW f \in EntitiesOf(r), Met(r, f)[1] = Met(r, e)[1], Met(r, f)[2] = Met(r, e)[2]
      PROVE  e = f
  <2> DEFINE i == Min(Holding(r, e))
  <2>1. i \in Holding(r, e) /\ i \in Holding(r, f)
    BY <1>1, <1>4
  <2>2. Rank(Answer(r, i), e) = Rank(Answer(r, i), f)
    BY <1>1, <1>4
  <2> HIDE DEF i
  <2> QED BY <1>2, <2>1, <2>2
<1> QED BY <1>1, <1>3, <1>4

\* The entries of a merge can be sorted.
LEMMA EntriesFacts ==
  ASSUME ControlOK, NEW r \in Requests, NEW s
  PROVE  /\ Entries(r, s) = {Entry(r, s, e) : e \in EntitiesOf(r)}
         /\ IsFiniteSet(Entries(r, s))
         /\ Comparable(Entries(r, s))
<1>1. Entries(r, s) = {Entry(r, s, e) : e \in EntitiesOf(r)}
  BY DEF Entries, Entry
<1>2. IsFiniteSet(Entries(r, s))
  <2>1. IsFiniteSet(EntitiesOf(r))
    <3>1. EntitiesOf(r) \in SUBSET Entities
      BY AnswerFacts
    <3> QED BY <3>1, FederationConstants, FS_Subset
  <2> DEFINE h == [e \in EntitiesOf(r) |-> Entry(r, s, e)]
  <2>2. h \in [EntitiesOf(r) -> Entries(r, s)]
    BY <1>1
  <2>3. \A m \in Entries(r, s) : \E e \in EntitiesOf(r) : h[e] = m
    BY <1>1
  <2>4. h \in Surjection(EntitiesOf(r), Entries(r, s))
    <3> HIDE DEF h
    <3> QED BY <2>2, <2>3 DEF Surjection
  <2> HIDE DEF h
  <2> QED BY <2>1, <2>4, FS_Surjection
<1>3. Comparable(Entries(r, s))
  <2>1. ASSUME NEW e \in EntitiesOf(r)
        PROVE  /\ Entry(r, s, e).score \in Nat
               /\ Entry(r, s, e).met = Met(r, e)
    BY ScoreFacts DEF Entry
  <2>2. \A m \in Entries(r, s) : m.score \in Nat /\ m.met[1] \in Nat /\ m.met[2] \in Nat
    <3>1. SUFFICES ASSUME NEW e \in EntitiesOf(r)
                   PROVE  /\ Entry(r, s, e).score \in Nat
                          /\ Entry(r, s, e).met[1] \in Nat /\ Entry(r, s, e).met[2] \in Nat
      BY <1>1
    <3> QED BY <2>1, MetFacts
  <2>3. ASSUME NEW e \in EntitiesOf(r), NEW f \in EntitiesOf(r),
               Entry(r, s, e).met[1] = Entry(r, s, f).met[1],
               Entry(r, s, e).met[2] = Entry(r, s, f).met[2]
        PROVE  Entry(r, s, e) = Entry(r, s, f)
    <3>1. e = f
      BY <2>1, <2>3, MetFacts
    <3> QED BY <3>1
  <2> QED BY <1>1, <2>2, <2>3 DEF Comparable
<1> QED BY <1>1, <1>2, <1>3

\* Every backend that returns f ranks e above it.
Outranks(r, e, f) ==
  \A i \in Answered(r) : f \in Returned(r, i) =>
    /\ e \in Returned(r, i)
    /\ Rank(Answer(r, i), e) < Rank(Answer(r, i), f)

\* Then e has no smaller score, and was met before f.
LEMMA OutranksPrecedes ==
  ASSUME ControlOK, NEW r \in Requests, NEW s,
         NEW e \in EntitiesOf(r), NEW f \in EntitiesOf(r), Outranks(r, e, f)
  PROVE  Precedes(Entry(r, s, e), Entry(r, s, f))
<1>1. \A i \in Holding(r, f) : i \in Holding(r, e) /\ Rank(Answer(r, i), e) < Rank(Answer(r, i), f)
  BY DEF Outranks, Holding
<1>2. \A i \in 1..Len(refs[r]) : Gains(r, s, f)[i] <= Gains(r, s, e)[i]
  <2>1. SUFFICES ASSUME NEW i \in 1..Len(refs[r]) PROVE Gains(r, s, f)[i] <= Gains(r, s, e)[i]
    OBVIOUS
  <2>2. CASE i \in Holding(r, f)
    <3>1. Contribution(r, s, i, f) <= Contribution(r, s, i, e)
      BY <1>1, <2>2, ContributionFacts
    <3> QED BY <1>1, <2>2, <3>1, GainsType
  <2>3. CASE i \notin Holding(r, f)
    <3>1. Gains(r, s, f)[i] = 0 /\ Gains(r, s, e)[i] \in Nat
      BY <2>3, GainsType
    <3> QED BY <3>1
  <2> QED BY <2>2, <2>3
<1>3. /\ Score(r, s, f) <= Score(r, s, e)
      /\ Score(r, s, e) \in Nat /\ Score(r, s, f) \in Nat
  BY <1>2, ScoreFacts
<1>4. \/ Met(r, e)[1] < Met(r, f)[1]
      \/ Met(r, e)[1] = Met(r, f)[1] /\ Met(r, e)[2] < Met(r, f)[2]
  <2> DEFINE i == Min(Holding(r, f))
             j == Min(Holding(r, e))
  <2>1. i \in Holding(r, f) /\ i \in Holding(r, e)
    BY <1>1, HoldingFacts
  <2>2. j <= i /\ i \in Nat /\ j \in Nat
    BY <2>1, HoldingFacts
  <2>3. /\ Met(r, e)[1] = j /\ Met(r, e)[2] = Rank(Answer(r, j), e)
        /\ Met(r, f)[1] = i /\ Met(r, f)[2] = Rank(Answer(r, i), f)
    BY MetFacts
  <2> HIDE DEF i, j
  <2> QED BY <1>1, <2>1, <2>2, <2>3
<1>5. /\ Entry(r, s, e).score = Score(r, s, e) /\ Entry(r, s, e).met = Met(r, e)
      /\ Entry(r, s, f).score = Score(r, s, f) /\ Entry(r, s, f).met = Met(r, f)
  BY DEF Entry
<1> QED BY <1>3, <1>4, <1>5 DEF Precedes

\* A merge lists entities, and is unanimous.
LEMMA MergedFacts ==
  ASSUME ControlOK, NEW r \in Requests, NEW s
  PROVE  /\ MergedEntities(r, s) \in Seq(Entities)
         /\ \A e, f \in EntitiesOf(r) : Outranks(r, e, f) =>
              \A y \in DOMAIN MergedEntities(r, s) : MergedEntities(r, s)[y] = f =>
                \E x \in 1..(y - 1) : MergedEntities(r, s)[x] = e
<1> DEFINE M == Entries(r, s)
           top == Sorted(M, TopK)
           m == MergedEntities(r, s)
<1>1. /\ M = {Entry(r, s, e) : e \in EntitiesOf(r)}
      /\ IsFiniteSet(M) /\ Comparable(M)
  BY EntriesFacts
<1>2. TopK \in Nat
  BY FederationConstants
<1>3. m = [x \in DOMAIN top |-> top[x].entity]
  BY DEF MergedEntities
<1>4. \A e \in EntitiesOf(r) : Entry(r, s, e).entity = e
  BY DEF Entry
<1> HIDE DEF M, m
<1>5. /\ top \in Seq(M)
      /\ \A y \in DOMAIN top, n \in M :
           Precedes(n, top[y]) => \E x \in 1..(y - 1) : top[x] = n
  <2>1. IsFiniteSet(M) /\ Comparable(M)
    BY <1>1
  <2> QED BY <1>2, <2>1, SortedFacts
<1> HIDE DEF top
<1>6. DOMAIN top = 1..Len(top) /\ Len(top) \in Nat /\ \A x \in DOMAIN top : top[x] \in M
  BY <1>5
<1>7. \A n \in M : n.entity \in EntitiesOf(r) /\ n = Entry(r, s, n.entity)
  BY <1>1, <1>4
<1>8. m \in Seq(Entities)
  <2>1. \A n \in M : n.entity \in Entities
    BY <1>7, AnswerFacts
  <2>2. m \in [1..Len(top) -> Entities]
    BY <1>3, <1>6, <2>1
  <2> QED BY <1>6, <2>2
<1>9. ASSUME NEW e \in EntitiesOf(r), NEW f \in EntitiesOf(r), Outranks(r, e, f),
             NEW y \in DOMAIN m, m[y] = f
      PROVE  \E x \in 1..(y - 1) : m[x] = e
  <2>1. y \in DOMAIN top /\ top[y] \in M /\ top[y] = Entry(r, s, f)
    BY <1>3, <1>6, <1>7, <1>9
  <2>2. Entry(r, s, e) \in M
    BY <1>1
  <2>3. Precedes(Entry(r, s, e), top[y])
    BY <1>9, <2>1, OutranksPrecedes
  <2>4. PICK x \in 1..(y - 1) : top[x] = Entry(r, s, e)
    BY <1>5, <2>1, <2>2, <2>3
  <2>5. x \in DOMAIN top
    BY <1>6, <2>1
  <2>6. m[x] = e
    BY <1>3, <1>4, <2>4, <2>5
  <2> QED BY <2>6
<1> QED BY <1>8, <1>9 DEF m

-----------------------------------------------------------------------------
\* The merged entities are entities.  The tasks of a request that is done are
\* done, so what it merged is what its backends still hold as answered, and the
\* merge is unanimous about that.
UnanimousAt(r) ==
  phase[r] = "done" /\ op[r] = "search" =>
    \A e, f \in EntitiesOf(r) : Outranks(r, e, f) =>
      \A y \in DOMAIN merged[r] : merged[r][y] = f => \E x \in 1..(y - 1) : merged[r][x] = e

MergeInv ==
  /\ merged \in [Requests -> Seq(Entities)]
  /\ \A r \in Requests : phase[r] = "done" => \A i \in DOMAIN refs[r] : pc[<<r, i>>] = "done"
  /\ \A r \in Requests : UnanimousAt(r)

\* MergeInv holds initially: nothing is done.
LEMMA MergeInit == Init => MergeInv
<1> SUFFICES ASSUME Init PROVE MergeInv
  OBVIOUS
<1>1. <<>> \in Seq(Entities)
  OBVIOUS
<1>2. merged \in [Requests -> Seq(Entities)]
  BY <1>1 DEF Init
<1>3. \A r \in Requests : phase[r] # "done"
  BY DEF Init
<1> QED BY <1>2, <1>3 DEF MergeInv, UnanimousAt

\* A request whose references and tasks' results stay has the same answers.
LEMMA AnswersKept ==
  ASSUME NEW r \in Requests, refs'[r] = refs[r],
         \A i \in DOMAIN refs[r] : /\ outcome'[<<r, i>>] = outcome[<<r, i>>]
                                   /\ adapter'[<<r, i>>] = adapter[<<r, i>>]
  PROVE  /\ EntitiesOf(r)' = EntitiesOf(r)
         /\ \A e, f : Outranks(r, e, f)' <=> Outranks(r, e, f)
<1>1. Answered(r)' = Answered(r) /\ Answered(r) \subseteq DOMAIN refs[r]
  BY DEF Answered
<1>2. \A i \in Answered(r) : Answer(r, i)' = Answer(r, i)
  BY <1>1 DEF Answer
<1>3. \A i \in Answered(r) : Returned(r, i)' = Returned(r, i)
  BY <1>2 DEF Returned
<1>4. EntitiesOf(r)' = EntitiesOf(r)
  BY <1>1, <1>3 DEF EntitiesOf
<1>5. ASSUME NEW e, NEW f PROVE Outranks(r, e, f)' <=> Outranks(r, e, f)
  <2>1. \A i \in Answered(r) : /\ Rank(Answer(r, i), e)' = Rank(Answer(r, i), e)
                               /\ Rank(Answer(r, i), f)' = Rank(Answer(r, i), f)
    BY <1>2 DEF Rank, HitOf
  <2> QED BY <1>1, <1>3, <2>1 DEF Outranks
<1> QED BY <1>4, <1>5

\* What a step leaves of a request keeps the merge unanimous about it.
LEMMA UnanimousKept ==
  ASSUME NEW r \in Requests, refs'[r] = refs[r], UnanimousAt(r),
         phase[r] = "done", op'[r] = op[r], merged'[r] = merged[r],
         \A i \in DOMAIN refs[r] : /\ outcome'[<<r, i>>] = outcome[<<r, i>>]
                                   /\ adapter'[<<r, i>>] = adapter[<<r, i>>]
  PROVE  UnanimousAt(r)'
BY AnswersKept DEF UnanimousAt

\* Every step keeps MergeInv: a merge makes it true, and no task of a request that
\* is done takes a step.
LEMMA MergeStep == Shape /\ MergeInv /\ [Next]_vars => MergeInv'
<1> SUFFICES ASSUME Shape, MergeInv, [Next]_vars PROVE MergeInv'
  OBVIOUS
<1>0. /\ ControlOK
      /\ \A r \in Requests : \A i \in DOMAIN refs[r] : <<r, i>> \in Task
  BY AnswerFacts DEF Shape
<1>1. ASSUME NEW r \in Requests, NEW l \in RefLists, NEW o \in Operations, Begin(r, l, o)
      PROVE  MergeInv'
  <2>1. \A q \in Requests : phase'[q] = "done" => q # r /\ phase[q] = "done"
    BY <1>0, <1>1 DEF Begin, ControlOK
  <2>2. UNCHANGED <<merged, adapter, outcome>>
    BY <1>1 DEF Begin
  <2>3. \A q \in Requests \ {r} : /\ refs'[q] = refs[q] /\ op'[q] = op[q]
                                  /\ \A i \in DOMAIN refs[q] : pc'[<<q, i>>] = pc[<<q, i>>]
    BY <1>0, <1>1 DEF Begin, ControlOK
  <2>4. ASSUME NEW q \in Requests PROVE UnanimousAt(q)'
    <3>1. CASE phase'[q] = "done"
      BY <2>1, <2>2, <2>3, <3>1, UnanimousKept DEF MergeInv
    <3>2. CASE phase'[q] # "done"
      BY <3>2 DEF UnanimousAt
    <3> QED BY <3>1, <3>2
  <2> QED BY <2>1, <2>2, <2>3, <2>4 DEF MergeInv
<1>2. ASSUME NEW r \in Requests, NEW m, Finish(r, m), m \in Seq(Entities),
             op[r] = "search" => \E s : m = MergedEntities(r, s)
      PROVE  MergeInv'
  <2>1. /\ UNCHANGED <<refs, op, pc, adapter, outcome>>
        /\ merged' = [merged EXCEPT ![r] = m] /\ phase' = [phase EXCEPT ![r] = "done"]
        /\ \A i \in DOMAIN refs[r] : pc[<<r, i>>] = "done"
    BY <1>2 DEF Finish, tasks
  <2>2. merged' \in [Requests -> Seq(Entities)]
    BY <1>2, <2>1 DEF MergeInv
  <2>3. \A q \in Requests : phase'[q] = "done" => \A i \in DOMAIN refs'[q] : pc'[<<q, i>>] = "done"
    BY <1>0, <2>1 DEF MergeInv, ControlOK
  <2>4. ASSUME NEW q \in Requests, q # r PROVE UnanimousAt(q)'
    <3>1. phase'[q] = phase[q] /\ merged'[q] = merged[q]
      BY <1>0, <2>1, <2>4 DEF ControlOK, MergeInv
    <3>2. CASE phase[q] = "done"
      BY <2>1, <3>1, <3>2, UnanimousKept DEF MergeInv
    <3>3. CASE phase[q] # "done"
      BY <3>1, <3>3 DEF UnanimousAt
    <3> QED BY <3>2, <3>3
  <2>5. UnanimousAt(r)'
    <3>1. SUFFICES ASSUME op[r] = "search" PROVE UnanimousAt(r)'
      BY <2>1 DEF UnanimousAt
    <3>2. PICK s : m = MergedEntities(r, s)
      BY <1>2, <3>1
    <3>3. merged'[r] = m
      BY <2>1 DEF MergeInv
    <3>4. /\ EntitiesOf(r)' = EntitiesOf(r)
          /\ \A e, f : Outranks(r, e, f)' <=> Outranks(r, e, f)
      BY <2>1, AnswersKept
    <3>5. \A e, f \in EntitiesOf(r) : Outranks(r, e, f) =>
            \A y \in DOMAIN m : m[y] = f => \E x \in 1..(y - 1) : m[x] = e
      BY <1>0, <3>2, MergedFacts
    <3> QED BY <3>3, <3>4, <3>5 DEF UnanimousAt
  <2> QED BY <2>2, <2>3, <2>4, <2>5 DEF MergeInv
<1>3. ASSUME UNCHANGED <<requests, tasks>>
      PROVE  MergeInv'
  <2>1. UNCHANGED <<refs, op, phase, merged, pc, adapter, outcome>>
    BY <1>3 DEF requests, tasks
  <2>2. ASSUME NEW q \in Requests PROVE UnanimousAt(q)'
    <3>1. CASE phase[q] = "done"
      BY <2>1, <3>1, UnanimousKept DEF MergeInv
    <3>2. CASE phase[q] # "done"
      BY <2>1, <3>2 DEF UnanimousAt
    <3> QED BY <3>1, <3>2
  <2> QED BY <2>1, <2>2 DEF MergeInv
<1>4. ASSUME NEW t \in Task, Step(t)
      PROVE  MergeInv'
  <2>1. UNCHANGED <<refs, op, phase, merged>> /\ pc[t] \notin {"none", "done"}
    BY <1>4 DEF Step, Start, Reject, Lookup, Fetch, Reuse, CheckBound, ListKeys, Inspect, Delete,
                Build, Search, requests
  <2>2. \A u \in Task \ {t} : pc'[u] = pc[u] /\ outcome'[u] = outcome[u] /\ adapter'[u] = adapter[u]
    <3>1. CASE Inspect(t)
      BY <1>0, <3>1 DEF Inspect, Goto, End, ControlOK
    <3>2. CASE ~Inspect(t)
      BY <1>0, <1>4, <3>2 DEF Step, Start, Reject, Lookup, Fetch, Reuse, CheckBound, ListKeys, Delete,
                Build, Search, Goto, End, Resolved, ControlOK
    <3> QED BY <3>1, <3>2
  <2>3. ASSUME NEW q \in Requests, phase[q] = "done", NEW i \in DOMAIN refs[q]
        PROVE  <<q, i>> \in Task \ {t} /\ pc[<<q, i>>] = "done"
    BY <1>0, <2>1, <2>3 DEF MergeInv
  <2>4. ASSUME NEW q \in Requests PROVE UnanimousAt(q)'
    <3>1. CASE phase[q] = "done"
      <4>1. \A i \in DOMAIN refs[q] : /\ outcome'[<<q, i>>] = outcome[<<q, i>>]
                                      /\ adapter'[<<q, i>>] = adapter[<<q, i>>]
        BY <2>2, <2>3, <3>1
      <4> QED BY <2>1, <3>1, <4>1, UnanimousKept DEF MergeInv
    <3>2. CASE phase[q] # "done"
      BY <2>1, <3>2 DEF UnanimousAt
    <3> QED BY <3>1, <3>2
  <2>5. \A q \in Requests : phase'[q] = "done" => \A i \in DOMAIN refs'[q] : pc'[<<q, i>>] = "done"
    BY <2>1, <2>2, <2>3
  <2> QED BY <2>1, <2>4, <2>5 DEF MergeInv
<1>5. ASSUME NEW r \in Requests, Merge(r)
      PROVE  MergeInv'
  <2>1. PICK s \in Strategies : Finish(r, MergedEntities(r, s))
    BY <1>5 DEF Merge
  <2>2. MergedEntities(r, s) \in Seq(Entities)
    BY <1>0, MergedFacts
  <2> QED BY <1>2, <2>1, <2>2
<1>6. ASSUME NEW r \in Requests, ReturnLinks(r)
      PROVE  MergeInv'
  <2>1. <<>> \in Seq(Entities) /\ Finish(r, <<>>) /\ op[r] # "search"
    BY <1>6 DEF ReturnLinks
  <2> QED BY <1>2, <2>1
<1>7. ASSUME NEW n \in Registrable, Register(n)
      PROVE  MergeInv'
  BY <1>3, <1>7 DEF Register
<1>8. ASSUME UNCHANGED vars
      PROVE  MergeInv'
  BY <1>3, <1>8 DEF vars
<1> QED BY <1>1, <1>4, <1>5, <1>6, <1>7, <1>8 DEF Next

\* Every variable has its type, in every instance.
THEOREM TypeCorrect == Spec => []TypeOK
<1>1. Shape /\ MergeInv => TypeOK
  BY DEF Shape, MergeInv, TypeOK
<1> QED BY <1>1, Controlled, MergeInit, MergeStep, PTL DEF Spec

\* The merged list agrees with all backends where they agree, for every weight,
\* every answer, either strategy and whatever cut, in every instance.
THEOREM UnanimousMerge == Spec => []Unanimous
<1>1. MergeInv => Unanimous
  BY DEF MergeInv, UnanimousAt, Unanimous, Outranks
<1> QED BY <1>1, Controlled, MergeInit, MergeStep, PTL DEF Spec

=============================================================================

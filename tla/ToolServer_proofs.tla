--------------------------- MODULE ToolServer_proofs ---------------------------
(***************************************************************************)
(* Proofs about ToolServer, for any threads, jobs, documents, batches and  *)
(* bounds.                                                                 *)
(*                                                                         *)
(*   Typed          every variable has its type, and a frame what the step *)
(*                  it stands at relies on (TypeInv); gives TypeCorrect    *)
(*   SplitStep      whoever builds a contract holds the adapter that is    *)
(*                  published (SplitInv); gives SplitRace                  *)
(*   CallsFitStep,  where a job's worker is, its row and its documents     *)
(*   BoardStep      agree (CallsFit, JobsInv); gives OnBoard               *)
(*   CacheStep      while no flush is due, the first tier and what is      *)
(*                  about to be put there hold all that was acknowledged   *)
(*                  but for what was listed and not written (CacheInv);    *)
(*                  gives StaleExplained                                   *)
(***************************************************************************)
EXTENDS ToolServer, SequenceTheorems, TLAPS

\* The frames that occur: a search about to fill the cache has an answer, and a
\* getter works for a contract when it returns or builds one, as it does in a search.
Good == {f \in Frame : /\ f.at = "fill" => f.answer \in Answer
                       /\ f.at \in {"lookup", "row", "contract", "build"} => f.goal \in Contracts}

Framed == frame \in [Runners -> Good]

TypeInv == TypeOK /\ Framed

LEMMA IdleGood == Idle \in Good
BY ServerConstants DEF Good, Idle, Frame, NoCall, Call, Tools, Contracts, Backends, Steps, Answer, NoAnswer

\* A good frame stays one, whichever fields a step sets.
LEMMA GoodFields ==
  ASSUME NEW f \in Good
  PROVE  /\ f.at \in Steps /\ f.call \in Call /\ f.slot \in 0..MaxBatch
         /\ f.goal \in Contracts \cup {"name"} /\ f.found \in Backends
         /\ f.todo \in SUBSET Docs /\ f.answer \in Answer \cup {NoAnswer}
         /\ f.listed \in SUBSET Docs /\ f.must \in SUBSET Docs
BY DEF Good, Frame

Plain == Steps \ {"fill", "lookup", "row", "contract", "build"}

LEMMA GoodSteps ==
  ASSUME NEW f \in Good, NEW s \in Plain
  PROVE  /\ [f EXCEPT !.at = s] \in Good
         /\ \A b \in Backends : [f EXCEPT !.found = b, !.at = s] \in Good
         /\ \A a \in Answer \cup {NoAnswer} : [f EXCEPT !.answer = a, !.at = s] \in Good
         /\ \A D, E \in SUBSET Docs : [f EXCEPT !.todo = D, !.listed = E, !.at = s] \in Good
BY DEF Good, Frame, Plain

LEMMA GoodOthers ==
  ASSUME NEW f \in Good
  PROVE  /\ \A a \in Answer : [f EXCEPT !.answer = a] \in Good
         /\ \A a \in Answer : /\ [f EXCEPT !.answer = a, !.at = "fill"] \in Good
                              /\ [f EXCEPT !.at = "fill", !.answer = a] \in Good
         /\ \A D, E \in SUBSET Docs : [f EXCEPT !.listed = E, !.must = D] \in Good
BY ZenonT(60) DEF Good, Frame, Plain, Steps

\* Flaws only mark an answer.
LEMMA FlawedTyped ==
  ASSUME NEW a \in Answer, NEW F \in SUBSET {"row", "late", "blank", "window"}
  PROVE  Flawed(a, F) \in Answer
BY DEF Flawed, Answer

-----------------------------------------------------------------------------

\* A runner's step within its own frame.
LEMMA SetFramed ==
  ASSUME Framed, NEW r \in Runners, NEW f \in Good, Set(r, f)
  PROVE  Framed'
BY DEF Framed, Set

LEMMA GotoFramed ==
  ASSUME Framed, NEW r \in Runners, NEW s \in Plain, Goto(r, s)
  PROVE  Framed'
<1>1. frame[r] \in Good
  BY DEF Framed
<1>2. QED
  BY <1>1, GoodSteps, SetFramed DEF Goto

\* The lazy getters.
LEMMA GettersFramed ==
  ASSUME Framed, over \in [Contracts -> Backends \cup {"none"}], active \in Backends \cup {"none"},
         NEW r \in Runners, Getters(r)
  PROVE  Framed'
<1> DEFINE f == frame[r]
<1>0. f \in Good
  BY DEF Framed
<1>1. CASE GetContract(r)
  <2>1. CASE over[f.goal] = "none"
    BY <1>1, <2>1, GotoFramed DEF GetContract, Plain, Steps
  <2>2. CASE over[f.goal] # "none"
    <3>1. f.goal \in Contracts
      BY <1>0, <1>1 DEF GetContract, At, Good
    <3>2. PICK b \in Backends : Set(r, [f EXCEPT !.found = b, !.at = AfterContract(r)])
      BY <1>1, <2>2, <3>1 DEF GetContract
    <3>3. AfterContract(r) \in Plain
      BY DEF AfterContract, Plain, Steps
    <3>4. [f EXCEPT !.found = b, !.at = AfterContract(r)] \in Good
      BY <1>0, <3>2, <3>3, GoodSteps
    <3>5. QED
      BY <3>2, <3>4, SetFramed
  <2>3. QED
    BY <2>1, <2>2
<1>2. CASE GetAdapter(r)
  <2>1. CASE active = "none"
    BY <1>2, <2>1, GotoFramed DEF GetAdapter, Plain, Steps
  <2>2. CASE active # "none"
    <3> DEFINE g == [f EXCEPT !.found = active]
    <3>1. g.goal = f.goal
      BY <1>0 DEF Good, Frame
    <3>2. [g EXCEPT !.at = "build"] \in Good \/ g.goal = "name"
      BY <1>0, <2>2 DEF Good, Frame, Steps
    <3>3. [g EXCEPT !.at = "contract", !.goal = "construction"] \in Good
      BY <1>0, <2>2 DEF Good, Frame, Steps, Contracts
    <3>4. [g EXCEPT !.at = "launch"] \in Good
      BY <1>0, <2>2 DEF Good, Frame, Steps
    <3>5. \/ g.goal # "name" /\ Set(r, [g EXCEPT !.at = "build"])
          \/ Set(r, [g EXCEPT !.at = "contract", !.goal = "construction"])
          \/ Set(r, [g EXCEPT !.at = "launch"])
      BY <1>2, <2>2 DEF GetAdapter
    <3>6. QED
      BY <3>2, <3>3, <3>4, <3>5, SetFramed
  <2>3. QED
    BY <2>1, <2>2
<1>3. CASE Probe(r)
  <2>1. PICK b \in Backends : Set(r, [f EXCEPT !.found = b, !.at = "publish"])
    BY <1>3 DEF Probe, Backends
  <2>2. [f EXCEPT !.found = b, !.at = "publish"] \in Good
    BY <1>0, GoodSteps DEF Plain, Steps
  <2>3. QED
    BY <2>1, <2>2, SetFramed
<1>4. CASE Publish(r)
  BY <1>4, GotoFramed DEF Publish, Plain, Steps
<1>5. CASE Build(r)
  <2>1. f.goal \in Contracts
    BY <1>0, <1>5 DEF Build, At, Good
  <2>2. [f EXCEPT !.at = "contract"] \in Good
    BY <1>0, <2>1 DEF Good, Frame, Steps
  <2>3. QED
    BY <1>5, <2>2, SetFramed DEF Build, Goto
<1>6. QED
  BY <1>1, <1>2, <1>3, <1>4, <1>5 DEF Getters

\* A search.
LEMMA SearchFramed ==
  ASSUME TypeInv, NEW w \in Threads,
         Lookup(w) \/ LookupRow(w) \/ Retrieve(w) \/ Fill(w) \/ Store(w)
  PROVE  /\ Framed'
         /\ {memory', row'} \subseteq Answer \cup {NoAnswer}
<1> DEFINE f == frame[w]
<1>0. f \in Good /\ w \in Runners /\ {memory, row} \subseteq Answer \cup {NoAnswer} /\ Framed
  BY DEF TypeInv, TypeOK, Framed, Runners
<1>1. CASE Lookup(w)
  <2>1. CASE memory = NoAnswer
    <3>1. [f EXCEPT !.at = "row"] \in Good
      BY <1>0, <1>1 DEF Lookup, At, Good, Frame, Steps
    <3>2. QED
      BY <1>0, <1>1, <2>1, <3>1, SetFramed DEF Lookup, Goto, cache
  <2>2. CASE memory # NoAnswer
    <3>1. Flawed(memory, Window) \in Answer
      BY <1>0, <2>2, FlawedTyped DEF Window
    <3>2. [f EXCEPT !.answer = Flawed(memory, Window), !.at = "returned"] \in Good
      BY <1>0, <3>1, GoodSteps DEF Plain, Steps
    <3>3. QED
      BY <1>0, <1>1, <2>2, <3>2, SetFramed DEF Lookup, cache
  <2>3. QED
    BY <2>1, <2>2
<1>2. CASE LookupRow(w)
  <2>1. CASE row # NoAnswer /\ memory' = Flawed(row, {"row"}) /\ Set(w, [f EXCEPT !.answer = memory', !.at = "returned"])
    <3>1. memory' \in Answer
      BY <1>0, <2>1, FlawedTyped
    <3>2. [f EXCEPT !.answer = memory', !.at = "returned"] \in Good
      BY <1>0, <3>1, GoodSteps DEF Plain, Steps
    <3>3. QED
      BY <1>0, <1>2, <2>1, <3>1, <3>2, SetFramed DEF LookupRow
  <2>2. CASE Goto(w, "contract") /\ memory' = memory
    <3>1. [f EXCEPT !.at = "contract"] \in Good
      BY <1>0, <1>2, <2>2 DEF LookupRow, At, Good, Frame, Steps
    <3>2. QED
      BY <1>0, <1>2, <2>2, <3>1, SetFramed DEF LookupRow, Goto
  <2>3. CASE Goto(w, "raised") /\ memory' = memory
    BY <1>0, <1>2, <2>3, GotoFramed DEF LookupRow, Plain, Steps
  <2>4. QED
    BY <1>2, <2>1, <2>2, <2>3 DEF LookupRow
<1>3. CASE Retrieve(w)
  <2> DEFINE full == [of |-> f.found, docs |-> IF f.found = "graph" THEN stored ELSE {},
                      gaps |-> unwritten, flaws |-> {}]
             blank == [full EXCEPT !.docs = {}, !.flaws = {"blank"}]
  <2>1. full \in Answer /\ blank \in Answer
    BY <1>0, GoodFields DEF Answer, TypeInv, TypeOK
  <2>2. [f EXCEPT !.answer = full, !.at = "fill"] \in Good /\ [f EXCEPT !.at = "fill", !.answer = blank] \in Good
    <3> HIDE DEF full, blank
    <3>1. QED
      BY <1>0, <2>1, GoodOthers
  <2>3. \/ Set(w, [f EXCEPT !.answer = full, !.at = "fill"])
        \/ Set(w, [f EXCEPT !.at = "fill", !.answer = blank])
        \/ Goto(w, "returned")
    BY <1>3 DEF Retrieve
  <2>4. QED
    BY <1>0, <1>3, <2>2, <2>3, SetFramed, GotoFramed DEF Retrieve, Plain, Steps, cache
<1>4. CASE Fill(w)
  <2>1. memory' \in Answer \cup {NoAnswer}
    BY <1>0, <1>4, GoodFields DEF Fill
  <2>2. QED
    BY <1>0, <1>4, <2>1, GotoFramed DEF Fill, Plain, Steps
<1>5. CASE Store(w)
  <2>1. row' \in Answer \cup {NoAnswer}
    BY <1>0, <1>5, GoodFields DEF Store
  <2>2. QED
    BY <1>0, <1>5, <2>1, GotoFramed DEF Store, Plain, Steps
<1>6. QED
  BY <1>1, <1>2, <1>3, <1>4, <1>5

\* The frame of a runner whose ingest has done with document d.
Passed(f, d, D, s) == [f EXCEPT !.todo = f.todo \ {d}, !.listed = f.listed \cup D, !.at = s]

LEMMA PassOnSets ==
  ASSUME NEW r \in Runners, NEW d, NEW D, PassOn(r, d, D)
  PROVE  \E s \in {"write", "save", "flush"} : /\ Set(r, Passed(frame[r], d, D, s))
                                             /\ (s = "flush" => r \notin Jobs)
                                             /\ (r \in Jobs => s = (IF frame[r].todo \ {d} # {} THEN "write" ELSE "save"))
<1> DEFINE s == IF frame[r].todo \ {d} # {} THEN "write" ELSE IF r \in Jobs THEN "save" ELSE "flush"
<1>1. Set(r, Passed(frame[r], d, D, s))
  BY DEF PassOn, Passed
<1>2. /\ s \in {"write", "save", "flush"}
      /\ (s = "flush" => r \notin Jobs)
      /\ (r \in Jobs => s = (IF frame[r].todo \ {d} # {} THEN "write" ELSE "save"))
  OBVIOUS
<1> QED BY <1>1, <1>2

LEMMA PassedFields ==
  ASSUME NEW f \in Frame, NEW d, NEW D, NEW s
  PROVE  /\ Passed(f, d, D, s).at = s
         /\ Passed(f, d, D, s).todo = f.todo \ {d}
         /\ Passed(f, d, D, s).listed = f.listed \cup D
         /\ Passed(f, d, D, s).call = f.call
         /\ Passed(f, d, D, s).goal = f.goal
         /\ Passed(f, d, D, s).found = f.found
         /\ Passed(f, d, D, s).answer = f.answer
         /\ Passed(f, d, D, s).must = f.must
BY DEF Passed, Frame

\* A step of ingest is done with a document, or ends it with an exception.
LEMMA WriteDocCases ==
  ASSUME NEW r \in Runners, WriteDoc(r)
  PROVE  \/ \E d \in frame[r].todo : \E D \in SUBSET {d} : PassOn(r, d, D)
         \/ Except(r) /\ UNCHANGED <<stored, unwritten, tried>>
<1>1. CASE \E d \in frame[r].todo : WritePaper(r, d)
  <2>1. PICK d \in frame[r].todo : WritePaper(r, d)
    BY <1>1
  <2>2. PassOn(r, d, {d}) /\ {d} \in SUBSET {d}
    BY <2>1 DEF WritePaper
  <2> QED BY <2>2
<1>2. CASE \E d \in frame[r].todo : PassOn(r, d, {})
  <2>1. PICK d \in frame[r].todo : PassOn(r, d, {})
    BY <1>2
  <2>2. {} \in SUBSET {d}
    OBVIOUS
  <2> QED BY <2>1, <2>2
<1>3. CASE Except(r) /\ UNCHANGED <<stored, unwritten, tried>>
  BY <1>3
<1> QED BY <1>1, <1>2, <1>3 DEF WriteDoc

\* The tools that mutate the graph, and the jobs.
LEMMA MutationFramed ==
  ASSUME TypeInv, NEW r \in Runners,
         WriteDoc(r) \/ Flush(r) \/ (r \in Threads /\ (RemoveDoc(r) \/ Launch(r)))
         \/ (r \in Jobs /\ (Save(r) \/ Fail(r)))
  PROVE  Framed'
<1> DEFINE f == frame[r]
<1>0. f \in Good /\ Framed /\ Threads \subseteq Runners /\ Jobs \subseteq Runners
  BY DEF TypeInv, Framed, Runners
<1>1. ASSUME Except(r) PROVE Framed'
  <2>1. (IF r \in Jobs THEN "fail" ELSE "returned") \in Plain
    BY DEF Plain, Steps
  <2>2. QED
    BY <1>0, <1>1, <2>1, GotoFramed DEF Except
<1>2. CASE WriteDoc(r)
  <2>1. ASSUME NEW d \in f.todo, NEW D \in SUBSET {d}, PassOn(r, d, D)
        PROVE  Framed'
    <3>1. PICK s \in {"write", "save", "flush"} : Set(r, Passed(f, d, D, s))
      BY <2>1, PassOnSets
    <3>2. f.todo \ {d} \in SUBSET Docs /\ f.listed \cup D \in SUBSET Docs
      BY <1>0, GoodFields
    <3>3. s \in Plain
      BY DEF Plain, Steps
    <3>4. [f EXCEPT !.todo = f.todo \ {d}, !.listed = f.listed \cup D, !.at = s] \in Good
      BY <1>0, <3>2, <3>3, GoodSteps
    <3>5. Passed(f, d, D, s) \in Good
      BY <3>4 DEF Passed
    <3>6. QED
      BY <1>0, <3>1, <3>5, SetFramed
  <2>2. QED
    BY <1>1, <1>2, <2>1, WriteDocCases
<1>3. CASE r \in Threads /\ RemoveDoc(r)
  <2>1. CASE frame' = Forget(f.call.docs, [frame EXCEPT ![r].at = "flush"])
    <3> DEFINE g == [frame EXCEPT ![r].at = "flush"]
    <3>1. [f EXCEPT !.at = "flush"] \in Good
      BY <1>0, GoodSteps DEF Plain, Steps
    <3>2. g \in [Runners -> Good]
      BY <1>0, <3>1 DEF Framed
    <3>3. ASSUME NEW x \in Runners
          PROVE  [g[x] EXCEPT !.listed = @ \ f.call.docs, !.must = @ \ f.call.docs] \in Good
      <4>1. g[x].listed \ f.call.docs \in SUBSET Docs /\ g[x].must \ f.call.docs \in SUBSET Docs
        BY <3>2, GoodFields
      <4>2. QED
        BY <3>2, <4>1, GoodOthers
    <3>4. QED
      BY <2>1, <3>3 DEF Forget, Framed
  <2>2. CASE Goto(r, "flush")
    BY <1>0, <2>2, GotoFramed DEF Plain, Steps
  <2>3. QED
    BY <1>3, <2>1, <2>2 DEF RemoveDoc
<1>4. CASE Flush(r)
  <2>1. \A x \in Runners : frame[x].at = "fill" => [frame[x] EXCEPT !.answer = Flawed(@, {"late"})] \in Good
    <3> SUFFICES ASSUME NEW x \in Runners, frame[x].at = "fill"
                 PROVE  [frame[x] EXCEPT !.answer = Flawed(frame[x].answer, {"late"})] \in Good
      BY <1>0 DEF Framed, Good, Frame
    <3>1. frame[x] \in Good /\ frame[x].answer \in Answer
      BY <1>0 DEF Framed, Good
    <3>2. QED
      BY <3>1, FlawedTyped, GoodOthers
  <2>2. [f EXCEPT !.at = "returned"] \in Good
    BY <1>0, GoodSteps DEF Plain, Steps
  <2>3. QED
    BY <1>0, <1>4, <2>1, <2>2, IdleGood DEF Flush, Framed, At
<1>5. CASE r \in Threads /\ Launch(r)
  <2>1. ASSUME NEW j \in Jobs,
               frame' = [frame EXCEPT ![r].at = "returned",
                           ![j] = [Idle EXCEPT !.at = "contract", !.call = f.call,
                                               !.goal = "construction", !.todo = f.todo]]
        PROVE  Framed'
    <3>1. [Idle EXCEPT !.at = "contract", !.call = f.call, !.goal = "construction", !.todo = f.todo] \in Good
      BY <1>0, IdleGood, GoodFields DEF Good, Frame, Steps, Contracts
    <3>2. [f EXCEPT !.at = "returned"] \in Good
      BY <1>0, GoodSteps DEF Plain, Steps
    <3>3. QED
      BY <1>0, <2>1, <3>1, <3>2 DEF Framed
  <2>2. CASE Goto(r, "raised")
    BY <1>0, <2>2, GotoFramed DEF Plain, Steps
  <2>3. QED
    BY <1>5, <2>1, <2>2 DEF Launch
<1>6. CASE r \in Jobs /\ Save(r)
  BY <1>0, <1>6, GotoFramed DEF Save, Plain, Steps
<1>7. CASE r \in Jobs /\ Fail(r)
  BY <1>0, <1>7, IdleGood, SetFramed DEF Fail
<1>8. QED
  BY <1>2, <1>3, <1>4, <1>5, <1>6, <1>7

\* The pool, the other server and a restart.
LEMMA PoolFramed ==
  ASSUME TypeInv
  PROVE  /\ \A w \in Threads : Take(w) \/ Finish(w) => Framed'
         /\ HttpMutation \/ Crash \/ SendBatch \/ EndBatch => Framed'
<1>0. Framed /\ Threads \subseteq Runners
  BY DEF TypeInv, Runners
<1>1. ASSUME NEW w \in Threads, Take(w) PROVE Framed'
  <2> DEFINE call == batch[next']
             new == [Idle EXCEPT !.at = FirstStep[call.tool], !.call = call, !.slot = next',
                                 !.goal = FirstGoal[call.tool], !.todo = call.docs, !.must = acked]
  <2>1. next' \in 1..Len(batch) /\ Len(batch) \in 0..MaxBatch /\ call \in Call
    BY <1>1, ServerConstants DEF Take, TypeInv, TypeOK
  <2>2. FirstStep[call.tool] \in Plain \cup {"lookup", "contract"} /\ FirstGoal[call.tool] \in Contracts \cup {"name"}
        /\ (FirstStep[call.tool] \in {"lookup", "contract"} => FirstGoal[call.tool] \in Contracts)
    BY <2>1 DEF FirstStep, FirstGoal, Call, Tools, Plain, Steps, Contracts
  <2>3. next' \in 0..MaxBatch /\ call.docs \in SUBSET Docs /\ acked \in SUBSET Docs
    BY <2>1, ServerConstants DEF Call, TypeInv, TypeOK
  <2>4. new \in Good
    <3> HIDE DEF call
    <3>1. QED
      BY <2>1, <2>2, <2>3, IdleGood DEF Good, Frame, Plain, Steps
  <2>5. QED
    BY <1>0, <1>1, <2>4, SetFramed DEF Take
<1>2. ASSUME NEW w \in Threads, Finish(w) PROVE Framed'
  BY <1>0, <1>2, IdleGood, SetFramed DEF Finish
<1>3. CASE HttpMutation
  <2>1. ASSUME NEW D \in SUBSET Docs, frame' = Forget(D, frame) PROVE Framed'
    <3>1. ASSUME NEW x \in Runners
          PROVE  [frame[x] EXCEPT !.listed = @ \ D, !.must = @ \ D] \in Good
      <4>1. frame[x] \in Good
        BY <1>0 DEF Framed
      <4>2. frame[x].listed \ D \in SUBSET Docs /\ frame[x].must \ D \in SUBSET Docs
        BY <4>1, GoodFields
      <4>3. QED
        BY <4>1, <4>2, GoodOthers
    <3>2. QED
      BY <2>1, <3>1 DEF Forget, Framed
  <2>2. QED
    BY <1>0, <1>3, <2>1 DEF HttpMutation, Framed
<1>4. CASE Crash
  BY <1>4, IdleGood DEF Crash, Framed
<1>5. CASE SendBatch \/ EndBatch
  BY <1>0, <1>5 DEF SendBatch, EndBatch, Framed
<1>6. QED
  BY <1>1, <1>2, <1>3, <1>4, <1>5

LEMMA NextFramed == TypeInv /\ [Next]_vars => Framed'
<1> SUFFICES ASSUME TypeInv, [Next]_vars PROVE Framed'
  OBVIOUS
<1>0. /\ Threads \subseteq Runners /\ Jobs \subseteq Runners /\ Framed
      /\ over \in [Contracts -> Backends \cup {"none"}] /\ active \in Backends \cup {"none"}
  BY DEF TypeInv, TypeOK, Runners
<1>1. ASSUME NEW w \in Threads, Serve(w) PROVE Framed'
  BY <1>0, <1>1, PoolFramed, GettersFramed, SearchFramed, MutationFramed DEF Serve
<1>2. ASSUME NEW j \in Jobs, BgRun(j) PROVE Framed'
  BY <1>0, <1>2, GettersFramed, MutationFramed DEF BgRun
<1>3. CASE UNCHANGED vars
  BY <1>0, <1>3 DEF vars, Framed
<1>4. QED
  BY <1>1, <1>2, <1>3, PoolFramed DEF Next

\* The counters only ever count up by one.
Counters == {"batch", "fault", "other", "crash"}

Counted == bounds \in [Counters -> Nat]

LEMMA SpendCounts == ASSUME Counted, NEW b \in Counters, Spend(b) PROVE Counted'
<1>1. bounds[b] + 1 \in Nat
  BY DEF Counted
<1>2. QED
  BY <1>1 DEF Spend, Counted

LEMMA BoundsCount ==
  ASSUME TypeOK
  PROVE  /\ Counted
         /\ Fault \/ Spend("batch") \/ Spend("other") \/ Spend("crash") \/ UNCHANGED bounds => Counted'
<1>1. Counted
  BY DEF TypeOK, Counted, Counters
<1>2. "fault" \in Counters /\ "batch" \in Counters /\ "other" \in Counters /\ "crash" \in Counters
  BY DEF Counters
<1>3. UNCHANGED bounds => Counted'
  BY <1>1 DEF Counted
<1>4. QED
  BY <1>1, <1>2, <1>3, SpendCounts DEF Fault

LEMMA Typed == Spec => []TypeInv
<1> USE ServerConstants
<1>1. Init => TypeInv
  <2> SUFFICES ASSUME Init PROVE TypeInv
    OBVIOUS
  <2>1. Framed
    BY IdleGood DEF Init, Framed
  <2>2. frame \in [Runners -> Frame]
    BY <2>1 DEF Framed, Good
  <2>3. <<>> \in Seq(Call) /\ <<>> \in Seq({"pending", "success", "error"}) /\ Len(<<>>) = 0
    BY EmptySeq
  <2>4. bounds \in [{"batch", "fault", "other", "crash"} -> Nat]
    BY DEF Init
  <2>5. /\ batch \in Seq(Call) /\ Len(batch) <= MaxBatch
        /\ results \in Seq({"pending", "success", "error"}) /\ Len(results) = Len(batch)
        /\ next \in 0..Len(batch)
    BY <2>3 DEF Init
  <2>6. QED
    BY <2>1, <2>2, <2>4, <2>5 DEF Init, TypeInv, TypeOK, Backends
<1>2. TypeInv /\ [Next]_vars => TypeInv'
  <2> SUFFICES ASSUME TypeInv, [Next]_vars PROVE TypeOK'
    BY NextFramed DEF TypeInv
  <2>0. frame' \in [Runners -> Frame] /\ frame \in [Runners -> Good] /\ TypeOK
    BY NextFramed DEF Framed, Good, TypeInv
  <2>00. Fault \/ Spend("batch") \/ Spend("other") \/ Spend("crash") \/ UNCHANGED bounds => Counted'
    BY <2>0, BoundsCount
  <2>1. ASSUME NEW r \in Runners, Getters(r) PROVE TypeOK'
    <3>1. frame[r].found \in Backends
      BY <2>0, <2>00, GoodFields
    <3>2. (active' = active \/ active' = frame[r].found) /\ (over' = over \/ over' = [over EXCEPT ![frame[r].goal] = frame[r].found])
          /\ raced' \in BOOLEAN /\ Counted'
      BY <2>0, <2>00, <2>1 DEF Getters, GetContract, GetAdapter, Probe, Publish, Build, shared, ghosts, pool, TypeOK
    <3>3. UNCHANGED <<stored, cache, board, pool, acked, unwritten, lost>>
      BY <2>1 DEF Getters, GetContract, GetAdapter, Probe, Publish, Build, shared, ghosts
    <3>4. QED
      BY <2>0, <2>00, <3>1, <3>2, <3>3 DEF TypeOK, Counted, Counters, cache, board, pool
  <2>2. ASSUME NEW w \in Threads, Lookup(w) \/ LookupRow(w) \/ Retrieve(w) \/ Fill(w) \/ Store(w) PROVE TypeOK'
    <3>1. {memory', row'} \subseteq Answer \cup {NoAnswer}
      BY <2>2, SearchFramed
    <3>2. UNCHANGED <<shared, stored, board, pool, ghosts>> /\ Counted'
      BY <2>0, <2>00, <2>2 DEF Lookup, LookupRow, Retrieve, Fill, Store, TypeOK, Counted, Counters, cache, ghosts
    <3>3. QED
      BY <2>0, <2>00, <3>1, <3>2 DEF TypeOK, Counted, Counters, shared, board, pool, ghosts
  <2>3. ASSUME NEW r \in Runners, WriteDoc(r) PROVE TypeOK'
    <3>1. frame[r].todo \subseteq Docs
      BY <2>0, <2>00, GoodFields
    <3>2. stored' \subseteq Docs /\ unwritten' \subseteq Docs
      <4>1. \/ \E d \in frame[r].todo :
                  stored' \subseteq stored \cup {d} /\ unwritten' \subseteq unwritten \cup {d}
            \/ UNCHANGED <<stored, unwritten>>
        BY <2>3 DEF WriteDoc, WritePaper
      <4>2. stored \subseteq Docs /\ unwritten \subseteq Docs
        BY <2>0 DEF TypeOK
      <4>3. QED
        BY <3>1, <4>1, <4>2
    <3>3. Counted'
      BY <2>00, <2>3 DEF WriteDoc, WritePaper
    <3>4. tried' \in [Jobs -> SUBSET Docs]
      <4>1. \/ \E d \in frame[r].todo :
                  tried' = IF r \in Jobs THEN [tried EXCEPT ![r] = @ \cup {d}] ELSE tried
            \/ UNCHANGED tried
        BY <2>3, WriteDocCases DEF PassOn
      <4>2. tried \in [Jobs -> SUBSET Docs]
        BY <2>0 DEF TypeOK
      <4>3. QED
        BY <3>1, <4>1, <4>2
    <3>5. UNCHANGED <<shared, cache, status, items, pool, acked, raced, lost>>
      BY <2>3 DEF WriteDoc
    <3>6. QED
      BY <2>0, <3>2, <3>3, <3>4, <3>5 DEF TypeOK, Counted, Counters, shared, cache, pool
  <2>4. ASSUME NEW w \in Threads, RemoveDoc(w) PROVE TypeOK'
    <3>1. stored' \subseteq Docs /\ acked' \subseteq Docs /\ unwritten' \subseteq Docs /\ Counted'
      <4>1. stored' \subseteq stored /\ acked' \subseteq acked /\ unwritten' \subseteq unwritten
        BY <2>4 DEF RemoveDoc
      <4>2. Counted'
        BY <2>00, <2>4 DEF RemoveDoc
      <4>3. QED
        BY <2>0, <4>1, <4>2 DEF TypeOK
    <3>2. QED
      BY <2>0, <2>00, <2>4, <3>1 DEF RemoveDoc, TypeOK, Counted, Counters, shared, cache, board, pool
  <2>5. ASSUME NEW r \in Runners, Flush(r) PROVE TypeOK'
    <3>1. frame[r].listed \in SUBSET Docs
      BY <2>0, GoodFields
    <3>2. QED
      BY <2>0, <2>00, <2>5, <3>1 DEF Flush, TypeOK, Counted, Counters, shared, board, pool
  <2>6. ASSUME NEW w \in Threads, Launch(w) PROVE TypeOK'
    <3>1. frame[w].todo \in SUBSET Docs
      BY <2>0, <2>00, GoodFields DEF Runners
    <3>2. status' \in [Jobs -> {"none", "running", "completed", "failed"}] /\ items' \in [Jobs -> SUBSET Docs]
          /\ lost' \subseteq Jobs /\ Counted'
      BY <2>0, <2>00, <2>6, <3>1 DEF Launch, TypeOK
    <3>3. QED
      BY <2>0, <2>00, <2>6, <3>2 DEF Launch, TypeOK, Counted, Counters, shared, cache, pool
  <2>7. ASSUME NEW j \in Jobs, Save(j) \/ Fail(j) PROVE TypeOK'
    <3>0. frame[j].listed \in SUBSET Docs
      BY <2>0, GoodFields DEF Runners
    <3>1. status' \in [Jobs -> {"none", "running", "completed", "failed"}] /\ acked' \subseteq Docs
          /\ lost' \subseteq Jobs /\ Counted'
      BY <2>0, <2>00, <2>7, <3>0 DEF Save, Fail, TypeOK
    <3>2. QED
      BY <2>0, <2>00, <2>7, <3>1, SMTT(40) DEF Save, Fail, TypeOK, Counted, Counters, shared, cache, pool
  <2>8. ASSUME NEW w \in Threads, Take(w) PROVE TypeOK'
    <3>1. next' \in 0..Len(batch)
      BY <2>0, <2>00, <2>8 DEF Take, TypeOK
    <3>2. QED
      BY <2>0, <2>00, <2>8, <3>1 DEF Take, TypeOK, Counted, Counters, shared, cache, board, ghosts
  <2>9. ASSUME NEW w \in Threads, Finish(w) PROVE TypeOK'
    <3>1. results' \in Seq({"pending", "success", "error"}) /\ Len(results') = Len(results)
      <4>1. ASSUME NEW v \in {"success", "error"}, NEW i, results' = [results EXCEPT ![i] = v]
            PROVE  results' \in Seq({"pending", "success", "error"}) /\ Len(results') = Len(results)
        <5>1. results \in Seq({"pending", "success", "error"})
          BY <2>0 DEF TypeOK
        <5>2. results' = [k \in DOMAIN results |-> IF k = i THEN v ELSE results[k]]
          BY <4>1
        <5>4. DOMAIN results = 1..Len(results) /\ Len(results) \in Nat
          BY <5>1, LenProperties
        <5>3. QED
          BY <5>1, <5>2, <5>4
      <4>2. QED
        BY <2>9, <4>1 DEF Finish
    <3>2. QED
      BY <2>0, <2>00, <2>9, <3>1 DEF Finish, TypeOK, Counted, Counters, shared, cache, board, ghosts
  <2>10. CASE SendBatch
    <3>1. PICK b \in Batches : Len(b) \in 1..MaxBatch /\ batch' = b /\ results' = [i \in DOMAIN b |-> "pending"]
      BY <2>10 DEF SendBatch
    <3>2. b \in Seq(Call)
      BY <3>1 DEF Call, Tools
    <3>3. results' \in Seq({"pending", "success", "error"}) /\ Len(results') = Len(b)
      BY <3>1, <3>2
    <3>4. next' \in 0..Len(batch') /\ Counted'
      BY <2>0, <2>00, <2>10, <3>1, <3>2 DEF SendBatch, TypeOK
    <3>5. QED
      BY <2>0, <2>00, <2>10, <3>1, <3>2, <3>3, <3>4 DEF SendBatch, TypeOK, Counted, Counters, shared, cache, board, ghosts
  <2>11. CASE EndBatch
    <3>1. <<>> \in Seq(Call) /\ <<>> \in Seq({"pending", "success", "error"}) /\ Len(<<>>) = 0
      BY EmptySeq
    <3>2. QED
      BY <2>0, <2>00, <2>11, <3>1 DEF EndBatch, TypeOK, Counted, Counters, shared, cache, board, ghosts
  <2>12. CASE HttpMutation
    <3>1. stored' \subseteq Docs /\ acked' \subseteq Docs /\ unwritten' \subseteq Docs /\ Counted'
      BY <2>0, <2>00, <2>12 DEF HttpMutation, TypeOK
    <3>2. QED
      BY <2>0, <2>00, <2>12, <3>1 DEF HttpMutation, TypeOK, Counted, Counters, shared, cache, board, pool
  <2>13. CASE Crash
    <3>1. <<>> \in Seq(Call) /\ <<>> \in Seq({"pending", "success", "error"}) /\ Len(<<>>) = 0
      BY EmptySeq
    <3>2. lost' \subseteq Jobs /\ Counted'
      BY <2>0, <2>00, <2>13 DEF Crash, TypeOK
    <3>3. /\ batch' \in Seq(Call) /\ Len(batch') <= MaxBatch
          /\ results' \in Seq({"pending", "success", "error"}) /\ Len(results') = Len(batch')
          /\ next' \in 0..Len(batch')
      BY <2>13, <3>1 DEF Crash
    <3>4. /\ active' \in Backends \cup {"none"} /\ over' \in [Contracts -> Backends \cup {"none"}]
          /\ {memory', row'} \subseteq Answer \cup {NoAnswer} /\ raced' \in BOOLEAN
          /\ UNCHANGED <<stored, board, acked, unwritten>>
      BY <2>0, <2>13 DEF Crash, TypeOK
    <3>5. QED
      BY <2>0, <3>2, <3>3, <3>4 DEF TypeOK, Counted, Counters, board
  <2>14. CASE UNCHANGED vars
    BY <2>0, <2>00, <2>14 DEF vars, TypeOK
  <2>15. QED
    BY <2>1, <2>2, <2>3, <2>4, <2>5, <2>6, <2>7, <2>8, <2>9, <2>10, <2>11, <2>12, <2>13, <2>14
       DEF Next, Serve, BgRun, Runners
<1>3. QED
  BY <1>1, <1>2, PTL DEF Spec

\* Every variable keeps its type: in particular a call has its result's slot, and
\* no more calls are taken than the batch has (batch.py, mcp_server.py:97-221).
THEOREM TypeCorrect == Spec => []TypeOK
<1>1. TypeInv => TypeOK
  BY DEF TypeInv
<1>2. QED
  BY <1>1, Typed, PTL

-----------------------------------------------------------------------------

\* What makes SplitNeedsRace inductive: until an adapter that was published is
\* replaced, whoever builds a contract holds it, and so does every contract.
SplitInv ==
  /\ active = "none" => /\ \A c \in Contracts : over[c] = "none"
                        /\ \A r \in Runners : ~At(r, "build")
  /\ ~raced => /\ \A c \in Contracts : over[c] \in {"none", active}
               /\ \A r \in Runners : At(r, "build") => frame[r].found = active

\* Only GetAdapter brings a runner to the point where it builds a contract.
Builders == \A x \in Runners : frame'[x].at = "build" => frame[x].at = "build" /\ frame'[x].found = frame[x].found

LEMMA SetBuilders ==
  ASSUME Framed, NEW r \in Runners, NEW f, Set(r, f), f.at # "build"
  PROVE  Builders
BY DEF Framed, Set, Builders

LEMMA GotoBuilders ==
  ASSUME Framed, NEW r \in Runners, NEW s \in Steps \ {"build"}, Goto(r, s)
  PROVE  Builders
<1>1. [frame[r] EXCEPT !.at = s].at = s
  BY DEF Framed, Good, Frame
<1>2. QED
  BY <1>1, SetBuilders DEF Goto

LEMMA OthersBuild ==
  ASSUME TypeInv
  PROVE  /\ \A w \in Threads :
              Take(w) \/ Finish(w) \/ Lookup(w) \/ LookupRow(w) \/ Retrieve(w) \/ Fill(w) \/ Store(w)
              \/ RemoveDoc(w) \/ Launch(w) => Builders
         /\ \A r \in Runners : WriteDoc(r) \/ Flush(r) => Builders
         /\ \A j \in Jobs : Save(j) \/ Fail(j) => Builders
         /\ HttpMutation \/ SendBatch \/ EndBatch \/ UNCHANGED vars => Builders
<1>0. /\ Framed /\ Threads \subseteq Runners /\ Jobs \subseteq Runners
      /\ \A r \in Runners : frame[r] \in Frame
  BY DEF TypeInv, Runners, Framed, Good
<1>1. ASSUME NEW D, NEW g \in [Runners -> Frame],
             \A x \in Runners : g[x].at = "build" => frame[x].at = "build" /\ g[x].found = frame[x].found,
             frame' = Forget(D, g)
      PROVE  Builders
  BY <1>1 DEF Forget, Builders, Frame
<1>2. ASSUME NEW w \in Threads, Take(w) PROVE Builders
  <2>1. batch[next'].tool \in Tools
    <3>1. next' \in 1..Len(batch) /\ batch \in Seq(Call)
      BY <1>2, ServerConstants DEF Take, TypeInv, TypeOK
    <3>2. batch[next'] \in Call
      BY <3>1
    <3>3. QED
      BY <3>2 DEF Call
  <2>2. FirstStep[batch[next'].tool] # "build"
    BY <2>1 DEF FirstStep, Tools
  <2>3. QED
    BY <1>0, <1>2, <2>2, SetBuilders DEF Take, Idle
<1>3. ASSUME NEW w \in Threads, Finish(w) PROVE Builders
  BY <1>0, <1>3, SetBuilders DEF Finish, Idle
<1>4. ASSUME NEW w \in Threads, Lookup(w) \/ LookupRow(w) \/ Retrieve(w) \/ Fill(w) \/ Store(w) PROVE Builders
  <2>1. \/ \E s \in Steps \ {"build"} : Goto(w, s)
        \/ \E a : Set(w, [frame[w] EXCEPT !.answer = a, !.at = "returned"])
        \/ \E a : Set(w, [frame[w] EXCEPT !.answer = a, !.at = "fill"])
        \/ \E a : Set(w, [frame[w] EXCEPT !.at = "fill", !.answer = a])
    BY <1>4 DEF Lookup, LookupRow, Retrieve, Fill, Store, Steps
  <2>2. QED
    BY <1>0, <2>1, SetBuilders, GotoBuilders DEF Frame
<1>5. ASSUME NEW r \in Runners, Except(r) PROVE Builders
  BY <1>0, <1>5, GotoBuilders DEF Except, Steps
<1>6. ASSUME NEW w \in Threads, RemoveDoc(w) PROVE Builders
  <2>1. CASE frame' = Forget(frame[w].call.docs, [frame EXCEPT ![w].at = "flush"])
    <3>1. [frame EXCEPT ![w].at = "flush"] \in [Runners -> Frame]
      BY <1>0 DEF Framed, Good, Frame, Steps
    <3>2. QED
      BY <1>0, <1>1, <2>1, <3>1 DEF Frame
  <2>2. CASE Goto(w, "flush")
    BY <1>0, <2>2, GotoBuilders DEF Steps
  <2>3. QED
    BY <1>6, <2>1, <2>2 DEF RemoveDoc
<1>7. ASSUME NEW w \in Threads, Launch(w) PROVE Builders
  <2>1. ASSUME NEW j \in Jobs, NEW c, NEW D,
               frame' = [frame EXCEPT ![w].at = "returned",
                           ![j] = [Idle EXCEPT !.at = "contract", !.call = c,
                                               !.goal = "construction", !.todo = D]]
        PROVE  Builders
    <3>1. \A x \in Runners : frame'[x] = frame[x] \/ frame'[x].at = "returned" \/ frame'[x].at = "contract"
      BY <1>0, <2>1 DEF Framed, Idle, Frame
    <3>2. QED
      BY <3>1 DEF Builders
  <2>2. (\E j \in Jobs : frame' = [frame EXCEPT ![w].at = "returned",
                             ![j] = [Idle EXCEPT !.at = "contract", !.call = frame[w].call,
                                                 !.goal = "construction", !.todo = frame[w].todo]])
        \/ Goto(w, "raised")
    BY <1>7 DEF Launch
  <2>3. Goto(w, "raised") => Builders
    BY <1>0, GotoBuilders DEF Steps
  <2>4. QED
    BY <2>1, <2>2, <2>3
<1>8. ASSUME NEW r \in Runners, WriteDoc(r) PROVE Builders
  <2>1. ASSUME NEW d, NEW D, PassOn(r, d, D) PROVE Builders
    <3>1. PICK s \in {"write", "save", "flush"} : Set(r, Passed(frame[r], d, D, s))
      BY <2>1, PassOnSets
    <3>2. Passed(frame[r], d, D, s).at # "build"
      BY <1>0, PassedFields
    <3>3. QED
      BY <1>0, <3>1, <3>2, SetBuilders
  <2>2. QED
    BY <1>5, <1>8, <2>1, WriteDocCases
<1>9. ASSUME NEW r \in Runners, Flush(r) PROVE Builders
  BY <1>0, <1>9 DEF Flush, Builders, Idle, Frame, At
<1>10. ASSUME NEW j \in Jobs, Save(j) \/ Fail(j) PROVE Builders
  BY <1>0, <1>10, GotoBuilders, SetBuilders DEF Save, Fail, Steps, Idle
<1>11. CASE HttpMutation \/ SendBatch \/ EndBatch \/ UNCHANGED vars
  <2>1. UNCHANGED frame => Builders
    BY DEF Builders
  <2>2. frame \in [Runners -> Frame]
    BY <1>0 DEF Framed, Good
  <2>3. QED
    BY <1>1, <1>11, <2>1, <2>2 DEF HttpMutation, SendBatch, EndBatch, vars
<1>12. QED
  BY <1>2, <1>3, <1>4, <1>6, <1>7, <1>8, <1>9, <1>10, <1>11

LEMMA SplitStep == TypeInv /\ SplitInv /\ [Next]_vars => SplitInv'
<1> SUFFICES ASSUME TypeInv, SplitInv, [Next]_vars PROVE SplitInv'
  OBVIOUS
<1>0. /\ Framed /\ Threads \subseteq Runners /\ Jobs \subseteq Runners
      /\ \A r \in Runners : frame[r] \in Frame
      /\ active \in Backends \cup {"none"} /\ over \in [Contracts -> Backends \cup {"none"}] /\ raced \in BOOLEAN
  BY DEF TypeInv, TypeOK, Runners, Framed, Good
<1>1. ASSUME Builders, UNCHANGED <<active, over, raced>> PROVE SplitInv'
  BY <1>1 DEF SplitInv, Builders, At
<1>2. ASSUME NEW r \in Runners, Getters(r) PROVE SplitInv'
  <2>1. CASE GetContract(r)
    <3>1. \/ Goto(r, "adapter")
          \/ \E b : Set(r, [frame[r] EXCEPT !.found = b, !.at = AfterContract(r)])
      BY <2>1 DEF GetContract
    <3>2. \A b : [frame[r] EXCEPT !.found = b, !.at = AfterContract(r)].at # "build"
      BY <1>0 DEF AfterContract, Frame
    <3>3. Builders
      BY <1>0, <3>1, <3>2, SetBuilders, GotoBuilders DEF Steps
    <3>4. QED
      BY <1>1, <2>1, <3>3 DEF GetContract, shared, ghosts
  <2>2. CASE GetAdapter(r)
    <3>1. CASE active = "none"
      <4>1. Builders
        BY <1>0, <2>2, <3>1, GotoBuilders DEF GetAdapter, Steps
      <4>2. QED
        BY <1>1, <2>2, <4>1 DEF GetAdapter, shared, ghosts
    <3>2. CASE active # "none"
      <4> DEFINE g == [frame[r] EXCEPT !.found = active]
      <4>2. \/ Set(r, [g EXCEPT !.at = "build"])
            \/ Set(r, [g EXCEPT !.at = "contract", !.goal = "construction"])
            \/ Set(r, [g EXCEPT !.at = "launch"])
        BY <2>2, <3>2 DEF GetAdapter
      <4>3. \A x \in Runners : x # r => frame'[x] = frame[x]
        BY <1>0, <4>2 DEF Set, Framed
      <4>4. frame'[r].found = active
        <5>1. \A f : Set(r, f) => frame'[r] = f
          BY <1>0 DEF Set, Framed
        <5>2. /\ [g EXCEPT !.at = "build"].found = active
              /\ [g EXCEPT !.at = "contract", !.goal = "construction"].found = active
              /\ [g EXCEPT !.at = "launch"].found = active
          BY <1>0 DEF Frame
        <5>3. \A f : Set(r, f) /\ f.found = active => frame'[r].found = active
          BY <5>1
        <5> HIDE DEF g
        <5>4. QED
          BY <4>2, <5>2, <5>3
      <4>5. UNCHANGED <<active, over, raced>>
        BY <2>2 DEF GetAdapter, shared, ghosts
      <4>6. ~raced => \A x \in Runners : frame'[x].at = "build" => frame'[x].found = active
        <5> SUFFICES ASSUME ~raced, NEW x \in Runners, frame'[x].at = "build"
                     PROVE  frame'[x].found = active
          OBVIOUS
        <5>1. CASE x = r
          BY <4>4, <5>1
        <5>2. CASE x # r
          BY <4>3, <5>2 DEF SplitInv, At
        <5>3. QED
          BY <5>1, <5>2
      <4>7. QED
        <5> HIDE DEF g
        <5>1. QED
          BY <3>2, <4>5, <4>6 DEF SplitInv, At
    <3>3. QED
      BY <3>1, <3>2
  <2>3. CASE Probe(r)
    <3>1. \E b : Set(r, [frame[r] EXCEPT !.found = b, !.at = "publish"])
      BY <2>3 DEF Probe
    <3>2. \A b : [frame[r] EXCEPT !.found = b, !.at = "publish"].at # "build"
      BY <1>0 DEF Frame
    <3>3. Builders
      BY <1>0, <3>1, <3>2, SetBuilders
    <3>4. QED
      BY <1>1, <2>3, <3>3 DEF Probe, shared, ghosts
  <2>4. CASE Publish(r)
    <3>1. Builders
      BY <1>0, <2>4, GotoBuilders DEF Publish, Steps
    <3>2. active' # "none" /\ (~raced' => active = "none" /\ ~raced) /\ UNCHANGED over
      BY <1>0, <2>4 DEF Publish, Frame, Backends
    <3>3. QED
      BY <3>1, <3>2 DEF SplitInv, Builders, At
  <2>5. CASE Build(r)
    <3>1. Builders
      BY <1>0, <2>5, GotoBuilders DEF Build, Steps
    <3>2. active # "none" /\ (~raced => frame[r].found = active) /\ UNCHANGED <<active, raced>>
      BY <2>5 DEF SplitInv, Build, ghosts
    <3>3. \A c \in Contracts : over'[c] \in {over[c], frame[r].found}
      BY <1>0, <2>5 DEF Build
    <3>4. QED
      BY <3>1, <3>2, <3>3 DEF SplitInv, Builders, At
  <2>6. QED
    BY <1>2, <2>1, <2>2, <2>3, <2>4, <2>5 DEF Getters
<1>3. ASSUME NEW w \in Threads, Serve(w) PROVE SplitInv'
  <2>1. CASE Getters(w)
    BY <1>0, <1>2, <2>1
  <2>2. CASE Take(w) \/ Finish(w) \/ Lookup(w) \/ LookupRow(w) \/ Retrieve(w) \/ Fill(w) \/ Store(w)
             \/ WriteDoc(w) \/ RemoveDoc(w) \/ Flush(w) \/ Launch(w)
    <3>1. Builders
      BY <1>0, <2>2, OthersBuild
    <3>2. UNCHANGED <<active, over, raced>>
      BY <2>2 DEF Take, Finish, Lookup, LookupRow, Retrieve, Fill, Store, WriteDoc, RemoveDoc, Flush,
                  Launch, shared, ghosts
    <3>3. QED
      BY <1>1, <3>1, <3>2
  <2>3. QED
    BY <1>3, <2>1, <2>2 DEF Serve
<1>4. ASSUME NEW j \in Jobs, BgRun(j) PROVE SplitInv'
  <2>1. CASE Getters(j)
    BY <1>0, <1>2, <2>1
  <2>2. CASE WriteDoc(j) \/ Save(j) \/ Flush(j) \/ Fail(j)
    <3>1. Builders
      BY <1>0, <2>2, OthersBuild
    <3>2. UNCHANGED <<active, over, raced>>
      BY <2>2 DEF WriteDoc, Save, Flush, Fail, shared, ghosts
    <3>3. QED
      BY <1>1, <3>1, <3>2
  <2>3. QED
    BY <1>4, <2>1, <2>2 DEF BgRun
<1>5. CASE HttpMutation \/ SendBatch \/ EndBatch \/ UNCHANGED vars
  <2>1. Builders
    BY <1>5, OthersBuild
  <2>2. UNCHANGED <<active, over, raced>>
    BY <1>5 DEF HttpMutation, SendBatch, EndBatch, vars, shared, ghosts
  <2>3. QED
    BY <1>1, <2>1, <2>2
<1>6. CASE Crash
  BY <1>6 DEF Crash, SplitInv, At, Idle
<1>7. QED
  BY <1>3, <1>4, <1>5, <1>6 DEF Next

\* The contracts of one server are over different adapters only if two threads were
\* in the unlocked getter of the adapter at once (mcp_server.py:97-139).
THEOREM SplitRace == Spec => []SplitNeedsRace
<1>1. Init => SplitInv
  BY DEF Init, SplitInv, At, Idle
<1>2. TypeInv /\ SplitInv => SplitNeedsRace
  <2>1. TypeInv => raced \in BOOLEAN
    BY DEF TypeInv, TypeOK
  <2>2. QED
    BY <2>1 DEF SplitInv, SplitNeedsRace, Contracts
<1>3. QED
  BY <1>1, <1>2, Typed, SplitStep, PTL DEF Spec

-----------------------------------------------------------------------------

\* What a step leaves of a runner: all but its answer and what it relies on.
Same(x) == /\ frame'[x].at = frame[x].at /\ frame'[x].call = frame[x].call
           /\ frame'[x].goal = frame[x].goal /\ frame'[x].todo = frame[x].todo

LEMMA ForgetSame ==
  ASSUME NEW D, NEW g \in [Runners -> Frame], frame' = Forget(D, g), NEW x \in Runners, g[x] = frame[x]
  PROVE  Same(x)
BY DEF Forget, Same, Frame

\* But for the start of a job, a runner's step is its own affair.
LEMMA Aside ==
  ASSUME TypeInv, NEW r \in Runners,
         \/ Getters(r) \/ WriteDoc(r) \/ Flush(r)
         \/ Take(r) \/ Finish(r) \/ Lookup(r) \/ LookupRow(r) \/ Retrieve(r) \/ Fill(r) \/ Store(r) \/ RemoveDoc(r)
         \/ Save(r) \/ Fail(r),
         NEW x \in Runners, x # r
  PROVE  Same(x)
<1>0. Framed /\ \A y \in Runners : frame[y] \in Frame
  BY DEF TypeInv, Framed, Good
<1>1. ASSUME NEW f, Set(r, f) PROVE Same(x)
  BY <1>0, <1>1 DEF Set, Same, Framed
<1>2. ASSUME NEW s, Goto(r, s) PROVE Same(x)
  BY <1>1, <1>2 DEF Goto
<1>3. ASSUME Except(r) PROVE Same(x)
  BY <1>2, <1>3 DEF Except
<1>4. ASSUME Getters(r) PROVE Same(x)
  BY <1>1, <1>2, <1>4 DEF Getters, GetContract, GetAdapter, Probe, Publish, Build
<1>5. ASSUME WriteDoc(r) PROVE Same(x)
  <2>1. ASSUME NEW d, NEW D, PassOn(r, d, D) PROVE Same(x)
    BY <1>1, <2>1, PassOnSets
  <2>2. QED
    BY <1>3, <1>5, <2>1, WriteDocCases
<1>6. ASSUME Flush(r) PROVE Same(x)
  BY <1>0, <1>6 DEF Flush, At, Same, Frame
<1>7. ASSUME RemoveDoc(r) PROVE Same(x)
  <2>1. CASE frame' = Forget(frame[r].call.docs, [frame EXCEPT ![r].at = "flush"])
    <3> DEFINE g == [frame EXCEPT ![r].at = "flush"]
    <3>1. g \in [Runners -> Frame] /\ g[x] = frame[x]
      BY <1>0 DEF Framed, Good, Frame, Steps
    <3>2. frame' = Forget(frame[r].call.docs, g)
      BY <2>1
    <3> HIDE DEF g
    <3>3. QED
      BY <3>1, <3>2, ForgetSame
  <2>2. CASE Goto(r, "flush")
    BY <1>2, <2>2
  <2>3. QED
    BY <1>7, <2>1, <2>2 DEF RemoveDoc
<1>8. ASSUME Take(r) \/ Finish(r) \/ Lookup(r) \/ LookupRow(r) \/ Retrieve(r) \/ Fill(r) \/ Store(r) PROVE Same(x)
  BY <1>1, <1>2, <1>8 DEF Take, Finish, Lookup, LookupRow, Retrieve, Fill, Store
<1>9. ASSUME Save(r) \/ Fail(r) PROVE Same(x)
  BY <1>1, <1>2, <1>9 DEF Save, Fail
<1>10. QED
  BY <1>4, <1>5, <1>6, <1>7, <1>8, <1>9

\* Where the worker of a job is, and what its row and its documents are then.
Working == {"contract", "adapter", "probe", "publish", "build", "write"}

JobAt(j) ==
  /\ frame[j].at \in Working \cup {"idle", "save", "flush", "fail"}
  /\ frame[j].at \in Working => /\ frame[j].call.tool = "ingest_async" /\ frame[j].goal = "construction"
                                /\ items[j] = frame[j].todo \cup tried[j]
  /\ frame[j].at \in Working \cup {"save", "fail"} => status[j] = "running"
  /\ frame[j].at = "save" => tried[j] = items[j]
  /\ status[j] = "none" => tried[j] = {} /\ frame[j].at = "idle"

JobsInv == \A j \in Jobs : JobAt(j)

LEMMA JobKept ==
  ASSUME NEW j \in Jobs, JobAt(j), Same(j), status'[j] = status[j], items'[j] = items[j], tried'[j] = tried[j]
  PROVE  JobAt(j)'
BY DEF JobAt, Same

\* A worker's own step.
LEMMA JobStep ==
  ASSUME TypeInv, NEW j \in Jobs, JobAt(j), BgRun(j)
  PROVE  JobAt(j)' /\ [Board!Next]_(Board!board)
<1> DEFINE f == frame[j]
<1>0. /\ Framed /\ j \in Runners /\ f \in Frame /\ TypeOK
      /\ \A g : Set(j, g) => frame'[j] = g
      /\ status \in [Jobs -> {"none", "running", "completed", "failed"}] /\ tried \in [Jobs -> SUBSET Docs]
  BY DEF TypeInv, TypeOK, Runners, Framed, Good, Set
<1>1. UNCHANGED <<status, items, tried>> => [Board!Next]_(Board!board)
  BY DEF Board!board
<1>2. CASE Getters(j)
  <2>1. UNCHANGED <<status, items, tried>>
    BY <1>2 DEF Getters, GetContract, GetAdapter, Probe, Publish, Build, board
  <2>2. f.at \in Working \ {"write"} /\ f.call.tool = "ingest_async" /\ f.goal = "construction"
    BY <1>2 DEF JobAt, Getters, GetContract, GetAdapter, Probe, Publish, Build, At, Working
  <2>3. /\ frame'[j].at \in Working
        /\ frame'[j].call = f.call /\ frame'[j].goal = f.goal /\ frame'[j].todo = f.todo
    <3>1. ASSUME NEW s \in Working, NEW b,
                 Goto(j, s) \/ Set(j, [f EXCEPT !.found = b, !.at = s])
          PROVE  /\ frame'[j].at \in Working
                 /\ frame'[j].call = f.call /\ frame'[j].goal = f.goal /\ frame'[j].todo = f.todo
      BY <1>0, <3>1 DEF Goto, Frame
    <3>2. CASE GetContract(j)
      BY <2>2, <3>1, <3>2 DEF GetContract, AfterContract, Tool, Working
    <3>3. CASE GetAdapter(j)
      <4>1. [f EXCEPT !.found = active].goal = "construction"
        BY <1>0, <2>2 DEF Frame
      <4>2. Goto(j, "probe") \/ Set(j, [f EXCEPT !.found = active, !.at = "build"])
        BY <3>3, <4>1 DEF GetAdapter
      <4>3. QED
        BY <3>1, <4>2 DEF Working
    <3>4. CASE Probe(j) \/ Publish(j) \/ Build(j)
      BY <3>1, <3>4 DEF Probe, Publish, Build, Working
    <3>5. QED
      BY <1>2, <3>2, <3>3, <3>4 DEF Getters
  <2>4. status[j] = "running"
    BY <2>2 DEF JobAt
  <2>5. QED
    BY <1>1, <2>1, <2>2, <2>3, <2>4 DEF JobAt, Working
<1>3. CASE WriteDoc(j)
  <2>1. status[j] = "running" /\ items[j] = f.todo \cup tried[j] /\ UNCHANGED <<status, items>>
        /\ f.call.tool = "ingest_async" /\ f.goal = "construction"
    BY <1>3 DEF WriteDoc, At, JobAt, Working
  <2>2. ASSUME NEW d \in f.todo, NEW D, PassOn(j, d, D)
        PROVE  JobAt(j)' /\ [Board!Next]_(Board!board)
    <3>0. PICK s \in {"write", "save", "flush"} :
                 Set(j, Passed(f, d, D, s)) /\ s = (IF f.todo \ {d} # {} THEN "write" ELSE "save")
      BY <1>0, <2>2, PassOnSets
    <3>01. frame'[j] = Passed(f, d, D, s)
      BY <1>0, <3>0 DEF Set
    <3>1. /\ frame'[j].at = s /\ frame'[j].todo = f.todo \ {d}
          /\ frame'[j].call = f.call /\ frame'[j].goal = f.goal
      BY <1>0, <3>01, PassedFields
    <3>02. tried' = [tried EXCEPT ![j] = @ \cup {d}]
      BY <1>0, <2>2 DEF PassOn
    <3>2. tried'[j] = tried[j] \cup {d}
      BY <1>0, <3>02
    <3>3. Board!Try(j)
      BY <2>1, <3>02 DEF Board!Try
    <3>4. JobAt(j)'
      BY <2>1, <3>0, <3>1, <3>2 DEF JobAt, Working
    <3>5. QED
      BY <3>3, <3>4 DEF Board!Next
  <2>3. ASSUME Except(j), UNCHANGED tried PROVE JobAt(j)' /\ [Board!Next]_(Board!board)
    <3>1. frame'[j].at = "fail"
      BY <1>0, <2>3 DEF Except, Goto, Frame
    <3>2. QED
      BY <1>1, <2>1, <2>3, <3>1 DEF JobAt, Working
  <2>4. QED
    BY <1>0, <1>3, <2>2, <2>3, WriteDocCases
<1>4. CASE Save(j)
  <2>1. status[j] = "running" /\ tried[j] = items[j] /\ UNCHANGED <<items, tried>>
    BY <1>4 DEF Save, At, JobAt
  <2>2. CASE status' = [status EXCEPT ![j] = "completed"] /\ Goto(j, "flush")
    <3>1. frame'[j].at = "flush" /\ status'[j] = "completed"
      BY <1>0, <2>2 DEF Goto, Frame
    <3>2. Board!End(j)
      BY <2>1, <2>2 DEF Board!End
    <3>3. QED
      BY <3>1, <3>2 DEF JobAt, Working, Board!Next
  <2>3. CASE Goto(j, "fail") /\ UNCHANGED status
    <3>1. frame'[j].at = "fail"
      BY <1>0, <2>3 DEF Goto, Frame
    <3>2. QED
      BY <1>1, <2>1, <2>3, <3>1 DEF JobAt, Working
  <2>4. QED
    BY <1>4, <2>2, <2>3 DEF Save
<1>5. CASE Flush(j)
  <2>1. frame'[j] = Idle /\ UNCHANGED <<status, items, tried>> /\ f.at = "flush"
    BY <1>0, <1>5 DEF Flush, board, At
  <2>2. QED
    BY <1>1, <2>1 DEF JobAt, Working, Idle
<1>6. CASE Fail(j)
  <2>1. frame'[j].at = "idle" /\ UNCHANGED <<items, tried>> /\ status[j] = "running"
    BY <1>0, <1>6 DEF Fail, At, JobAt, Idle
  <2>2. CASE status' = [status EXCEPT ![j] = "failed"]
    <3>1. Board!End(j) /\ status'[j] = "failed"
      BY <1>0, <2>1, <2>2 DEF Board!End
    <3>2. QED
      BY <2>1, <3>1 DEF JobAt, Working, Board!Next
  <2>3. CASE UNCHANGED status
    BY <1>1, <2>1, <2>3 DEF JobAt, Working
  <2>4. QED
    BY <1>6, <2>2, <2>3 DEF Fail
<1>7. QED
  BY <1>2, <1>3, <1>4, <1>5, <1>6 DEF BgRun

\* Only an asynchronous ingestion gets as far as starting a job.
CallFits(r) ==
  /\ ~At(r, "idle") /\ frame[r].goal = "name" => Tool(r) \in {"ingest", "ingest_async"}
  /\ At(r, "launch") => Tool(r) = "ingest_async"

CallsFit == \A r \in Runners : CallFits(r)

LEMMA FitKept ==
  ASSUME NEW r \in Runners, CallFits(r), Same(r)
  PROVE  CallFits(r)'
BY DEF CallFits, Same, At, Tool

LEMMA FitMoved ==
  ASSUME NEW r \in Runners, CallFits(r), ~At(r, "idle"), frame'[r].at # "launch",
         frame'[r].call = frame[r].call, frame'[r].goal \in {frame[r].goal, "construction"}
  PROVE  CallFits(r)'
BY DEF CallFits, At, Tool

LEMMA CallsFitStep == TypeInv /\ CallsFit /\ [Next]_vars => CallsFit'
<1> SUFFICES ASSUME TypeInv, CallsFit, [Next]_vars PROVE CallsFit'
  OBVIOUS
<1>0. /\ Framed /\ Jobs \subseteq Runners /\ Threads \subseteq Runners
      /\ \A r \in Runners : frame[r] \in Frame /\ CallFits(r)
  BY DEF TypeInv, Runners, Framed, Good, CallsFit
<1>1. ASSUME NEW r \in Runners, NEW f, Set(r, f) PROVE frame'[r] = f
  BY <1>0, <1>1 DEF Set, Framed
<1>2. ASSUME NEW r \in Runners, frame'[r] = Idle PROVE CallFits(r)'
  BY <1>2 DEF CallFits, At, Idle
<1>3. ASSUME NEW r \in Runners, ~At(r, "idle"), NEW s \in Steps \ {"launch"}, Goto(r, s) PROVE CallFits(r)'
  <2>1. frame'[r] = [frame[r] EXCEPT !.at = s]
    BY <1>1, <1>3 DEF Goto
  <2>2. frame'[r].at = s /\ frame'[r].call = frame[r].call /\ frame'[r].goal = frame[r].goal
    BY <1>0, <2>1 DEF Frame
  <2>3. QED
    BY <1>0, <1>3, <2>2, FitMoved
<1>4. ASSUME NEW r \in Runners, ~At(r, "idle"), Except(r) PROVE CallFits(r)'
  BY <1>3, <1>4 DEF Except, Steps
<1>5. ASSUME NEW r \in Runners, Getters(r) PROVE CallFits(r)'
  <2>0. ~At(r, "idle")
    BY <1>5 DEF Getters, GetContract, GetAdapter, Probe, Publish, Build, At
  <2>1. ASSUME NEW b, NEW s \in Steps \ {"launch"}, Set(r, [frame[r] EXCEPT !.found = b, !.at = s])
        PROVE  CallFits(r)'
    <3>1. frame'[r].at = s /\ frame'[r].call = frame[r].call /\ frame'[r].goal = frame[r].goal
      BY <1>0, <1>1, <2>1 DEF Frame
    <3>2. QED
      BY <1>0, <2>0, <3>1, FitMoved
  <2>2. CASE GetContract(r)
    BY <1>3, <2>0, <2>1, <2>2 DEF GetContract, AfterContract, Steps
  <2>3. CASE GetAdapter(r)
    <3> DEFINE g == [frame[r] EXCEPT !.found = active]
    <3>1. g.goal = frame[r].goal /\ g.call = frame[r].call
      BY <1>0 DEF Frame
    <3>2. \/ Goto(r, "probe") \/ Set(r, [g EXCEPT !.at = "build"])
          \/ Set(r, [g EXCEPT !.at = "contract", !.goal = "construction"])
          \/ frame[r].goal = "name" /\ Tool(r) # "ingest" /\ Set(r, [g EXCEPT !.at = "launch"])
      BY <2>3, <3>1 DEF GetAdapter
    <3>3. CASE Set(r, [g EXCEPT !.at = "build"])
      BY <2>1, <3>3 DEF Steps
    <3>4. CASE Set(r, [g EXCEPT !.at = "contract", !.goal = "construction"])
      <4>1. frame'[r].at = "contract" /\ frame'[r].call = frame[r].call /\ frame'[r].goal = "construction"
        BY <1>0, <1>1, <3>4 DEF Frame
      <4>2. QED
        BY <1>0, <2>0, <4>1, FitMoved
    <3>5. CASE frame[r].goal = "name" /\ Tool(r) # "ingest" /\ Set(r, [g EXCEPT !.at = "launch"])
      <4>1. frame'[r].call = frame[r].call /\ frame'[r].goal = frame[r].goal
        BY <1>0, <1>1, <3>5 DEF Frame
      <4>2. Tool(r) = "ingest_async"
        BY <1>0, <2>0, <3>5 DEF CallFits
      <4>3. QED
        BY <4>1, <4>2 DEF CallFits, Tool
    <3>6. QED
      BY <1>3, <2>0, <3>2, <3>3, <3>4, <3>5 DEF Steps
  <2>4. CASE Probe(r) \/ Publish(r) \/ Build(r)
    BY <1>3, <2>0, <2>1, <2>4 DEF Probe, Publish, Build, Steps
  <2>5. QED
    BY <1>5, <2>2, <2>3, <2>4 DEF Getters
<1>6. ASSUME NEW r \in Runners, WriteDoc(r) PROVE CallFits(r)'
  <2>0. ~At(r, "idle")
    BY <1>6 DEF WriteDoc, At
  <2>1. ASSUME NEW d, NEW D, PassOn(r, d, D) PROVE CallFits(r)'
    <3>1. PICK s \in {"write", "save", "flush"} : Set(r, Passed(frame[r], d, D, s))
      BY <2>1, PassOnSets
    <3>2. frame'[r] = Passed(frame[r], d, D, s)
      BY <1>1, <3>1
    <3>3. frame'[r].at = s /\ frame'[r].call = frame[r].call /\ frame'[r].goal = frame[r].goal
      BY <1>0, <3>2, PassedFields
    <3>4. QED
      BY <1>0, <2>0, <3>1, <3>3, FitMoved
  <2>2. QED
    BY <1>4, <1>6, <2>0, <2>1, WriteDocCases
<1>7. ASSUME NEW r \in Runners, Flush(r) PROVE CallFits(r)'
  <2>0. ~At(r, "idle")
    BY <1>7 DEF Flush, At
  <2>1. frame'[r] = Idle \/ frame'[r] = [frame[r] EXCEPT !.at = "returned"]
    BY <1>0, <1>7 DEF Flush
  <2>2. CASE frame'[r] = [frame[r] EXCEPT !.at = "returned"]
    <3>1. frame'[r].at = "returned" /\ frame'[r].call = frame[r].call /\ frame'[r].goal = frame[r].goal
      BY <1>0, <2>2 DEF Frame
    <3>2. QED
      BY <1>0, <2>0, <3>1, FitMoved
  <2>3. QED
    BY <1>2, <2>1, <2>2
<1>8. ASSUME NEW w \in Threads, RemoveDoc(w) PROVE CallFits(w)'
  <2>0. ~At(w, "idle")
    BY <1>8 DEF RemoveDoc, At
  <2>1. CASE frame' = Forget(frame[w].call.docs, [frame EXCEPT ![w].at = "flush"])
    <3>1. frame'[w].at = "flush" /\ frame'[w].call = frame[w].call /\ frame'[w].goal = frame[w].goal
      BY <1>0, <2>1 DEF Forget, Framed, Frame
    <3>2. QED
      BY <1>0, <2>0, <3>1, FitMoved
  <2>2. CASE Goto(w, "flush")
    BY <1>0, <1>3, <2>0, <2>2 DEF Steps
  <2>3. QED
    BY <1>8, <2>1, <2>2 DEF RemoveDoc
<1>9. ASSUME NEW w \in Threads, Take(w) PROVE CallFits(w)'
  <2>1. batch[next'].tool \in Tools
    <3>1. next' \in 1..Len(batch) /\ batch \in Seq(Call)
      BY <1>9, ServerConstants DEF Take, TypeInv, TypeOK
    <3>2. batch[next'] \in Call
      BY <3>1
    <3>3. QED
      BY <3>2 DEF Call
  <2>2. frame'[w].call = batch[next'] /\ frame'[w].goal = FirstGoal[batch[next'].tool]
        /\ frame'[w].at = FirstStep[batch[next'].tool]
    <3> DEFINE c == batch[next']
    <3>1. frame'[w] = [Idle EXCEPT !.at = FirstStep[c.tool], !.call = c, !.slot = next',
                                   !.goal = FirstGoal[c.tool], !.todo = c.docs, !.must = acked]
      BY <1>0, <1>9 DEF Take, Set, Framed
    <3> HIDE DEF c
    <3>2. frame'[w].call = c /\ frame'[w].goal = FirstGoal[c.tool] /\ frame'[w].at = FirstStep[c.tool]
      BY <3>1 DEF Idle
    <3>3. QED
      BY <3>2 DEF c
  <2>3. QED
    BY <2>1, <2>2 DEF CallFits, At, Tool, Tools, FirstGoal, FirstStep
<1>10. ASSUME NEW w \in Threads, Lookup(w) \/ LookupRow(w) \/ Retrieve(w) \/ Fill(w) \/ Store(w) PROVE CallFits(w)'
  <2>0. ~At(w, "idle")
    BY <1>10 DEF Lookup, LookupRow, Retrieve, Fill, Store, At
  <2>1. ASSUME NEW g, Set(w, g), g.at # "launch", g.call = frame[w].call, g.goal = frame[w].goal PROVE CallFits(w)'
    BY <1>0, <1>1, <2>0, <2>1, FitMoved
  <2>2. \/ \E s \in Steps \ {"launch"} : Goto(w, s)
        \/ \E a : Set(w, [frame[w] EXCEPT !.answer = a, !.at = "returned"])
        \/ \E a : Set(w, [frame[w] EXCEPT !.answer = a, !.at = "fill"])
        \/ \E a : Set(w, [frame[w] EXCEPT !.at = "fill", !.answer = a])
    BY <1>10 DEF Lookup, LookupRow, Retrieve, Fill, Store, Steps
  <2>3. QED
    BY <1>0, <1>3, <2>0, <2>1, <2>2 DEF Frame
<1>11. ASSUME NEW r \in Runners, Finish(r) \/ Save(r) \/ Fail(r) PROVE CallFits(r)'
  BY <1>1, <1>2, <1>3, <1>11 DEF Finish, Save, Fail, Steps, At
<1>12. ASSUME NEW r \in Runners,
              \/ Getters(r) \/ WriteDoc(r) \/ Flush(r)
              \/ Take(r) \/ Finish(r) \/ Lookup(r) \/ LookupRow(r) \/ Retrieve(r) \/ Fill(r) \/ Store(r) \/ RemoveDoc(r)
              \/ Save(r) \/ Fail(r),
              CallFits(r)'
       PROVE  CallsFit'
  BY <1>0, <1>12, Aside, FitKept DEF CallsFit
<1>13. ASSUME NEW w \in Threads, Launch(w) PROVE CallsFit'
  <2>0. ~At(w, "idle")
    BY <1>13 DEF Launch, At
  <2>1. CASE Goto(w, "raised")
    <3>1. CallFits(w)'
      BY <1>0, <1>3, <2>0, <2>1 DEF Steps
    <3>2. \A x \in Runners \ {w} : Same(x)
      BY <1>0, <2>1 DEF Goto, Set, Same, Framed
    <3>3. QED
      BY <1>0, <3>1, <3>2, FitKept DEF CallsFit
  <2>2. ASSUME NEW j \in Jobs, NEW c, NEW D,
               frame' = [frame EXCEPT ![w].at = "returned",
                           ![j] = [Idle EXCEPT !.at = "contract", !.call = c,
                                               !.goal = "construction", !.todo = D]]
        PROVE  CallsFit'
    <3>1. \A x \in Runners : \/ Same(x)
                             \/ frame'[x].at = "contract" /\ frame'[x].goal = "construction"
                             \/ x = w /\ frame'[x].at = "returned" /\ frame'[x].call = frame[x].call
                                /\ frame'[x].goal = frame[x].goal
      BY <1>0, <2>2 DEF Framed, Idle, Frame, Same
    <3>2. QED
      BY <1>0, <2>0, <3>1, FitKept, FitMoved DEF CallsFit, CallFits, At
  <2>3. (\E j \in Jobs : frame' = [frame EXCEPT ![w].at = "returned",
                             ![j] = [Idle EXCEPT !.at = "contract", !.call = frame[w].call,
                                                 !.goal = "construction", !.todo = frame[w].todo]])
        \/ Goto(w, "raised")
    BY <1>13 DEF Launch
  <2>4. QED
    BY <2>1, <2>2, <2>3
<1>14. CASE HttpMutation \/ SendBatch \/ EndBatch \/ UNCHANGED vars
  <2>1. UNCHANGED frame => \A x \in Runners : Same(x)
    BY DEF Same
  <2>2. frame \in [Runners -> Frame]
    BY <1>0 DEF Framed, Good
  <2>3. \A x \in Runners : Same(x)
    BY <1>14, <2>1, <2>2, ForgetSame DEF HttpMutation, SendBatch, EndBatch, vars
  <2>4. QED
    BY <1>0, <2>3, FitKept DEF CallsFit
<1>15. CASE Crash
  BY <1>2, <1>15 DEF Crash, CallsFit
<1>16. ASSUME NEW w \in Threads, Serve(w) PROVE CallsFit'
  BY <1>0, <1>5, <1>6, <1>7, <1>8, <1>9, <1>10, <1>11, <1>12, <1>13, <1>16 DEF Serve
<1>17. ASSUME NEW j \in Jobs, BgRun(j) PROVE CallsFit'
  BY <1>0, <1>5, <1>6, <1>7, <1>11, <1>12, <1>17 DEF BgRun
<1>18. QED
  BY <1>14, <1>15, <1>16, <1>17 DEF Next

\* A thread's step leaves the jobs alone, but for the one it starts.
LEMMA ServeKeepsJobs ==
  ASSUME TypeInv, JobsInv, CallsFit, NEW w \in Threads, Serve(w)
  PROVE  JobsInv' /\ [Board!Next]_(Board!board)
<1>0. /\ Framed /\ w \in Runners /\ Jobs \subseteq Runners /\ Threads \subseteq Runners /\ w \notin Jobs
      /\ frame[w] \in Frame
      /\ status \in [Jobs -> {"none", "running", "completed", "failed"}] /\ items \in [Jobs -> SUBSET Docs]
  BY ServerConstants DEF TypeInv, TypeOK, Runners, Framed, Good
<1>1. CASE ~Launch(w)
  <2>0. WriteDoc(w) => UNCHANGED <<status, items, tried>>
    <3>1. WriteDoc(w) => UNCHANGED tried
      BY <1>0, WriteDocCases DEF PassOn
    <3>2. QED
      BY <3>1 DEF WriteDoc
  <2>1. UNCHANGED <<status, items, tried>>
    BY <1>0, <1>1, <2>0 DEF Serve, Take, Finish, Getters, GetContract, GetAdapter, Probe, Publish, Build, Lookup,
                      LookupRow, Retrieve, Fill, Store, RemoveDoc, Flush, board
  <2>2. \A j \in Jobs : Same(j)
    BY <1>0, <1>1, Aside DEF Serve
  <2>3. JobsInv'
    BY <2>1, <2>2, JobKept DEF JobsInv
  <2>4. QED
    BY <2>1, <2>3 DEF Board!board
<1>2. CASE Launch(w)
  <2>1. ASSUME NEW j \in Jobs, Goto(w, "raised")
        PROVE  Same(j)
    BY <1>0, <2>1 DEF Goto, Set, Same, Framed
  <2>2. CASE Goto(w, "raised") /\ UNCHANGED <<status, items, tried>>
    <3>1. JobsInv'
      BY <2>1, <2>2, JobKept DEF JobsInv
    <3>2. QED
      BY <2>2, <3>1 DEF Board!board
  <2>3. ASSUME NEW j \in Jobs, status[j] = "none",
               status' = [status EXCEPT ![j] = "running"], items' = [items EXCEPT ![j] = frame[w].todo],
               UNCHANGED tried,
               \/ frame' = [frame EXCEPT ![w].at = "returned",
                              ![j] = [Idle EXCEPT !.at = "contract", !.call = frame[w].call,
                                                  !.goal = "construction", !.todo = frame[w].todo]]
               \/ Goto(w, "raised")
        PROVE  JobsInv' /\ [Board!Next]_(Board!board)
    <3>1. frame[w].todo \in SUBSET Docs
      BY <1>0 DEF Frame
    <3>2. Board!Accept(j)
      BY <2>3, <3>1 DEF Board!Accept
    <3>3. status'[j] = "running" /\ items'[j] = frame[w].todo /\ tried'[j] = {} /\ frame[j].at = "idle"
      BY <1>0, <2>3 DEF JobsInv, JobAt
    <3>4. JobAt(j)'
      <4>1. CASE Goto(w, "raised")
        <5>1. frame'[j].at = "idle"
          BY <2>1, <3>3, <4>1 DEF Same
        <5>2. QED
          BY <3>3, <5>1 DEF JobAt, Working
      <4>2. CASE frame' = [frame EXCEPT ![w].at = "returned",
                             ![j] = [Idle EXCEPT !.at = "contract", !.call = frame[w].call,
                                                 !.goal = "construction", !.todo = frame[w].todo]]
        <5>1. frame'[j].at = "contract" /\ frame'[j].call = frame[w].call /\ frame'[j].goal = "construction"
              /\ frame'[j].todo = frame[w].todo
          BY <1>0, <4>2 DEF Framed, Idle
        <5>2. frame[w].call.tool = "ingest_async"
          BY <1>0, <1>2 DEF Launch, At, CallsFit, CallFits, Tool
        <5>3. QED
          BY <3>3, <5>1, <5>2 DEF JobAt, Working
      <4>3. QED
        BY <2>3, <4>1, <4>2
    <3>5. ASSUME NEW k \in Jobs, k # j PROVE JobAt(k)'
      <4>1. Same(k)
        BY <1>0, <2>1, <2>3, <3>5 DEF Framed, Same
      <4>2. status'[k] = status[k] /\ items'[k] = items[k] /\ tried'[k] = tried[k]
        BY <1>0, <2>3, <3>5
      <4>3. QED
        BY <4>1, <4>2, JobKept DEF JobsInv
    <3>6. QED
      BY <3>2, <3>4, <3>5 DEF JobsInv, Board!Next
  <2>4. QED
    BY <1>2, <2>2, <2>3 DEF Launch
<1>3. QED
  BY <1>1, <1>2

LEMMA BoardStep == TypeInv /\ CallsFit /\ JobsInv /\ [Next]_vars => JobsInv' /\ [Board!Next]_(Board!board)
<1> SUFFICES ASSUME TypeInv, CallsFit, JobsInv, [Next]_vars PROVE JobsInv' /\ [Board!Next]_(Board!board)
  OBVIOUS
<1>0. Framed /\ Jobs \subseteq Runners /\ \A r \in Runners : frame[r] \in Frame
  BY DEF TypeInv, Runners, Framed, Good
<1>1. ASSUME NEW j \in Jobs, BgRun(j) PROVE JobsInv' /\ [Board!Next]_(Board!board)
  <2>1. JobAt(j)' /\ [Board!Next]_(Board!board)
    BY <1>1, JobStep DEF JobsInv
  <2>2. ASSUME NEW k \in Jobs, k # j PROVE JobAt(k)'
    <3>1. Same(k)
      BY <1>0, <1>1, <2>2, Aside DEF BgRun
    <3>2. status'[k] = status[k] /\ items'[k] = items[k] /\ tried'[k] = tried[k]
      <4>0. WriteDoc(j) => /\ UNCHANGED <<status, items>>
                           /\ (tried' = tried \/ \E v : tried' = [tried EXCEPT ![j] = v])
        <5>1. WriteDoc(j) => (tried' = tried \/ \E v : tried' = [tried EXCEPT ![j] = v])
          BY <1>0, WriteDocCases DEF PassOn
        <5>2. QED
          BY <5>1 DEF WriteDoc
      <4>1. /\ (status' = status \/ \E v : status' = [status EXCEPT ![j] = v])
            /\ (tried' = tried \/ \E v : tried' = [tried EXCEPT ![j] = v])
            /\ items' = items
        BY <1>1, <4>0 DEF BgRun, Getters, GetContract, GetAdapter, Probe, Publish, Build, Save, Flush, Fail, board
      <4>2. status \in [Jobs -> {"none", "running", "completed", "failed"}] /\ tried \in [Jobs -> SUBSET Docs]
        BY DEF TypeInv, TypeOK
      <4>3. QED
        BY <2>2, <4>1, <4>2
    <3>3. QED
      BY <3>1, <3>2, JobKept DEF JobsInv
  <2>3. QED
    BY <2>1, <2>2 DEF JobsInv
<1>2. CASE HttpMutation \/ SendBatch \/ EndBatch \/ UNCHANGED vars
  <2>1. UNCHANGED frame => \A x \in Runners : Same(x)
    BY DEF Same
  <2>2. frame \in [Runners -> Frame]
    BY <1>0 DEF Framed, Good
  <2>3. \A j \in Jobs : Same(j)
    BY <1>0, <1>2, <2>1, <2>2, ForgetSame DEF HttpMutation, SendBatch, EndBatch, vars
  <2>4. UNCHANGED <<status, items, tried>>
    BY <1>2 DEF HttpMutation, SendBatch, EndBatch, vars, board
  <2>5. QED
    BY <2>3, <2>4, JobKept DEF JobsInv, Board!board
<1>3. CASE Crash
  <2>1. UNCHANGED <<status, items, tried>> /\ \A j \in Jobs : frame'[j] = Idle
    BY <1>0, <1>3 DEF Crash, board
  <2>2. QED
    BY <2>1 DEF JobsInv, JobAt, Working, Idle, Board!board
<1>4. QED
  BY <1>1, <1>2, <1>3, ServeKeepsJobs DEF Next

\* Whatever fails or restarts, the jobs table is a board of jobs: a job works through
\* its own documents, ends at most once, and is completed only when it has been through
\* all of them, which does not say that each was written (mcp_server.py:692-710, storage.py).
THEOREM OnBoard == Spec => JobsOnBoard
<1>1. Init => Board!Init /\ CallsFit /\ JobsInv
  BY DEF Init, Board!Init, CallsFit, CallFits, JobsInv, JobAt, Working, At, Idle, Runners
<1>2. QED
  BY <1>1, Typed, CallsFitStep, BoardStep, PTL DEF Spec, JobsOnBoard, Board!Spec

-----------------------------------------------------------------------------

\* An answer that shows D, or lacks some of it for one of the reasons the code leaves.
Sound(a, D) == a = NoAnswer \/ D \subseteq a.docs \cup a.gaps \/ a.flaws # {} \/ a.of = "demo"

\* What is in the graph, and what was reported written and is not.
Promised == stored \cup unwritten

\* No job has been saved as completed and still has the flush to do.
Quiet == \A j \in Jobs : ~At(j, "flush")

\* What makes StaleHasCause inductive: while no flush is due, the first tier and whatever
\* is about to be put there is sound for all that a client may rely on.
CacheInv ==
  /\ acked \subseteq Promised
  /\ \A r \in Runners : frame[r].listed \subseteq Promised
  /\ \A r \in Runners : frame[r].must \subseteq acked /\ Sound(frame[r].answer, frame[r].must)
  /\ Quiet => /\ Sound(memory, acked)
              /\ \A r \in Runners : At(r, "fill") => Sound(frame[r].answer, acked)

LEMMA SoundLess ==
  ASSUME NEW a, NEW D, NEW E \in SUBSET D, Sound(a, D)
  PROVE  Sound(a, E)
BY DEF Sound

LEMMA SoundFlawed ==
  ASSUME NEW a \in Answer, NEW F, F # {}, NEW D
  PROVE  Sound(Flawed(a, F), D)
<1>1. Flawed(a, F).flaws = a.flaws \cup F
  BY DEF Flawed, Answer
<1>2. QED
  BY <1>1 DEF Sound

\* A step of one runner that acknowledges and deletes nothing, and is not a flush.
LEMMA CacheSet ==
  ASSUME TypeInv, CacheInv, NEW r \in Runners, NEW f, Set(r, f), ~At(r, "flush"),
         acked' = acked, Promised \subseteq Promised', f.listed \subseteq Promised',
         f.must \subseteq acked, Sound(f.answer, f.must),
         Quiet => Sound(memory', acked) /\ (f.at = "fill" => Sound(f.answer, acked))
  PROVE  CacheInv'
<1>0. Jobs \subseteq Runners /\ frame'[r] = f /\ \A x \in Runners \ {r} : frame'[x] = frame[x]
  BY DEF TypeInv, Framed, Runners, Set
<1>1. Quiet' => Quiet
  BY <1>0 DEF Quiet, At
<1>2. acked' \subseteq Promised' /\ \A x \in Runners : frame'[x].listed \subseteq Promised'
  BY <1>0 DEF CacheInv
<1>3. \A x \in Runners : frame'[x].must \subseteq acked /\ Sound(frame'[x].answer, frame'[x].must)
  BY <1>0 DEF CacheInv
<1>4. Quiet => \A x \in Runners : frame'[x].at = "fill" => Sound(frame'[x].answer, acked)
  BY <1>0 DEF CacheInv, At
<1>5. QED
  BY <1>1, <1>2, <1>3, <1>4 DEF CacheInv, At, Sound

LEMMA CacheGoto ==
  ASSUME TypeInv, CacheInv, NEW r \in Runners, NEW s \in Steps \ {"fill"}, Goto(r, s), ~At(r, "flush"),
         acked' = acked, Promised \subseteq Promised', Quiet => Sound(memory', acked)
  PROVE  CacheInv'
<1> DEFINE f == [frame[r] EXCEPT !.at = s]
<1>1. f.must = frame[r].must /\ f.answer = frame[r].answer /\ f.listed = frame[r].listed /\ f.at # "fill"
  BY DEF TypeInv, Framed, Good, Frame
<1>2. Set(r, f)
  BY DEF Goto
<1> HIDE DEF f
<1>3. QED
  BY <1>1, <1>2, CacheSet DEF CacheInv

\* A step that may delete documents: nobody relies on them any more.
LEMMA CacheLess ==
  ASSUME TypeInv, CacheInv, UNCHANGED memory,
         acked' \subseteq acked, acked' \subseteq Promised',
         \A x \in Runners : frame'[x].listed \subseteq Promised',
         \A x \in Runners : /\ frame'[x].must \subseteq acked'
                            /\ \/ frame'[x].answer = NoAnswer
                               \/ frame'[x].answer = frame[x].answer /\ frame'[x].must \subseteq frame[x].must
                            /\ frame'[x].at = "fill" => frame[x].at = "fill"
                            /\ x \in Jobs /\ frame[x].at = "flush" => frame'[x].at = "flush"
  PROVE  CacheInv'
<1>1. Quiet' => Quiet
  BY DEF Quiet, At, Runners
<1>2. \A x \in Runners : Sound(frame'[x].answer, frame'[x].must)
  <2> SUFFICES ASSUME NEW x \in Runners PROVE Sound(frame'[x].answer, frame'[x].must)
    OBVIOUS
  <2>1. Sound(frame[x].answer, frame[x].must)
    BY DEF CacheInv
  <2>2. QED
    BY <2>1 DEF Sound
<1>3. Quiet => Sound(memory, acked')
  BY DEF CacheInv, Sound
<1>4. ASSUME Quiet, NEW x \in Runners, frame'[x].at = "fill" PROVE Sound(frame'[x].answer, acked')
  <2>1. Sound(frame[x].answer, acked)
    BY <1>4 DEF CacheInv, At
  <2>2. QED
    BY <2>1 DEF Sound
<1>5. QED
  BY <1>1, <1>2, <1>3, <1>4 DEF CacheInv, At, Sound

LEMMA CacheGetters ==
  ASSUME TypeInv, CacheInv, NEW r \in Runners, Getters(r)
  PROVE  CacheInv'
<1>1. ~At(r, "flush") /\ UNCHANGED <<acked, stored, unwritten, memory>>
  BY DEF Getters, GetContract, GetAdapter, Probe, Publish, Build, At, cache, ghosts
<1>11. Promised' = Promised
  BY <1>1 DEF Promised
<1>2. ASSUME NEW f, Set(r, f), f.must = frame[r].must, f.answer = frame[r].answer, f.listed = frame[r].listed,
             f.at # "fill"
      PROVE  CacheInv'
  BY <1>1, <1>11, <1>2, CacheSet DEF CacheInv
<1>3. frame[r] \in Frame
  BY DEF TypeInv, Framed, Good
<1>4. ASSUME NEW s \in Steps \ {"fill"}, Goto(r, s) PROVE CacheInv'
  BY <1>1, <1>11, <1>4, CacheGoto DEF CacheInv
<1>5. ASSUME NEW b, NEW s \in Steps \ {"fill"}, Set(r, [frame[r] EXCEPT !.found = b, !.at = s]) PROVE CacheInv'
  <2> DEFINE f == [frame[r] EXCEPT !.found = b, !.at = s]
  <2>1. f.must = frame[r].must /\ f.answer = frame[r].answer /\ f.listed = frame[r].listed /\ f.at # "fill"
    BY <1>3 DEF Frame
  <2>2. Set(r, f)
    BY <1>5
  <2> HIDE DEF f
  <2>3. QED
    BY <1>2, <2>1, <2>2
<1>6. CASE GetContract(r)
  BY <1>4, <1>5, <1>6 DEF GetContract, AfterContract, Steps
<1>7. CASE GetAdapter(r)
  <2> DEFINE g == [frame[r] EXCEPT !.found = active]
             h == [g EXCEPT !.at = "contract", !.goal = "construction"]
  <2>1. \/ Goto(r, "probe") \/ Set(r, [g EXCEPT !.at = "build"]) \/ Set(r, [g EXCEPT !.at = "launch"])
        \/ Set(r, h)
    BY <1>7 DEF GetAdapter
  <2>2. h.must = frame[r].must /\ h.answer = frame[r].answer /\ h.listed = frame[r].listed /\ h.at # "fill"
    BY <1>3 DEF Frame
  <2>3. Set(r, h) => CacheInv'
    <3> HIDE DEF h
    <3>1. QED
      BY <1>2, <2>2
  <2>4. QED
    BY <1>4, <1>5, <2>1, <2>3 DEF Steps
<1>8. CASE Probe(r) \/ Publish(r) \/ Build(r)
  BY <1>4, <1>5, <1>8 DEF Probe, Publish, Build, Steps
<1>9. QED
  BY <1>6, <1>7, <1>8 DEF Getters

\* Searches: what they answer and what they put into the first tier.
LEMMA CacheSearch ==
  ASSUME TypeInv, CacheInv, NEW w \in Threads,
         Lookup(w) \/ LookupRow(w) \/ Retrieve(w) \/ Fill(w) \/ Store(w)
  PROVE  CacheInv'
<1> DEFINE f == frame[w]
<1>0. /\ w \in Runners /\ f \in Frame /\ f \in Good
      /\ {memory, row} \subseteq Answer \cup {NoAnswer}
      /\ f.must \subseteq acked /\ acked \subseteq Promised /\ f.listed \subseteq Promised
  BY DEF TypeInv, TypeOK, Runners, Framed, Good, CacheInv
<1>1. ~At(w, "flush") /\ UNCHANGED <<acked, stored, unwritten>>
  BY DEF Lookup, LookupRow, Retrieve, Fill, Store, At, cache, ghosts
<1>11. Promised' = Promised
  BY <1>1 DEF Promised
<1>2. ASSUME NEW s \in Steps \ {"fill"}, Goto(w, s), Quiet => Sound(memory', acked) PROVE CacheInv'
  BY <1>0, <1>1, <1>11, <1>2, CacheGoto
<1>3. ASSUME NEW a, NEW g, Set(w, g), g.must = f.must, g.listed = f.listed, g.answer = a,
             Sound(a, acked) \/ (g.at # "fill" /\ Sound(a, f.must)),
             Quiet => Sound(memory', acked)
      PROVE  CacheInv'
  <2>1. Sound(a, f.must)
    BY <1>0, <1>3, SoundLess
  <2>2. QED
    BY <1>0, <1>1, <1>11, <1>3, <2>1, CacheSet
<1>4. CASE Lookup(w)
  <2>1. CASE memory = NoAnswer
    BY <1>2, <1>4, <2>1 DEF Lookup, Steps, cache, CacheInv
  <2>2. CASE memory # NoAnswer
    <3> DEFINE g == [f EXCEPT !.answer = Flawed(memory, Window), !.at = "returned"]
    <3>1. g.must = f.must /\ g.listed = f.listed /\ g.answer = Flawed(memory, Window) /\ g.at # "fill" /\ Set(w, g)
      BY <1>0, <1>4, <2>2 DEF Lookup, Frame
    <3>2. Sound(Flawed(memory, Window), f.must)
      <4>1. CASE Quiet
        <5>1. Window = {} /\ Sound(memory, acked)
          BY <4>1 DEF Window, Quiet, CacheInv
        <5>2. Flawed(memory, {}) = memory
          BY <1>0, <2>2 DEF Flawed, Answer
        <5>3. QED
          BY <1>0, <5>1, <5>2, SoundLess
      <4>2. CASE ~Quiet
        <5>1. Window # {}
          BY <4>2 DEF Window, Quiet
        <5>2. QED
          BY <1>0, <2>2, <5>1, SoundFlawed
      <4>3. QED
        BY <4>1, <4>2
    <3>3. memory' = memory
      BY <1>4 DEF Lookup, cache
    <3> HIDE DEF g
    <3>4. QED
      BY <1>3, <3>1, <3>2, <3>3 DEF CacheInv
  <2>3. QED
    BY <2>1, <2>2
<1>5. CASE LookupRow(w)
  <2>1. CASE row # NoAnswer /\ memory' = Flawed(row, {"row"}) /\ Set(w, [f EXCEPT !.answer = memory', !.at = "returned"])
    <3> DEFINE g == [f EXCEPT !.answer = memory', !.at = "returned"]
    <3>1. g.must = f.must /\ g.listed = f.listed /\ g.answer = memory' /\ g.at # "fill" /\ Set(w, g)
      BY <1>0, <2>1 DEF Frame
    <3>2. Sound(memory', acked)
      BY <1>0, <2>1, SoundFlawed
    <3> HIDE DEF g
    <3>3. QED
      BY <1>3, <3>1, <3>2
  <2>2. CASE (Goto(w, "contract") \/ Goto(w, "raised")) /\ memory' = memory
    BY <1>2, <2>2 DEF Steps, CacheInv
  <2>3. QED
    BY <1>5, <2>1, <2>2 DEF LookupRow
<1>6. CASE Retrieve(w)
  <2> DEFINE full == [of |-> f.found, docs |-> IF f.found = "graph" THEN stored ELSE {},
                      gaps |-> unwritten, flaws |-> {}]
             blank == [full EXCEPT !.docs = {}, !.flaws = {"blank"}]
             g == [f EXCEPT !.answer = full, !.at = "fill"]
             h == [f EXCEPT !.at = "fill", !.answer = blank]
  <2>1. Sound(full, acked) /\ Sound(blank, acked)
    BY <1>0 DEF Sound, Frame, Backends, Promised
  <2>2. /\ g.must = f.must /\ g.listed = f.listed /\ g.answer = full
        /\ h.must = f.must /\ h.listed = f.listed /\ h.answer = blank
    <3> HIDE DEF full, blank
    <3>1. QED
      BY <1>0 DEF Frame
  <2>3. Set(w, g) \/ Set(w, h) \/ Goto(w, "returned")
    BY <1>6 DEF Retrieve
  <2>4. memory' = memory
    BY <1>6 DEF Retrieve, cache
  <2> HIDE DEF full, blank, g, h
  <2>5. QED
    BY <1>2, <1>3, <2>1, <2>2, <2>3, <2>4 DEF CacheInv, Steps
<1>7. CASE Fill(w)
  <2>1. Quiet => Sound(memory', acked)
    BY <1>0, <1>7 DEF Fill, CacheInv
  <2>2. QED
    BY <1>2, <1>7, <2>1 DEF Fill, Steps
<1>8. CASE Store(w)
  BY <1>2, <1>8 DEF Store, Steps, CacheInv
<1>9. QED
  BY <1>4, <1>5, <1>6, <1>7, <1>8

\* What ingests and deletes, and the jobs.
LEMMA CacheMutation ==
  ASSUME TypeInv, JobsInv, CacheInv, NEW r \in Runners,
         WriteDoc(r) \/ Flush(r) \/ (r \in Threads /\ (RemoveDoc(r) \/ Launch(r)))
         \/ (r \in Jobs /\ (Save(r) \/ Fail(r)))
  PROVE  CacheInv'
<1> DEFINE f == frame[r]
<1>0. /\ f \in Frame /\ Framed /\ acked \subseteq Promised /\ f.must \subseteq acked /\ Sound(f.answer, f.must)
      /\ f.listed \subseteq Promised /\ Jobs \subseteq Runners /\ Threads \cap Jobs = {}
      /\ \A x \in Runners : /\ frame[x] \in Frame /\ frame[x].must \subseteq acked
                            /\ frame[x].listed \subseteq Promised
      /\ Quiet => Sound(memory, acked)
  BY ServerConstants DEF TypeInv, Framed, Good, CacheInv, Runners
<1>1. ASSUME NEW s \in Steps \ {"fill"}, Goto(r, s), ~At(r, "flush"), UNCHANGED <<acked, memory, stored, unwritten>>
      PROVE  CacheInv'
  <2>1. Promised' = Promised
    BY <1>1 DEF Promised
  <2>2. QED
    BY <1>0, <1>1, <2>1, CacheGoto
<1>2. ASSUME Except(r), ~At(r, "flush"), UNCHANGED <<acked, memory, stored, unwritten>> PROVE CacheInv'
  BY <1>1, <1>2 DEF Except, Steps
<1>3. CASE WriteDoc(r)
  <2>0. UNCHANGED <<acked, memory>> /\ ~At(r, "flush")
    BY <1>3 DEF WriteDoc, At, cache, ghosts
  <2>1. ASSUME NEW d, NEW D, PassOn(r, d, D), Promised \subseteq Promised', D \subseteq Promised'
        PROVE  CacheInv'
    <3>1. PICK s \in {"write", "save", "flush"} : Set(r, Passed(f, d, D, s))
      BY <2>1, PassOnSets
    <3> DEFINE g == Passed(f, d, D, s)
    <3>2. g.must = f.must /\ g.answer = f.answer /\ g.listed = f.listed \cup D /\ g.at = s
      BY <1>0, PassedFields
    <3>3. Set(r, g) /\ g.at # "fill"
      BY <3>1, <3>2
    <3>4. g.listed \subseteq Promised'
      BY <1>0, <2>1, <3>2
    <3> HIDE DEF g
    <3>5. QED
      BY <1>0, <2>0, <2>1, <3>2, <3>3, <3>4, CacheSet
  <2>2. ASSUME NEW d \in f.todo, WritePaper(r, d) PROVE CacheInv'
    <3>1. Promised \subseteq Promised' /\ {d} \subseteq Promised'
      BY <2>2 DEF WritePaper, Promised
    <3>2. PassOn(r, d, {d})
      BY <2>2 DEF WritePaper
    <3>3. QED
      BY <2>1, <3>1, <3>2
  <2>3. ASSUME NEW d \in f.todo, PassOn(r, d, {}), UNCHANGED <<stored, unwritten>> PROVE CacheInv'
    <3>1. Promised \subseteq Promised' /\ {} \subseteq Promised'
      BY <2>3 DEF Promised
    <3>2. QED
      BY <2>1, <2>3, <3>1
  <2>4. QED
    BY <1>2, <1>3, <2>0, <2>2, <2>3 DEF WriteDoc
<1>4. CASE r \in Threads /\ RemoveDoc(r)
  <2>0. UNCHANGED memory /\ ~At(r, "flush")
    BY <1>4 DEF RemoveDoc, At, cache
  <2>1. CASE /\ stored' = stored \ f.call.docs /\ unwritten' = unwritten \ f.call.docs
             /\ acked' = acked \ f.call.docs
             /\ frame' = Forget(f.call.docs, [frame EXCEPT ![r].at = "flush"])
    <3>0. Promised' = Promised \ f.call.docs
      BY <2>1 DEF Promised
    <3>1. acked' \subseteq acked /\ acked' \subseteq Promised'
      BY <1>0, <2>1, <3>0
    <3>2. \A x \in Runners : /\ frame'[x].must = frame[x].must \ f.call.docs
                             /\ frame'[x].listed = frame[x].listed \ f.call.docs
                             /\ frame'[x].answer = frame[x].answer
                             /\ frame'[x].at = frame[x].at \/ (x = r /\ frame'[x].at = "flush")
      BY <1>0, <2>1 DEF Forget, Framed, Frame
    <3>3. \A x \in Runners : /\ frame'[x].must \subseteq acked'
                             /\ frame'[x].must \subseteq frame[x].must
      BY <1>0, <2>1, <3>2
    <3>4. \A x \in Runners : /\ frame'[x].at = "fill" => frame[x].at = "fill"
                             /\ x \in Jobs /\ frame[x].at = "flush" => frame'[x].at = "flush"
      BY <3>2
    <3>5. \A x \in Runners : frame'[x].listed \subseteq Promised'
      BY <1>0, <3>0, <3>2
    <3>6. QED
      BY <2>0, <3>1, <3>2, <3>3, <3>4, <3>5, CacheLess
  <2>2. CASE Goto(r, "flush") /\ UNCHANGED <<stored, unwritten, acked>>
    BY <1>1, <2>0, <2>2 DEF Steps
  <2>3. QED
    BY <1>4, <2>1, <2>2 DEF RemoveDoc
<1>5. CASE Flush(r)
  <2>1. \A x \in Runners : \/ frame'[x] = Idle
                           \/ x = r /\ frame'[x] = [frame[x] EXCEPT !.at = "returned"]
                           \/ At(x, "fill") /\ frame'[x] = [frame[x] EXCEPT !.answer = Flawed(@, {"late"})]
                           \/ ~At(x, "fill") /\ frame'[x] = frame[x]
    BY <1>5 DEF Flush
  <2>2. acked \subseteq acked' /\ acked' \subseteq Promised' /\ memory' = NoAnswer /\ Promised' = Promised
    <3>1. Promised' = Promised
      BY <1>5 DEF Flush, Promised
    <3>2. acked' = acked \/ acked' = acked \cup f.listed
      BY <1>5 DEF Flush
    <3>3. memory' = NoAnswer
      BY <1>5 DEF Flush
    <3>4. QED
      BY <1>0, <3>1, <3>2, <3>3
  <2>21. \A x \in Runners : frame'[x].listed \subseteq Promised'
    <3>1. ASSUME NEW x \in Runners PROVE frame'[x].listed = {} \/ frame'[x].listed = frame[x].listed
      <4>1. CASE frame'[x] = Idle
        BY <4>1 DEF Idle
      <4>2. CASE frame'[x] = [frame[x] EXCEPT !.at = "returned"]
        BY <1>0, <4>2 DEF Frame
      <4>3. CASE frame'[x] = [frame[x] EXCEPT !.answer = Flawed(@, {"late"})]
        BY <1>0, <4>3 DEF Frame
      <4>4. QED
        BY <2>1, <4>1, <4>2, <4>3
    <3>2. QED
      BY <1>0, <2>2, <3>1
  <2>3. ASSUME NEW x \in Runners
        PROVE  /\ frame'[x].must \subseteq acked' /\ Sound(frame'[x].answer, frame'[x].must)
               /\ frame'[x].at = "fill" => Sound(frame'[x].answer, acked')
    <3>1. Sound(frame[x].answer, frame[x].must) /\ frame[x].must \subseteq acked'
      BY <1>0, <2>2 DEF CacheInv
    <3>2. CASE frame'[x] = Idle
      BY <3>2 DEF Idle, Sound
    <3>3. CASE frame'[x] = [frame[x] EXCEPT !.at = "returned"]
      <4>1. frame'[x].must = frame[x].must /\ frame'[x].answer = frame[x].answer /\ frame'[x].at # "fill"
        BY <1>0, <3>3 DEF Frame
      <4>2. QED
        BY <3>1, <4>1
    <3>4. CASE At(x, "fill") /\ frame'[x] = [frame[x] EXCEPT !.answer = Flawed(@, {"late"})]
      <4>1. frame[x].answer \in Answer
        BY <1>0, <3>4 DEF Framed, Good, At
      <4>2. frame'[x].must = frame[x].must /\ frame'[x].answer = Flawed(frame[x].answer, {"late"})
        BY <1>0, <3>4 DEF Frame
      <4>3. QED
        BY <3>1, <4>1, <4>2, SoundFlawed
    <3>5. CASE ~At(x, "fill") /\ frame'[x] = frame[x]
      BY <3>1, <3>5 DEF At
    <3>6. QED
      BY <2>1, <3>2, <3>3, <3>4, <3>5
  <2>4. Sound(memory', acked')
    BY <2>2 DEF Sound
  <2>5. QED
    BY <2>2, <2>21, <2>3, <2>4 DEF CacheInv, At, Sound
<1>6. CASE r \in Threads /\ Launch(r)
  <2>0. UNCHANGED <<acked, memory, stored, unwritten>> /\ ~At(r, "flush")
    BY <1>6 DEF Launch, At, cache
  <2>01. Promised' = Promised
    BY <2>0 DEF Promised
  <2>1. ASSUME NEW j \in Jobs, status[j] = "none", NEW c, NEW D,
               frame' = [frame EXCEPT ![r].at = "returned",
                           ![j] = [Idle EXCEPT !.at = "contract", !.call = c,
                                               !.goal = "construction", !.todo = D]]
        PROVE  CacheInv'
    <3>1. \A x \in Runners : \/ x = j /\ frame'[x].must = {} /\ frame'[x].answer = NoAnswer /\ frame'[x].at = "contract"
                                /\ frame'[x].listed = {}
                             \/ x # j /\ frame'[x].must = frame[x].must /\ frame'[x].answer = frame[x].answer
                                /\ frame'[x].listed = frame[x].listed
                                /\ (frame'[x].at = frame[x].at \/ (x = r /\ frame'[x].at = "returned"))
      BY <1>0, <2>1 DEF Framed, Idle, Frame
    <3>2. frame[j].at # "flush"
      BY <2>1 DEF JobsInv, JobAt
    <3>3. \A x \in Runners : /\ frame'[x].must \subseteq acked'
                             /\ \/ frame'[x].answer = NoAnswer
                                \/ frame'[x].answer = frame[x].answer /\ frame'[x].must \subseteq frame[x].must
      BY <1>0, <2>0, <3>1
    <3>4. \A x \in Runners : /\ frame'[x].at = "fill" => frame[x].at = "fill"
                             /\ x \in Jobs /\ frame[x].at = "flush" => frame'[x].at = "flush"
      BY <1>0, <1>6, <3>1, <3>2
    <3>5. \A x \in Runners : frame'[x].listed \subseteq Promised'
      BY <1>0, <2>01, <3>1
    <3>6. QED
      BY <1>0, <2>0, <2>01, <3>3, <3>4, <3>5, CacheLess
  <2>2. QED
    <3>1. (\E j \in Jobs : /\ status[j] = "none"
                          /\ frame' = [frame EXCEPT ![r].at = "returned",
                                 ![j] = [Idle EXCEPT !.at = "contract", !.call = f.call,
                                                     !.goal = "construction", !.todo = f.todo]])
          \/ Goto(r, "raised")
      BY <1>6 DEF Launch
    <3>2. Goto(r, "raised") => CacheInv'
      BY <1>1, <2>0 DEF Steps
    <3>3. QED
      BY <2>1, <3>1, <3>2
<1>7. CASE r \in Jobs /\ Save(r)
  <2>0. ~At(r, "flush") /\ UNCHANGED <<stored, unwritten, memory>>
    BY <1>7 DEF Save, At, cache
  <2>01. Promised' = Promised
    BY <2>0 DEF Promised
  <2>1. CASE acked' = acked \cup f.listed /\ Goto(r, "flush")
    <3>1. acked \subseteq acked' /\ acked' \subseteq Promised'
      BY <1>0, <2>01, <2>1
    <3>2. \A x \in Runners : /\ frame'[x].must = frame[x].must /\ frame'[x].answer = frame[x].answer
                             /\ frame'[x].listed = frame[x].listed
      BY <1>0, <2>1 DEF Goto, Set, Framed, Frame
    <3>3. frame'[r].at = "flush"
      BY <1>0, <2>1 DEF Goto, Set, Framed, Frame
    <3>4. ~Quiet'
      BY <1>7, <3>3 DEF Quiet, At
    <3>5. \A x \in Runners : frame'[x].must \subseteq acked' /\ Sound(frame'[x].answer, frame'[x].must)
      BY <1>0, <3>1, <3>2 DEF CacheInv
    <3>6. \A x \in Runners : frame'[x].listed \subseteq Promised'
      BY <1>0, <2>01, <3>2
    <3>7. QED
      BY <3>1, <3>4, <3>5, <3>6 DEF CacheInv, Sound
  <2>2. CASE Goto(r, "fail") /\ UNCHANGED acked
    BY <1>1, <2>0, <2>2 DEF Steps
  <2>3. QED
    BY <1>7, <2>1, <2>2 DEF Save
<1>8. CASE r \in Jobs /\ Fail(r)
  <2>1. ~At(r, "flush") /\ UNCHANGED <<acked, memory, stored, unwritten>> /\ Set(r, Idle)
    BY <1>8 DEF Fail, At, cache
  <2>2. Idle.must \subseteq acked /\ Sound(Idle.answer, Idle.must) /\ Idle.at # "fill" /\ Idle.listed = {}
    BY DEF Idle, Sound
  <2>3. Promised' = Promised
    BY <2>1 DEF Promised
  <2>4. QED
    BY <1>0, <2>1, <2>2, <2>3, CacheSet
<1>9. QED
  BY <1>3, <1>4, <1>5, <1>6, <1>7, <1>8

LEMMA CacheStep == TypeInv /\ JobsInv /\ CacheInv /\ [Next]_vars => CacheInv'
<1> SUFFICES ASSUME TypeInv, JobsInv, CacheInv, [Next]_vars PROVE CacheInv'
  OBVIOUS
<1>0. /\ Framed /\ Threads \subseteq Runners /\ Jobs \subseteq Runners /\ acked \subseteq Promised
      /\ \A x \in Runners : /\ frame[x] \in Frame /\ frame[x].must \subseteq acked
                            /\ frame[x].listed \subseteq Promised
      /\ Quiet => Sound(memory, acked)
  BY DEF TypeInv, Runners, Framed, Good, CacheInv
<1>1. ASSUME NEW w \in Threads, Take(w) \/ Finish(w) PROVE CacheInv'
  <2>0. ~At(w, "flush") /\ UNCHANGED <<acked, memory, stored, unwritten>>
    BY <1>1 DEF Take, Finish, At, cache, ghosts
  <2>01. Promised' = Promised
    BY <2>0 DEF Promised
  <2>1. ASSUME NEW g, Set(w, g), g.must \subseteq acked, g.listed = {}, g.answer = NoAnswer PROVE CacheInv'
    BY <1>0, <2>0, <2>01, <2>1, CacheSet DEF Sound
  <2>2. CASE Take(w)
    <3> DEFINE c == batch[next']
               g == [Idle EXCEPT !.at = FirstStep[c.tool], !.call = c, !.slot = next',
                                 !.goal = FirstGoal[c.tool], !.todo = c.docs, !.must = acked]
    <3>1. Set(w, g)
      BY <2>2 DEF Take
    <3>2. g.must = acked /\ g.answer = NoAnswer /\ g.listed = {}
      BY DEF Idle
    <3> HIDE DEF g
    <3>3. QED
      BY <2>1, <3>1, <3>2
  <2>3. CASE Finish(w)
    <3>1. Set(w, Idle) /\ Idle.must = {} /\ Idle.answer = NoAnswer /\ Idle.listed = {}
      BY <2>3 DEF Finish, Idle
    <3>2. QED
      BY <2>1, <3>1
  <2>4. QED
    BY <1>1, <2>2, <2>3
<1>2. CASE HttpMutation
  <2>0. UNCHANGED memory
    BY <1>2 DEF HttpMutation, cache
  <2>1. ASSUME NEW d \in Docs, stored' = stored \cup {d}, unwritten' = unwritten \ {d}, UNCHANGED <<acked, frame>>
        PROVE  CacheInv'
    <3>1. Promised \subseteq Promised'
      BY <2>1 DEF Promised
    <3>2. QED
      BY <1>0, <2>0, <2>1, <3>1, CacheLess
  <2>2. ASSUME NEW d \in Docs, stored' = stored \ {d}, UNCHANGED unwritten, acked' = acked \ {d},
               frame' = Forget({d}, frame)
        PROVE  CacheInv'
    <3>1. \A x \in Runners : /\ frame'[x].must = frame[x].must \ {d}
                             /\ frame'[x].listed = frame[x].listed \ {d}
                             /\ frame'[x].answer = frame[x].answer
                             /\ frame'[x].at = frame[x].at
      BY <1>0, <2>2 DEF Forget, Frame
    <3>0. Promised \ {d} \subseteq Promised'
      BY <2>2 DEF Promised
    <3>2. acked' \subseteq acked /\ acked' \subseteq Promised'
      BY <1>0, <2>2, <3>0
    <3>3. \A x \in Runners : frame'[x].must \subseteq acked' /\ frame'[x].must \subseteq frame[x].must
      BY <1>0, <2>2, <3>1
    <3>4. \A x \in Runners : frame'[x].listed \subseteq Promised'
      BY <1>0, <3>0, <3>1
    <3>5. QED
      BY <2>0, <3>1, <3>2, <3>3, <3>4, CacheLess
  <2>3. QED
    BY <1>2, <2>1, <2>2 DEF HttpMutation
<1>3. CASE SendBatch \/ EndBatch \/ UNCHANGED vars
  <2>1. UNCHANGED <<acked, memory, stored, unwritten, frame>>
    BY <1>3 DEF SendBatch, EndBatch, vars, cache, ghosts
  <2>2. Promised' = Promised
    BY <2>1 DEF Promised
  <2>3. QED
    BY <1>0, <2>1, <2>2, CacheLess
<1>4. CASE Crash
  <2>1. memory' = NoAnswer /\ UNCHANGED <<stored, unwritten, acked>> /\ \A x \in Runners : frame'[x] = Idle
    BY <1>4 DEF Crash
  <2>2. Promised' = Promised
    BY <2>1 DEF Promised
  <2>3. QED
    BY <1>0, <2>1, <2>2 DEF CacheInv, Idle, At, Sound
<1>5. ASSUME NEW w \in Threads, Serve(w) PROVE CacheInv'
  BY <1>0, <1>1, <1>5, CacheGetters, CacheSearch, CacheMutation DEF Serve
<1>6. ASSUME NEW j \in Jobs, BgRun(j) PROVE CacheInv'
  BY <1>0, <1>6, CacheGetters, CacheMutation DEF BgRun
<1>7. QED
  BY <1>2, <1>3, <1>4, <1>5, <1>6 DEF Next

\* A search that begins after an acknowledged ingestion lacks one of its documents only
\* for one of the six reasons the code leaves (the first: its upsert had failed, and the
\* report listed it as written), whatever the threads, the jobs, the other
\* server and a restart do in between (mcp_server.py:351-381, 676-734, cache.py:49-98).
THEOREM StaleExplained == Spec => []StaleHasCause
<1>1. Init => CacheInv /\ CallsFit /\ JobsInv
  BY DEF Init, CacheInv, Promised, CallsFit, CallFits, JobsInv, JobAt, Working, Sound, At, Idle, Runners
<1>2. CacheInv => StaleHasCause
  BY DEF CacheInv, StaleHasCause, Sound, At, Runners
<1>3. QED
  BY <1>1, <1>2, Typed, CallsFitStep, BoardStep, CacheStep, PTL DEF Spec

=============================================================================

----------------------------- MODULE Construction -----------------------------
(***************************************************************************)
(* Writes to the graph: ingest, update and delete_document of              *)
(* mcp_server/contracts/construction.py, with the report each of them      *)
(* returns and the stream events publish_ingestion_report                  *)
(* (mcp_server/contracts/streaming.py) derives from the report.            *)
(*                                                                         *)
(* The contract object is shared by every thread that serves a request and *)
(* has no lock and no transaction: each call of the backend is an atomic   *)
(* step here, and any of them may fail.  The backend is external and is    *)
(* modelled by what the code asks of it: upserts by primary id, edges that *)
(* bring their missing end points with them (vertexMustExist=False), and   *)
(* the deletion of a vertex together with its edges.                       *)
(*                                                                         *)
(* Data abstraction: a payload is a member of Contents; Links gives the    *)
(* objects of the triples extract_entities finds in it, in order.  Authors *)
(* and Concepts are told apart from Papers but not from each other.        *)
(*                                                                         *)
(* A caller may spell the id of a document with blanks around it.  ingest  *)
(* strips the id for its probes, the edges and the report, but             *)
(* _write_document, update and delete_document use it as it was given:     *)
(* Padded are such spellings, vertices of their own, and Strip what is     *)
(* left of them.                                                           *)
(***************************************************************************)
EXTENDS Integers, Sequences, SequencesExt, FiniteSets

CONSTANTS
  Workers,   \* threads that serve write requests
  Docs,      \* ids of Paper vertices, without blanks around them
  Padded,    \* ids of Paper vertices with blanks around them
  Strip,     \* Strip[p]: the id p without blanks around it
  Objects,   \* ids of Author and Concept vertices
  Contents,  \* payloads of documents
  Links,     \* Links[c]: the objects of the triples extracted from c
  Batches,   \* the document lists that are ingested
  Graphs,    \* the graphs the system may start with: [graph, edges]
  MaxCalls,  \* bound: write requests served
  MaxFaults  \* bound: calls of the backend that fail

Papers   == Docs \cup Padded
Vertices == Papers \cup Objects

\* What is stored at a vertex: nothing; a vertex without attributes; an author
\* or concept with its name; or the attributes of a document.
Absent == "absent"
Stub   == "stub"
Named  == "named"
States == Contents \cup {Absent, Stub, Named}

Strategies == {"exact_id", "new_only"}
Document   == [id : Papers, content : Contents]
Mutation   == [kind : {"created", "updated", "deleted"}, id : Papers]

ASSUME ConstructionConstants ==
  /\ Papers \cap Objects = {} /\ Docs \cap Padded = {}
  /\ Strip \in [Papers -> Docs] /\ \A d \in Docs : Strip[d] = d
  /\ {Absent, Stub, Named} \cap Contents = {}
  /\ Links \in [Contents -> Seq(Docs \cup Objects)]
  /\ Batches \subseteq Seq(Document) \ {<<>>}
  /\ \A g \in Graphs : /\ g.graph \in [Vertices -> States]
                       /\ g.edges \subseteq Docs \X (Docs \cup Objects)
                       /\ \A e \in g.edges : Absent \notin {g.graph[e[1]], g.graph[e[2]]}
  /\ MaxCalls \in Nat
  /\ MaxFaults \in Nat

VARIABLES
  graph,   \* what is stored at each vertex
  edges,   \* pairs of a document and a vertex, both without blanks
  calls,   \* the number of requests begun
  faults,  \* the number of failed calls of the backend
  pc,      \* the next step of each worker
  call,    \* the local variables of each worker's request
  report,  \* the IngestionReport each worker builds
  events,  \* the events of documents that each worker's last request published
  hist     \* history variable: what properties need to know of a request

vars == <<graph, edges, calls, faults, pc, call, report, events, hist>>

Present == {v \in Vertices : graph[v] # Absent}

\* asked, found: the objects probed so far and those that exist; exists:
\* paper_exists; done: the set called seen in the code; k: the present triple.
Call == [op : {"none", "ingest", "update", "delete"}, strategy : Strategies,
         dry : BOOLEAN, docs : Seq(Document), asked : SUBSET Vertices, found : SUBSET Vertices,
         exists : BOOLEAN, done : SUBSET Vertices, k : Nat \ {0}]

NoCall == [op |-> "none", strategy |-> "exact_id", dry |-> FALSE, docs |-> <<>>,
           asked |-> {}, found |-> {}, exists |-> FALSE, done |-> {}, k |-> 1]

\* fresh is the code's documents_created.
Report == [created : Nat, edges : Nat, written : Seq(Docs), fresh : SUBSET Docs,
           deleted : SUBSET Papers]

Blank == [created |-> 0, edges |-> 0, written |-> <<>>, fresh |-> {}, deleted |-> {}]

\* batch: the documents it was given; alone: no other request overlapped this
\* one; blind: one of its probes failed; failed: one of its writes did; rejected:
\* one of its documents was; before: the vertices present when it began; kept:
\* those of them never deleted since; did: its mutations of documents.
History == [batch : Seq(Document), alone : BOOLEAN, blind : BOOLEAN, failed : BOOLEAN,
            rejected : BOOLEAN, before : SUBSET Vertices, kept : SUBSET Vertices,
            did : SUBSET Mutation]

NoHist == [batch |-> <<>>, alone |-> FALSE, blind |-> FALSE, failed |-> FALSE,
           rejected |-> FALSE, before |-> {}, kept |-> {}, did |-> {}]

\* In these steps the worker has a document in hand.
InHand == {"update", "dropEdges", "probe", "foresee", "paper", "links", "account",
           "delete", "remove"}

Steps == InHand \cup {"idle", "emit", "done"}

TypeOK ==
  /\ graph \in [Vertices -> States]
  /\ edges \subseteq Docs \X (Docs \cup Objects)
  /\ calls \in 0..MaxCalls /\ faults \in 0..MaxFaults
  /\ pc \in [Workers -> Steps]
  /\ call \in [Workers -> Call]
  /\ report \in [Workers -> Report]
  /\ events \in [Workers -> SUBSET Mutation]
  /\ hist \in [Workers -> History]
  /\ \A w \in Workers : pc[w] \in InHand => call[w].docs # <<>>
  /\ \A w \in Workers : report[w].fresh \subseteq ToSet(report[w].written)
  /\ \A w \in Workers : hist[w].kept \subseteq Present

Init ==
  /\ \E g \in Graphs : graph = g.graph /\ edges = g.edges
  /\ calls = 0
  /\ faults = 0
  /\ pc = [w \in Workers |-> "idle"]
  /\ call = [w \in Workers |-> NoCall]
  /\ report = [w \in Workers |-> Blank]
  /\ events = [w \in Workers |-> {}]
  /\ hist = [w \in Workers |-> NoHist]

-----------------------------------------------------------------------------
(* The document in hand and the links extracted from it.                   *)

Doc(w)     == Head(call[w].docs)
Id(w)      == Strip[Doc(w).id]
Triples(w) == Links[Doc(w).content]

\* (The definitions named Bad... are not the code: they are wrong variants of
\* the definitions below them, one for each property.)
BadSkipsExisting(w) == call[w].exists

BadSkipsNothing(w) == call[w].strategy = "exact_id" /\ call[w].exists

\* Insert-only: the vertex was found by its probe and may not be written.
Skips(w) == call[w].strategy = "new_only" /\ call[w].exists

\* The object vertex of the present triple still has to be upserted.
NeedsVertex(w) ==
  LET v == Triples(w)[call[w].k] IN
  /\ v \notin call[w].done
  /\ ~(call[w].strategy = "new_only" /\ v \in call[w].found)

\* A call of the backend succeeds, or fails while the bound allows; hist marks
\* the request.
Success == UNCHANGED <<faults, hist>>

Failure(w, mark) ==
  /\ faults < MaxFaults
  /\ faults' = faults + 1
  /\ hist' = [hist EXCEPT ![w] = mark]

WriteFails(w) == Failure(w, [hist[w] EXCEPT !.failed = TRUE])

\* The answer of an existence probe: a failed one counts as "not found".
Probe(w, v, answer) ==
  \/ /\ answer = (graph[v] # Absent)
     /\ Success
  \/ /\ answer = FALSE
     /\ Failure(w, [hist[w] EXCEPT !.blind = TRUE])

Goto(w, step) == pc' = [pc EXCEPT ![w] = step]

\* The loop over the documents goes to its next one, or ends.
NextDoc(w, rest) ==
  /\ call' = [call EXCEPT ![w] =
       [NoCall EXCEPT !.op = call[w].op, !.strategy = call[w].strategy, !.dry = call[w].dry,
                      !.docs = rest]]
  /\ Goto(w, IF rest = <<>> THEN "emit" ELSE "probe")

-----------------------------------------------------------------------------
(* Requests.                                                               *)

Begin(w, op, strategy, dry, docs, step) ==
  /\ pc[w] \in {"idle", "done"}
  /\ calls < MaxCalls
  /\ calls' = calls + 1
  /\ Goto(w, step)
  /\ call' = [call EXCEPT ![w] =
       [NoCall EXCEPT !.op = op, !.strategy = strategy, !.dry = dry, !.docs = docs]]
  /\ report' = [report EXCEPT ![w] = Blank]
  /\ events' = [events EXCEPT ![w] = {}]
  /\ LET overlap == \E u \in Workers \ {w} : pc[u] \notin {"idle", "done"} IN
     hist' = [u \in Workers |->
       IF u = w THEN [NoHist EXCEPT !.batch = docs, !.alone = ~overlap,
                                    !.before = Present, !.kept = Present]
       ELSE [hist[u] EXCEPT !.alone = FALSE]]
  /\ UNCHANGED <<faults, graph, edges>>

BeginIngest(w, strategy, dry, batch) == Begin(w, "ingest", strategy, dry, batch, "probe")

\* update: one document; only EXACT_ID looks for an old version of it.
BeginUpdate(w, strategy, dry, d) ==
  Begin(w, "update", strategy, dry, <<d>>,
        IF strategy = "exact_id" THEN "update" ELSE "probe")

BeginDelete(w, dry, d) == Begin(w, "delete", "exact_id", dry, <<d>>, "delete")

\* update: the document exists, so its edges are dropped before it is written,
\* or, in a dry run, before it is not.
ProbeUpdate(w) ==
  /\ pc[w] = "update"
  /\ \E answer \in BOOLEAN :
       /\ Probe(w, Doc(w).id, answer)
       /\ Goto(w, IF answer THEN "dropEdges" ELSE "probe")
  /\ UNCHANGED <<graph, edges, calls, call, report, events>>

BadDropEdges(w) ==
  /\ pc[w] = "dropEdges"
  /\ Goto(w, "probe")
  /\ UNCHANGED <<graph, edges, calls, faults, call, report, events, hist>>

\* _delete_edges_of; a failure is swallowed.
DropEdges(w) ==
  /\ pc[w] = "dropEdges"
  /\ \/ /\ edges' = {e \in edges : e[1] # Doc(w).id}
        /\ Success
     \/ /\ UNCHANGED edges
        /\ WriteFails(w)
  /\ Goto(w, "probe")
  /\ UNCHANGED <<graph, calls, call, report, events>>

-----------------------------------------------------------------------------
(* ingest, for one document.                                               *)

\* The document has no id, or its extraction raised: it is left out.
RejectDoc(w) ==
  /\ pc[w] = "probe"
  /\ call[w].asked = {}
  /\ NextDoc(w, Tail(call[w].docs))
  /\ hist' = [hist EXCEPT ![w].rejected = TRUE]
  /\ UNCHANGED <<graph, edges, calls, faults, report, events>>

\* resolve_entities: every distinct object is probed once, in order.
ProbeObject(w) ==
  /\ pc[w] = "probe"
  /\ \E i \in DOMAIN Triples(w), answer \in BOOLEAN :
       LET v == Triples(w)[i] IN
       /\ v \notin call[w].asked
       /\ \A j \in 1..(i - 1) : Triples(w)[j] \in call[w].asked
       /\ Probe(w, v, answer)
       /\ call' = [call EXCEPT ![w] =
            [call[w] EXCEPT !.asked = @ \cup {v}, !.found = @ \cup IF answer THEN {v} ELSE {}]]
  /\ UNCHANGED <<graph, edges, calls, pc, report, events>>

\* ingest: then the document itself.
ProbePaper(w) ==
  /\ pc[w] = "probe"
  /\ ToSet(Triples(w)) \subseteq call[w].asked
  /\ \E answer \in BOOLEAN :
       /\ Probe(w, Id(w), answer)
       /\ call' = [call EXCEPT ![w].exists = answer]
  /\ Goto(w, IF call[w].dry THEN "foresee" ELSE "paper")
  /\ UNCHANGED <<graph, edges, calls, report, events>>

BadForesee(w) ==
  /\ pc[w] = "foresee"
  /\ report' = [report EXCEPT ![w].created = @ + Len(Triples(w)) + 1]
  /\ NextDoc(w, Tail(call[w].docs))
  /\ UNCHANGED <<graph, edges, calls, faults, events, hist>>

\* The triples of the document in hand whose object its probe found.
Resolved(w) == {i \in DOMAIN Triples(w) : Triples(w)[i] \in call[w].found}

\* ingest in a dry run: the report counts what it found missing, the object of
\* each triple and the document, and goes on to the next document.
Foresee(w) ==
  /\ pc[w] = "foresee"
  /\ report' = [report EXCEPT ![w].created =
       @ + (Len(Triples(w)) - Cardinality(Resolved(w))) + IF call[w].exists THEN 0 ELSE 1]
  /\ NextDoc(w, Tail(call[w].docs))
  /\ UNCHANGED <<graph, edges, calls, faults, events, hist>>

\* _write_document: the upsert of the Paper, all of its attributes, under the id
\* as it was given.
UpsertPaper(w) ==
  LET d == Doc(w) IN
  /\ pc[w] = "paper"
  /\ ~Skips(w)
  /\ \/ /\ graph' = [graph EXCEPT ![d.id] = d.content]
        /\ report' = [report EXCEPT ![w].created = @ + IF call[w].exists THEN 0 ELSE 1]
        /\ hist' = [hist EXCEPT ![w].did = @ \cup
             {[kind |-> IF graph[d.id] = Absent THEN "created" ELSE "updated", id |-> d.id]}]
        /\ Goto(w, "links")
        /\ UNCHANGED faults
     \/ /\ UNCHANGED <<graph, report>>
        /\ WriteFails(w)
        /\ Goto(w, "account")
  /\ UNCHANGED <<edges, calls, call, events>>

\* _write_document under NEW_ONLY leaves a document that exists alone.
SkipPaper(w) ==
  /\ pc[w] = "paper"
  /\ Skips(w)
  /\ Goto(w, "account")
  /\ UNCHANGED <<graph, edges, calls, faults, call, report, events, hist>>

\* A payload whose attributes cannot be converted (abstract_token_count) raises
\* out of ingest: the request ends here, with no report and no event.
Abort(w) ==
  /\ pc[w] = "paper"
  /\ ~Skips(w)
  /\ Goto(w, "idle")
  /\ call' = [call EXCEPT ![w] = NoCall]
  /\ report' = [report EXCEPT ![w] = Blank]
  /\ hist' = [hist EXCEPT ![w] = NoHist]
  /\ UNCHANGED <<graph, edges, calls, faults, events>>

\* An upsert of an object: an Author or Concept gets its name, a cited Paper no
\* attribute, so one that exists stays as it is.
Upserted(v) ==
  IF v \in Objects THEN Named ELSE IF graph[v] = Absent THEN Stub ELSE graph[v]

\* History only: citing a document that was absent creates it.
Creates(vs) == {[kind |-> "created", id |-> d] : d \in {v \in vs \cap Docs : graph[v] = Absent}}

BadUpsertObject(w) ==
  LET v == Triples(w)[call[w].k] IN
  /\ pc[w] = "links"
  /\ call[w].k <= Len(Triples(w))
  /\ NeedsVertex(w)
  /\ graph' = [graph EXCEPT ![v] = IF v \in Objects THEN Named ELSE Stub]
  /\ report' = [report EXCEPT ![w].created = @ + IF v \in call[w].found THEN 0 ELSE 1]
  /\ call' = [call EXCEPT ![w].done = @ \cup {v}]
  /\ UNCHANGED <<edges, calls, faults, pc, events, hist>>

BadCountObject(w) ==
  LET v == Triples(w)[call[w].k] IN
  /\ pc[w] = "links"
  /\ call[w].k <= Len(Triples(w))
  /\ NeedsVertex(w)
  /\ graph' = [graph EXCEPT ![v] = Upserted(v)]
  /\ report' = [report EXCEPT ![w].created = @ + 1]
  /\ call' = [call EXCEPT ![w].done = @ \cup {v}]
  /\ hist' = [hist EXCEPT ![w].did = @ \cup Creates({v})]
  /\ UNCHANGED <<edges, calls, faults, pc, events>>

\* _write_document: the object of a triple, once per document and, under
\* NEW_ONLY, only if its probe did not find it.  After a failure the loop goes
\* on with the next triple.
UpsertObject(w) ==
  LET v == Triples(w)[call[w].k] IN
  /\ pc[w] = "links"
  /\ call[w].k <= Len(Triples(w))
  /\ NeedsVertex(w)
  /\ \/ /\ graph' = [graph EXCEPT ![v] = Upserted(v)]
        /\ report' = [report EXCEPT ![w].created = @ + IF v \in call[w].found THEN 0 ELSE 1]
        /\ call' = [call EXCEPT ![w].done = @ \cup {v}]
        /\ hist' = [hist EXCEPT ![w].did = @ \cup Creates({v})]
        /\ UNCHANGED faults
     \/ /\ call' = [call EXCEPT ![w].done = @ \cup {v}, ![w].k = @ + 1]
        /\ WriteFails(w)
        /\ UNCHANGED <<graph, report>>
  /\ UNCHANGED <<edges, calls, pc, events>>

\* _write_document: the edge of a triple, from the stripped id.
UpsertEdge(w) ==
  LET d == Id(w)
      v == Triples(w)[call[w].k]
  IN
  /\ pc[w] = "links"
  /\ call[w].k <= Len(Triples(w))
  /\ ~NeedsVertex(w)
  /\ \/ /\ edges' = edges \cup {<<d, v>>}
        /\ graph' = [x \in Vertices |->
             IF x \in {d, v} /\ graph[x] = Absent THEN Stub ELSE graph[x]]
        /\ report' = [report EXCEPT ![w].edges = @ + 1]
        /\ hist' = [hist EXCEPT ![w].did = @ \cup Creates({d, v})]
        /\ UNCHANGED faults
     \/ /\ WriteFails(w)
        /\ UNCHANGED <<edges, graph, report>>
  /\ call' = [call EXCEPT ![w].k = @ + 1]
  /\ UNCHANGED <<calls, pc, events>>

BadAccount(w) ==
  LET d == Id(w) IN
  /\ \/ pc[w] = "account"
     \/ pc[w] = "links" /\ call[w].k > Len(Triples(w))
  /\ report' = [report EXCEPT
       ![w].written = IF call[w].exists THEN Append(@, d) ELSE @,
       ![w].fresh = @ \cup IF call[w].exists THEN {} ELSE {d}]
  /\ NextDoc(w, Tail(call[w].docs))
  /\ UNCHANGED <<graph, edges, calls, faults, events, hist>>

\* ingest, after _write_document has returned: what the report says of the
\* document.  A failed upsert of the Paper is not told apart.
Account(w) ==
  LET d == Id(w) IN
  /\ \/ pc[w] = "account"
     \/ pc[w] = "links" /\ call[w].k > Len(Triples(w))
  /\ report' = IF Skips(w) THEN report
               ELSE [report EXCEPT ![w].written = Append(@, d),
                       ![w].fresh = @ \cup IF call[w].exists THEN {} ELSE {d}]
  /\ NextDoc(w, Tail(call[w].docs))
  /\ UNCHANGED <<graph, edges, calls, faults, events, hist>>

-----------------------------------------------------------------------------
(* delete_document, and the end of a request.                              *)

\* delete_document: the probe, with which a dry run ends.
ProbeDelete(w) ==
  /\ pc[w] = "delete"
  /\ \E answer \in BOOLEAN :
       /\ Probe(w, Doc(w).id, answer)
       /\ call' = [call EXCEPT ![w].exists = answer]
       /\ report' = IF call[w].dry /\ answer
                      THEN [report EXCEPT ![w].deleted = {Doc(w).id}] ELSE report
  /\ Goto(w, IF call[w].dry THEN "emit" ELSE "remove")
  /\ UNCHANGED <<graph, edges, calls, events>>

BadRemoveDoc(w) ==
  LET d == Doc(w).id IN
  /\ pc[w] = "remove"
  /\ graph' = [graph EXCEPT ![d] = Absent]
  /\ edges' = {e \in edges : d \notin {e[1], e[2]}}
  /\ report' = [report EXCEPT ![w].deleted = {d}]
  /\ hist' = [u \in Workers |-> [hist[u] EXCEPT !.kept = @ \ {d},
                !.did = IF u = w /\ graph[d] # Absent
                          THEN @ \cup {[kind |-> "deleted", id |-> d]} ELSE @]]
  /\ Goto(w, "emit")
  /\ UNCHANGED <<calls, faults, call, events>>

\* delete_document: the vertex goes with all its edges, and is reported deleted
\* if the backend says that it removed one or the probe had found one.
RemoveDoc(w) ==
  LET d == Doc(w).id IN
  /\ pc[w] = "remove"
  /\ \/ /\ graph' = [graph EXCEPT ![d] = Absent]
        /\ edges' = {e \in edges : d \notin {e[1], e[2]}}
        /\ report' = [report EXCEPT ![w].deleted =
             IF graph[d] # Absent \/ call[w].exists THEN {d} ELSE {}]
        /\ hist' = [u \in Workers |-> [hist[u] EXCEPT !.kept = @ \ {d},
             !.did = IF u = w /\ graph[d] # Absent
                       THEN @ \cup {[kind |-> "deleted", id |-> d]} ELSE @]]
        /\ UNCHANGED faults
     \/ /\ WriteFails(w)
        /\ UNCHANGED <<graph, edges, report>>
  /\ Goto(w, "emit")
  /\ UNCHANGED <<calls, call, events>>

\* publish_ingestion_report: an event for each document written or deleted; none
\* for a dry run.
Published(w) ==
  LET r == report[w] IN
  {[kind |-> IF d \in r.fresh THEN "created" ELSE "updated", id |-> d] :
     d \in ToSet(r.written)}
  \cup {[kind |-> "deleted", id |-> d] : d \in r.deleted}

Emit(w) ==
  /\ pc[w] = "emit"
  /\ events' = [events EXCEPT ![w] = IF call[w].dry THEN {} ELSE Published(w)]
  /\ Goto(w, "done")
  /\ call' = [call EXCEPT ![w] =
       [NoCall EXCEPT !.op = call[w].op, !.strategy = call[w].strategy, !.dry = call[w].dry]]
  /\ UNCHANGED <<graph, edges, calls, faults, report, hist>>

-----------------------------------------------------------------------------

Next ==
  \E w \in Workers :
    \/ \E s \in Strategies, dry \in BOOLEAN, b \in Batches : BeginIngest(w, s, dry, b)
    \/ \E s \in Strategies, dry \in BOOLEAN, b \in Batches : BeginUpdate(w, s, dry, Head(b))
    \/ \E dry \in BOOLEAN, b \in Batches : BeginDelete(w, dry, Head(b))
    \/ ProbeUpdate(w) \/ DropEdges(w)
    \/ RejectDoc(w) \/ ProbeObject(w) \/ ProbePaper(w) \/ Foresee(w)
    \/ UpsertPaper(w) \/ SkipPaper(w)
    \/ Abort(w) \/ UpsertObject(w) \/ UpsertEdge(w) \/ Account(w)
    \/ ProbeDelete(w) \/ RemoveDoc(w) \/ Emit(w)

Spec == Init /\ [][Next]_vars

-----------------------------------------------------------------------------
(* Properties.                                                             *)

\* A request has ended that no other request overlapped and whose calls of the
\* backend all succeeded.
Undisturbed(w) ==
  pc[w] = "done" /\ hist[w].alone /\ ~hist[w].blind /\ ~hist[w].failed

Batch(w) == hist[w].batch

\* The request is a plain write: no dry run, and no id with blanks around it.
Plain(w) ==
  /\ ~call[w].dry
  /\ \A i \in DOMAIN Batch(w) : Batch(w)[i].id \in Docs

\* What the document d cites and mentions.
Cites(d) == ToSet(Links[d.content])

\* Under NEW_ONLY a vertex that was there when the request began, and has not
\* been deleted since, keeps its attributes: no step of the request changes it,
\* whatever other requests do and whichever writes fail.  (Two things break this:
\* after a failed probe, which _exists answers with False, the vertex is
\* overwritten, and so is a Paper under an id with blanks, as the one probed is
\* the Paper without them.)
InsertOnly ==
  [][\A w \in Workers :
       /\ call[w].strategy = "new_only" /\ ~hist[w].blind
       /\ pc[w] \in {"paper", "links"} /\ <<pc[w], call[w]>>' # <<pc[w], call[w]>>
       => \A v \in hist[w].kept \ Padded : graph'[v] = graph[v]]_vars

\* The attributes of a document change only while a request that names it is
\* being served: citing a document never blanks or replaces what it says.
CitationKeepsContent ==
  [][\A d \in Papers :
       graph[d] \in Contents /\ graph'[d] # graph[d]
       => \E w \in Workers : /\ pc[w] \in {"paper", "remove"}
                             /\ Doc(w).id = d]_graph

\* "Measured, never estimated": entities_created of an undisturbed write is the
\* number of vertices it added.  (Not of one in which a document cites itself: it
\* is counted as the document and again as the object of its own triple.)
CreatedMeasured ==
  \A w \in Workers :
    /\ Undisturbed(w) /\ Plain(w) /\ call[w].op # "delete"
    /\ \A i \in DOMAIN Batch(w) : Batch(w)[i].id \notin Cites(Batch(w)[i])
    => report[w].created = Cardinality(Present \ hist[w].before)

\* documents_created of an undisturbed write is what the report promises: the
\* written documents that did not exist before the call.  (Not if an earlier
\* document of the batch cites one: then it exists, as a stub, when its turn
\* comes, and is missing from the list.)
CreatedExplained ==
  \A w \in Workers :
    /\ Undisturbed(w) /\ Plain(w) /\ call[w].op # "delete"
    /\ \A i, j \in DOMAIN Batch(w) : i < j => Batch(w)[j].id \notin Cites(Batch(w)[i])
    => report[w].fresh = ToSet(report[w].written) \ hist[w].before

\* "The report reflects what WOULD happen": an undisturbed dry run of one
\* document that names each thing once publishes nothing and counts the vertices
\* that are missing, of which it adds none.  (It is not true that a dry run does
\* not write: the one of an update drops the edges of its document, and does not
\* bring them back.)
DryRunForetells ==
  \A w \in Workers :
    /\ Undisturbed(w) /\ call[w].dry /\ call[w].op # "delete" /\ ~hist[w].rejected
    /\ Len(Batch(w)) = 1
    => LET d     == Batch(w)[1]
           links == Links[d.content]
           named == Cites(d) \cup {Strip[d.id]}
       IN /\ events[w] = {} /\ report[w].written = <<>>
          /\ Present \subseteq hist[w].before
          /\ Cardinality(named) = Len(links) + 1
               => report[w].created = Cardinality(named \ hist[w].before)

\* "Every event maps 1:1 onto a mutation recorded in the report", for a request
\* that nothing disturbed: each event it published for a document is of a
\* mutation it made.
EventsOfUndisturbed ==
  \A w \in Workers : Undisturbed(w) /\ Plain(w) => events[w] \subseteq hist[w].did

\* After an undisturbed ingest under EXACT_ID that rejected no document, every
\* document of the batch has its payload and all its edges, whatever failed or
\* half-finished requests had left behind: a retry repairs.  (Of an id with
\* blanks the payload is at one Paper and the edges are at another.)
RetryRepairs ==
  \A w \in Workers :
    /\ Undisturbed(w) /\ Plain(w) /\ call[w].op # "delete"
    /\ call[w].strategy = "exact_id" /\ ~hist[w].rejected
    => \A i \in DOMAIN Batch(w) :
         LET d == Batch(w)[i] IN
         /\ (\A j \in DOMAIN Batch(w) : j > i => Batch(w)[j].id # d.id)
              => graph[d.id] = d.content
         /\ \A v \in Cites(d) : <<d.id, v>> \in edges

\* An undisturbed update under EXACT_ID replaces: none of the document's old
\* edges is left.
UpdateReplaces ==
  \A w \in Workers :
    /\ Undisturbed(w) /\ Plain(w) /\ call[w].op = "update"
    /\ call[w].strategy = "exact_id" /\ ~hist[w].rejected
    => {e[2] : e \in {x \in edges : x[1] = Batch(w)[1].id}} = Cites(Batch(w)[1])

\* An undisturbed delete_document leaves no vertex and no edge of the document
\* and reports the deletion exactly if there was one.
DeleteExact ==
  \A w \in Workers : Undisturbed(w) /\ ~call[w].dry /\ call[w].op = "delete" =>
    LET d == Batch(w)[1].id IN
    /\ graph[d] = Absent
    /\ \A e \in edges : d \notin {e[1], e[2]}
    /\ report[w].deleted = {d} \cap hist[w].before

\* What publish_ingestion_report's documentation says: "consumers can never see
\* an event for something that did not happen".  ingest lists a document as
\* written, and as created, although the upsert of its Paper failed.
EventsAreReal ==
  \A w \in Workers : pc[w] = "done" => events[w] \subseteq hist[w].did

===============================================================================

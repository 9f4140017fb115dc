------------------------------ MODULE GraphLoad -------------------------------
(***************************************************************************)
(* The scripts that build the knowledge graph (hackathon/scripts):         *)
(* download_papers.py keeps arXiv's newest papers in papers.jsonl,         *)
(* build_kg.py loads the file into TigerGraph and embeds it, and           *)
(* embed_backfill.py embeds what has no vector yet.  An operator runs one  *)
(* after another and may run any of them again; each talks to its services *)
(* batch by batch, most of its failures are printed and passed over, and   *)
(* it may be killed between two batches.  Meanwhile papers are submitted   *)
(* and revised, and the MCP server deletes documents from the graph.       *)
(***************************************************************************)
EXTENDS Integers, Sequences, FiniteSets, SequencesExt, FiniteSetsExt, Functions

CONSTANTS
  Submissions, \* the ids of the papers, the newest first
  Texts,       \* title and abstract of a paper, by revision
  First,       \* the text each paper is submitted with
  Empty,       \* the texts without an abstract
  Short,       \* the texts whose abstract has fewer tokens than --min-tokens
  Authors,     \* the authors of each paper
  Concepts,    \* extract_concepts: the concepts of each text
  Stub,        \* the text of a vertex that only an edge created
  Count, PageSize, Limit, Batch, \* --count, PAGE_SIZE, --limit and --batch
  FetchTries, EmbedRetries,      \* attempts at a page; retries of an embedding
  MaxRuns, MaxFaults, MaxEdits   \* bounds: scripts, failures, edits from outside

Ids   == ToSet(Submissions)
Names == UNION (Range(Authors) \cup Range(Concepts))

ASSUME LoadAssumption ==
  /\ Submissions \in Seq(Ids) /\ IsInjective(Submissions)
  /\ Empty \subseteq Texts /\ Stub \notin Texts /\ First \in [Ids -> Texts \ Empty]
  /\ DOMAIN Authors = Ids /\ DOMAIN Concepts = Texts /\ IsFiniteSet(Names)
  /\ {Count, PageSize, Limit, Batch, FetchTries} \subseteq Nat \ {0}
  /\ {EmbedRetries, MaxRuns, MaxFaults, MaxEdits} \subseteq Nat
  /\ Short \subseteq Texts

VARIABLES
  arxiv,   \* how many papers are listed yet and the text of each
  file,    \* papers.jsonl (a missing one reads as an empty one: both load nothing)
  graph,   \* schema, papers, authors and concepts, edges, vectors
  script,  \* the script that runs
  lapses,  \* ledger: papers not built yet, not written by their last upsert or
           \* deleted since, and papers ever revised
  spent    \* counts runs, failures and edits against their bounds

vars == <<arxiv, file, graph, script, lapses, spent>>

-----------------------------------------------------------------------------
(* What a script is made of.                                               *)

\* opts: whether --min-tokens and a GOOGLE_API_KEY were given.
Idle == [kind |-> "none", stage |-> "none", page |-> 0, tries |-> 0, papers |-> <<>>,
         jobs |-> <<>>, opts |-> {}, clean |-> TRUE]

Paper(id) == [id |-> id, text |-> arxiv.text[id]]

\* What the file may hold: a paper without an abstract is left out.
Entry == [id : Ids, text : Texts \ Empty]

\* The elements of s that are in S, in their order.
Those(s, S) ==
  LET kept[i \in 0 .. Len(s)] == IF i = 0 THEN <<>>
                                ELSE IF s[i] \in S THEN Append(kept[i - 1], s[i]) ELSE kept[i - 1]
  IN kept[Len(s)]

Has(papers, id) == \E i \in DOMAIN papers : papers[i].id = id

\* Without the last, shorter batch.
BatchesFull(s) == [i \in 1 .. Len(s) \div Batch |-> SubSeq(s, (i - 1) * Batch + 1, i * Batch)]

Batches(s) ==
  [i \in 1 .. (Len(s) + Batch - 1) \div Batch |-> SubSeq(s, (i - 1) * Batch + 1, Min({i * Batch, Len(s)}))]

\* One upsert, or one request for embeddings, per batch of a kind's items.
Jobs(kind, items) ==
  LET b == Batches(items) IN [i \in DOMAIN b |-> [kind |-> kind, items |-> b[i]]]

Edges(p, names) == SetToSeq({<<p.id, n>> : n \in names})

\* Without the order of main: the edges first.
BuildJobsUnordered(papers, embed) ==
  LET edges == FlattenSeq([i \in DOMAIN papers |->
                             Edges(papers[i], Authors[papers[i].id] \cup Concepts[papers[i].text])])
  IN Jobs("edge", edges) \o Jobs("Paper", papers)
     \o (IF embed THEN Jobs("embed", papers) \o Jobs("PaperEmb", papers) ELSE <<>>)

\* main of build_kg.py: vertices before edges, vectors last and all at once if
\* it embeds, for which it needs a key.
BuildJobs(papers, embed) ==
  LET authors  == UNION {Authors[papers[i].id] : i \in DOMAIN papers}
      concepts == UNION {Concepts[papers[i].text] : i \in DOMAIN papers}
      written  == FlattenSeq([i \in DOMAIN papers |-> Edges(papers[i], Authors[papers[i].id])])
      about    == FlattenSeq([i \in DOMAIN papers |-> Edges(papers[i], Concepts[papers[i].text])])
  IN Jobs("Paper", papers) \o Jobs("name", SetToSeq(authors)) \o Jobs("name", SetToSeq(concepts))
     \o Jobs("edge", written) \o Jobs("edge", about)
     \o (IF embed THEN Jobs("embed", papers) \o Jobs("PaperEmb", papers) ELSE <<>>)

\* main of embed_backfill.py: each batch is embedded and then written.
BackfillJobs(papers) ==
  LET embed == Jobs("embed", papers)
      write == Jobs("PaperEmb", papers)
  IN [i \in 1 .. 2 * Len(embed) |-> IF i % 2 = 1 THEN embed[(i + 1) \div 2] ELSE write[i \div 2]]

Run(kind) == /\ script.kind = kind
             /\ script.stage = "run"

\* A new script, whose first steps read what the later ones work on.
Start(kind, opts, papers, jobs) ==
  /\ script.kind = "none"
  /\ spent.runs < MaxRuns
  /\ spent' = [spent EXCEPT !.runs = @ + 1]
  /\ script' = [Idle EXCEPT !.kind = kind, !.stage = "run", !.papers = papers, !.jobs = jobs, !.opts = opts]

Fault == /\ spent.faults < MaxFaults
         /\ spent' = [spent EXCEPT !.faults = @ + 1]

Edit == /\ spent.edits < MaxEdits
        /\ spent' = [spent EXCEPT !.edits = @ + 1]

\* Whatever runs is disturbed by what happens outside.
Disturbed == [script EXCEPT !.clean = script.kind = "none"]

-----------------------------------------------------------------------------
(* download_papers.py.                                                     *)

Listing == SubSeq(Submissions, Len(Submissions) - arxiv.listed + 1, Len(Submissions))

\* fetch_page: the entries of a page that have an abstract.
Page ==
  LET first == script.page * PageSize
      size  == Min({PageSize, Count - Len(script.papers)})
      ids   == SubSeq(Listing, first + 1, Min({first + size, Len(Listing)}))
  IN Those([i \in DOMAIN ids |-> Paper(ids[i])], Entry)

Download ==
  /\ \E opts \in SUBSET {"min-tokens"} : Start("download", opts, <<>>, <<>>)
  /\ UNCHANGED <<arxiv, file, graph, lapses>>

MorePages == /\ Len(script.papers) < Count
             /\ script.page < (Count + PageSize - 1) \div PageSize

\* Without the check for a paper that is there already.
FetchAll ==
  /\ Run("download") /\ MorePages
  /\ script' = [script EXCEPT !.papers = @ \o Page, !.page = @ + 1, !.tries = 0,
                              !.stage = IF Page = <<>> THEN "save" ELSE @]
  /\ UNCHANGED <<arxiv, file, graph, lapses, spent>>

\* The page after this one; papers that are there already are not replaced.
Fetch ==
  /\ Run("download") /\ MorePages
  /\ LET fresh == Those(Page, {p \in Entry : ~Has(script.papers, p.id)})
     IN script' = [script EXCEPT !.papers = @ \o fresh, !.page = @ + 1, !.tries = 0,
                                 !.stage = IF Page = <<>> THEN "save" ELSE @]
  /\ UNCHANGED <<arxiv, file, graph, lapses, spent>>

\* A failed attempt; after the last one the pages fetched so far are all.
FetchFails ==
  /\ Run("download") /\ MorePages
  /\ Fault
  /\ script' = [script EXCEPT !.tries = @ + 1, !.clean = @ /\ script.tries + 1 < FetchTries,
                              !.stage = IF script.tries + 1 < FetchTries THEN @ ELSE "save"]
  /\ UNCHANGED <<arxiv, file, graph, lapses>>

LastPage ==
  /\ Run("download") /\ ~MorePages
  /\ script' = [script EXCEPT !.stage = "save"]
  /\ UNCHANGED <<arxiv, file, graph, lapses, spent>>

\* With --min-tokens, only what is long enough.
Saved(papers) ==
  IF "min-tokens" \in script.opts THEN Those(papers, {p \in Entry : p.text \notin Short}) ELSE papers

\* The file is replaced, however little was fetched.
Save ==
  /\ script.stage = "save"
  /\ file' = Saved(script.papers)
  /\ script' = [script EXCEPT !.stage = "end"]
  /\ UNCHANGED <<arxiv, graph, lapses, spent>>

-----------------------------------------------------------------------------
(* build_kg.py and embed_backfill.py.                                      *)

Loaded == SubSeq(file, 1, Min({Limit, Len(file)}))

Types == {"types", "vector"}

\* create_schema makes what is missing.  A GSQL error in an answer is printed
\* and the script goes on; an exception ends it.  Without a key it embeds nothing.
Build ==
  \E embed \in BOOLEAN, opts \in SUBSET {"key"}, made \in SUBSET Types, skip, raised \in BOOLEAN :
    LET failed == ~skip /\ (raised \/ ~(Types \subseteq graph.schema \cup made)) IN
    /\ skip => made = {} /\ ~raised
    /\ opts # {} => embed  \* otherwise the key is not looked at
    /\ made \cap graph.schema = {}
    /\ script.kind = "none" /\ spent.runs < MaxRuns
    /\ failed => spent.faults < MaxFaults
    /\ spent' = [spent EXCEPT !.runs = @ + 1, !.faults = @ + IF failed THEN 1 ELSE 0]
    /\ graph' = [graph EXCEPT !.schema = @ \cup made]
    /\ script' = IF raised THEN script
                 ELSE [Idle EXCEPT !.kind = IF embed THEN "embedding build" ELSE "build", !.stage = "run",
                                   !.papers = Loaded, !.jobs = BuildJobs(Loaded, embed /\ "key" \in opts),
                                   !.opts = opts]
    /\ UNCHANGED <<arxiv, file, lapses>>

\* existing_embedded_ids: which text an existing vector is of does not matter.
Unembedded == Those(Loaded, {p \in Entry : p.id \notin DOMAIN graph.vectors})

\* Without the vertex type the listing query raises; without a key the script
\* ends with nothing embedded.
Backfill ==
  /\ "vector" \in graph.schema
  /\ \E opts \in SUBSET {"key"} :
       Start("backfill", opts, Loaded, IF "key" \in opts THEN BackfillJobs(Unembedded) ELSE <<>>)
  /\ UNCHANGED <<arxiv, file, graph, lapses>>

\* The texts that upserted papers bring, by id.
Brought(items) == [i \in {p.id : p \in items} |-> (CHOOSE p \in items : p.id = i).text]

\* f, and g where f has nothing.
Over(f, g) == [i \in DOMAIN f \cup DOMAIN g |-> IF i \in DOMAIN f THEN f[i] ELSE g[i]]

\* What is stored after upserting some items of a kind: an edge creates the
\* end points it lacks.
Stored(kind, items) ==
  CASE kind = "Paper"    -> [graph EXCEPT !.papers = Over(Brought(items), @)]
    [] kind = "PaperEmb" -> [graph EXCEPT !.vectors = Over(Brought(items), @)]
    [] kind = "name"     -> [graph EXCEPT !.names = @ \cup items]
    [] kind = "edge"     -> [graph EXCEPT !.edges = @ \cup items,
                                          !.names = @ \cup {e[2] : e \in items},
                                          !.papers = Over(@, [i \in {e[1] : e \in items} |-> Stub])]

Needs(kind) == IF kind = "PaperEmb" THEN "vector" ELSE "types"

\* upsert_vertices and upsert_edges: one batch.  A failed one may have written
\* any part of it; the error is printed and the next batch is sent.
Upsert ==
  /\ script.stage = "run" /\ script.jobs # <<>> /\ Head(script.jobs).kind # "embed"
  /\ LET job   == Head(script.jobs)
         items == ToSet(job.items)
     IN \E written \in SUBSET items, fails \in BOOLEAN :
          /\ IF Needs(job.kind) \in graph.schema
             THEN IF fails THEN Fault ELSE written = items /\ UNCHANGED spent
             ELSE fails /\ written = {} /\ UNCHANGED spent
          /\ graph' = Stored(job.kind, written)
          /\ script' = [script EXCEPT !.jobs = Tail(@), !.clean = @ /\ ~fails]
          /\ lapses' = IF job.kind # "Paper" THEN lapses
                       ELSE {l \in lapses : l[1] = "revised" \/ l[2] \notin {p.id : p \in written}}
                            \cup {<<"unwritten", p.id>> : p \in items \ written}
  /\ UNCHANGED <<arxiv, file>>

Embedding == /\ script.stage = "run"
             /\ script.jobs # <<>>
             /\ Head(script.jobs).kind = "embed"

Embed ==
  /\ Embedding
  /\ script' = [script EXCEPT !.jobs = Tail(@), !.tries = 0]
  /\ UNCHANGED <<arxiv, file, graph, lapses, spent>>

\* A failed request is sent again if its error may pass and retries are left;
\* otherwise nothing more is embedded or written.
EmbedFails ==
  /\ Embedding
  /\ Fault
  /\ \/ /\ script.tries < EmbedRetries
        /\ script' = [script EXCEPT !.tries = @ + 1]
     \/ script' = [script EXCEPT !.jobs = <<>>, !.clean = FALSE]
  /\ UNCHANGED <<arxiv, file, graph, lapses>>

\* What is left to do when these papers get no vector: of a build, the papers
\* that are embedded yet are written without them; a backfill raises.
Without(lost) ==
  LET rest   == Tail(script.jobs)
      write  == Those(rest, {j \in ToSet(rest) : j.kind = "PaperEmb"})
      papers == FlattenSeq([i \in DOMAIN write |-> write[i].items])
  IN IF script.kind = "backfill" THEN <<>>
     ELSE Those(rest, {j \in ToSet(rest) : j.kind = "embed"})
          \o Jobs("PaperEmb", Those(papers, Entry \ lost))

\* The service answers the first papers of a batch only.  A build does not
\* notice (its zip is not strict); it is a failure all the same.
EmbedShort ==
  /\ Embedding
  /\ Fault
  /\ LET items == Head(script.jobs).items IN
     \E n \in 0 .. Len(items) - 1 :
       script' = [script EXCEPT !.jobs = Without(ToSet(SubSeq(items, n + 1, Len(items)))),
                                !.tries = 0, !.clean = FALSE]
  /\ UNCHANGED <<arxiv, file, graph, lapses>>

Loads == /\ script.stage = "run"
         /\ script.kind # "download"
         /\ script.jobs = <<>>

Verify ==
  /\ Loads
  /\ script' = [script EXCEPT !.stage = "end"]
  /\ UNCHANGED <<arxiv, file, graph, lapses, spent>>

Exit ==
  /\ script.stage = "end"
  /\ script' = Idle
  /\ UNCHANGED <<arxiv, file, graph, lapses, spent>>

\* The operator stops a script; stopped while it writes, the file is cut.
Kill ==
  /\ script.stage \in {"run", "save"}
  /\ Fault
  /\ script' = Idle
  /\ IF script.stage = "save"
     THEN \E n \in 0 .. Len(Saved(script.papers)) : file' = SubSeq(Saved(script.papers), 1, n)
     ELSE UNCHANGED file
  /\ UNCHANGED <<arxiv, graph, lapses>>

-----------------------------------------------------------------------------
(* What happens outside.                                                   *)

Submit ==
  /\ Edit
  /\ arxiv.listed < Len(Submissions)
  /\ arxiv' = [arxiv EXCEPT !.listed = @ + 1]
  /\ script' = Disturbed
  /\ UNCHANGED <<file, graph, lapses>>

Revise ==
  /\ Edit
  /\ \E id \in ToSet(Listing), text \in Texts :
       /\ text # arxiv.text[id]
       /\ arxiv' = [arxiv EXCEPT !.text[id] = text]
       /\ lapses' = lapses \cup {<<"revised", id>>}
  /\ script' = Disturbed
  /\ UNCHANGED <<file, graph>>

\* delete_document of the MCP server: the vertex and its edges, not its vector.
Delete ==
  /\ Edit
  /\ \E id \in DOMAIN graph.papers :
       /\ graph' = [graph EXCEPT !.papers = Restrict(@, DOMAIN @ \ {id}),
                                 !.edges = {e \in @ : e[1] # id}]
       /\ lapses' = lapses \cup {<<"deleted", id>>}
  /\ script' = Disturbed
  /\ UNCHANGED <<arxiv, file>>

Init ==
  /\ \E n \in 1 .. Len(Submissions) : arxiv = [listed |-> n, text |-> First]
  /\ file = <<>>
  /\ graph = [schema |-> {}, papers |-> <<>>, names |-> {}, edges |-> {}, vectors |-> <<>>]
  /\ script = Idle
  /\ lapses = {"unbuilt"} \X Ids
  /\ spent = [runs |-> 0, faults |-> 0, edits |-> 0]

Next ==
  \/ Download \/ Fetch \/ FetchFails \/ LastPage \/ Save
  \/ Build \/ Backfill \/ Upsert \/ Embed \/ EmbedFails \/ EmbedShort \/ Verify
  \/ Exit \/ Kill
  \/ Submit \/ Revise \/ Delete

Spec == Init /\ [][Next]_vars

-----------------------------------------------------------------------------
(* Properties.                                                             *)

Upserts == {"Paper", "PaperEmb", "name", "edge"}

TypeOK ==
  /\ arxiv.listed \in 0 .. Len(Submissions) /\ arxiv.text \in [Ids -> Texts]
  /\ ToSet(file) \cup ToSet(script.papers) \subseteq Entry
  /\ IsInjective([i \in DOMAIN file |-> file[i].id])
  /\ graph.schema \subseteq Types
  /\ DOMAIN graph.papers \cup DOMAIN graph.vectors \subseteq Ids
  /\ Range(graph.papers) \subseteq (Texts \ Empty) \cup {Stub}
  /\ Range(graph.vectors) \subseteq Texts \ Empty
  /\ \A e \in graph.edges : e[1] \in DOMAIN graph.papers /\ e[2] \in graph.names
  /\ script.kind \in {"none", "download", "build", "embedding build", "backfill"}
  /\ script.opts \subseteq {"min-tokens", "key"}
  /\ script.stage \in {"none", "run", "save", "end"} /\ script.tries \in 0 .. EmbedRetries + FetchTries
  /\ \A i \in DOMAIN script.jobs : script.jobs[i].kind \in Upserts \cup {"embed"}
  /\ lapses \subseteq {"unbuilt", "unwritten", "deleted", "revised"} \X Ids

Ends(kind) == /\ script.kind = kind
              /\ script.stage = "end"
              /\ script.clean

Linked(p) == \A n \in Authors[p.id] \cup Concepts[p.text] : <<p.id, n>> \in graph.edges

\* A run that nothing failed in or disturbed has done its work, whatever runs
\* that failed, were killed or saw other revisions left in the file and in the
\* graph: a download has arXiv's newest papers, each once, all of them or,
\* given --min-tokens, the long ones; a build has every paper of the file in
\* the graph with the file's text, its authors and its concepts, and its vector
\* if it embeds and has a key; after a backfill with a key every paper of the
\* file has a vector.  Without a key the scripts end normally with nothing
\* embedded.  An answer that is short of embeddings counts as a failure, also
\* where the script does not notice it.
RunsComplete ==
  /\ Ends("download") /\ Range(arxiv.text) \cap Empty = {} =>
       file = Saved([i \in 1 .. Min({Count, arxiv.listed}) |-> Paper(Listing[i])])
  /\ \A p \in ToSet(script.papers) :
       /\ Ends("build") \/ Ends("embedding build") =>
            p.id \in DOMAIN graph.papers /\ graph.papers[p.id] = p.text /\ Linked(p)
       /\ Ends("embedding build") /\ "key" \in script.opts =>
            p.id \in DOMAIN graph.vectors /\ graph.vectors[p.id] = p.text
       /\ Ends("backfill") /\ "key" \in script.opts => p.id \in DOMAIN graph.vectors

Suffered(id, what) == <<what, id>> \in lapses

\* What is wrong in the graph has a cause, since vertices are written before
\* edges: a paper that is a mere stub was not written by its last upsert or was
\* deleted since, and so was one that only has a vector, unless no build has
\* come to it yet; a vector, an author
\* or a concept of another text than the paper's needs a revision.
DefectHasCause ==
  \A id \in Ids :
    LET held == id \in DOMAIN graph.papers
        real == held /\ graph.papers[id] # Stub
    IN /\ held /\ ~real => Suffered(id, "unwritten") \/ Suffered(id, "deleted")
       /\ id \in DOMAIN graph.vectors /\ ~held => Suffered(id, "unbuilt") \/ Suffered(id, "unwritten") \/ Suffered(id, "deleted")
       /\ real /\ id \in DOMAIN graph.vectors /\ graph.vectors[id] # graph.papers[id] => Suffered(id, "revised")
       /\ \A e \in graph.edges :
            real /\ e[1] = id /\ e[2] \notin Authors[id] \cup Concepts[graph.papers[id]] =>
              Suffered(id, "revised")

=============================================================================

----------------------------- MODULE MCToolServer -----------------------------
(* Model-checking instance of ToolServer: two threads of the pool and one    *)
(* job, batches that pair a search with a mutation and ones that search      *)
(* afterwards, one failing call, one mutation by the HTTP server, a restart. *)
EXTENDS ToolServer

CONSTANTS w1, w2, j1, d1, d2

MCThreads == {w1, w2}
MCJobs    == {j1}
MCDocs    == {d1, d2}

Search     == [tool |-> "search", docs |-> {}]
Ingest(D)  == [tool |-> "ingest", docs |-> D]
IngestJob  == [tool |-> "ingest_async", docs |-> MCDocs]
Delete(d)  == [tool |-> "delete", docs |-> {d}]
MCBatches  == {<<Search>>, <<Search, IngestJob>>, <<Ingest({d1}), Delete(d1)>>}

=============================================================================

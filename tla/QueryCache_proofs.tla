--------------------------- MODULE QueryCache_proofs ---------------------------
(***************************************************************************)
(* Proofs about QueryCache, for any set of threads, keys and graphs, any   *)
(* time to live and any capacity.                                          *)
(*                                                                         *)
(* StalenessBound needs to know, of a promoted entry, that its timestamp   *)
(* is at most TTL after the payload was stored, and of a thread about to   *)
(* promote that the same holds of the clock reading it carries (AgeInv).   *)
(* FlushHolds needs the whole path a payload takes between the tiers to be *)
(* as recent as the flush (FlushInv), and that a flush nobody overlapped   *)
(* finds the first tier still free of that graph when it clears the second.*)
(***************************************************************************)
EXTENDS QueryCache, TLAPS

USE DEF Steps

\* Every variable keeps its type, and a thread in the middle of a search or of
\* a flush knows its key or its graph (cache.py, storage.py, mcp_server.py).
THEOREM TypeCorrect == Spec => []TypeOK
<1> USE CacheConstants DEF TypeOK, Scopes, Job, Entry, Row
<1>1. Init => TypeOK
  BY DEF Init, NoJob
<1>2. TypeOK /\ [Next]_vars => TypeOK'
  <2> SUFFICES ASSUME TypeOK, [Next]_vars PROVE TypeOK'
    OBVIOUS
  <2> USE DEF Finish, NoJob
  <2>1. ASSUME NEW t \in Threads, NEW k \in Keys, LookupMemory(t, k) PROVE TypeOK'
    BY <2>1 DEF LookupMemory
  <2>2. ASSUME NEW t \in Threads, NEW g \in Graphs, RequestInvalidate(t, g) PROVE TypeOK'
    BY <2>2 DEF RequestInvalidate
  <2>3. ASSUME NEW t \in Threads, ReadRow(t) PROVE TypeOK'
    BY <2>3 DEF ReadRow, FreshRow
  <2>4. ASSUME NEW t \in Threads, DeleteRow(t) PROVE TypeOK'
    BY <2>4 DEF DeleteRow
  <2>5. ASSUME NEW t \in Threads, Promote(t) PROVE TypeOK'
    BY <2>5 DEF Promote
  <2>6. ASSUME NEW t \in Threads, Retrieve(t) PROVE TypeOK'
    BY <2>6 DEF Retrieve
  <2>7. ASSUME NEW t \in Threads, SetMemory(t) PROVE TypeOK'
    BY <2>7 DEF SetMemory
  <2>8. ASSUME NEW t \in Threads, SetRow(t) PROVE TypeOK'
    BY <2>8 DEF SetRow
  <2>9. ASSUME NEW t \in Threads, SearchFails(t) PROVE TypeOK'
    BY <2>9 DEF SearchFails
  <2>10. ASSUME NEW t \in Threads, WriteGraph(t) PROVE TypeOK'
    BY <2>10 DEF WriteGraph
  <2>11. ASSUME NEW t \in Threads, ClearMemory(t) PROVE TypeOK'
    <3>1. floor' \in [Scopes -> Nat] /\ alone' \in Threads \cup {None}
      BY <2>11 DEF ClearMemory, Vouch, Leave
    <3>2. CASE job[t].scope = None
      <4>1. memory' = [k \in Keys |-> None] /\ UNCHANGED <<clock, boot, version, rows>>
        BY <2>11, <3>2 DEF ClearMemory
      <4>2. NoJob \in Job
        OBVIOUS
      <4>3. pc' = [pc EXCEPT ![t] = "idle"] /\ job' = [job EXCEPT ![t] = NoJob]
        BY <2>11, <3>2 DEF ClearMemory
      <4>4. pc' \in [Threads -> Steps] /\ job' \in [Threads -> Job]
        BY <4>2, <4>3
      <4>5. /\ \A u \in Threads : pc'[u] \in Steps \ {"idle", "clearMemory", "clearRows"}
                                 => job'[u].key \in Keys
            /\ \A u \in Threads : pc'[u] = "clearRows" => job'[u].scope \in Graphs
        BY <4>3
      <4>6. QED
        BY <3>1, <4>1, <4>4, <4>5
    <3>3. CASE job[t].scope # None
      BY <2>11, <3>1, <3>3, SMTT(40) DEF ClearMemory
    <3>4. QED
      BY <3>2, <3>3
  <2>12. ASSUME NEW t \in Threads, ClearRows(t) PROVE TypeOK'
    BY <2>12 DEF ClearRows, Vouch, Leave
  <2>13. CASE ServerWrite
    BY <2>13 DEF ServerWrite
  <2>14. CASE Tick
    BY <2>14 DEF Tick
  <2>15. CASE Restart
    <3>1. (clock' = clock /\ boot' = boot) \/ (clock' \in Readings /\ boot' = boot + 1)
      BY <2>15 DEF Restart
    <3>2. clock' \in Nat /\ boot' \in Nat
      <4>1. clock \in Nat /\ boot \in Nat /\ (\A r \in Readings : r \in Nat)
        OBVIOUS
      <4>2. boot + 1 \in Nat
        BY <4>1
      <4>3. QED
        BY <3>1, <4>1, <4>2, Zenon
    <3>3. QED
      BY <2>15, <3>2 DEF Restart
  <2>16. CASE UNCHANGED vars
    BY <2>16 DEF vars
  <2>17. QED
    BY <2>1, <2>2, <2>3, <2>4, <2>5, <2>6, <2>7, <2>8, <2>9, <2>10, <2>11, <2>12,
       <2>13, <2>14, <2>15, <2>16 DEF Next
<1>3. QED
  BY <1>1, <1>2, PTL DEF Spec

-----------------------------------------------------------------------------

\* What makes StalenessBound inductive.
AgeInv ==
  /\ \A k \in Keys : memory[k] # None => memory[k].ts <= memory[k].born + TTL
  /\ \A t \in Threads : job[t].now <= clock
  /\ \A t \in Threads : pc[t] = "promote" => job[t].now <= job[t].born + TTL

\* No answer of the cache was stored more than twice the time to live ago in the
\* boot it was stored in, and one from an earlier boot is gone once the clock reads
\* two times to live more than it did then: the span a promotion adds to the age of
\* a row (cache.py:49-65) is bounded, whatever the clock reads after a boot.
THEOREM Staleness == Spec => []StalenessBound
<1> USE CacheConstants
<1>1. Init => AgeInv
  BY DEF Init, AgeInv, NoJob
<1>2. TypeOK /\ AgeInv /\ [Next]_vars => AgeInv'
  <2> SUFFICES ASSUME TypeOK, AgeInv, [Next]_vars PROVE AgeInv'
    OBVIOUS
  <2> USE DEF AgeInv, TypeOK, Entry, Row, Job, Scopes
  <2>1. ASSUME NEW t \in Threads, NEW k \in Keys, LookupMemory(t, k) PROVE AgeInv'
    BY <2>1 DEF LookupMemory, NoJob
  <2>2. ASSUME NEW t \in Threads, NEW g \in Graphs, RequestInvalidate(t, g) PROVE AgeInv'
    BY <2>2 DEF RequestInvalidate, NoJob
  <2>3. ASSUME NEW t \in Threads, ReadRow(t) PROVE AgeInv'
    BY <2>3 DEF ReadRow, FreshRow
  <2>4. ASSUME NEW t \in Threads, DeleteRow(t) PROVE AgeInv'
    BY <2>4 DEF DeleteRow
  <2>5. ASSUME NEW t \in Threads, Promote(t) PROVE AgeInv'
    BY <2>5 DEF Promote, Finish, NoJob
  <2>6. ASSUME NEW t \in Threads, Retrieve(t) PROVE AgeInv'
    BY <2>6 DEF Retrieve
  <2>7. ASSUME NEW t \in Threads, SetMemory(t) PROVE AgeInv'
    BY <2>7 DEF SetMemory
  <2>8. ASSUME NEW t \in Threads, SetRow(t) PROVE AgeInv'
    BY <2>8 DEF SetRow, Finish, NoJob
  <2>9. ASSUME NEW t \in Threads, SearchFails(t) PROVE AgeInv'
    BY <2>9 DEF SearchFails, Finish, NoJob
  <2>10. ASSUME NEW t \in Threads, WriteGraph(t) PROVE AgeInv'
    BY <2>10 DEF WriteGraph
  <2>11. ASSUME NEW t \in Threads, ClearMemory(t) PROVE AgeInv'
    <3>1. CASE job[t].scope = None
      BY <2>11, <3>1, SMTT(40) DEF ClearMemory, Finish, NoJob
    <3>2. CASE job[t].scope # None
      BY <2>11, <3>2 DEF ClearMemory
    <3>3. QED
      BY <3>1, <3>2
  <2>12. ASSUME NEW t \in Threads, ClearRows(t) PROVE AgeInv'
    BY <2>12 DEF ClearRows, Finish, NoJob
  <2>13. CASE ServerWrite
    BY <2>13 DEF ServerWrite
  <2>14. CASE Tick
    BY <2>14 DEF Tick
  <2>15. CASE Restart
    <3>1. clock' \in Nat
      BY <2>15 DEF Restart
    <3>2. QED
      BY <2>15, <3>1 DEF Restart, NoJob
  <2>16. CASE UNCHANGED vars
    BY <2>16 DEF vars
  <2>17. QED
    BY <2>1, <2>2, <2>3, <2>4, <2>5, <2>6, <2>7, <2>8, <2>9, <2>10, <2>11, <2>12,
       <2>13, <2>14, <2>15, <2>16 DEF Next
<1>3. TypeOK /\ AgeInv => StalenessBound
  BY DEF TypeOK, AgeInv, StalenessBound, Answers, FreshEntry, FreshRow, Entry, Row
<1>4. QED
  BY <1>1, <1>2, <1>3, TypeCorrect, PTL DEF Spec

-----------------------------------------------------------------------------

\* What makes FlushHolds inductive.
Recent(d) == d >= floor[Default]

FlushInv ==
  /\ \A s \in Scopes : floor[s] <= version
  /\ \A k \in Keys : GraphOf[k] = Default /\ memory[k] # None =>
       memory[k].graph = Default /\ Recent(memory[k].data)
  /\ \A k \in Keys : rows[k] # None => rows[k].graph = GraphOf[k]
  /\ \A k \in Keys : GraphOf[k] = Default /\ rows[k] # None => Recent(rows[k].data)
  /\ \A t \in Threads :
       pc[t] \in {"promote", "setMemory", "setRow"} /\ GraphOf[job[t].key] = Default =>
         Recent(job[t].data)
  /\ alone # None =>
       /\ pc[alone] \in {"clearMemory", "clearRows"}
       /\ OthersIdle(alone)
       /\ pc[alone] = "clearRows" =>
            \A k \in Keys : memory[k] # None => memory[k].graph # job[alone].scope

\* An invalidate(graph_id) of the default graph that no lookup overlaps flushes
\* both tiers for good (cache.py:92-110, storage.py:286-290).
THEOREM Flush == Spec => []FlushHolds
<1> USE CacheConstants DEF Recent
<1>1. Init => FlushInv
  BY DEF Init, FlushInv, NoJob
<1>2. TypeOK /\ FlushInv /\ [Next]_vars => FlushInv'
  <2> SUFFICES ASSUME TypeOK, FlushInv, [Next]_vars PROVE FlushInv'
    OBVIOUS
  <2> USE DEF FlushInv, TypeOK, Entry, Row, Job, Scopes, OthersIdle
  <2>1. ASSUME NEW t \in Threads, NEW k \in Keys, LookupMemory(t, k) PROVE FlushInv'
    BY <2>1 DEF LookupMemory, NoJob
  <2>2. ASSUME NEW t \in Threads, NEW g \in Graphs, RequestInvalidate(t, g) PROVE FlushInv'
    BY <2>2 DEF RequestInvalidate, NoJob
  <2>3. ASSUME NEW t \in Threads, ReadRow(t) PROVE FlushInv'
    BY <2>3 DEF ReadRow, FreshRow
  <2>4. ASSUME NEW t \in Threads, DeleteRow(t) PROVE FlushInv'
    BY <2>4 DEF DeleteRow
  <2>5. ASSUME NEW t \in Threads, Promote(t) PROVE FlushInv'
    BY <2>5 DEF Promote, Finish, NoJob
  <2>6. ASSUME NEW t \in Threads, Retrieve(t) PROVE FlushInv'
    BY <2>6 DEF Retrieve
  <2>7. ASSUME NEW t \in Threads, SetMemory(t) PROVE FlushInv'
    BY <2>7 DEF SetMemory
  <2>8. ASSUME NEW t \in Threads, SetRow(t) PROVE FlushInv'
    BY <2>8 DEF SetRow, Finish, NoJob
  <2>9. ASSUME NEW t \in Threads, SearchFails(t) PROVE FlushInv'
    BY <2>9 DEF SearchFails, Finish, NoJob
  <2>10. ASSUME NEW t \in Threads, WriteGraph(t) PROVE FlushInv'
    BY <2>10 DEF WriteGraph
  <2>11. ASSUME NEW t \in Threads, ClearMemory(t) PROVE FlushInv'
    BY <2>11 DEF ClearMemory, Vouch, Leave, Finish, NoJob
  <2>12. ASSUME NEW t \in Threads, ClearRows(t) PROVE FlushInv'
    BY <2>12 DEF ClearRows, Vouch, Leave, Finish, NoJob
  <2>13. CASE ServerWrite
    BY <2>13 DEF ServerWrite
  <2>14. CASE Tick
    BY <2>14 DEF Tick
  <2>15. CASE Restart
    BY <2>15 DEF Restart, NoJob
  <2>16. CASE UNCHANGED vars
    BY <2>16 DEF vars
  <2>17. QED
    BY <2>1, <2>2, <2>3, <2>4, <2>5, <2>6, <2>7, <2>8, <2>9, <2>10, <2>11, <2>12,
       <2>13, <2>14, <2>15, <2>16 DEF Next
<1>3. TypeOK /\ FlushInv => FlushHolds
  BY DEF TypeOK, FlushInv, FlushHolds, Answers, FreshEntry, FreshRow, Entry, Row
<1>4. QED
  BY <1>1, <1>2, <1>3, TypeCorrect, PTL DEF Spec

=============================================================================

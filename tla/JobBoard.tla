------------------------------- MODULE JobBoard -------------------------------
(***************************************************************************)
(* What a board of background jobs promises to whoever polls it, however   *)
(* the jobs are carried out: a job that was accepted works through its own *)
(* items and nothing else, ends at most once, is called completed only     *)
(* when it has been through all of them, which does not say that each of   *)
(* them succeeded, and an ended job never changes again.                   *)
(***************************************************************************)
CONSTANTS Jobs, Items

VARIABLES
  status,   \* what a poll of the job answers
  items,    \* what the job was asked to do
  tried     \* what it has been through

board == <<status, items, tried>>

Init ==
  /\ status = [j \in Jobs |-> "none"]
  /\ items = [j \in Jobs |-> {}]
  /\ tried = [j \in Jobs |-> {}]

Accept(j) ==
  /\ status[j] = "none"
  /\ status' = [status EXCEPT ![j] = "running"]
  /\ \E S \in SUBSET Items : items' = [items EXCEPT ![j] = S]
  /\ UNCHANGED tried

Try(j) ==
  /\ status[j] = "running"
  /\ \E i \in items[j] : tried' = [tried EXCEPT ![j] = @ \cup {i}]
  /\ UNCHANGED <<status, items>>

End(j) ==
  /\ status[j] = "running"
  /\ \/ /\ tried[j] = items[j]
        /\ status' = [status EXCEPT ![j] = "completed"]
     \/ status' = [status EXCEPT ![j] = "failed"]
  /\ UNCHANGED <<items, tried>>

Next == \E j \in Jobs : Accept(j) \/ Try(j) \/ End(j)

Spec == Init /\ [][Next]_board

=============================================================================

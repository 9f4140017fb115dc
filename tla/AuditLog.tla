------------------------------- MODULE AuditLog -------------------------------
(***************************************************************************)
(* What an audit trail promises, whoever writes it and however often the   *)
(* writer is restarted: it starts empty, a step adds at most one entry at  *)
(* its end, under an id no other entry has, and nothing stored ever        *)
(* changes, moves or disappears.  EventBus implements it with event_log.   *)
(***************************************************************************)
EXTENDS Naturals, Sequences

CONSTANT Event  \* what can be entered; each has a field id

VARIABLE log

Init == log = <<>>

Enter(e) ==
  /\ \A i \in DOMAIN log : log[i].id # e.id
  /\ log' = Append(log, e)

Next == \E e \in Event : Enter(e)

Spec == Init /\ [][Next]_log

=============================================================================

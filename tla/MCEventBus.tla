------------------------------ MODULE MCEventBus ------------------------------
(* Model-checking instance of EventBus: two publishing threads, one client   *)
(* that asks for replay and one that does not, a history and a queue that    *)
(* both overflow within the bounds, one restart with one more event.         *)
EXTENDS EventBus

CONSTANTS p1, p2, s1, s2

MCPublishers  == {p1, p2}
MCSubscribers == {s1, s2}
MCReplays     == {s1}
MCMaxEvents   == <<3, 1>>
MCMaxCalls    == <<4, 2>>

=============================================================================

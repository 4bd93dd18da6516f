------------------------- MODULE MCOutboxVerification --------------------------
(* One event, one worker process, one connection being opened.                  *)
EXTENDS OutboxVerification

CONSTANTS e1, p1, w1

MCEvents == {e1}
MCProcesses == {p1}
MCWorkerIds == {w1}
MCLabel == [p \in MCProcesses |-> w1]
=============================================================================

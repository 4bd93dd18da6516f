------------------------------- MODULE MCOutbox --------------------------------
(* The instance of Outbox for TLC: processes p1 and p2 share one worker_id,     *)
(* which is what a restart under the same label looks like.                     *)
EXTENDS Outbox

CONSTANTS e1, p1, p2, w1

MCEvents == {e1}
MCProcesses == {p1, p2}
MCWorkerIds == {w1}
MCSharedLabel == [p \in MCProcesses |-> w1]
=============================================================================

------------------------------ MODULE JobLifecycle ------------------------------
(***************************************************************************)
(* What the durable-job engine promises its users, without versions,       *)
(* snapshots, lease rows, clocks or evidence: a job has one owner while it *)
(* runs; only that owner moves its progress, each partition is done at     *)
(* most once, a takeover keeps what was done, and the statuses follow the  *)
(* state machine of domain/jobs.py as the repository admits it.            *)
(***************************************************************************)
EXTENDS Integers

CONSTANTS Jobs, Workers, Partitions, TotalUnits, RetryCeiling, None

VARIABLES
    status,     \* "absent" until submitted
    owner,      \* the worker that runs the job, or None
    progress,   \* completed units
    retries,    \* retries charged so far
    done        \* partitions whose effect is committed

vars == <<status, owner, progress, retries, done>>

Init ==
    /\ status = [j \in Jobs |-> "absent"]
    /\ owner = [j \in Jobs |-> None]
    /\ progress = [j \in Jobs |-> 0]
    /\ retries = [j \in Jobs |-> 0]
    /\ done = [j \in Jobs |-> {}]

Submit(j) ==
    /\ status[j] = "absent"
    /\ status' = [status EXCEPT ![j] = "queued"]
    /\ UNCHANGED <<owner, progress, retries, done>>

\* A worker starts waiting work, or takes running work over.
Own(j, w) ==
    /\ status[j] \in {"queued", "retrying", "running"}
    /\ status' = [status EXCEPT ![j] = "running"]
    /\ owner' = [owner EXCEPT ![j] = w]
    /\ UNCHANGED <<progress, retries, done>>

\* At most one partition is added, and never one that is done already.
DoneGrows(j) ==
    \/ done' = done
    \/ \E p \in Partitions \ done[j] : done' = [done EXCEPT ![j] = @ \cup {p}]

\* The owner advances a running job.
Advance(j, units) ==
    /\ status[j] = "running" /\ owner[j] \in Workers
    /\ progress[j] <= units /\ units < TotalUnits
    /\ progress' = [progress EXCEPT ![j] = units]
    /\ DoneGrows(j)
    /\ UNCHANGED <<status, owner, retries>>

\* The owner completes the job, its last partition included.
Complete(j) ==
    /\ status[j] = "running" /\ owner[j] \in Workers
    /\ status' = [status EXCEPT ![j] = "completed"]
    /\ owner' = [owner EXCEPT ![j] = None]
    /\ progress' = [progress EXCEPT ![j] = TotalUnits]
    /\ DoneGrows(j)
    /\ UNCHANGED retries

\* The owner gives the job up; a retry is charged to the budget.
Yield(j, to) ==
    /\ status[j] = "running" /\ owner[j] \in Workers
    /\ to \in {"retrying", "failed", "paused", "cancelled"}
    /\ to = "retrying" => retries[j] < RetryCeiling
    /\ status' = [status EXCEPT ![j] = to]
    /\ owner' = [owner EXCEPT ![j] = None]
    /\ retries' = [retries EXCEPT ![j] = IF to = "retrying" THEN @ + 1 ELSE @]
    /\ UNCHANGED <<progress, done>>

\* An operator requeues failed or paused work, or cancels queued work.
Operate(j, to) ==
    /\ <<status[j], to>> \in {<<"failed", "queued">>, <<"paused", "queued">>,
                              <<"queued", "cancelled">>}
    /\ status' = [status EXCEPT ![j] = to]
    /\ UNCHANGED <<owner, progress, retries, done>>

Next == \E j \in Jobs :
    \/ Submit(j)
    \/ \E w \in Workers : Own(j, w)
    \/ \E u \in 0..TotalUnits : Advance(j, u)
    \/ Complete(j)
    \/ \E to \in {"retrying", "failed", "paused", "cancelled"} : Yield(j, to)
    \/ \E to \in {"queued", "cancelled"} : Operate(j, to)

Spec == Init /\ [][Next]_vars
=============================================================================

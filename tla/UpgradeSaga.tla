------------------------------ MODULE UpgradeSaga ------------------------------
(***************************************************************************)
(* The upgrade orchestrator of upgrade/orchestrator.py: one approved plan  *)
(* over several resources, applied in order and rolled back in reverse,    *)
(* with a journal in which every write is a transaction of its own.  The   *)
(* journal and the resources are never written together, so a process can  *)
(* die between any two of the steps below.                                 *)
(*                                                                         *)
(* A resource changes in the way of its adapter: an application, an       *)
(* object catalog or a configuration is a directory, and two renames apart *)
(* the current one goes away and the staged one comes in; a SQLite         *)
(* database migrates in place and is restored from a copy; a PostgreSQL    *)
(* database migrates up and down; a pack is installed in one transaction.  *)
(***************************************************************************)
EXTENDS Integers, FiniteSets

CONSTANTS
    StepCount,      \* resources in the plan
    Kind,           \* the adapter of each position
    Actors,         \* operators
    Executors,      \* processes that may be inside execute
    CrashBound,     \* bound: processes that die
    None

Adapters == {"application", "sqlite", "postgres", "object_store", "configuration", "pack"}
Directories == {"application", "object_store", "configuration"}

ASSUME ConstantsAssumption ==
    /\ StepCount \in Nat \ {0}
    /\ Kind \in [1 .. StepCount -> Adapters]
    /\ CrashBound \in Nat
    /\ None \notin Actors \cup {"source"}

Steps == 1 .. StepCount

VARIABLES
    run,        \* upgrade_runs
    steps,      \* upgrade_steps: the journalled status of each position
    current,    \* what each resource is
    rollback,   \* the retained copy each adapter restores from
    exec,       \* where each process is
    crashes

vars == <<run, steps, current, rollback, exec, crashes>>

RunStatuses == {"none", "prepared", "approved", "running", "rolling_back", "rolled_back",
                "completed", "failed"}
StepStatuses == {"prepared", "applying", "applied", "verified", "rolled_back"}
\* "missing": between two renames; "partial": migrations that stopped on the way, or, when
\* "touched", before the first of them moved the version; "drifted": the source changed after
\* its preflight.
Contents == {"source", "drifted", "missing", "touched", "partial", "target"}
Places == {"idle", "step", "apply", "switch", "raised", "record", "verify",
           "rollback", "undo", "restore", "undone", "fail"}

Init ==
    /\ run = [status |-> "none", prepared_by |-> None, approved_by |-> None, executed_by |-> None]
    /\ steps = [n \in Steps |-> "prepared"]
    /\ current = [n \in Steps |-> "source"]
    /\ rollback = [n \in Steps |-> None]
    /\ exec = [e \in Executors |-> [at |-> "idle", position |-> 1]]
    /\ crashes = 0

At(e, place) == exec[e].at = place
Go(e, place, n) == exec' = [exec EXCEPT ![e] = [at |-> place, position |-> n]]
Journal(n, status) == steps' = [steps EXCEPT ![n] = status]

-----------------------------------------------------------------------------
\* Preparation

\* Every adapter's preflight, then the journal rows.  A database's copy is made here.
Prepare(actor) ==
    /\ run.status = "none"
    /\ \A n \in Steps : current[n] = "source"
    /\ run' = [run EXCEPT !.status = "prepared", !.prepared_by = actor]
    /\ rollback' = [n \in Steps |-> IF Kind[n] \in Directories THEN None ELSE "source"]
    /\ UNCHANGED <<steps, current, exec, crashes>>

Approve(actor) ==
    /\ run.status = "prepared"
    /\ run.prepared_by # actor
    /\ run' = [run EXCEPT !.status = "approved", !.approved_by = actor]
    /\ UNCHANGED <<steps, current, rollback, exec, crashes>>

\* The live system (or, for a pack, an operator) writes to a resource that is not being upgraded yet.  Of a PostgreSQL
\* database only the revision is compared, and that does not change.
Drift(n) ==
    /\ run.status \in {"prepared", "approved", "running"}
    /\ Kind[n] # "postgres"
    /\ steps[n] = "prepared" /\ current[n] = "source"
    /\ current' = [current EXCEPT ![n] = "drifted"]
    /\ UNCHANGED <<run, steps, rollback, exec, crashes>>

-----------------------------------------------------------------------------
\* Adapters

\* What an adapter finds out about a step that was interrupted.
RecoverDirectory(n) ==
    IF current[n] = "source" /\ rollback[n] = None THEN "not_applied"
    ELSE IF rollback[n] = "source" /\ current[n] \in {"missing", "target"} THEN "applied"
    ELSE "uncertain"

RecoverApplication(n) ==
    IF current[n] = "missing" /\ rollback[n] = None THEN "not_applied" ELSE RecoverDirectory(n)

\* A database whose version lies above the source's is taken for applied, however far it got;
\* one that changed under the source's version is uncertain.
RecoverSQLite(n) ==
    IF current[n] = "source" THEN "not_applied"
    ELSE IF current[n] \in {"partial", "target"} THEN "applied" ELSE "uncertain"

RecoverPostgres(n) ==
    IF current[n] = "source" THEN "not_applied"
    ELSE IF current[n] = "target" THEN "applied" ELSE "uncertain"

RecoverPack(n) ==
    IF current[n] = "source" THEN "not_applied"
    ELSE IF current[n] = "target" THEN "applied" ELSE "uncertain"

Recover(n) ==
    CASE Kind[n] = "application" -> RecoverApplication(n)
      [] Kind[n] = "sqlite" -> RecoverSQLite(n)
      [] Kind[n] = "postgres" -> RecoverPostgres(n)
      [] Kind[n] = "pack" -> RecoverPack(n)
      [] OTHER -> RecoverDirectory(n)

\* apply, from a source that is still what its preflight saw: the first of two renames, ...
ApplyDirectory(e, n) ==
    /\ Kind[n] \in Directories
    /\ rollback[n] = None
    /\ rollback' = [rollback EXCEPT ![n] = "source"]
    /\ current' = [current EXCEPT ![n] = "missing"]
    /\ Go(e, "switch", n)

\* ... migrations that may stop on the way, ...
ApplySQLite(e, n) ==
    /\ Kind[n] = "sqlite"
    /\ \/ current' = [current EXCEPT ![n] = "target"] /\ Go(e, "record", n)
       \/ /\ current' \in {[current EXCEPT ![n] = "touched"], [current EXCEPT ![n] = "partial"]}
          /\ Go(e, "raised", n)
    /\ UNCHANGED rollback

\* ... in a process whose failure is reported even when it got to the end, ...
ApplyPostgres(e, n) ==
    /\ Kind[n] = "postgres"
    /\ \/ current' = [current EXCEPT ![n] = "target"] /\ (Go(e, "record", n) \/ Go(e, "raised", n))
       \/ current' = [current EXCEPT ![n] = "partial"] /\ Go(e, "raised", n)
    /\ UNCHANGED rollback

\* ... or one transaction.
ApplyPack(e, n) ==
    /\ Kind[n] = "pack"
    /\ current' = [current EXCEPT ![n] = "target"]
    /\ Go(e, "record", n)
    /\ UNCHANGED rollback

\* rollback: the first of two renames, ...
RollbackDirectory(e, n) ==
    /\ Kind[n] \in Directories
    /\ current' = [current EXCEPT ![n] = "missing"]
    /\ Go(e, "restore", n)

\* ... the copy in one rename, together with the removal of the database's -wal and -shm files
\* before it (stopped between the two, the database may have lost what only its -wal held), ...
RollbackSQLite(e, n) ==
    /\ Kind[n] = "sqlite"
    /\ current' = [current EXCEPT ![n] = "source"]
    /\ Go(e, "undone", n)

\* ... a downgrade, which refuses a database that is not at the target and may stop, ...
RollbackPostgres(e, n) ==
    /\ Kind[n] = "postgres" /\ current[n] = "target"
    /\ \/ current' = [current EXCEPT ![n] = "source"] /\ Go(e, "undone", n)
       \/ current' = [current EXCEPT ![n] = "partial"] /\ Go(e, "fail", n)

\* ... or one transaction.
RollbackPack(e, n) ==
    /\ Kind[n] = "pack" /\ current[n] = "target"
    /\ current' = [current EXCEPT ![n] = "source"]
    /\ Go(e, "undone", n)

-----------------------------------------------------------------------------
\* execute

\* The plan is claimed once; the actor who claimed it may resume it.
Execute(e, actor) ==
    /\ At(e, "idle")
    /\ \/ /\ run.status = "approved"
          /\ run' = [run EXCEPT !.status = "running", !.executed_by = actor]
       \/ run.status = "running" /\ run.executed_by = actor /\ UNCHANGED run
    /\ Go(e, "step", 1)
    /\ UNCHANGED <<steps, current, rollback, crashes>>

Verified(e) ==
    LET n == exec[e].position
    IN  /\ At(e, "step") /\ n \in Steps /\ steps[n] = "verified"
        /\ Go(e, "step", n + 1)
        /\ UNCHANGED <<run, steps, current, rollback, crashes>>

\* Mutant: an uncertain step is raised without a rollback.
Resume_Raises(e) ==
    LET n == exec[e].position
    IN  /\ At(e, "step") /\ n \in Steps /\ steps[n] = "applying"
        /\ CASE Recover(n) = "not_applied" -> Journal(n, "prepared") /\ UNCHANGED exec
             [] Recover(n) = "applied" -> Journal(n, "applied") /\ UNCHANGED exec
             [] OTHER -> Go(e, "idle", 1) /\ UNCHANGED steps
        /\ UNCHANGED <<run, current, rollback, crashes>>

\* A step that a former process left in applying.
Resume(e) ==
    LET n == exec[e].position
    IN  /\ At(e, "step") /\ n \in Steps /\ steps[n] = "applying"
        /\ CASE Recover(n) = "not_applied" -> Journal(n, "prepared") /\ UNCHANGED exec
             [] Recover(n) = "applied" -> Journal(n, "applied") /\ UNCHANGED exec
             [] OTHER -> Go(e, "rollback", StepCount) /\ UNCHANGED steps
        /\ UNCHANGED <<run, current, rollback, crashes>>

\* A step whose receipt is journalled is only verified.
Reverify(e) ==
    LET n == exec[e].position
    IN  /\ At(e, "step") /\ n \in Steps /\ steps[n] = "applied"
        /\ Go(e, "verify", n)
        /\ UNCHANGED <<run, steps, current, rollback, crashes>>

Announce(e) ==
    LET n == exec[e].position
    IN  /\ At(e, "step") /\ n \in Steps /\ steps[n] = "prepared"
        /\ Journal(n, "applying")
        /\ Go(e, "apply", n)
        /\ UNCHANGED <<run, current, rollback, crashes>>

Apply(e) ==
    LET n == exec[e].position
    IN  /\ At(e, "apply") /\ current[n] = "source"
        /\ ApplyDirectory(e, n) \/ ApplySQLite(e, n) \/ ApplyPostgres(e, n) \/ ApplyPack(e, n)
        /\ UNCHANGED <<run, steps, crashes>>

\* The second rename.
Switch(e) ==
    LET n == exec[e].position
    IN  /\ At(e, "switch")
        /\ current' = [current EXCEPT ![n] = "target"]
        /\ Go(e, "record", n)
        /\ UNCHANGED <<run, steps, rollback, crashes>>

\* apply raises: the source drifted, or an I/O error before or between its renames.
ApplyRaises(e) ==
    /\ At(e, "apply") \/ At(e, "switch")
    /\ Go(e, "raised", exec[e].position)
    /\ UNCHANGED <<run, steps, current, rollback, crashes>>

\* The handler around apply journals a receipt when the adapter has one, and re-raises.
Raised(e) ==
    LET n == exec[e].position
    IN  /\ At(e, "raised")
        /\ IF Recover(n) = "applied" THEN Journal(n, "applied") ELSE UNCHANGED steps
        /\ Go(e, "rollback", StepCount)
        /\ UNCHANGED <<run, current, rollback, crashes>>

RecordApplied(e) ==
    LET n == exec[e].position
    IN  /\ At(e, "record")
        /\ Journal(n, "applied")
        /\ Go(e, "verify", n)
        /\ UNCHANGED <<run, current, rollback, crashes>>

\* Mutant: the receipt is taken for the state of the resource.
Verify_TrustsReceipt(e) ==
    LET n == exec[e].position
    IN  /\ At(e, "verify")
        /\ Journal(n, "verified") /\ Go(e, "step", n + 1)
        /\ UNCHANGED <<run, current, rollback, crashes>>

\* verify reads the resource again; it may also fail on its own (the smoke test).
Verify(e) ==
    LET n == exec[e].position
    IN  /\ At(e, "verify")
        /\ \/ current[n] = "target" /\ Journal(n, "verified") /\ Go(e, "step", n + 1)
           \/ Go(e, "rollback", StepCount) /\ UNCHANGED steps
        /\ UNCHANGED <<run, current, rollback, crashes>>

Complete(e) ==
    /\ At(e, "step") /\ exec[e].position \notin Steps
    /\ run' = [run EXCEPT !.status = "completed"]
    /\ Go(e, "idle", 1)
    /\ UNCHANGED <<steps, current, rollback, crashes>>

-----------------------------------------------------------------------------
\* _rollback

\* Mutant: the rollback starts with the first resource.
BeginRollback_First(e) ==
    /\ At(e, "rollback")
    /\ run' = [run EXCEPT !.status = "rolling_back"]
    /\ Go(e, "undo", 1)
    /\ UNCHANGED <<steps, current, rollback, crashes>>

BeginRollback(e) ==
    /\ At(e, "rollback")
    /\ run' = [run EXCEPT !.status = "rolling_back"]
    /\ Go(e, "undo", StepCount)
    /\ UNCHANGED <<steps, current, rollback, crashes>>

UndoInterrupted(e) ==
    LET n == exec[e].position
    IN  /\ At(e, "undo") /\ n \in Steps /\ steps[n] = "applying"
        /\ CASE Recover(n) = "not_applied" -> Journal(n, "rolled_back") /\ Go(e, "undo", n - 1)
             [] Recover(n) = "applied" -> Journal(n, "applied") /\ UNCHANGED exec
             [] OTHER -> Go(e, "fail", n) /\ UNCHANGED steps
        /\ UNCHANGED <<run, current, rollback, crashes>>

UndoNothing(e) ==
    LET n == exec[e].position
    IN  /\ At(e, "undo") /\ n \in Steps /\ steps[n] \in {"prepared", "rolled_back"}
        /\ Go(e, "undo", n - 1)
        /\ UNCHANGED <<run, steps, current, rollback, crashes>>

Undo(e) ==
    LET n == exec[e].position
    IN  /\ At(e, "undo") /\ n \in Steps /\ steps[n] \in {"applied", "verified"}
        /\ rollback[n] = "source"
        /\ \/ RollbackDirectory(e, n) \/ RollbackSQLite(e, n)
           \/ RollbackPostgres(e, n) \/ RollbackPack(e, n)
        /\ UNCHANGED <<run, steps, rollback, crashes>>

\* The second rename.
Restore(e) ==
    LET n == exec[e].position
    IN  /\ At(e, "restore")
        /\ current' = [current EXCEPT ![n] = "source"]
        /\ rollback' = [rollback EXCEPT ![n] = None]
        /\ Go(e, "undone", n)
        /\ UNCHANGED <<run, steps, crashes>>

UndoRaises(e) ==
    LET n == exec[e].position
    IN  /\ \/ At(e, "undo") /\ n \in Steps /\ steps[n] \in {"applied", "verified"}
           \/ At(e, "restore") \/ At(e, "undone")
        /\ Go(e, "fail", n)
        /\ UNCHANGED <<run, steps, current, rollback, crashes>>

\* Mutant: a status that the table does not admit.
RecordUndone_Reverted(e) ==
    LET n == exec[e].position
    IN  /\ At(e, "undone")
        /\ Journal(n, "reverted")
        /\ Go(e, "undo", n - 1)
        /\ UNCHANGED <<run, current, rollback, crashes>>

RecordUndone(e) ==
    LET n == exec[e].position
    IN  /\ At(e, "undone")
        /\ Journal(n, "rolled_back")
        /\ Go(e, "undo", n - 1)
        /\ UNCHANGED <<run, current, rollback, crashes>>

RolledBack(e) ==
    /\ At(e, "undo") /\ exec[e].position \notin Steps
    /\ run' = [run EXCEPT !.status = "rolled_back"]
    /\ Go(e, "idle", 1)
    /\ UNCHANGED <<steps, current, rollback, crashes>>

\* Mutant: the rollback ends in the same status whether or not it raised.
RollbackFails_Reported(e) ==
    /\ At(e, "fail")
    /\ run' = [run EXCEPT !.status = "rolled_back"]
    /\ Go(e, "idle", 1)
    /\ UNCHANGED <<steps, current, rollback, crashes>>

RollbackFails(e) ==
    /\ At(e, "fail")
    /\ run' = [run EXCEPT !.status = "failed"]
    /\ Go(e, "idle", 1)
    /\ UNCHANGED <<steps, current, rollback, crashes>>

Crash(e) ==
    /\ ~At(e, "idle") /\ crashes < CrashBound
    /\ crashes' = crashes + 1
    /\ Go(e, "idle", 1)
    /\ UNCHANGED <<run, steps, current, rollback>>

-----------------------------------------------------------------------------
\* What a process does until it returns.
Proceed(e) ==
    \/ Verified(e) \/ Resume(e) \/ Reverify(e) \/ Announce(e)
    \/ Apply(e) \/ Switch(e) \/ ApplyRaises(e) \/ Raised(e) \/ RecordApplied(e) \/ Verify(e)
    \/ Complete(e) \/ BeginRollback(e) \/ UndoInterrupted(e) \/ UndoNothing(e) \/ Undo(e)
    \/ Restore(e) \/ UndoRaises(e) \/ RecordUndone(e) \/ RolledBack(e) \/ RollbackFails(e)

Next ==
    \/ \E actor \in Actors :
          \/ Prepare(actor) \/ Approve(actor)
          \/ \E e \in Executors : Execute(e, actor)
    \/ \E n \in Steps : Drift(n)
    \/ \E e \in Executors : Proceed(e) \/ Crash(e)

Spec == Init /\ [][Next]_vars

\* A process that is not killed runs on, and the operator who started the plan resumes it.
Fairness ==
    \A e \in Executors :
        WF_vars(Proceed(e)) /\ WF_vars(\E actor \in Actors : Execute(e, actor))
FairSpec == Spec /\ Fairness

-----------------------------------------------------------------------------
\* Properties

\* Types of the journal, the resources and the processes.
TypeOK ==
    /\ run \in [status : RunStatuses, prepared_by : Actors \cup {None},
                approved_by : Actors \cup {None}, executed_by : Actors \cup {None}]
    /\ steps \in [Steps -> StepStatuses]
    /\ current \in [Steps -> Contents]
    /\ rollback \in [Steps -> {"source", None}]
    /\ exec \in [Executors -> [at : Places, position : 0 .. StepCount + 1]]
    /\ crashes \in 0 .. CrashBound

\* A plan is reported completed only when every resource is at its target, whatever died and
\* was resumed on the way.
CompletedAtTarget ==
    run.status = "completed" => \A n \in Steps : current[n] = "target"

Untouched(n) == current[n] \in {"source", "drifted"}

\* A plan is reported rolled back only when no resource is missing, partial or at its target:
\* "uncertain state is ... never reported as successfully rolled back" (ADR 0204).
RolledBackAtSource ==
    run.status = "rolled_back" => \A n \in Steps : Untouched(n)

\* Resources change in the plan's order and return in reverse: at every moment the ones that
\* are not at their source are an initial part of the plan, even after a crash on either way.
ChangedIsPrefix ==
    \A k, n \in Steps : k < n /\ ~Untouched(n) => ~Untouched(k)

\* A plan that is executed does not stay in running for ever: its operator can always bring it
\* to an end, or to a rollback, by resuming it.
RunSettles == run.status = "running" ~> run.status # "running"

\* "resumable rollback" (UpgradeOrchestrator): a rollback that was interrupted is taken up again.
RollbackSettles == run.status = "rolling_back" ~> run.status # "rolling_back"
=============================================================================

--------------------------- MODULE UpgradeSagaProofs ---------------------------
(***************************************************************************)
(* Proofs about UpgradeSaga for every plan: any number of resources, of    *)
(* any kinds and in any order, any number of operators and of crashes.     *)
(*                                                                         *)
(* What the journal says of the resources is proved for plans that one     *)
(* process at a time executes (OneProcess).  Nothing in execute enforces   *)
(* that: the operator who claimed a plan may call it again while his first *)
(* process is alive, and then none of these properties holds.              *)
(***************************************************************************)
EXTENDS UpgradeSaga, TLAPS

\* No two processes are inside execute.
OneProcess == \A e, f \in Executors : e = f

-----------------------------------------------------------------------------
\* Types

\* Between two reads of the journal a process is at a position of the plan.
Inside == {"apply", "switch", "raised", "record", "verify", "restore", "undone", "fail"}
PositionsKept == \A e \in Executors : exec[e].at \in Inside => exec[e].position \in Steps

TypeInv == TypeOK /\ PositionsKept

ExecTyped == exec \in [Executors -> [at : Places, position : 0 .. StepCount + 1]]

LEMMA GoTyped ==
    ASSUME ExecTyped, PositionsKept, NEW e \in Executors, NEW place \in Places,
           NEW p \in 0 .. StepCount + 1, place \in Inside => p \in Steps, Go(e, place, p)
    PROVE  ExecTyped' /\ PositionsKept'
  BY DEF ExecTyped, PositionsKept, Go

LEMMA JournalTyped ==
    ASSUME TypeOK, NEW n, NEW status \in StepStatuses, Journal(n, status)
    PROVE  steps' \in [Steps -> StepStatuses]
  BY DEF TypeOK, Journal

LEMMA InitTyped == Init => TypeInv
  BY ConstantsAssumption
     DEF Init, TypeInv, TypeOK, PositionsKept, RunStatuses, StepStatuses, Contents, Places, Inside,
         Steps

\* Positions and places are typed at every step of a process.
LEMMA ProceedTyped ==
    ASSUME TypeInv, NEW e \in Executors, Proceed(e)
    PROVE  TypeInv'
  <1> USE ConstantsAssumption DEF Places, StepStatuses, Contents, RunStatuses, Inside, At
  <1> DEFINE n == exec[e].position
             Moved == ExecTyped' /\ PositionsKept'
  <1>1. n \in 0 .. StepCount + 1 /\ ExecTyped /\ PositionsKept /\ TypeOK
    BY DEF TypeInv, TypeOK, ExecTyped
  <1>2. /\ \A p \in Steps : p + 1 \in 0 .. StepCount + 1 /\ p - 1 \in 0 .. StepCount + 1
        /\ 1 \in 0 .. StepCount + 1 /\ StepCount \in 0 .. StepCount + 1
    BY DEF Steps
  <1>3. ASSUME exec' = exec PROVE Moved
    BY <1>1, <1>3 DEF ExecTyped, PositionsKept
  <1>4. exec[e].at \in Inside => n \in Steps
    BY <1>1 DEF PositionsKept
  <1>5. CASE Verified(e)
    <2>1. Moved
      BY <1>1, <1>2, <1>3, <1>4, <1>5, GoTyped DEF Verified
    <2> QED
      BY <1>1, <1>5, <2>1 DEF Verified, TypeInv, TypeOK, ExecTyped
  <1>6. CASE Resume(e)
    <2>1. Moved
      BY <1>1, <1>2, <1>3, <1>4, <1>6, GoTyped DEF Resume
    <2>2. steps' \in [Steps -> StepStatuses]
      BY <1>1, <1>6, JournalTyped DEF Resume, TypeOK
    <2> QED
      BY <1>1, <1>6, <2>1, <2>2 DEF Resume, TypeInv, TypeOK, ExecTyped
  <1>7. CASE Reverify(e)
    <2>1. Moved
      BY <1>1, <1>2, <1>3, <1>4, <1>7, GoTyped DEF Reverify
    <2> QED
      BY <1>1, <1>7, <2>1 DEF Reverify, TypeInv, TypeOK, ExecTyped
  <1>8. CASE Announce(e)
    <2>1. Moved
      BY <1>1, <1>2, <1>3, <1>4, <1>8, GoTyped DEF Announce
    <2>2. steps' \in [Steps -> StepStatuses]
      BY <1>1, <1>8, JournalTyped DEF Announce, TypeOK
    <2> QED
      BY <1>1, <1>8, <2>1, <2>2 DEF Announce, TypeInv, TypeOK, ExecTyped
  <1>9. CASE Apply(e)
    <2>1. Moved
      BY <1>1, <1>2, <1>3, <1>4, <1>9, GoTyped DEF Apply, ApplyDirectory, ApplySQLite, ApplyPostgres, ApplyPack
    <2>2. current' \in [Steps -> Contents] /\ rollback' \in [Steps -> {"source", None}]
      BY <1>1, <1>9 DEF Apply, ApplyDirectory, ApplySQLite, ApplyPostgres, ApplyPack, TypeOK
    <2> QED
      BY <1>1, <1>9, <2>1, <2>2 DEF Apply, TypeInv, TypeOK, ExecTyped
  <1>10. CASE Switch(e)
    <2>1. Moved
      BY <1>1, <1>2, <1>3, <1>4, <1>10, GoTyped DEF Switch
    <2>2. current' \in [Steps -> Contents] /\ rollback' \in [Steps -> {"source", None}]
      BY <1>1, <1>10 DEF Switch, TypeOK
    <2> QED
      BY <1>1, <1>10, <2>1, <2>2 DEF Switch, TypeInv, TypeOK, ExecTyped
  <1>11. CASE ApplyRaises(e)
    <2>1. Moved
      BY <1>1, <1>2, <1>3, <1>4, <1>11, GoTyped DEF ApplyRaises
    <2> QED
      BY <1>1, <1>11, <2>1 DEF ApplyRaises, TypeInv, TypeOK, ExecTyped
  <1>12. CASE Raised(e)
    <2>1. Moved
      BY <1>1, <1>2, <1>3, <1>4, <1>12, GoTyped DEF Raised
    <2>2. steps' \in [Steps -> StepStatuses]
      BY <1>1, <1>12, JournalTyped DEF Raised, TypeOK
    <2> QED
      BY <1>1, <1>12, <2>1, <2>2 DEF Raised, TypeInv, TypeOK, ExecTyped
  <1>13. CASE RecordApplied(e)
    <2>1. Moved
      BY <1>1, <1>2, <1>3, <1>4, <1>13, GoTyped DEF RecordApplied
    <2>2. steps' \in [Steps -> StepStatuses]
      BY <1>1, <1>13, JournalTyped DEF RecordApplied, TypeOK
    <2> QED
      BY <1>1, <1>13, <2>1, <2>2 DEF RecordApplied, TypeInv, TypeOK, ExecTyped
  <1>14. CASE Verify(e)
    <2>1. Moved
      BY <1>1, <1>2, <1>3, <1>4, <1>14, GoTyped DEF Verify
    <2>2. steps' \in [Steps -> StepStatuses]
      BY <1>1, <1>14, JournalTyped DEF Verify, TypeOK
    <2> QED
      BY <1>1, <1>14, <2>1, <2>2 DEF Verify, TypeInv, TypeOK, ExecTyped
  <1>15. CASE Complete(e)
    <2>1. Moved
      BY <1>1, <1>2, <1>3, <1>4, <1>15, GoTyped DEF Complete
    <2> QED
      BY <1>1, <1>15, <2>1 DEF Complete, TypeInv, TypeOK, ExecTyped
  <1>16. CASE BeginRollback(e)
    <2>1. Moved
      BY <1>1, <1>2, <1>3, <1>4, <1>16, GoTyped DEF BeginRollback
    <2> QED
      BY <1>1, <1>16, <2>1 DEF BeginRollback, TypeInv, TypeOK, ExecTyped
  <1>17. CASE UndoInterrupted(e)
    <2>1. Moved
      BY <1>1, <1>2, <1>3, <1>4, <1>17, GoTyped DEF UndoInterrupted
    <2>2. steps' \in [Steps -> StepStatuses]
      BY <1>1, <1>17, JournalTyped DEF UndoInterrupted, TypeOK
    <2> QED
      BY <1>1, <1>17, <2>1, <2>2 DEF UndoInterrupted, TypeInv, TypeOK, ExecTyped
  <1>18. CASE UndoNothing(e)
    <2>1. Moved
      BY <1>1, <1>2, <1>3, <1>4, <1>18, GoTyped DEF UndoNothing
    <2> QED
      BY <1>1, <1>18, <2>1 DEF UndoNothing, TypeInv, TypeOK, ExecTyped
  <1>19. CASE Undo(e)
    <2>1. Moved
      BY <1>1, <1>2, <1>3, <1>4, <1>19, GoTyped DEF Undo, RollbackDirectory, RollbackSQLite, RollbackPostgres,
         RollbackPack
    <2>2. current' \in [Steps -> Contents] /\ rollback' \in [Steps -> {"source", None}]
      BY <1>1, <1>19 DEF Undo, RollbackDirectory, RollbackSQLite, RollbackPostgres,
         RollbackPack, TypeOK
    <2> QED
      BY <1>1, <1>19, <2>1, <2>2 DEF Undo, TypeInv, TypeOK, ExecTyped
  <1>20. CASE Restore(e)
    <2>1. Moved
      BY <1>1, <1>2, <1>3, <1>4, <1>20, GoTyped DEF Restore
    <2>2. current' \in [Steps -> Contents] /\ rollback' \in [Steps -> {"source", None}]
      BY <1>1, <1>20 DEF Restore, TypeOK
    <2> QED
      BY <1>1, <1>20, <2>1, <2>2 DEF Restore, TypeInv, TypeOK, ExecTyped
  <1>21. CASE UndoRaises(e)
    <2>1. Moved
      BY <1>1, <1>2, <1>3, <1>4, <1>21, GoTyped DEF UndoRaises
    <2> QED
      BY <1>1, <1>21, <2>1 DEF UndoRaises, TypeInv, TypeOK, ExecTyped
  <1>22. CASE RecordUndone(e)
    <2>1. Moved
      BY <1>1, <1>2, <1>3, <1>4, <1>22, GoTyped DEF RecordUndone
    <2>2. steps' \in [Steps -> StepStatuses]
      BY <1>1, <1>22, JournalTyped DEF RecordUndone, TypeOK
    <2> QED
      BY <1>1, <1>22, <2>1, <2>2 DEF RecordUndone, TypeInv, TypeOK, ExecTyped
  <1>23. CASE RolledBack(e)
    <2>1. Moved
      BY <1>1, <1>2, <1>3, <1>4, <1>23, GoTyped DEF RolledBack
    <2> QED
      BY <1>1, <1>23, <2>1 DEF RolledBack, TypeInv, TypeOK, ExecTyped
  <1>24. CASE RollbackFails(e)
    <2>1. Moved
      BY <1>1, <1>2, <1>3, <1>4, <1>24, GoTyped DEF RollbackFails
    <2> QED
      BY <1>1, <1>24, <2>1 DEF RollbackFails, TypeInv, TypeOK, ExecTyped
  <1> QED
    BY <1>5, <1>6, <1>7, <1>8, <1>9, <1>10, <1>11, <1>12, <1>13, <1>14,
       <1>15, <1>16, <1>17, <1>18, <1>19, <1>20, <1>21, <1>22, <1>23, <1>24 DEF Proceed

LEMMA StepTyped == TypeInv /\ [Next]_vars => TypeInv'
  <1> SUFFICES ASSUME TypeInv, [Next]_vars PROVE TypeInv'
    OBVIOUS
  <1> USE ConstantsAssumption DEF TypeInv
  <1>1. /\ 1 \in 0 .. StepCount + 1 /\ "step" \in Places \ Inside /\ "idle" \in Places \ Inside
        /\ ExecTyped
    BY DEF Places, Inside, TypeOK, ExecTyped
  <1>2. ASSUME NEW actor \in Actors, Prepare(actor) PROVE TypeInv'
    BY <1>2 DEF Prepare, TypeOK, RunStatuses, PositionsKept
  <1>3. ASSUME NEW actor \in Actors, Approve(actor) PROVE TypeInv'
    BY <1>3 DEF Approve, TypeOK, RunStatuses, PositionsKept
  <1>4. ASSUME NEW actor \in Actors, NEW e \in Executors, Execute(e, actor) PROVE TypeInv'
    <2>1. ExecTyped' /\ PositionsKept'
      BY <1>1, <1>4, GoTyped DEF Execute
    <2> QED
      BY <1>4, <2>1 DEF Execute, TypeOK, RunStatuses, ExecTyped
  <1>5. ASSUME NEW n \in Steps, Drift(n) PROVE TypeInv'
    BY <1>5 DEF Drift, TypeOK, Contents, PositionsKept
  <1>6. ASSUME NEW e \in Executors, Crash(e) PROVE TypeInv'
    <2>1. ExecTyped' /\ PositionsKept'
      BY <1>1, <1>6, GoTyped DEF Crash
    <2> QED
      BY <1>6, <2>1 DEF Crash, TypeOK, ExecTyped
  <1>7. CASE UNCHANGED vars
    BY <1>7 DEF vars, TypeOK, PositionsKept
  <1> QED
    BY <1>2, <1>3, <1>4, <1>5, <1>6, <1>7, ProceedTyped DEF Next

LEMMA TypeInvHolds == Spec => []TypeInv
  BY InitTyped, StepTyped, PTL DEF Spec

\* The journal, the resources and the processes stay typed, whatever the plan and however
\* many processes execute it.
THEOREM Typed == Spec => []TypeOK
  <1>1. TypeInv => TypeOK
    BY DEF TypeInv
  <1> QED
    BY <1>1, TypeInvHolds, PTL
-----------------------------------------------------------------------------
\* What the journal says of the resources

Forward == {"step", "apply", "switch", "raised", "record", "verify", "rollback"}
Backward == {"undo", "restore", "undone", "fail"}

\* A resource that is between two renames still has its retained copy.
MissingKept == \A n \in Steps : current[n] = "missing" => rollback[n] = "source"

\* The journal up to position p: a step is begun only when all before it are verified, a
\* verified resource is at its target, an unbegun one is untouched, none is rolled back.
JournalUpTo(p) ==
    /\ \A k, n \in Steps : k < n /\ n <= p /\ steps[n] # "prepared" => steps[k] = "verified"
    /\ \A n \in Steps : n <= p =>
           /\ steps[n] = "verified" => current[n] = "target"
           /\ steps[n] = "prepared" => Untouched(n)
           /\ steps[n] # "rolled_back"

\* Everything before p is at its target, everything after p is untouched.
SplitAt(p) == \A n \in Steps : /\ n < p => steps[n] = "verified" /\ current[n] = "target"
                               /\ n > p => Untouched(n)

\* What holds of a process at a place and a position, on the way forward and back.
ForwardAt(place, p) ==
    /\ place = "step" => /\ p \in 1 .. StepCount + 1
                         /\ \A k \in Steps : k < p => steps[k] = "verified"
    /\ place \in {"apply", "switch", "raised", "record"} => p \in Steps /\ steps[p] = "applying"
    /\ place = "verify" => p \in Steps /\ steps[p] = "applied"

BackwardAt(place, p) ==
    /\ place = "undo" => /\ p \in 0 .. StepCount /\ JournalUpTo(p)
                         /\ \A n \in Steps : n > p => Untouched(n)
    /\ place \in {"restore", "undone", "fail"} => p \in Steps /\ SplitAt(p)
    /\ place = "undone" => current[p] = "source"

PlaceOK(place, p) ==
    /\ place \in Forward => run.status = "running" /\ ForwardAt(place, p)
    /\ place \in Backward => run.status = "rolling_back" /\ BackwardAt(place, p)

PlacesOK == \A e \in Executors : PlaceOK(exec[e].at, exec[e].position)

Unbegun == \A n \in Steps : steps[n] = "prepared" /\ Untouched(n)

RunOK ==
    /\ run.status \in {"none", "prepared", "approved"} => Unbegun
    /\ run.status = "running" => JournalUpTo(StepCount)
    /\ run.status \in {"rolling_back", "failed"} => ChangedIsPrefix
    /\ CompletedAtTarget /\ RolledBackAtSource

SagaInv == TypeInv /\ MissingKept /\ RunOK /\ PlacesOK

-----------------------------------------------------------------------------
\* Facts about the parts of the invariant

LEMMA StepsAreInts == \A n \in Steps : n \in Int /\ 1 <= n /\ n <= StepCount
  BY ConstantsAssumption DEF Steps

\* An adapter that answers not_applied has its source in place.
LEMMA NotApplied ==
    ASSUME MissingKept, NEW n \in Steps, Recover(n) = "not_applied"
    PROVE  current[n] = "source"
  <1>1. CASE Kind[n] = "application"
    BY <1>1, ConstantsAssumption DEF Recover, RecoverApplication, RecoverDirectory, MissingKept
  <1>2. CASE Kind[n] = "sqlite"
    BY <1>2 DEF Recover, RecoverSQLite
  <1>3. CASE Kind[n] = "postgres"
    BY <1>3 DEF Recover, RecoverPostgres
  <1>4. CASE Kind[n] = "pack"
    BY <1>4 DEF Recover, RecoverPack
  <1>5. CASE Kind[n] \notin {"application", "sqlite", "postgres", "pack"}
    <2>1. Recover(n) = RecoverDirectory(n)
      BY <1>5 DEF Recover
    <2> QED
      BY <2>1 DEF RecoverDirectory
  <1> QED
    BY <1>1, <1>2, <1>3, <1>4, <1>5

LEMMA UndoPrefix ==
    ASSUME NEW p \in Int, JournalUpTo(p), \A n \in Steps : n > p => Untouched(n)
    PROVE  ChangedIsPrefix
  <1>1. SUFFICES ASSUME NEW k \in Steps, NEW n \in Steps, k < n, ~ Untouched(n)
                 PROVE  ~ Untouched(k)
    BY DEF ChangedIsPrefix
  <1>2. n <= p
    BY <1>1, StepsAreInts
  <1>3. steps[k] = "verified" /\ k <= p
    BY <1>1, <1>2, StepsAreInts DEF JournalUpTo
  <1> QED
    BY <1>3 DEF JournalUpTo, Untouched

LEMMA SplitPrefix ==
    ASSUME NEW p \in Steps, SplitAt(p)
    PROVE  ChangedIsPrefix
  <1>1. SUFFICES ASSUME NEW k \in Steps, NEW n \in Steps, k < n, ~ Untouched(n)
                 PROVE  ~ Untouched(k)
    BY DEF ChangedIsPrefix
  <1>2. k < p
    BY <1>1, StepsAreInts DEF SplitAt
  <1> QED
    BY <1>2 DEF SplitAt, Untouched

\* A step that is begun, or whose resource changed, has everything before it at its target.
LEMMA SplitHere ==
    ASSUME NEW p \in Steps, JournalUpTo(p), \A n \in Steps : n > p => Untouched(n),
           steps[p] # "prepared"
    PROVE  SplitAt(p)
  BY StepsAreInts DEF JournalUpTo, SplitAt

LEMMA RunningPrefix ==
    ASSUME JournalUpTo(StepCount)
    PROVE  ChangedIsPrefix
  BY StepsAreInts, ConstantsAssumption, UndoPrefix

\* The only process moves: what it needs of its new place is all there is to show.
LEMMA GoPlaces ==
    ASSUME OneProcess, ExecTyped, NEW e \in Executors, NEW place, NEW p, Go(e, place, p),
           PlaceOK(place, p)'
    PROVE  PlacesOK'
  <1>1. SUFFICES ASSUME NEW f \in Executors PROVE PlaceOK(exec[f].at, exec[f].position)'
    BY DEF PlacesOK
  <1>2. exec'[f].at = place /\ exec'[f].position = p
    BY DEF OneProcess, ExecTyped, Go
  <1> QED
    BY <1>2 DEF PlaceOK, ForwardAt, BackwardAt

LEMMA RunningOn ==
    ASSUME run.status = "running", run' = run, JournalUpTo(StepCount)'
    PROVE  RunOK'
  BY DEF RunOK, CompletedAtTarget, RolledBackAtSource

LEMMA RollingOn ==
    ASSUME run.status = "rolling_back", run' = run, ChangedIsPrefix'
    PROVE  RunOK'
  BY DEF RunOK, CompletedAtTarget, RolledBackAtSource
-----------------------------------------------------------------------------
\* The way forward

\* What a step has to preserve besides types.
SagaNext == MissingKept' /\ RunOK' /\ PlacesOK'

LEMMA ForwardFacts ==
    ASSUME SagaInv, NEW e \in Executors, exec[e].at \in Forward
    PROVE  /\ run.status = "running" /\ JournalUpTo(StepCount) /\ MissingKept /\ ExecTyped
           /\ TypeOK /\ ForwardAt(exec[e].at, exec[e].position)
  BY DEF SagaInv, TypeInv, TypeOK, ExecTyped, RunOK, PlacesOK, PlaceOK

\* The process moves on and nothing else changes.
LEMMA MoveForward ==
    ASSUME OneProcess, SagaInv, NEW e \in Executors, exec[e].at \in Forward,
           NEW place \in Forward, NEW p, Go(e, place, p), ForwardAt(place, p),
           UNCHANGED <<run, steps, current, rollback>>
    PROVE  SagaNext
  <1>1. run.status = "running" /\ JournalUpTo(StepCount) /\ MissingKept /\ ExecTyped
    BY ForwardFacts
  <1>2. MissingKept' /\ JournalUpTo(StepCount)' /\ ForwardAt(place, p)'
    BY <1>1 DEF MissingKept, JournalUpTo, ForwardAt, Untouched
  <1>3. place \notin Backward
    BY DEF Forward, Backward
  <1>4. PlaceOK(place, p)'
    BY <1>1, <1>2, <1>3 DEF PlaceOK
  <1> QED
    BY <1>1, <1>2, <1>4, GoPlaces, RunningOn DEF SagaNext

\* One row of the journal changes, of a step that was not verified.
LEMMA JournalForward ==
    ASSUME TypeOK, JournalUpTo(StepCount), MissingKept, NEW n \in Steps, NEW status,
           Journal(n, status), UNCHANGED <<current, rollback>>,
           steps[n] # "verified", status # "rolled_back",
           status = "verified" => current[n] = "target",
           status = "prepared" => Untouched(n),
           status # "prepared" => \A k \in Steps : k < n => steps[k] = "verified"
    PROVE  /\ MissingKept' /\ JournalUpTo(StepCount)' /\ steps'[n] = status
           /\ \A k \in Steps : k < n => steps'[k] = steps[k]
  <1>1. steps'[n] = status /\ \A k \in Steps : k # n => steps'[k] = steps[k]
    BY DEF TypeOK, Journal
  <1>2. MissingKept'
    BY DEF MissingKept
  <1>3. \A k, m \in Steps : k < m /\ m <= StepCount /\ steps'[m] # "prepared"
            => steps'[k] = "verified"
    BY <1>1, StepsAreInts DEF JournalUpTo
  <1>4. \A m \in Steps : m <= StepCount =>
            /\ steps'[m] = "verified" => current'[m] = "target"
            /\ steps'[m] = "prepared" => current'[m] \in {"source", "drifted"}
            /\ steps'[m] # "rolled_back"
    BY <1>1 DEF JournalUpTo, Untouched
  <1>5. JournalUpTo(StepCount)'
    BY <1>3, <1>4 DEF JournalUpTo, Untouched
  <1> QED
    BY <1>1, <1>2, <1>5, StepsAreInts

\* A step that is not unbegun has everything before it verified.
LEMMA BeforeBegun ==
    ASSUME JournalUpTo(StepCount), NEW n \in Steps, steps[n] # "prepared"
    PROVE  \A k \in Steps : k < n => steps[k] = "verified"
  BY StepsAreInts DEF JournalUpTo

\* The resource of a step that is being applied changes.
LEMMA ContentForward ==
    ASSUME TypeOK, JournalUpTo(StepCount), MissingKept, NEW n \in Steps, steps[n] = "applying",
           NEW c, current' = [current EXCEPT ![n] = c], steps' = steps,
           \A m \in Steps : m # n => rollback'[m] = rollback[m],
           c = "missing" => rollback'[n] = "source"
    PROVE  MissingKept' /\ JournalUpTo(StepCount)'
  <1>1. current'[n] = c /\ \A m \in Steps : m # n => current'[m] = current[m]
    BY DEF TypeOK
  <1>2. MissingKept'
    BY <1>1 DEF MissingKept
  <1>3. \A m \in Steps : steps[m] \in {"verified", "prepared"} => m # n
    OBVIOUS
  <1>4. \A m \in Steps : m <= StepCount =>
            /\ steps'[m] = "verified" => current'[m] = "target"
            /\ steps'[m] = "prepared" => current'[m] \in {"source", "drifted"}
            /\ steps'[m] # "rolled_back"
    BY <1>1, <1>3 DEF JournalUpTo, Untouched
  <1>5. JournalUpTo(StepCount)'
    BY <1>4 DEF JournalUpTo, Untouched
  <1> QED
    BY <1>2, <1>5

\* Both kinds of change, and the process is at its next place.
LEMMA ChangeForward ==
    ASSUME OneProcess, SagaInv, NEW e \in Executors, exec[e].at \in Forward,
           NEW place \in Forward, NEW p, Go(e, place, p), run' = run,
           MissingKept', JournalUpTo(StepCount)', ForwardAt(place, p)'
    PROVE  SagaNext
  <1>1. run.status = "running" /\ ExecTyped
    BY ForwardFacts
  <1>2. place \notin Backward
    BY DEF Forward, Backward
  <1>3. PlaceOK(place, p)'
    BY <1>1, <1>2 DEF PlaceOK
  <1> QED
    BY <1>1, <1>3, GoPlaces, RunningOn DEF SagaNext

LEMMA StayIsGo ==
    ASSUME ExecTyped, NEW e \in Executors, exec' = exec, NEW place, place = exec[e].at,
           NEW p, p = exec[e].position
    PROVE  Go(e, place, p)
  <1>1. exec[e] = [at |-> place, position |-> p]
    BY DEF ExecTyped
  <1> QED
    BY <1>1 DEF ExecTyped, Go

LEMMA VerifiedForward ==
    ASSUME OneProcess, SagaInv, NEW e \in Executors, Verified(e)
    PROVE  SagaNext
  <1>1. PICK n : n = exec[e].position
    OBVIOUS
  <1>2. /\ exec[e].at = "step" /\ n \in Steps /\ steps[n] = "verified" /\ Go(e, "step", n + 1)
        /\ UNCHANGED <<run, steps, current, rollback>>
    BY <1>1 DEF Verified, At
  <1>3. "step" \in Forward /\ exec[e].at \in Forward
    BY <1>2 DEF Forward
  <1>4. ForwardAt("step", n)
    BY <1>1, <1>2, <1>3, ForwardFacts
  <1>5. n + 1 \in 1 .. StepCount + 1 /\ \A k \in Steps : k < n + 1 => k < n \/ k = n
    BY <1>2, StepsAreInts, ConstantsAssumption
  <1>6. ForwardAt("step", n + 1)
    BY <1>2, <1>4, <1>5 DEF ForwardAt
  <1> QED
    BY <1>2, <1>3, <1>6, MoveForward

LEMMA ReverifyForward ==
    ASSUME OneProcess, SagaInv, NEW e \in Executors, Reverify(e)
    PROVE  SagaNext
  <1>1. PICK n : n = exec[e].position
    OBVIOUS
  <1>2. /\ exec[e].at = "step" /\ n \in Steps /\ steps[n] = "applied" /\ Go(e, "verify", n)
        /\ UNCHANGED <<run, steps, current, rollback>>
    BY <1>1 DEF Reverify, At
  <1>3. "verify" \in Forward /\ exec[e].at \in Forward /\ ForwardAt("verify", n)
    BY <1>2 DEF Forward, ForwardAt
  <1> QED
    BY <1>2, <1>3, MoveForward

LEMMA ApplyRaisesForward ==
    ASSUME OneProcess, SagaInv, NEW e \in Executors, ApplyRaises(e)
    PROVE  SagaNext
  <1>1. PICK n : n = exec[e].position
    OBVIOUS
  <1>2. /\ exec[e].at \in {"apply", "switch"} /\ Go(e, "raised", n)
        /\ UNCHANGED <<run, steps, current, rollback>>
    BY <1>1 DEF ApplyRaises, At
  <1>3. "raised" \in Forward /\ exec[e].at \in Forward
    BY <1>2 DEF Forward
  <1>4. ForwardAt("raised", n)
    BY <1>1, <1>2, <1>3, ForwardFacts DEF ForwardAt
  <1> QED
    BY <1>2, <1>3, <1>4, MoveForward

LEMMA ResumeForward ==
    ASSUME OneProcess, SagaInv, NEW e \in Executors, Resume(e)
    PROVE  SagaNext
  <1>1. PICK n : n = exec[e].position
    OBVIOUS
  <1>2. /\ exec[e].at = "step" /\ n \in Steps /\ steps[n] = "applying"
        /\ UNCHANGED <<run, current, rollback>>
    BY <1>1 DEF Resume, At
  <1>3. {"step", "rollback"} \subseteq Forward /\ exec[e].at \in Forward
    BY <1>2 DEF Forward
  <1>4. /\ TypeOK /\ JournalUpTo(StepCount) /\ MissingKept /\ ExecTyped /\ ForwardAt("step", n)
    BY <1>1, <1>2, <1>3, ForwardFacts
  <1>5. \A k \in Steps : k < n => steps[k] = "verified"
    BY <1>4 DEF ForwardAt
  <1>6. ASSUME NEW status \in {"prepared", "applied"}, Journal(n, status), exec' = exec,
               status = "prepared" => Untouched(n)
        PROVE  SagaNext
    <2>1. /\ MissingKept' /\ JournalUpTo(StepCount)'
          /\ \A k \in Steps : k < n => steps'[k] = steps[k]
      BY <1>2, <1>4, <1>5, <1>6, JournalForward
    <2>2. ForwardAt("step", n)'
      BY <1>4, <2>1 DEF ForwardAt
    <2>3. Go(e, "step", n)
      BY <1>1, <1>2, <1>4, <1>6, StayIsGo
    <2> QED
      BY <1>2, <1>3, <2>1, <2>2, <2>3, ChangeForward
  <1>7. CASE Recover(n) = "not_applied"
    <2>1. Untouched(n)
      BY <1>2, <1>4, <1>7, NotApplied DEF Untouched
    <2>2. Journal(n, "prepared") /\ exec' = exec
      BY <1>1, <1>7 DEF Resume
    <2> QED
      BY <1>6, <2>1, <2>2
  <1>8. CASE Recover(n) = "applied"
    <2>1. Journal(n, "applied") /\ exec' = exec
      BY <1>1, <1>8 DEF Resume
    <2> QED
      BY <1>6, <2>1
  <1>9. CASE Recover(n) \notin {"not_applied", "applied"}
    <2>1. Go(e, "rollback", StepCount) /\ steps' = steps
      BY <1>1, <1>9 DEF Resume
    <2>2. ForwardAt("rollback", StepCount)
      BY DEF ForwardAt
    <2> QED
      BY <1>2, <1>3, <2>1, <2>2, MoveForward
  <1> QED
    BY <1>7, <1>8, <1>9

LEMMA AnnounceForward ==
    ASSUME OneProcess, SagaInv, NEW e \in Executors, Announce(e)
    PROVE  SagaNext
  <1>1. PICK n : n = exec[e].position
    OBVIOUS
  <1>2. /\ exec[e].at = "step" /\ n \in Steps /\ steps[n] = "prepared"
        /\ Journal(n, "applying") /\ Go(e, "apply", n) /\ UNCHANGED <<run, current, rollback>>
    BY <1>1 DEF Announce, At
  <1>3. "apply" \in Forward /\ exec[e].at \in Forward
    BY <1>2 DEF Forward
  <1>4. TypeOK /\ JournalUpTo(StepCount) /\ MissingKept /\ ForwardAt("step", n)
    BY <1>1, <1>2, <1>3, ForwardFacts
  <1>5. \A k \in Steps : k < n => steps[k] = "verified"
    BY <1>4 DEF ForwardAt
  <1>6. MissingKept' /\ JournalUpTo(StepCount)' /\ steps'[n] = "applying"
    BY <1>2, <1>4, <1>5, JournalForward
  <1>7. ForwardAt("apply", n)'
    BY <1>2, <1>6 DEF ForwardAt
  <1> QED
    BY <1>2, <1>3, <1>6, <1>7, ChangeForward

LEMMA ApplyForward ==
    ASSUME OneProcess, SagaInv, NEW e \in Executors, Apply(e)
    PROVE  SagaNext
  <1>1. PICK n : n = exec[e].position
    OBVIOUS
  <1>2. exec[e].at = "apply" /\ UNCHANGED <<run, steps>>
    BY DEF Apply, At
  <1>3. {"switch", "record", "raised"} \subseteq Forward /\ exec[e].at \in Forward
    BY <1>2 DEF Forward
  <1>4. /\ TypeOK /\ JournalUpTo(StepCount) /\ MissingKept /\ n \in Steps
        /\ steps[n] = "applying"
    BY <1>1, <1>2, <1>3, ForwardFacts DEF ForwardAt
  <1>5. \E c \in Contents, place \in {"switch", "record", "raised"} :
            /\ current' = [current EXCEPT ![n] = c] /\ Go(e, place, n)
            /\ \A m \in Steps : m # n => rollback'[m] = rollback[m]
            /\ c = "missing" => rollback'[n] = "source"
    <2>1. CASE ApplyDirectory(e, n)
      <3>1. current' = [current EXCEPT ![n] = "missing"] /\ Go(e, "switch", n)
        BY <2>1 DEF ApplyDirectory
      <3>2. rollback'[n] = "source" /\ \A m \in Steps : m # n => rollback'[m] = rollback[m]
        BY <1>4, <2>1 DEF ApplyDirectory, TypeOK
      <3> QED
        BY <3>1, <3>2 DEF Contents
    <2>2. CASE ApplySQLite(e, n) \/ ApplyPostgres(e, n) \/ ApplyPack(e, n)
      BY <2>2 DEF ApplySQLite, ApplyPostgres, ApplyPack, Contents
    <2> QED
      BY <1>1, <2>1, <2>2 DEF Apply
  <1>6. PICK c \in Contents, place \in {"switch", "record", "raised"} :
            /\ current' = [current EXCEPT ![n] = c] /\ Go(e, place, n)
            /\ \A m \in Steps : m # n => rollback'[m] = rollback[m]
            /\ c = "missing" => rollback'[n] = "source"
    BY <1>5
  <1>7. MissingKept' /\ JournalUpTo(StepCount)'
    BY <1>2, <1>4, <1>6, ContentForward
  <1>8. ForwardAt(place, n)'
    BY <1>2, <1>4 DEF ForwardAt
  <1> QED
    BY <1>2, <1>3, <1>6, <1>7, <1>8, ChangeForward

LEMMA SwitchForward ==
    ASSUME OneProcess, SagaInv, NEW e \in Executors, Switch(e)
    PROVE  SagaNext
  <1>1. PICK n : n = exec[e].position
    OBVIOUS
  <1>2. /\ exec[e].at = "switch" /\ current' = [current EXCEPT ![n] = "target"]
        /\ Go(e, "record", n) /\ UNCHANGED <<run, steps, rollback>>
    BY <1>1 DEF Switch, At
  <1>3. "record" \in Forward /\ exec[e].at \in Forward
    BY <1>2 DEF Forward
  <1>4. /\ TypeOK /\ JournalUpTo(StepCount) /\ MissingKept /\ n \in Steps
        /\ steps[n] = "applying"
    BY <1>1, <1>2, <1>3, ForwardFacts DEF ForwardAt
  <1>5. MissingKept' /\ JournalUpTo(StepCount)'
    BY <1>2, <1>4, ContentForward
  <1>6. ForwardAt("record", n)'
    BY <1>2, <1>4 DEF ForwardAt
  <1> QED
    BY <1>2, <1>3, <1>5, <1>6, ChangeForward

LEMMA RaisedForward ==
    ASSUME OneProcess, SagaInv, NEW e \in Executors, Raised(e)
    PROVE  SagaNext
  <1>1. PICK n : n = exec[e].position
    OBVIOUS
  <1>2. /\ exec[e].at = "raised" /\ Go(e, "rollback", StepCount)
        /\ Journal(n, "applied") \/ UNCHANGED steps
        /\ UNCHANGED <<run, current, rollback>>
    BY <1>1 DEF Raised, At
  <1>3. "rollback" \in Forward /\ exec[e].at \in Forward
    BY <1>2 DEF Forward
  <1>4. /\ TypeOK /\ JournalUpTo(StepCount) /\ MissingKept /\ n \in Steps
        /\ steps[n] = "applying"
    BY <1>1, <1>2, <1>3, ForwardFacts DEF ForwardAt
  <1>5. ForwardAt("rollback", StepCount) /\ ForwardAt("rollback", StepCount)'
    BY DEF ForwardAt
  <1>6. CASE Journal(n, "applied")
    <2>1. MissingKept' /\ JournalUpTo(StepCount)'
      BY <1>2, <1>4, <1>6, BeforeBegun, JournalForward
    <2> QED
      BY <1>2, <1>3, <1>5, <2>1, ChangeForward
  <1>7. CASE UNCHANGED steps
    BY <1>2, <1>3, <1>5, <1>7, MoveForward
  <1> QED
    BY <1>2, <1>6, <1>7

LEMMA RecordForward ==
    ASSUME OneProcess, SagaInv, NEW e \in Executors, RecordApplied(e)
    PROVE  SagaNext
  <1>1. PICK n : n = exec[e].position
    OBVIOUS
  <1>2. /\ exec[e].at = "record" /\ Go(e, "verify", n) /\ Journal(n, "applied")
        /\ UNCHANGED <<run, current, rollback>>
    BY <1>1 DEF RecordApplied, At
  <1>3. "verify" \in Forward /\ exec[e].at \in Forward
    BY <1>2 DEF Forward
  <1>4. /\ TypeOK /\ JournalUpTo(StepCount) /\ MissingKept /\ n \in Steps
        /\ steps[n] = "applying"
    BY <1>1, <1>2, <1>3, ForwardFacts DEF ForwardAt
  <1>5. MissingKept' /\ JournalUpTo(StepCount)' /\ steps'[n] = "applied"
    BY <1>2, <1>4, BeforeBegun, JournalForward
  <1>6. ForwardAt("verify", n)'
    BY <1>4, <1>5 DEF ForwardAt
  <1> QED
    BY <1>2, <1>3, <1>5, <1>6, ChangeForward

LEMMA VerifyForward ==
    ASSUME OneProcess, SagaInv, NEW e \in Executors, Verify(e)
    PROVE  SagaNext
  <1>1. PICK n : n = exec[e].position
    OBVIOUS
  <1>2. /\ exec[e].at = "verify" /\ UNCHANGED <<run, current, rollback>>
        /\ \/ current[n] = "target" /\ Journal(n, "verified") /\ Go(e, "step", n + 1)
           \/ Go(e, "rollback", StepCount) /\ UNCHANGED steps
    BY <1>1 DEF Verify, At
  <1>3. {"rollback", "step"} \subseteq Forward /\ exec[e].at \in Forward
    BY <1>2 DEF Forward
  <1>4. /\ TypeOK /\ JournalUpTo(StepCount) /\ MissingKept /\ n \in Steps
        /\ steps[n] = "applied"
    BY <1>1, <1>2, <1>3, ForwardFacts DEF ForwardAt
  <1>5. CASE current[n] = "target" /\ Journal(n, "verified") /\ Go(e, "step", n + 1)
    <2>1. \A k \in Steps : k < n => steps[k] = "verified"
      BY <1>4, BeforeBegun
    <2>2. /\ MissingKept' /\ JournalUpTo(StepCount)' /\ steps'[n] = "verified"
          /\ \A k \in Steps : k < n => steps'[k] = steps[k]
      BY <1>2, <1>4, <1>5, <2>1, JournalForward
    <2>3. n + 1 \in 1 .. StepCount + 1 /\ \A k \in Steps : k < n + 1 => k < n \/ k = n
      BY <1>4, StepsAreInts, ConstantsAssumption
    <2>4. ForwardAt("step", n + 1)'
      BY <2>1, <2>2, <2>3 DEF ForwardAt
    <2> QED
      BY <1>2, <1>3, <1>5, <2>2, <2>4, ChangeForward
  <1>6. CASE Go(e, "rollback", StepCount) /\ UNCHANGED steps
    <2>1. ForwardAt("rollback", StepCount)
      BY DEF ForwardAt
    <2> QED
      BY <1>2, <1>3, <1>6, <2>1, MoveForward
  <1> QED
    BY <1>2, <1>5, <1>6
-----------------------------------------------------------------------------
\* The end of the way, and the way back

\* A process that has returned needs nothing.
LEMMA GoIdle ==
    ASSUME OneProcess, ExecTyped, NEW e \in Executors, NEW p, Go(e, "idle", p)
    PROVE  PlacesOK'
  <1>1. PlaceOK("idle", p)'
    BY DEF PlaceOK, Forward, Backward
  <1> QED
    BY <1>1, GoPlaces

LEMMA CompleteSaga ==
    ASSUME OneProcess, SagaInv, NEW e \in Executors, Complete(e)
    PROVE  SagaNext
  <1>1. PICK n : n = exec[e].position
    OBVIOUS
  <1>2. /\ exec[e].at = "step" /\ n \notin Steps /\ Go(e, "idle", 1)
        /\ run' = [run EXCEPT !.status = "completed"] /\ UNCHANGED <<steps, current, rollback>>
    BY <1>1 DEF Complete, At
  <1>3. exec[e].at \in Forward
    BY <1>2 DEF Forward
  <1>4. /\ TypeOK /\ JournalUpTo(StepCount) /\ MissingKept /\ ExecTyped /\ ForwardAt("step", n)
    BY <1>1, <1>2, <1>3, ForwardFacts
  <1>5. \A k \in Steps : k < n
    BY <1>2, <1>4, ConstantsAssumption DEF ForwardAt, Steps
  <1>6. \A k \in Steps : current[k] = "target"
    BY <1>4, <1>5, StepsAreInts DEF ForwardAt, JournalUpTo
  <1>7. run'.status = "completed"
    BY <1>2, <1>4 DEF TypeOK
  <1>8. RunOK'
    BY <1>2, <1>6, <1>7 DEF RunOK, CompletedAtTarget, RolledBackAtSource
  <1>9. MissingKept'
    BY <1>2, <1>4 DEF MissingKept
  <1> QED
    BY <1>2, <1>4, <1>8, <1>9, GoIdle DEF SagaNext

LEMMA BeginRollbackSaga ==
    ASSUME OneProcess, SagaInv, NEW e \in Executors, BeginRollback(e)
    PROVE  SagaNext
  <1>1. /\ exec[e].at = "rollback" /\ Go(e, "undo", StepCount)
        /\ run' = [run EXCEPT !.status = "rolling_back"] /\ UNCHANGED <<steps, current, rollback>>
    BY DEF BeginRollback, At
  <1>2. exec[e].at \in Forward
    BY <1>1 DEF Forward
  <1>3. TypeOK /\ JournalUpTo(StepCount) /\ MissingKept /\ ExecTyped
    BY <1>2, ForwardFacts
  <1>4. run'.status = "rolling_back"
    BY <1>1, <1>3 DEF TypeOK
  <1>5. ChangedIsPrefix' /\ JournalUpTo(StepCount)' /\ MissingKept'
    BY <1>1, <1>3, RunningPrefix DEF ChangedIsPrefix, JournalUpTo, MissingKept, Untouched
  <1>6. RunOK'
    BY <1>4, <1>5 DEF RunOK, CompletedAtTarget, RolledBackAtSource
  <1>7. BackwardAt("undo", StepCount)'
    BY <1>5, StepsAreInts, ConstantsAssumption DEF BackwardAt
  <1>8. PlaceOK("undo", StepCount)'
    BY <1>4, <1>7 DEF PlaceOK, Forward, Backward
  <1> QED
    BY <1>1, <1>3, <1>5, <1>6, <1>8, GoPlaces DEF SagaNext

LEMMA BackwardFacts ==
    ASSUME SagaInv, NEW e \in Executors, exec[e].at \in Backward
    PROVE  /\ run.status = "rolling_back" /\ MissingKept /\ ExecTyped /\ TypeOK
           /\ ChangedIsPrefix /\ BackwardAt(exec[e].at, exec[e].position)
  BY DEF SagaInv, TypeInv, TypeOK, ExecTyped, RunOK, PlacesOK, PlaceOK

\* What a place on the way back needs includes that the changed resources are a prefix.
LEMMA BackwardPrefix ==
    ASSUME NEW place \in Backward, NEW p, BackwardAt(place, p)
    PROVE  ChangedIsPrefix
  <1>1. CASE place = "undo"
    BY <1>1, UndoPrefix, ConstantsAssumption DEF BackwardAt
  <1>2. CASE place \in {"restore", "undone", "fail"}
    BY <1>2, SplitPrefix DEF BackwardAt
  <1> QED
    BY <1>1, <1>2 DEF Backward

LEMMA BackwardPrefixNext ==
    ASSUME NEW place \in Backward, NEW p
    PROVE  BackwardAt(place, p)' => ChangedIsPrefix'
  <1>1. BackwardAt(place, p) => ChangedIsPrefix
    BY BackwardPrefix
  <1> QED
    BY <1>1, PTL

LEMMA ChangeBackward ==
    ASSUME OneProcess, SagaInv, NEW e \in Executors, exec[e].at \in Backward,
           NEW place \in Backward, NEW p, Go(e, place, p), run' = run,
           MissingKept', BackwardAt(place, p)'
    PROVE  SagaNext
  <1>1. run.status = "rolling_back" /\ ExecTyped
    BY BackwardFacts
  <1>2. place \notin Forward
    BY DEF Forward, Backward
  <1>3. PlaceOK(place, p)'
    BY <1>1, <1>2 DEF PlaceOK
  <1>4. ChangedIsPrefix'
    BY BackwardPrefixNext
  <1> QED
    BY <1>1, <1>3, <1>4, GoPlaces, RollingOn DEF SagaNext

LEMMA MoveBackward ==
    ASSUME OneProcess, SagaInv, NEW e \in Executors, exec[e].at \in Backward,
           NEW place \in Backward, NEW p, Go(e, place, p), BackwardAt(place, p),
           UNCHANGED <<run, steps, current, rollback>>
    PROVE  SagaNext
  <1>1. MissingKept' /\ BackwardAt(place, p)'
    BY BackwardFacts DEF MissingKept, BackwardAt, JournalUpTo, SplitAt, Untouched
  <1> QED
    BY <1>1, ChangeBackward

\* The journal of the rest of the plan, one position further back.
LEMMA NextBack ==
    ASSUME NEW p \in Steps, JournalUpTo(p - 1), \A n \in Steps : n > p => Untouched(n), Untouched(p)
    PROVE  BackwardAt("undo", p - 1)
  <1>1. p - 1 \in 0 .. StepCount
    BY StepsAreInts, ConstantsAssumption
  <1>2. \A n \in Steps : n > p - 1 => n > p \/ n = p
    BY StepsAreInts
  <1> QED
    BY <1>1, <1>2 DEF BackwardAt

LEMMA UndoFacts ==
    ASSUME SagaInv, NEW e \in Executors, exec[e].at = "undo", exec[e].position \in Steps
    PROVE  /\ exec[e].at \in Backward /\ JournalUpTo(exec[e].position)
           /\ \A n \in Steps : n > exec[e].position => Untouched(n)
           /\ TypeOK /\ MissingKept /\ ExecTyped /\ run.status = "rolling_back"
  <1>1. exec[e].at \in Backward
    BY DEF Backward
  <1> QED
    BY <1>1, BackwardFacts DEF BackwardAt

LEMMA UndoInterruptedBack ==
    ASSUME OneProcess, SagaInv, NEW e \in Executors, UndoInterrupted(e)
    PROVE  SagaNext
  <1>1. PICK n : n = exec[e].position
    OBVIOUS
  <1>2. /\ exec[e].at = "undo" /\ n \in Steps /\ steps[n] = "applying"
        /\ UNCHANGED <<run, current, rollback>>
    BY <1>1 DEF UndoInterrupted, At
  <1>3. /\ exec[e].at \in Backward /\ JournalUpTo(n) /\ \A m \in Steps : m > n => Untouched(m)
        /\ TypeOK /\ MissingKept /\ ExecTyped
    BY <1>1, <1>2, UndoFacts
  <1>4. MissingKept' /\ {"undo", "fail"} \subseteq Backward
    BY <1>2, <1>3 DEF MissingKept, Backward
  <1>5. CASE Recover(n) = "not_applied"
    <2>1. Journal(n, "rolled_back") /\ Go(e, "undo", n - 1)
      BY <1>1, <1>5 DEF UndoInterrupted
    <2>2. Untouched(n)
      BY <1>2, <1>3, <1>5, NotApplied DEF Untouched
    <2>3. \A m \in Steps : m <= n - 1 => steps'[m] = steps[m]
      BY <1>2, <1>3, <2>1, StepsAreInts DEF Journal, TypeOK
    <2>4. JournalUpTo(n - 1)'
      BY <1>2, <1>3, <2>3, StepsAreInts DEF JournalUpTo, Untouched
    <2>5. (\A m \in Steps : m > n => Untouched(m))' /\ Untouched(n)'
      BY <1>2, <1>3, <2>2 DEF Untouched
    <2>6. BackwardAt("undo", n - 1)'
      <3>1. n - 1 \in 0 .. StepCount /\ \A m \in Steps : m > n - 1 => m > n \/ m = n
        BY <1>2, StepsAreInts, ConstantsAssumption
      <3> QED
        BY <2>4, <2>5, <3>1 DEF BackwardAt
    <2> QED
      BY <1>2, <1>3, <1>4, <2>1, <2>6, ChangeBackward
  <1>6. CASE Recover(n) = "applied"
    <2>1. Journal(n, "applied") /\ exec' = exec
      BY <1>1, <1>6 DEF UndoInterrupted
    <2>2. steps'[n] = "applied" /\ \A m \in Steps : m # n => steps'[m] = steps[m]
      BY <1>2, <1>3, <2>1 DEF Journal, TypeOK
    <2>3. JournalUpTo(n)'
      BY <1>2, <1>3, <2>2, StepsAreInts DEF JournalUpTo, Untouched
    <2>4. BackwardAt("undo", n)'
      <3>1. n \in 0 .. StepCount
        BY <1>2, StepsAreInts, ConstantsAssumption
      <3>2. (\A m \in Steps : m > n => Untouched(m))'
        BY <1>2, <1>3 DEF Untouched
      <3> QED
        BY <2>3, <3>1, <3>2 DEF BackwardAt
    <2>5. Go(e, "undo", n)
      BY <1>1, <1>2, <1>3, <2>1, StayIsGo
    <2> QED
      BY <1>2, <1>3, <1>4, <2>4, <2>5, ChangeBackward
  <1>7. CASE Recover(n) \notin {"not_applied", "applied"}
    <2>1. Go(e, "fail", n) /\ steps' = steps
      BY <1>1, <1>7 DEF UndoInterrupted
    <2>2. BackwardAt("fail", n)
      BY <1>2, <1>3, SplitHere DEF BackwardAt
    <2> QED
      BY <1>2, <1>3, <1>4, <2>1, <2>2, MoveBackward
  <1> QED
    BY <1>5, <1>6, <1>7

LEMMA UndoNothingBack ==
    ASSUME OneProcess, SagaInv, NEW e \in Executors, UndoNothing(e)
    PROVE  SagaNext
  <1>1. PICK n : n = exec[e].position
    OBVIOUS
  <1>2. /\ exec[e].at = "undo" /\ n \in Steps /\ steps[n] \in {"prepared", "rolled_back"}
        /\ Go(e, "undo", n - 1) /\ UNCHANGED <<run, steps, current, rollback>>
    BY <1>1 DEF UndoNothing, At
  <1>3. /\ exec[e].at \in Backward /\ JournalUpTo(n) /\ \A m \in Steps : m > n => Untouched(m)
    BY <1>1, <1>2, UndoFacts
  <1>4. Untouched(n) /\ JournalUpTo(n - 1)
    BY <1>2, <1>3, StepsAreInts DEF JournalUpTo
  <1>5. BackwardAt("undo", n - 1) /\ "undo" \in Backward
    BY <1>2, <1>3, <1>4, NextBack DEF Backward
  <1> QED
    BY <1>2, <1>3, <1>5, MoveBackward

LEMMA UndoBack ==
    ASSUME OneProcess, SagaInv, NEW e \in Executors, Undo(e)
    PROVE  SagaNext
  <1>1. PICK n : n = exec[e].position
    OBVIOUS
  <1>2. /\ exec[e].at = "undo" /\ n \in Steps /\ steps[n] \in {"applied", "verified"}
        /\ rollback[n] = "source" /\ UNCHANGED <<run, steps, rollback>>
    BY <1>1 DEF Undo, At
  <1>3. /\ exec[e].at \in Backward /\ JournalUpTo(n) /\ \A m \in Steps : m > n => Untouched(m)
        /\ TypeOK /\ MissingKept
    BY <1>1, <1>2, UndoFacts
  <1>4. SplitAt(n)
    BY <1>2, <1>3, SplitHere
  <1>5. PICK c \in Contents, place \in {"restore", "undone", "fail"} :
            /\ current' = [current EXCEPT ![n] = c] /\ Go(e, place, n)
            /\ place = "undone" => c = "source"
    <2>1. \/ RollbackDirectory(e, n) \/ RollbackSQLite(e, n)
          \/ RollbackPostgres(e, n) \/ RollbackPack(e, n)
      BY <1>1 DEF Undo
    <2>2. \/ current' = [current EXCEPT ![n] = "missing"] /\ Go(e, "restore", n)
          \/ current' = [current EXCEPT ![n] = "source"] /\ Go(e, "undone", n)
          \/ current' = [current EXCEPT ![n] = "partial"] /\ Go(e, "fail", n)
      BY <2>1 DEF RollbackDirectory, RollbackSQLite, RollbackPostgres, RollbackPack
    <2> QED
      BY <2>2 DEF Contents
  <1>6. current'[n] = c /\ \A m \in Steps : m # n => current'[m] = current[m]
    BY <1>2, <1>3, <1>5 DEF TypeOK
  <1>7. MissingKept'
    BY <1>2, <1>3, <1>6 DEF MissingKept
  <1>8. SplitAt(n)'
    BY <1>2, <1>4, <1>6, StepsAreInts DEF SplitAt, Untouched
  <1>9. BackwardAt(place, n)' /\ place \in Backward
    BY <1>2, <1>5, <1>6, <1>8 DEF BackwardAt, Backward
  <1> QED
    BY <1>2, <1>3, <1>5, <1>7, <1>9, ChangeBackward

LEMMA RestoreBack ==
    ASSUME OneProcess, SagaInv, NEW e \in Executors, Restore(e)
    PROVE  SagaNext
  <1>1. PICK n : n = exec[e].position
    OBVIOUS
  <1>2. /\ exec[e].at = "restore" /\ current' = [current EXCEPT ![n] = "source"]
        /\ rollback' = [rollback EXCEPT ![n] = None] /\ Go(e, "undone", n)
        /\ UNCHANGED <<run, steps>>
    BY <1>1 DEF Restore, At
  <1>3. {exec[e].at, "undone"} \subseteq Backward
    BY <1>2 DEF Backward
  <1>4. TypeOK /\ MissingKept /\ n \in Steps /\ SplitAt(n)
    BY <1>1, <1>2, <1>3, BackwardFacts DEF BackwardAt
  <1>5. /\ current'[n] = "source"
        /\ \A m \in Steps : m # n => current'[m] = current[m] /\ rollback'[m] = rollback[m]
    BY <1>2, <1>4 DEF TypeOK
  <1>6. MissingKept'
    BY <1>4, <1>5 DEF MissingKept
  <1>7. SplitAt(n)'
    BY <1>2, <1>4, <1>5, StepsAreInts DEF SplitAt, Untouched
  <1>8. BackwardAt("undone", n)'
    BY <1>4, <1>5, <1>7 DEF BackwardAt
  <1> QED
    BY <1>2, <1>3, <1>6, <1>8, ChangeBackward

LEMMA UndoRaisesBack ==
    ASSUME OneProcess, SagaInv, NEW e \in Executors, UndoRaises(e)
    PROVE  SagaNext
  <1>1. PICK n : n = exec[e].position
    OBVIOUS
  <1>2. /\ \/ exec[e].at = "undo" /\ n \in Steps /\ steps[n] \in {"applied", "verified"}
           \/ exec[e].at \in {"restore", "undone"}
        /\ Go(e, "fail", n) /\ UNCHANGED <<run, steps, current, rollback>>
    BY <1>1 DEF UndoRaises, At
  <1>3. {exec[e].at, "fail"} \subseteq Backward
    BY <1>2 DEF Backward
  <1>4. n \in Steps /\ SplitAt(n)
    <2>1. CASE exec[e].at = "undo" /\ n \in Steps /\ steps[n] \in {"applied", "verified"}
      BY <1>1, <2>1, UndoFacts, SplitHere
    <2>2. CASE exec[e].at \in {"restore", "undone"}
      BY <1>1, <1>3, <2>2, BackwardFacts DEF BackwardAt
    <2> QED
      BY <1>2, <2>1, <2>2
  <1>5. BackwardAt("fail", n)
    BY <1>4 DEF BackwardAt
  <1> QED
    BY <1>2, <1>3, <1>5, MoveBackward

LEMMA RecordUndoneBack ==
    ASSUME OneProcess, SagaInv, NEW e \in Executors, RecordUndone(e)
    PROVE  SagaNext
  <1>1. PICK n : n = exec[e].position
    OBVIOUS
  <1>2. /\ exec[e].at = "undone" /\ Journal(n, "rolled_back") /\ Go(e, "undo", n - 1)
        /\ UNCHANGED <<run, current, rollback>>
    BY <1>1 DEF RecordUndone, At
  <1>3. {exec[e].at, "undo"} \subseteq Backward
    BY <1>2 DEF Backward
  <1>4. TypeOK /\ MissingKept /\ n \in Steps /\ SplitAt(n) /\ current[n] = "source"
    BY <1>1, <1>2, <1>3, BackwardFacts DEF BackwardAt
  <1>5. \A m \in Steps : m < n => steps'[m] = "verified" /\ current'[m] = "target"
    BY <1>2, <1>4, StepsAreInts DEF Journal, TypeOK, SplitAt
  <1>6. JournalUpTo(n - 1)'
    BY <1>4, <1>5, StepsAreInts DEF JournalUpTo
  <1>7. \A m \in Steps : m > n - 1 => current'[m] \in {"source", "drifted"}
    BY <1>2, <1>4, StepsAreInts DEF SplitAt, Untouched
  <1>8. n - 1 \in 0 .. StepCount
    BY <1>4, StepsAreInts, ConstantsAssumption
  <1>9. BackwardAt("undo", n - 1)'
    BY <1>6, <1>7, <1>8 DEF BackwardAt, Untouched
  <1>10. MissingKept'
    BY <1>2, <1>4 DEF MissingKept
  <1> QED
    BY <1>2, <1>3, <1>9, <1>10, ChangeBackward

LEMMA RolledBackSaga ==
    ASSUME OneProcess, SagaInv, NEW e \in Executors, RolledBack(e)
    PROVE  SagaNext
  <1>1. PICK n : n = exec[e].position
    OBVIOUS
  <1>2. /\ exec[e].at = "undo" /\ n \notin Steps /\ Go(e, "idle", 1)
        /\ run' = [run EXCEPT !.status = "rolled_back"] /\ UNCHANGED <<steps, current, rollback>>
    BY <1>1 DEF RolledBack, At
  <1>3. exec[e].at \in Backward
    BY <1>2 DEF Backward
  <1>4. TypeOK /\ MissingKept /\ ExecTyped /\ BackwardAt("undo", n)
    BY <1>1, <1>2, <1>3, BackwardFacts
  <1>5. \A m \in Steps : m > n
    BY <1>2, <1>4, ConstantsAssumption DEF BackwardAt, Steps
  <1>6. \A m \in Steps : current'[m] \in {"source", "drifted"}
    BY <1>2, <1>4, <1>5 DEF BackwardAt, Untouched
  <1>7. run'.status = "rolled_back"
    BY <1>2, <1>4 DEF TypeOK
  <1>8. RunOK'
    BY <1>6, <1>7 DEF RunOK, CompletedAtTarget, RolledBackAtSource, Untouched
  <1>9. MissingKept'
    BY <1>2, <1>4 DEF MissingKept
  <1> QED
    BY <1>2, <1>4, <1>8, <1>9, GoIdle DEF SagaNext

LEMMA RollbackFailsSaga ==
    ASSUME OneProcess, SagaInv, NEW e \in Executors, RollbackFails(e)
    PROVE  SagaNext
  <1>1. /\ exec[e].at = "fail" /\ Go(e, "idle", 1)
        /\ run' = [run EXCEPT !.status = "failed"] /\ UNCHANGED <<steps, current, rollback>>
    BY DEF RollbackFails, At
  <1>2. exec[e].at \in Backward
    BY <1>1 DEF Backward
  <1>3. TypeOK /\ MissingKept /\ ExecTyped /\ ChangedIsPrefix
    BY <1>2, BackwardFacts
  <1>4. run'.status = "failed"
    BY <1>1, <1>3 DEF TypeOK
  <1>5. ChangedIsPrefix' /\ MissingKept'
    BY <1>1, <1>3 DEF ChangedIsPrefix, MissingKept, Untouched
  <1>6. RunOK'
    BY <1>4, <1>5 DEF RunOK, CompletedAtTarget, RolledBackAtSource
  <1> QED
    BY <1>1, <1>3, <1>5, <1>6, GoIdle DEF SagaNext
-----------------------------------------------------------------------------
\* Every step

LEMMA ProceedSaga ==
    ASSUME OneProcess, SagaInv, NEW e \in Executors, Proceed(e)
    PROVE  SagaNext
  BY VerifiedForward, ResumeForward, ReverifyForward, AnnounceForward, ApplyForward,
     SwitchForward, ApplyRaisesForward, RaisedForward, RecordForward, VerifyForward,
     CompleteSaga, BeginRollbackSaga, UndoInterruptedBack, UndoNothingBack, UndoBack,
     RestoreBack, UndoRaisesBack, RecordUndoneBack, RolledBackSaga, RollbackFailsSaga DEF Proceed

\* The process dies: what it left behind is what the journal and the resources say.
LEMMA CrashSaga ==
    ASSUME OneProcess, SagaInv, NEW e \in Executors, Crash(e)
    PROVE  SagaNext
  <1>1. Go(e, "idle", 1) /\ UNCHANGED <<run, steps, current, rollback>>
    BY DEF Crash
  <1>2. MissingKept' /\ RunOK'
    BY <1>1 DEF SagaInv, MissingKept, RunOK, Unbegun, JournalUpTo, ChangedIsPrefix,
       CompletedAtTarget, RolledBackAtSource, Untouched
  <1>3. ExecTyped
    BY DEF SagaInv, TypeInv, TypeOK, ExecTyped
  <1> QED
    BY <1>1, <1>2, <1>3, GoIdle DEF SagaNext

\* A plan is begun, or resumed by the operator who began it, at its first step.
LEMMA ExecuteSaga ==
    ASSUME OneProcess, SagaInv, NEW e \in Executors, NEW actor, Execute(e, actor)
    PROVE  SagaNext
  <1>1. Go(e, "step", 1) /\ UNCHANGED <<steps, current, rollback>>
    BY DEF Execute
  <1>2. TypeOK /\ ExecTyped
    BY DEF SagaInv, TypeInv, TypeOK, ExecTyped
  <1>3. run.status \in {"approved", "running"} /\ run'.status = "running"
    BY <1>2 DEF Execute, TypeOK
  <1>4. JournalUpTo(StepCount)
    BY <1>3 DEF SagaInv, RunOK, Unbegun, JournalUpTo
  <1>5. MissingKept' /\ JournalUpTo(StepCount)'
    BY <1>1, <1>4 DEF SagaInv, MissingKept, JournalUpTo, Untouched
  <1>6. RunOK'
    BY <1>3, <1>5 DEF RunOK, CompletedAtTarget, RolledBackAtSource
  <1>7. ForwardAt("step", 1)'
    BY StepsAreInts, ConstantsAssumption DEF ForwardAt
  <1>8. PlaceOK("step", 1)'
    BY <1>3, <1>7 DEF PlaceOK, Forward, Backward
  <1> QED
    BY <1>1, <1>2, <1>5, <1>6, <1>8, GoPlaces DEF SagaNext

\* A source that is written to before its step is begun stays untouched.
LEMMA DriftSaga ==
    ASSUME SagaInv, NEW n \in Steps, Drift(n)
    PROVE  SagaNext
  <1>1. /\ run.status \in {"prepared", "approved", "running"}
        /\ steps[n] = "prepared" /\ current[n] = "source"
        /\ current' = [current EXCEPT ![n] = "drifted"]
        /\ UNCHANGED <<run, steps, rollback, exec>>
    BY DEF Drift
  <1>2. current'[n] = "drifted" /\ \A m \in Steps : m # n => current'[m] = current[m]
    BY <1>1 DEF SagaInv, TypeInv, TypeOK
  <1>3. MissingKept'
    BY <1>1, <1>2 DEF SagaInv, MissingKept
  <1>4. \A m \in Steps : Untouched(m) => Untouched(m)'
    BY <1>2 DEF Untouched
  <1>5. JournalUpTo(StepCount) => JournalUpTo(StepCount)'
    <2>1. \A m \in Steps : steps[m] = "verified" => current'[m] = current[m]
      BY <1>1, <1>2
    <2> QED
      BY <1>1, <1>4, <2>1 DEF JournalUpTo
  <1>6. Unbegun => Unbegun'
    BY <1>1, <1>4 DEF Unbegun
  <1>7. RunOK'
    BY <1>1, <1>5, <1>6 DEF SagaInv, RunOK, CompletedAtTarget, RolledBackAtSource
  <1>8. PlacesOK'
    <2>1. SUFFICES ASSUME NEW e \in Executors PROVE PlaceOK(exec[e].at, exec[e].position)'
      BY DEF PlacesOK
    <2>2. PlaceOK(exec[e].at, exec[e].position)
      BY DEF SagaInv, PlacesOK
    <2>3. exec[e].at \notin Backward
      BY <1>1, <2>2 DEF PlaceOK
    <2> QED
      BY <1>1, <2>2, <2>3 DEF PlaceOK, ForwardAt
  <1> QED
    BY <1>3, <1>7, <1>8 DEF SagaNext

\* prepare and approve find the plan unbegun and leave it so.
LEMMA PreparationSaga ==
    ASSUME SagaInv, NEW actor, Prepare(actor) \/ Approve(actor)
    PROVE  SagaNext
  <1>1. /\ run.status \in {"none", "prepared"} /\ run'.status \in {"prepared", "approved"}
        /\ UNCHANGED <<steps, current, exec>>
    BY DEF Prepare, Approve, SagaInv, TypeInv, TypeOK
  <1>2. Unbegun
    BY <1>1 DEF SagaInv, RunOK
  <1>3. Unbegun' /\ MissingKept'
    BY <1>1, <1>2 DEF Unbegun, Untouched, MissingKept
  <1>4. RunOK'
    BY <1>1, <1>3 DEF RunOK, CompletedAtTarget, RolledBackAtSource
  <1>5. PlacesOK'
    <2>1. SUFFICES ASSUME NEW e \in Executors PROVE PlaceOK(exec[e].at, exec[e].position)'
      BY DEF PlacesOK
    <2>2. exec[e].at \notin Forward \cup Backward
      BY <1>1 DEF SagaInv, PlacesOK, PlaceOK
    <2> QED
      BY <1>1, <2>2 DEF PlaceOK
  <1> QED
    BY <1>3, <1>4, <1>5 DEF SagaNext

LEMMA StepSaga == OneProcess /\ SagaInv /\ [Next]_vars => SagaInv'
  <1> SUFFICES ASSUME OneProcess, SagaInv, [Next]_vars PROVE SagaInv'
    OBVIOUS
  <1>1. TypeInv'
    BY StepTyped DEF SagaInv
  <1>2. CASE UNCHANGED vars
    BY <1>2 DEF vars, SagaInv, TypeInv, TypeOK, PositionsKept, MissingKept, RunOK, Unbegun,
       JournalUpTo, ChangedIsPrefix, CompletedAtTarget, RolledBackAtSource, Untouched, PlacesOK,
       PlaceOK, ForwardAt, BackwardAt, SplitAt
  <1>3. CASE Next
    <2>1. SagaNext
      BY <1>3, ProceedSaga, CrashSaga, ExecuteSaga, DriftSaga, PreparationSaga DEF Next
    <2> QED
      BY <1>1, <2>1 DEF SagaNext, SagaInv
  <1> QED
    BY <1>2, <1>3

LEMMA InitSaga == Init => SagaInv
  <1> SUFFICES ASSUME Init PROVE SagaInv
    OBVIOUS
  <1>1. TypeInv
    BY InitTyped
  <1>2. MissingKept /\ RunOK
    BY DEF Init, MissingKept, RunOK, Unbegun, Untouched, CompletedAtTarget, RolledBackAtSource
  <1>3. PlacesOK
    BY DEF Init, PlacesOK, PlaceOK, Forward, Backward
  <1> QED
    BY <1>1, <1>2, <1>3 DEF SagaInv

LEMMA SagaInvHolds ==
    ASSUME OneProcess
    PROVE  Spec => []SagaInv
  <1>1. SagaInv /\ [Next]_vars => SagaInv'
    BY StepSaga
  <1> QED
    BY <1>1, InitSaga, PTL DEF Spec

\* A run recorded as completed has every resource at its target, for every plan that one
\* process at a time executes, through any number of crashes and resumptions.
THEOREM CompletedIsTrue ==
    ASSUME OneProcess
    PROVE  Spec => []CompletedAtTarget
  <1>1. SagaInv => CompletedAtTarget
    BY DEF SagaInv, RunOK
  <1> QED
    BY <1>1, SagaInvHolds, PTL

\* A run recorded as rolled_back left no resource changed, for every such plan: the
\* rollback skips nothing that execution changed, also when it is resumed after a crash.
THEOREM RolledBackIsTrue ==
    ASSUME OneProcess
    PROVE  Spec => []RolledBackAtSource
  <1>1. SagaInv => RolledBackAtSource
    BY DEF SagaInv, RunOK
  <1> QED
    BY <1>1, SagaInvHolds, PTL

\* Resources change in the plan's order and return in reverse, for every such plan.
THEOREM ChangesInOrder ==
    ASSUME OneProcess
    PROVE  Spec => []ChangedIsPrefix
  <1>1. SagaInv => ChangedIsPrefix
    <2> SUFFICES ASSUME SagaInv PROVE ChangedIsPrefix
      OBVIOUS
    <2>1. RunOK /\ run.status \in RunStatuses
      BY DEF SagaInv, TypeInv, TypeOK
    <2>2. CASE run.status = "running"
      BY <2>1, <2>2, RunningPrefix DEF RunOK
    <2>3. CASE run.status # "running"
      BY <2>1, <2>3 DEF RunOK, RunStatuses, Unbegun, ChangedIsPrefix, CompletedAtTarget,
         RolledBackAtSource, Untouched
    <2> QED
      BY <2>2, <2>3
  <1> QED
    BY <1>1, SagaInvHolds, PTL
=============================================================================

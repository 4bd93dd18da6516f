----------------------- MODULE DurableJobsHistoryProofs -----------------------
(***************************************************************************)
(* What the durable-job tables record, for every value of the constants:   *)
(* the history of each job, of its leases and of its effects, who was told *)
(* that a command succeeded, and the refinement of JobLifecycle.           *)
(*                                                                         *)
(* Every step is first reduced to one of six shapes (StepCases), in which  *)
(* the snapshot a caller computed from is gone: FencingInv and the same    *)
(* fact about operator commands, CommandsFenced, say that a write which    *)
(* passes the version check was computed from the stored row.              *)
(***************************************************************************)
EXTENDS DurableJobsProofs

\* What a command in flight read is not newer than the stored row and, at the same
\* version, is that row.
CommandFenced(o) ==
    command[o] # None =>
        /\ Exists(command[o].job_id)
        /\ command[o].previous.version <= job[command[o].job_id].version
        /\ command[o].previous.version = job[command[o].job_id].version =>
               command[o].previous = job[command[o].job_id]

CommandsFenced == \A o \in Operators : CommandFenced(o)

RowsInv == FencingInv /\ CommandsFenced
-----------------------------------------------------------------------------
\* The shapes of a step

\* One write of a job row and its evidence, whoever makes it.
Written(j, changed, actor, t, reason) ==
    /\ Exists(j) /\ changed \in JobRow
    /\ changed.version = job[j].version + 1
    /\ changed.updated_at = t /\ job[j].updated_at <= t
    /\ job[j].completed_units <= changed.completed_units
    /\ LegalMove(Evidence(j, job[j], changed, actor, t, reason))
    /\ Evidence(j, job[j], changed, actor, t, reason) \notin transitions
    /\ job' = [job EXCEPT ![j] = changed]
    /\ transitions' = transitions \cup {Evidence(j, job[j], changed, actor, t, reason)}
    /\ submission' = submission

\* A claim, or the takeover of a job whose lease has expired.
ClaimStep(w, j, g, t, e, changed) ==
    /\ Written(j, changed, w, t,
               IF job[j].status = "running" THEN "LEASE_TAKEOVER" ELSE "CLAIMED")
    /\ job[j].status \in {"queued", "retrying", "running"}
    /\ job[j].status = "running" /\ lease[j] # None => lease[j].expires_at <= t
    /\ changed.status = "running"
    /\ changed.completed_units = job[j].completed_units
    /\ changed.retry_count = job[j].retry_count
    /\ NextGeneration(j, g)
    /\ lease' = [lease EXCEPT ![j] = [owner_id |-> w, generation |-> g, acquired_at |-> t,
                                      expires_at |-> e]]
    /\ AppendLeaseEvent(j, w, g, IF job[j].status = "running" THEN "taken_over" ELSE "claimed")
    /\ UNCHANGED <<effects, command, acked>>

\* The caller holds the stored lease.
Owns(w, j, t) ==
    /\ held[w] # None /\ held[w].job_id = j
    /\ lease[j] # None /\ lease[j].owner_id = w
    /\ lease[j].generation = held[w].lease.generation
    /\ t < lease[j].expires_at

RenewStep(w, j, t, e) ==
    /\ Owns(w, j, t)
    /\ lease' = [lease EXCEPT ![j].expires_at = e]
    /\ AppendLeaseEvent(j, w, lease[j].generation, "renewed")
    /\ UNCHANGED <<submission, job, transitions, effects, command, acked>>

\* The owner writes and keeps the lease.
AdvanceStep(w, j, t, changed) ==
    /\ Owns(w, j, t) /\ job[j].status = "running"
    /\ Written(j, changed, w, t, "CHECKPOINTED")
    /\ changed.status = "running" /\ changed.retry_count = job[j].retry_count
    /\ changed.completed_units < TotalUnits
    /\ UNCHANGED effects \/ \E p \in Partitions : CommitEffect(j, p, changed)
    /\ UNCHANGED <<lease, leaseEvents, command, acked>>

\* The owner writes and releases the lease.
ReleaseStep(w, j, t, changed, reason) ==
    /\ Owns(w, j, t) /\ job[j].status = "running"
    /\ Written(j, changed, w, t, reason)
    /\ changed.retry_count = RetriesAfter(job[j], changed.status)
    /\ \/ /\ changed.status = "completed" /\ changed.completed_units = TotalUnits
          /\ reason = "FINISHED"
          /\ UNCHANGED effects \/ \E p \in Partitions : CommitEffect(j, p, changed)
       \/ /\ changed.status \in {"retrying", "failed", "paused", "cancelled"}
          /\ changed.completed_units = job[j].completed_units
          /\ UNCHANGED effects
    /\ lease' = [lease EXCEPT ![j] = None]
    /\ AppendLeaseEvent(j, w, lease[j].generation, "released")
    /\ UNCHANGED <<command, acked>>

\* An operator's command commits.
CommandStep(o, j, t, changed) ==
    /\ lease[j] = None
    /\ Written(j, changed, o, t, CommandReason[changed.status])
    /\ <<job[j].status, changed.status>> \in AllowedUnleased
    /\ changed.completed_units = job[j].completed_units
    /\ changed.retry_count = job[j].retry_count
    /\ UNCHANGED <<lease, leaseEvents, effects, held>>

\* A step that changes no table.
QuietStep == UNCHANGED <<submission, job, transitions, lease, leaseEvents, effects>>
-----------------------------------------------------------------------------
\* Every step has one of the shapes

\* A write computed from the stored row is of the form Written.
LEMMA PersistIsWritten ==
    ASSUME TypeOK, NEW j \in Jobs, job[j] \in JobRow, NEW changed \in AnyRow,
           NEW actor, NEW t, NEW reason,
           PersistTransitionRows(j, job[j], changed, actor, t, reason),
           changed.updated_at = t, job[j].updated_at <= t,
           job[j].completed_units <= changed.completed_units,
           LegalMove(Evidence(j, job[j], changed, actor, t, reason)),
           submission' = submission
    PROVE  Written(j, changed, actor, t, reason)
  <1>1. changed \in JobRow
    BY BoundsAssumption DEF PersistTransitionRows, AnyRow, JobRow
  <1>2. Evidence(j, job[j], changed, actor, t, reason) \notin transitions
    BY DEF PersistTransitionRows, Evidence
  <1> QED
    BY <1>1, <1>2 DEF PersistTransitionRows, Written

LEMMA ClaimShape ==
    ASSUME RowsInv, NEW w \in Workers, NEW l \in Lanes, NEW t \in Times, NEW e \in Times,
           NEW lost \in BOOLEAN, Claim(w, l, t, e, lost)
    PROVE  \E j \in Jobs, g \in 1..MaxLeaseEvents, changed \in JobRow :
               ClaimStep(w, j, g, t, e, changed)
  <1> DEFINE Waiting(j) == job[j].status # "running"
             Changed(j) == IF Waiting(j)
                           THEN Transitioned(job[j], "running", job[j].completed_units, t)
                           ELSE Reclaimed(job[j], t)
             Reason(j) == IF Waiting(j) THEN "CLAIMED" ELSE "LEASE_TAKEOVER"
             Action(j) == IF Waiting(j) THEN "claimed" ELSE "taken_over"
  <1>1. PICK j \in Jobs, g \in 1..MaxLeaseEvents :
             /\ Claimable(j, l, t)
             /\ IF Waiting(j) THEN CanTransition(job[j], "running", t)
                              ELSE CanReclaim(job[j], t)
             /\ NextGeneration(j, g)
             /\ PersistTransitionRows(j, job[j], Changed(j), w, t, Reason(j))
             /\ lease' = [lease EXCEPT ![j] = [owner_id |-> w, generation |-> g,
                                               acquired_at |-> t, expires_at |-> e]]
             /\ AppendLeaseEvent(j, w, g, Action(j))
    BY DEF Claim, ClaimHead
  <1>2. TypeOK /\ job[j] \in JobRow
    BY <1>1, ExistingRow DEF RowsInv, FencingInv, Claimable
  <1>3. job[j].completed_units \in 0..TotalUnits /\ job[j].completed_units \in Nat
        /\ job[j].updated_at \in Nat /\ job[j].retry_count \in Nat /\ t \in Nat
    BY <1>2, BoundsAssumption DEF JobRow, Times
  <1>4. /\ Changed(j) \in AnyRow /\ Changed(j).status = "running"
        /\ Changed(j).version = job[j].version + 1
    <2>1. "running" \in Status
      BY DEF Status
    <2> QED
      BY <1>1, <1>2, <1>3, <2>1, TransitionedRow, ReclaimedRow DEF CanReclaim
  <1>5. /\ Changed(j).updated_at = t /\ Changed(j).completed_units = job[j].completed_units
        /\ Changed(j).retry_count = job[j].retry_count
    BY <1>3 DEF Transitioned, Reclaimed, RetriesAfter
  <1>6. LegalMove(Evidence(j, job[j], Changed(j), w, t, Reason(j)))
    BY <1>1, <1>4 DEF LegalMove, Evidence, CanTransition, CanReclaim
  <1>7. job[j].updated_at <= t
    BY <1>1, <1>3 DEF CanTransition, CanReclaim
  <1>8. /\ job[j].status \in {"queued", "retrying", "running"}
        /\ job[j].status = "running" /\ lease[j] # None => lease[j].expires_at <= t
    BY <1>1 DEF Claimable
  <1>9. UNCHANGED <<submission, effects, command, acked>>
    BY DEF Claim
  <1>10. /\ Reason(j) = IF job[j].status = "running" THEN "LEASE_TAKEOVER" ELSE "CLAIMED"
         /\ Action(j) = IF job[j].status = "running" THEN "taken_over" ELSE "claimed"
    OBVIOUS
  <1> HIDE DEF Changed, Reason, Action
  <1>11. Written(j, Changed(j), w, t, Reason(j))
    BY <1>1, <1>2, <1>3, <1>4, <1>5, <1>6, <1>7, <1>9, PersistIsWritten
  <1>12. ClaimStep(w, j, g, t, e, Changed(j))
    BY <1>1, <1>4, <1>5, <1>8, <1>9, <1>10, <1>11 DEF ClaimStep
  <1>13. Changed(j) \in JobRow
    BY <1>11 DEF Written
  <1> QED
    BY <1>12, <1>13

\* A held snapshot that passes the version check is the stored row.
LEMMA OwnerIsCurrent ==
    ASSUME RowsInv, NEW w \in Workers, held[w] # None, NEW t, NEW changed, NEW reason,
           OwnsLease(w, held[w].job_id, held[w].lease.generation, t),
           PersistTransitionRows(held[w].job_id, held[w].job, changed, w, t, reason)
    PROVE  /\ held[w].job_id \in Jobs /\ held[w].job = job[held[w].job_id]
           /\ job[held[w].job_id] \in JobRow /\ job[held[w].job_id].status = "running"
           /\ t \in Nat => Owns(w, held[w].job_id, t)
  <1>1. held[w].job_id \in Jobs /\ held[w].job \in JobRow
    BY HeldTyped DEF RowsInv, FencingInv
  <1>2. HeldFenced(w) /\ held[w].job.version = job[held[w].job_id].version
    BY DEF RowsInv, FencingInv, VersionFencesStaleWorkers, PersistTransitionRows
  <1>3. lease[held[w].job_id].expires_at \in Nat
    BY <1>1, BoundsAssumption DEF OwnsLease, RowsInv, FencingInv, TypeOK, LeaseRow, Times
  <1> QED
    BY <1>1, <1>2, <1>3 DEF HeldFenced, OwnsLease, Owns

LEMMA CheckpointShape ==
    ASSUME RowsInv, NEW w \in Workers, NEW t \in Times, NEW u \in 0..TotalUnits,
           NEW lost \in BOOLEAN, held[w] # None, CanCheckpoint(held[w].job, u, t),
           OwnedWrite(w, Checkpointed(held[w].job, u, t), t, "CHECKPOINTED", lost),
           UNCHANGED effects \/ \E p \in Partitions :
               CommitEffect(held[w].job_id, p, Checkpointed(held[w].job, u, t))
    PROVE  \E j \in Jobs, changed \in JobRow : AdvanceStep(w, j, t, changed)
  <1> DEFINE j == held[w].job_id
             changed == Checkpointed(held[w].job, u, t)
  <1>1. PersistTransitionRows(j, held[w].job, changed, w, t, "CHECKPOINTED")
        /\ OwnsLease(w, j, held[w].lease.generation, t)
        /\ UNCHANGED <<submission, lease, leaseEvents, command, acked>>
    BY DEF OwnedWrite
  <1>2. t \in Nat /\ u \in Nat
    BY BoundsAssumption DEF Times
  <1>3. /\ j \in Jobs /\ held[w].job = job[j] /\ job[j] \in JobRow
        /\ job[j].status = "running" /\ Owns(w, j, t)
    BY <1>1, <1>2, OwnerIsCurrent
  <1>4. /\ changed \in AnyRow /\ changed.status = "running"
        /\ changed.updated_at = t /\ changed.completed_units = u
        /\ changed.retry_count = job[j].retry_count
    BY <1>3, CheckpointedRow DEF Checkpointed
  <1>5. /\ job[j].updated_at <= t /\ job[j].completed_units <= u /\ u < TotalUnits
    BY <1>2, <1>3, BoundsAssumption DEF CanCheckpoint, JobRow, Times
  <1>6. LegalMove(Evidence(j, job[j], changed, w, t, "CHECKPOINTED"))
    BY <1>3, <1>4 DEF LegalMove, Evidence
  <1>7. TypeOK
    BY DEF RowsInv, FencingInv
  <1>8. PersistTransitionRows(j, job[j], changed, w, t, "CHECKPOINTED")
    BY <1>1, <1>3
  <1>9. UNCHANGED effects \/ \E p \in Partitions : CommitEffect(j, p, changed)
    OBVIOUS
  <1> HIDE DEF changed, j
  <1>10. Written(j, changed, w, t, "CHECKPOINTED")
    BY <1>1, <1>3, <1>4, <1>5, <1>6, <1>7, <1>8, PersistIsWritten
  <1>11. AdvanceStep(w, j, t, changed)
    BY <1>1, <1>3, <1>4, <1>5, <1>9, <1>10 DEF AdvanceStep
  <1> QED
    BY <1>3, <1>10, <1>11 DEF Written

LEMMA ReleaseShape ==
    ASSUME RowsInv, NEW w \in Workers, NEW t \in Times, NEW u \in 0..TotalUnits,
           NEW lost \in BOOLEAN, NEW to \in Status, NEW reason, held[w] # None,
           CanTransition(held[w].job, to, t),
           OwnedRelease(w, Transitioned(held[w].job, to, u, t), t, reason, lost),
           \/ /\ to = "completed" /\ u = TotalUnits /\ reason = "FINISHED"
              /\ UNCHANGED effects \/ \E p \in Partitions :
                    CommitEffect(held[w].job_id, p, Transitioned(held[w].job, to, u, t))
           \/ /\ to \in {"retrying", "failed", "paused", "cancelled"}
              /\ u = held[w].job.completed_units
              /\ UNCHANGED effects
    PROVE  \E j \in Jobs, changed \in JobRow : ReleaseStep(w, j, t, changed, reason)
  <1> DEFINE j == held[w].job_id
             changed == Transitioned(held[w].job, to, u, t)
  <1>1. /\ PersistTransitionRows(j, held[w].job, changed, w, t, reason)
        /\ OwnsLease(w, j, held[w].lease.generation, t)
        /\ lease' = [lease EXCEPT ![j] = None]
        /\ AppendLeaseEvent(j, w, held[w].lease.generation, "released")
        /\ UNCHANGED <<submission, command, acked>>
    BY DEF OwnedRelease
  <1>2. t \in Nat /\ u \in Nat
    BY BoundsAssumption DEF Times
  <1>3. /\ j \in Jobs /\ held[w].job = job[j] /\ job[j] \in JobRow
        /\ job[j].status = "running" /\ Owns(w, j, t)
    BY <1>1, <1>2, OwnerIsCurrent
  <1>4. /\ changed \in AnyRow /\ changed.status = to
        /\ changed.updated_at = t /\ changed.completed_units = u
        /\ changed.retry_count = RetriesAfter(job[j], to)
    BY <1>3, TransitionedRow DEF Transitioned
  <1>5. job[j].updated_at <= t /\ job[j].completed_units <= u
    BY <1>2, <1>3, BoundsAssumption DEF CanTransition, JobRow, Times
  <1>6. LegalMove(Evidence(j, job[j], changed, w, t, reason))
    BY <1>3, <1>4 DEF LegalMove, Evidence, CanTransition
  <1>7. TypeOK
    BY DEF RowsInv, FencingInv
  <1>8. PersistTransitionRows(j, job[j], changed, w, t, reason)
    BY <1>1, <1>3
  <1>9. \/ /\ to = "completed" /\ u = TotalUnits /\ reason = "FINISHED"
           /\ UNCHANGED effects \/ \E p \in Partitions : CommitEffect(j, p, changed)
        \/ /\ to \in {"retrying", "failed", "paused", "cancelled"}
           /\ u = job[j].completed_units /\ UNCHANGED effects
    BY <1>3
  <1>10. AppendLeaseEvent(j, w, lease[j].generation, "released")
    BY <1>1, <1>3 DEF Owns
  <1> HIDE DEF changed, j
  <1>11. Written(j, changed, w, t, reason)
    BY <1>1, <1>3, <1>4, <1>5, <1>6, <1>7, <1>8, PersistIsWritten
  <1>12. ReleaseStep(w, j, t, changed, reason)
    BY <1>1, <1>3, <1>4, <1>9, <1>10, <1>11 DEF ReleaseStep
  <1> QED
    BY <1>3, <1>11, <1>12 DEF Written

LEMMA CommandShape ==
    ASSUME RowsInv, NEW o \in Operators, NEW t \in Times, NEW lost \in BOOLEAN,
           CommandCommit(o, t, lost)
    PROVE  \E j \in Jobs, changed \in JobRow :
               /\ j = command[o].job_id /\ changed.status = command[o].to_status
               /\ changed.version = command[o].previous.version + 1
               /\ CommandStep(o, j, t, changed)
  <1> DEFINE c == command[o]
             j == c.job_id
             changed == Transitioned(c.previous, c.to_status, c.previous.completed_units, t)
  <1>1. c # None /\ c \in Command /\ TypeOK
    BY DEF CommandCommit, RowsInv, FencingInv, TypeOK
  <1>2. /\ j \in Jobs /\ c.previous \in JobRow /\ c.to_status \in {"queued", "cancelled"}
        /\ c.to_status \in Status
    BY <1>1 DEF Command, Status
  <1>3. /\ PersistTransitionRows(j, c.previous, changed, o, t, CommandReason[c.to_status])
        /\ CanTransition(c.previous, c.to_status, t) /\ lease[j] = None
        /\ <<c.previous.status, c.to_status>> \in AllowedUnleased
        /\ UNCHANGED <<submission, lease, leaseEvents, effects, held>>
    BY DEF CommandCommit
  <1>4. c.previous = job[j]
    BY <1>1, <1>3 DEF RowsInv, CommandsFenced, CommandFenced, PersistTransitionRows
  <1>5. /\ changed \in AnyRow /\ changed.status = c.to_status
        /\ changed.version = c.previous.version + 1
    <2>1. c.previous.completed_units \in 0..TotalUnits
      BY <1>2 DEF JobRow
    <2> QED
      BY <1>2, <1>3, <2>1, TransitionedRow
  <1>6. /\ changed.updated_at = t /\ changed.completed_units = job[j].completed_units
        /\ changed.retry_count = job[j].retry_count
    BY <1>2, <1>4, BoundsAssumption DEF Transitioned, RetriesAfter, JobRow
  <1>7. job[j].updated_at <= t /\ job[j].completed_units <= changed.completed_units
    BY <1>2, <1>3, <1>4, <1>6, BoundsAssumption DEF CanTransition, JobRow, Times
  <1>8. LegalMove(Evidence(j, job[j], changed, o, t, CommandReason[c.to_status]))
    BY <1>3, <1>4, <1>5 DEF LegalMove, Evidence, CanTransition
  <1>9. PersistTransitionRows(j, job[j], changed, o, t, CommandReason[c.to_status])
    BY <1>3, <1>4
  <1> HIDE DEF changed, j
  <1>10. Written(j, changed, o, t, CommandReason[c.to_status])
    BY <1>1, <1>2, <1>3, <1>4, <1>5, <1>6, <1>7, <1>8, <1>9, PersistIsWritten
  <1>11. CommandStep(o, j, t, changed)
    BY <1>3, <1>4, <1>5, <1>6, <1>10 DEF CommandStep
  <1> QED
    BY <1>2, <1>5, <1>10, <1>11 DEF Written, j

StepShape ==
    \/ \E j \in Jobs, k \in IdemKeys, l \in Lanes, cap \in Caps, t \in Times :
           Submit(j, k, l, cap, t)
    \/ \E w \in Workers, t \in Times, e \in Times, j \in Jobs, g \in 1..MaxLeaseEvents,
          changed \in JobRow : ClaimStep(w, j, g, t, e, changed)
    \/ \E w \in Workers, t \in Times, e \in Times, j \in Jobs : RenewStep(w, j, t, e)
    \/ \E w \in Workers, t \in Times, j \in Jobs, changed \in JobRow :
           AdvanceStep(w, j, t, changed)
    \/ \E w \in Workers, t \in Times, j \in Jobs, changed \in JobRow, reason \in ReasonCodes :
           ReleaseStep(w, j, t, changed, reason)
    \/ \E o \in Operators, t \in Times, j \in Jobs, changed \in JobRow :
           CommandStep(o, j, t, changed)
    \/ QuietStep

LEMMA StepCases ==
    ASSUME RowsInv, [Next]_vars
    PROVE  StepShape
  <1> USE DEF StepShape
  <1>1. ASSUME NEW w \in Workers, WorkerStep(w) PROVE StepShape
    <2>1. ASSUME NEW l \in Lanes, NEW t \in Times, NEW e \in Times, NEW lost \in BOOLEAN,
                 Claim(w, l, t, e, lost)
          PROVE  StepShape
      BY <2>1, ClaimShape
    <2>2. ASSUME NEW t \in Times, NEW e \in Times, NEW lost \in BOOLEAN,
                 Heartbeat(w, t, e, lost)
          PROVE  StepShape
      <3> DEFINE j == held[w].job_id
      <3>1. held[w] # None /\ j \in Jobs
        BY <2>2, HeldTyped DEF Heartbeat, RowsInv, FencingInv
      <3>2. /\ OwnsLease(w, j, held[w].lease.generation, t)
            /\ lease' = [lease EXCEPT ![j].expires_at = e]
            /\ AppendLeaseEvent(j, w, held[w].lease.generation, "renewed")
            /\ UNCHANGED <<submission, job, transitions, effects, command, acked>>
        BY <2>2 DEF Heartbeat
      <3>3. t \in Nat /\ lease[j].expires_at \in Nat
        BY <3>1, <3>2, BoundsAssumption
           DEF OwnsLease, RowsInv, FencingInv, TypeOK, LeaseRow, Times
      <3>4. Owns(w, j, t)
        BY <3>1, <3>2, <3>3 DEF Owns, OwnsLease
      <3>5. RenewStep(w, j, t, e)
        BY <3>2, <3>4 DEF RenewStep, Owns
      <3> QED
        BY <3>1, <3>5
    <2>3. ASSUME NEW t \in Times, NEW u \in 0..TotalUnits, NEW lost \in BOOLEAN,
                 Checkpoint(w, t, u, lost)
          PROVE  StepShape
      BY <2>3, CheckpointShape DEF Checkpoint
    <2>4. ASSUME NEW p \in Partitions, NEW t \in Times, NEW u \in 0..TotalUnits,
                 NEW lost \in BOOLEAN, CommitPartition(w, p, t, u, lost)
          PROVE  StepShape
      BY <2>4, CheckpointShape DEF CommitPartition
    <2>5. TotalUnits \in 0..TotalUnits /\ "completed" \in Status /\ "FINISHED" \in ReasonCodes
      BY BoundsAssumption DEF Status, ReasonCodes
    <2>6. ASSUME NEW p \in Partitions, NEW t \in Times, NEW lost \in BOOLEAN,
                 CompletePartition(w, p, t, lost)
          PROVE  StepShape
      BY <2>5, <2>6, ReleaseShape DEF CompletePartition
    <2>7. ASSUME NEW t \in Times, NEW lost \in BOOLEAN, Complete(w, t, lost)
          PROVE  StepShape
      BY <2>5, <2>7, ReleaseShape DEF Complete
    <2>8. ASSUME NEW to \in DOMAIN FinishReason, NEW t \in Times, NEW lost \in BOOLEAN,
                 FinishWithStatus(w, to, t, lost)
          PROVE  StepShape
      <3>1. held[w] # None /\ held[w].job \in JobRow
        BY <2>8, HeldTyped DEF FinishWithStatus, RowsInv, FencingInv
      <3>2. /\ held[w].job.completed_units \in 0..TotalUnits
            /\ to \in {"retrying", "failed", "paused", "cancelled"} /\ to \in Status
            /\ FinishReason[to] \in ReasonCodes
        BY <3>1 DEF JobRow, FinishReason, Status, ReasonCodes
      <3>3. \E j \in Jobs, changed \in JobRow : ReleaseStep(w, j, t, changed, FinishReason[to])
        BY <2>8, <3>1, <3>2, ReleaseShape DEF FinishWithStatus
      <3> QED
        BY <3>2, <3>3
    <2>9. CASE Abandon(w)
      BY <2>9 DEF Abandon, QuietStep
    <2> QED
      BY <1>1, <2>1, <2>2, <2>3, <2>4, <2>6, <2>7, <2>8, <2>9 DEF WorkerStep
  <1>2. ASSUME NEW o \in Operators, OperatorStep(o) PROVE StepShape
    <2>1. ASSUME NEW t \in Times, NEW lost \in BOOLEAN, CommandCommit(o, t, lost)
          PROVE  StepShape
      BY <2>1, CommandShape
    <2>2. CASE ~ \E t \in Times, lost \in BOOLEAN : CommandCommit(o, t, lost)
      <3>1. QuietStep
        BY <1>2, <2>2 DEF OperatorStep, CommandRead, CommandReplay, CommandGiveUp, QuietStep
      <3> QED
        BY <3>1
    <2> QED
      BY <2>1, <2>2
  <1>3. CASE UNCHANGED vars
    BY <1>3 DEF vars, QuietStep
  <1> QED
    BY <1>1, <1>2, <1>3 DEF Next
-----------------------------------------------------------------------------
\* What a write does to the rows

LEMMA WrittenFacts ==
    ASSUME TypeOK, NEW j \in Jobs, NEW changed \in JobRow, NEW actor, NEW t, NEW reason,
           Written(j, changed, actor, t, reason)
    PROVE  /\ job[j] \in JobRow /\ job[j].version \in Nat \ {0} /\ changed.version \in Nat
           /\ job[j].completed_units \in Nat /\ changed.completed_units \in Nat
           /\ job'[j] = changed /\ \A i \in Jobs : i # j => job'[i] = job[i]
           /\ \A i \in Jobs : Exists(i)' <=> Exists(i)
  <1>1. job[j] \in JobRow
    BY ExistingRow DEF Written
  <1> QED
    BY <1>1, BoundsAssumption DEF Written, JobRow, TypeOK, Exists

LEMMA ShapeWrites ==
    ASSUME StepShape
    PROVE  \/ \E j \in Jobs, k \in IdemKeys, l \in Lanes, cap \in Caps, t \in Times :
                  Submit(j, k, l, cap, t)
           \/ \E j \in Jobs, changed \in JobRow, actor \in Actors, t \in Times : \E reason :
                  Written(j, changed, actor, t, reason)
           \/ UNCHANGED <<submission, job, transitions>>
  <1> USE DEF Actors
  <1>1. CASE \E j \in Jobs, k \in IdemKeys, l \in Lanes, cap \in Caps, t \in Times :
                 Submit(j, k, l, cap, t)
    BY <1>1
  <1>2. CASE \E w \in Workers, t \in Times, e \in Times, j \in Jobs, g \in 1..MaxLeaseEvents,
                changed \in JobRow : ClaimStep(w, j, g, t, e, changed)
    BY <1>2 DEF ClaimStep
  <1>3. CASE \E w \in Workers, t \in Times, e \in Times, j \in Jobs : RenewStep(w, j, t, e)
    BY <1>3 DEF RenewStep
  <1>4. CASE \E w \in Workers, t \in Times, j \in Jobs, changed \in JobRow :
                 AdvanceStep(w, j, t, changed)
    BY <1>4 DEF AdvanceStep
  <1>5. CASE \E w \in Workers, t \in Times, j \in Jobs, changed \in JobRow,
                reason \in ReasonCodes : ReleaseStep(w, j, t, changed, reason)
    BY <1>5 DEF ReleaseStep
  <1>6. CASE \E o \in Operators, t \in Times, j \in Jobs, changed \in JobRow :
                 CommandStep(o, j, t, changed)
    BY <1>6 DEF CommandStep
  <1>7. CASE QuietStep
    BY <1>7 DEF QuietStep
  <1> QED
    BY <1>1, <1>2, <1>3, <1>4, <1>5, <1>6, <1>7 DEF StepShape

\* Jobs are never deleted and change only by a new version; evidence is never removed.
LEMMA JobsGrow ==
    ASSUME TypeOK, StepShape, NEW i \in Jobs, Exists(i)
    PROVE  /\ Exists(i)' /\ job[i].version \in Nat
           /\ job'[i] = job[i] \/ (job'[i].version \in Nat /\ job[i].version < job'[i].version)
  <1>1. job[i].version \in Nat
    BY ExistingRow, BoundsAssumption DEF JobRow
  <1>2. ASSUME NEW j \in Jobs, NEW changed \in JobRow, NEW actor, NEW t, NEW reason,
               Written(j, changed, actor, t, reason)
        PROVE  /\ Exists(i)'
               /\ job'[i] = job[i] \/ (job'[i].version \in Nat /\ job[i].version < job'[i].version)
    <2>1. /\ job'[j] = changed /\ \A h \in Jobs : h # j => job'[h] = job[h]
          /\ Exists(i)' /\ changed.version \in Nat
      BY <1>2, WrittenFacts
    <2>2. changed.version = job[j].version + 1
      BY <1>2 DEF Written
    <2> QED
      BY <1>1, <2>1, <2>2
  <1>3. ASSUME NEW j \in Jobs, NEW k, NEW l, NEW cap, NEW t, Submit(j, k, l, cap, t)
        PROVE  Exists(i)' /\ job'[i] = job[i]
    BY <1>3 DEF Submit, Exists, TypeOK
  <1>4. ASSUME UNCHANGED <<submission, job>>
        PROVE  Exists(i)' /\ job'[i] = job[i]
    BY <1>4 DEF Exists
  <1> QED
    BY <1>1, <1>2, <1>3, <1>4, ShapeWrites

LEMMA EvidenceGrows ==
    ASSUME StepShape
    PROVE  transitions \subseteq transitions'
  <1>1. \A j, k, l, cap, t : Submit(j, k, l, cap, t) => transitions \subseteq transitions'
    BY DEF Submit
  <1>2. \A j, changed, actor, t, reason :
            Written(j, changed, actor, t, reason) => transitions \subseteq transitions'
    BY DEF Written
  <1> QED
    BY <1>1, <1>2, ShapeWrites

\* A command in flight is overtaken, never invalidated.
LEMMA CommandsStayFenced ==
    ASSUME RowsInv, [Next]_vars
    PROVE  CommandsFenced'
  <1>1. StepShape /\ TypeOK
    BY StepCases DEF RowsInv, FencingInv
  <1>2. SUFFICES ASSUME NEW o \in Operators, command'[o] # None PROVE CommandFenced(o)'
    BY DEF CommandsFenced, CommandFenced
  <1>3. CASE command'[o] = command[o]
    <2>0. PICK c : c = command[o]
      OBVIOUS
    <2>1. c \in Command /\ CommandFenced(o) /\ c # None
      BY <1>1, <1>2, <1>3, <2>0 DEF TypeOK, RowsInv, CommandsFenced
    <2>2. c.job_id \in Jobs /\ c.previous.version \in Nat /\ Exists(c.job_id)
      BY <2>0, <2>1, BoundsAssumption DEF Command, JobRow, CommandFenced
    <2>3. /\ Exists(c.job_id)' /\ job[c.job_id].version \in Nat
          /\ \/ job'[c.job_id] = job[c.job_id]
             \/ /\ job'[c.job_id].version \in Nat
                /\ job[c.job_id].version < job'[c.job_id].version
      BY <1>1, <2>2, JobsGrow
    <2>4. /\ c.previous.version <= job[c.job_id].version
          /\ c.previous.version = job[c.job_id].version => c.previous = job[c.job_id]
      BY <2>0, <2>1 DEF CommandFenced
    <2> QED
      BY <1>3, <2>0, <2>2, <2>3, <2>4 DEF CommandFenced, Exists
  <1>4. CASE command'[o] # command[o]
    <2>1. \E j \in Jobs : \E to, v : CommandRead(o, j, to, v)
      <3>1. Next
        BY <1>4 DEF vars
      <3>2. \A j, k, l, cap, t : ~ Submit(j, k, l, cap, t)
        BY <1>4 DEF Submit
      <3>3. ASSUME NEW w \in Workers PROVE ~ WorkerStep(w)
        <4>1. \A l, t, e, lost : ~ Claim(w, l, t, e, lost) /\ ~ Heartbeat(w, t, e, lost)
          BY <1>4 DEF Claim, Heartbeat
        <4>2. \A changed, t, reason, lost : /\ ~ OwnedWrite(w, changed, t, reason, lost)
                                            /\ ~ OwnedRelease(w, changed, t, reason, lost)
          BY <1>4 DEF OwnedWrite, OwnedRelease
        <4>3. \A p, t, u, lost : ~ Checkpoint(w, t, u, lost) /\ ~ CommitPartition(w, p, t, u, lost)
          BY <4>2 DEF Checkpoint, CommitPartition
        <4>4. \A p, t, to, lost : /\ ~ CompletePartition(w, p, t, lost) /\ ~ Complete(w, t, lost)
                                  /\ ~ FinishWithStatus(w, to, t, lost)
          BY <4>2 DEF CompletePartition, Complete, FinishWithStatus
        <4>5. ~ Abandon(w)
          BY <1>4 DEF Abandon
        <4> QED
          BY <4>1, <4>3, <4>4, <4>5 DEF WorkerStep
      <3>4. PICK q \in Operators : OperatorStep(q)
        BY <3>1, <3>2, <3>3 DEF Next
      <3>5. ASSUME command' = [command EXCEPT ![q] = None] PROVE FALSE
        BY <1>1, <1>2, <1>4, <3>5 DEF TypeOK
      <3>6. PICK j \in Jobs : \E to, v : CommandRead(q, j, to, v)
        BY <3>4, <3>5 DEF OperatorStep, CommandReplay, CommandCommit, CommandGiveUp
      <3>7. q = o
        BY <1>1, <1>4, <3>6 DEF CommandRead, TypeOK
      <3> QED
        BY <3>6, <3>7
    <2>2. PICK j \in Jobs : /\ Exists(j) /\ command'[o].job_id = j
                            /\ command'[o].previous = job[j]
                            /\ UNCHANGED <<submission, job>>
      BY <1>1, <2>1 DEF CommandRead, TypeOK
    <2>3. job[j].version \in Nat
      BY <1>1, <2>2, ExistingRow, BoundsAssumption DEF JobRow
    <2> QED
      BY <2>2, <2>3 DEF CommandFenced, Exists
  <1> QED
    BY <1>3, <1>4

LEMMA RowsInvHolds == Spec => []RowsInv
  <1>1. Init => RowsInv
    BY InitTyped DEF Init, RowsInv, FencingInv, LeaseIffRunning, VersionFencesStaleWorkers,
       HeldFenced, CommandsFenced, CommandFenced, Exists
  <1>2. RowsInv /\ [Next]_vars => RowsInv'
    BY StepTyped, StepFenced, CommandsStayFenced DEF RowsInv, FencingInv
  <1> QED
    BY <1>1, <1>2, PTL DEF Spec
-----------------------------------------------------------------------------
\* The history of a job

\* The conjuncts of TransitionHistory: every row is of a stored version, no version has
\* two, and the rows of a job are the chain that ends in the stored row.
RowsBelow == \A r \in transitions : Exists(r.job_id) /\ r.job_version <= job[r.job_id].version

OneRowEach ==
    \A r, q \in transitions : r.job_id = q.job_id /\ r.job_version = q.job_version => r = q

IsRow(r, j, v) == r.job_id = j /\ r.job_version = v

ChainOf(j) ==
    Exists(j) =>
        /\ \E r \in transitions : IsRow(r, j, 1) /\ r.from_status = "" /\ r.to_status = "queued"
        /\ \E r \in transitions : /\ IsRow(r, j, job[j].version)
                                 /\ r.to_status = job[j].status
                                 /\ r.occurred_at = job[j].updated_at
        /\ \A v \in 2..job[j].version : \E p, r \in transitions :
               /\ IsRow(p, j, v - 1) /\ IsRow(r, j, v)
               /\ r.from_status = p.to_status
               /\ p.occurred_at <= r.occurred_at
               /\ LegalMove(r)

LEMMA HistoryParts == TransitionHistory <=> RowsBelow /\ OneRowEach /\ \A j \in Jobs : ChainOf(j)
  <1>1. ASSUME NEW j
        PROVE  ChainOf(j) <=> (Exists(j) =>
           /\ \E r \in RowOf(j, 1) : r.from_status = "" /\ r.to_status = "queued"
           /\ \E r \in RowOf(j, job[j].version) :
                  r.to_status = job[j].status /\ r.occurred_at = job[j].updated_at
           /\ \A v \in 2..job[j].version : \E p \in RowOf(j, v - 1), r \in RowOf(j, v) :
                  /\ r.from_status = p.to_status
                  /\ p.occurred_at <= r.occurred_at
                  /\ LegalMove(r))
    <2>1. \A v, r : r \in RowOf(j, v) <=> r \in transitions /\ IsRow(r, j, v)
      BY DEF RowOf, IsRow
    <2> QED
      BY <2>1 DEF ChainOf
  <1> QED
    BY <1>1 DEF TransitionHistory, RowsBelow, OneRowEach

LEMMA HistoryPartsNext ==
    (RowsBelow /\ OneRowEach /\ \A j \in Jobs : ChainOf(j))' => TransitionHistory'
  BY HistoryParts, PTL

LEMMA RowTyped ==
    ASSUME TypeOK, NEW r \in transitions
    PROVE  r \in TransitionRow /\ r.job_id \in Jobs /\ r.job_version \in Nat
  <1>1. r \in TransitionRow
    BY DEF TypeOK
  <1>2. r.job_id \in Jobs /\ r.job_version \in 1..MaxVersion
    BY <1>1 DEF TransitionRow
  <1> QED
    BY <1>1, <1>2, BoundsAssumption

LEMMA SubmitHistory ==
    ASSUME RowsInv, TransitionHistory, NEW j \in Jobs, NEW k, NEW l, NEW cap, NEW t \in Times,
           Submit(j, k, l, cap, t), TypeOK'
    PROVE  TransitionHistory'
  <1> DEFINE new == [job_id |-> j, job_version |-> 1, from_status |-> "",
                     to_status |-> "queued", actor_id |-> None, occurred_at |-> t,
                     reason_code |-> "CREATED"]
  <1>1. TypeOK /\ RowsBelow /\ OneRowEach /\ \A i \in Jobs : ChainOf(i)
    BY HistoryParts DEF RowsInv, FencingInv
  <1>2. /\ ~ Exists(j) /\ transitions' = transitions \cup {new}
        /\ job'[j] = Queued(t) /\ \A i \in Jobs : i # j => (job'[i] = job[i] /\ submission'[i] = submission[i])
    BY <1>1 DEF Submit, TypeOK, Exists
  <1>3. job'[j].version = 1 /\ job'[j].status = "queued" /\ job'[j].updated_at = t /\ Exists(j)'
    <2>1. Queued(t) \in JobRow
      BY BoundsAssumption DEF Queued, JobRow, Status
    <2>2. job'[j] # None
      BY <1>2, <2>1, NoneAssumption
    <2>3. Exists(j)'
      BY <2>2 DEF TypeOK, Exists
    <2>4. job'[j] = Queued(t)
      BY <1>2
    <2> QED
      BY <2>3, <2>4 DEF Queued
  <1>4. \A r \in transitions : r.job_id \in Jobs \ {j}
    BY <1>1, <1>2, RowTyped DEF RowsBelow
  <1>5. /\ new.job_id = j /\ new.job_version = 1 /\ new.from_status = ""
        /\ new.to_status = "queued" /\ new.occurred_at = t
    OBVIOUS
  <1> HIDE DEF new
  <1>6. RowsBelow'
    <2>1. SUFFICES ASSUME NEW r \in transitions'
                   PROVE  submission'[r.job_id] # None /\ r.job_version <= job'[r.job_id].version
      BY DEF RowsBelow, Exists
    <2>2. CASE r = new
      <3>1. r.job_id = j /\ r.job_version = 1
        BY <1>5, <2>2
      <3>2. job'[j].version = 1
        BY <1>3
      <3>3. submission'[j] # None
        BY <1>3 DEF Exists
      <3> QED
        BY <3>1, <3>2, <3>3
    <2>3. CASE r \in transitions
      BY <1>1, <1>2, <1>4, <2>3 DEF RowsBelow, Exists
    <2> QED
      BY <1>2, <2>1, <2>2, <2>3
  <1>7. OneRowEach'
    BY <1>1, <1>2, <1>4, <1>5 DEF OneRowEach
  <1>8. ASSUME NEW i \in Jobs PROVE ChainOf(i)'
    <2>1. CASE i = j
      <3>1. 2..job'[i].version = {}
        BY <1>3, <2>1
      <3> QED
        BY <1>2, <1>3, <1>5, <2>1, <3>1 DEF ChainOf, IsRow
    <2>2. CASE i # j
      <3>1. ChainOf(i) /\ job'[i] = job[i] /\ submission'[i] = submission[i]
        BY <1>1, <1>2, <2>2
      <3> QED
        BY <1>2, <3>1 DEF ChainOf, Exists
    <2> QED
      BY <2>1, <2>2
  <1> QED
    BY <1>6, <1>7, <1>8, HistoryPartsNext

LEMMA WrittenHistory ==
    ASSUME RowsInv, TransitionHistory, NEW j \in Jobs, NEW changed \in JobRow,
           NEW actor, NEW t, NEW reason, Written(j, changed, actor, t, reason)
    PROVE  TransitionHistory'
  <1>0. PICK new : new = Evidence(j, job[j], changed, actor, t, reason)
    OBVIOUS
  <1>1. TypeOK /\ RowsBelow /\ OneRowEach /\ \A i \in Jobs : ChainOf(i)
    BY HistoryParts DEF RowsInv, FencingInv
  <1>2. /\ Exists(j) /\ changed.version = job[j].version + 1 /\ changed.updated_at = t
        /\ job[j].updated_at <= t /\ LegalMove(new) /\ transitions' = transitions \cup {new}
    BY <1>0 DEF Written
  <1>3. /\ new.job_id = j /\ new.job_version = changed.version
        /\ new.from_status = job[j].status /\ new.to_status = changed.status
        /\ new.occurred_at = t
    BY <1>0 DEF Evidence
  <1>4. /\ job[j].version \in Nat \ {0} /\ changed.version \in Nat /\ job'[j] = changed
        /\ \A i \in Jobs : i # j => job'[i] = job[i]
        /\ \A i \in Jobs : Exists(i)' <=> Exists(i)
    BY <1>1, WrittenFacts
  <1>5. \A r \in transitions : /\ r.job_id \in Jobs /\ r.job_version \in Nat
                               /\ r.job_id = j => r.job_version <= job[j].version
    BY <1>1, RowTyped DEF RowsBelow
  <1>6. RowsBelow'
    BY <1>1, <1>2, <1>3, <1>4, <1>5 DEF RowsBelow
  <1>7. OneRowEach'
    BY <1>1, <1>2, <1>3, <1>4, <1>5 DEF OneRowEach
  <1>8. ASSUME NEW i \in Jobs, Exists(i) PROVE ChainOf(i)'
    <2>1. ChainOf(i) /\ submission' = submission
      BY <1>1 DEF Written
    <2>2. CASE i = j
      <3>1. new \in transitions' /\ IsRow(new, j, changed.version)
        BY <1>2, <1>3 DEF IsRow
      <3>2. \E r \in transitions' : /\ IsRow(r, j, changed.version)
                                    /\ r.to_status = changed.status
                                    /\ r.occurred_at = changed.updated_at
        BY <1>2, <1>3, <3>1
      <3>3. \E r \in transitions' : IsRow(r, j, 1) /\ r.from_status = "" /\ r.to_status = "queued"
        BY <1>2, <1>8, <2>1, <2>2 DEF ChainOf
      <3>4. ASSUME NEW v \in 2..changed.version
            PROVE  \E p, r \in transitions' :
                       /\ IsRow(p, j, v - 1) /\ IsRow(r, j, v)
                       /\ r.from_status = p.to_status
                       /\ p.occurred_at <= r.occurred_at
                       /\ LegalMove(r)
        <4>1. CASE v = changed.version
          <5>1. PICK p \in transitions : /\ IsRow(p, j, job[j].version)
                                         /\ p.to_status = job[j].status
                                         /\ p.occurred_at = job[j].updated_at
            BY <1>8, <2>1, <2>2 DEF ChainOf
          <5>2. p \in transitions' /\ IsRow(p, j, v - 1)
            BY <1>2, <1>4, <4>1, <5>1
          <5> QED
            BY <1>2, <1>3, <3>1, <4>1, <5>1, <5>2
        <4>2. CASE v # changed.version
          <5>1. v \in 2..job[j].version
            BY <1>2, <1>4, <4>2
          <5> QED
            BY <1>2, <1>8, <2>1, <2>2, <5>1 DEF ChainOf
        <4> QED
          BY <4>1, <4>2
      <3> QED
        BY <1>4, <2>2, <3>2, <3>3, <3>4 DEF ChainOf
    <2>3. CASE i # j
      BY <1>2, <1>4, <2>1, <2>3 DEF ChainOf, Exists
    <2> QED
      BY <2>2, <2>3
  <1>9. ASSUME NEW i \in Jobs PROVE ChainOf(i)'
    BY <1>4, <1>8 DEF ChainOf
  <1> QED
    BY <1>6, <1>7, <1>9, HistoryPartsNext

LEMMA StepHistory ==
    ASSUME RowsInv, TransitionHistory, [Next]_vars
    PROVE  TransitionHistory'
  <1>1. StepShape /\ TypeOK'
    BY StepCases, StepTyped DEF RowsInv, FencingInv
  <1>2. CASE UNCHANGED <<submission, job, transitions>>
    <2>1. RowsBelow' /\ OneRowEach'
      BY <1>2, HistoryParts DEF RowsBelow, OneRowEach, Exists
    <2>2. ASSUME NEW j \in Jobs PROVE ChainOf(j)'
      BY <1>2, HistoryParts DEF ChainOf, Exists
    <2> QED
      BY <2>1, <2>2, HistoryPartsNext
  <1> QED
    BY <1>1, <1>2, ShapeWrites, SubmitHistory, WrittenHistory

\* The transition table of every reachable state is the complete history of each job, for
\* any number of jobs, workers, operators and versions.
THEOREM CompleteHistory == Spec => []TransitionHistory
  <1>1. Init => TransitionHistory
    BY DEF Init, TransitionHistory, Exists
  <1>2. RowsInv /\ TransitionHistory /\ [Next]_vars => TransitionHistory'
    BY StepHistory
  <1> QED
    BY <1>1, <1>2, RowsInvHolds, PTL DEF Spec
-----------------------------------------------------------------------------
\* The history of a lease

\* The conjuncts of LeaseEvidence, without the sets EventsOf and Generations.
Opens(e) == e.action \in {"claimed", "taken_over"}

SameGeneration(e, f) == e.job_id = f.job_id /\ e.generation = f.generation

GenerationsOrdered ==
    \A e, f \in leaseEvents : e.job_id = f.job_id /\ e.event_sequence <= f.event_sequence
        => e.generation <= f.generation

AllOpened ==
    \A e \in leaseEvents : \E f \in leaseEvents :
        /\ SameGeneration(f, e) /\ Opens(f) /\ f.owner_id = e.owner_id
        /\ f.event_sequence <= e.event_sequence

OpenedOnce == \A e, f \in leaseEvents : SameGeneration(e, f) /\ Opens(e) /\ Opens(f) => e = f

ReleasedLast ==
    \A e, f \in leaseEvents : SameGeneration(e, f) /\ e.action = "released"
        => f.event_sequence <= e.event_sequence

Newest(j, row) ==
    /\ \A e \in leaseEvents : e.job_id = j => e.generation <= row.generation
    /\ \E e \in leaseEvents : /\ e.job_id = j /\ e.generation = row.generation
                              /\ e.owner_id = row.owner_id
    /\ \A e \in leaseEvents : e.job_id = j /\ e.generation = row.generation
                                  => e.action # "released"

LeasesNewest == \A j \in Jobs : lease[j] # None => Newest(j, lease[j])

EventParts == GenerationsOrdered /\ AllOpened /\ OpenedOnce /\ ReleasedLast /\ LeasesNewest

LEMMA EvidenceParts == LeaseEvidence <=> EventParts
  <1>1. \A e, f : {e.action, f.action} \subseteq {"claimed", "taken_over"} <=> Opens(e) /\ Opens(f)
    BY DEF Opens
  <1>2. ASSUME NEW j, NEW row
        PROVE  Newest(j, row) <=>
                  /\ \A g \in Generations(j) : g <= row.generation
                  /\ \E e \in EventsOf(j) : /\ e.generation = row.generation
                                            /\ e.owner_id = row.owner_id
                  /\ \A e \in EventsOf(j) : e.generation = row.generation
                                               => e.action # "released"
    <2>1. \A e : e \in EventsOf(j) <=> e \in leaseEvents /\ e.job_id = j
      BY DEF EventsOf
    <2>2. (\A g \in Generations(j) : g <= row.generation)
          <=> \A e \in EventsOf(j) : e.generation <= row.generation
      BY DEF Generations
    <2> QED
      BY <2>1, <2>2 DEF Newest
  <1> QED
    BY <1>1, <1>2 DEF LeaseEvidence, EventParts, GenerationsOrdered, AllOpened, OpenedOnce,
       ReleasedLast, LeasesNewest, SameGeneration, Opens

LEMMA EvidencePartsNext == EventParts' => LeaseEvidence'
  BY EvidenceParts, PTL

\* _append_lease_event adds one row, newer than the job's others.
LEMMA AppendedEvent ==
    ASSUME TypeOK, NEW j \in Jobs, NEW w \in Workers, NEW g \in Nat \ {0},
           NEW action \in {"claimed", "taken_over", "renewed", "released"},
           AppendLeaseEvent(j, w, g, action)
    PROVE  \E n \in LeaseEventRow :
               /\ n.job_id = j /\ n.generation = g /\ n.action = action /\ n.owner_id = w
               /\ leaseEvents' = leaseEvents \cup {n}
               /\ \A e \in leaseEvents : e.job_id = j => e.event_sequence < n.event_sequence
  <1>1. PICK seq \in 1..MaxLeaseEvents :
            /\ IsNextAfter({e.event_sequence : e \in EventsOf(j)}, seq)
            /\ leaseEvents' = leaseEvents \cup
                   {[job_id |-> j, event_sequence |-> seq, generation |-> g,
                     action |-> action, owner_id |-> w]}
    BY DEF AppendLeaseEvent
  <1>2. seq \in Nat \ {0}
    BY BoundsAssumption
  <1>3. \A e \in leaseEvents : e.job_id = j => e.event_sequence < seq
    BY <1>1 DEF IsNextAfter, EventsOf
  <1>4. PICK n : n = [job_id |-> j, event_sequence |-> seq, generation |-> g,
                      action |-> action, owner_id |-> w]
    OBVIOUS
  <1>5. n \in LeaseEventRow
    BY <1>2, <1>4 DEF LeaseEventRow
  <1>6. /\ n.job_id = j /\ n.generation = g /\ n.action = action /\ n.owner_id = w
        /\ n.event_sequence = seq
    BY <1>4
  <1> QED
    BY <1>1, <1>3, <1>4, <1>5, <1>6

LEMMA EventTyped ==
    ASSUME TypeOK, NEW e \in leaseEvents
    PROVE  e.job_id \in Jobs /\ e.event_sequence \in Nat /\ e.generation \in Nat
  <1>1. e \in LeaseEventRow
    BY DEF TypeOK
  <1> QED
    BY <1>1 DEF LeaseEventRow

\* One more event of job j: it opens a generation above all others, or it belongs to the
\* generation of the stored lease, which it keeps or ends.
LEMMA EventAdded ==
    ASSUME TypeOK, EventParts, NEW j \in Jobs, NEW n \in LeaseEventRow, n.job_id = j,
           leaseEvents' = leaseEvents \cup {n},
           \A e \in leaseEvents : e.job_id = j => e.event_sequence < n.event_sequence,
           \A i \in Jobs : i # j => lease'[i] = lease[i],
           NEW row, lease'[j] = row,
           \/ /\ Opens(n) /\ \A e \in leaseEvents : e.job_id = j => e.generation < n.generation
              /\ row.generation = n.generation /\ row.owner_id = n.owner_id
           \/ /\ lease[j] # None /\ n.generation = lease[j].generation
              /\ n.owner_id = lease[j].owner_id
              /\ \/ /\ n.action = "renewed"
                    /\ row.generation = n.generation /\ row.owner_id = n.owner_id
                 \/ n.action = "released" /\ row = None
    PROVE  EventParts'
  <1> DEFINE Fresh == Opens(n) /\ \A e \in leaseEvents : e.job_id = j => e.generation < n.generation
             Within == lease[j] # None /\ n.generation = lease[j].generation
                       /\ n.owner_id = lease[j].owner_id /\ n.action \in {"renewed", "released"}
  <1>1. Fresh \/ Within
    OBVIOUS
  <1>2. Within => Newest(j, lease[j]) /\ ~ Opens(n)
    BY DEF EventParts, LeasesNewest, Opens
  <1>3. \A e \in leaseEvents : e.event_sequence \in Nat /\ e.generation \in Nat
    BY EventTyped
  <1>4. n.event_sequence \in Nat /\ n.generation \in Nat
    BY DEF LeaseEventRow
  <1>5. \A e \in leaseEvents : e.job_id = j => e.generation <= n.generation
    BY <1>1, <1>2, <1>3, <1>4 DEF Newest
  <1>6. GenerationsOrdered'
    BY <1>3, <1>4, <1>5 DEF EventParts, GenerationsOrdered
  <1>7. AllOpened'
    <2>1. \E f \in leaseEvents' : /\ SameGeneration(f, n) /\ Opens(f) /\ f.owner_id = n.owner_id
                                  /\ f.event_sequence <= n.event_sequence
      <3>1. CASE Fresh
        BY <1>4, <3>1 DEF SameGeneration
      <3>2. CASE Within
        <4>1. PICK e \in leaseEvents : /\ e.job_id = j /\ e.generation = n.generation
                                       /\ e.owner_id = n.owner_id
          BY <1>2, <3>2 DEF Newest
        <4>2. PICK f \in leaseEvents : /\ SameGeneration(f, e) /\ Opens(f)
                                       /\ f.owner_id = e.owner_id
                                       /\ f.event_sequence <= e.event_sequence
          BY DEF EventParts, AllOpened
        <4>3. SameGeneration(f, n) /\ f.event_sequence <= n.event_sequence
          BY <1>3, <1>4, <4>1, <4>2 DEF SameGeneration
        <4> QED
          BY <4>1, <4>2, <4>3
      <3> QED
        BY <1>1, <3>1, <3>2
    <2>2. ASSUME NEW e \in leaseEvents'
          PROVE  \E f \in leaseEvents' :
                     /\ SameGeneration(f, e) /\ Opens(f) /\ f.owner_id = e.owner_id
                     /\ f.event_sequence <= e.event_sequence
      BY <2>1 DEF EventParts, AllOpened
    <2> QED
      BY <2>2 DEF AllOpened
  <1>8. OpenedOnce'
    <2>1. \A e \in leaseEvents : ~ (SameGeneration(e, n) /\ Opens(e) /\ Opens(n))
      BY <1>1, <1>2, <1>3, <1>4 DEF SameGeneration
    <2>2. \A e \in leaseEvents : ~ (SameGeneration(n, e) /\ Opens(e) /\ Opens(n))
      BY <2>1 DEF SameGeneration
    <2> QED
      BY <2>1, <2>2 DEF EventParts, OpenedOnce
  <1>9. ReleasedLast'
    <2>1. \A e \in leaseEvents : ~ (SameGeneration(e, n) /\ e.action = "released")
      BY <1>1, <1>2, <1>3, <1>4 DEF SameGeneration, Newest
    <2>2. \A f \in leaseEvents' : SameGeneration(n, f) => f.event_sequence <= n.event_sequence
      BY <1>3, <1>4 DEF SameGeneration
    <2> QED
      BY <2>1, <2>2 DEF EventParts, ReleasedLast
  <1>10. LeasesNewest'
    <2>1. SUFFICES ASSUME NEW i \in Jobs, lease'[i] # None PROVE \A r : r = lease'[i] => Newest(i, r)'
      BY DEF LeasesNewest, Newest
    <2>2. CASE i = j
      <3>1. row.generation = n.generation /\ row.owner_id = n.owner_id /\ n.action # "released"
        BY <2>1, <2>2 DEF Opens
      <3>2. \A e \in leaseEvents : e.job_id = j /\ e.generation = n.generation
                                       => e.action # "released"
        BY <1>1, <1>2, <1>3, <1>4 DEF Newest
      <3> QED
        BY <1>4, <1>5, <2>2, <3>1, <3>2 DEF Newest
    <2>3. CASE i # j
      <3>1. lease'[i] = lease[i] /\ Newest(i, lease[i])
        BY <2>1, <2>3 DEF EventParts, LeasesNewest
      <3> QED
        BY <2>3, <3>1 DEF Newest
    <2> QED
      BY <2>2, <2>3
  <1> QED
    BY <1>6, <1>7, <1>8, <1>9, <1>10 DEF EventParts

LEMMA StepEvents ==
    ASSUME RowsInv, EventParts, [Next]_vars
    PROVE  EventParts'
  <1>1. StepShape /\ TypeOK
    BY StepCases DEF RowsInv, FencingInv
  <1>2. ASSUME UNCHANGED <<lease, leaseEvents>> PROVE EventParts'
    BY <1>2 DEF EventParts, GenerationsOrdered, AllOpened, OpenedOnce, ReleasedLast,
       LeasesNewest, Newest
  <1>3. ASSUME NEW w \in Workers, NEW t \in Times, NEW e \in Times, NEW j \in Jobs,
               NEW g \in 1..MaxLeaseEvents, NEW changed \in JobRow,
               ClaimStep(w, j, g, t, e, changed)
        PROVE  EventParts'
    <2>1. PICK action : action = IF job[j].status = "running" THEN "taken_over" ELSE "claimed"
      OBVIOUS
    <2>2. g \in Nat \ {0} /\ action \in {"claimed", "taken_over", "renewed", "released"}
      BY <2>1, BoundsAssumption
    <2>3. AppendLeaseEvent(j, w, g, action) /\ NextGeneration(j, g)
      BY <1>3, <2>1 DEF ClaimStep
    <2>4. PICK n \in LeaseEventRow :
               /\ n.job_id = j /\ n.generation = g /\ n.action = action /\ n.owner_id = w
               /\ leaseEvents' = leaseEvents \cup {n}
               /\ \A f \in leaseEvents : f.job_id = j => f.event_sequence < n.event_sequence
      BY <1>1, <2>2, <2>3, AppendedEvent
    <2>5. \A f \in leaseEvents : f.job_id = j => f.generation < n.generation
      BY <2>3, <2>4 DEF NextGeneration, IsNextAfter, Generations, EventsOf
    <2>6. PICK row : row = [owner_id |-> w, generation |-> g, acquired_at |-> t, expires_at |-> e]
      OBVIOUS
    <2>7. row.generation = n.generation /\ row.owner_id = n.owner_id /\ Opens(n)
      BY <2>1, <2>4, <2>6 DEF Opens
    <2>8. lease'[j] = row /\ \A i \in Jobs : i # j => lease'[i] = lease[i]
      BY <1>1, <1>3, <2>6 DEF ClaimStep, TypeOK
    <2> QED
      BY <1>1, <2>4, <2>5, <2>7, <2>8, EventAdded
  <1>4. ASSUME NEW w \in Workers, NEW j \in Jobs, NEW t, Owns(w, j, t)
        PROVE  lease[j] \in LeaseRow /\ lease[j].generation \in Nat \ {0}
    BY <1>1, <1>4 DEF Owns, TypeOK, LeaseRow
  <1>5. ASSUME NEW w \in Workers, NEW t \in Times, NEW e \in Times, NEW j \in Jobs,
               RenewStep(w, j, t, e)
        PROVE  EventParts'
    <2>1. PICK old : old = lease[j]
      OBVIOUS
    <2>2. old \in LeaseRow /\ old.generation \in Nat \ {0} /\ old.owner_id = w /\ lease[j] # None
      BY <1>4, <1>5, <2>1 DEF RenewStep, Owns
    <2>3. PICK n \in LeaseEventRow :
               /\ n.job_id = j /\ n.generation = old.generation /\ n.action = "renewed"
               /\ n.owner_id = w /\ leaseEvents' = leaseEvents \cup {n}
               /\ \A f \in leaseEvents : f.job_id = j => f.event_sequence < n.event_sequence
      BY <1>1, <1>5, <2>1, <2>2, AppendedEvent DEF RenewStep
    <2>4. PICK row : row = [old EXCEPT !.expires_at = e]
      OBVIOUS
    <2>5. row.generation = n.generation /\ row.owner_id = n.owner_id
      BY <2>2, <2>3, <2>4 DEF LeaseRow
    <2>6. lease'[j] = row /\ \A i \in Jobs : i # j => lease'[i] = lease[i]
      BY <1>1, <1>5, <2>1, <2>4 DEF RenewStep, TypeOK
    <2> QED
      BY <1>1, <2>1, <2>2, <2>3, <2>5, <2>6, EventAdded
  <1>6. ASSUME NEW w \in Workers, NEW t \in Times, NEW j \in Jobs, NEW changed \in JobRow,
               NEW reason, ReleaseStep(w, j, t, changed, reason)
        PROVE  EventParts'
    <2>1. PICK old : old = lease[j]
      OBVIOUS
    <2>2. old.generation \in Nat \ {0} /\ old.owner_id = w /\ lease[j] # None
      BY <1>4, <1>6, <2>1 DEF ReleaseStep, Owns
    <2>3. PICK n \in LeaseEventRow :
               /\ n.job_id = j /\ n.generation = old.generation /\ n.action = "released"
               /\ n.owner_id = w /\ leaseEvents' = leaseEvents \cup {n}
               /\ \A f \in leaseEvents : f.job_id = j => f.event_sequence < n.event_sequence
      BY <1>1, <1>6, <2>1, <2>2, AppendedEvent DEF ReleaseStep
    <2>4. lease'[j] = None /\ \A i \in Jobs : i # j => lease'[i] = lease[i]
      BY <1>1, <1>6 DEF ReleaseStep, TypeOK
    <2> QED
      BY <1>1, <2>1, <2>2, <2>3, <2>4, EventAdded
  <1> QED
    BY <1>1, <1>2, <1>3, <1>5, <1>6 DEF StepShape, Submit, AdvanceStep, CommandStep, QuietStep

\* Every lease generation is opened once, closed at most once and never reused, and the
\* stored lease is the newest one, for any number of workers and lease events.
THEOREM LeasesAccounted == Spec => []LeaseEvidence
  <1>1. Init => EventParts
    BY DEF Init, EventParts, GenerationsOrdered, AllOpened, OpenedOnce, ReleasedLast, LeasesNewest
  <1>2. RowsInv /\ EventParts /\ [Next]_vars => EventParts'
    BY StepEvents
  <1> QED
    BY <1>1, <1>2, RowsInvHolds, EvidenceParts, PTL DEF Spec
-----------------------------------------------------------------------------
\* The history of effects

EffectBefore(f, e) == f.completed_units <= e.completed_units /\ f.job_version < e.job_version

\* The conjuncts of EffectsExactlyOnce.
Numbered == \A e \in effects : e.ordinal = 1 \/
                \E f \in effects : f.job_id = e.job_id /\ f.ordinal = e.ordinal - 1

WithinJob == \A e \in effects : /\ Exists(e.job_id)
                                /\ e.completed_units <= job[e.job_id].completed_units

MadeByWorker ==
    \A e \in effects : \E r \in transitions :
        /\ IsRow(r, e.job_id, e.job_version)
        /\ r.actor_id \in Workers /\ r.reason_code \in {"CHECKPOINTED", "FINISHED"}

Distinct ==
    \A e, f \in effects : f.job_id = e.job_id =>
        /\ f.partition_key = e.partition_key => f = e
        /\ f.ordinal = e.ordinal => f = e
        /\ f.ordinal < e.ordinal => EffectBefore(f, e)

EffectParts == Numbered /\ WithinJob /\ MadeByWorker /\ Distinct

LEMMA EffectsInParts == EffectsExactlyOnce <=> EffectParts
  BY DEF EffectsExactlyOnce, EffectParts, Numbered, WithinJob, MadeByWorker, Distinct, RowOf,
     IsRow, EffectBefore

LEMMA EffectTypes ==
    ASSUME TypeOK, NEW e \in effects
    PROVE  /\ e.job_id \in Jobs /\ e.ordinal \in Nat \ {0} /\ e.completed_units \in Nat
           /\ e.job_version \in Nat
  <1>1. e \in EffectRow
    BY DEF TypeOK
  <1> QED
    BY <1>1, BoundsAssumption DEF EffectRow

\* A write that commits no effect keeps what the effects say.
LEMMA NoEffectAdded ==
    ASSUME TypeOK, EffectParts, StepShape, effects' = effects, \A i \in Jobs : Exists(i) =>
               /\ job[i].completed_units \in Nat /\ job'[i].completed_units \in Nat
               /\ job[i].completed_units <= job'[i].completed_units
    PROVE  EffectParts'
  <1>1. Numbered' /\ Distinct'
    BY DEF EffectParts, Numbered, Distinct
  <1>2. WithinJob'
    <2>1. SUFFICES ASSUME NEW e \in effects
                   PROVE  /\ submission'[e.job_id] # None
                          /\ e.completed_units <= job'[e.job_id].completed_units
      BY DEF WithinJob, Exists
    <2>2. Exists(e.job_id)' /\ e.job_id \in Jobs /\ Exists(e.job_id)
      BY EffectTypes, JobsGrow DEF EffectParts, WithinJob
    <2> QED
      BY <2>2, EffectTypes DEF EffectParts, WithinJob, Exists
  <1>3. MadeByWorker'
    <2>1. SUFFICES ASSUME NEW e \in effects
                   PROVE  \E r \in transitions' :
                              /\ IsRow(r, e.job_id, e.job_version)
                              /\ r.actor_id \in Workers
                              /\ r.reason_code \in {"CHECKPOINTED", "FINISHED"}
      BY DEF MadeByWorker
    <2> QED
      BY EvidenceGrows DEF EffectParts, MadeByWorker
  <1> QED
    BY <1>1, <1>2, <1>3 DEF EffectParts

LEMMA UnitsGrow ==
    ASSUME TypeOK, TypeOK', StepShape, NEW i \in Jobs, Exists(i)
    PROVE  /\ job[i].completed_units \in Nat /\ job'[i].completed_units \in Nat
           /\ job[i].completed_units <= job'[i].completed_units
  <1>1. job[i].completed_units \in Nat
    BY ExistingRow, BoundsAssumption DEF JobRow
  <1>2. ASSUME job'[i] = job[i]
        PROVE  /\ job'[i].completed_units \in Nat
               /\ job[i].completed_units <= job'[i].completed_units
    BY <1>1, <1>2
  <1>3. ASSUME NEW j \in Jobs, NEW k, NEW l, NEW cap, NEW t, Submit(j, k, l, cap, t)
        PROVE  job'[i] = job[i]
    BY <1>3 DEF Submit, Exists, TypeOK
  <1>4. ASSUME NEW j \in Jobs, NEW changed \in JobRow, NEW actor, NEW t, NEW reason,
               Written(j, changed, actor, t, reason)
        PROVE  /\ job'[i].completed_units \in Nat
               /\ job[i].completed_units <= job'[i].completed_units
    <2>1. /\ job'[j] = changed /\ \A h \in Jobs : h # j => job'[h] = job[h]
          /\ changed.completed_units \in Nat
      BY <1>4, WrittenFacts
    <2>2. job[j].completed_units <= changed.completed_units
      BY <1>4 DEF Written
    <2> QED
      BY <1>2, <2>1, <2>2
  <1> QED
    BY <1>1, <1>2, <1>3, <1>4, ShapeWrites

\* An effect is committed together with the version that a worker's write creates.
LEMMA EffectAdded ==
    ASSUME RowsInv, TransitionHistory, EffectParts, NEW w \in Workers, NEW j \in Jobs,
           NEW changed \in JobRow, NEW t, NEW reason \in {"CHECKPOINTED", "FINISHED"},
           NEW p \in Partitions, Written(j, changed, w, t, reason), CommitEffect(j, p, changed)
    PROVE  EffectParts'
  <1>1. TypeOK
    BY DEF RowsInv, FencingInv
  <1>2. PICK n \in 1..MaxVersion :
            /\ IsNextAfter({e.ordinal : e \in {f \in effects : f.job_id = j}}, n)
            /\ \A e \in {f \in effects : f.job_id = j} : e.partition_key # p
            /\ effects' = effects \cup
                   {[job_id |-> j, partition_key |-> p, ordinal |-> n,
                     completed_units |-> changed.completed_units,
                     job_version |-> changed.version]}
    BY DEF CommitEffect
  <1>3. n \in Nat /\ \A e \in effects : e.job_id = j => e.ordinal < n /\ e.partition_key # p
    BY <1>2, BoundsAssumption DEF IsNextAfter
  <1>4. n = 1 \/ \E f \in effects : f.job_id = j /\ f.ordinal = n - 1
    BY <1>2 DEF IsNextAfter
  <1>5. PICK new : new = [job_id |-> j, partition_key |-> p, ordinal |-> n,
                          completed_units |-> changed.completed_units,
                          job_version |-> changed.version]
    OBVIOUS
  <1>6. /\ new.job_id = j /\ new.partition_key = p /\ new.ordinal = n
        /\ new.completed_units = changed.completed_units /\ new.job_version = changed.version
        /\ effects' = effects \cup {new}
    BY <1>2, <1>5
  <1>7. /\ job[j].completed_units \in Nat /\ changed.completed_units \in Nat
        /\ job[j].version \in Nat /\ changed.version \in Nat
        /\ job'[j] = changed /\ \A i \in Jobs : i # j => job'[i] = job[i]
    BY <1>1, WrittenFacts
  <1>8. /\ changed.version = job[j].version + 1 /\ Exists(j) /\ submission' = submission
        /\ job[j].completed_units <= changed.completed_units
    BY DEF Written
  <1>9. \A e \in effects : /\ e.job_id \in Jobs /\ e.ordinal \in Nat \ {0}
                           /\ e.completed_units \in Nat /\ e.job_version \in Nat
    BY <1>1, EffectTypes
  <1>10. \A e \in effects : e.job_id = j => e.job_version <= job[j].version
    <2>1. SUFFICES ASSUME NEW e \in effects, e.job_id = j PROVE e.job_version <= job[j].version
      OBVIOUS
    <2>2. PICK r \in transitions : IsRow(r, e.job_id, e.job_version)
      BY DEF EffectParts, MadeByWorker
    <2> QED
      BY <2>1, <2>2, HistoryParts DEF RowsBelow, IsRow
  <1>11. \A e \in effects : e.job_id = j => EffectBefore(e, new)
    <2>1. SUFFICES ASSUME NEW e \in effects, e.job_id = j
                   PROVE  /\ e.completed_units <= changed.completed_units
                          /\ e.job_version < changed.version
      BY <1>6 DEF EffectBefore
    <2>2. e.completed_units <= job[j].completed_units
      BY <2>1 DEF EffectParts, WithinJob
    <2> QED
      BY <1>7, <1>8, <1>9, <1>10, <2>1, <2>2
  <1>12. Numbered'
    <2>1. SUFFICES ASSUME NEW e \in effects'
                   PROVE  e.ordinal = 1 \/ \E f \in effects' : /\ f.job_id = e.job_id
                                                               /\ f.ordinal = e.ordinal - 1
      BY DEF Numbered
    <2> QED
      BY <1>4, <1>6 DEF EffectParts, Numbered
  <1>13. WithinJob'
    <2>1. SUFFICES ASSUME NEW e \in effects'
                   PROVE  /\ submission[e.job_id] # None
                          /\ e.completed_units <= job'[e.job_id].completed_units
      BY <1>8 DEF WithinJob, Exists
    <2>2. CASE e = new
      BY <1>6, <1>7, <1>8, <2>2 DEF Exists
    <2>3. CASE e \in effects
      <3>1. submission[e.job_id] # None /\ e.completed_units <= job[e.job_id].completed_units
        BY <2>3 DEF EffectParts, WithinJob, Exists
      <3> QED
        BY <1>7, <1>8, <1>9, <2>3, <3>1
    <2> QED
      BY <1>6, <2>2, <2>3
  <1>14. MadeByWorker'
    <2>1. PICK r : r = Evidence(j, job[j], changed, w, t, reason)
      OBVIOUS
    <2>2. /\ r \in transitions' /\ IsRow(r, new.job_id, new.job_version)
          /\ r.actor_id \in Workers /\ r.reason_code \in {"CHECKPOINTED", "FINISHED"}
      BY <1>6, <2>1 DEF Written, Evidence, IsRow
    <2>3. transitions \subseteq transitions'
      BY DEF Written
    <2>4. SUFFICES ASSUME NEW e \in effects'
                   PROVE  \E q \in transitions' :
                              /\ IsRow(q, e.job_id, e.job_version)
                              /\ q.actor_id \in Workers
                              /\ q.reason_code \in {"CHECKPOINTED", "FINISHED"}
      BY DEF MadeByWorker
    <2> QED
      BY <1>6, <2>2, <2>3 DEF EffectParts, MadeByWorker
  <1>15. Distinct'
    <2>1. SUFFICES ASSUME NEW e \in effects', NEW f \in effects', f.job_id = e.job_id
                   PROVE  /\ f.partition_key = e.partition_key => f = e
                          /\ f.ordinal = e.ordinal => f = e
                          /\ f.ordinal < e.ordinal => EffectBefore(f, e)
      BY DEF Distinct
    <2>2. CASE e \in effects /\ f \in effects
      BY <2>1, <2>2 DEF EffectParts, Distinct
    <2>3. CASE e = new /\ f \in effects
      BY <1>3, <1>6, <1>9, <1>11, <2>1, <2>3
    <2>4. CASE f = new /\ e \in effects
      BY <1>3, <1>6, <1>9, <2>1, <2>4
    <2>5. CASE f = new /\ e = new
      BY <1>3, <1>6, <2>5
    <2> QED
      BY <1>6, <2>2, <2>3, <2>4, <2>5
  <1> QED
    BY <1>12, <1>13, <1>14, <1>15 DEF EffectParts

LEMMA StepEffects ==
    ASSUME RowsInv, TransitionHistory, EffectParts, [Next]_vars
    PROVE  EffectParts'
  <1>1. StepShape /\ TypeOK /\ TypeOK'
    BY StepCases, StepTyped DEF RowsInv, FencingInv
  <1>2. CASE UNCHANGED effects
    BY <1>1, <1>2, UnitsGrow, NoEffectAdded
  <1>3. ASSUME NEW w \in Workers, NEW t, NEW j \in Jobs, NEW changed \in JobRow,
               AdvanceStep(w, j, t, changed), ~ UNCHANGED effects
        PROVE  EffectParts'
    BY <1>3, EffectAdded DEF AdvanceStep
  <1>4. ASSUME NEW w \in Workers, NEW t, NEW j \in Jobs, NEW changed \in JobRow, NEW reason,
               ReleaseStep(w, j, t, changed, reason), ~ UNCHANGED effects
        PROVE  EffectParts'
    BY <1>4, EffectAdded DEF ReleaseStep
  <1>5. CASE ~ UNCHANGED effects
    <2>1. /\ \A j, k, l, cap, t : ~ Submit(j, k, l, cap, t)
          /\ \A w, j, t, e : ~ RenewStep(w, j, t, e)
          /\ \A o, j, t, changed : ~ CommandStep(o, j, t, changed)
          /\ ~ QuietStep
      BY <1>5 DEF Submit, RenewStep, CommandStep, QuietStep
    <2>2. \A w, j, g, t, e, changed : ~ ClaimStep(w, j, g, t, e, changed)
      BY <1>5 DEF ClaimStep
    <2> QED
      BY <1>1, <1>3, <1>4, <1>5, <2>1, <2>2 DEF StepShape
  <1> QED
    BY <1>2, <1>5

\* Effects are exactly once for any number of jobs, workers, partitions and retries.
THEOREM ExactlyOnceEffects == Spec => []EffectsExactlyOnce
  <1>1. Init => EffectParts
    BY DEF Init, EffectParts, Numbered, WithinJob, MadeByWorker, Distinct
  <1>2. RowsInv /\ TransitionHistory /\ EffectParts /\ [Next]_vars => EffectParts'
    BY StepEffects
  <1> QED
    BY <1>1, <1>2, RowsInvHolds, CompleteHistory, EffectsInParts, PTL DEF Spec
-----------------------------------------------------------------------------
\* What operators were told

\* The row that the acknowledgement a claims.
AckRow(a, r) ==
    /\ IsRow(r, a.job_id, a.expected_version + 1)
    /\ r.actor_id = a.actor_id /\ r.to_status = a.to_status
    /\ r.reason_code = CommandReason[a.to_status]

AcksBacked == \A a \in acked : \E r \in transitions : AckRow(a, r)

LEMMA AckedParts == AckedCommandsCommitted <=> AcksBacked
  BY DEF AckedCommandsCommitted, AcksBacked, AckRow, RowOf, IsRow

\* Acknowledgements are given by operators alone.
LEMMA WhoAcks ==
    ASSUME [Next]_vars
    PROVE  \/ acked' = acked
           \/ \E o \in Operators : CommandReplay(o)
           \/ \E o \in Operators, t \in Times, lost \in BOOLEAN : CommandCommit(o, t, lost)
  <1>1. ASSUME NEW w \in Workers, WorkerStep(w) PROVE acked' = acked
    <2>1. \A l, t, e, lost : Claim(w, l, t, e, lost) \/ Heartbeat(w, t, e, lost) => acked' = acked
      BY DEF Claim, Heartbeat
    <2>2. \A changed, t, reason, lost :
              OwnedWrite(w, changed, t, reason, lost) \/ OwnedRelease(w, changed, t, reason, lost)
                  => acked' = acked
      BY DEF OwnedWrite, OwnedRelease
    <2>3. \A p, t, u, lost : Checkpoint(w, t, u, lost) \/ CommitPartition(w, p, t, u, lost)
              => acked' = acked
      BY <2>2 DEF Checkpoint, CommitPartition
    <2>4. \A p, t, to, lost : (\/ CompletePartition(w, p, t, lost) \/ Complete(w, t, lost)
                               \/ FinishWithStatus(w, to, t, lost)) => acked' = acked
      BY <2>2 DEF CompletePartition, Complete, FinishWithStatus
    <2>5. Abandon(w) => acked' = acked
      BY DEF Abandon
    <2> QED
      BY <1>1, <2>1, <2>3, <2>4, <2>5 DEF WorkerStep
  <1>2. \A j, k, l, cap, t : Submit(j, k, l, cap, t) => acked' = acked
    BY DEF Submit
  <1>3. \A o, j, to, v : CommandRead(o, j, to, v) \/ CommandGiveUp(o) => acked' = acked
    BY DEF CommandRead, CommandGiveUp
  <1>4. UNCHANGED vars => acked' = acked
    BY DEF vars
  <1> QED
    BY <1>1, <1>2, <1>3, <1>4 DEF Next, OperatorStep

LEMMA StepAcks ==
    ASSUME RowsInv, AcksBacked, [Next]_vars
    PROVE  AcksBacked'
  <1>1. transitions \subseteq transitions' /\ TypeOK
    BY StepCases, EvidenceGrows DEF RowsInv, FencingInv
  <1>2. ASSUME NEW o \in Operators, command[o] # None, acked' \subseteq Ack(o, command[o]),
               command[o].expected_version # None =>
                   \E r \in transitions' :
                       /\ IsRow(r, command[o].job_id, command[o].expected_version + 1)
                       /\ r.actor_id = o /\ r.to_status = command[o].to_status
                       /\ r.reason_code = CommandReason[command[o].to_status]
        PROVE  AcksBacked'
    <2>1. PICK c : c = command[o]
      OBVIOUS
    <2>2. SUFFICES ASSUME NEW a \in acked' PROVE \E r \in transitions' : AckRow(a, r)
      BY DEF AcksBacked
    <2>3. CASE a \in acked
      BY <1>1, <2>3 DEF AcksBacked
    <2>4. CASE a \notin acked
      <3>1. /\ c.expected_version # None /\ a.actor_id = o /\ a.job_id = c.job_id
            /\ a.to_status = c.to_status /\ a.expected_version = c.expected_version
        BY <1>2, <2>1, <2>4 DEF Ack
      <3> QED
        BY <1>2, <2>1, <3>1 DEF AckRow
    <2> QED
      BY <2>3, <2>4
  <1>3. ASSUME NEW o \in Operators, CommandReplay(o) PROVE AcksBacked'
    <2>1. /\ command[o] # None /\ acked' = Ack(o, command[o]) /\ Outdated(command[o])
          /\ transitions' = transitions
      BY <1>3 DEF CommandReplay
    <2>2. PICK r \in transitions : /\ IsLastTransition(command[o].job_id, r)
                                   /\ IsReplayOf(o, command[o], r)
      BY <1>3 DEF CommandReplay
    <2>3. /\ IsRow(r, command[o].job_id, command[o].expected_version + 1)
          /\ r.actor_id = o /\ r.to_status = command[o].to_status
          /\ r.reason_code = CommandReason[command[o].to_status]
      BY <2>2 DEF IsLastTransition, IsReplayOf, IsRow
    <2> QED
      BY <1>2, <2>1, <2>2, <2>3
  <1>4. ASSUME NEW o \in Operators, NEW t \in Times, NEW lost \in BOOLEAN,
               CommandCommit(o, t, lost)
        PROVE  AcksBacked'
    <2>1. /\ command[o] # None /\ ~ Outdated(command[o])
          /\ acked' = IF lost THEN acked ELSE Ack(o, command[o])
      BY <1>4 DEF CommandCommit
    <2>2. PICK j \in Jobs, changed \in JobRow :
               /\ j = command[o].job_id /\ changed.status = command[o].to_status
               /\ changed.version = command[o].previous.version + 1
               /\ CommandStep(o, j, t, changed)
      BY <1>4, CommandShape
    <2>3. PICK r : r = Evidence(j, job[j], changed, o, t, CommandReason[changed.status])
      OBVIOUS
    <2>4. /\ r \in transitions' /\ IsRow(r, command[o].job_id, command[o].previous.version + 1)
          /\ r.actor_id = o /\ r.to_status = command[o].to_status
          /\ r.reason_code = CommandReason[command[o].to_status]
      BY <2>2, <2>3 DEF CommandStep, Written, Evidence, IsRow
    <2>5. command[o].expected_version # None =>
              command[o].previous.version = command[o].expected_version
      BY <2>1 DEF Outdated
    <2>6. acked' \subseteq Ack(o, command[o])
      BY <2>1 DEF Ack
    <2> QED
      BY <1>2, <2>1, <2>4, <2>5, <2>6
  <1>5. CASE acked' = acked
    BY <1>1, <1>5 DEF AcksBacked
  <1> QED
    BY <1>3, <1>4, <1>5, WhoAcks

\* Nobody is told that his command succeeded when another's did, for any number of
\* operators and of lost or replayed answers.
THEOREM AcksAreTrue == Spec => []AckedCommandsCommitted
  <1>1. Init => AcksBacked
    BY DEF Init, AcksBacked
  <1>2. RowsInv /\ AcksBacked /\ [Next]_vars => AcksBacked'
    BY StepAcks
  <1> QED
    BY <1>1, <1>2, RowsInvHolds, AckedParts, PTL DEF Spec
-----------------------------------------------------------------------------
\* What a step may never do

\* Legal moves leave a terminal status nowhere to go.
LEMMA TerminalStays ==
    ASSUME NEW j, NEW changed, NEW actor, NEW t, NEW reason, job[j].status \in Terminal
    PROVE  ~ Written(j, changed, actor, t, reason)
  BY DEF Written, LegalMove, Evidence, ALLOWED_TRANSITIONS, Terminal

\* What a step on job i leaves alone of another job j.
Apart(j) ==
    /\ job'[j] = job[j] /\ lease'[j] = lease[j]
    /\ \A r \in transitions' \ transitions : r.job_id # j
    /\ \A e \in effects' \ effects : e.job_id # j
    /\ transitions \subseteq transitions' /\ effects \subseteq effects'

LEMMA OthersApart ==
    ASSUME TypeOK, NEW i \in Jobs, NEW j \in Jobs, i # j,
           \/ \E k, l, cap, t : Submit(i, k, l, cap, t)
           \/ \E w, t, e, g, changed : ClaimStep(w, i, g, t, e, changed)
           \/ \E w, t, e : RenewStep(w, i, t, e)
           \/ \E w, t, changed : AdvanceStep(w, i, t, changed)
           \/ \E w, t, changed, reason : ReleaseStep(w, i, t, changed, reason)
           \/ \E o, t, changed : CommandStep(o, i, t, changed)
           \/ QuietStep
    PROVE  Apart(j)
  <1>1. \A changed, actor, t, reason : Written(i, changed, actor, t, reason) =>
            /\ job'[j] = job[j] /\ transitions \subseteq transitions'
            /\ \A r \in transitions' \ transitions : r.job_id # j
    BY DEF Written, Evidence, TypeOK
  <1>2. \A p, changed : CommitEffect(i, p, changed) =>
            effects \subseteq effects' /\ \A e \in effects' \ effects : e.job_id # j
    BY DEF CommitEffect
  <1>3. CASE \E k, l, cap, t : Submit(i, k, l, cap, t)
    <2>1. job'[j] = job[j] /\ UNCHANGED <<lease, effects>>
      BY <1>3 DEF Submit, TypeOK
    <2>2. transitions \subseteq transitions' /\ \A r \in transitions' \ transitions : r.job_id # j
      <3>1. PICK t : transitions' = transitions \cup
                {[job_id |-> i, job_version |-> 1, from_status |-> "", to_status |-> "queued",
                  actor_id |-> None, occurred_at |-> t, reason_code |-> "CREATED"]}
        BY <1>3 DEF Submit
      <3>2. PICK new : new =
                 [job_id |-> i, job_version |-> 1, from_status |-> "", to_status |-> "queued",
                  actor_id |-> None, occurred_at |-> t, reason_code |-> "CREATED"]
        OBVIOUS
      <3>3. transitions' = transitions \cup {new} /\ new.job_id = i
        BY <3>1, <3>2
      <3> QED
        BY <3>3
    <2> QED
      BY <2>1, <2>2 DEF Apart
  <1>4. CASE \E w, t, e, g, changed : ClaimStep(w, i, g, t, e, changed)
    BY <1>1, <1>4 DEF ClaimStep, Apart, TypeOK
  <1>5. CASE \E w, t, e : RenewStep(w, i, t, e)
    BY <1>5 DEF RenewStep, Apart, TypeOK
  <1>6. CASE \E w, t, changed : AdvanceStep(w, i, t, changed)
    BY <1>1, <1>2, <1>6 DEF AdvanceStep, Apart
  <1>7. CASE \E w, t, changed, reason : ReleaseStep(w, i, t, changed, reason)
    BY <1>1, <1>2, <1>7 DEF ReleaseStep, Apart, TypeOK
  <1>8. CASE \E o, t, changed : CommandStep(o, i, t, changed)
    BY <1>1, <1>8 DEF CommandStep, Apart
  <1>9. CASE QuietStep
    BY <1>9 DEF QuietStep, Apart
  <1> QED
    BY <1>3, <1>4, <1>5, <1>6, <1>7, <1>8, <1>9

LEMMA TerminalApart ==
    ASSUME RowsInv, [Next]_vars, NEW j \in Jobs, Exists(j), job[j].status \in Terminal
    PROVE  Apart(j) /\ lease[j] = None
  <1>1. StepShape /\ TypeOK
    BY StepCases DEF RowsInv, FencingInv
  <1>2. lease[j] = None
    BY DEF RowsInv, FencingInv, LeaseIffRunning, Terminal
  <1>3. /\ \A k, l, cap, t : ~ Submit(j, k, l, cap, t)
        /\ \A w, g, t, e, changed : ~ ClaimStep(w, j, g, t, e, changed)
        /\ \A w, t, e : ~ RenewStep(w, j, t, e)
        /\ \A w, t, changed : ~ AdvanceStep(w, j, t, changed)
        /\ \A w, t, changed, reason : ~ ReleaseStep(w, j, t, changed, reason)
        /\ \A o, t, changed : ~ CommandStep(o, j, t, changed)
    BY <1>2, TerminalStays DEF Submit, ClaimStep, RenewStep, Owns, AdvanceStep, ReleaseStep,
       CommandStep
  <1>4. \/ QuietStep
        \/ \E i \in Jobs : /\ i # j
                           /\ \/ \E k, l, cap, t : Submit(i, k, l, cap, t)
                              \/ \E w, t, e, g, changed : ClaimStep(w, i, g, t, e, changed)
                              \/ \E w, t, e : RenewStep(w, i, t, e)
                              \/ \E w, t, changed : AdvanceStep(w, i, t, changed)
                              \/ \E w, t, changed, reason : ReleaseStep(w, i, t, changed, reason)
                              \/ \E o, t, changed : CommandStep(o, i, t, changed)
    BY <1>1, <1>3 DEF StepShape
  <1>5. CASE QuietStep
    BY <1>2, <1>5 DEF QuietStep, Apart
  <1> QED
    BY <1>1, <1>2, <1>4, <1>5, OthersApart

\* A completed or cancelled job is final, whatever workers, operators and lost answers
\* there are.
THEOREM TerminalJobsStay == Spec => TerminalIsFinal
  <1> DEFINE Final ==
          \A j \in Jobs : (Exists(j) /\ job[j].status \in Terminal) =>
              /\ job'[j] = job[j]
              /\ lease'[j] = None
              /\ {r \in transitions' : r.job_id = j} = {r \in transitions : r.job_id = j}
              /\ {e \in effects' : e.job_id = j} = {e \in effects : e.job_id = j}
  <1>1. RowsInv /\ [Next]_vars => [Final]_vars
    <2> SUFFICES ASSUME RowsInv, [Next]_vars PROVE Final
      OBVIOUS
    <2>1. SUFFICES ASSUME NEW j \in Jobs, Exists(j), job[j].status \in Terminal
                   PROVE  /\ job'[j] = job[j]
                          /\ lease'[j] = None
                          /\ {r \in transitions' : r.job_id = j} = {r \in transitions : r.job_id = j}
                          /\ {e \in effects' : e.job_id = j} = {e \in effects : e.job_id = j}
      OBVIOUS
    <2>2. Apart(j) /\ lease[j] = None
      BY <2>1, TerminalApart
    <2> QED
      BY <2>2 DEF Apart
  <1> HIDE DEF Final
  <1>2. [][Final]_vars => TerminalIsFinal
    BY DEF Final, TerminalIsFinal
  <1> QED
    BY <1>1, <1>2, RowsInvHolds, PTL DEF Spec

\* While a lease stands, every write is its owner's or a takeover after it expired.
LEMMA WriteUnderLease ==
    ASSUME RowsInv, EventParts, [Next]_vars, NEW j \in Jobs, lease[j] # None, job'[j] # job[j]
    PROVE  \E r \in transitions' \ transitions :
             /\ r.job_id = j
             /\ \/ /\ r.actor_id = lease[j].owner_id
                   /\ r.occurred_at < lease[j].expires_at
                   /\ held[r.actor_id].lease.generation = lease[j].generation
                   /\ held[r.actor_id].job_id = j
                \/ /\ r.reason_code = "LEASE_TAKEOVER"
                   /\ r.occurred_at >= lease[j].expires_at
                   /\ lease'[j].generation > lease[j].generation
  <1>1. StepShape /\ TypeOK
    BY StepCases DEF RowsInv, FencingInv
  <1>2. Exists(j) /\ job[j].status = "running"
    BY DEF RowsInv, FencingInv, LeaseIffRunning
  <1>3. lease[j] \in LeaseRow /\ lease[j].expires_at \in Nat /\ lease[j].generation \in Nat
    BY <1>1, BoundsAssumption DEF TypeOK, LeaseRow, Times
  <1>4. ASSUME NEW changed, NEW actor, NEW t, NEW reason, Written(j, changed, actor, t, reason)
        PROVE  \E r \in transitions' \ transitions :
                   /\ r.job_id = j /\ r.actor_id = actor /\ r.occurred_at = t
                   /\ r.reason_code = reason
    BY <1>4 DEF Written, Evidence
  <1>5. ASSUME NEW w \in Workers, NEW t \in Times, NEW changed, NEW reason,
               Owns(w, j, t), Written(j, changed, w, t, reason)
        PROVE  \E r \in transitions' \ transitions :
                   /\ r.job_id = j /\ r.actor_id = lease[j].owner_id
                   /\ r.occurred_at < lease[j].expires_at
                   /\ held[r.actor_id].lease.generation = lease[j].generation
                   /\ held[r.actor_id].job_id = j
    BY <1>4, <1>5 DEF Owns
  <1>6. ASSUME NEW w \in Workers, NEW t \in Times, NEW e \in Times, NEW g \in 1..MaxLeaseEvents,
               NEW changed, ClaimStep(w, j, g, t, e, changed)
        PROVE  \E r \in transitions' \ transitions :
                   /\ r.job_id = j /\ r.reason_code = "LEASE_TAKEOVER"
                   /\ r.occurred_at >= lease[j].expires_at
                   /\ lease'[j].generation > lease[j].generation
    <2>1. Written(j, changed, w, t, "LEASE_TAKEOVER") /\ lease[j].expires_at <= t
      BY <1>2, <1>6 DEF ClaimStep
    <2>2. lease'[j].generation = g
      BY <1>1, <1>6 DEF ClaimStep, TypeOK
    <2>3. PICK f \in leaseEvents : f.job_id = j /\ f.generation = lease[j].generation
      BY DEF EventParts, LeasesNewest, Newest
    <2>4. f.generation < g
      BY <1>6, <2>3 DEF ClaimStep, NextGeneration, IsNextAfter, Generations, EventsOf
    <2>5. t \in Nat /\ g \in Nat
      BY BoundsAssumption DEF Times
    <2> QED
      BY <1>3, <1>4, <2>1, <2>2, <2>3, <2>4, <2>5
  <1>7. ~ Apart(j)
    BY DEF Apart
  <1>8. /\ \A k, l, cap, t : ~ Submit(j, k, l, cap, t)
        /\ \A w, t, e : ~ RenewStep(w, j, t, e)
        /\ \A o, t, changed : ~ CommandStep(o, j, t, changed)
        /\ ~ QuietStep
    BY <1>2 DEF Submit, RenewStep, CommandStep, QuietStep
  <1>9. \/ \E w \in Workers, t \in Times, e \in Times, g \in 1..MaxLeaseEvents, changed \in JobRow :
               ClaimStep(w, j, g, t, e, changed)
        \/ \E w \in Workers, t \in Times, changed \in JobRow : AdvanceStep(w, j, t, changed)
        \/ \E w \in Workers, t \in Times, changed \in JobRow, reason \in ReasonCodes :
               ReleaseStep(w, j, t, changed, reason)
    <2>1. ASSUME NEW i \in Jobs, i # j
          PROVE  /\ \A k, l, cap, t : ~ Submit(i, k, l, cap, t)
                 /\ \A w, t, e, g, changed : ~ ClaimStep(w, i, g, t, e, changed)
                 /\ \A w, t, e : ~ RenewStep(w, i, t, e)
                 /\ \A w, t, changed : ~ AdvanceStep(w, i, t, changed)
                 /\ \A w, t, changed, reason : ~ ReleaseStep(w, i, t, changed, reason)
                 /\ \A o, t, changed : ~ CommandStep(o, i, t, changed)
      BY <1>1, <1>7, <2>1, OthersApart
    <2> QED
      BY <1>1, <1>8, <2>1 DEF StepShape
  <1> QED
    BY <1>5, <1>6, <1>9 DEF AdvanceStep, ReleaseStep

\* No write of a worker that lost its lease ever lands, whatever the callers' clocks say.
THEOREM WritesFenced == Spec => FencedWrites
  <1> DEFINE Fenced ==
          \A j \in Jobs : (lease[j] # None /\ job'[j] # job[j]) =>
              \E r \in transitions' \ transitions :
                 /\ r.job_id = j
                 /\ \/ /\ r.actor_id = lease[j].owner_id
                       /\ r.occurred_at < lease[j].expires_at
                       /\ held[r.actor_id].lease.generation = lease[j].generation
                       /\ held[r.actor_id].job_id = j
                    \/ /\ r.reason_code = "LEASE_TAKEOVER"
                       /\ r.occurred_at >= lease[j].expires_at
                       /\ lease'[j].generation > lease[j].generation
  <1>1. RowsInv /\ EventParts /\ [Next]_vars => [Fenced]_vars
    BY WriteUnderLease
  <1> HIDE DEF Fenced
  <1>2. [][Fenced]_vars => FencedWrites
    BY DEF Fenced, FencedWrites
  <1> QED
    BY <1>1, <1>2, RowsInvHolds, LeasesAccounted, EvidenceParts, PTL DEF Spec
-----------------------------------------------------------------------------
\* The refinement of JobLifecycle

\* The refinement mapping of Lifecycle, by name.
MStatus == [j \in Jobs |-> IF Exists(j) THEN job[j].status ELSE "absent"]
MOwner == [j \in Jobs |-> IF lease[j] # None THEN lease[j].owner_id ELSE None]
MProgress == [j \in Jobs |-> IF Exists(j) THEN job[j].completed_units ELSE 0]
MRetries == [j \in Jobs |-> IF Exists(j) THEN job[j].retry_count ELSE 0]
MDone == [j \in Jobs |-> {e.partition_key : e \in {f \in effects : f.job_id = j}}]

LEMMA MapRows ==
    ASSUME NEW j \in Jobs, NEW changed, job'[j] = changed, submission'[j] # None,
           \A i \in Jobs : i # j => job'[i] = job[i] /\ submission'[i] = submission[i]
    PROVE  /\ MStatus' = [MStatus EXCEPT ![j] = changed.status]
           /\ MProgress' = [MProgress EXCEPT ![j] = changed.completed_units]
           /\ MRetries' = [MRetries EXCEPT ![j] = changed.retry_count]
  <1>1. MStatus' = [MStatus EXCEPT ![j] = changed.status]
    BY DEF MStatus, Exists
  <1>2. MProgress' = [MProgress EXCEPT ![j] = changed.completed_units]
    BY DEF MProgress, Exists
  <1>3. MRetries' = [MRetries EXCEPT ![j] = changed.retry_count]
    BY DEF MRetries, Exists
  <1> QED
    BY <1>1, <1>2, <1>3

LEMMA MapLease ==
    ASSUME NEW j \in Jobs, NEW row, lease'[j] = row,
           \A i \in Jobs : i # j => lease'[i] = lease[i]
    PROVE  MOwner' = [MOwner EXCEPT ![j] = IF row # None THEN row.owner_id ELSE None]
  BY DEF MOwner

\* A write of job j, seen through the mapping.
LEMMA MapWritten ==
    ASSUME TypeOK, NEW j \in Jobs, NEW changed \in JobRow, NEW actor, NEW t, NEW reason,
           Written(j, changed, actor, t, reason)
    PROVE  /\ MStatus[j] = job[j].status /\ MProgress[j] = job[j].completed_units
           /\ MRetries[j] = job[j].retry_count
           /\ MStatus' = [MStatus EXCEPT ![j] = changed.status]
           /\ MProgress' = [MProgress EXCEPT ![j] = changed.completed_units]
           /\ MRetries' = [MRetries EXCEPT ![j] = changed.retry_count]
           /\ changed.status = job[j].status => MStatus' = MStatus
           /\ changed.completed_units = job[j].completed_units => MProgress' = MProgress
           /\ changed.retry_count = job[j].retry_count => MRetries' = MRetries
  <1>1. /\ job'[j] = changed /\ \A i \in Jobs : i # j => job'[i] = job[i]
    BY WrittenFacts
  <1>2. submission' = submission /\ Exists(j)
    BY DEF Written
  <1>3. /\ MStatus' = [MStatus EXCEPT ![j] = changed.status]
        /\ MProgress' = [MProgress EXCEPT ![j] = changed.completed_units]
        /\ MRetries' = [MRetries EXCEPT ![j] = changed.retry_count]
    BY <1>1, <1>2, MapRows DEF Exists
  <1>4. /\ MStatus[j] = job[j].status /\ MProgress[j] = job[j].completed_units
        /\ MRetries[j] = job[j].retry_count
    BY <1>2 DEF MStatus, MProgress, MRetries
  <1>5. /\ DOMAIN MStatus = Jobs /\ MStatus = [i \in Jobs |-> MStatus[i]]
        /\ DOMAIN MProgress = Jobs /\ MProgress = [i \in Jobs |-> MProgress[i]]
        /\ DOMAIN MRetries = Jobs /\ MRetries = [i \in Jobs |-> MRetries[i]]
    BY DEF MStatus, MProgress, MRetries
  <1>6. changed.status = job[j].status => MStatus' = MStatus
    BY <1>3, <1>4, <1>5
  <1>7. changed.completed_units = job[j].completed_units => MProgress' = MProgress
    BY <1>3, <1>4, <1>5
  <1>8. changed.retry_count = job[j].retry_count => MRetries' = MRetries
    BY <1>3, <1>4, <1>5
  <1> QED
    BY <1>3, <1>4, <1>6, <1>7, <1>8

\* A committed effect adds a partition that was not done.
LEMMA MapEffect ==
    ASSUME NEW j \in Jobs, NEW p \in Partitions, NEW changed, CommitEffect(j, p, changed)
    PROVE  p \notin MDone[j] /\ MDone' = [MDone EXCEPT ![j] = @ \cup {p}]
  <1>1. PICK n : /\ \A e \in {f \in effects : f.job_id = j} : e.partition_key # p
                 /\ effects' = effects \cup
                        {[job_id |-> j, partition_key |-> p, ordinal |-> n,
                          completed_units |-> changed.completed_units,
                          job_version |-> changed.version]}
    BY DEF CommitEffect
  <1>2. PICK new : new = [job_id |-> j, partition_key |-> p, ordinal |-> n,
                          completed_units |-> changed.completed_units,
                          job_version |-> changed.version]
    OBVIOUS
  <1>3. new.job_id = j /\ new.partition_key = p /\ effects' = effects \cup {new}
    BY <1>1, <1>2
  <1>4. p \notin MDone[j]
    BY <1>1 DEF MDone
  <1>5. ASSUME NEW i \in Jobs
        PROVE  {e.partition_key : e \in {f \in effects' : f.job_id = i}} =
                   IF i = j THEN {e.partition_key : e \in {f \in effects : f.job_id = i}} \cup {p}
                   ELSE {e.partition_key : e \in {f \in effects : f.job_id = i}}
    BY <1>3
  <1>6. MDone' = [MDone EXCEPT ![j] = @ \cup {p}]
    BY <1>5 DEF MDone
  <1> QED
    BY <1>4, <1>6

LEMMA MapEffects ==
    ASSUME NEW j \in Jobs, NEW changed,
           UNCHANGED effects \/ \E p \in Partitions : CommitEffect(j, p, changed)
    PROVE  Lifecycle!DoneGrows(j)
  <1>1. CASE UNCHANGED effects
    BY <1>1 DEF Lifecycle!DoneGrows
  <1>2. CASE \E p \in Partitions : CommitEffect(j, p, changed)
    <2>1. PICK p \in Partitions : CommitEffect(j, p, changed)
      BY <1>2
    <2>2. p \notin MDone[j] /\ MDone' = [MDone EXCEPT ![j] = @ \cup {p}]
      BY <2>1, MapEffect
    <2> QED
      BY <2>2 DEF Lifecycle!DoneGrows, MDone
  <1> QED
    BY <1>1, <1>2

\* The abstract variables under the mapping.
MVars == <<MStatus, MOwner, MProgress, MRetries, MDone>>

LEMMA SubmitRefines ==
    ASSUME TypeOK, TypeOK', NEW j \in Jobs, NEW k, NEW l, NEW cap, NEW t \in Times,
           Submit(j, k, l, cap, t)
    PROVE  Lifecycle!Submit(j)
  <1>1. /\ ~ Exists(j) /\ job'[j] = Queued(t)
        /\ \A i \in Jobs : i # j => job'[i] = job[i] /\ submission'[i] = submission[i]
        /\ UNCHANGED <<lease, effects>>
    BY DEF Submit, TypeOK
  <1>2. submission'[j] # None
    <2>1. Queued(t) \in JobRow
      BY BoundsAssumption DEF Queued, JobRow, Status
    <2>2. job'[j] # None
      BY <1>1, <2>1, NoneAssumption
    <2> QED
      BY <2>2 DEF TypeOK
  <1>3. /\ Queued(t).status = "queued" /\ Queued(t).completed_units = 0
        /\ Queued(t).retry_count = 0
    BY DEF Queued
  <1>4. /\ MStatus' = [MStatus EXCEPT ![j] = "queued"]
        /\ MProgress' = [MProgress EXCEPT ![j] = 0]
        /\ MRetries' = [MRetries EXCEPT ![j] = 0]
    BY <1>1, <1>2, <1>3, MapRows
  <1>5. MStatus[j] = "absent" /\ MProgress[j] = 0 /\ MRetries[j] = 0
    BY <1>1 DEF MStatus, MProgress, MRetries
  <1>6. MProgress' = MProgress
    BY <1>4, <1>5 DEF MProgress
  <1>7. MRetries' = MRetries
    BY <1>4, <1>5 DEF MRetries
  <1>8. MOwner' = MOwner /\ MDone' = MDone
    BY <1>1 DEF MOwner, MDone
  <1> QED
    BY <1>4, <1>5, <1>6, <1>7, <1>8
       DEF Lifecycle!Submit, MStatus, MProgress, MRetries, MOwner, MDone

LEMMA ClaimRefines ==
    ASSUME TypeOK, NEW w \in Workers, NEW j \in Jobs, NEW g \in 1..MaxLeaseEvents,
           NEW t \in Times, NEW e \in Times, NEW changed \in JobRow,
           ClaimStep(w, j, g, t, e, changed)
    PROVE  Lifecycle!Own(j, w)
  <1>1. PICK reason : Written(j, changed, w, t, reason)
    BY DEF ClaimStep
  <1>2. /\ MStatus[j] = job[j].status /\ MStatus' = [MStatus EXCEPT ![j] = "running"]
        /\ MProgress' = MProgress /\ MRetries' = MRetries
    BY <1>1, MapWritten DEF ClaimStep
  <1>3. PICK row : row = [owner_id |-> w, generation |-> g, acquired_at |-> t, expires_at |-> e]
    OBVIOUS
  <1>4. row \in LeaseRow /\ row.owner_id = w
    BY <1>3, BoundsAssumption DEF LeaseRow
  <1>5. row # None
    BY <1>4, NoneAssumption
  <1>6. lease'[j] = row /\ \A i \in Jobs : i # j => lease'[i] = lease[i]
    BY <1>3 DEF ClaimStep, TypeOK
  <1>7. MOwner' = [MOwner EXCEPT ![j] = w]
    BY <1>4, <1>5, <1>6, MapLease
  <1>8. MDone' = MDone
    BY DEF ClaimStep, MDone
  <1>9. MStatus[j] \in {"queued", "retrying", "running"}
    BY <1>2 DEF ClaimStep
  <1> QED
    BY <1>2, <1>7, <1>8, <1>9
       DEF Lifecycle!Own, MStatus, MProgress, MRetries, MOwner, MDone

LEMMA RenewRefines ==
    ASSUME TypeOK, NEW w \in Workers, NEW j \in Jobs, NEW t \in Times, NEW e \in Times,
           RenewStep(w, j, t, e)
    PROVE  UNCHANGED MVars
  <1>1. PICK old : old = lease[j]
    OBVIOUS
  <1>2. old \in LeaseRow /\ old # None
    BY <1>1 DEF RenewStep, Owns, TypeOK
  <1>3. PICK row : row = [old EXCEPT !.expires_at = e]
    OBVIOUS
  <1>4. row \in LeaseRow /\ row.owner_id = old.owner_id
    BY <1>2, <1>3 DEF LeaseRow
  <1>5. row # None
    BY <1>4, NoneAssumption
  <1>6. lease'[j] = row /\ \A i \in Jobs : i # j => lease'[i] = lease[i]
    BY <1>1, <1>3 DEF RenewStep, TypeOK
  <1>7. MOwner' = MOwner
    BY <1>1, <1>2, <1>4, <1>5, <1>6 DEF MOwner
  <1>8. UNCHANGED <<MStatus, MProgress, MRetries, MDone>>
    BY DEF RenewStep, MStatus, MProgress, MRetries, MDone, Exists
  <1> QED
    BY <1>7, <1>8 DEF MVars

\* The owner of a job, through the mapping.
LEMMA MapOwns ==
    ASSUME NEW w \in Workers, NEW j \in Jobs, NEW t, Owns(w, j, t)
    PROVE  MOwner[j] = w
  BY DEF Owns, MOwner

LEMMA AdvanceRefines ==
    ASSUME TypeOK, NEW w \in Workers, NEW j \in Jobs, NEW t \in Times, NEW changed \in JobRow,
           AdvanceStep(w, j, t, changed)
    PROVE  \E u \in 0..TotalUnits : Lifecycle!Advance(j, u)
  <1>1. /\ Written(j, changed, w, t, "CHECKPOINTED") /\ job[j].status = "running"
        /\ changed.status = job[j].status /\ changed.retry_count = job[j].retry_count
        /\ changed.completed_units < TotalUnits /\ UNCHANGED lease
    BY DEF AdvanceStep
  <1>2. /\ MStatus[j] = "running" /\ MStatus' = MStatus /\ MRetries' = MRetries
        /\ MProgress[j] = job[j].completed_units
        /\ MProgress' = [MProgress EXCEPT ![j] = changed.completed_units]
    BY <1>1, MapWritten
  <1>3. MOwner[j] \in Workers /\ MOwner' = MOwner
    BY <1>1, MapOwns DEF AdvanceStep, MOwner
  <1>4. Lifecycle!DoneGrows(j)
    BY MapEffects DEF AdvanceStep
  <1>5. changed.completed_units \in 0..TotalUnits
    BY DEF JobRow
  <1>6. MProgress[j] <= changed.completed_units
    BY <1>1, <1>2 DEF Written
  <1>7. Lifecycle!Advance(j, changed.completed_units)
    BY <1>1, <1>2, <1>3, <1>4, <1>6
       DEF Lifecycle!Advance, MStatus, MProgress, MRetries, MOwner
  <1> QED
    BY <1>5, <1>7

LEMMA ReleaseRefines ==
    ASSUME TypeOK, NEW w \in Workers, NEW j \in Jobs, NEW t \in Times, NEW changed \in JobRow,
           NEW reason, ReleaseStep(w, j, t, changed, reason)
    PROVE  \/ Lifecycle!Complete(j)
           \/ \E to \in {"retrying", "failed", "paused", "cancelled"} : Lifecycle!Yield(j, to)
  <1>1. /\ Written(j, changed, w, t, reason) /\ job[j].status = "running"
        /\ changed.retry_count = RetriesAfter(job[j], changed.status)
    BY DEF ReleaseStep
  <1>2. /\ MStatus[j] = "running" /\ MRetries[j] = job[j].retry_count
        /\ MStatus' = [MStatus EXCEPT ![j] = changed.status]
        /\ MProgress' = [MProgress EXCEPT ![j] = changed.completed_units]
        /\ MRetries' = [MRetries EXCEPT ![j] = changed.retry_count]
        /\ changed.completed_units = job[j].completed_units => MProgress' = MProgress
        /\ changed.retry_count = job[j].retry_count => MRetries' = MRetries
    BY <1>1, MapWritten
  <1>3. MOwner[j] \in Workers
    BY MapOwns DEF ReleaseStep
  <1>4. lease'[j] = None /\ \A i \in Jobs : i # j => lease'[i] = lease[i]
    BY DEF ReleaseStep, TypeOK
  <1>5. MOwner' = [MOwner EXCEPT ![j] = None]
    BY <1>4, MapLease
  <1>6. job[j].retry_count \in Nat /\ changed.retry_count \in 0..RetryCeiling
    BY <1>1, WrittenFacts, BoundsAssumption DEF JobRow
  <1>7. CASE /\ changed.status = "completed" /\ changed.completed_units = TotalUnits
             /\ UNCHANGED effects \/ \E p \in Partitions : CommitEffect(j, p, changed)
    <2>1. Lifecycle!DoneGrows(j)
      BY <1>7, MapEffects
    <2>2. MRetries' = MRetries
      BY <1>1, <1>2, <1>6, <1>7 DEF RetriesAfter
    <2>3. /\ MStatus' = [MStatus EXCEPT ![j] = "completed"]
          /\ MProgress' = [MProgress EXCEPT ![j] = TotalUnits]
      BY <1>2, <1>7
    <2> QED
      BY <1>2, <1>3, <1>5, <2>1, <2>2, <2>3
         DEF Lifecycle!Complete, MStatus, MProgress, MRetries, MOwner
  <1>8. CASE /\ changed.status \in {"retrying", "failed", "paused", "cancelled"}
             /\ changed.completed_units = job[j].completed_units /\ UNCHANGED effects
    <2>1. PICK to \in {"retrying", "failed", "paused", "cancelled"} : to = changed.status
      BY <1>8
    <2>2. to = "retrying" => MRetries[j] < RetryCeiling
      BY <1>1, <1>2, <1>6, <2>1, BoundsAssumption DEF RetriesAfter
    <2>3. MRetries' = [MRetries EXCEPT ![j] = IF to = "retrying" THEN @ + 1 ELSE @]
      <3>1. changed.retry_count = IF to = "retrying" THEN MRetries[j] + 1 ELSE MRetries[j]
        BY <1>1, <1>2, <1>6, <2>1 DEF RetriesAfter
      <3> QED
        BY <1>2, <3>1
    <2>4. MProgress' = MProgress /\ MDone' = MDone
      BY <1>2, <1>8 DEF MDone
    <2>5. MStatus' = [MStatus EXCEPT ![j] = to]
      BY <1>2, <2>1
    <2>6. Lifecycle!Yield(j, to)
      BY <1>2, <1>3, <1>5, <2>2, <2>3, <2>4, <2>5
         DEF Lifecycle!Yield, MStatus, MProgress, MRetries, MOwner, MDone
    <2> QED
      BY <2>6
  <1> QED
    BY <1>7, <1>8 DEF ReleaseStep

LEMMA CommandRefines ==
    ASSUME TypeOK, NEW o, NEW j \in Jobs, NEW t, NEW changed \in JobRow,
           CommandStep(o, j, t, changed)
    PROVE  \E to \in {"queued", "cancelled"} : Lifecycle!Operate(j, to)
  <1>1. PICK reason : Written(j, changed, o, t, reason)
    BY DEF CommandStep
  <1>2. /\ <<job[j].status, changed.status>> \in AllowedUnleased
        /\ changed.completed_units = job[j].completed_units
        /\ changed.retry_count = job[j].retry_count /\ UNCHANGED <<lease, effects>>
    BY DEF CommandStep
  <1>3. /\ MStatus[j] = job[j].status /\ MStatus' = [MStatus EXCEPT ![j] = changed.status]
        /\ MProgress' = MProgress /\ MRetries' = MRetries
    BY <1>1, <1>2, MapWritten
  <1>4. MOwner' = MOwner /\ MDone' = MDone
    BY <1>2 DEF MOwner, MDone
  <1>5. PICK to \in {"queued", "cancelled"} : to = changed.status
    BY <1>2 DEF AllowedUnleased
  <1>6. <<MStatus[j], to>> \in {<<"failed", "queued">>, <<"paused", "queued">>,
                                <<"queued", "cancelled">>}
    BY <1>2, <1>3, <1>5 DEF AllowedUnleased
  <1>7. MStatus' = [MStatus EXCEPT ![j] = to]
    BY <1>3, <1>5
  <1>8. Lifecycle!Operate(j, to)
    BY <1>3, <1>4, <1>6, <1>7
       DEF Lifecycle!Operate, MStatus, MProgress, MRetries, MOwner, MDone
  <1> QED
    BY <1>8

LEMMA StepRefines ==
    ASSUME RowsInv, [Next]_vars
    PROVE  [Lifecycle!Next]_(Lifecycle!vars)
  <1>1. StepShape /\ TypeOK /\ TypeOK'
    BY StepCases, StepTyped DEF RowsInv, FencingInv
  <1>2. QuietStep => UNCHANGED MVars
    BY DEF QuietStep, MVars, MStatus, MOwner, MProgress, MRetries, MDone, Exists
  <1>3. Lifecycle!Next \/ UNCHANGED MVars
    BY <1>1, <1>2, SubmitRefines, ClaimRefines, RenewRefines, AdvanceRefines, ReleaseRefines,
       CommandRefines DEF StepShape, Lifecycle!Next
  <1>4. UNCHANGED MVars => UNCHANGED Lifecycle!vars
    BY DEF MVars, Lifecycle!vars, MStatus, MOwner, MProgress, MRetries, MDone
  <1> QED
    BY <1>3, <1>4

\* The engine implements the abstract lifecycle for any number of jobs, workers, operators,
\* partitions and units: no stale snapshot, retried call or lost answer shows through.
THEOREM EngineImplementsLifecycle == Spec => ImplementsLifecycle
  <1>1. Init => Lifecycle!Init
    BY DEF Init, Lifecycle!Init, Exists
  <1>2. RowsInv /\ [Next]_vars => [Lifecycle!Next]_(Lifecycle!vars)
    BY StepRefines
  <1> QED
    BY <1>1, <1>2, RowsInvHolds, PTL DEF Spec, ImplementsLifecycle, Lifecycle!Spec
=============================================================================

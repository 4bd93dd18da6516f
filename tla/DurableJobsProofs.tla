--------------------------- MODULE DurableJobsProofs ---------------------------
(***************************************************************************)
(* Proofs about DurableJobs for every value of its constants.              *)
(***************************************************************************)
EXTENDS DurableJobs, TLAPS

\* The rows an aggregate function may return before the version bound and the
\* guards of the caller are applied.
AnyRow == [version: Nat \ {0}, status: Status, completed_units: 0..TotalUnits,
           retry_count: 0..RetryCeiling, updated_at: Times]

\* DurableJob.transition, checkpoint and reclaim return well-formed rows.
LEMMA TransitionedRow ==
    ASSUME NEW row \in JobRow, NEW to \in Status, NEW u \in 0..TotalUnits, NEW t \in Times,
           CanTransition(row, to, t)
    PROVE  /\ Transitioned(row, to, u, t) \in AnyRow
           /\ Transitioned(row, to, u, t).version = row.version + 1
           /\ Transitioned(row, to, u, t).status = to
BY BoundsAssumption DEF JobRow, AnyRow, Transitioned, CanTransition, RetriesAfter, Times

LEMMA CheckpointedRow ==
    ASSUME NEW row \in JobRow, NEW u \in 0..TotalUnits, NEW t \in Times
    PROVE  /\ Checkpointed(row, u, t) \in AnyRow
           /\ Checkpointed(row, u, t).version = row.version + 1
           /\ Checkpointed(row, u, t).status = row.status
BY BoundsAssumption DEF JobRow, AnyRow, Checkpointed

LEMMA ReclaimedRow ==
    ASSUME NEW row \in JobRow, NEW t \in Times
    PROVE  /\ Reclaimed(row, t) \in AnyRow
           /\ Reclaimed(row, t).version = row.version + 1
           /\ Reclaimed(row, t).status = row.status
BY BoundsAssumption DEF JobRow, AnyRow, Reclaimed

\* A job that has a row is a submitted one, and its row is typed.
LEMMA ExistingRow ==
    ASSUME TypeOK, NEW j \in Jobs, Exists(j)
    PROVE  job[j] \in JobRow
BY DEF TypeOK, Exists

\* _persist_transition_rows keeps both tables typed.
LEMMA PersistTyped ==
    ASSUME TypeOK, NEW j \in Jobs, NEW previous \in JobRow, NEW changed \in AnyRow,
           NEW actor \in Actors, NEW t \in Times, NEW reason \in ReasonCodes,
           PersistTransitionRows(j, previous, changed, actor, t, reason)
    PROVE  /\ job' \in [Jobs -> JobRow \cup {None}]
           /\ \A i \in Jobs : job'[i] = None <=> submission[i] = None
           /\ transitions' \subseteq TransitionRow
           /\ changed \in JobRow
<1>1. changed \in JobRow
  BY BoundsAssumption DEF PersistTransitionRows, AnyRow, JobRow
<1>2. Evidence(j, previous, changed, actor, t, reason) \in TransitionRow
  BY <1>1 DEF Evidence, TransitionRow, JobRow
<1>3. changed # None
  BY <1>1, NoneAssumption
<1>4. job' = [job EXCEPT ![j] = changed] /\ submission[j] # None
  BY DEF PersistTransitionRows, Exists
<1>5. job' \in [Jobs -> JobRow \cup {None}]
  BY <1>1, <1>4 DEF TypeOK
<1>6. \A i \in Jobs : job'[i] = None <=> submission[i] = None
  BY <1>3, <1>4 DEF TypeOK
<1>7. transitions' \subseteq TransitionRow
  BY <1>2 DEF PersistTransitionRows, TypeOK
<1>8. QED
  BY <1>1, <1>5, <1>6, <1>7

\* _append_lease_event keeps the table typed.
LEMMA LeaseEventTyped ==
    ASSUME TypeOK, NEW j \in Jobs, NEW w \in Workers, NEW g \in Nat \ {0},
           NEW action \in {"claimed", "taken_over", "renewed", "released"},
           AppendLeaseEvent(j, w, g, action)
    PROVE  leaseEvents' \subseteq LeaseEventRow
<1>1. PICK seq \in 1..MaxLeaseEvents :
          leaseEvents' = leaseEvents \cup
               {[job_id |-> j, event_sequence |-> seq, generation |-> g,
                 action |-> action, owner_id |-> w]}
  BY DEF AppendLeaseEvent
<1>2. seq \in Nat \ {0}
  BY BoundsAssumption
<1>3. QED
  BY <1>1, <1>2 DEF TypeOK, LeaseEventRow

\* The effect half of persist_owned_effect_transition keeps the table typed.
LEMMA EffectTyped ==
    ASSUME TypeOK, NEW j \in Jobs, NEW p \in Partitions, NEW changed \in JobRow,
           changed.version >= 2, CommitEffect(j, p, changed)
    PROVE  effects' \subseteq EffectRow
<1>1. PICK n \in 1..MaxVersion :
          /\ changed.completed_units >= 1
          /\ effects' = effects \cup
               {[job_id |-> j, partition_key |-> p, ordinal |-> n,
                 completed_units |-> changed.completed_units,
                 job_version |-> changed.version]}
  BY DEF CommitEffect
<1>2. n \in Nat \ {0} /\ changed.completed_units \in 1..TotalUnits
      /\ changed.version \in 2..MaxVersion
  BY <1>1, BoundsAssumption DEF JobRow
<1>3. QED
  BY <1>1, <1>2 DEF TypeOK, EffectRow

\* A held LeasedJob is typed.
LEMMA HeldTyped ==
    ASSUME TypeOK, NEW w \in Workers, held[w] # None
    PROVE  /\ held[w] \in LeasedJob
           /\ held[w].job_id \in Jobs
           /\ held[w].job \in JobRow
           /\ held[w].job.version \in Nat
           /\ held[w].lease \in LeaseRow
           /\ held[w].lease.generation \in Nat \ {0}
<1>1. held[w] \in LeasedJob
  BY DEF TypeOK
<1>2. QED
  BY <1>1, BoundsAssumption DEF LeasedJob, JobRow, LeaseRow

\* persist_owned_transition without release keeps every table typed.
LEMMA OwnedWriteTyped ==
    ASSUME TypeOK, NEW w \in Workers, held[w] # None, NEW changed \in AnyRow,
           NEW t \in Times, NEW reason \in ReasonCodes, NEW lost \in BOOLEAN,
           OwnedWrite(w, changed, t, reason, lost), effects' \subseteq EffectRow
    PROVE  TypeOK'
<1>1. held[w].job_id \in Jobs /\ held[w].job \in JobRow /\ held[w] \in LeasedJob
  BY HeldTyped
<1>2. PersistTransitionRows(held[w].job_id, held[w].job, changed, w, t, reason)
  BY DEF OwnedWrite
<1>3. w \in Actors
  BY DEF Actors
<1>4. /\ job' \in [Jobs -> JobRow \cup {None}]
      /\ \A i \in Jobs : job'[i] = None <=> submission[i] = None
      /\ transitions' \subseteq TransitionRow
      /\ changed \in JobRow
  BY <1>1, <1>2, <1>3, PersistTyped
<1>5. held' \in [Workers -> LeasedJob \cup {None}]
  <2>1. [held EXCEPT ![w].job = changed] \in [Workers -> LeasedJob \cup {None}]
    BY <1>1, <1>4 DEF TypeOK, LeasedJob
  <2>2. QED
    BY <2>1 DEF OwnedWrite, TypeOK
<1>6. QED
  BY <1>4, <1>5 DEF OwnedWrite, TypeOK

\* persist_owned_transition with release keeps every table typed.
LEMMA OwnedReleaseTyped ==
    ASSUME TypeOK, NEW w \in Workers, held[w] # None, NEW changed \in AnyRow,
           NEW t \in Times, NEW reason \in ReasonCodes, NEW lost \in BOOLEAN,
           OwnedRelease(w, changed, t, reason, lost), effects' \subseteq EffectRow
    PROVE  TypeOK'
<1>1. /\ held[w].job_id \in Jobs /\ held[w].job \in JobRow
      /\ held[w].lease.generation \in Nat \ {0}
  BY HeldTyped
<1>2. PersistTransitionRows(held[w].job_id, held[w].job, changed, w, t, reason)
  BY DEF OwnedRelease
<1>3. w \in Actors
  BY DEF Actors
<1>4. /\ job' \in [Jobs -> JobRow \cup {None}]
      /\ \A i \in Jobs : job'[i] = None <=> submission[i] = None
      /\ transitions' \subseteq TransitionRow
  BY <1>1, <1>2, <1>3, PersistTyped
<1>5. leaseEvents' \subseteq LeaseEventRow
  <2>1. AppendLeaseEvent(held[w].job_id, w, held[w].lease.generation, "released")
    BY DEF OwnedRelease
  <2>2. QED
    BY <1>1, <2>1, LeaseEventTyped
<1>6. held' \in [Workers -> LeasedJob \cup {None}] /\ lease' \in [Jobs -> LeaseRow \cup {None}]
  BY <1>1 DEF OwnedRelease, TypeOK
<1>7. QED
  BY <1>4, <1>5, <1>6 DEF OwnedRelease, TypeOK

\* The effect table after a worker write that commits one.
LEMMA WriteEffectTyped ==
    ASSUME TypeOK, NEW w \in Workers, held[w] # None, NEW p \in Partitions,
           NEW changed \in AnyRow, NEW t, NEW reason,
           changed.version = held[w].job.version + 1,
           PersistTransitionRows(held[w].job_id, held[w].job, changed, w, t, reason),
           CommitEffect(held[w].job_id, p, changed)
    PROVE  effects' \subseteq EffectRow
<1>1. held[w].job_id \in Jobs /\ held[w].job \in JobRow
  BY HeldTyped
<1>2. changed \in JobRow /\ changed.version >= 2
  BY <1>1, BoundsAssumption DEF PersistTransitionRows, AnyRow, JobRow
<1>3. QED
  BY <1>1, <1>2, EffectTyped

\* An acknowledged command is well typed.
LEMMA AckTyped ==
    ASSUME TypeOK, NEW o \in Operators, command[o] # None
    PROVE  Ack(o, command[o]) \subseteq
               [actor_id: Operators, job_id: Jobs, to_status: {"queued", "cancelled"},
                expected_version: 1..MaxVersion]
<1>1. command[o] \in Command
  BY DEF TypeOK
<1>2. QED
  BY <1>1 DEF Ack, Command, TypeOK

LEMMA InitTyped == Init => TypeOK
BY DEF Init, TypeOK

\* Every step keeps the tables typed.
LEMMA StepTyped == TypeOK /\ [Next]_vars => TypeOK'
<1> SUFFICES ASSUME TypeOK, [Next]_vars PROVE TypeOK'
  OBVIOUS
<1>1. ASSUME NEW j \in Jobs, NEW k \in IdemKeys, NEW l \in Lanes, NEW cap \in Caps,
             NEW t \in Times, Submit(j, k, l, cap, t)
      PROVE  TypeOK'
  <2>1. Queued(t) \in JobRow
    BY BoundsAssumption DEF Queued, JobRow, Status
  <2>2. [key |-> k, lane |-> l, created_at |-> t] \in SubmissionRow
    BY DEF SubmissionRow
  <2>3. [job_id |-> j, job_version |-> 1, from_status |-> "", to_status |-> "queued",
         actor_id |-> None, occurred_at |-> t, reason_code |-> "CREATED"] \in TransitionRow
    BY BoundsAssumption DEF TransitionRow, Status, ReasonCodes
  <2>4. /\ submission' \in [Jobs -> SubmissionRow \cup {None}]
        /\ job' \in [Jobs -> JobRow \cup {None}]
        /\ transitions' \subseteq TransitionRow
    BY <1>1, <2>1, <2>2, <2>3 DEF Submit, TypeOK
  <2>5. \A i \in Jobs : job'[i] = None <=> submission'[i] = None
    <3>1. Queued(t) # None /\ [key |-> k, lane |-> l, created_at |-> t] # None
      BY <2>1, <2>2, NoneAssumption
    <3>2. QED
      BY <1>1, <3>1 DEF Submit, TypeOK
  <2>6. QED
    BY <1>1, <2>4, <2>5 DEF Submit, TypeOK
<1>2. ASSUME NEW w \in Workers, NEW l \in Lanes, NEW t \in Times, NEW e \in Times,
             NEW lost \in BOOLEAN, Claim(w, l, t, e, lost)
      PROVE  TypeOK'
  <2> DEFINE Waiting(j) == job[j].status # "running"
             Changed(j) == IF Waiting(j)
                           THEN Transitioned(job[j], "running", job[j].completed_units, t)
                           ELSE Reclaimed(job[j], t)
             Row(g) == [owner_id |-> w, generation |-> g, acquired_at |-> t, expires_at |-> e]
             Reason(j) == IF Waiting(j) THEN "CLAIMED" ELSE "LEASE_TAKEOVER"
             Action(j) == IF Waiting(j) THEN "claimed" ELSE "taken_over"
  <2>1. PICK j \in Jobs, g \in 1..MaxLeaseEvents :
             /\ ClaimHead(j, l, t)
             /\ IF Waiting(j) THEN CanTransition(job[j], "running", t)
                              ELSE CanReclaim(job[j], t)
             /\ PersistTransitionRows(j, job[j], Changed(j), w, t, Reason(j))
             /\ lease' = [lease EXCEPT ![j] = Row(g)]
             /\ AppendLeaseEvent(j, w, g, Action(j))
             /\ held' = IF lost THEN held
                        ELSE [held EXCEPT ![w] = [job_id |-> j, job |-> Changed(j),
                                                  lease |-> Row(g)]]
    BY <1>2 DEF Claim
  <2>2. job[j] \in JobRow
    BY <2>1, ExistingRow DEF ClaimHead, Claimable
  <2>3. Changed(j) \in AnyRow
    <3>1. "running" \in Status /\ job[j].completed_units \in 0..TotalUnits
      BY <2>2 DEF Status, JobRow
    <3>2. QED
      BY <2>1, <2>2, <3>1, TransitionedRow, ReclaimedRow
  <2>4. w \in Actors /\ Reason(j) \in ReasonCodes
    BY DEF Actors, ReasonCodes
  <2> HIDE DEF Changed, Reason
  <2>5. /\ job' \in [Jobs -> JobRow \cup {None}]
        /\ \A i \in Jobs : job'[i] = None <=> submission[i] = None
        /\ transitions' \subseteq TransitionRow
        /\ Changed(j) \in JobRow
    BY <2>1, <2>2, <2>3, <2>4, PersistTyped
  <2>6. g \in Nat \ {0} /\ Row(g) \in LeaseRow
    BY BoundsAssumption DEF LeaseRow
  <2>7. leaseEvents' \subseteq LeaseEventRow
    BY <2>1, <2>6, LeaseEventTyped
  <2>8. held' \in [Workers -> LeasedJob \cup {None}]
    <3>1. [job_id |-> j, job |-> Changed(j), lease |-> Row(g)] \in LeasedJob
      BY <2>5, <2>6 DEF LeasedJob
    <3>2. QED
      BY <2>1, <3>1 DEF TypeOK
  <2>9. lease' \in [Jobs -> LeaseRow \cup {None}]
    BY <2>1, <2>6 DEF TypeOK
  <2>10. QED
    BY <1>2, <2>5, <2>7, <2>8, <2>9 DEF Claim, TypeOK
<1>3. ASSUME NEW w \in Workers, NEW t \in Times, NEW e \in Times, NEW lost \in BOOLEAN,
             Heartbeat(w, t, e, lost)
      PROVE  TypeOK'
  <2> DEFINE j == held[w].job_id
  <2>1. /\ held[w] # None /\ OwnsLease(w, j, held[w].lease.generation, t)
        /\ lease' = [lease EXCEPT ![j].expires_at = e]
        /\ AppendLeaseEvent(j, w, held[w].lease.generation, "renewed")
        /\ held' = IF lost THEN held ELSE [held EXCEPT ![w].lease.expires_at = e]
    BY <1>3 DEF Heartbeat
  <2>2. /\ held[w] \in LeasedJob /\ j \in Jobs
        /\ held[w].lease \in LeaseRow /\ held[w].lease.generation \in Nat \ {0}
    BY <2>1, HeldTyped
  <2>3. lease[j] \in LeaseRow
    BY <2>1, <2>2 DEF OwnsLease, TypeOK
  <2>4. lease' \in [Jobs -> LeaseRow \cup {None}]
    BY <2>1, <2>2, <2>3 DEF TypeOK, LeaseRow
  <2>5. held' \in [Workers -> LeasedJob \cup {None}]
    <3>1. [held EXCEPT ![w].lease.expires_at = e] \in [Workers -> LeasedJob \cup {None}]
      BY <2>2 DEF TypeOK, LeasedJob, LeaseRow
    <3>2. QED
      BY <2>1, <3>1 DEF TypeOK
  <2>6. leaseEvents' \subseteq LeaseEventRow
    BY <2>1, <2>2, LeaseEventTyped
  <2>7. QED
    BY <1>3, <2>4, <2>5, <2>6 DEF Heartbeat, TypeOK
<1>4. ASSUME NEW w \in Workers, NEW t \in Times, NEW u \in 0..TotalUnits, NEW lost \in BOOLEAN,
             Checkpoint(w, t, u, lost)
      PROVE  TypeOK'
  <2>1. held[w] # None /\ held[w].job \in JobRow
    BY <1>4, HeldTyped DEF Checkpoint
  <2>2. Checkpointed(held[w].job, u, t) \in AnyRow
    BY <2>1, CheckpointedRow
  <2>3. effects' \subseteq EffectRow /\ "CHECKPOINTED" \in ReasonCodes
    BY <1>4 DEF Checkpoint, TypeOK, ReasonCodes
  <2>4. QED
    BY <1>4, <2>1, <2>2, <2>3, OwnedWriteTyped DEF Checkpoint
<1>5. ASSUME NEW w \in Workers, NEW p \in Partitions, NEW t \in Times, NEW u \in 0..TotalUnits,
             NEW lost \in BOOLEAN, CommitPartition(w, p, t, u, lost)
      PROVE  TypeOK'
  <2> DEFINE changed == Checkpointed(held[w].job, u, t)
  <2>1. held[w] # None /\ held[w].job \in JobRow
    BY <1>5, HeldTyped DEF CommitPartition
  <2>2. changed \in AnyRow /\ changed.version = held[w].job.version + 1
    BY <2>1, CheckpointedRow
  <2>3. OwnedWrite(w, changed, t, "CHECKPOINTED", lost)
        /\ CommitEffect(held[w].job_id, p, changed)
    BY <1>5 DEF CommitPartition
  <2> HIDE DEF changed
  <2>4. effects' \subseteq EffectRow
    BY <2>1, <2>2, <2>3, WriteEffectTyped DEF OwnedWrite
  <2>5. "CHECKPOINTED" \in ReasonCodes
    BY DEF ReasonCodes
  <2>6. QED
    BY <2>1, <2>2, <2>3, <2>4, <2>5, OwnedWriteTyped
<1>6. ASSUME NEW w \in Workers, NEW p \in Partitions, NEW t \in Times, NEW lost \in BOOLEAN,
             CompletePartition(w, p, t, lost)
      PROVE  TypeOK'
  <2> DEFINE changed == Transitioned(held[w].job, "completed", TotalUnits, t)
  <2>1. held[w] # None /\ held[w].job \in JobRow
    BY <1>6, HeldTyped DEF CompletePartition
  <2>2. "completed" \in Status /\ TotalUnits \in 0..TotalUnits /\ "FINISHED" \in ReasonCodes
    BY BoundsAssumption DEF Status, ReasonCodes
  <2>3. changed \in AnyRow /\ changed.version = held[w].job.version + 1
    BY <1>6, <2>1, <2>2, TransitionedRow DEF CompletePartition
  <2>4. OwnedRelease(w, changed, t, "FINISHED", lost)
        /\ CommitEffect(held[w].job_id, p, changed)
    BY <1>6 DEF CompletePartition
  <2> HIDE DEF changed
  <2>5. effects' \subseteq EffectRow
    BY <2>1, <2>3, <2>4, WriteEffectTyped DEF OwnedRelease
  <2>6. QED
    BY <2>1, <2>2, <2>3, <2>4, <2>5, OwnedReleaseTyped
<1>7. ASSUME NEW w \in Workers, NEW t \in Times, NEW lost \in BOOLEAN, Complete(w, t, lost)
      PROVE  TypeOK'
  <2>1. held[w] # None /\ held[w].job \in JobRow
    BY <1>7, HeldTyped DEF Complete
  <2>2. "completed" \in Status /\ TotalUnits \in 0..TotalUnits /\ "FINISHED" \in ReasonCodes
    BY BoundsAssumption DEF Status, ReasonCodes
  <2>3. Transitioned(held[w].job, "completed", TotalUnits, t) \in AnyRow
    BY <1>7, <2>1, <2>2, TransitionedRow DEF Complete
  <2>4. effects' \subseteq EffectRow
    BY <1>7 DEF Complete, TypeOK
  <2>5. QED
    BY <1>7, <2>1, <2>2, <2>3, <2>4, OwnedReleaseTyped DEF Complete
<1>8. ASSUME NEW w \in Workers, NEW to \in DOMAIN FinishReason, NEW t \in Times,
             NEW lost \in BOOLEAN, FinishWithStatus(w, to, t, lost)
      PROVE  TypeOK'
  <2>1. held[w] # None /\ held[w].job \in JobRow
    BY <1>8, HeldTyped DEF FinishWithStatus
  <2>2. to \in Status /\ held[w].job.completed_units \in 0..TotalUnits
        /\ FinishReason[to] \in ReasonCodes
    BY <2>1 DEF Status, ReasonCodes, FinishReason, JobRow
  <2>3. Transitioned(held[w].job, to, held[w].job.completed_units, t) \in AnyRow
    BY <1>8, <2>1, <2>2, TransitionedRow DEF FinishWithStatus
  <2>4. effects' \subseteq EffectRow
    BY <1>8 DEF FinishWithStatus, TypeOK
  <2>5. QED
    BY <1>8, <2>1, <2>2, <2>3, <2>4, OwnedReleaseTyped DEF FinishWithStatus
<1>9. ASSUME NEW w \in Workers, Abandon(w) PROVE TypeOK'
  BY <1>9 DEF Abandon, TypeOK
<1>10. ASSUME NEW o \in Operators, NEW j \in Jobs, NEW to \in {"queued", "cancelled"},
              NEW v \in (1..MaxVersion) \cup {None}, CommandRead(o, j, to, v)
       PROVE  TypeOK'
  <2>1. job[j] \in JobRow
    BY <1>10, ExistingRow DEF CommandRead
  <2>2. [job_id |-> j, to_status |-> to, expected_version |-> v, previous |-> job[j]] \in Command
    BY <2>1 DEF Command
  <2>3. command' \in [Operators -> Command \cup {None}]
    BY <1>10, <2>2 DEF CommandRead, TypeOK
  <2>4. QED
    BY <1>10, <2>3 DEF CommandRead, TypeOK
<1>11. ASSUME NEW o \in Operators, CommandReplay(o) PROVE TypeOK'
  BY <1>11, AckTyped DEF CommandReplay, TypeOK
<1>12. ASSUME NEW o \in Operators, NEW t \in Times, NEW lost \in BOOLEAN,
              CommandCommit(o, t, lost)
       PROVE  TypeOK'
  <2> DEFINE c == command[o]
             changed == Transitioned(c.previous, c.to_status, c.previous.completed_units, t)
  <2>1. c # None /\ c \in Command
    BY <1>12 DEF CommandCommit, TypeOK
  <2>2. /\ c.job_id \in Jobs /\ c.previous \in JobRow /\ c.to_status \in Status
        /\ c.previous.completed_units \in 0..TotalUnits
        /\ CommandReason[c.to_status] \in ReasonCodes /\ o \in Actors
    BY <2>1 DEF Command, JobRow, Status, CommandReason, ReasonCodes, Actors
  <2>3. changed \in AnyRow
    BY <1>12, <2>2, TransitionedRow DEF CommandCommit
  <2>4. /\ PersistTransitionRows(c.job_id, c.previous, changed, o, t, CommandReason[c.to_status])
        /\ acked' = IF lost THEN acked ELSE Ack(o, c)
        /\ command' = [command EXCEPT ![o] = None]
        /\ UNCHANGED <<submission, lease, leaseEvents, effects, held>>
    BY <1>12 DEF CommandCommit
  <2> HIDE DEF changed
  <2>5. /\ job' \in [Jobs -> JobRow \cup {None}]
        /\ \A i \in Jobs : job'[i] = None <=> submission[i] = None
        /\ transitions' \subseteq TransitionRow
    BY <2>2, <2>3, <2>4, PersistTyped
  <2>6. acked' \subseteq [actor_id: Operators, job_id: Jobs,
                          to_status: {"queued", "cancelled"}, expected_version: 1..MaxVersion]
    BY <2>1, <2>4, AckTyped DEF TypeOK
  <2>7. command' \in [Operators -> Command \cup {None}]
    BY <2>4 DEF TypeOK
  <2>8. QED
    BY <2>4, <2>5, <2>6, <2>7 DEF TypeOK
<1>13. ASSUME NEW o \in Operators, CommandGiveUp(o) PROVE TypeOK'
  BY <1>13 DEF CommandGiveUp, TypeOK
<1>14. CASE UNCHANGED vars
  BY <1>14 DEF vars, TypeOK
<1>15. QED
  BY <1>1, <1>2, <1>3, <1>4, <1>5, <1>6, <1>7, <1>8, <1>9, <1>10, <1>11, <1>12, <1>13,
     <1>14 DEF Next, WorkerStep, OperatorStep

\* Type correctness, for every number of jobs, workers, operators and versions.
THEOREM TypeCorrect == Spec => []TypeOK
BY InitTyped, StepTyped, PTL DEF Spec

-----------------------------------------------------------------------------
\* Fencing

FencingInv == TypeOK /\ LeaseIffRunning /\ VersionFencesStaleWorkers

\* What _persist_transition_rows does to the job table.
LEMMA PersistAdvances ==
    ASSUME TypeOK, NEW j \in Jobs, NEW previous \in JobRow, NEW changed \in AnyRow,
           NEW actor, NEW t, NEW reason,
           PersistTransitionRows(j, previous, changed, actor, t, reason)
    PROVE  /\ Exists(j)
           /\ job[j] \in JobRow
           /\ job[j].version = previous.version
           /\ changed.version = job[j].version + 1
           /\ changed \in JobRow
           /\ job' = [job EXCEPT ![j] = changed]
           /\ job'[j] = changed
           /\ \A i \in Jobs : i # j => job'[i] = job[i]
<1>1. Exists(j) /\ job' = [job EXCEPT ![j] = changed]
      /\ job[j].version = previous.version /\ changed.version = previous.version + 1
  BY DEF PersistTransitionRows
<1>2. job[j] \in JobRow
  BY <1>1, ExistingRow
<1>3. changed \in JobRow
  BY BoundsAssumption DEF PersistTransitionRows, AnyRow, JobRow
<1>4. QED
  BY <1>1, <1>2, <1>3 DEF TypeOK

\* A worker that does not act stays fenced when a job advances one version.
LEMMA BystanderFenced ==
    ASSUME TypeOK, NEW v \in Workers, HeldFenced(v), held'[v] = held[v],
           NEW j \in Jobs, job[j] \in JobRow, NEW changed \in JobRow,
           job' = [job EXCEPT ![j] = changed], changed.version = job[j].version + 1,
           submission' = submission, \A i \in Jobs : i # j => lease'[i] = lease[i]
    PROVE  HeldFenced(v)'
<1> SUFFICES ASSUME held[v] # None PROVE HeldFenced(v)'
  BY DEF HeldFenced
<1> DEFINE i == held[v].job_id
<1>1. i \in Jobs /\ held[v].job.version \in Nat
  BY HeldTyped
<1>2. job[j].version \in Nat
  BY BoundsAssumption DEF JobRow
<1>3. CASE i = j
  <2>1. job'[i] = changed
    BY <1>1, <1>3 DEF TypeOK
  <2>2. held[v].job.version <= job[j].version
    BY <1>3 DEF HeldFenced
  <2>3. held[v].job.version < job'[i].version
    BY <1>1, <1>2, <2>1, <2>2
  <2>4. held[v].job.version <= job'[i].version /\ held[v].job.version # job'[i].version
    BY <1>1, <1>2, <2>1, <2>3
  <2>5. QED
    BY <2>4 DEF HeldFenced, Exists
<1>4. CASE i # j
  <2>1. job'[i] = job[i] /\ lease'[i] = lease[i]
    BY <1>1, <1>4 DEF TypeOK
  <2>2. QED
    BY <2>1 DEF HeldFenced, Exists
<1>5. QED
  BY <1>3, <1>4

\* A worker write that keeps the lease: checkpoint and commit_partition.
LEMMA OwnedWriteFenced ==
    ASSUME FencingInv, NEW w \in Workers, held[w] # None, NEW changed \in AnyRow,
           changed.status = "running", NEW t, NEW reason, NEW lost \in BOOLEAN,
           OwnedWrite(w, changed, t, reason, lost)
    PROVE  (LeaseIffRunning /\ VersionFencesStaleWorkers)'
<1> DEFINE j == held[w].job_id
<1>1. j \in Jobs /\ held[w].job \in JobRow /\ held[w] \in LeasedJob
  BY HeldTyped DEF FencingInv
<1>2. /\ PersistTransitionRows(j, held[w].job, changed, w, t, reason)
      /\ OwnsLease(w, j, held[w].lease.generation, t)
      /\ held' = IF lost THEN held ELSE [held EXCEPT ![w].job = changed]
      /\ submission' = submission /\ lease' = lease
  BY DEF OwnedWrite
<1>3. /\ Exists(j) /\ job[j] \in JobRow /\ changed.version = job[j].version + 1
      /\ changed \in JobRow /\ job' = [job EXCEPT ![j] = changed] /\ job'[j] = changed
      /\ \A i \in Jobs : i # j => job'[i] = job[i]
      /\ job[j].version = held[w].job.version
  BY <1>1, <1>2, PersistAdvances DEF FencingInv
<1>4. LeaseIffRunning'
  BY <1>2, <1>3 DEF FencingInv, LeaseIffRunning, Exists, OwnsLease
<1>5. ASSUME NEW v \in Workers PROVE HeldFenced(v)'
  <2>1. CASE held'[v] = held[v]
    BY <1>1, <1>2, <1>3, <2>1, BystanderFenced DEF FencingInv, VersionFencesStaleWorkers
  <2>2. CASE held'[v] # held[v]
    <3>1. v = w /\ held'[v] = [held[w] EXCEPT !.job = changed]
      BY <1>1, <1>2, <2>2 DEF FencingInv, TypeOK
    <3>2. /\ held'[v].job = changed /\ held'[v].job_id = j
          /\ held'[v].lease = held[w].lease
      BY <1>1, <3>1 DEF LeasedJob
    <3>3. changed.version \in Nat
      BY <1>3, BoundsAssumption DEF JobRow
    <3>4. QED
      BY <1>2, <1>3, <3>1, <3>2, <3>3 DEF HeldFenced, Exists, OwnsLease
  <2>3. QED
    BY <2>1, <2>2
<1>6. QED
  BY <1>4, <1>5 DEF VersionFencesStaleWorkers

\* A worker write that gives the lease back: completion and _finish_with_status.
LEMMA OwnedReleaseFenced ==
    ASSUME FencingInv, NEW w \in Workers, held[w] # None, NEW changed \in AnyRow,
           changed.status # "running", NEW t, NEW reason, NEW lost \in BOOLEAN,
           OwnedRelease(w, changed, t, reason, lost)
    PROVE  (LeaseIffRunning /\ VersionFencesStaleWorkers)'
<1> DEFINE j == held[w].job_id
<1>1. j \in Jobs /\ held[w].job \in JobRow
  BY HeldTyped DEF FencingInv
<1>2. /\ PersistTransitionRows(j, held[w].job, changed, w, t, reason)
      /\ held' = IF lost THEN held ELSE [held EXCEPT ![w] = None]
      /\ submission' = submission /\ lease' = [lease EXCEPT ![j] = None]
  BY DEF OwnedRelease
<1>3. /\ Exists(j) /\ job[j] \in JobRow /\ changed.version = job[j].version + 1
      /\ changed \in JobRow /\ job' = [job EXCEPT ![j] = changed] /\ job'[j] = changed
      /\ \A i \in Jobs : i # j => job'[i] = job[i]
  BY <1>1, <1>2, PersistAdvances DEF FencingInv
<1>4. lease'[j] = None /\ \A i \in Jobs : i # j => lease'[i] = lease[i]
  BY <1>1, <1>2 DEF FencingInv, TypeOK
<1>5. LeaseIffRunning'
  BY <1>2, <1>3, <1>4 DEF FencingInv, LeaseIffRunning, Exists
<1>6. ASSUME NEW v \in Workers PROVE HeldFenced(v)'
  <2>1. CASE held'[v] = held[v]
    BY <1>1, <1>2, <1>3, <1>4, <2>1, BystanderFenced DEF FencingInv, VersionFencesStaleWorkers
  <2>2. CASE held'[v] # held[v]
    <3>1. held'[v] = None
      BY <1>2, <2>2 DEF FencingInv, TypeOK
    <3>2. QED
      BY <3>1 DEF HeldFenced
  <2>3. QED
    BY <2>1, <2>2
<1>7. QED
  BY <1>5, <1>6 DEF VersionFencesStaleWorkers

\* Every step preserves the fencing invariant.
LEMMA StepFenced == FencingInv /\ [Next]_vars => (LeaseIffRunning /\ VersionFencesStaleWorkers)'
<1> SUFFICES ASSUME FencingInv, [Next]_vars
             PROVE  (LeaseIffRunning /\ VersionFencesStaleWorkers)'
  OBVIOUS
<1> USE DEF FencingInv
<1>1. ASSUME NEW j \in Jobs, NEW k \in IdemKeys, NEW l \in Lanes, NEW cap \in Caps,
             NEW t \in Times, Submit(j, k, l, cap, t)
      PROVE  (LeaseIffRunning /\ VersionFencesStaleWorkers)'
  <2>1. [key |-> k, lane |-> l, created_at |-> t] # None
    BY NoneAssumption DEF SubmissionRow
  <2>2. /\ ~Exists(j) /\ Exists(j)' /\ job'[j].status = "queued"
        /\ \A i \in Jobs : i # j => (job'[i] = job[i] /\ submission'[i] = submission[i])
        /\ lease' = lease /\ held' = held
    BY <1>1, <2>1 DEF Submit, TypeOK, Exists, Queued
  <2>3. LeaseIffRunning'
    BY <2>2 DEF LeaseIffRunning, Exists
  <2>4. ASSUME NEW v \in Workers PROVE HeldFenced(v)'
    <3>1. held[v] # None => held[v].job_id # j /\ held[v].job_id \in Jobs
      BY <2>2, HeldTyped DEF VersionFencesStaleWorkers, HeldFenced
    <3>2. QED
      BY <2>2, <3>1 DEF VersionFencesStaleWorkers, HeldFenced, Exists
  <2>5. QED
    BY <2>3, <2>4 DEF VersionFencesStaleWorkers
<1>2. ASSUME NEW w \in Workers, NEW l \in Lanes, NEW t \in Times, NEW e \in Times,
             NEW lost \in BOOLEAN, Claim(w, l, t, e, lost)
      PROVE  (LeaseIffRunning /\ VersionFencesStaleWorkers)'
  <2> DEFINE Waiting(j) == job[j].status # "running"
             Changed(j) == IF Waiting(j)
                           THEN Transitioned(job[j], "running", job[j].completed_units, t)
                           ELSE Reclaimed(job[j], t)
             Row(g) == [owner_id |-> w, generation |-> g, acquired_at |-> t, expires_at |-> e]
             Reason(j) == IF Waiting(j) THEN "CLAIMED" ELSE "LEASE_TAKEOVER"
  <2>1. PICK j \in Jobs, g \in 1..MaxLeaseEvents :
             /\ Exists(j)
             /\ IF Waiting(j) THEN CanTransition(job[j], "running", t)
                              ELSE CanReclaim(job[j], t)
             /\ PersistTransitionRows(j, job[j], Changed(j), w, t, Reason(j))
             /\ lease' = [lease EXCEPT ![j] = Row(g)]
             /\ held' = IF lost THEN held
                        ELSE [held EXCEPT ![w] = [job_id |-> j, job |-> Changed(j),
                                                  lease |-> Row(g)]]
    BY <1>2 DEF Claim, ClaimHead, Claimable
  <2>2. job[j] \in JobRow
    BY <2>1, ExistingRow
  <2>3. Changed(j) \in AnyRow /\ Changed(j).status = "running"
    <3>1. "running" \in Status /\ job[j].completed_units \in 0..TotalUnits
      BY <2>2 DEF Status, JobRow
    <3>2. QED
      BY <2>1, <2>2, <3>1, TransitionedRow, ReclaimedRow
  <2> HIDE DEF Changed, Reason
  <2>4. /\ Changed(j).version = job[j].version + 1 /\ Changed(j) \in JobRow
        /\ job' = [job EXCEPT ![j] = Changed(j)] /\ job'[j] = Changed(j)
        /\ \A i \in Jobs : i # j => job'[i] = job[i]
    BY <2>1, <2>2, <2>3, PersistAdvances
  <2>5. Row(g) # None
    <3>1. Row(g) \in LeaseRow
      BY BoundsAssumption DEF LeaseRow
    <3>2. QED
      BY <3>1, NoneAssumption
  <2>6. /\ lease'[j] = Row(g) /\ \A i \in Jobs : i # j => lease'[i] = lease[i]
        /\ submission' = submission
    BY <1>2, <2>1 DEF TypeOK, Claim
  <2>7. LeaseIffRunning'
    BY <2>1, <2>3, <2>4, <2>5, <2>6 DEF LeaseIffRunning, Exists
  <2>8. ASSUME NEW v \in Workers PROVE HeldFenced(v)'
    <3>1. CASE held'[v] = held[v]
      BY <2>2, <2>4, <2>6, <3>1, BystanderFenced DEF VersionFencesStaleWorkers
    <3>2. CASE held'[v] # held[v]
      <4>1. v = w /\ held'[v] = [job_id |-> j, job |-> Changed(j), lease |-> Row(g)]
        BY <2>1, <3>2 DEF TypeOK
      <4>2. /\ held'[v].job_id = j /\ held'[v].job = Changed(j)
            /\ held'[v].lease.generation = g
        BY <4>1
      <4>3. Changed(j).version \in Nat
        BY <2>4, BoundsAssumption DEF JobRow
      <4>4. lease'[j].owner_id = w /\ lease'[j].generation = g /\ lease'[j] # None
        BY <2>5, <2>6
      <4>5. QED
        BY <2>1, <2>3, <2>4, <2>6, <4>1, <4>2, <4>3, <4>4 DEF HeldFenced, Exists
    <3>3. QED
      BY <3>1, <3>2
  <2>9. QED
    BY <2>7, <2>8 DEF VersionFencesStaleWorkers
<1>3. ASSUME NEW w \in Workers, NEW t \in Times, NEW e \in Times, NEW lost \in BOOLEAN,
             Heartbeat(w, t, e, lost)
      PROVE  (LeaseIffRunning /\ VersionFencesStaleWorkers)'
  <2> DEFINE j == held[w].job_id
  <2>1. /\ held[w] # None /\ OwnsLease(w, j, held[w].lease.generation, t)
        /\ lease' = [lease EXCEPT ![j].expires_at = e]
        /\ held' = IF lost THEN held ELSE [held EXCEPT ![w].lease.expires_at = e]
        /\ submission' = submission /\ job' = job
    BY <1>3 DEF Heartbeat
  <2>2. held[w] \in LeasedJob /\ j \in Jobs /\ lease[j] \in LeaseRow
    BY <2>1, HeldTyped DEF OwnsLease, TypeOK
  <2>3. /\ lease'[j].owner_id = lease[j].owner_id
        /\ lease'[j].generation = lease[j].generation
        /\ lease'[j] \in LeaseRow
        /\ \A i \in Jobs : i # j => lease'[i] = lease[i]
    BY <2>1, <2>2 DEF TypeOK, LeaseRow
  <2>4. lease'[j] # None /\ lease[j] # None
    BY <2>2, <2>3, NoneAssumption
  <2>5. LeaseIffRunning'
    BY <2>1, <2>3, <2>4 DEF LeaseIffRunning, Exists
  <2>6. ASSUME NEW v \in Workers, held[v] # None
        PROVE  /\ held'[v].job_id = held[v].job_id /\ held'[v].job = held[v].job
               /\ held'[v].lease.generation = held[v].lease.generation
    <3>1. held[v] \in LeasedJob
      BY <2>6, HeldTyped
    <3>2. CASE held'[v] = held[v]
      BY <3>2
    <3>3. CASE held'[v] # held[v]
      <4>1. v = w /\ held'[v] = [held[w] EXCEPT !.lease.expires_at = e]
        BY <2>1, <2>2, <3>3 DEF TypeOK
      <4>2. QED
        BY <2>2, <4>1 DEF LeasedJob, LeaseRow
    <3>4. QED
      BY <3>2, <3>3
  <2>7. ASSUME NEW v \in Workers PROVE HeldFenced(v)'
    <3>1. held[v] = None => held'[v] = None
      BY <2>1 DEF TypeOK
    <3>2. CASE held[v] = None
      BY <3>1, <3>2 DEF HeldFenced
    <3>3. CASE held[v] # None
      <4>1. held[v].job_id \in Jobs
        BY <3>3, HeldTyped
      <4>2. /\ lease'[held[v].job_id].owner_id = lease[held[v].job_id].owner_id
            /\ lease'[held[v].job_id].generation = lease[held[v].job_id].generation
            /\ lease[held[v].job_id] # None => lease'[held[v].job_id] # None
        BY <2>3, <2>4, <4>1
      <4>3. HeldFenced(v)
        BY DEF VersionFencesStaleWorkers
      <4>4. QED
        BY <2>1, <2>6, <3>3, <4>2, <4>3 DEF HeldFenced, Exists
    <3>4. QED
      BY <3>2, <3>3
  <2>8. QED
    BY <2>5, <2>7 DEF VersionFencesStaleWorkers
<1>4. ASSUME NEW w \in Workers, NEW t \in Times, NEW u \in 0..TotalUnits, NEW lost \in BOOLEAN,
             Checkpoint(w, t, u, lost)
      PROVE  (LeaseIffRunning /\ VersionFencesStaleWorkers)'
  <2>1. held[w] # None /\ held[w].job \in JobRow /\ held[w].job.status = "running"
    BY <1>4, HeldTyped DEF Checkpoint, CanCheckpoint
  <2>2. /\ Checkpointed(held[w].job, u, t) \in AnyRow
        /\ Checkpointed(held[w].job, u, t).status = "running"
    BY <2>1, CheckpointedRow
  <2>3. QED
    BY <1>4, <2>1, <2>2, OwnedWriteFenced DEF Checkpoint
<1>5. ASSUME NEW w \in Workers, NEW p \in Partitions, NEW t \in Times, NEW u \in 0..TotalUnits,
             NEW lost \in BOOLEAN, CommitPartition(w, p, t, u, lost)
      PROVE  (LeaseIffRunning /\ VersionFencesStaleWorkers)'
  <2>1. held[w] # None /\ held[w].job \in JobRow /\ held[w].job.status = "running"
    BY <1>5, HeldTyped DEF CommitPartition, CanCheckpoint
  <2>2. /\ Checkpointed(held[w].job, u, t) \in AnyRow
        /\ Checkpointed(held[w].job, u, t).status = "running"
    BY <2>1, CheckpointedRow
  <2>3. QED
    BY <1>5, <2>1, <2>2, OwnedWriteFenced DEF CommitPartition
<1>6. ASSUME NEW w \in Workers, NEW to \in {"completed", "retrying", "failed", "paused", "cancelled"},
             NEW u \in 0..TotalUnits, NEW t \in Times, NEW lost \in BOOLEAN, NEW reason,
             held[w] # None, CanTransition(held[w].job, to, t),
             OwnedRelease(w, Transitioned(held[w].job, to, u, t), t, reason, lost)
      PROVE  (LeaseIffRunning /\ VersionFencesStaleWorkers)'
  <2>1. held[w].job \in JobRow /\ to \in Status
    BY <1>6, HeldTyped DEF Status
  <2>2. /\ Transitioned(held[w].job, to, u, t) \in AnyRow
        /\ Transitioned(held[w].job, to, u, t).status # "running"
    BY <1>6, <2>1, TransitionedRow
  <2>3. QED
    BY <1>6, <2>2, OwnedReleaseFenced
<1>7. ASSUME NEW w \in Workers, NEW p \in Partitions, NEW t \in Times, NEW lost \in BOOLEAN,
             CompletePartition(w, p, t, lost)
      PROVE  (LeaseIffRunning /\ VersionFencesStaleWorkers)'
  BY <1>6, <1>7, BoundsAssumption DEF CompletePartition
<1>8. ASSUME NEW w \in Workers, NEW t \in Times, NEW lost \in BOOLEAN, Complete(w, t, lost)
      PROVE  (LeaseIffRunning /\ VersionFencesStaleWorkers)'
  BY <1>6, <1>8, BoundsAssumption DEF Complete
<1>9. ASSUME NEW w \in Workers, NEW to \in DOMAIN FinishReason, NEW t \in Times,
             NEW lost \in BOOLEAN, FinishWithStatus(w, to, t, lost)
      PROVE  (LeaseIffRunning /\ VersionFencesStaleWorkers)'
  <2>1. held[w] # None /\ held[w].job \in JobRow
    BY <1>9, HeldTyped DEF FinishWithStatus
  <2>2. held[w].job.completed_units \in 0..TotalUnits
        /\ to \in {"retrying", "failed", "paused", "cancelled"}
    BY <2>1 DEF JobRow, FinishReason
  <2>3. QED
    BY <1>6, <1>9, <2>2 DEF FinishWithStatus
<1>10. ASSUME NEW w \in Workers, Abandon(w)
       PROVE  (LeaseIffRunning /\ VersionFencesStaleWorkers)'
  <2>1. LeaseIffRunning'
    BY <1>10 DEF Abandon, LeaseIffRunning, Exists
  <2>2. ASSUME NEW v \in Workers PROVE HeldFenced(v)'
    BY <1>10 DEF Abandon, TypeOK, VersionFencesStaleWorkers, HeldFenced, Exists
  <2>3. QED
    BY <2>1, <2>2 DEF VersionFencesStaleWorkers
<1>11. ASSUME UNCHANGED <<submission, job, lease, held>>
       PROVE  (LeaseIffRunning /\ VersionFencesStaleWorkers)'
  BY <1>11 DEF LeaseIffRunning, VersionFencesStaleWorkers, HeldFenced, Exists
<1>12. ASSUME NEW o \in Operators, NEW t \in Times, NEW lost \in BOOLEAN,
              CommandCommit(o, t, lost)
       PROVE  (LeaseIffRunning /\ VersionFencesStaleWorkers)'
  <2> DEFINE c == command[o]
             j == c.job_id
             changed == Transitioned(c.previous, c.to_status, c.previous.completed_units, t)
  <2>1. c # None /\ c \in Command
    BY <1>12 DEF CommandCommit, TypeOK
  <2>2. /\ j \in Jobs /\ c.previous \in JobRow /\ c.to_status \in {"queued", "cancelled"}
        /\ c.to_status \in Status /\ c.previous.completed_units \in 0..TotalUnits
    BY <2>1 DEF Command, JobRow, Status
  <2>3. changed \in AnyRow /\ changed.status = c.to_status
    BY <1>12, <2>2, TransitionedRow DEF CommandCommit
  <2>4. /\ PersistTransitionRows(j, c.previous, changed, o, t, CommandReason[c.to_status])
        /\ lease[j] = None /\ lease' = lease /\ held' = held /\ submission' = submission
    BY <1>12 DEF CommandCommit
  <2> HIDE DEF changed
  <2>5. /\ job[j] \in JobRow /\ changed.version = job[j].version + 1 /\ changed \in JobRow
        /\ job' = [job EXCEPT ![j] = changed] /\ job'[j] = changed
        /\ \A i \in Jobs : i # j => job'[i] = job[i]
    BY <2>2, <2>3, <2>4, PersistAdvances
  <2>6. LeaseIffRunning'
    BY <2>2, <2>3, <2>4, <2>5 DEF LeaseIffRunning, Exists
  <2>7. ASSUME NEW v \in Workers PROVE HeldFenced(v)'
    BY <2>2, <2>4, <2>5, BystanderFenced DEF VersionFencesStaleWorkers
  <2>8. QED
    BY <2>6, <2>7 DEF VersionFencesStaleWorkers
<1>13. QED
  BY <1>1, <1>2, <1>3, <1>4, <1>5, <1>7, <1>8, <1>9, <1>10, <1>11, <1>12
     DEF Next, WorkerStep, OperatorStep, CommandRead, CommandReplay, CommandGiveUp, vars

\* Fencing holds for any number of jobs, workers and operators, whatever their
\* clocks: a lease exists exactly while its job runs, and a worker whose
\* snapshot is current owns the current lease generation.
THEOREM Fencing == Spec => [](LeaseIffRunning /\ VersionFencesStaleWorkers)
<1>1. Init => FencingInv
  BY InitTyped DEF Init, FencingInv, LeaseIffRunning, VersionFencesStaleWorkers, HeldFenced, Exists
<1>2. FencingInv /\ [Next]_vars => FencingInv'
  BY StepTyped, StepFenced DEF FencingInv
<1>3. FencingInv => LeaseIffRunning /\ VersionFencesStaleWorkers
  BY DEF FencingInv
<1>4. QED
  BY <1>1, <1>2, <1>3, PTL DEF Spec
=============================================================================

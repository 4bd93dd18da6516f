------------------------------ MODULE DurableJobs ------------------------------
(***************************************************************************)
(* The durable-job engine: the aggregate of domain/jobs.py, the            *)
(* repository of infrastructure/sqlite_jobs.py (and its PostgreSQL twin),  *)
(* and the operator and worker services of application/jobs.py.            *)
(*                                                                         *)
(* Every repository call is one transaction, hence one action.  What is    *)
(* NOT atomic is modelled step by step: a worker computes its write from   *)
(* the LeasedJob snapshot it holds, however old it is; an operator command *)
(* reads the job, then its last transition, then commits.  The repository  *)
(* reads no clock: occurred_at and lease_expires_at are arguments of the   *)
(* caller, so here they are arbitrary members of Times, which covers       *)
(* every skew between the callers' clocks.                                 *)
(*                                                                         *)
(* Tables are sets of rows, so that uniqueness and contiguity of evidence  *)
(* are consequences of the guards and not of the data structure.           *)
(***************************************************************************)
EXTENDS Integers, FiniteSets

CONSTANTS
    Jobs,           \* job ids; numbers, because claim_next orders by id
    IdemKeys,       \* (tenant, idempotency_scope, idempotency_key)
    Lanes,          \* (tenant, organization, workspace, entity)
    Workers,        \* owner_id of a lease
    Operators,      \* actor_id of an operator command
    Partitions,     \* partition_key of an effect
    Caps,           \* max_queued_jobs of submit_bounded, or NoCap for submit
    NoCap,
    TotalUnits,     \* total_units of every job
    RetryCeiling,   \* retry_ceiling of every job
    MaxTime,        \* bound: timestamps are 0 .. MaxTime
    MaxVersion,     \* bound: job versions
    MaxLeaseEvents, \* bound: lease events of one job
    None            \* absence of a row, of a held job, of expected_version

ASSUME JobsAssumption == Jobs \subseteq Nat
ASSUME ActorsAssumption ==
    /\ Workers \cap Operators = {}
    /\ None \notin Workers \cup Operators
ASSUME BoundsAssumption ==
    /\ TotalUnits \in Nat /\ RetryCeiling \in Nat
    /\ MaxTime \in Nat /\ MaxVersion \in Nat \ {0} /\ MaxLeaseEvents \in Nat
ASSUME CapsAssumption == Caps \subseteq (Nat \ {0}) \cup {NoCap} /\ NoCap \notin Nat

VARIABLES
    submission,     \* durable_jobs: the immutable columns of each row
    job,            \* durable_jobs: the versioned columns of each row
    transitions,    \* durable_job_transitions
    lease,          \* durable_job_leases
    leaseEvents,    \* durable_job_lease_events
    effects,        \* durable_job_partition_effects
    held,           \* the LeasedJob each worker process holds
    command,        \* the operator command each operator has in flight
    acked           \* history: commands answered with success

vars == <<submission, job, transitions, lease, leaseEvents, effects, held,
          command, acked>>

-----------------------------------------------------------------------------
\* Domains

Status == {"queued", "running", "paused", "retrying", "failed", "completed",
           "cancelled"}
Terminal == {"completed", "cancelled"}
Times == 0..MaxTime
Actors == Workers \cup Operators

JobRow == [version: 1..MaxVersion, status: Status, completed_units: 0..TotalUnits,
           retry_count: 0..RetryCeiling, updated_at: Times]

LeaseRow == [owner_id: Workers, generation: Nat \ {0}, acquired_at: Times, expires_at: Times]

SubmissionRow == [key: IdemKeys, lane: Lanes, created_at: Times]

ReasonCodes == {"CREATED", "CLAIMED", "LEASE_TAKEOVER", "CHECKPOINTED", "FINISHED",
                "TRANSIENT_FAILURE", "TERMINAL_FAILURE", "OPERATOR_PAUSE",
                "CANCELLED", "REQUEUED"}

TransitionRow == [job_id: Jobs, job_version: 1..MaxVersion,
                  from_status: Status \cup {""}, to_status: Status,
                  actor_id: Actors \cup {None}, occurred_at: Times,
                  reason_code: ReasonCodes]

LeaseEventRow == [job_id: Jobs, event_sequence: Nat \ {0}, generation: Nat \ {0},
                  action: {"claimed", "taken_over", "renewed", "released"},
                  owner_id: Workers]

EffectRow == [job_id: Jobs, partition_key: Partitions, ordinal: Nat \ {0},
              completed_units: 1..TotalUnits, job_version: 2..MaxVersion]

LeasedJob == [job_id: Jobs, job: JobRow, lease: LeaseRow]

Command == [job_id: Jobs, to_status: {"queued", "cancelled"},
            expected_version: (1..MaxVersion) \cup {None}, previous: JobRow]

ASSUME NoneAssumption ==
    /\ None \notin Nat
    /\ None \notin JobRow /\ None \notin LeaseRow /\ None \notin SubmissionRow
    /\ None \notin LeasedJob /\ None \notin Command

Exists(j) == submission[j] # None

-----------------------------------------------------------------------------
\* The aggregate (domain/jobs.py): pure functions of a row

ALLOWED_TRANSITIONS ==
    [ queued    |-> {"running", "cancelled"},
      running   |-> {"paused", "retrying", "failed", "completed", "cancelled"},
      paused    |-> {"queued", "cancelled"},
      retrying  |-> {"running", "failed", "cancelled"},
      failed    |-> {"queued"},
      completed |-> {},
      cancelled |-> {} ]

\* DurableJob.queued
Queued(t) == [version |-> 1, status |-> "queued", completed_units |-> 0,
              retry_count |-> 0, updated_at |-> t]

\* DurableJob.transition: its preconditions and its result.
RetriesAfter(row, to) == row.retry_count + (IF to = "retrying" THEN 1 ELSE 0)

\* Mutant: the retry ceiling is not enforced.
CanTransition_NoCeiling(row, to, t) ==
    to \in ALLOWED_TRANSITIONS[row.status] /\ t >= row.updated_at

\* Mutant: a caller's clock behind the stored row is accepted.
CanTransition_AnyTime(row, to, t) ==
    to \in ALLOWED_TRANSITIONS[row.status] /\ RetriesAfter(row, to) <= RetryCeiling

CanTransition(row, to, t) ==
    /\ to \in ALLOWED_TRANSITIONS[row.status]
    /\ t >= row.updated_at
    /\ RetriesAfter(row, to) <= RetryCeiling

Transitioned(row, to, units, t) ==
    [version |-> row.version + 1, status |-> to, completed_units |-> units,
     retry_count |-> RetriesAfter(row, to), updated_at |-> t]

\* DurableJob.checkpoint
\* Mutant: progress may move backwards.
CanCheckpoint_Backwards(row, units, t) ==
    row.status = "running" /\ units < TotalUnits /\ t >= row.updated_at

CanCheckpoint(row, units, t) ==
    /\ row.status = "running"
    /\ row.completed_units <= units
    /\ units < TotalUnits
    /\ t >= row.updated_at

Checkpointed(row, units, t) ==
    [version |-> row.version + 1, status |-> row.status, completed_units |-> units,
     retry_count |-> row.retry_count, updated_at |-> t]

\* DurableJob.reclaim
CanReclaim(row, t) == row.status = "running" /\ t >= row.updated_at

Reclaimed(row, t) ==
    [version |-> row.version + 1, status |-> row.status,
     completed_units |-> row.completed_units, retry_count |-> row.retry_count,
     updated_at |-> t]

-----------------------------------------------------------------------------
\* Repository helpers

Evidence(j, previous, changed, actor, t, reason) ==
    [job_id |-> j, job_version |-> changed.version, from_status |-> previous.status,
     to_status |-> changed.status, actor_id |-> actor, occurred_at |-> t,
     reason_code |-> reason]

\* Mutant: a blind write, without compare-and-swap and over existing evidence.
PersistTransitionRows_Blind(j, previous, changed, actor, t, reason) ==
    /\ changed.version <= MaxVersion
    /\ Exists(j)
    /\ job' = [job EXCEPT ![j] = changed]
    /\ transitions' =
           {r \in transitions : ~(r.job_id = j /\ r.job_version = changed.version)}
               \cup {Evidence(j, previous, changed, actor, t, reason)}

\* _validate_transition, then _persist_transition_rows: compare-and-swap on
\* the version, and one new row under the primary key (job_id, job_version).
PersistTransitionRows(j, previous, changed, actor, t, reason) ==
    /\ changed.version = previous.version + 1
    /\ changed.version <= MaxVersion
    /\ Exists(j)
    /\ job[j].version = previous.version
    /\ \A r \in transitions : ~(r.job_id = j /\ r.job_version = changed.version)
    /\ job' = [job EXCEPT ![j] = changed]
    /\ transitions' = transitions \cup
           {Evidence(j, previous, changed, actor, t, reason)}

\* n = COALESCE(MAX(S), 0) + 1
IsNextAfter(S, n) == (\A m \in S : m < n) /\ (n = 1 \/ n - 1 \in S)

EventsOf(j) == {e \in leaseEvents : e.job_id = j}
Generations(j) == {e.generation : e \in EventsOf(j)}

\* Mutant: the generation is read from the lease row, which a release deletes.
NextGeneration_FromLease(j, g) ==
    g = IF lease[j] = None THEN 1 ELSE lease[j].generation + 1

NextGeneration(j, g) == IsNextAfter(Generations(j), g)

\* _append_lease_event
AppendLeaseEvent(j, owner, generation, action) ==
    \E seq \in 1..MaxLeaseEvents :
        /\ IsNextAfter({e.event_sequence : e \in EventsOf(j)}, seq)
        /\ leaseEvents' = leaseEvents \cup
               {[job_id |-> j, event_sequence |-> seq, generation |-> generation,
                 action |-> action, owner_id |-> owner]}

\* The fencing predicate of every worker write.
OwnsLease(w, j, generation, t) ==
    /\ lease[j] # None
    /\ lease[j].owner_id = w
    /\ lease[j].generation = generation
    /\ lease[j].expires_at > t

-----------------------------------------------------------------------------
\* Submission: create_or_get and create_or_get_bounded.  A key that is already
\* bound (replay or conflict) and a full lane leave every table as it is.

QueueDepth(l) == Cardinality({j \in Jobs : /\ Exists(j)
                                           /\ submission[j].lane = l
                                           /\ job[j].status \in {"queued", "retrying"}})

HasCapacity(l, cap) == (cap # NoCap) => (QueueDepth(l) < cap)

Submit(j, k, l, cap, t) ==
    /\ ~ Exists(j)
    /\ \A i \in Jobs : Exists(i) => submission[i].key # k
    /\ HasCapacity(l, cap)
    /\ submission' = [submission EXCEPT ![j] = [key |-> k, lane |-> l, created_at |-> t]]
    /\ job' = [job EXCEPT ![j] = Queued(t)]
    /\ transitions' = transitions \cup
           {[job_id |-> j, job_version |-> 1, from_status |-> "", to_status |-> "queued",
             actor_id |-> None, occurred_at |-> t, reason_code |-> "CREATED"]}
    /\ UNCHANGED <<lease, leaseEvents, effects, held, command, acked>>

-----------------------------------------------------------------------------
\* Workers (DurableJobWorkerService over the leased half of the repository)

\* Mutant: running work is claimable while its lease is alive.
Claimable_LiveLease(j, l, t) ==
    /\ Exists(j)
    /\ submission[j].lane = l
    /\ job[j].status \in {"queued", "retrying", "running"}

Claimable(j, l, t) ==
    /\ Exists(j)
    /\ submission[j].lane = l
    /\ \/ job[j].status = "queued"
       \/ /\ job[j].status \in {"retrying", "running"}
          /\ (lease[j] # None) => (lease[j].expires_at <= t)

ClaimRank == [running |-> 0, retrying |-> 1, queued |-> 2]

\* ORDER BY rank, created_at, id
ClaimsBefore(i, j) ==
    LET ri == ClaimRank[job[i].status]      rj == ClaimRank[job[j].status]
        ci == submission[i].created_at      cj == submission[j].created_at
    IN  \/ ri < rj
        \/ ri = rj /\ ci < cj
        \/ ri = rj /\ ci = cj /\ i <= j

ClaimHead(j, l, t) ==
    /\ Claimable(j, l, t)
    /\ \A i \in Jobs : Claimable(i, l, t) => ClaimsBefore(j, i)

\* Mutant: a takeover rewrites only the lease row.
Claim_TakeoverKeepsVersion(w, l, t, expires, lost) ==
    /\ held[w] = None
    /\ expires > t
    /\ \E j \in Jobs, g \in 1..MaxLeaseEvents :
         LET previous == job[j]
             changed == Transitioned(previous, "running", previous.completed_units, t)
             row == [owner_id |-> w, generation |-> g, acquired_at |-> t, expires_at |-> expires]
         IN  /\ ClaimHead(j, l, t)
             /\ NextGeneration(j, g)
             /\ IF previous.status = "running"
                THEN /\ UNCHANGED <<job, transitions>>
                     /\ held' = [held EXCEPT ![w] = [job_id |-> j, job |-> previous, lease |-> row]]
                ELSE /\ PersistTransitionRows(j, previous, changed, w, t, "CLAIMED")
                     /\ held' = [held EXCEPT ![w] = [job_id |-> j, job |-> changed, lease |-> row]]
             /\ lease' = [lease EXCEPT ![j] = row]
             /\ AppendLeaseEvent(j, w, g, "claimed")
    /\ UNCHANGED <<submission, effects, command, acked>>

\* claim_next.  The head of the lane is selected first; when it refuses the
\* caller's time (t < updated_at) nothing else is tried.  An answer that never
\* reaches the worker leaves it empty-handed.
Claim(w, l, t, expires, lost) ==
    /\ held[w] = None
    /\ expires > t
    /\ \E j \in Jobs, g \in 1..MaxLeaseEvents :
         LET previous == job[j]
             waiting  == previous.status # "running"
             changed  == IF waiting
                         THEN Transitioned(previous, "running", previous.completed_units, t)
                         ELSE Reclaimed(previous, t)
             row      == [owner_id |-> w, generation |-> g, acquired_at |-> t,
                          expires_at |-> expires]
         IN  /\ ClaimHead(j, l, t)
             /\ IF waiting THEN CanTransition(previous, "running", t)
                           ELSE CanReclaim(previous, t)
             /\ NextGeneration(j, g)
             /\ PersistTransitionRows(j, previous, changed, w, t,
                                      IF waiting THEN "CLAIMED" ELSE "LEASE_TAKEOVER")
             /\ lease' = [lease EXCEPT ![j] = row]
             /\ AppendLeaseEvent(j, w, g, IF waiting THEN "claimed" ELSE "taken_over")
             /\ held' = IF lost THEN held
                        ELSE [held EXCEPT ![w] = [job_id |-> j, job |-> changed, lease |-> row]]
    /\ UNCHANGED <<submission, effects, command, acked>>

\* heartbeat / renew_lease: the caller's copy of the lease decides whether the
\* new expiry extends it and that it is not renewed before it was acquired; the
\* stored row is checked for owner, generation and expiry.  The job snapshot stays the one the worker already held.
Heartbeat(w, t, expires, lost) ==
    /\ held[w] # None
    /\ LET h == held[w]
           j == h.job_id
       IN  /\ expires > t /\ t >= h.lease.acquired_at
           /\ t < h.lease.expires_at
           /\ expires > h.lease.expires_at
           /\ OwnsLease(w, j, h.lease.generation, t)
           /\ lease' = [lease EXCEPT ![j].expires_at = expires]
           /\ AppendLeaseEvent(j, w, h.lease.generation, "renewed")
           /\ held' = IF lost THEN held ELSE [held EXCEPT ![w].lease.expires_at = expires]
    /\ UNCHANGED <<submission, job, transitions, effects, command, acked>>

\* persist_owned_transition(release_lease=False)
OwnedWrite(w, changed, t, reason, lost) ==
    LET h == held[w] IN
    /\ OwnsLease(w, h.job_id, h.lease.generation, t)
    /\ PersistTransitionRows(h.job_id, h.job, changed, w, t, reason)
    /\ held' = IF lost THEN held ELSE [held EXCEPT ![w].job = changed]
    /\ UNCHANGED <<submission, lease, leaseEvents, command, acked>>

\* persist_owned_transition(release_lease=True)
OwnedRelease(w, changed, t, reason, lost) ==
    LET h == held[w] IN
    /\ OwnsLease(w, h.job_id, h.lease.generation, t)
    /\ PersistTransitionRows(h.job_id, h.job, changed, w, t, reason)
    /\ lease' = [lease EXCEPT ![h.job_id] = None]
    /\ AppendLeaseEvent(h.job_id, w, h.lease.generation, "released")
    /\ held' = IF lost THEN held ELSE [held EXCEPT ![w] = None]
    /\ UNCHANGED <<submission, command, acked>>

\* Mutant: no primary key on (job_id, partition_key).
CommitEffect_NoKey(j, p, changed) ==
    \E n \in 1..MaxVersion :
        /\ IsNextAfter({e.ordinal : e \in {f \in effects : f.job_id = j}}, n)
        /\ changed.completed_units >= 1
        /\ effects' = effects \cup
               {[job_id |-> j, partition_key |-> p, ordinal |-> n,
                 completed_units |-> changed.completed_units,
                 job_version |-> changed.version]}

\* The effect half of persist_owned_effect_transition: the next ordinal, and a
\* partition key that has no committed effect yet.
CommitEffect(j, p, changed) ==
    LET mine == {e \in effects : e.job_id = j} IN
    \E n \in 1..MaxVersion :
        /\ IsNextAfter({e.ordinal : e \in mine}, n)
        /\ \A e \in mine : e.partition_key # p /\ e.job_version # changed.version
        /\ changed.completed_units >= 1
        /\ effects' = effects \cup
               {[job_id |-> j, partition_key |-> p, ordinal |-> n,
                 completed_units |-> changed.completed_units,
                 job_version |-> changed.version]}

Checkpoint(w, t, units, lost) ==
    /\ held[w] # None
    /\ CanCheckpoint(held[w].job, units, t)
    /\ OwnedWrite(w, Checkpointed(held[w].job, units, t), t, "CHECKPOINTED", lost)
    /\ UNCHANGED effects

CommitPartition(w, p, t, units, lost) ==
    /\ held[w] # None
    /\ LET changed == Checkpointed(held[w].job, units, t) IN
       /\ CanCheckpoint(held[w].job, units, t)
       /\ CommitEffect(held[w].job_id, p, changed)
       /\ OwnedWrite(w, changed, t, "CHECKPOINTED", lost)

CompletePartition(w, p, t, lost) ==
    /\ held[w] # None
    /\ LET changed == Transitioned(held[w].job, "completed", TotalUnits, t) IN
       /\ CanTransition(held[w].job, "completed", t)
       /\ CommitEffect(held[w].job_id, p, changed)
       /\ OwnedRelease(w, changed, t, "FINISHED", lost)

Complete(w, t, lost) ==
    /\ held[w] # None
    /\ CanTransition(held[w].job, "completed", t)
    /\ OwnedRelease(w, Transitioned(held[w].job, "completed", TotalUnits, t), t,
                    "FINISHED", lost)
    /\ UNCHANGED effects

FinishReason == [retrying |-> "TRANSIENT_FAILURE", failed |-> "TERMINAL_FAILURE",
                 paused |-> "OPERATOR_PAUSE", cancelled |-> "CANCELLED"]

\* _finish_with_status: schedule_retry, fail, pause, cancel
FinishWithStatus(w, to, t, lost) ==
    /\ held[w] # None
    /\ CanTransition(held[w].job, to, t)
    /\ OwnedRelease(w, Transitioned(held[w].job, to, held[w].job.completed_units, t), t,
                    FinishReason[to], lost)
    /\ UNCHANGED effects

\* The worker process dies, or drops the job after a rejected write.
Abandon(w) ==
    /\ held[w] # None
    /\ held' = [held EXCEPT ![w] = None]
    /\ UNCHANGED <<submission, job, transitions, lease, leaseEvents, effects, command, acked>>

-----------------------------------------------------------------------------
\* Operator commands (DurableJobApplicationService._transition)

CommandReason == [queued |-> "REQUEUED", cancelled |-> "CANCELLED"]

\* _require_job
CommandRead(o, j, to, expected) ==
    /\ command[o] = None
    /\ Exists(j)
    /\ command' = [command EXCEPT ![o] = [job_id |-> j, to_status |-> to,
                                          expected_version |-> expected,
                                          previous |-> job[j]]]
    /\ UNCHANGED <<submission, job, transitions, lease, leaseEvents, effects, held, acked>>

Outdated(c) == c.expected_version # None /\ c.previous.version # c.expected_version

Ack(o, c) == IF c.expected_version = None THEN acked
             ELSE acked \cup {[actor_id |-> o, job_id |-> c.job_id,
                               to_status |-> c.to_status,
                               expected_version |-> c.expected_version]}

\* list_transitions(limit=1) read after the job was read: the newest row by then.
IsLastTransition(j, r) ==
    /\ r \in transitions /\ r.job_id = j
    /\ \A q \in transitions : q.job_id = j => q.job_version <= r.job_version

\* Mutant: the replay of a lost answer ignores who acted.
IsReplayOf_AnyActor(o, c, last) ==
    /\ c.previous.version = c.expected_version + 1
    /\ c.previous.status = c.to_status
    /\ last.job_version = c.previous.version
    /\ last.reason_code = CommandReason[c.to_status]
    /\ last.to_status = c.to_status

IsReplayOf(o, c, last) ==
    /\ c.previous.version = c.expected_version + 1
    /\ c.previous.status = c.to_status
    /\ last.job_version = c.previous.version
    /\ last.actor_id = o
    /\ last.reason_code = CommandReason[c.to_status]
    /\ last.to_status = c.to_status

CommandReplay(o) ==
    /\ command[o] # None
    /\ Outdated(command[o])
    /\ \E last \in transitions : /\ IsLastTransition(command[o].job_id, last)
                                 /\ IsReplayOf(o, command[o], last)
    /\ acked' = Ack(o, command[o])
    /\ command' = [command EXCEPT ![o] = None]
    /\ UNCHANGED <<submission, job, transitions, lease, leaseEvents, effects, held>>

AllowedUnleased == {<<"queued", "cancelled">>, <<"paused", "queued">>, <<"failed", "queued">>}

\* transition, then persist_transition
CommandCommit(o, t, lost) ==
    /\ command[o] # None
    /\ LET c == command[o]
           changed == Transitioned(c.previous, c.to_status, c.previous.completed_units, t)
       IN  /\ ~ Outdated(c)
           /\ CanTransition(c.previous, c.to_status, t)
           /\ <<c.previous.status, c.to_status>> \in AllowedUnleased
           /\ lease[c.job_id] = None
           /\ PersistTransitionRows(c.job_id, c.previous, changed, o, t,
                                    CommandReason[c.to_status])
           /\ acked' = IF lost THEN acked ELSE Ack(o, c)
    /\ command' = [command EXCEPT ![o] = None]
    /\ UNCHANGED <<submission, lease, leaseEvents, effects, held>>

\* Every refusal of the command: an error answer, no row changed.
CommandGiveUp(o) ==
    /\ command[o] # None
    /\ command' = [command EXCEPT ![o] = None]
    /\ UNCHANGED <<submission, job, transitions, lease, leaseEvents, effects, held, acked>>

-----------------------------------------------------------------------------

Init ==
    /\ submission = [j \in Jobs |-> None]
    /\ job = [j \in Jobs |-> None]
    /\ transitions = {}
    /\ lease = [j \in Jobs |-> None]
    /\ leaseEvents = {}
    /\ effects = {}
    /\ held = [w \in Workers |-> None]
    /\ command = [o \in Operators |-> None]
    /\ acked = {}

WorkerStep(w) ==
    \/ \E l \in Lanes, t \in Times, e \in Times, lost \in BOOLEAN : Claim(w, l, t, e, lost)
    \/ \E t \in Times, e \in Times, lost \in BOOLEAN : Heartbeat(w, t, e, lost)
    \/ \E t \in Times, u \in 0..TotalUnits, lost \in BOOLEAN : Checkpoint(w, t, u, lost)
    \/ \E p \in Partitions, t \in Times, u \in 0..TotalUnits, lost \in BOOLEAN :
           CommitPartition(w, p, t, u, lost)
    \/ \E p \in Partitions, t \in Times, lost \in BOOLEAN : CompletePartition(w, p, t, lost)
    \/ \E t \in Times, lost \in BOOLEAN : Complete(w, t, lost)
    \/ \E to \in DOMAIN FinishReason, t \in Times, lost \in BOOLEAN :
           FinishWithStatus(w, to, t, lost)
    \/ Abandon(w)

OperatorStep(o) ==
    \/ \E j \in Jobs, to \in {"queued", "cancelled"}, v \in (1..MaxVersion) \cup {None} :
           CommandRead(o, j, to, v)
    \/ CommandReplay(o)
    \/ \E t \in Times, lost \in BOOLEAN : CommandCommit(o, t, lost)
    \/ CommandGiveUp(o)

Next ==
    \/ \E j \in Jobs, k \in IdemKeys, l \in Lanes, cap \in Caps, t \in Times :
           Submit(j, k, l, cap, t)
    \/ \E w \in Workers : WorkerStep(w)
    \/ \E o \in Operators : OperatorStep(o)

Spec == Init /\ [][Next]_vars

-----------------------------------------------------------------------------
\* Properties

\* Every table holds well-typed rows, and a row exists exactly for a submitted
\* job: what _decode_job and DurableJob.__post_init__ demand of stored state.
TypeOK ==
    /\ submission \in [Jobs -> SubmissionRow \cup {None}]
    /\ job \in [Jobs -> JobRow \cup {None}]
    /\ \A j \in Jobs : job[j] = None <=> submission[j] = None
    /\ transitions \subseteq TransitionRow
    /\ lease \in [Jobs -> LeaseRow \cup {None}]
    /\ leaseEvents \subseteq LeaseEventRow
    /\ effects \subseteq EffectRow
    /\ held \in [Workers -> LeasedJob \cup {None}]
    /\ command \in [Operators -> Command \cup {None}]
    /\ acked \subseteq [actor_id: Operators, job_id: Jobs,
                        to_status: {"queued", "cancelled"}, expected_version: 1..MaxVersion]

\* queue_snapshot refuses to answer when leases outnumber running jobs: a lease
\* row exists exactly while its job is running, through every takeover, release,
\* lost answer and operator command.
LeaseIffRunning ==
    \A j \in Jobs : lease[j] # None <=> (Exists(j) /\ job[j].status = "running")

\* Version fencing: the snapshot a worker holds is one of a running job, never
\* newer than the stored row, and when its version still is the stored one the
\* worker owns the current lease generation.  The compare-and-swap alone
\* therefore rejects every worker that was taken over, whatever its clock says.
HeldFenced(w) ==
    LET h == held[w] IN
    h # None =>
        /\ Exists(h.job_id)
        /\ h.job.status = "running"
        /\ h.job.version <= job[h.job_id].version
        /\ h.job.version = job[h.job_id].version =>
               /\ h.job = job[h.job_id]
               /\ lease[h.job_id] # None
               /\ lease[h.job_id].owner_id = w
               /\ lease[h.job_id].generation = h.lease.generation

VersionFencesStaleWorkers == \A w \in Workers : HeldFenced(w)

\* The transition table is the complete history of each job: one row for each
\* version, each row starting where the one before ended, each a legal move of
\* the aggregate (or a checkpoint or takeover of a running job), times never
\* going back, and the last row describing the stored job.
RowOf(j, v) == {r \in transitions : r.job_id = j /\ r.job_version = v}

LegalMove(r) ==
    \/ r.to_status \in ALLOWED_TRANSITIONS[r.from_status]
    \/ /\ r.from_status = "running" /\ r.to_status = "running"
       /\ r.reason_code \in {"CHECKPOINTED", "LEASE_TAKEOVER"}

TransitionHistory ==
    /\ \A r \in transitions : Exists(r.job_id) /\ r.job_version <= job[r.job_id].version
    /\ \A r, q \in transitions :
           r.job_id = q.job_id /\ r.job_version = q.job_version => r = q
    /\ \A j \in Jobs : Exists(j) =>
           /\ \E r \in RowOf(j, 1) : r.from_status = "" /\ r.to_status = "queued"
           /\ \E r \in RowOf(j, job[j].version) :
                  r.to_status = job[j].status /\ r.occurred_at = job[j].updated_at
           /\ \A v \in 2..job[j].version : \E p \in RowOf(j, v - 1), r \in RowOf(j, v) :
                  /\ r.from_status = p.to_status
                  /\ p.occurred_at <= r.occurred_at
                  /\ LegalMove(r)

\* Lease evidence: every generation was opened by exactly one claim or
\* takeover, closed at most once, is never reused after the lease row was
\* deleted, and the stored lease is the newest generation.
LeaseEvidence ==
    /\ \A e, f \in leaseEvents : (/\ e.job_id = f.job_id
                                  /\ e.event_sequence <= f.event_sequence)
           => e.generation <= f.generation
    /\ \A e \in leaseEvents : \E f \in leaseEvents :
           /\ f.job_id = e.job_id /\ f.generation = e.generation
           /\ f.action \in {"claimed", "taken_over"} /\ f.owner_id = e.owner_id
           /\ f.event_sequence <= e.event_sequence
    /\ \A e, f \in leaseEvents :
           (/\ e.job_id = f.job_id /\ e.generation = f.generation
            /\ {e.action, f.action} \subseteq {"claimed", "taken_over"})
           => e = f
    /\ \A e, f \in leaseEvents :
           (/\ e.job_id = f.job_id /\ e.generation = f.generation
            /\ e.action = "released")
           => f.event_sequence <= e.event_sequence
    /\ \A j \in Jobs : lease[j] # None =>
           /\ \A g \in Generations(j) : g <= lease[j].generation
           /\ \E e \in EventsOf(j) : /\ e.generation = lease[j].generation
                                     /\ e.owner_id = lease[j].owner_id
           /\ \A e \in EventsOf(j) : e.generation = lease[j].generation
                                        => e.action # "released"

\* Effects are exactly once: whatever is retried, resumed or taken over, the
\* committed effects of a job are numbered 1..n, each partition appears once,
\* progress never falls from one to the next nor runs ahead of the job, and each
\* is tied to a version that a worker's own write created.
EffectsExactlyOnce ==
    \A e \in effects :
        /\ e.ordinal = 1 \/ \E f \in effects : f.job_id = e.job_id /\ f.ordinal = e.ordinal - 1
        /\ Exists(e.job_id) /\ e.completed_units <= job[e.job_id].completed_units
        /\ \E r \in RowOf(e.job_id, e.job_version) :
               r.actor_id \in Workers /\ r.reason_code \in {"CHECKPOINTED", "FINISHED"}
        /\ \A f \in effects : f.job_id = e.job_id =>
               /\ f.partition_key = e.partition_key => f = e
               /\ f.ordinal = e.ordinal => f = e
               /\ f.ordinal < e.ordinal =>
                      /\ f.completed_units <= e.completed_units
                      /\ f.job_version < e.job_version

\* A command acknowledged for expected_version v is the one that created
\* version v + 1, whether it was answered directly or as the replay of a lost
\* answer: nobody is told that his command succeeded when another's did.
AckedCommandsCommitted ==
    \A a \in acked : \E r \in RowOf(a.job_id, a.expected_version + 1) :
        /\ r.actor_id = a.actor_id
        /\ r.to_status = a.to_status
        /\ r.reason_code = CommandReason[a.to_status]

\* A completed or cancelled job is final: its row, its history and its effects
\* never change again and it is never leased.
TerminalIsFinal ==
    [][\A j \in Jobs : (Exists(j) /\ job[j].status \in Terminal) =>
          /\ job'[j] = job[j]
          /\ lease'[j] = None
          /\ {r \in transitions' : r.job_id = j} = {r \in transitions : r.job_id = j}
          /\ {e \in effects' : e.job_id = j} = {e \in effects : e.job_id = j}]_vars

\* Fencing: while a lease stands, the job changes only by a write of the
\* lease's own generation, or by a takeover dated at or after its expiry.
FencedWrites ==
    [][\A j \in Jobs : (lease[j] # None /\ job'[j] # job[j]) =>
          \E r \in transitions' \ transitions :
             /\ r.job_id = j
             /\ \/ /\ r.actor_id = lease[j].owner_id
                   /\ r.occurred_at < lease[j].expires_at
                   /\ held[r.actor_id].lease.generation = lease[j].generation
                   /\ held[r.actor_id].job_id = j
                \/ /\ r.reason_code = "LEASE_TAKEOVER"
                   /\ r.occurred_at >= lease[j].expires_at
                   /\ lease'[j].generation > lease[j].generation]_vars

\* ADR 0104: a heartbeat succeeds "only when expiry is extended".
HeartbeatExtends ==
    [][\A j \in Jobs : (/\ lease[j] # None /\ lease'[j] # None
                        /\ lease'[j].generation = lease[j].generation)
          => lease'[j].expires_at >= lease[j].expires_at]_vars

-----------------------------------------------------------------------------
\* The engine implements JobLifecycle: the mapping forgets versions, snapshots,
\* generations, expiries and evidence.  A step of a worker that lost its lease,
\* of a retried call or of an outdated command must map to a stutter.

Lifecycle == INSTANCE JobLifecycle WITH
    status   <- [j \in Jobs |-> IF Exists(j) THEN job[j].status ELSE "absent"],
    owner    <- [j \in Jobs |-> IF lease[j] # None THEN lease[j].owner_id ELSE None],
    progress <- [j \in Jobs |-> IF Exists(j) THEN job[j].completed_units ELSE 0],
    retries  <- [j \in Jobs |-> IF Exists(j) THEN job[j].retry_count ELSE 0],
    done     <- [j \in Jobs |-> {e.partition_key : e \in {f \in effects : f.job_id = j}}]

\* Everything the tables record is a behaviour of the abstract lifecycle.
ImplementsLifecycle == Lifecycle!Spec
=============================================================================

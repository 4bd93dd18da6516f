# ReconForge ERP: TLA+ verification project

ReconForge is a multi-tenant reconciliation and ERP platform written in Python
over SQLite (local profile) and PostgreSQL (hosted profile). Most of it is
document processing and decimal arithmetic on one connection. What is hard to
test is the machinery that runs work in the background and survives crashes:
durable jobs with leases, the transactional outbox, the lane schedulers that
share workers between tenants, the scheduler that turns calendars into jobs, the
write-back of results to a provider, the upgrade of an installation, and the
posting of reviewed ledger entries. This project models that machinery. The last
two sections say what is left and why.

## 1. Inventory

### Parts that are modelled

| Part | State | Operations | Hard behaviour |
|---|---|---|---|
| Durable jobs (`domain/jobs.py`, `application/jobs.py`, `infrastructure/sqlite_jobs.py`, `postgres_jobs.py`) | job rows with a version, leases with a generation, append-only transitions, lease events, partition effects | submit (bounded or not), claim/takeover, heartbeat, checkpoint, commit or complete a partition, complete, retry, fail, pause, cancel; operator requeue and cancel | stale workers, callers' clocks, lost answers and retries, operator commands of three transactions |
| Lane schedulers (`application/jobs.py`, `reserve_round_robin_lane`) | an in-process cursor, or a cursor row shared by processes | `claim()`: reserve a lane, probe it, repeat | interleaved reservations, crash after a reservation, starvation |
| SQLite outbox (`infrastructure/sqlite_outbox.py`, `db/migration_53_outbox_fencing.py`, `domain/outbox_fencing.py`) and its worker (`application/outbox.py`, `workers/outbox.py`) | event rows, append-only delivery evidence written by triggers | enqueue, recover, claim, assert, publish, mark, replay; validate on opening | crash between any two calls, shared worker labels, agreement of repository, triggers and validator |
| Durable scheduler (`domain/scheduling.py`, `application/scheduler.py`, `infrastructure/postgres_scheduler.py`, `workers/postgres_scheduler.py`) | schedule versions with a cursor, dispatches, audit events | register, process_due | row locks and READ COMMITTED snapshots, skewed clocks, bounded catch-up split over polls, supersession |
| Write-back (`connectors/writeback.py`, `writeback_network.py`, `writeback_receiver.py`, `infrastructure/postgres_writeback.py`, `api/routes/connectors.py`) | append-only versions of each intent, recovery observations; the receiver's receipts and effects | propose, approve, dispatch, recover, acknowledge, request and dispatch compensation | provider I/O between two transactions, lost and late requests, two handlers of one intent, death after acceptance |
| Upgrade (`upgrade/orchestrator.py` and its six adapters) | a journal of the plan and its steps; the resources themselves and the copies kept for rollback | prepare, approve, execute, resume, roll back | journal and resource are never written together; crash between any two writes; drift; failure during rollback |
| Posting (`infrastructure/sqlite_finance_core.py`, `sqlite_finance_posting.py`, its schema, `sqlite_master_data.py`) | ledger entries, posting effects, command receipts, fiscal periods | save, validate, void, post, prepare a reversal, close, reopen and move a period | maker and checker across many calls, several drafts of one reversal, a void that reads before its transaction, period changes between calls |

How they interact: a business transaction appends outbox events in its own
commit; the outbox worker delivers them. The durable scheduler inserts durable
jobs in the transaction that moves its cursor. The lane schedulers choose the
lane from which a worker calls `claim_next`. Workers report through leased
writes only; operators act only on jobs without a lease. Posting appends its
outbox event in the transaction of the effect. A write-back handler leaves its
transaction before it calls the provider and opens a second one for the answer.

### Parts that are not modelled

`PROJECT.json` lists every part with the reason; section 6 sums it up.

## 2. Modules

| Module | Models |
|---|---|
| `DurableJobs` | the durable-job engine |
| `JobLifecycle` | what the engine promises, without versions, leases, clocks and evidence; `DurableJobs` implements it |
| `Outbox` | the SQLite outbox, its triggers, validator and worker cycle |
| `OutboxVerification` | `Outbox` plus a connection that opens the store meanwhile |
| `LaneScheduler` | both round-robin schedulers |
| `ScheduleDispatch` | the durable scheduler |
| `Writeback` | write-back intents, the handlers that move them, the POST loop, the transport and the receiver |
| `UpgradeSaga` | the upgrade orchestrator and its adapters |
| `FinancePosting` | ledger entries, posting, reversal and fiscal periods on SQLite |
| `MC*` | instances for TLC |
| `*Proofs` | theorems and their TLAPS proofs |

Operators called `X_Something`, marked `Mutant`, are plausible wrong versions of
`X`. They take no part in any specification; each shows that a property fails
when the code is wrong in that way.

### DurableJobs

Every repository call is a transaction under `BEGIN IMMEDIATE` (SQLite) or row
locks (PostgreSQL) and is one action. Steps that are *not* atomic in the code are
separate: a worker computes its write from the `LeasedJob` it holds
(`held[w]`), however old; an operator command reads the job (`CommandRead`),
looks at its last transition (`CommandReplay`) and commits (`CommandCommit`).
Parameters `lost` model an answer that never reaches the caller, who then keeps
the old snapshot and may call again. `Abandon` is a worker that forgets its job
(crash and restart).

Abstractions: digests, error texts and manifests are left out; `occurred_at`
and `lease_expires_at` are caller arguments and therefore arbitrary `Times`,
which covers every clock skew; all jobs share `TotalUnits` and `RetryCeiling`;
a lane stands for (tenant, organization, workspace, entity) and `claim_next`
without a workspace filter is not modelled. A job's reason codes are the ones
the services write. The domain allows `paused -> cancelled` and
`retrying -> cancelled`, which no repository call admits without a lease
(`AllowedUnleased`); the model follows the repository. The code sets no bound
on takeovers: a job that kills its worker is reclaimed for ever, because
`reclaim` charges no retry.

### Outbox

The tables are `row` and `evidence`; `pc`, `batch` and `doing` are a process's
place in `process_once`. Timestamps are kept as far as the code compares them
with the clock: `locked_at` is null, live or lapsed, `available_at` is ready or
not, and `Lapse` and `BecomeReady` are the passage of time. Which rows a `LIMIT`
leaves out is a free choice, which covers every `ORDER BY`. `Init` includes
rows older than the migration, watermarked 2/2 in any state. Processes may share
a `worker_id`, as after a restart under the same label.

A lease is compared with two clocks. The WHERE clauses use a reading that the call
took earlier: `claim_pending` (line 215) and `mark_failed` (line 314) before
`BEGIN IMMEDIATE`, so before they wait for the write lock, `mark_published` (line
289) with the write lock held. The triggers use `strftime('now')` at the UPDATE.
`ReadClock` is the first reading, a step of its own, and `late` holds the leases
that lapsed since; `SeenLive` is what the WHERE clause believes, `row[e].lock` what
the trigger finds. Between the two other processes may write, which is more than
`mark_published` allows; its WHERE clause compares generation and owner at the
UPDATE either way. `TriggersAdmit` is the conjunction of the guard,
evidence-admission and uniqueness constraints of migration 53: an UPDATE they
refuse raises, and the cycle ends (`MarkRefused`). `GuardsAdmitRepository` says
when that happens: never to a recovery, a claim or a replay, and to a mark exactly
if its lease lapsed between the two readings.

Left out: the trigger shape that shortens a lock (no caller uses it), the 2^63
bound of generations, differing `max_attempts` between processes, text lengths.

### OutboxVerification

`_verify_retained_evidence` runs two SELECTs outside a transaction. `ReadEvents`
and `ReadEvidence` are these, and any `Outbox` step may come between.

### LaneScheduler

A lane is an index. `Reserve` is the cursor transaction, `Advance` the local
cursor, `ClaimFrom`/`Miss` the probe. `FirstLane` covers both databases: the
first reservation is lane 0 on SQLite and `1 % count` on PostgreSQL. `lead` is a
history variable: reservations of a lane beyond those every lane had, capped
at 2. A process with another lane contract is refused before any change and is
left out.

### ScheduleDispatch

A poll is three steps: `PollBegin` (worker clock and `now()`), `PollSelect`
(`FOR UPDATE SKIP LOCKED LIMIT`), and `PollCommit`, or `PollRefused`/`PollCrash`,
which roll everything back. A registration takes the snapshot of its `SELECT ...
FOR UPDATE` (`RegisterRead`), then waits for the locks of the rows it saw and
reads their newest values, without versions inserted meanwhile, as READ
COMMITTED does. Primary key, partial unique index and the state trigger are
guards (`Insertable`, `Updatable`). An update that meets a row some poll holds
is not blocked forever: `HasLocks` waits for the poll to end.

A version is its misfire policy, its bounds and its set of occurrences: the
result of local-time resolution, `start_at` and `end_at`. A dispatch stands for
the durable job, the dispatch row and the notification requests inserted under
one key in one transaction. Left out: workspace and entity filters, row-level
security, the policy checks before a poll (they only prevent one).

### Writeback

`history` is the table of intent versions; `Put` is the repository's
compare-and-swap with the domain's and the trigger's lifecycle. A handler that
calls the provider is three steps: it loads or marks the intent
(`MarkDispatched`, `LoadForRecovery`, `LoadForCompensation`), exchanges messages
(`PostAccepted`, `PostRefused`, `PostUnreadable`, `PostLost`, `Lookup`), and
persists what it learnt against the version it marked (`Persist...`); `Abandon`
ends it between any two. `PostLost` leaves the request on the `wire`, from which
it may arrive after its own retry or not at all. `Receive` is the receiver's
store: first request, replay, or conflict.

Two intents may share an idempotency key, as the code allows. A compensation is
posted under the key with `:compensation` behind it (`CompensationKey`). Nothing
keeps a client from choosing such a key for an intent, and the primary key of the
receiver's receipts is the key alone, so the two may collide; the instance has such
an intent.

The payload of a compensation is not the intent's. A resolver provides it and the
body of the dispatch request names the digest it must have
(`api/routes/connectors.py:819`, `838`); it is a parameter of
`LoadForCompensation`. No version binds it, so two dispatches of one compensation
may differ in it, and nobody approves it: the dispatch permission is all that is
asked, while the docstring of `dispatch_compensation` speaks of an
"already-authorized payload". `EffectsWereAuthorised` therefore says of a
compensation that its intent was approved by a second person and the compensation
requested by someone other than the maker, and nothing of its payload;
`RecordedWasApplied` says of a compensated intent that some compensation was applied
under its compensation key.

A lookup knows only the key. An intent that is acknowledged by lookup has an effect
under its key, which may be of another intent with that key, or a compensation. An
operator's `Acknowledge` records what the operator says, refusals included, and
`RecordedWasApplied` claims nothing of it.

Left out: the status `failed` and `rejected` (declared, but no handler writes them),
operations beyond whether they compensate (an intent may itself be of an operation
`compensate.x`; with the key and payload of a compensation it would be answered from
that compensation's receipt), signatures, rate limits, URL and registration checks,
the bodies of payloads beyond their digest, the SQLite repository of local mode.

### UpgradeSaga

`run` and `steps` are the journal; `current` and `rollback` are the resources and
what their adapters kept. Every journal write and every rename, migration or
installation is an action, because no transaction spans two of them. An adapter
is its way of changing a resource: two renames (application, object catalog,
configuration), migrations in place with a copy (SQLite), migrations up and down
(PostgreSQL), one transaction (pack). `Recover` is what each finds out about an
interrupted step. A migration may stop on the way (`partial`) or, on SQLite, within
its first script, which leaves a changed database under the source's version
(`touched`, of which `recover` says nothing); a source may change after its preflight
(`drifted`). The restore of a SQLite database, which removes its `-wal` and `-shm`
files and then renames the copy into place, is one step: a crash between the two
leaves the plan in `rolling_back`, an error in `failed`, and no property speaks of
the resources there. Digests, file contents, wheels and subprocesses are left out.

### FinancePosting

A command is one action. Saving, reviewing, posting and `upsert_period` are one
`BEGIN IMMEDIATE` transaction each. `void_entry` reads before its UPDATE and is two
actions (`VoidRead`, `VoidEntry`), of which one may be pending at a time.
`set_period_status` also reads first, but its UPDATE compares the status with the
one it read and changes nothing if it moved, so one step is the same. The
balanced lines of an entry are one signed amount, their inversion its negation.
`authenticated` tells a stored user from a bare actor label, which leaves the
preparer unknown. `TriggersAdmit` are the INSERT triggers on effects,
`HeaderUpdatable` the one on posted headers, `VerifyPostingStorage` the code's own
verification, so `StorageVerifies` says that no order of commands produces what
the code itself reports as invalid. `author` is a history variable: who last wrote
an entry's content.

Left out: currency policy, organization and entity scope and master data (fixed
for an entry), descriptions and reasons, inventory-receipt sources and the
valuations that `void_entry` asks for (they can only refuse it),
`finance_posting_receipt_backing_guard` (the receipts the code writes satisfy it),
balance reports, backup, the PostgreSQL repository. One observation about a read that is
not modelled: `upsert_period` moves the dates of a period under its postings, and
`posted_balances_as_of` then refuses every cutoff that includes them
(`posting_date_invalid`).

## 3. What the runs check

| Run | Instance | Shows |
|---|---|---|
| `jobs_leases` | 1 job, 2 workers, 2 partitions, times 0..3, 5 versions, 5 lease events | types, fencing by version and generation, complete and legal history, generations never reused, effects exactly once, refinement of `JobLifecycle` |
| `jobs_operators` | 1 job, 1 worker, 2 operators | acknowledged commands are the committed ones, terminal jobs are final |
| `jobs_heartbeat` | 1 worker | *violation*: a repeated heartbeat shortens the lease (ADR 0104 says it extends) |
| `outbox` | 1 event, fresh or watermarked, 2 processes under one label, replays below generation 4, unbounded crashes | evidence always validates, triggers refuse only marks whose lease lapsed after their clock reading, no event stranded, acknowledged implies delivered, a live lease ended by its generation only and a lapsed one by recovery only, one delivery per claim; every event is published or dead-lettered |
| `outbox_verification` | 1 event, 1 process, 1 reader | *violation*: a valid store is reported invalid |
| `lanes` | 2 lanes with up to 2 jobs, 2 processes on the shared cursor, 1 local scheduler, 1 crash | one rotation for all processes, a busy lane waits for at most one job of each other lane, no lane starves in either kind |
| `schedule_versions` | 1 schedule, 3 versions (catch-up, fire-once, skip with review), 2 clients, 1 worker, skew 1, times 0..2 | the newest version, and only it, is active; superseded ones are frozen; no occurrence lost or met twice; audit events tile the time line and account for all |
| `schedule_fair` | 2 schedules, 2 workers, batch 1, 1 crash | backlogs are worked off although contending polls roll back |
| `writeback` | 2 intents sharing a key or with one key the compensation key of the other, 2 makers, 2 payloads, 2 handlers at once, 2 attempts, 3 exchanges | one legal history per intent, one provider effect per key, records only of what was applied, no effect of one person alone |
| `upgrade` | one resource of each of the six adapters, 1 process, 3 crashes | a completed plan is at its target and a rolled-back one at its source, changed resources are an initial part of the plan at every moment, a running plan ends |
| `upgrade_rollback` | the same, 1 crash | *violation*: an interrupted rollback is never resumed (the class says it is) |
| `finance` | 1 original entry, 2 reversal drafts, 2 users, 5 commands, 1 period with 2 windows | the store passes its own verification, the author of lines neither reviews nor posts them, reversals net to zero, a closed period's trial balance does not change |

### Bounds

Counters the code leaves unbounded are bounded in guards and named:
`MaxTime`, `MaxVersion`, `MaxLeaseEvents` (jobs), `ReplayBound` (outbox; bounds
operator replay only), `QueueBound`, `CrashBound` (lanes), `MaxTime`,
`CrashBound` (schedules), `ExchangeBound` (write-back), `CrashBound` (upgrade),
the sets of numbers and command ids (posting). Five versions admit claim, checkpoint, takeover by the
other worker, checkpoint and end, or claim, retry, claim, fail; five lease
events admit two claims with a takeover and releases. `MaxAttempts = 2` has a
first, a last and, after replay, a further attempt. One event is enough for the
outbox: guards, triggers and evidence are per row, and to one event a batch-mate
whose mark is refused is a cycle that ends early, which `Crash` allows anywhere;
the safety properties are moreover proved for any number. Three
exchanges admit a dispatch, its repetition by another handler and a recovery; two
dispatches under one key and a recovery; a dispatch and two compensations of
different payloads; or a dispatch, its compensation and the dispatch of an intent
whose key is the compensation key. What takes a fourth is left to the proofs. Three
crashes admit one in apply, one in the resumed run and one in the rollback. Three
entries and five commands admit a posting with two reversal drafts, both carried
to review and posting. Two occurrences with a catch-up limit of one split a backlog over two polls. The job and
write-back runs switch deadlock checking off because the bounds stop them, the
upgrade runs because a plan ends; all others check it.

### Fairness

* `outbox`: time passes (`Lapse`, `BecomeReady`) and a worker's `run`
  loop, restarted by its supervisor, keeps calling `process_once`, whose steps follow
  each other. Crashes are neither fair nor bounded. `ClaimPending` is strongly fair:
  it is two steps with `ReadClock`, and a worker that polls for ever does not die
  between them every time.
* `lanes`: every process keeps calling `claim()`. Submissions and crashes
  are not fair.
* `schedule_fair`: time passes, each worker's loop keeps opening polls with its
  clock, and a poll that was begun goes on until it commits or rolls back.
  Registrations are not fair. The instance keeps its schedules within their
  review boundary (one that is behind it makes every poll that claims it roll
  back, for an operator to resolve) and the clocks equal: with a bounded clock, a
  worker that is behind by one would be behind for ever.
* `upgrade`, `upgrade_rollback`: a process that does not die goes on until
  `execute` returns or raises, and the operator who started the plan calls
  `execute` again as long as it is accepted. Crashes and drift are not fair.

But for that one action weak fairness is enough, although polls may be refused and
rolled back.

### Findings

1. `renew_lease` compares the new expiry with the caller's copy, not the stored
   row (`jobs_heartbeat`).
2. Opening the SQLite outbox while another process writes can report a valid
   store as invalid; the PostgreSQL adapter avoids this with one statement
   (`outbox_verification`).
3. A crash during the rollback leaves the plan in `rolling_back`; `execute`
   refuses it and nothing else leaves that status, although the class promises a
   resumable rollback (`upgrade_rollback`).

Fencing, effects and evidence do not depend on the first: a shortened lease is
only taken over earlier.

## 4. What is proved

For all values of the constants, from the named `ASSUME`s of each module (types
of the constants, `None` distinct from rows, disjoint sets of actors):

* `DurableJobsProofs`: `TypeCorrect`, and `Fencing`: the version check alone rejects
  every stale worker. The inductive invariant is the conjunction of the type
  invariant, `LeaseIffRunning` and `VersionFencesStaleWorkers`: without the
  second, a release that left its lease behind (or a running row without a lease)
  would break the third, which says of each held snapshot that it is not newer
  than its row and that, at the same version, it carries the stored lease's owner
  and generation.
* `DurableJobsHistoryProofs`: what the tables record. `CompleteHistory`,
  `LeasesAccounted`, `ExactlyOnceEffects`, `AcksAreTrue`, `TerminalJobsStay`,
  `WritesFenced`, and `EngineImplementsLifecycle`, the refinement of `JobLifecycle`:
  initial states map to initial states and every step to a step or a stutter. The
  argument has two halves. `RowsInv` adds to the invariant of `Fencing` that a
  command in flight holds the stored row whenever its version is current, so a
  write that passes the version check was computed from what is stored; with it,
  `StepCases` reduces every action to one of six shapes in which the caller's
  snapshot no longer occurs. Each history property is then proved over the shapes.
* `OutboxProofs`: types, evidence validity, dead-letter accounting, disjoint
  claims, acknowledged implies delivered, one delivery per claim, fenced marks,
  and `TriggersCloseTheClockGap`: a row that the repository's WHERE clauses select
  passes every trigger, unless it is to be marked and its lease lapsed since the call
  read its clock, and then the trigger refuses. `MarksFenced` needs the refusal: the
  WHERE clause alone would let a mark end a lapsed lease. The hardest part is the
  count of the admission trigger: the claimed records are in bijection with the
  generations above the watermark (`ClaimsCounted`). The inductive invariant has two
  parts. `StoreInv` says of each event that its history explains its row (the claims
  above the watermark are on record, past generations are ended, and the evidence of
  the current one matches the row's state). `CycleInv` says of the processes that no
  claim in hand is newer than its row, that claims are handed out once, and which
  claims each place of the cycle has delivered.
* `LaneSchedulerProofs`: `LanesTyped`, `Rotation` and `BypassBounded`, for every
  number of lanes. That no lane leads by two says nothing of the cursor; `Window`
  does: the lanes that lead are those between `FirstLane` and the cursor.
  `BypassBounded` rests on the position of a lane in a scheduler's scan (`Offset`):
  what was taken past a lane and its offset are together less than the number of
  lanes (`WithinRound`), because a claim moves the next scan behind the lane it
  served, and the lanes a scan has left behind were empty when it passed them
  (`LeftBehindFresh`), even if work has come since.
* `ScheduleDispatchProofs`: `ScheduleTypes`, `OneActiveVersion`,
  `NoOccurrenceLost`, `SupersededFrozen`, `EvidenceIsComplete`. The inductive invariant adds: a locked
  row is as its poll read it, active, and locked by no other (`LocksHold`); rows a
  registration saw are still stored (`SeenStored`); every stored version has an
  active one that is not older (`ActiveExists`), without which the unique index
  would not imply that a registration with a stale snapshot has the highest
  version; cursors are not before their start. About `evaluate_schedule` itself,
  `EvaluationIs` shows that the cursor moves forward, not past now, and that the
  bounded catch-up is an initial part of what is due. `EvidenceTiles` is inductive
  on top of that invariant: a commit lays its tile at the cursor it read under lock,
  and `NothingLost` says that nothing beyond the cursor has been dispatched, so the
  new tile meets no occurrence twice and the counts of the old ones stay right.
* `WritebackProofs`: `WritebackTypes`, `LegalHistory`, `EffectOnce`, `RecordsTrue`,
  `TwoPersonEffects`, for any function that gives a key its compensation key,
  collisions included. The inductive invariant joins four facts: every history is a
  path of the lifecycle; whoever requested and approved an intent stands in every
  later version (`VersionsInv`); a handler holds a version that is stored, in the
  status its route asks for, sends the payload of the proposal unless it compensates,
  and an accepted answer in its hands is backed by a receipt (`CallsInv`), which is what makes a persist from an old read harmless;
  and the receiver's receipts and its effects agree (`ReceiptsInv`), without which
  a late retry might find no receipt and apply again.
* `FinancePostingProofs`: `PostingTypes`, `StorageSound`, `IndependentPoster`,
  `PeriodFrozen`, `ReversedOnce`, `ReversalsNet`. The entry numbers are assumed
  finite, nothing else is bounded. Verification of the store is made inductive by three facts it does
  not mention: a draft's reversal link names a retained effect, a pending void
  names an existing entry, and effects are of different entries (their entries
  are as many as they are), which also keeps effect ids in range. Independence
  needs the author of each entry to be its known preparer. The sum of
  `ReversalsNetOut` is a fold, but over one or two postings; `SumOfPair` exhibits
  the function the fold's recursion defines on them, which is what it takes to use
  its equation.
* `UpgradeSagaProofs`: `Typed`, `CompletedIsTrue`, `RolledBackIsTrue`,
  `ChangesInOrder`, for every number and kind of resources and every number of
  crashes. The inductive invariant (`SagaInv`) has two parts. `RunOK` relates the
  journal to the resources and holds between any two steps, so it survives a crash:
  a running plan is verified up to some step, that step is in whatever state its
  adapter can leave it in, and what follows is untouched. `PlacesOK` adds what the
  process knows at its place in the code, going forward or back; a crash loses only
  this part, and the resumed loop finds it again from `RunOK`. `Typed` is
  unconditional. The other three assume `OneProcess`, that at most one process
  executes the plan: `execute` lets the operator who claimed a plan call it again
  while his first process is alive (`orchestrator.py:218`), and TLC finds all three
  violated with two. The runs have one executor for the same reason.

Only model-checked: liveness (`EventuallySettled`, `NoLaneStarves`, `CatchesUp`,
`RunSettles`), because fairness and ENABLED are outside the prover's reach, and the
runs that expect a violation. Every invariant and action property of the passing runs
is a theorem.

## 5. Plan

Model next: the SQLite connection's transaction state around `claim_next` (a
`JobInvariantError` raised inside `BEGIN IMMEDIATE` is not caught, so the
transaction stays open and `_begin` refuses later calls, `sqlite_jobs.py:180`,
`685`); `claim_next` of `postgres_jobs.py` with statement snapshots (the lease is
re-read after the lock, the generation is not, line 670); the PostgreSQL outbox
with its consumer receipts.

## 6. Not modelled

The repository has some 287,000 lines in about a thousand files, most of which no
state machine of this kind says anything about: schema text, the command line,
field-level access tables, backup formats, web pages and reports, and a few dozen
business modules whose operations are one validated statement in one transaction.
The models cover the code whose steps interleave, fail halfway or must be resumed.

* Same shape as a modelled part, on the other database or for another queue:
  PostgreSQL outbox and consumer receipts, notifications and inbox, PostgreSQL
  posting, request idempotency, reconciliation and matching workers (users of the
  durable-job engine). They differ in detail (the PostgreSQL outbox charges the
  attempt at claim time and verifies in one statement), so they are listed as not
  modelled rather than covered.
* Sequential algorithms: FIFO valuation, matching engines, calendar resolution
  across daylight-saving changes, consolidation and payroll arithmetic. They work on
  decimals, dates and data frames, and unit tests reach them well.
* Single-writer records and linear lifecycles: procurement, sales, manufacturing,
  payables, receivables, close checklists, approvals, exceptions, period locks.
* Input, output and cryptography: identity protocols, audit hashing, backup,
  connectors' formats, importers, configuration, HTTP API, command line, reports.

--------------------------------- MODULE Outbox ---------------------------------
(***************************************************************************)
(* The transactional outbox on SQLite: the repository of                   *)
(* infrastructure/sqlite_outbox.py, the triggers that migration 53 puts    *)
(* under it, the retained-evidence validator of domain/outbox_fencing.py   *)
(* and the worker cycle of application/outbox.py and workers/outbox.py.    *)
(*                                                                         *)
(* Every repository call is one BEGIN IMMEDIATE transaction; the worker    *)
(* cycle (claim a batch, then assert, publish and mark each event) is one  *)
(* action per call, so a lease may lapse, another process may claim and a  *)
(* process may die between any two calls.                                  *)
(*                                                                         *)
(* A claim and a mark compare locked_at with two clocks: the WHERE clauses *)
(* with a reading the call took before its UPDATE (claim_pending and       *)
(* mark_failed before they wait for the write lock), the triggers with     *)
(* strftime('now') at the UPDATE.  ReadClock is the first, an action of    *)
(* its own; late holds the leases that lapsed since.                       *)
(*                                                                         *)
(* A timestamp is kept as far as the code compares it with the clock:      *)
(* locked_at is "null", "live" (after now) or "lapsed"; available_at is    *)
(* ready or not.  Which rows a LIMIT leaves out is a free choice, which    *)
(* covers every ORDER BY.                                                  *)
(***************************************************************************)
EXTENDS Naturals, FiniteSets

CONSTANTS
    Events,         \* outbox_events.id
    Processes,      \* worker processes
    WorkerIds,      \* locked_by / worker_id labels
    WorkerIdOf,     \* the label each process runs under; labels may be shared
    Nobody,         \* locked_by IS NULL
    MaxAttempts,    \* max_attempts of the deployment
    BatchLimit,     \* batch_size of a cycle
    ReplayBound     \* bound: no replay of an event at this generation or later

ASSUME WorkersAssumption ==
    /\ WorkerIdOf \in [Processes -> WorkerIds]
    /\ Nobody \notin WorkerIds /\ "operator" \notin WorkerIds
ASSUME LimitsAssumption ==
    /\ MaxAttempts \in Nat \ {0} /\ BatchLimit \in Nat \ {0}
    /\ ReplayBound \in Nat

VARIABLES
    stored,     \* the ids that have a row
    row,        \* outbox_events
    evidence,   \* outbox_delivery_evidence of each event
    pc,         \* where each process is in its cycle
    batch,      \* claims of the cycle not yet looked at
    doing,      \* the claim between assert_claim and its mark, if any
    late,       \* events whose lease lapsed since the process's call read the clock
    delivered   \* history: claims whose event the publisher accepted

vars == <<stored, row, evidence, pc, batch, doing, late, delivered>>

Row == [published : BOOLEAN, dead : BOOLEAN, lock : {"null", "live", "lapsed"},
        by : WorkerIds \cup {Nobody}, ready : BOOLEAN, attempts : Nat,
        error : {"none", "LEASE_EXPIRED", "failure"},
        generation : Nat, floor : {0, 2}]
Evidence == [generation : Nat, attempts : Nat,
             action : {"claimed", "published", "failed", "expired", "requeued"},
             worker : WorkerIds \cup {"operator"}]
Claim == [event : Events, generation : Nat]
Places == {"idle", "claiming", "next", "asserted", "delivered", "failed", "publishing", "failing"}
-----------------------------------------------------------------------------
\* Rows

\* What the INSERT guard admits: append_outbox_event names no delivery column.
FreshRow ==
    [published |-> FALSE, dead |-> FALSE, lock |-> "null", by |-> Nobody,
     ready |-> TRUE, attempts |-> 0, error |-> "none", generation |-> 0, floor |-> 0]

\* Rows older than migration 53, watermarked 2/2 in whatever state they were.
WatermarkedRows ==
    LET Watermarked(published, dead, lock, by, attempts) ==
            [published |-> published, dead |-> dead, lock |-> lock, by |-> by,
             ready |-> TRUE, attempts |-> attempts, error |-> "none",
             generation |-> 2, floor |-> 2]
    IN {Watermarked(FALSE, FALSE, "null", Nobody, a) : a \in 0 .. MaxAttempts - 1}
       \cup {Watermarked(FALSE, FALSE, "live", w, a) :
                w \in WorkerIds, a \in 0 .. MaxAttempts - 1}
       \cup {Watermarked(FALSE, TRUE, "null", Nobody, MaxAttempts),
             Watermarked(TRUE, FALSE, "null", Nobody, 0)}

\* SET locked_at, locked_by, lease_generation + 1.
ClaimedRow(r, w) ==
    [published |-> r.published, dead |-> r.dead, lock |-> "live", by |-> w,
     ready |-> r.ready, attempts |-> r.attempts, error |-> r.error,
     generation |-> r.generation + 1, floor |-> r.floor]

\* Mutant: a crash on the last attempt is released, not dead-lettered.
RecoveredRow_NoCeiling(r) ==
    [published |-> r.published, dead |-> FALSE,
     lock |-> "null", by |-> Nobody, ready |-> TRUE, attempts |-> r.attempts + 1,
     error |-> "LEASE_EXPIRED", generation |-> r.generation, floor |-> r.floor]

\* The lapsed claim is released and charged; the last attempt dead-letters.
RecoveredRow(r) ==
    [published |-> r.published, dead |-> r.attempts + 1 >= MaxAttempts,
     lock |-> "null", by |-> Nobody, ready |-> TRUE, attempts |-> r.attempts + 1,
     error |-> "LEASE_EXPIRED", generation |-> r.generation, floor |-> r.floor]

PublishedRow(r) ==
    [published |-> TRUE, dead |-> r.dead, lock |-> "null", by |-> Nobody,
     ready |-> r.ready, attempts |-> r.attempts, error |-> "none",
     generation |-> r.generation, floor |-> r.floor]

\* The text "LEASE_EXPIRED" of a publisher is replaced, so that the triggers can
\* tell a failure from an expiry.  available_at is in the future unless the row is dead-lettered.
FailedRow(r) ==
    LET dead == r.attempts + 1 >= MaxAttempts
    IN [published |-> r.published, dead |-> dead, lock |-> "null", by |-> Nobody,
        ready |-> dead, attempts |-> r.attempts + 1, error |-> "failure",
        generation |-> r.generation, floor |-> r.floor]

RequeuedRow(r) ==
    [published |-> r.published, dead |-> FALSE, lock |-> "null", by |-> Nobody,
     ready |-> TRUE, attempts |-> 0, error |-> "none",
     generation |-> r.generation, floor |-> r.floor]
-----------------------------------------------------------------------------
\* The triggers of migration 53

\* Mutant: the guard leaves the deadline of a mark to the WHERE clause.
FencingGuard_NoDeadline(old, new) ==
    LET open(r) == ~r.published /\ ~r.dead
        locked(r) == r.lock # "null" /\ r.by # Nobody
        unlocked(r) == r.lock = "null" /\ r.by = Nobody
        same == new.generation = old.generation
    IN /\ new.generation >= old.generation /\ new.generation <= old.generation + 1
       /\ new.floor = old.floor /\ new.generation >= new.floor
       /\ \/ /\ open(old) /\ unlocked(old) /\ open(new) /\ locked(new)
             /\ new.generation = old.generation + 1 /\ new.generation > new.floor
             /\ new.attempts = old.attempts
          \/ /\ open(old) /\ locked(old) /\ new.published /\ ~new.dead /\ unlocked(new)
             /\ same /\ old.generation > old.floor
             /\ new.attempts = old.attempts /\ new.error = "none"
          \/ /\ open(old) /\ locked(old) /\ ~new.published /\ unlocked(new)
             /\ same /\ new.attempts = old.attempts + 1
             /\ \/ old.lock = "lapsed" /\ new.error = "LEASE_EXPIRED"
                \/ /\ old.generation > old.floor
                   /\ new.error = "failure"
          \/ /\ ~old.published /\ old.dead /\ unlocked(old)
             /\ open(new) /\ unlocked(new)
             /\ same /\ new.attempts = 0 /\ new.error = "none"

\* outbox_fencing_guard: the shapes an UPDATE of outbox_events may have, but for the
\* last, a lease cut short, which no repository call writes.
FencingGuard(old, new) ==
    LET open(r) == ~r.published /\ ~r.dead
        locked(r) == r.lock # "null" /\ r.by # Nobody
        unlocked(r) == r.lock = "null" /\ r.by = Nobody
        same == new.generation = old.generation
    IN /\ new.generation >= old.generation /\ new.generation <= old.generation + 1
       /\ new.floor = old.floor /\ new.generation >= new.floor
       /\ \/ /\ open(old) /\ unlocked(old) /\ open(new) /\ locked(new)
             /\ new.generation = old.generation + 1 /\ new.generation > new.floor
             /\ new.attempts = old.attempts
          \/ /\ open(old) /\ locked(old) /\ new.published /\ ~new.dead /\ unlocked(new)
             /\ same /\ old.generation > old.floor /\ old.lock = "live"
             /\ new.attempts = old.attempts /\ new.error = "none"
          \/ /\ open(old) /\ locked(old) /\ ~new.published /\ unlocked(new)
             /\ same /\ new.attempts = old.attempts + 1
             /\ \/ old.lock = "lapsed" /\ new.error = "LEASE_EXPIRED"
                \/ /\ old.generation > old.floor /\ old.lock = "live"
                   /\ new.error = "failure"
          \/ /\ ~old.published /\ old.dead /\ unlocked(old)
             /\ open(new) /\ unlocked(new)
             /\ same /\ new.attempts = 0 /\ new.error = "none"

\* Mutant: the worker is taken from the new row only, where a mark has cleared it.
AppendedEvidence_NewOwner(old, new) ==
    [generation |-> new.generation,
     action |-> IF new.generation # old.generation THEN "claimed"
                ELSE IF new.published THEN "published"
                ELSE IF old.dead /\ ~new.dead THEN "requeued"
                ELSE IF new.error = "LEASE_EXPIRED" THEN "expired" ELSE "failed",
     worker |-> IF new.by # Nobody THEN new.by ELSE "operator",
     attempts |-> new.attempts]

\* outbox_delivery_evidence_append: the row the AFTER UPDATE trigger inserts.
AppendedEvidence(old, new) ==
    [generation |-> new.generation,
     action |-> IF new.generation # old.generation THEN "claimed"
                ELSE IF new.published THEN "published"
                ELSE IF old.dead /\ ~new.dead THEN "requeued"
                ELSE IF new.error = "LEASE_EXPIRED" THEN "expired" ELSE "failed",
     worker |-> IF new.by # Nobody THEN new.by
                ELSE IF old.by # Nobody THEN old.by ELSE "operator",
     attempts |-> new.attempts]

\* Has(E, g, a): some evidence in E records action a at generation g.
Has(E, g, a) == \E x \in E : x.generation = g /\ x.action = a

\* outbox_delivery_evidence_admission and UNIQUE (event_id, lease_generation, action).
EvidenceAdmission(new, x, E) ==
    /\ x.generation = new.generation /\ x.attempts = new.attempts
    /\ CASE x.action = "claimed" ->
                /\ new.generation > new.floor /\ new.lock # "null" /\ new.by = x.worker
                /\ ~new.published /\ ~new.dead
                /\ Cardinality({y \in E : /\ y.action = "claimed"
                                          /\ y.generation > new.floor
                                          /\ y.generation < new.generation})
                       = new.generation - new.floor - 1
         [] x.action = "published" ->
                /\ new.generation > new.floor /\ new.published /\ ~new.dead
                /\ new.lock = "null" /\ new.by = Nobody
         [] x.action = "failed" ->
                /\ new.generation > new.floor /\ ~new.published
                /\ new.lock = "null" /\ new.by = Nobody /\ new.error = "failure"
         [] x.action = "expired" ->
                /\ ~new.published /\ new.lock = "null" /\ new.by = Nobody
                /\ new.error = "LEASE_EXPIRED"
         [] x.action = "requeued" ->
                /\ ~new.published /\ ~new.dead /\ new.lock = "null" /\ new.by = Nobody
                /\ new.attempts = 0 /\ new.error = "none"
                /\ \/ new.generation = new.floor /\ new.floor = 2
                   \/ Has(E, new.generation, "failed") \/ Has(E, new.generation, "expired")
    /\ ~Has(E, x.generation, x.action)

TriggersAdmit(old, new, E) ==
    FencingGuard(old, new) /\ EvidenceAdmission(new, AppendedEvidence(old, new), E)

Noted(E, old, new) == E \cup {AppendedEvidence(old, new)}
-----------------------------------------------------------------------------
\* Repository and worker cycle

Init ==
    /\ stored \in SUBSET Events
    /\ row \in [Events -> {FreshRow} \cup WatermarkedRows]
    /\ \A e \in Events : e \in stored <=> row[e] # FreshRow
    /\ evidence = [e \in Events |-> {}]
    /\ pc = [p \in Processes |-> "idle"]
    /\ batch = [p \in Processes |-> {}]
    /\ doing = [p \in Processes |-> {}]
    /\ late = [p \in Processes |-> {}]
    /\ delivered = {}

\* append_outbox_event, committed with the business mutation.  INSERT OR IGNORE.
Enqueue(e) ==
    /\ e \notin stored
    /\ stored' = stored \cup {e}
    /\ UNCHANGED <<row, evidence, pc, batch, doing, late, delivered>>

\* Where a call has read its clock and not yet made its UPDATE.
HasReadClock(p) == pc[p] \in {"claiming", "publishing", "failing"}

\* Time passes: locked_at is no longer in the future.
Lapse(e) ==
    /\ e \in stored /\ row[e].lock = "live"
    /\ row' = [row EXCEPT ![e].lock = "lapsed"]
    /\ late' = [p \in Processes |-> IF HasReadClock(p) THEN late[p] \cup {e} ELSE late[p]]
    /\ UNCHANGED <<stored, evidence, pc, batch, doing, delivered>>

\* Time passes: available_at is reached.
BecomeReady(e) ==
    /\ e \in stored /\ ~row[e].ready
    /\ row' = [row EXCEPT ![e].ready = TRUE]
    /\ UNCHANGED <<stored, evidence, pc, batch, doing, late, delivered>>

\* now = utc_now_text().  claim_pending and mark_failed take it before BEGIN IMMEDIATE,
\* mark_published among the arguments of its UPDATE.
ReadClock(p) ==
    /\ pc[p] \in {"idle", "delivered", "failed"}
    /\ pc' = [pc EXCEPT ![p] = CASE @ = "idle" -> "claiming"
                                 [] @ = "delivered" -> "publishing"
                                 [] @ = "failed" -> "failing"]
    /\ UNCHANGED <<stored, row, evidence, batch, doing, late, delivered>>

\* What a LIMIT may return of the rows a query matches.
Limited(S) ==
    {B \in SUBSET S : \/ B = S /\ Cardinality(S) <= BatchLimit
                      \/ Cardinality(B) = BatchLimit}

\* Mutant: a lapsed claim is recovered only while it may be tried again.
Expired_OnlyRetryable(rows) ==
    {e \in stored : /\ ~rows[e].published /\ ~rows[e].dead /\ rows[e].lock = "lapsed"
                    /\ rows[e].attempts + 1 < MaxAttempts}

\* OUTBOX_RECOVERY_SELECT_SQL.
Expired(rows) ==
    {e \in stored : ~rows[e].published /\ ~rows[e].dead /\ rows[e].lock = "lapsed"}

Claimable(rows) ==
    {e \in stored : /\ ~rows[e].published /\ ~rows[e].dead
                    /\ rows[e].attempts < MaxAttempts
                    /\ rows[e].ready /\ rows[e].lock = "null"}

\* _recover_expired on the rows of R.
RecoveredRows(R) == [e \in Events |-> IF e \in R THEN RecoveredRow(row[e]) ELSE row[e]]
RecoveredEvidence(R) ==
    [e \in Events |-> IF e \in R THEN Noted(evidence[e], row[e], RecoveredRow(row[e]))
                      ELSE evidence[e]]

RecoverExpired ==
    \E R \in Limited(Expired(row)) :
        /\ R # {}
        /\ \A e \in R : TriggersAdmit(row[e], RecoveredRow(row[e]), evidence[e])
        /\ row' = RecoveredRows(R)
        /\ evidence' = RecoveredEvidence(R)
        /\ UNCHANGED <<stored, pc, batch, doing, late, delivered>>

\* The rest of claim_pending, after the recovery of R: the rows of B are claimed.
ClaimedRows(R, B, w) ==
    [e \in Events |-> IF e \in B THEN ClaimedRow(RecoveredRows(R)[e], w)
                      ELSE RecoveredRows(R)[e]]
ClaimedEvidence(R, B, w) ==
    [e \in Events |->
        IF e \in B THEN Noted(RecoveredEvidence(R)[e], RecoveredRows(R)[e],
                              ClaimedRow(RecoveredRows(R)[e], w))
        ELSE RecoveredEvidence(R)[e]]

\* The claims handed to the caller: values["lease_generation"] is the new one.
ClaimsOf(R, B) ==
    {[event |-> e, generation |-> RecoveredRows(R)[e].generation + 1] : e \in B}

\* A lease that lapsed after the call read its clock is left to the next call.  The new
\* lease runs from before the wait too: if it is over at the commit, Lapse comes next.
ClaimPending(p) ==
    /\ pc[p] = "claiming"
    /\ \E R \in Limited(Expired(row) \ late[p]) : \E B \in Limited(Claimable(RecoveredRows(R))) :
        /\ \A e \in R : TriggersAdmit(row[e], RecoveredRow(row[e]), evidence[e])
        /\ \A e \in B : TriggersAdmit(RecoveredRows(R)[e],
                                      ClaimedRow(RecoveredRows(R)[e], WorkerIdOf[p]),
                                      RecoveredEvidence(R)[e])
        /\ row' = ClaimedRows(R, B, WorkerIdOf[p])
        /\ evidence' = ClaimedEvidence(R, B, WorkerIdOf[p])
        /\ batch' = [batch EXCEPT ![p] = ClaimsOf(R, B)]
        /\ pc' = [pc EXCEPT ![p] = IF B = {} THEN "idle" ELSE "next"]
    /\ late' = [late EXCEPT ![p] = {}]
    /\ UNCHANGED <<stored, doing, delivered>>

\* locked_at > now, for the reading of p's call.
SeenLive(p, e) == row[e].lock = "live" \/ (row[e].lock = "lapsed" /\ e \in late[p])

\* Mutant: worker_id alone identifies the owner, as before migration 53.
LiveClaim_AnyGeneration(p, c) ==
    LET r == row[c.event]
    IN /\ r.by = WorkerIdOf[p] /\ SeenLive(p, c.event)
       /\ ~r.published /\ ~r.dead

\* The WHERE clause shared by assert_claim, mark_published and mark_failed.
LiveClaim(p, c) ==
    LET r == row[c.event]
    IN /\ r.by = WorkerIdOf[p] /\ r.generation = c.generation
       /\ r.generation > r.floor /\ SeenLive(p, c.event)
       /\ ~r.published /\ ~r.dead

\* The cycle ends without another call: an exception leaves process_once and
\* OutboxWorker.process_once closes the connection.
Abandon(p) ==
    /\ pc' = [pc EXCEPT ![p] = "idle"]
    /\ batch' = [batch EXCEPT ![p] = {}]
    /\ doing' = [doing EXCEPT ![p] = {}]
    /\ late' = [late EXCEPT ![p] = {}]
    /\ UNCHANGED <<stored, row, evidence, delivered>>

AssertClaim(p) ==
    /\ pc[p] = "next"
    /\ \E c \in batch[p] :
        /\ LiveClaim(p, c)
        /\ batch' = [batch EXCEPT ![p] = @ \ {c}]
        /\ doing' = [doing EXCEPT ![p] = {c}]
    /\ pc' = [pc EXCEPT ![p] = "asserted"]
    /\ UNCHANGED <<stored, row, evidence, late, delivered>>

\* assert_claim raises outside the try block: the rest of the batch is given up.
AssertRefused(p) ==
    /\ pc[p] = "next"
    /\ \E c \in batch[p] : ~LiveClaim(p, c)
    /\ Abandon(p)

\* publisher(event) returns.
PublishReturns(p) ==
    /\ pc[p] = "asserted"
    /\ pc' = [pc EXCEPT ![p] = "delivered"]
    /\ delivered' = delivered \cup doing[p]
    /\ UNCHANGED <<stored, row, evidence, batch, doing, late>>

\* Mutant: a publisher failure is retried inside the cycle.
PublishRaises_RetriesInline(p) ==
    /\ pc[p] = "asserted"
    /\ delivered' \in {delivered, delivered \cup doing[p]}
    /\ UNCHANGED <<stored, row, evidence, pc, batch, doing, late>>

\* publisher(event) raises; the sink may or may not have accepted the event.
PublishRaises(p) ==
    /\ pc[p] = "asserted"
    /\ pc' = [pc EXCEPT ![p] = "failed"]
    /\ delivered' \in {delivered, delivered \cup doing[p]}
    /\ UNCHANGED <<stored, row, evidence, batch, doing, late>>

\* One committed UPDATE of the claimed event, and on to the next of the batch.
Marked(p, c, new) ==
    /\ TriggersAdmit(row[c.event], new, evidence[c.event])
    /\ row' = [row EXCEPT ![c.event] = new]
    /\ evidence' = [evidence EXCEPT ![c.event] = Noted(@, row[c.event], new)]
    /\ doing' = [doing EXCEPT ![p] = {}]
    /\ late' = [late EXCEPT ![p] = {}]
    /\ pc' = [pc EXCEPT ![p] = IF batch[p] = {} THEN "idle" ELSE "next"]
    /\ UNCHANGED <<stored, batch, delivered>>

\* Mutant: the failure branch falls through to mark_published.
MarkPublished_AfterFailure(p) ==
    /\ pc[p] \in {"publishing", "failing"}
    /\ \E c \in doing[p] : LiveClaim(p, c) /\ Marked(p, c, PublishedRow(row[c.event]))

MarkPublished(p) ==
    /\ pc[p] = "publishing"
    /\ \E c \in doing[p] : LiveClaim(p, c) /\ Marked(p, c, PublishedRow(row[c.event]))

MarkFailed(p) ==
    /\ pc[p] = "failing"
    /\ \E c \in doing[p] : LiveClaim(p, c) /\ Marked(p, c, FailedRow(row[c.event]))

\* Either mark raises: its WHERE clause finds no live claim, or a trigger aborts the UPDATE.
MarkRefused(p) ==
    /\ pc[p] \in {"publishing", "failing"}
    /\ \E c \in doing[p] :
        LET old == row[c.event]
            new == IF pc[p] = "publishing" THEN PublishedRow(old) ELSE FailedRow(old)
        IN ~LiveClaim(p, c) \/ ~TriggersAdmit(old, new, evidence[c.event])
    /\ Abandon(p)

\* The process dies; a supervisor starts it again under the same label.
Crash(p) ==
    /\ pc[p] # "idle"
    /\ Abandon(p)

\* reconforge outbox requeue: an explicit operator replay.
RequeueDeadLetter(e) ==
    /\ e \in stored /\ ~row[e].published /\ row[e].dead
    /\ row[e].generation < ReplayBound
    /\ TriggersAdmit(row[e], RequeuedRow(row[e]), evidence[e])
    /\ row' = [row EXCEPT ![e] = RequeuedRow(row[e])]
    /\ evidence' = [evidence EXCEPT ![e] = Noted(@, row[e], RequeuedRow(row[e]))]
    /\ UNCHANGED <<stored, pc, batch, doing, late, delivered>>

Cycle(p) ==
    \/ AssertClaim(p) \/ AssertRefused(p) \/ PublishReturns(p) \/ PublishRaises(p)
    \/ MarkPublished(p) \/ MarkFailed(p) \/ MarkRefused(p)

Next ==
    \/ \E e \in Events : Enqueue(e) \/ Lapse(e) \/ BecomeReady(e) \/ RequeueDeadLetter(e)
    \/ \E p \in Processes : ReadClock(p) \/ ClaimPending(p) \/ Cycle(p) \/ Crash(p)
    \/ RecoverExpired

Spec == Init /\ [][Next]_vars

\* Time passes and every process keeps polling and taking the steps of its
\* cycle; crashes are never fair, and nothing bounds how often they happen.  A
\* process that polls for ever does not die for ever between reading the clock
\* and its claim, hence the strong fairness.
FairSpec ==
    /\ Spec
    /\ \A e \in Events : WF_vars(Lapse(e)) /\ WF_vars(BecomeReady(e))
    /\ \A p \in Processes : /\ WF_vars(ReadClock(p)) /\ WF_vars(Cycle(p))
                           /\ SF_vars(ClaimPending(p))
-----------------------------------------------------------------------------
\* domain/outbox_fencing.py, per event

\* validate_outbox_delivery_evidence: contiguous claims above the floor.
ValidClaims(r, E) ==
    /\ r.floor \in {0, 2} /\ r.floor <= r.generation
    /\ \A x \in E : x.generation \in 1 .. r.generation
    /\ \A x \in E : x.action = "claimed" => x.generation > r.floor
    /\ \A g \in r.floor + 1 .. r.generation : Has(E, g, "claimed")

\* _validate_outbox_delivery_state, first part: one event's history, by generation.
Terminal == {"published", "failed", "expired"}
ValidHistory(r, E) ==
    /\ \A x, y \in E : x.generation = y.generation /\ x.action = y.action => x = y
    /\ \A x, y \in E : /\ x.generation = y.generation
                       /\ x.action \in Terminal /\ y.action \in Terminal
                       => x.action = y.action
    /\ \A x, y \in E : x.generation = y.generation
                       => ~(x.action = "published" /\ y.action = "requeued")
    /\ \A x \in E : x.generation > r.floor => Has(E, x.generation, "claimed")
    /\ \A x \in E : x.generation > r.floor /\ x.generation < r.generation
                    => \E y \in E : y.generation = x.generation /\ y.action \in Terminal
    /\ \A x \in E : x.generation <= r.floor
                    => x.generation = r.floor /\ x.action \in {"expired", "requeued"}
    /\ \A x \in E : x.action = "requeued"
                    => \/ x.generation = r.floor /\ r.floor = 2
                       \/ Has(E, x.generation, "failed") \/ Has(E, x.generation, "expired")
    /\ \A x \in E : x.action = "published" => x.generation = r.generation
    /\ \A x, y \in E : /\ x.generation = y.generation /\ x.generation > r.floor
                       /\ x.action = "claimed" /\ y.action \in Terminal
                       => x.worker = y.worker

\* _retained_delivery_state.
DeliveryState(r) ==
    LET locked == r.lock # "null"
        owner == r.by # Nobody
    IN IF r.published THEN IF locked \/ owner \/ r.dead THEN "invalid" ELSE "published"
       ELSE IF r.dead THEN IF locked \/ owner THEN "invalid" ELSE "dead"
       ELSE IF locked # owner THEN "invalid"
       ELSE IF locked THEN "claimed" ELSE "pending"

\* _validate_outbox_delivery_state, last part: the current generation explains
\* the state of the row.
ValidState(r, E) ==
    LET now(a) == Has(E, r.generation, a)
        nothing == \A x \in E : x.generation # r.generation
        historical == r.generation = r.floor /\ r.floor = 2
        fenced == r.generation > r.floor
    IN \/ /\ DeliveryState(r) = "claimed"
          /\ \/ historical /\ nothing
             \/ /\ fenced /\ now("claimed") /\ ~now("requeued")
                /\ \A a \in Terminal : ~now(a)
       \/ /\ DeliveryState(r) = "published"
          /\ \/ historical /\ nothing
             \/ /\ fenced /\ now("claimed") /\ now("published")
                /\ ~now("failed") /\ ~now("expired") /\ ~now("requeued")
       \/ /\ DeliveryState(r) = "dead"
          /\ \/ /\ historical /\ ~now("claimed") /\ ~now("published")
                /\ ~now("failed") /\ ~now("requeued")
             \/ /\ fenced /\ now("claimed") /\ (now("failed") \/ now("expired"))
                /\ ~now("requeued")
       \/ /\ DeliveryState(r) = "pending"
          /\ \/ r.generation = r.floor /\ nothing
             \/ /\ fenced /\ now("claimed") /\ ~now("published")
                /\ (now("failed") \/ now("expired") \/ now("requeued"))
             \/ historical /\ ~now("claimed") /\ ~now("published") /\ ~now("failed")

\* validate_outbox_fencing_storage over the ids and rows one query returned and
\* the evidence another returned.
ValidStorage(ids, rows, E) ==
    /\ \A e \in Events \ ids : E[e] = {}
    /\ \A e \in ids : /\ ValidClaims(rows[e], E[e])
                      /\ ValidHistory(rows[e], E[e])
                      /\ ValidState(rows[e], E[e])
-----------------------------------------------------------------------------
\* Properties

\* Types of the tables and of the processes' cycles.
TypeOK ==
    /\ stored \subseteq Events
    /\ row \in [Events -> Row]
    /\ evidence \in [Events -> SUBSET Evidence]
    /\ pc \in [Processes -> Places]
    /\ batch \in [Processes -> SUBSET Claim]
    /\ doing \in [Processes -> SUBSET Claim]
    /\ late \in [Processes -> SUBSET Events]
    /\ delivered \subseteq Claim

\* The store always passes the repository's own validator, whatever state the
\* migration found: no sequence of deliveries, crashes, recoveries and replays
\* makes _verify_retained_evidence lock the outbox out.
EvidenceExplainsState == ValidStorage(stored, row, evidence)

\* The triggers stand between two clock readings.  They never refuse a recovery, claim or
\* replay that the WHERE clauses admit, on a guard, on evidence admission or on UNIQUE
\* (event_id, lease_generation, action).  A mark that its WHERE clause admits they refuse
\* exactly if the lease lapsed after the call read its clock, waiting for the write lock.
GuardsAdmitRepository ==
    /\ \A e \in stored :
        /\ e \in Expired(row) => TriggersAdmit(row[e], RecoveredRow(row[e]), evidence[e])
        /\ e \in Claimable(row) =>
              \A w \in WorkerIds : TriggersAdmit(row[e], ClaimedRow(row[e], w), evidence[e])
        /\ ~row[e].published /\ row[e].dead =>
              TriggersAdmit(row[e], RequeuedRow(row[e]), evidence[e])
    /\ \A p \in Processes : \A c \in doing[p] :
        LiveClaim(p, c) =>
            \A new \in {PublishedRow(row[c.event]), FailedRow(row[c.event])} :
                TriggersAdmit(row[c.event], new, evidence[c.event])
                    <=> row[c.event].lock = "live"

\* A claim is in the hands of one process: two processes never work on the same
\* (event, lease_generation), even when they run under the same worker_id.
ClaimsDisjoint ==
    \A p, q \in Processes :
        p # q => (batch[p] \cup doing[p]) \cap (batch[q] \cup doing[q]) = {}

\* An event is acknowledged only for a generation whose publisher call was
\* accepted: nothing is marked published that never reached the sink.
AcknowledgedWasDelivered ==
    \A e \in stored :
        row[e].published /\ row[e].generation > row[e].floor
            => [event |-> e, generation |-> row[e].generation] \in delivered

\* An event that is neither published nor dead-lettered can still be claimed
\* one day: attempts stay below the ceiling, also when the last one crashed.
NeverStranded ==
    \A e \in stored : ~row[e].published => (row[e].dead <=> row[e].attempts >= MaxAttempts)

\* Only the owner of the current generation ends a live lease: a late mark of a
\* process that lost its lease changes nothing, also under a shared worker_id.  And
\* a lapsed lease is ended by nobody's mark, its owner's neither, whatever clock the
\* mark read: it is recovered, which charges the attempt.
LeaseIsFenced ==
    [][\A e \in Events : row'[e].lock = "null" =>
          /\ row[e].lock = "live" =>
                \E p \in Processes :
                    [event |-> e, generation |-> row[e].generation] \in doing[p]
          /\ row[e].lock = "lapsed" => row'[e] = RecoveredRow(row[e])]_vars

\* One claim, one delivery: no cycle hands an event to the publisher twice, so
\* the duplicates a consumer sees are never more than the claims on record.
OneDeliveryPerClaim ==
    [][\A p \in Processes :
          pc[p] = "asserted" /\ pc'[p] \in {"delivered", "failed"} =>
              doing[p] \cap delivered = {}]_vars

\* Every stored event ends up published or dead-lettered, even if processes
\* crash for ever: a crash costs an attempt and attempts run out.
EventuallySettled ==
    \A e \in Events : e \in stored ~> row[e].published \/ row[e].dead
=============================================================================

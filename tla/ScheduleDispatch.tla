---------------------------- MODULE ScheduleDispatch ----------------------------
(***************************************************************************)
(* The durable scheduler: evaluate_schedule of domain/scheduling.py and    *)
(* the repository of infrastructure/postgres_scheduler.py under several    *)
(* polling workers and several clients that register schedule versions.    *)
(*                                                                         *)
(* A poll is a PostgreSQL transaction of three steps: BEGIN (which fixes   *)
(* now()), the SELECT ... FOR UPDATE SKIP LOCKED that locks the rows it    *)
(* claims, and the commit of everything it computed from them.  A          *)
(* registration takes its snapshot, then waits for the locks of the rows   *)
(* it saw and reads their newest values, as READ COMMITTED does: a version *)
(* inserted meanwhile stays invisible to it.                               *)
(*                                                                         *)
(* A schedule version is its misfire policy and the set of its occurrences *)
(* (what _resolve_local, start_at and end_at select).  A dispatch stands   *)
(* for the durable job, the dispatch row and the notification requests     *)
(* that one transaction inserts under the occurrence's key.                *)
(***************************************************************************)
EXTENDS Integers, FiniteSets

CONSTANTS
    Schedules,      \* schedule_id; numbers, because polls order by it
    Versions,       \* schedule_version
    Definition,     \* what each version declares
    Pollers,        \* scheduler workers
    Registrars,     \* clients of register
    Limit,          \* batch_size
    Cursors,        \* cursor_at of a registration
    MaxSkew,        \* how far a worker's clock is from the database's
    MaxTime,        \* bound: instants are 0 .. MaxTime
    CrashBound,     \* bound: polls that die before they commit
    None

Keys == Schedules \X Versions
Times == 0 .. MaxTime
Policies == {"skip", "fire_once", "catch_up"}

ASSUME SchedulesAssumption == Schedules \subseteq Nat /\ Versions \subseteq Nat \ {0}
ASSUME TimesAssumption ==
    /\ MaxTime \in Nat /\ CrashBound \in Nat /\ Limit \in Nat \ {0}
    /\ Cursors \subseteq Times /\ MaxSkew \in Nat
ASSUME DefinitionAssumption ==
    Definition \in [Keys -> [misfire_policy : Policies, max_catch_up : Nat \ {0},
                             max_lookback : Nat \ {0}, occurrences : SUBSET Times]]

VARIABLES
    rows,           \* reconforge.schedules
    dispatches,     \* reconforge.schedule_dispatches
    events,         \* reconforge.schedule_events
    poll,           \* the transaction each poller is in
    registration,   \* the transaction each registrar is in
    clock,          \* the database's clock
    crashes

vars == <<rows, dispatches, events, poll, registration, clock, crashes>>

Row == [initial_cursor_at : Times, cursor_at : Times, enabled : BOOLEAN,
        row_version : Nat \ {0}, updated_at : Times]
Dispatch == [key : Keys, scheduled_for : Times]
EventTypes == {"schedule.registered", "schedule.superseded", "schedule.evaluated"}
Event == [key : Keys, event_type : EventTypes, prior : Times, through : Times,
          total_due : Nat, dispatched : Nat, replayed : Nat, skipped : Nat, deferred : Nat]
Poll == [begin : Times, current : Times, selected : BOOLEAN,
         record : [Keys -> Row \cup {None}]]
Registration == [key : Keys, cursor_at : Times, begin : Times, seen : SUBSET Keys]

ASSUME ScheduleNoneAssumption == None \notin Row /\ None \notin Poll /\ None \notin Registration

Stored == {k \in Keys : rows[k] # None}
Claimed(p) == {k \in Keys : poll[p].record[k] # None}
Locked(k) == \E p \in Pollers : poll[p] # None /\ poll[p].record[k] # None

Init ==
    /\ rows = [k \in Keys |-> None]
    /\ dispatches = {}
    /\ events = {}
    /\ poll = [p \in Pollers |-> None]
    /\ registration = [r \in Registrars |-> None]
    /\ clock = 0
    /\ crashes = 0

\* The database's clock moves on.
Tick ==
    /\ clock < MaxTime
    /\ clock' = clock + 1
    /\ UNCHANGED <<rows, dispatches, events, poll, registration, crashes>>

-----------------------------------------------------------------------------
\* evaluate_schedule: pure functions of a definition, a cursor and now

\* Mutant: the window is closed on the left.
Due_ClosedWindow(d, cursor, now) == {o \in d.occurrences : cursor <= o /\ o <= now}

Due(d, cursor, now) == {o \in d.occurrences : cursor < o /\ o <= now}

\* due[:n]
First(due, n) == {o \in due : Cardinality({x \in due : x < o}) < n}

\* due[-1:]
Last(due) == {o \in due : \A x \in due : x <= o}

Dispatched(d, due) ==
    CASE d.misfire_policy = "skip"      -> {}
      [] d.misfire_policy = "fire_once" -> Last(due)
      [] d.misfire_policy = "catch_up"  -> First(due, d.max_catch_up)

\* Mutant: the cursor of a bounded catch-up moves to now.
EvaluatedThrough_Now(d, due, now) == now

EvaluatedThrough(d, due, now) ==
    LET dispatch == Dispatched(d, due)
    IN IF d.misfire_policy = "catch_up" /\ dispatch # due /\ dispatch # {}
       THEN CHOOSE o \in dispatch : \A x \in dispatch : x <= o
       ELSE now

NeedsReview(d, cursor, now) == now < cursor \/ now - cursor > d.max_lookback

-----------------------------------------------------------------------------
\* process_due

\* The worker reads its own clock and opens the transaction.
PollBegin(p, current) ==
    /\ poll[p] = None
    /\ current <= clock + MaxSkew /\ clock <= current + MaxSkew
    /\ poll' = [poll EXCEPT ![p] = [begin |-> clock, current |-> current, selected |-> FALSE,
                                    record |-> [k \in Keys |-> None]]]
    /\ UNCHANGED <<rows, dispatches, events, registration, clock, crashes>>

\* Mutant: superseded versions are polled too.
IsDue_AnyVersion(k, current) == rows[k] # None /\ rows[k].cursor_at < current

IsDue(k, current) ==
    /\ rows[k] # None
    /\ rows[k].enabled /\ rows[k].cursor_at < current

\* ORDER BY cursor_at, schedule_id, schedule_version
Before(j, k) ==
    \/ rows[j].cursor_at < rows[k].cursor_at
    \/ /\ rows[j].cursor_at = rows[k].cursor_at
       /\ j[1] < k[1] \/ (j[1] = k[1] /\ j[2] < k[2])

\* SELECT ... FOR UPDATE SKIP LOCKED LIMIT
PollSelect(p) ==
    /\ poll[p] # None /\ ~poll[p].selected
    /\ LET due == {k \in Keys : IsDue(k, poll[p].current) /\ ~Locked(k)}
           first == {k \in due : Cardinality({j \in due : Before(j, k)}) < Limit}
       IN poll' = [poll EXCEPT ![p] = [begin |-> @.begin, current |-> @.current, selected |-> TRUE,
                                       record |-> [k \in Keys |->
                                                     IF k \in first THEN rows[k] ELSE None]]]
    /\ UNCHANGED <<rows, dispatches, events, registration, clock, crashes>>

\* Mutant: two transactions of the same instant cannot both update a row.
Updatable_LaterOnly(k, row_version, begin) ==
    rows[k] # None /\ rows[k].row_version = row_version /\ begin > rows[k].updated_at

\* UPDATE reconforge.schedules: the compare-and-swap on row_version, and the
\* triggers that let neither the cursor nor updated_at go back.  updated_at is
\* now(), the begin of the transaction.
Updatable(k, row_version, begin) ==
    /\ rows[k] # None
    /\ rows[k].row_version = row_version
    /\ begin >= rows[k].updated_at

\* The audit event of a claimed row: replayed are the occurrences already dispatched.
EvaluatedEvent(k, cursor, current) ==
    LET d == Definition[k]
        due == Due(d, cursor, current)
        dispatch == Dispatched(d, due)
        new == {o \in dispatch : [key |-> k, scheduled_for |-> o] \notin dispatches}
        left == Cardinality(due) - Cardinality(dispatch)
    IN [key |-> k, event_type |-> "schedule.evaluated", prior |-> cursor,
        through |-> EvaluatedThrough(d, due, current), total_due |-> Cardinality(due),
        dispatched |-> Cardinality(new), replayed |-> Cardinality(dispatch \ new),
        skipped |-> IF d.misfire_policy = "catch_up" THEN 0 ELSE left,
        deferred |-> IF d.misfire_policy = "catch_up" THEN left ELSE 0]

EvaluatesClaimed(p) ==
    \A k \in Claimed(p) :
        /\ ~NeedsReview(Definition[k], poll[p].record[k].cursor_at, poll[p].current)
        /\ Updatable(k, poll[p].record[k].row_version, poll[p].begin)

\* All claimed rows are evaluated and everything commits.
PollCommit(p) ==
    /\ poll[p] # None /\ poll[p].selected
    /\ EvaluatesClaimed(p)
    /\ LET event(k) == EvaluatedEvent(k, poll[p].record[k].cursor_at, poll[p].current)
           due(k) == Due(Definition[k], poll[p].record[k].cursor_at, poll[p].current)
       IN /\ rows' = [k \in Keys |->
                 IF k \in Claimed(p)
                 THEN [initial_cursor_at |-> rows[k].initial_cursor_at,
                       cursor_at |-> event(k).through,
                       enabled |-> rows[k].enabled,
                       row_version |-> rows[k].row_version + 1,
                       updated_at |-> poll[p].begin]
                 ELSE rows[k]]
          /\ dispatches' = dispatches \cup
                 {d \in Dispatch : /\ d.key \in Claimed(p)
                                   /\ d.scheduled_for \in Dispatched(Definition[d.key], due(d.key))}
          /\ events' = events \cup {event(k) : k \in Claimed(p)}
    /\ poll' = [poll EXCEPT ![p] = None]
    /\ UNCHANGED <<registration, clock, crashes>>

\* One claimed row needs a review or was updated by a transaction that began
\* later: the whole poll rolls back.
PollRefused(p) ==
    /\ poll[p] # None /\ poll[p].selected
    /\ ~EvaluatesClaimed(p)
    /\ poll' = [poll EXCEPT ![p] = None]
    /\ UNCHANGED <<rows, dispatches, events, registration, clock, crashes>>

\* The worker dies or loses its connection; the server rolls back.
PollCrash(p) ==
    /\ poll[p] # None /\ crashes < CrashBound
    /\ crashes' = crashes + 1
    /\ poll' = [poll EXCEPT ![p] = None]
    /\ UNCHANGED <<rows, dispatches, events, registration, clock>>

-----------------------------------------------------------------------------
\* register

\* BEGIN and the snapshot of SELECT ... FOR UPDATE.
RegisterRead(r, k, cursor) ==
    /\ registration[r] = None
    /\ registration' = [registration EXCEPT ![r] =
           [key |-> k, cursor_at |-> cursor, begin |-> clock,
            seen |-> {j \in Stored : j[1] = k[1]}]]
    /\ UNCHANGED <<rows, dispatches, events, poll, clock, crashes>>

\* Every row of the snapshot is locked, so none is held by a poll.
HasLocks(r) == \A j \in registration[r].seen : ~Locked(j)

PriorActive(r) == {j \in registration[r].seen : rows[j].enabled}

\* Mutant: the partial unique index on enabled versions is missing.
Insertable_NoActiveIndex(r) == rows[registration[r].key] = None

\* The primary key and the index schedules_one_active_version.
Insertable(r) ==
    LET key == registration[r].key
    IN /\ rows[key] = None
       /\ \A j \in Stored : j[1] = key[1] /\ rows[j].enabled => j \in PriorActive(r)

\* The version is new and the highest of those seen; the active ones can be
\* disabled and the row inserted.
Supersedes(r) ==
    /\ \A j \in registration[r].seen : j[2] < registration[r].key[2]
    /\ \A j \in PriorActive(r) : registration[r].begin >= rows[j].updated_at
    /\ Insertable(r)

NoCounts(k, type, at) ==
    [key |-> k, event_type |-> type, prior |-> at, through |-> at, total_due |-> 0,
     dispatched |-> 0, replayed |-> 0, skipped |-> 0, deferred |-> 0]

RegisterCommit(r) ==
    /\ registration[r] # None /\ HasLocks(r) /\ Supersedes(r)
    /\ LET new == registration[r]
       IN /\ rows' = [k \in Keys |->
                 IF k = new.key
                 THEN [initial_cursor_at |-> new.cursor_at, cursor_at |-> new.cursor_at,
                       enabled |-> TRUE, row_version |-> 1, updated_at |-> new.begin]
                 ELSE IF k \in PriorActive(r)
                 THEN [initial_cursor_at |-> rows[k].initial_cursor_at,
                       cursor_at |-> rows[k].cursor_at, enabled |-> FALSE,
                       row_version |-> rows[k].row_version + 1, updated_at |-> new.begin]
                 ELSE rows[k]]
          /\ events' = events
                \cup {NoCounts(j, "schedule.superseded", rows[j].cursor_at) : j \in PriorActive(r)}
                \cup {NoCounts(new.key, "schedule.registered", new.cursor_at)}
    /\ registration' = [registration EXCEPT ![r] = None]
    /\ UNCHANGED <<dispatches, poll, clock, crashes>>

\* A replay of a stored version, a conflict, or a constraint that fails.
RegisterRefused(r) ==
    /\ registration[r] # None /\ HasLocks(r) /\ ~Supersedes(r)
    /\ registration' = [registration EXCEPT ![r] = None]
    /\ UNCHANGED <<rows, dispatches, events, poll, clock, crashes>>

-----------------------------------------------------------------------------
PollStep(p) == (\E t \in Times : PollBegin(p, t)) \/ PollSelect(p) \/ PollCommit(p) \/ PollRefused(p)
RegisterStep(r) ==
    \/ \E k \in Keys, t \in Cursors : RegisterRead(r, k, t)
    \/ RegisterCommit(r) \/ RegisterRefused(r)

Next ==
    \/ Tick
    \/ \E p \in Pollers : PollStep(p) \/ PollCrash(p)
    \/ \E r \in Registrars : RegisterStep(r)

Spec == Init /\ [][Next]_vars

\* Time passes and every worker keeps polling with a clock that agrees with the
\* database's; whatever is begun is finished.
FairSpec ==
    /\ Spec
    /\ WF_vars(Tick)
    /\ \A p \in Pollers :
          WF_vars(PollBegin(p, clock)) /\ WF_vars(PollSelect(p) \/ PollCommit(p) \/ PollRefused(p))
-----------------------------------------------------------------------------
\* The tables and the transactions in flight are well typed.
TypeOK ==
    /\ rows \in [Keys -> Row \cup {None}]
    /\ dispatches \subseteq Dispatch
    /\ events \subseteq Event
    /\ poll \in [Pollers -> Poll \cup {None}]
    /\ registration \in [Registrars -> Registration \cup {None}]
    /\ clock \in Times
    /\ crashes \in 0 .. CrashBound

\* Whatever registrations and polls interleave, exactly the newest version of a
\* schedule is active: a registration that lost a race never brings an older
\* version to life, and none leaves a schedule without an active version.
NewestIsActive ==
    \A k \in Stored :
        rows[k].enabled <=> \A j \in Stored : j[1] = k[1] => j[2] <= k[2]

InWindow(k, o) == rows[k].initial_cursor_at < o /\ o <= rows[k].cursor_at

\* The cursor never runs ahead of the evidence: what was dispatched of a version
\* are occurrences the cursor has passed, and a catch-up schedule has dispatched
\* every one of them, however its backlog was split between polls and crashes.
NothingLost ==
    /\ \A d \in dispatches :
          /\ rows[d.key] # None /\ InWindow(d.key, d.scheduled_for)
          /\ d.scheduled_for \in Definition[d.key].occurrences
    /\ \A k \in Stored : Definition[k].misfire_policy = "catch_up" =>
          \A o \in Definition[k].occurrences :
              InWindow(k, o) => [key |-> k, scheduled_for |-> o] \in dispatches

Evaluations(k) == {e \in events : e.key = k /\ e.event_type = "schedule.evaluated"}

\* The audit events of a version tile the way from its initial cursor to the
\* current one, each accounts for every occurrence that was due, and no
\* occurrence is ever met twice: the replay branch of process_due stays unused.
EvidenceTiles ==
    \A k \in Keys :
        /\ Evaluations(k) # {} => rows[k] # None
        /\ rows[k] # None =>
              \/ rows[k].cursor_at = rows[k].initial_cursor_at
              \/ \E e \in Evaluations(k) : e.through = rows[k].cursor_at
        /\ \A e \in Evaluations(k) :
              /\ e.prior < e.through /\ e.through <= rows[k].cursor_at
              /\ \/ e.prior = rows[k].initial_cursor_at
                 \/ \E f \in Evaluations(k) : f.through = e.prior
              /\ e.replayed = 0
              /\ e.total_due = e.dispatched + e.skipped + e.deferred
              /\ e.dispatched = Cardinality({o \in Times :
                                    /\ e.prior < o /\ o <= e.through
                                    /\ [key |-> k, scheduled_for |-> o] \in dispatches})
              /\ \A f \in Evaluations(k) : f = e \/ f.through <= e.prior \/ e.through <= f.prior

\* A version that has been superseded is frozen: a poll that was running when
\* the newer version came commits before the registration or not at all.
SupersededIsFrozen ==
    [][\A j, k \in Stored : (j[1] = k[1] /\ j[2] < k[2]) =>
          /\ rows'[j] = rows[j]
          /\ {d \in dispatches' : d.key = j} = {d \in dispatches : d.key = j}]_vars

\* Every active catch-up schedule catches up with the clock, however far it was
\* behind, when no schedule needs a review and nobody registers for ever.
CatchesUp ==
    \A k \in Keys :
        <>[](rows[k] # None /\ rows[k].enabled /\ Definition[k].misfire_policy = "catch_up")
            => <>(/\ rows[k] # None
                  /\ \A o \in Definition[k].occurrences :
                        rows[k].initial_cursor_at < o => [key |-> k, scheduled_for |-> o] \in dispatches)
=============================================================================

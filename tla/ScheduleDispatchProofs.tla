------------------------- MODULE ScheduleDispatchProofs -------------------------
(***************************************************************************)
(* The durable scheduler keeps one active version per schedule, freezes    *)
(* the superseded ones and loses no occurrence, for every set of           *)
(* schedules, definitions, workers and clients, every batch size, skew and *)
(* horizon.                                                                *)
(***************************************************************************)
EXTENDS ScheduleDispatch, FiniteSetTheorems, WellFoundedInduction, TLAPS

-----------------------------------------------------------------------------
\* evaluate_schedule

\* A non-empty set of instants has a first and a last one.
LEMMA MinExists ==
    ASSUME NEW S \in SUBSET Nat, S # {}
    PROVE  \E m \in S : \A x \in S : m <= x
  <1>1. PICK m \in S : \A x \in S : ~(<<x, m>> \in OpToRel(<, Nat))
    BY NatLessThanWellFounded, WFMin, Zenon
  <1>2. \A x \in S : ~(x < m)
    BY <1>1 DEF OpToRel
  <1> QED
    BY <1>2

LEMMA MaxExists ==
    ASSUME NEW S \in SUBSET Times, S # {}
    PROVE  \E m \in S : \A x \in S : x <= m
  <1> USE TimesAssumption DEF Times
  <1> DEFINE D == {n \in Nat : MaxTime - n \in S}
  <1>1. D # {}
    <2>1. PICK x \in S : TRUE
      OBVIOUS
    <2>2. MaxTime - x \in D
      BY <2>1
    <2> QED
      BY <2>2
  <1>2. D \in SUBSET Nat
    OBVIOUS
  <1> HIDE DEF D
  <1>3. PICK n \in D : \A y \in D : n <= y
    BY <1>1, <1>2, MinExists
  <1>4. \A x \in S : MaxTime - x \in D
    BY DEF D
  <1>5. n \in Nat /\ MaxTime - n \in S
    BY <1>3 DEF D
  <1> QED
    BY <1>3, <1>4, <1>5

\* Sets of instants are finite.
LEMMA TimesFinite ==
    ASSUME NEW S \in SUBSET Times
    PROVE  IsFiniteSet(S) /\ Cardinality(S) \in Nat
  <1>1. IsFiniteSet(Times)
    BY TimesAssumption, FS_Interval DEF Times
  <1> QED
    BY <1>1, FS_Subset, FS_CardinalityType

\* due[:n] is an initial part of due, and is not empty when due is not.
LEMMA FirstIs ==
    ASSUME NEW due \in SUBSET Times, NEW n \in Nat \ {0}
    PROVE  /\ First(due, n) \subseteq due
           /\ \A o \in First(due, n), x \in due : x <= o => x \in First(due, n)
           /\ due # {} => First(due, n) # {}
  <1> DEFINE before(o) == {x \in due : x < o}
  <1>1. First(due, n) \subseteq due
    BY DEF First
  <1>2. ASSUME NEW o \in First(due, n), NEW x \in due, x <= o
        PROVE  x \in First(due, n)
    <2>0. \A y \in due : y \in Int
      BY TimesAssumption DEF Times
    <2>1. before(x) \subseteq before(o) /\ before(o) \in SUBSET Times /\ before(x) \in SUBSET Times
      <3>1. \A y \in due : y < x => y < o
        BY <1>1, <1>2, <2>0
      <3> QED
        BY <3>1
    <2>2. /\ IsFiniteSet(before(o)) /\ Cardinality(before(o)) \in Nat
          /\ Cardinality(before(x)) \in Nat
      BY <2>1, TimesFinite
    <2>3. Cardinality(before(x)) <= Cardinality(before(o))
      BY <2>1, <2>2, FS_Subset
    <2>4. Cardinality(before(o)) < n
      BY DEF First
    <2>5. Cardinality(before(x)) < n
      BY <2>2, <2>3, <2>4
    <2> QED
      BY <2>5 DEF First
  <1>3. ASSUME due # {} PROVE First(due, n) # {}
    <2>1. due \in SUBSET Nat
      BY TimesAssumption DEF Times
    <2>2. PICK m \in due : \A x \in due : m <= x
      BY <1>3, <2>1, MinExists
    <2>3. before(m) = {}
      <3>1. \A x \in due : ~(x < m)
        BY <2>1, <2>2
      <3> QED
        BY <3>1
    <2>4. Cardinality(before(m)) = 0
      BY <2>3, FS_EmptySet
    <2>5. m \in First(due, n)
      BY <2>4 DEF First
    <2> QED
      BY <2>5
  <1> QED
    BY <1>1, <1>2, <1>3

\* What an evaluation does: it dispatches only occurrences that are due and that
\* the new cursor passes, the cursor moves forward and not past now, and under
\* catch_up everything due that the cursor passes is dispatched.
LEMMA EvaluationIs ==
    ASSUME NEW k \in Keys, NEW cursor \in Times, NEW now \in Times, cursor < now
    PROVE  LET d == Definition[k]
               due == Due(d, cursor, now)
               through == EvaluatedThrough(d, due, now)
           IN /\ due \in SUBSET Times
              /\ Dispatched(d, due) \subseteq due
              /\ through \in Times /\ cursor < through /\ through <= now
              /\ \A o \in Dispatched(d, due) : o <= through
              /\ d.misfire_policy = "catch_up" =>
                    \A o \in due : o <= through => o \in Dispatched(d, due)
  <1> DEFINE d == Definition[k]
             due == Due(d, cursor, now)
             dispatch == Dispatched(d, due)
             through == EvaluatedThrough(d, due, now)
  <1>1. /\ d.misfire_policy \in Policies /\ d.max_catch_up \in Nat \ {0}
        /\ d.occurrences \in SUBSET Times
    BY DefinitionAssumption
  <1>2. due \in SUBSET Times /\ \A o \in due : cursor < o /\ o <= now
    BY <1>1 DEF Due
  <1>3. dispatch \subseteq due
    <2>1. First(due, d.max_catch_up) \subseteq due
      BY <1>1, <1>2, FirstIs
    <2> HIDE DEF due, d
    <2> QED
      BY <1>1, <2>1 DEF Dispatched, Last, Policies
  <1>4. CASE d.misfire_policy = "catch_up" /\ dispatch # due
    <2> HIDE DEF due, d
    <2>1. dispatch = First(due, d.max_catch_up)
      BY <1>4 DEF Dispatched
    <2>2. dispatch # {}
      BY <1>1, <1>2, <1>3, <1>4, <2>1, FirstIs
    <2>3. \A o \in dispatch, x \in due : x <= o => x \in dispatch
      BY <1>1, <1>2, <2>1, FirstIs
    <2> HIDE DEF dispatch
    <2>4. dispatch \in SUBSET Times
      BY <1>2, <1>3
    <2>5. through = CHOOSE o \in dispatch : \A x \in dispatch : x <= o
      BY <1>4, <2>2 DEF EvaluatedThrough, dispatch
    <2>6. \E o \in dispatch : \A x \in dispatch : x <= o
      BY <2>2, <2>4, MaxExists
    <2>7. through \in dispatch /\ \A x \in dispatch : x <= through
      BY <2>5, <2>6
    <2>8. /\ through \in Times /\ cursor < through /\ through <= now
          /\ \A o \in dispatch : o <= through
          /\ \A o \in due : o <= through => o \in dispatch
      BY <1>2, <1>3, <2>3, <2>7
    <2> QED
      BY <1>2, <1>3, <2>8 DEF dispatch, due, d
  <1>5. CASE ~(d.misfire_policy = "catch_up" /\ dispatch # due)
    <2>1. through = now
      BY <1>5 DEF EvaluatedThrough
    <2> HIDE DEF due, d, dispatch, through
    <2>2. /\ through \in Times /\ cursor < through /\ through <= now
          /\ \A o \in dispatch : o <= through
      BY <1>2, <1>3, <2>1 DEF Times
    <2>3. d.misfire_policy = "catch_up" => \A o \in due : o <= through => o \in dispatch
      BY <1>5
    <2> QED
      BY <1>2, <1>3, <2>2, <2>3 DEF dispatch, due, d, through
  <1> QED
    BY <1>4, <1>5

\* The audit event of an evaluation is well typed: nothing it counts is negative.
LEMMA EventTyped ==
    ASSUME NEW k \in Keys, NEW cursor \in Times, NEW now \in Times, cursor < now
    PROVE  /\ EvaluatedEvent(k, cursor, now) \in Event
           /\ EvaluatedEvent(k, cursor, now).through
                = EvaluatedThrough(Definition[k], Due(Definition[k], cursor, now), now)
  <1> DEFINE d == Definition[k]
             due == Due(d, cursor, now)
             dispatch == Dispatched(d, due)
             new == {o \in dispatch : [key |-> k, scheduled_for |-> o] \notin dispatches}
             left == Cardinality(due) - Cardinality(dispatch)
             through == EvaluatedThrough(d, due, now)
  <1>1. due \in SUBSET Times /\ dispatch \subseteq due /\ through \in Times
    BY EvaluationIs
  <1> HIDE DEF due, dispatch, through
  <1>2. dispatch \in SUBSET Times /\ new \in SUBSET Times /\ dispatch \ new \in SUBSET Times
    BY <1>1
  <1>3. /\ IsFiniteSet(due) /\ Cardinality(due) \in Nat /\ Cardinality(dispatch) \in Nat
        /\ Cardinality(new) \in Nat /\ Cardinality(dispatch \ new) \in Nat
    BY <1>1, <1>2, TimesFinite
  <1>4. Cardinality(dispatch) <= Cardinality(due)
    BY <1>1, <1>3, FS_Subset
  <1>5. left \in Nat
    BY <1>3, <1>4
  <1> HIDE DEF left, new
  <1>6. EvaluatedEvent(k, cursor, now) =
           [key |-> k, event_type |-> "schedule.evaluated", prior |-> cursor,
            through |-> through, total_due |-> Cardinality(due),
            dispatched |-> Cardinality(new), replayed |-> Cardinality(dispatch \ new),
            skipped |-> IF d.misfire_policy = "catch_up" THEN 0 ELSE left,
            deferred |-> IF d.misfire_policy = "catch_up" THEN left ELSE 0]
    BY DEF EvaluatedEvent, due, dispatch, through, left, new
  <1>7. EvaluatedEvent(k, cursor, now) \in Event
    BY <1>1, <1>3, <1>5, <1>6 DEF Event, EventTypes
  <1> QED
    BY <1>6, <1>7 DEF through, due

-----------------------------------------------------------------------------
\* The inductive invariant

\* A claimed row is as the poll read it, active and behind the worker's clock,
\* and no other poll holds it: FOR UPDATE SKIP LOCKED.
LocksHold ==
    \A p \in Pollers : poll[p] # None =>
        /\ ~poll[p].selected => \A k \in Keys : poll[p].record[k] = None
        /\ \A k \in Keys : poll[p].record[k] # None =>
              /\ rows[k] = poll[p].record[k]
              /\ rows[k].enabled /\ rows[k].cursor_at < poll[p].current
              /\ \A q \in Pollers : q # p /\ poll[q] # None => poll[q].record[k] = None

\* The rows a registration saw are still stored: rows are never deleted.
SeenStored ==
    \A r \in Registrars : registration[r] # None =>
        \A j \in registration[r].seen : rows[j] # None /\ j[1] = registration[r].key[1]

\* A schedule with a version has an active one that is not older.
ActiveExists ==
    \A k \in Stored : \E j \in Stored : j[1] = k[1] /\ k[2] <= j[2] /\ rows[j].enabled

CursorsForward == \A k \in Stored : rows[k].initial_cursor_at <= rows[k].cursor_at

ScheduleInv ==
    /\ TypeOK
    /\ LocksHold /\ SeenStored
    /\ NewestIsActive /\ ActiveExists
    /\ CursorsForward /\ NothingLost

\* Rows, dispatches and their properties are untouched by most steps.
RowsKept == NewestIsActive /\ ActiveExists /\ CursorsForward /\ NothingLost

LEMMA RowsUnchanged ==
    ASSUME RowsKept, UNCHANGED <<rows, dispatches>>
    PROVE  RowsKept'
  BY DEF RowsKept, NewestIsActive, ActiveExists, CursorsForward, NothingLost, Stored, InWindow

\* At the start nothing is stored.
LEMMA InitInv == Init => ScheduleInv
  <1> SUFFICES ASSUME Init PROVE ScheduleInv
    OBVIOUS
  <1>1. Stored = {} /\ dispatches = {}
    BY DEF Init, Stored
  <1>2. TypeOK
    BY TimesAssumption DEF Init, TypeOK, Times
  <1>3. LocksHold /\ SeenStored
    BY DEF Init, LocksHold, SeenStored
  <1>4. NewestIsActive /\ ActiveExists /\ CursorsForward /\ NothingLost
    BY <1>1 DEF NewestIsActive, ActiveExists, CursorsForward, NothingLost
  <1> QED
    BY <1>2, <1>3, <1>4 DEF ScheduleInv

\* A poll that ends without committing only gives its locks back.
LEMMA PollEnds ==
    ASSUME TypeOK, LocksHold, NEW p \in Pollers, poll' = [poll EXCEPT ![p] = None],
           UNCHANGED rows
    PROVE  LocksHold' /\ poll' \in [Pollers -> Poll \cup {None}]
  <1>1. poll' \in [Pollers -> Poll \cup {None}]
    BY DEF TypeOK
  <1>2. \A q \in Pollers : poll'[q] # None => q # p /\ poll'[q] = poll[q]
    BY DEF TypeOK
  <1> QED
    BY <1>1, <1>2 DEF LocksHold

LEMMA PollBeginKeeps ==
    ASSUME ScheduleInv, NEW p \in Pollers, NEW t \in Times, PollBegin(p, t)
    PROVE  ScheduleInv'
  <1> DEFINE new == [begin |-> clock, current |-> t, selected |-> FALSE,
                     record |-> [k \in Keys |-> None]]
  <1>1. new \in Poll
    BY DEF ScheduleInv, TypeOK, Poll
  <1>2. poll' = [poll EXCEPT ![p] = new] /\ UNCHANGED <<rows, dispatches, events, registration, clock, crashes>>
    BY DEF PollBegin
  <1>3. TypeOK'
    BY <1>1, <1>2 DEF ScheduleInv, TypeOK
  <1>4. \A q \in Pollers : poll'[q] = IF q = p THEN new ELSE poll[q]
    BY <1>2 DEF ScheduleInv, TypeOK
  <1>5. LocksHold'
    BY <1>2, <1>4 DEF ScheduleInv, LocksHold
  <1>6. SeenStored'
    BY <1>2 DEF ScheduleInv, SeenStored
  <1> QED
    BY <1>2, <1>3, <1>5, <1>6, RowsUnchanged DEF ScheduleInv, RowsKept

LEMMA PollSelectKeeps ==
    ASSUME ScheduleInv, NEW p \in Pollers, PollSelect(p)
    PROVE  ScheduleInv'
  <1> DEFINE due == {k \in Keys : IsDue(k, poll[p].current) /\ ~Locked(k)}
             first == {k \in due : Cardinality({j \in due : Before(j, k)}) < Limit}
             new == [begin |-> poll[p].begin, current |-> poll[p].current, selected |-> TRUE,
                     record |-> [k \in Keys |-> IF k \in first THEN rows[k] ELSE None]]
  <1>1. poll' = [poll EXCEPT ![p] = new] /\ UNCHANGED <<rows, dispatches, events, registration, clock, crashes>>
    BY DEF PollSelect, ScheduleInv, TypeOK
  <1>2. poll[p] \in Poll /\ rows \in [Keys -> Row \cup {None}]
    BY DEF PollSelect, ScheduleInv, TypeOK
  <1>3. \A k \in first : /\ k \in Keys /\ rows[k] # None /\ rows[k].enabled
                         /\ rows[k].cursor_at < poll[p].current /\ ~Locked(k)
    BY DEF IsDue
  <1> HIDE DEF first
  <1>4. new \in Poll
    BY <1>2 DEF Poll
  <1>5. TypeOK'
    BY <1>1, <1>4 DEF ScheduleInv, TypeOK
  <1>6. \A q \in Pollers : q # p => poll'[q] = poll[q]
    BY <1>1 DEF ScheduleInv, TypeOK
  <1>7. poll'[p] = new
    BY <1>1 DEF ScheduleInv, TypeOK
  <1>8. /\ poll'[p].selected /\ poll'[p].current = poll[p].current
         /\ \A k \in Keys : poll'[p].record[k] = IF k \in first THEN rows[k] ELSE None
    BY <1>7
  <1> HIDE DEF new
  <1>9. LocksHold'
    <2>1. ASSUME NEW q \in Pollers, poll'[q] # None, NEW k \in Keys, poll'[q].record[k] # None
          PROVE  /\ rows[k] = poll'[q].record[k]
                 /\ rows[k].enabled /\ rows[k].cursor_at < poll'[q].current
                 /\ \A u \in Pollers : u # q /\ poll'[u] # None => poll'[u].record[k] = None
      <3>1. CASE q = p
        <4>1. k \in first /\ poll'[q].record[k] = rows[k] /\ poll'[q].current = poll[p].current
          BY <1>8, <2>1, <3>1
        <4>2. \A u \in Pollers : poll[u] # None => poll[u].record[k] = None
          BY <1>3, <4>1 DEF Locked
        <4> QED
          BY <1>3, <1>6, <3>1, <4>1, <4>2
      <3>2. CASE q # p
        <4>1. poll'[q] = poll[q]
          BY <1>6, <3>2
        <4>2. Locked(k)
          BY <2>1, <4>1 DEF Locked
        <4>3. k \notin first
          BY <1>3, <4>2
        <4>4. poll'[p].record[k] = None
          BY <1>8, <4>3
        <4> QED
          <5>1. /\ rows[k] = poll[q].record[k]
                /\ rows[k].enabled /\ rows[k].cursor_at < poll[q].current
                /\ \A u \in Pollers : u # q /\ poll[u] # None => poll[u].record[k] = None
            BY <2>1, <4>1 DEF ScheduleInv, LocksHold
          <5> QED
            BY <1>6, <4>1, <4>4, <5>1
      <3> QED
        BY <3>1, <3>2
    <2>2. ASSUME NEW q \in Pollers, poll'[q] # None, ~poll'[q].selected, NEW k \in Keys
          PROVE  poll'[q].record[k] = None
      BY <1>6, <1>8, <2>2 DEF ScheduleInv, LocksHold
    <2> QED
      BY <1>1, <2>1, <2>2 DEF LocksHold
  <1>10. SeenStored'
    BY <1>1 DEF ScheduleInv, SeenStored
  <1> QED
    BY <1>1, <1>5, <1>9, <1>10, RowsUnchanged DEF ScheduleInv, RowsKept

LEMMA RowTyped ==
    ASSUME NEW i \in Times, NEW c \in Times, NEW e \in BOOLEAN, NEW v \in Nat \ {0}, NEW u \in Times
    PROVE  [initial_cursor_at |-> i, cursor_at |-> c, enabled |-> e,
            row_version |-> v, updated_at |-> u] \in Row
  BY DEF Row

\* What the commit of a poll writes, row by row.
Through(p, k) ==
    EvaluatedThrough(Definition[k], Due(Definition[k], rows[k].cursor_at, poll[p].current), poll[p].current)

ToDispatch(p, k) == Dispatched(Definition[k], Due(Definition[k], rows[k].cursor_at, poll[p].current))

LEMMA PollCommitWrites ==
    ASSUME ScheduleInv, NEW p \in Pollers, PollCommit(p)
    PROVE  /\ \A k \in Claimed(p) :
                 /\ rows[k] \in Row /\ rows[k].enabled
                 /\ rows'[k] \in Row /\ rows'[k].cursor_at = Through(p, k)
                 /\ rows'[k].initial_cursor_at = rows[k].initial_cursor_at
                 /\ rows'[k].enabled = rows[k].enabled
                 /\ Through(p, k) \in Times
                 /\ rows[k].cursor_at < Through(p, k) /\ Through(p, k) <= poll[p].current
           /\ \A k \in Keys \ Claimed(p) : rows'[k] = rows[k]
           /\ rows' \in [Keys -> Row \cup {None}]
           /\ events' \subseteq Event
           /\ \A d \in Dispatch : d \in dispatches' <=>
                 d \in dispatches \/ (d.key \in Claimed(p) /\ d.scheduled_for \in ToDispatch(p, d.key))
           /\ dispatches' \subseteq Dispatch
  <1> DEFINE cursor(k) == poll[p].record[k].cursor_at
             event(k) == EvaluatedEvent(k, cursor(k), poll[p].current)
  <1>1. poll[p] \in Poll /\ rows \in [Keys -> Row \cup {None}] /\ poll[p] # None
    BY ScheduleNoneAssumption DEF PollCommit, ScheduleInv, TypeOK
  <1>2. ASSUME NEW k \in Claimed(p)
        PROVE  /\ k \in Keys /\ rows[k] = poll[p].record[k] /\ rows[k] \in Row
               /\ rows[k].enabled /\ rows[k].cursor_at \in Times /\ poll[p].current \in Times
               /\ rows[k].cursor_at < poll[p].current /\ poll[p].begin \in Times
    <2>1. k \in Keys /\ poll[p].record[k] # None
      BY DEF Claimed
    <2>2. /\ rows[k] = poll[p].record[k]
          /\ rows[k].enabled /\ rows[k].cursor_at < poll[p].current
      BY <1>1, <2>1 DEF ScheduleInv, LocksHold
    <2>3. rows[k] \in Row
      BY <1>1, <2>1, <2>2
    <2> QED
      BY <1>1, <2>1, <2>2, <2>3 DEF Row, Poll
  <1>3. ASSUME NEW k \in Claimed(p)
        PROVE  /\ event(k) \in Event /\ event(k).through = Through(p, k)
               /\ Through(p, k) \in Times
               /\ rows[k].cursor_at < Through(p, k) /\ Through(p, k) <= poll[p].current
    BY <1>2, EventTyped, EvaluationIs DEF Through
  <1>4. rows' = [k \in Keys |->
                   IF k \in Claimed(p)
                   THEN [initial_cursor_at |-> rows[k].initial_cursor_at,
                         cursor_at |-> event(k).through,
                         enabled |-> rows[k].enabled,
                         row_version |-> rows[k].row_version + 1,
                         updated_at |-> poll[p].begin]
                   ELSE rows[k]]
    BY DEF PollCommit
  <1>5. /\ dispatches' = dispatches \cup
               {d \in Dispatch : /\ d.key \in Claimed(p)
                                 /\ d.scheduled_for \in Dispatched(Definition[d.key],
                                       Due(Definition[d.key], cursor(d.key), poll[p].current))}
        /\ events' = events \cup {event(k) : k \in Claimed(p)}
    BY DEF PollCommit
  <1> HIDE DEF event
  <1>6. \A k \in Claimed(p) :
           rows'[k] = [initial_cursor_at |-> rows[k].initial_cursor_at,
                       cursor_at |-> Through(p, k), enabled |-> rows[k].enabled,
                       row_version |-> rows[k].row_version + 1,
                       updated_at |-> poll[p].begin]
    BY <1>2, <1>3, <1>4
  <1>7. \A k \in Keys \ Claimed(p) : rows'[k] = rows[k]
    BY <1>4
  <1>8. ASSUME NEW k \in Claimed(p)
        PROVE  /\ rows'[k] \in Row /\ rows'[k].cursor_at = Through(p, k)
               /\ rows'[k].initial_cursor_at = rows[k].initial_cursor_at
               /\ rows'[k].enabled = rows[k].enabled
    <2>1. /\ rows[k].initial_cursor_at \in Times /\ rows[k].enabled \in BOOLEAN
          /\ rows[k].row_version + 1 \in Nat \ {0}
      BY <1>2 DEF Row
    <2>2. rows'[k] = [initial_cursor_at |-> rows[k].initial_cursor_at,
                      cursor_at |-> Through(p, k), enabled |-> rows[k].enabled,
                      row_version |-> rows[k].row_version + 1,
                      updated_at |-> poll[p].begin]
      BY <1>6
    <2>3. Through(p, k) \in Times /\ poll[p].begin \in Times
      BY <1>2, <1>3
    <2>4. rows'[k] \in Row
      BY <2>1, <2>2, <2>3, RowTyped
    <2> QED
      BY <2>2, <2>4
  <1>9. rows' \in [Keys -> Row \cup {None}]
    <2>1. \A k \in Keys : rows'[k] \in Row \cup {None}
      BY <1>1, <1>7, <1>8
    <2>2. DOMAIN rows' = Keys /\ rows' = [k \in Keys |-> rows'[k]]
      BY <1>4
    <2> QED
      BY <2>1, <2>2
  <1>10. events' \subseteq Event
    BY <1>3, <1>5 DEF ScheduleInv, TypeOK
  <1>11. \A d \in Dispatch : d \in dispatches' <=>
            d \in dispatches \/ (d.key \in Claimed(p) /\ d.scheduled_for \in ToDispatch(p, d.key))
    BY <1>2, <1>5 DEF ToDispatch
  <1>12. dispatches' \subseteq Dispatch
    BY <1>5 DEF ScheduleInv, TypeOK
  <1> QED
    BY <1>2, <1>3, <1>7, <1>8, <1>9, <1>10, <1>11, <1>12

\* Which rows are stored and active is not changed by a poll.
LEMMA PollCommitKeepsVersions ==
    ASSUME ScheduleInv, NEW p \in Pollers, PollCommit(p)
    PROVE  /\ Stored' = Stored
           /\ \A k \in Keys : rows'[k].enabled = rows[k].enabled
           /\ \A k \in Stored : rows'[k].initial_cursor_at = rows[k].initial_cursor_at
  <1>1. \A k \in Claimed(p) : /\ rows'[k] # None /\ rows[k] # None
                              /\ rows'[k].enabled = rows[k].enabled
                              /\ rows'[k].initial_cursor_at = rows[k].initial_cursor_at
    BY PollCommitWrites, ScheduleNoneAssumption
  <1>2. \A k \in Keys \ Claimed(p) : rows'[k] = rows[k]
    BY PollCommitWrites
  <1> QED
    BY <1>1, <1>2 DEF Stored

LEMMA PollCommitKeeps ==
    ASSUME ScheduleInv, NEW p \in Pollers, PollCommit(p)
    PROVE  ScheduleInv'
  <1>1. poll' = [poll EXCEPT ![p] = None] /\ UNCHANGED <<registration, clock, crashes>>
    BY DEF PollCommit
  <1>2. TypeOK'
    BY <1>1, PollCommitWrites DEF ScheduleInv, TypeOK
  <1>3. LocksHold'
    <2>1. \A q \in Pollers : poll'[q] # None => q # p /\ poll'[q] = poll[q]
      BY <1>1 DEF ScheduleInv, TypeOK
    <2>2. ASSUME NEW q \in Pollers, poll'[q] # None, NEW k \in Keys, poll'[q].record[k] # None
          PROVE  rows'[k] = rows[k]
      <3>1. q # p /\ poll[q] # None /\ poll[q].record[k] # None
        BY <2>1, <2>2
      <3>2. poll[p].record[k] = None
        BY <3>1 DEF ScheduleInv, LocksHold, PollCommit
      <3>3. k \notin Claimed(p)
        BY <3>2 DEF Claimed
      <3> QED
        BY <3>3, PollCommitWrites
    <2> QED
      BY <2>1, <2>2 DEF ScheduleInv, LocksHold
  <1>4. SeenStored'
    <2>1. \A r \in Registrars : registration[r] # None => registration[r].seen \subseteq Stored
      BY ScheduleNoneAssumption DEF ScheduleInv, TypeOK, Registration, SeenStored, Stored
    <2> QED
      BY <1>1, <2>1, PollCommitKeepsVersions DEF ScheduleInv, SeenStored, Stored
  <1>5. NewestIsActive' /\ ActiveExists'
    <2>1. Stored \subseteq Keys
      BY DEF Stored
    <2> QED
      BY <2>1, PollCommitKeepsVersions DEF ScheduleInv, NewestIsActive, ActiveExists
  <1>6. \A k \in Stored : /\ rows[k] \in Row /\ rows[k].cursor_at <= rows'[k].cursor_at
                          /\ rows'[k].cursor_at \in Times
    <2> SUFFICES ASSUME NEW k \in Stored
                 PROVE  /\ rows[k] \in Row /\ rows[k].cursor_at <= rows'[k].cursor_at
                        /\ rows'[k].cursor_at \in Times
      OBVIOUS
    <2>1. k \in Keys /\ rows[k] \in Row
      BY DEF Stored, ScheduleInv, TypeOK
    <2>2. rows[k].cursor_at \in Times
      BY <2>1 DEF Row
    <2>3. CASE k \in Claimed(p)
      BY <2>1, <2>2, <2>3, PollCommitWrites, TimesAssumption DEF Times
    <2>4. CASE k \notin Claimed(p)
      BY <2>1, <2>2, <2>4, PollCommitWrites, TimesAssumption DEF Times
    <2> QED
      BY <2>3, <2>4
  <1>7. CursorsForward'
    <2> SUFFICES ASSUME NEW k \in Stored PROVE rows'[k].initial_cursor_at <= rows'[k].cursor_at
      BY PollCommitKeepsVersions DEF CursorsForward
    <2>1. /\ rows[k].initial_cursor_at <= rows[k].cursor_at
          /\ rows[k].initial_cursor_at \in Times /\ rows[k].cursor_at \in Times
      BY <1>6 DEF ScheduleInv, CursorsForward, Row
    <2> QED
      BY <1>6, <2>1, PollCommitKeepsVersions, TimesAssumption DEF Times
  <1>8. NothingLost'
    <2>1. ASSUME NEW d \in dispatches'
          PROVE  /\ rows'[d.key] # None
                 /\ rows'[d.key].initial_cursor_at < d.scheduled_for
                 /\ d.scheduled_for <= rows'[d.key].cursor_at
                 /\ d.scheduled_for \in Definition[d.key].occurrences
      <3>1. d \in Dispatch
        BY PollCommitWrites
      <3>2. d.key \in Keys /\ d.scheduled_for \in Times
        BY <3>1 DEF Dispatch
      <3>3. CASE d \in dispatches
        <4>1. /\ d.key \in Stored /\ d.scheduled_for \in Definition[d.key].occurrences
              /\ rows[d.key].initial_cursor_at < d.scheduled_for
              /\ d.scheduled_for <= rows[d.key].cursor_at
          BY <3>2, <3>3 DEF ScheduleInv, NothingLost, InWindow, Stored
        <4>2. rows[d.key].cursor_at \in Times
          BY <1>6, <4>1 DEF Row
        <4>3. d.scheduled_for <= rows'[d.key].cursor_at
          BY <1>6, <3>2, <4>1, <4>2, TimesAssumption DEF Times
        <4>4. rows'[d.key] # None
          BY <4>1, PollCommitKeepsVersions DEF Stored
        <4> QED
          BY <4>1, <4>3, <4>4, PollCommitKeepsVersions
      <3>4. CASE d \notin dispatches
        <4> DEFINE k == d.key
                   due == Due(Definition[k], rows[k].cursor_at, poll[p].current)
        <4>1. k \in Claimed(p) /\ d.scheduled_for \in ToDispatch(p, k)
          BY <3>1, <3>4, PollCommitWrites
        <4>2. /\ k \in Stored /\ rows[k].cursor_at \in Times /\ poll[p].current \in Times
              /\ rows[k].initial_cursor_at \in Times
              /\ rows[k].cursor_at < poll[p].current
              /\ rows'[k].cursor_at = Through(p, k)
          <5>0. poll[p] \in Poll
            BY DEF PollCommit, ScheduleInv, TypeOK
          <5>1. rows[k] \in Row /\ poll[p] \in Poll
            BY <4>1, <5>0, PollCommitWrites
          <5>2. rows[k].cursor_at \in Times /\ rows[k].initial_cursor_at \in Times /\ poll[p].current \in Times
            BY <5>1 DEF Row, Poll
          <5>3. /\ rows[k].cursor_at < Through(p, k) /\ Through(p, k) <= poll[p].current
                /\ Through(p, k) \in Times /\ rows'[k].cursor_at = Through(p, k)
            BY <4>1, PollCommitWrites
          <5>4. k \in Stored
            BY <3>2, <5>1, ScheduleNoneAssumption DEF Stored
          <5> QED
            BY <5>2, <5>3, <5>4, TimesAssumption DEF Times
        <4>3. d.scheduled_for \in due /\ d.scheduled_for <= Through(p, k)
          BY <3>2, <4>1, <4>2, EvaluationIs DEF ToDispatch, Through
        <4>4. /\ d.scheduled_for \in Definition[k].occurrences
              /\ rows[k].cursor_at < d.scheduled_for
          BY <4>3 DEF Due
        <4>5. rows[k].initial_cursor_at <= rows[k].cursor_at
          BY <4>2 DEF ScheduleInv, CursorsForward
        <4>6. rows[k].initial_cursor_at < d.scheduled_for
          BY <3>2, <4>2, <4>4, <4>5, TimesAssumption DEF Times
        <4>7. rows'[k] # None /\ rows'[k].initial_cursor_at = rows[k].initial_cursor_at
          BY <4>2, PollCommitKeepsVersions DEF Stored
        <4> QED
          BY <4>2, <4>3, <4>4, <4>6, <4>7
      <3> QED
        BY <3>3, <3>4
    <2>2. ASSUME NEW k \in Stored, Definition[k].misfire_policy = "catch_up",
                 NEW o \in Definition[k].occurrences,
                 rows'[k].initial_cursor_at < o, o <= rows'[k].cursor_at
          PROVE  [key |-> k, scheduled_for |-> o] \in dispatches'
      <3> DEFINE d == [key |-> k, scheduled_for |-> o]
      <3>1. k \in Keys /\ o \in Times
        BY DefinitionAssumption DEF Stored
      <3>2. d \in Dispatch
        BY <3>1 DEF Dispatch
      <3>3. rows[k] \in Row /\ rows[k].cursor_at \in Times
        BY <1>6 DEF Row
      <3>4. CASE o <= rows[k].cursor_at
        <4>1. InWindow(k, o)
          BY <2>2, <3>4, PollCommitKeepsVersions DEF InWindow
        <4>2. d \in dispatches
          BY <2>2, <4>1 DEF ScheduleInv, NothingLost
        <4> QED
          BY <3>2, <4>2, PollCommitWrites
      <3>5. CASE ~(o <= rows[k].cursor_at)
        <4>1. k \in Claimed(p)
          BY <2>2, <3>1, <3>5, PollCommitWrites
        <4>2. poll[p].current \in Times
          BY DEF PollCommit, ScheduleInv, TypeOK, Poll
        <4>3. /\ rows[k].cursor_at < Through(p, k) /\ Through(p, k) <= poll[p].current
              /\ Through(p, k) \in Times /\ rows'[k].cursor_at = Through(p, k)
          BY <4>1, PollCommitWrites
        <4>4. /\ o <= Through(p, k) /\ rows[k].cursor_at < o /\ o <= poll[p].current
              /\ rows[k].cursor_at < poll[p].current
          BY <2>2, <3>1, <3>3, <3>5, <4>2, <4>3, TimesAssumption DEF Times
        <4>5. o \in Due(Definition[k], rows[k].cursor_at, poll[p].current)
          BY <4>4 DEF Due
        <4>6. o \in ToDispatch(p, k)
          BY <2>2, <3>1, <3>3, <4>2, <4>4, <4>5, EvaluationIs DEF ToDispatch, Through
        <4> QED
          BY <3>2, <4>1, <4>6, PollCommitWrites
      <3> QED
        BY <3>4, <3>5
    <2>3. Stored' = Stored
      BY PollCommitKeepsVersions
    <2> QED
      BY <2>1, <2>2, <2>3 DEF NothingLost, InWindow
  <1> QED
    BY <1>2, <1>3, <1>4, <1>5, <1>7, <1>8 DEF ScheduleInv

-----------------------------------------------------------------------------
\* register

LEMMA RegisterReadKeeps ==
    ASSUME ScheduleInv, NEW r \in Registrars, NEW k \in Keys, NEW t \in Cursors,
           RegisterRead(r, k, t)
    PROVE  ScheduleInv'
  <1> DEFINE new == [key |-> k, cursor_at |-> t, begin |-> clock,
                     seen |-> {j \in Stored : j[1] = k[1]}]
  <1>1. /\ registration' = [registration EXCEPT ![r] = new]
        /\ UNCHANGED <<rows, dispatches, events, poll, clock, crashes>>
    BY DEF RegisterRead
  <1>2. new \in Registration
    BY TimesAssumption DEF ScheduleInv, TypeOK, Registration, Stored
  <1>3. TypeOK'
    BY <1>1, <1>2 DEF ScheduleInv, TypeOK
  <1>4. LocksHold'
    BY <1>1 DEF ScheduleInv, LocksHold
  <1>5. \A q \in Registrars : registration'[q] = IF q = r THEN new ELSE registration[q]
    BY <1>1 DEF ScheduleInv, TypeOK
  <1>6. SeenStored'
    BY <1>1, <1>5 DEF ScheduleInv, SeenStored, Stored
  <1> QED
    BY <1>1, <1>3, <1>4, <1>6, RowsUnchanged DEF ScheduleInv, RowsKept

\* What the commit of a registration writes: the new version becomes active, the
\* active versions it saw are disabled, and these are all active ones.
LEMMA RegisterCommitWrites ==
    ASSUME ScheduleInv, NEW r \in Registrars, RegisterCommit(r)
    PROVE  LET key == registration[r].key
           IN /\ key \in Keys /\ rows[key] = None
              /\ rows'[key] \in Row /\ rows'[key].enabled
              /\ rows'[key].initial_cursor_at = rows'[key].cursor_at
              /\ \A k \in PriorActive(r) :
                    /\ k \in Stored /\ k[1] = key[1] /\ k[2] < key[2] /\ ~Locked(k)
                    /\ rows[k].enabled /\ rows'[k] \in Row /\ ~rows'[k].enabled
                    /\ rows'[k].initial_cursor_at = rows[k].initial_cursor_at
                    /\ rows'[k].cursor_at = rows[k].cursor_at
              /\ \A k \in Keys \ PriorActive(r) : k # key => rows'[k] = rows[k]
              /\ \A k \in Stored : k[1] = key[1] /\ rows[k].enabled => k \in PriorActive(r)
              /\ rows' \in [Keys -> Row \cup {None}]
              /\ events' \subseteq Event
              /\ Stored' = Stored \cup {key}
  <1> DEFINE new == registration[r]
             key == new.key
  <1>1. new \in Registration /\ rows \in [Keys -> Row \cup {None}] /\ events \subseteq Event
    BY DEF RegisterCommit, ScheduleInv, TypeOK
  <1>2. key \in Keys /\ new.cursor_at \in Times /\ new.begin \in Times /\ new.seen \subseteq Keys
    BY <1>1 DEF Registration
  <1>3. rows[key] = None /\ \A k \in Stored : k[1] = key[1] /\ rows[k].enabled => k \in PriorActive(r)
    BY DEF RegisterCommit, Supersedes, Insertable
  <1>4. rows' = [k \in Keys |->
                   IF k = new.key
                   THEN [initial_cursor_at |-> new.cursor_at, cursor_at |-> new.cursor_at,
                         enabled |-> TRUE, row_version |-> 1, updated_at |-> new.begin]
                   ELSE IF k \in PriorActive(r)
                   THEN [initial_cursor_at |-> rows[k].initial_cursor_at,
                         cursor_at |-> rows[k].cursor_at, enabled |-> FALSE,
                         row_version |-> rows[k].row_version + 1, updated_at |-> new.begin]
                   ELSE rows[k]]
    BY DEF RegisterCommit
  <1>5. events' = events
                \cup {NoCounts(j, "schedule.superseded", rows[j].cursor_at) : j \in PriorActive(r)}
                \cup {NoCounts(new.key, "schedule.registered", new.cursor_at)}
    BY DEF RegisterCommit
  <1>6. ASSUME NEW k \in PriorActive(r)
        PROVE  /\ k \in Stored /\ k[1] = key[1] /\ k[2] < key[2] /\ ~Locked(k)
               /\ rows[k].enabled /\ rows[k] \in Row /\ k # key /\ k \in Keys
               /\ rows[k].cursor_at \in Times
    <2>1. k \in new.seen /\ rows[k].enabled
      BY DEF PriorActive
    <2>2. rows[k] # None /\ k[1] = key[1]
      BY <2>1 DEF ScheduleInv, SeenStored, RegisterCommit
    <2>3. k[2] < key[2] /\ ~Locked(k)
      BY <2>1 DEF RegisterCommit, HasLocks, Supersedes
    <2>4. k \in Keys /\ rows[k] \in Row /\ k # key
      BY <1>1, <1>2, <1>3, <2>1, <2>2
    <2> QED
      BY <2>1, <2>2, <2>3, <2>4 DEF Stored, Row
  <1>7. /\ rows'[key] \in Row /\ rows'[key].enabled
        /\ rows'[key].initial_cursor_at = rows'[key].cursor_at
    <2>1. rows'[key] = [initial_cursor_at |-> new.cursor_at, cursor_at |-> new.cursor_at,
                        enabled |-> TRUE, row_version |-> 1, updated_at |-> new.begin]
      BY <1>2, <1>4
    <2>2. rows'[key] \in Row
      BY <1>2, <2>1 DEF Row
    <2> QED
      BY <2>1, <2>2
  <1>8. ASSUME NEW k \in PriorActive(r)
        PROVE  /\ rows'[k] \in Row /\ ~rows'[k].enabled
               /\ rows'[k].initial_cursor_at = rows[k].initial_cursor_at
               /\ rows'[k].cursor_at = rows[k].cursor_at
    <2>1. /\ rows[k].initial_cursor_at \in Times /\ rows[k].cursor_at \in Times
          /\ rows[k].row_version + 1 \in Nat \ {0}
      BY <1>6 DEF Row
    <2>2. rows'[k] = [initial_cursor_at |-> rows[k].initial_cursor_at,
                      cursor_at |-> rows[k].cursor_at, enabled |-> FALSE,
                      row_version |-> rows[k].row_version + 1, updated_at |-> new.begin]
      BY <1>4, <1>6
    <2>3. rows'[k] \in Row
      BY <1>2, <2>1, <2>2, RowTyped
    <2> QED
      BY <2>2, <2>3
  <1>9. \A k \in Keys \ PriorActive(r) : k # key => rows'[k] = rows[k]
    BY <1>4
  <1>10. rows' \in [Keys -> Row \cup {None}]
    <2>1. \A k \in Keys : rows'[k] \in Row \cup {None}
      BY <1>1, <1>7, <1>8, <1>9
    <2>2. DOMAIN rows' = Keys /\ rows' = [k \in Keys |-> rows'[k]]
      BY <1>4
    <2> QED
      BY <2>1, <2>2
  <1>11. events' \subseteq Event
    <2>1. \A j \in Keys, t \in EventTypes, c \in Times : NoCounts(j, t, c) \in Event
      BY DEF NoCounts, Event
    <2> QED
      BY <1>1, <1>2, <1>5, <1>6, <2>1 DEF EventTypes
  <1>12. Stored' = Stored \cup {key}
    BY <1>2, <1>6, <1>7, <1>8, <1>9, ScheduleNoneAssumption DEF Stored
  <1> QED
    BY <1>2, <1>3, <1>6, <1>7, <1>8, <1>9, <1>10, <1>11, <1>12

LEMMA RegisterCommitKeeps ==
    ASSUME ScheduleInv, NEW r \in Registrars, RegisterCommit(r)
    PROVE  ScheduleInv'
  <1> DEFINE key == registration[r].key
  <1>1. /\ registration' = [registration EXCEPT ![r] = None]
        /\ UNCHANGED <<dispatches, poll, clock, crashes>>
    BY DEF RegisterCommit
  <1>2. TypeOK'
    BY <1>1, RegisterCommitWrites DEF ScheduleInv, TypeOK
  <1>3. LocksHold'
    <2>1. \A q \in Pollers, k \in Keys :
             poll[q] # None /\ poll[q].record[k] # None => rows'[k] = rows[k]
      <3> SUFFICES ASSUME NEW q \in Pollers, NEW k \in Keys,
                          poll[q] # None, poll[q].record[k] # None
                   PROVE  rows'[k] = rows[k]
        OBVIOUS
      <3>1. Locked(k)
        BY DEF Locked
      <3>2. rows[k] = poll[q].record[k]
        BY DEF ScheduleInv, LocksHold
      <3> QED
        BY <3>1, <3>2, RegisterCommitWrites
    <2> QED
      BY <1>1, <2>1 DEF ScheduleInv, LocksHold
  <1>4. SeenStored'
    <2>1. \A q \in Registrars : registration'[q] # None => registration'[q] = registration[q]
      BY <1>1 DEF ScheduleInv, TypeOK
    <2>2. \A q \in Registrars : registration[q] # None => registration[q].seen \subseteq Stored
      BY ScheduleNoneAssumption DEF ScheduleInv, TypeOK, Registration, SeenStored, Stored
    <2>3. \A k \in Stored : rows'[k] # None
      BY RegisterCommitWrites DEF Stored
    <2> QED
      BY <2>1, <2>2, <2>3 DEF ScheduleInv, SeenStored
  <1>5. \A k \in Stored : k[1] = key[1] => k[2] < key[2]
    <2> SUFFICES ASSUME NEW k \in Stored, k[1] = key[1] PROVE k[2] < key[2]
      OBVIOUS
    <2>1. PICK j \in Stored : j[1] = k[1] /\ k[2] <= j[2] /\ rows[j].enabled
      BY DEF ScheduleInv, ActiveExists
    <2>2. j[2] < key[2]
      BY <2>1, RegisterCommitWrites
    <2>3. k[2] \in Nat /\ j[2] \in Nat /\ key[2] \in Nat
      BY RegisterCommitWrites, SchedulesAssumption DEF Stored, Keys
    <2> QED
      BY <2>1, <2>2, <2>3
  <1>6. /\ Stored' = Stored \cup {key} /\ key \in Keys /\ Stored \subseteq Keys /\ key \notin Stored
        /\ rows'[key].enabled /\ key[2] \in Nat
    BY RegisterCommitWrites, SchedulesAssumption DEF Stored, Keys
  <1>7. \A k \in Stored : k[1] = key[1] => ~rows'[k].enabled
    BY <1>6, RegisterCommitWrites
  <1>8. \A k \in Stored : k[1] # key[1] => rows'[k] = rows[k]
    BY <1>6, RegisterCommitWrites
  <1>9. \A k \in Stored : k[2] \in Nat
    BY <1>6, SchedulesAssumption DEF Keys
  <1>10. NewestIsActive'
    <2> SUFFICES ASSUME NEW k \in Stored \cup {key}
                 PROVE  rows'[k].enabled <=> \A j \in Stored \cup {key} : j[1] = k[1] => j[2] <= k[2]
      BY <1>6 DEF NewestIsActive
    <2>1. CASE k = key
      BY <1>5, <1>6, <1>9, <2>1
    <2>2. CASE k # key /\ k[1] = key[1]
      BY <1>5, <1>6, <1>7, <1>9, <2>2
    <2>3. CASE k # key /\ k[1] # key[1]
      BY <1>8, <2>3 DEF ScheduleInv, NewestIsActive
    <2> QED
      BY <2>1, <2>2, <2>3
  <1>11. ActiveExists'
    <2> SUFFICES ASSUME NEW k \in Stored \cup {key}
                 PROVE  \E j \in Stored \cup {key} : j[1] = k[1] /\ k[2] <= j[2] /\ rows'[j].enabled
      BY <1>6 DEF ActiveExists
    <2>1. CASE k = key
      BY <1>6, <2>1
    <2>2. CASE k # key /\ k[1] = key[1]
      BY <1>5, <1>6, <1>9, <2>2
    <2>3. CASE k # key /\ k[1] # key[1]
      BY <1>8, <2>3 DEF ScheduleInv, ActiveExists
    <2> QED
      BY <2>1, <2>2, <2>3
  <1>12. \A k \in Stored : /\ rows'[k].initial_cursor_at = rows[k].initial_cursor_at
                           /\ rows'[k].cursor_at = rows[k].cursor_at
    BY <1>6, RegisterCommitWrites
  <1>13. rows'[key].initial_cursor_at = rows'[key].cursor_at /\ rows'[key].cursor_at \in Times
    BY RegisterCommitWrites DEF Row
  <1>14. CursorsForward'
    BY <1>6, <1>12, <1>13, TimesAssumption DEF ScheduleInv, CursorsForward, Times
  <1>15. NothingLost'
    <2>1. \A d \in dispatches : d.key \in Stored
      BY DEF ScheduleInv, NothingLost, TypeOK, Dispatch, Stored
    <2>2. ASSUME NEW d \in dispatches
          PROVE  /\ rows'[d.key] # None /\ d.scheduled_for \in Definition[d.key].occurrences
                 /\ rows'[d.key].initial_cursor_at < d.scheduled_for
                 /\ d.scheduled_for <= rows'[d.key].cursor_at
      BY <1>12, <2>1, RegisterCommitWrites DEF ScheduleInv, NothingLost, InWindow, Stored
    <2>3. ASSUME NEW k \in Stored \cup {key}, Definition[k].misfire_policy = "catch_up",
                 NEW o \in Definition[k].occurrences,
                 rows'[k].initial_cursor_at < o, o <= rows'[k].cursor_at
          PROVE  [key |-> k, scheduled_for |-> o] \in dispatches
      <3>1. k # key
        <4>1. o \in Times
          BY <1>6, DefinitionAssumption
        <4> QED
          BY <1>13, <2>3, <4>1, TimesAssumption DEF Times
      <3>2. InWindow(k, o)
        BY <1>12, <2>3, <3>1 DEF InWindow
      <3> QED
        BY <2>3, <3>1, <3>2 DEF ScheduleInv, NothingLost
    <2> QED
      BY <1>1, <1>6, <2>2, <2>3 DEF NothingLost, InWindow
  <1> QED
    BY <1>2, <1>3, <1>4, <1>10, <1>11, <1>14, <1>15 DEF ScheduleInv

-----------------------------------------------------------------------------
\* Every step keeps the invariant.
LEMMA StepInv == ScheduleInv /\ [Next]_vars => ScheduleInv'
  <1> SUFFICES ASSUME ScheduleInv, [Next]_vars PROVE ScheduleInv'
    OBVIOUS
  <1>1. CASE Tick
    <2>1. clock' \in Times /\ UNCHANGED <<rows, dispatches, events, poll, registration, crashes>>
      BY <1>1, TimesAssumption DEF Tick, ScheduleInv, TypeOK, Times
    <2>2. TypeOK'
      BY <2>1 DEF ScheduleInv, TypeOK
    <2>3. LocksHold' /\ SeenStored'
      BY <2>1 DEF ScheduleInv, LocksHold, SeenStored
    <2> QED
      BY <2>1, <2>2, <2>3, RowsUnchanged DEF ScheduleInv, RowsKept
  <1>2. CASE \E p \in Pollers, t \in Times : PollBegin(p, t)
    BY <1>2, PollBeginKeeps
  <1>3. CASE \E p \in Pollers : PollSelect(p)
    BY <1>3, PollSelectKeeps
  <1>4. CASE \E p \in Pollers : PollCommit(p)
    BY <1>4, PollCommitKeeps
  <1>5. CASE \E p \in Pollers : PollRefused(p) \/ PollCrash(p)
    <2>1. PICK p \in Pollers : PollRefused(p) \/ PollCrash(p)
      BY <1>5
    <2>2. /\ poll' = [poll EXCEPT ![p] = None]
          /\ UNCHANGED <<rows, dispatches, events, registration, clock>>
          /\ crashes' \in 0 .. CrashBound
      BY <2>1, TimesAssumption DEF PollRefused, PollCrash, ScheduleInv, TypeOK
    <2>3. LocksHold' /\ poll' \in [Pollers -> Poll \cup {None}]
      BY <2>2, PollEnds DEF ScheduleInv
    <2>4. TypeOK'
      BY <2>2, <2>3 DEF ScheduleInv, TypeOK
    <2>5. SeenStored'
      BY <2>2 DEF ScheduleInv, SeenStored
    <2> QED
      BY <2>2, <2>3, <2>4, <2>5, RowsUnchanged DEF ScheduleInv, RowsKept
  <1>6. CASE \E r \in Registrars, k \in Keys, t \in Cursors : RegisterRead(r, k, t)
    BY <1>6, RegisterReadKeeps
  <1>7. CASE \E r \in Registrars : RegisterCommit(r)
    BY <1>7, RegisterCommitKeeps
  <1>8. CASE \E r \in Registrars : RegisterRefused(r)
    <2>1. PICK r \in Registrars : RegisterRefused(r)
      BY <1>8
    <2>2. /\ registration' = [registration EXCEPT ![r] = None]
          /\ UNCHANGED <<rows, dispatches, events, poll, clock, crashes>>
      BY <2>1 DEF RegisterRefused
    <2>3. TypeOK'
      BY <2>2 DEF ScheduleInv, TypeOK
    <2>4. LocksHold' /\ SeenStored'
      BY <2>2 DEF ScheduleInv, TypeOK, LocksHold, SeenStored
    <2> QED
      BY <2>2, <2>3, <2>4, RowsUnchanged DEF ScheduleInv, RowsKept
  <1>9. CASE UNCHANGED vars
    <2>1. TypeOK' /\ LocksHold' /\ SeenStored'
      BY <1>9 DEF vars, ScheduleInv, TypeOK, LocksHold, SeenStored
    <2> QED
      BY <1>9, <2>1, RowsUnchanged DEF vars, ScheduleInv, RowsKept
  <1> QED
    BY <1>1, <1>2, <1>3, <1>4, <1>5, <1>6, <1>7, <1>8, <1>9 DEF Next, PollStep, RegisterStep

LEMMA ScheduleInvariant == Spec => []ScheduleInv
  BY InitInv, StepInv, PTL DEF Spec

\* The schedule, dispatch and event tables and every open transaction keep their
\* types, whatever the workers and the clients of register do; in particular
\* every count of an audit event is a natural number.
THEOREM ScheduleTypes == Spec => []TypeOK
  <1>1. ScheduleInv => TypeOK
    BY DEF ScheduleInv
  <1> QED
    BY <1>1, ScheduleInvariant, PTL

\* Exactly the newest stored version of a schedule is active, although register
\* reads the versions with a snapshot that other registrations outdate.
THEOREM OneActiveVersion == Spec => []NewestIsActive
  <1>1. ScheduleInv => NewestIsActive
    BY DEF ScheduleInv
  <1> QED
    BY <1>1, ScheduleInvariant, PTL

\* process_due never moves a cursor over a due occurrence of a catch-up schedule
\* without dispatching it, and dispatches nothing the cursor has not passed.
THEOREM NoOccurrenceLost == Spec => []NothingLost
  <1>1. ScheduleInv => NothingLost
    BY DEF ScheduleInv
  <1> QED
    BY <1>1, ScheduleInvariant, PTL

\* Once register has stored a newer version, no poll moves the older version's
\* cursor or dispatches one of its occurrences.
THEOREM SupersededFrozen == Spec => SupersededIsFrozen
  <1> DEFINE Frozen ==
        \A j, k \in Stored : (j[1] = k[1] /\ j[2] < k[2]) =>
          /\ rows'[j] = rows[j]
          /\ {d \in dispatches' : d.key = j} = {d \in dispatches : d.key = j}
  <1>1. ScheduleInv /\ [Next]_vars => [Frozen]_vars
    <2> SUFFICES ASSUME ScheduleInv, [Next]_vars,
                        NEW j \in Stored, NEW k \in Stored, j[1] = k[1], j[2] < k[2]
                 PROVE  /\ rows'[j] = rows[j]
                        /\ {d \in dispatches' : d.key = j} = {d \in dispatches : d.key = j}
      BY DEF Frozen
    <2>1. j \in Keys /\ ~rows[j].enabled
      <3>1. j \in Keys /\ j[2] \in Nat /\ k[2] \in Nat
        BY SchedulesAssumption DEF Stored, Keys
      <3> QED
        BY <3>1 DEF ScheduleInv, NewestIsActive
    <2>2. CASE \E p \in Pollers : PollCommit(p)
      <3>1. PICK p \in Pollers : PollCommit(p)
        BY <2>2
      <3>2. j \notin Claimed(p)
        BY <2>1, <3>1, PollCommitWrites
      <3>3. dispatches \subseteq Dispatch /\ dispatches' \subseteq Dispatch
        BY <3>1, PollCommitWrites DEF ScheduleInv, TypeOK
      <3>4. \A d \in Dispatch : d.key = j => (d \in dispatches' <=> d \in dispatches)
        BY <3>1, <3>2, PollCommitWrites
      <3>5. rows'[j] = rows[j]
        BY <2>1, <3>1, <3>2, PollCommitWrites
      <3> QED
        BY <3>3, <3>4, <3>5
    <2>3. CASE \E r \in Registrars : RegisterCommit(r)
      <3>1. PICK r \in Registrars : RegisterCommit(r)
        BY <2>3
      <3>2. j # registration[r].key /\ j \notin PriorActive(r)
        BY <2>1, <3>1, RegisterCommitWrites DEF Stored
      <3>3. rows'[j] = rows[j]
        BY <2>1, <3>1, <3>2, RegisterCommitWrites
      <3>4. dispatches' = dispatches
        BY <3>1 DEF RegisterCommit
      <3> QED
        BY <3>3, <3>4
    <2>4. CASE UNCHANGED <<rows, dispatches>>
      BY <2>4
    <2> QED
      BY <2>2, <2>3, <2>4 DEF Next, PollStep, RegisterStep, Tick, PollBegin, PollSelect,
         PollRefused, PollCrash, RegisterRead, RegisterRefused, vars
  <1> QED
    BY <1>1, ScheduleInvariant, PTL DEF Spec, SupersededIsFrozen
-----------------------------------------------------------------------------
\* The audit events

\* An evaluation that meets no occurrence twice counts every one that was due once.
LEMMA EvaluationAccounts ==
    ASSUME NEW k \in Keys, NEW cursor \in Times, NEW now \in Times, cursor < now,
           \A o \in Dispatched(Definition[k], Due(Definition[k], cursor, now)) :
               [key |-> k, scheduled_for |-> o] \notin dispatches
    PROVE  LET e == EvaluatedEvent(k, cursor, now)
               due == Due(Definition[k], cursor, now)
           IN /\ e.key = k /\ e.event_type = "schedule.evaluated"
              /\ e.prior = cursor /\ e.through = EvaluatedThrough(Definition[k], due, now)
              /\ e.replayed = 0
              /\ e.dispatched = Cardinality(Dispatched(Definition[k], due))
              /\ e.total_due = e.dispatched + e.skipped + e.deferred
  <1> DEFINE d == Definition[k]
             due == Due(d, cursor, now)
             dispatch == Dispatched(d, due)
             new == {o \in dispatch : [key |-> k, scheduled_for |-> o] \notin dispatches}
             left == Cardinality(due) - Cardinality(dispatch)
  <1>1. due \in SUBSET Times /\ dispatch \subseteq due
    BY EvaluationIs
  <1>2. new = dispatch /\ dispatch \ new = {}
    OBVIOUS
  <1> HIDE DEF due, dispatch
  <1>3. dispatch \in SUBSET Times
    BY <1>1
  <1>4. /\ Cardinality(due) \in Nat /\ Cardinality(dispatch) \in Nat
        /\ Cardinality(dispatch \ new) = 0 /\ Cardinality(new) = Cardinality(dispatch)
    BY <1>1, <1>2, <1>3, TimesFinite, FS_EmptySet
  <1>5. EvaluatedEvent(k, cursor, now) =
           [key |-> k, event_type |-> "schedule.evaluated", prior |-> cursor,
            through |-> EvaluatedThrough(d, due, now), total_due |-> Cardinality(due),
            dispatched |-> Cardinality(new), replayed |-> Cardinality(dispatch \ new),
            skipped |-> IF d.misfire_policy = "catch_up" THEN 0 ELSE left,
            deferred |-> IF d.misfire_policy = "catch_up" THEN left ELSE 0]
    BY DEF EvaluatedEvent, due, dispatch
  <1> HIDE DEF new
  <1>6. LET e == EvaluatedEvent(k, cursor, now)
        IN /\ e.key = k /\ e.event_type = "schedule.evaluated"
           /\ e.prior = cursor /\ e.through = EvaluatedThrough(d, due, now)
           /\ e.replayed = 0 /\ e.dispatched = Cardinality(dispatch)
           /\ e.total_due = Cardinality(due)
           /\ e.skipped + e.deferred = left
    <2>1. left \in Int
      BY <1>4
    <2> HIDE DEF left
    <2> QED
      BY <1>4, <1>5, <2>1
  <1>7. LET e == EvaluatedEvent(k, cursor, now)
        IN /\ e.skipped \in Int /\ e.deferred \in Int
    BY <1>4, <1>5
  <1>8. LET e == EvaluatedEvent(k, cursor, now)
        IN e.total_due = e.dispatched + e.skipped + e.deferred
    BY <1>4, <1>6, <1>7
  <1> QED
    BY <1>6, <1>8 DEF due, dispatch

\* The occurrences of k that were dispatched in a window.
DispatchedBetween(k, from, to) ==
    {o \in Times : from < o /\ o <= to /\ [key |-> k, scheduled_for |-> o] \in dispatches}

\* The evidence of one version.
Tiles(k) ==
    /\ Evaluations(k) # {} => rows[k] # None
    /\ rows[k] # None =>
          \/ rows[k].cursor_at = rows[k].initial_cursor_at
          \/ \E e \in Evaluations(k) : e.through = rows[k].cursor_at
    /\ \A e \in Evaluations(k) :
          /\ e.prior < e.through /\ e.through <= rows[k].cursor_at
          /\ \/ e.prior = rows[k].initial_cursor_at
             \/ \E f \in Evaluations(k) : f.through = e.prior
          /\ e.replayed = 0
          /\ e.total_due = e.dispatched + e.skipped + e.deferred
          /\ e.dispatched = Cardinality(DispatchedBetween(k, e.prior, e.through))
          /\ \A f \in Evaluations(k) : f = e \/ f.through <= e.prior \/ e.through <= f.prior

\* The invariant is the conjunction of these.
LEMMA TilesIs == EvidenceTiles <=> \A k \in Keys : Tiles(k)
  BY DEF EvidenceTiles, Tiles, DispatchedBetween

\* A version that a step does not evaluate keeps its evidence.
LEMMA TilesKept ==
    ASSUME NEW k \in Keys, Tiles(k), Evaluations(k)' = Evaluations(k),
           rows[k] # None <=> rows'[k] # None,
           rows[k] # None => /\ rows'[k].cursor_at = rows[k].cursor_at
                             /\ rows'[k].initial_cursor_at = rows[k].initial_cursor_at,
           \A o \in Times : [key |-> k, scheduled_for |-> o] \in dispatches' <=>
                            [key |-> k, scheduled_for |-> o] \in dispatches
    PROVE  Tiles(k)'
  <1>1. \A from, to : DispatchedBetween(k, from, to)' = DispatchedBetween(k, from, to)
    BY DEF DispatchedBetween
  <1>2. PICK E : E = Evaluations(k)
    OBVIOUS
  <1>3. Evaluations(k)' = E
    BY <1>2
  <1> QED
    BY <1>1, <1>2, <1>3 DEF Tiles

\* The events of a poll: one for each claimed row, from the cursor it read under lock.
LEMMA PollCommitEvents ==
    ASSUME ScheduleInv, NEW p \in Pollers, PollCommit(p)
    PROVE  /\ \A k \in Keys \ Claimed(p) : Evaluations(k)' = Evaluations(k)
           /\ \A k \in Claimed(p) :
                 /\ k \in Keys /\ rows[k].cursor_at \in Times /\ poll[p].current \in Times
                 /\ rows[k].cursor_at < poll[p].current
                 /\ Evaluations(k)' = Evaluations(k)
                       \cup {EvaluatedEvent(k, rows[k].cursor_at, poll[p].current)}
  <1> DEFINE event(k) == EvaluatedEvent(k, poll[p].record[k].cursor_at, poll[p].current)
  <1>1. \A k \in Claimed(p) : k \in Keys /\ rows[k] = poll[p].record[k]
    BY DEF Claimed, PollCommit, ScheduleInv, LocksHold
  <1>2. \A k \in Claimed(p) :
           /\ rows[k].cursor_at \in Times /\ poll[p].current \in Times
           /\ rows[k].cursor_at < poll[p].current
    <2> SUFFICES ASSUME NEW k \in Claimed(p)
                 PROVE  /\ rows[k].cursor_at \in Times /\ poll[p].current \in Times
                        /\ rows[k].cursor_at < poll[p].current
      OBVIOUS
    <2>1. rows[k] \in Row
      BY PollCommitWrites
    <2>2. rows[k].cursor_at < poll[p].current
      BY DEF Claimed, PollCommit, ScheduleInv, LocksHold
    <2>3. poll[p] \in Poll
      BY DEF PollCommit, ScheduleInv, TypeOK
    <2> QED
      BY <2>1, <2>2, <2>3 DEF Row, Poll
  <1>3. events' = events \cup {event(k) : k \in Claimed(p)}
    BY DEF PollCommit
  <1>4. \A k \in Claimed(p) : event(k).key = k /\ event(k).event_type = "schedule.evaluated"
    BY DEF EvaluatedEvent
  <1>5. \A k \in Claimed(p) : event(k) = EvaluatedEvent(k, rows[k].cursor_at, poll[p].current)
    BY <1>1
  <1> HIDE DEF event
  <1>6. ASSUME NEW k \in Keys \ Claimed(p) PROVE Evaluations(k)' = Evaluations(k)
    BY <1>3, <1>4 DEF Evaluations
  <1>7. ASSUME NEW k \in Claimed(p) PROVE Evaluations(k)' = Evaluations(k) \cup {event(k)}
    BY <1>3, <1>4 DEF Evaluations
  <1> QED
    BY <1>1, <1>2, <1>5, <1>6, <1>7

\* The commit of a poll lays the next tile: it starts where the cursor stood, no
\* occurrence behind it had been dispatched, and the cursor moves to its end.
LEMMA PollCommitTiles ==
    ASSUME ScheduleInv, NEW p \in Pollers, PollCommit(p), NEW k \in Claimed(p), Tiles(k)
    PROVE  Tiles(k)'
  <1> DEFINE due == Due(Definition[k], rows[k].cursor_at, poll[p].current)
  <1>1. PICK E : E = Evaluations(k)
    OBVIOUS
  <1>2. PICK c : c = rows[k].cursor_at
    OBVIOUS
  <1>3. PICK t : t = Through(p, k)
    OBVIOUS
  <1>4. PICK new : new = EvaluatedEvent(k, rows[k].cursor_at, poll[p].current)
    OBVIOUS
  <1>5. PICK i : i = rows[k].initial_cursor_at
    OBVIOUS
  <1>6. PICK S : S = ToDispatch(p, k)
    OBVIOUS
  <1>7. /\ k \in Keys /\ c \in Times /\ c < poll[p].current /\ poll[p].current \in Times
        /\ Evaluations(k)' = E \cup {new}
    BY <1>1, <1>2, <1>4, PollCommitEvents
  <1>8. /\ rows[k] # None /\ rows'[k] # None /\ rows'[k].cursor_at = t
        /\ rows'[k].initial_cursor_at = i /\ t \in Times /\ c < t
    BY <1>2, <1>3, <1>5, PollCommitWrites, ScheduleNoneAssumption
  <1>9. S \in SUBSET Times /\ \A o \in S : c < o /\ o <= t
    <2>1. due \in SUBSET Times /\ S \subseteq due /\ \A o \in S : o <= t
      BY <1>2, <1>3, <1>6, <1>7, EvaluationIs DEF ToDispatch, Through
    <2> QED
      BY <1>2, <2>1 DEF Due
  <1>10. \A o \in Times : [key |-> k, scheduled_for |-> o] \in dispatches => o <= c
    BY <1>2 DEF ScheduleInv, NothingLost, InWindow
  <1>11. \A o \in Times : [key |-> k, scheduled_for |-> o] \in dispatches' <=>
             [key |-> k, scheduled_for |-> o] \in dispatches \/ o \in S
    <2> SUFFICES ASSUME NEW o \in Times
                 PROVE  [key |-> k, scheduled_for |-> o] \in dispatches' <=>
                            [key |-> k, scheduled_for |-> o] \in dispatches \/ o \in S
      OBVIOUS
    <2>1. PICK d : d = [key |-> k, scheduled_for |-> o]
      OBVIOUS
    <2>2. d \in Dispatch /\ d.key = k /\ d.scheduled_for = o
      BY <1>7, <2>1 DEF Dispatch
    <2>3. d \in dispatches' <=>
              d \in dispatches \/ (d.key \in Claimed(p) /\ d.scheduled_for \in ToDispatch(p, d.key))
      BY <2>2, PollCommitWrites
    <2> QED
      BY <1>6, <2>1, <2>2, <2>3
  <1>12. /\ new.prior = c /\ new.through = t /\ new.replayed = 0
         /\ new.dispatched = Cardinality(S)
         /\ new.total_due = new.dispatched + new.skipped + new.deferred
    <2>1. \A o \in Dispatched(Definition[k], due) : [key |-> k, scheduled_for |-> o] \notin dispatches
      <3>1. Dispatched(Definition[k], due) = S
        BY <1>6 DEF ToDispatch
      <3>2. \A o \in S : o \in Times
        BY <1>9
      <3>3. \A o \in Times : c < o => ~(o <= c)
        BY <1>7, TimesAssumption DEF Times
      <3> QED
        BY <1>9, <1>10, <3>1, <3>2, <3>3, Zenon
    <2>2. /\ new.prior = c /\ new.through = EvaluatedThrough(Definition[k], due, poll[p].current)
          /\ new.replayed = 0 /\ new.dispatched = Cardinality(Dispatched(Definition[k], due))
          /\ new.total_due = new.dispatched + new.skipped + new.deferred
      BY <1>2, <1>4, <1>7, <2>1, EvaluationAccounts
    <2> QED
      BY <1>3, <1>6, <2>2 DEF Through, ToDispatch
  <1>13. DispatchedBetween(k, c, t)' = S
    BY <1>7, <1>8, <1>9, <1>10, <1>11, TimesAssumption DEF DispatchedBetween, Times
  <1>14. \A from \in Times, to \in Times :
             to <= c => DispatchedBetween(k, from, to)' = DispatchedBetween(k, from, to)
    <2> SUFFICES ASSUME NEW from \in Times, NEW to \in Times, to <= c
                 PROVE  DispatchedBetween(k, from, to)' = DispatchedBetween(k, from, to)
      OBVIOUS
    <2>1. \A o \in S : ~(o <= to)
      BY <1>7, <1>9, TimesAssumption DEF Times
    <2> QED
      BY <1>11, <2>1 DEF DispatchedBetween
  <1>15. \A e \in E :
            /\ e.prior \in Times /\ e.through \in Times
            /\ e.prior < e.through /\ e.through <= c
            /\ e.prior = i \/ \E f \in E : f.through = e.prior
            /\ e.replayed = 0
            /\ e.total_due = e.dispatched + e.skipped + e.deferred
            /\ e.dispatched = Cardinality(DispatchedBetween(k, e.prior, e.through))
            /\ \A f \in E : f = e \/ f.through <= e.prior \/ e.through <= f.prior
    <2>1. \A e \in E : e.prior \in Times /\ e.through \in Times
      BY <1>1 DEF Evaluations, ScheduleInv, TypeOK, Event
    <2> QED
      BY <1>1, <1>2, <1>5, <2>1 DEF Tiles
  <1>16. c = i \/ \E f \in E : f.through = c
    BY <1>1, <1>2, <1>5, <1>8 DEF Tiles
  <1>17. ASSUME NEW e \in E
         PROVE  /\ e.prior < e.through /\ e.through <= t
                /\ e.prior = i \/ \E f \in E \cup {new} : f.through = e.prior
                /\ e.replayed = 0
                /\ e.total_due = e.dispatched + e.skipped + e.deferred
                /\ e.dispatched = Cardinality(DispatchedBetween(k, e.prior, e.through)')
                /\ \A f \in E \cup {new} : f = e \/ f.through <= e.prior \/ e.through <= f.prior
    <2>1. e.through <= t
      BY <1>7, <1>8, <1>15, TimesAssumption DEF Times
    <2>2. DispatchedBetween(k, e.prior, e.through)' = DispatchedBetween(k, e.prior, e.through)
      BY <1>14, <1>15
    <2> QED
      BY <1>12, <1>15, <2>1, <2>2
  <1>18. /\ new.prior < new.through /\ new.through <= t
         /\ new.prior = i \/ \E f \in E \cup {new} : f.through = new.prior
         /\ new.replayed = 0
         /\ new.total_due = new.dispatched + new.skipped + new.deferred
         /\ new.dispatched = Cardinality(DispatchedBetween(k, new.prior, new.through)')
         /\ \A f \in E \cup {new} : f = new \/ f.through <= new.prior \/ new.through <= f.prior
    <2>1. new.prior < new.through /\ new.through <= t
      BY <1>8, <1>12, TimesAssumption DEF Times
    <2>2. DispatchedBetween(k, new.prior, new.through)' = S
      BY <1>12, <1>13
    <2> QED
      BY <1>12, <1>15, <1>16, <2>1, <2>2
  <1> QED
    BY <1>7, <1>8, <1>12, <1>17, <1>18 DEF Tiles

\* Every step keeps the evidence of every version.
LEMMA TilesStep == ScheduleInv /\ EvidenceTiles /\ [Next]_vars => EvidenceTiles'
  <1> SUFFICES ASSUME ScheduleInv, EvidenceTiles, [Next]_vars, NEW k \in Keys PROVE Tiles(k)'
    <2>1. (\A k \in Keys : Tiles(k)') => EvidenceTiles'
      BY DEF EvidenceTiles, Tiles, DispatchedBetween, Evaluations
    <2> QED
      BY <2>1
  <1>1. Tiles(k)
    BY TilesIs
  <1>2. CASE \E p \in Pollers : PollCommit(p)
    <2>1. PICK p \in Pollers : PollCommit(p)
      BY <1>2
    <2>2. CASE k \in Claimed(p)
      BY <1>1, <2>1, <2>2, PollCommitTiles
    <2>3. CASE k \notin Claimed(p)
      <3>1. rows'[k] = rows[k] /\ Evaluations(k)' = Evaluations(k)
        BY <2>1, <2>3, PollCommitWrites, PollCommitEvents
      <3>2. ASSUME NEW o \in Times
            PROVE  [key |-> k, scheduled_for |-> o] \in dispatches' <=>
                   [key |-> k, scheduled_for |-> o] \in dispatches
        <4>1. PICK d : d = [key |-> k, scheduled_for |-> o]
          OBVIOUS
        <4>2. d \in Dispatch /\ d.key \notin Claimed(p)
          BY <2>3, <4>1 DEF Dispatch
        <4>3. d \in dispatches' <=> d \in dispatches
          BY <2>1, <4>2, PollCommitWrites
        <4> QED
          BY <4>1, <4>3
      <3> QED
        BY <1>1, <3>1, <3>2, TilesKept
    <2> QED
      BY <2>2, <2>3
  <1>3. CASE \E r \in Registrars : RegisterCommit(r)
    <2>1. PICK r \in Registrars : RegisterCommit(r)
      BY <1>3
    <2>2. dispatches' = dispatches
      BY <2>1 DEF RegisterCommit
    <2>3. Evaluations(k)' = Evaluations(k)
      <3>1. events' = events
                \cup {NoCounts(j, "schedule.superseded", rows[j].cursor_at) : j \in PriorActive(r)}
                \cup {NoCounts(registration[r].key, "schedule.registered", registration[r].cursor_at)}
        BY <2>1 DEF RegisterCommit
      <3>2. \A e \in events' : e.event_type = "schedule.evaluated" => e \in events
        BY <3>1 DEF NoCounts
      <3>3. events \subseteq events'
        BY <3>1
      <3> QED
        BY <3>2, <3>3 DEF Evaluations
    <2>4. CASE k = registration[r].key
      <3>1. /\ rows[k] = None /\ rows'[k] # None
            /\ rows'[k].initial_cursor_at = rows'[k].cursor_at
        BY <2>1, <2>4, RegisterCommitWrites, ScheduleNoneAssumption
      <3>2. Evaluations(k)' = {}
        BY <1>1, <2>3, <3>1 DEF Tiles
      <3> QED
        BY <3>1, <3>2 DEF Tiles
    <2>5. CASE k # registration[r].key
      <3>1. /\ rows[k] # None <=> rows'[k] # None
            /\ rows[k] # None => /\ rows'[k].cursor_at = rows[k].cursor_at
                                 /\ rows'[k].initial_cursor_at = rows[k].initial_cursor_at
        <4>1. CASE k \in PriorActive(r)
          BY <2>1, <4>1, RegisterCommitWrites, ScheduleNoneAssumption DEF Stored
        <4>2. CASE k \notin PriorActive(r)
          BY <2>1, <2>5, <4>2, RegisterCommitWrites
        <4> QED
          BY <4>1, <4>2
      <3> QED
        BY <1>1, <2>2, <2>3, <3>1, TilesKept
    <2> QED
      BY <2>4, <2>5
  <1>4. CASE UNCHANGED <<rows, dispatches, events>>
    <2>1. Evaluations(k)' = Evaluations(k)
      BY <1>4 DEF Evaluations
    <2> QED
      BY <1>1, <1>4, <2>1, TilesKept
  <1> QED
    BY <1>2, <1>3, <1>4 DEF Next, PollStep, RegisterStep, Tick, PollBegin, PollSelect,
       PollRefused, PollCrash, RegisterRead, RegisterRefused, vars

\* The audit events of process_due tile the way of every version's cursor: none
\* overlaps, none is missing, each accounts for all that was due, and the replay
\* branch is never taken, whatever polls, crashes and registrations interleave.
THEOREM EvidenceIsComplete == Spec => []EvidenceTiles
  <1>1. Init => EvidenceTiles
    BY DEF Init, EvidenceTiles, Evaluations
  <1> QED
    BY <1>1, TilesStep, ScheduleInvariant, PTL DEF Spec
=============================================================================

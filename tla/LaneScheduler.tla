----------------------------- MODULE LaneScheduler -----------------------------
(***************************************************************************)
(* Which lane a durable-job worker serves next: the two schedulers of      *)
(* application/jobs.py over reserve_round_robin_lane of the job            *)
(* repositories.  RoundRobinDurableJobScheduler keeps its cursor in the    *)
(* process; PersistentRoundRobinDurableJobScheduler reserves each lane it  *)
(* probes from a cursor row that all processes with one scheduler_key      *)
(* share.  A reservation and a claim are separate transactions.            *)
(*                                                                         *)
(* A lane is its index in the scheduler's tuple.  What DurableJobs says of *)
(* a claim is here one step that takes a job of the lane if there is one.  *)
(* Every process has the same lane contract: one with another digest is    *)
(* refused by the repository before it changes anything.                   *)
(***************************************************************************)
EXTENDS Naturals

CONSTANTS
    LaneCount,      \* len(lanes)
    Local,          \* processes running RoundRobinDurableJobScheduler
    Shared,         \* processes running the persistent scheduler
    FirstLane,      \* the first index reserved: 0 on SQLite, 1 % count on PostgreSQL
    QueueBound,     \* bound: claimable jobs of a lane
    CrashBound      \* bound: calls that end between a reservation and its claim

ASSUME LanesAssumption == LaneCount \in Nat \ {0} /\ FirstLane \in 0 .. LaneCount - 1
ASSUME ProcessesAssumption == Local \cap Shared = {}
ASSUME LaneBoundsAssumption == QueueBound \in Nat \ {0} /\ CrashBound \in Nat

VARIABLES
    queue,      \* claimable jobs of each lane
    cursor,     \* next_index of the shared cursor row; FirstLane before there is a row
    own,        \* _cursor of each local scheduler
    call,       \* the claim() each process is in: lanes tried, lane to probe
    lead,       \* history: reservations of each lane beyond those every lane had, up to 2
    bypassed,   \* history: jobs a local scheduler took elsewhere while the lane had work
    crashes

vars == <<queue, cursor, own, call, lead, bypassed, crashes>>

Lanes == 0 .. LaneCount - 1
Processes == Local \cup Shared
NoCall == [active |-> FALSE, tried |-> 0, probing |-> FALSE, lane |-> 0]

Init ==
    /\ queue = [l \in Lanes |-> 0]
    /\ cursor = FirstLane
    /\ own = [s \in Local |-> 0]
    /\ call = [s \in Processes |-> NoCall]
    /\ lead = [l \in Lanes |-> 0]
    /\ bypassed = [s \in Local |-> [l \in Lanes |-> 0]]
    /\ crashes = 0

\* A job of the lane becomes claimable.
Submit(l) ==
    /\ queue[l] < QueueBound
    /\ queue' = [queue EXCEPT ![l] = @ + 1]
    /\ UNCHANGED <<cursor, own, call, lead, bypassed, crashes>>

\* A process calls claim().
Begin(s) ==
    /\ ~call[s].active
    /\ call' = [call EXCEPT ![s] = [NoCall EXCEPT !.active = TRUE]]
    /\ UNCHANGED <<queue, cursor, own, lead, bypassed, crashes>>

\* Mutant: the UPDATE of the cursor row matches no row and nobody looks.
NextIndex_Unchecked(selected) == selected

\* Mutant: the successor of the last lane is not the first one.
NextIndex_NoModulus(selected) == selected + 1

NextIndex(selected) == (selected + 1) % LaneCount

\* Mutant: the process probes the lane of its attempt, not the one it was dealt.
Reserve_ProbesAttempt(s) ==
    /\ s \in Shared /\ call[s].active /\ ~call[s].probing
    /\ call[s].tried < LaneCount
    /\ call' = [call EXCEPT ![s] = [active |-> TRUE, tried |-> @.tried + 1,
                                    probing |-> TRUE, lane |-> @.tried]]
    /\ cursor' = NextIndex(cursor)
    /\ lead' = LET counted == [lead EXCEPT ![cursor] = IF @ < 2 THEN @ + 1 ELSE @]
               IN IF \A l \in Lanes : counted[l] > 0
                  THEN [l \in Lanes |-> counted[l] - 1] ELSE counted
    /\ UNCHANGED <<queue, own, bypassed, crashes>>

\* reserve_round_robin_lane, the next step of the loop of the persistent claim().
Reserve(s) ==
    /\ s \in Shared /\ call[s].active /\ ~call[s].probing
    /\ call[s].tried < LaneCount
    /\ call' = [call EXCEPT ![s] = [active |-> TRUE, tried |-> @.tried + 1,
                                    probing |-> TRUE, lane |-> cursor]]
    /\ cursor' = NextIndex(cursor)
    /\ lead' = LET counted == [lead EXCEPT ![cursor] = IF @ < 2 THEN @ + 1 ELSE @]
               IN IF \A l \in Lanes : counted[l] > 0
                  THEN [l \in Lanes |-> counted[l] - 1] ELSE counted
    /\ UNCHANGED <<queue, own, bypassed, crashes>>

\* The loop of the local claim() moves to the next lane of its scan.
Advance(s) ==
    /\ s \in Local /\ call[s].active /\ ~call[s].probing
    /\ call[s].tried < LaneCount
    /\ call' = [call EXCEPT ![s] = [active |-> TRUE, tried |-> @.tried + 1,
                                    probing |-> TRUE, lane |-> (own[s] + @.tried) % LaneCount]]
    /\ UNCHANGED <<queue, cursor, own, lead, bypassed, crashes>>

\* Mutant: the next scan starts at the lane just served.
OwnAfterClaim_Stays(l) == l

OwnAfterClaim(l) == (l + 1) % LaneCount

\* worker.claim(lane) leases a job and claim() returns it.
ClaimFrom(s, l) ==
    /\ call[s].probing /\ call[s].lane = l /\ queue[l] > 0
    /\ queue' = [queue EXCEPT ![l] = @ - 1]
    /\ call' = [call EXCEPT ![s] = NoCall]
    /\ own' = IF s \in Local THEN [own EXCEPT ![s] = OwnAfterClaim(l)] ELSE own
    /\ bypassed' =
          [t \in Local |-> [m \in Lanes |->
              IF m = l THEN IF t = s \/ queue[l] = 1 THEN 0 ELSE bypassed[t][m]
              ELSE IF t = s /\ queue[m] > 0 THEN bypassed[t][m] + 1 ELSE bypassed[t][m]]]
    /\ UNCHANGED <<cursor, lead, crashes>>

\* worker.claim(lane) returns None; the loop goes on.
Miss(s) ==
    /\ call[s].probing /\ queue[call[s].lane] = 0
    /\ call' = [call EXCEPT ![s].probing = FALSE]
    /\ UNCHANGED <<queue, cursor, own, lead, bypassed, crashes>>

\* The loop is exhausted: claim() returns None.
ReturnNone(s) ==
    /\ call[s].active /\ ~call[s].probing /\ call[s].tried = LaneCount
    /\ call' = [call EXCEPT ![s] = NoCall]
    /\ own' = IF s \in Local THEN [own EXCEPT ![s] = (@ + 1) % LaneCount] ELSE own
    /\ UNCHANGED <<queue, cursor, lead, bypassed, crashes>>

\* The process dies or worker.claim raises: the reservation is spent.
Crash(s) ==
    /\ call[s].probing /\ crashes < CrashBound
    /\ crashes' = crashes + 1
    /\ call' = [call EXCEPT ![s] = NoCall]
    /\ UNCHANGED <<queue, cursor, own, lead, bypassed>>

Step(s) ==
    \/ Begin(s) \/ Reserve(s) \/ Advance(s) \/ Miss(s) \/ ReturnNone(s)
    \/ \E l \in Lanes : ClaimFrom(s, l)

Next ==
    \/ \E l \in Lanes : Submit(l)
    \/ \E s \in Processes : Step(s) \/ Crash(s)

Spec == Init /\ [][Next]_vars

\* Every process keeps calling claim(); submissions and crashes are not fair.
FairSpec == Spec /\ \A s \in Processes : WF_vars(Step(s))
-----------------------------------------------------------------------------
\* Types of the cursors and of the calls.
TypeOK ==
    /\ queue \in [Lanes -> 0 .. QueueBound]
    /\ cursor \in Lanes
    /\ own \in [Local -> Lanes]
    /\ call \in [Processes -> [active : BOOLEAN, tried : 0 .. LaneCount,
                               probing : BOOLEAN, lane : Lanes]]
    /\ lead \in [Lanes -> 0 .. 2]
    /\ bypassed \in [Local -> [Lanes -> Nat]]
    /\ crashes \in 0 .. CrashBound

\* All processes consume one round-robin sequence: however reservations, claims
\* and crashes interleave, no lane is reserved twice more often than another.
SharedRotation == \A l \in Lanes : lead[l] <= 1

\* A local scheduler serves a lane that has work after at most one job of each
\* other lane: the cursor moves past the lane it served and never skips one.
BoundedBypass == \A s \in Local : \A l \in Lanes : bypassed[s][l] < LaneCount

\* A lane that has work for ever is served again and again by the processes that
\* share a cursor, whichever lanes they find busy and however its sequence is split
\* between them, and by every local scheduler of its own.
NoLaneStarves ==
    \A l \in Lanes :
        <>[](queue[l] > 0) =>
            /\ []<><<\E s \in Shared : ClaimFrom(s, l)>>_vars
            /\ \A s \in Local : []<><<ClaimFrom(s, l)>>_vars
=============================================================================

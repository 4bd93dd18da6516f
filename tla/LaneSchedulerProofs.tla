-------------------------- MODULE LaneSchedulerProofs --------------------------
(***************************************************************************)
(* The shared cursor and the local schedulers are fair for every number of *)
(* lanes and processes.                                                    *)
(*                                                                         *)
(* SharedRotation alone is not inductive: that no lane leads by two says   *)
(* nothing about which lane the cursor names.  Window says it: the lanes   *)
(* that lead are those the cursor has passed since it last was at          *)
(* FirstLane, so the lane it names does not lead.                          *)
(*                                                                         *)
(* BoundedBypass needs the position of a lane in the scan of a scheduler   *)
(* (Offset): what the scheduler took past a lane and what it may still     *)
(* take before it gets there are together less than a round.               *)
(***************************************************************************)
EXTENDS LaneScheduler, TLAPS

\* Lane l lies in the cyclic interval from FirstLane up to and without c.
Passed(c, l) ==
    IF FirstLane <= c THEN FirstLane <= l /\ l < c ELSE FirstLane <= l \/ l < c

\* The lanes reserved once more than the others are those the cursor has passed.
Window == \A l \in Lanes : lead[l] = IF Passed(cursor, l) THEN 1 ELSE 0

CursorOK ==
    /\ cursor \in Lanes
    /\ lead \in [Lanes -> 0 .. 2]
    /\ Window

\* The successor of a lane, without the modulus.
LEMMA NextIndexIs ==
    ASSUME NEW l \in Lanes
    PROVE  NextIndex(l) = IF l + 1 = LaneCount THEN 0 ELSE l + 1
  BY LanesAssumption DEF NextIndex, Lanes

\* A reservation keeps the window: it adds the lane the cursor names, or closes
\* the round when that was the last one missing.
LEMMA ReserveKeepsWindow ==
    ASSUME CursorOK, NEW s, Reserve(s)
    PROVE  CursorOK'
  <1> DEFINE counted == [lead EXCEPT ![cursor] = IF @ < 2 THEN @ + 1 ELSE @]
  <1> USE LanesAssumption
  <1>1. cursor \in Lanes /\ cursor' = IF cursor + 1 = LaneCount THEN 0 ELSE cursor + 1
    BY NextIndexIs DEF CursorOK, Reserve
  <1>2. cursor' \in Lanes
    BY <1>1 DEF Lanes
  <1>3. \A l \in Lanes : counted[l] = IF l = cursor THEN 1 ELSE lead[l]
    BY <1>1 DEF CursorOK, Window, Passed, Lanes
  <1>4. lead' = IF \A l \in Lanes : counted[l] > 0
                THEN [l \in Lanes |-> counted[l] - 1] ELSE counted
    BY DEF Reserve
  <1>5. CASE \A l \in Lanes : counted[l] > 0
    <2>1. \A l \in Lanes : l # cursor => Passed(cursor, l)
      BY <1>3, <1>5 DEF CursorOK, Window
    <2>2. cursor' = FirstLane
      BY <1>1, <2>1 DEF Passed, Lanes
    <2>3. \A l \in Lanes : counted[l] = 1
      BY <1>3, <2>1 DEF CursorOK, Window
    <2>4. lead' = [l \in Lanes |-> counted[l] - 1]
      BY <1>4, <1>5
    <2>5. \A l \in Lanes : lead'[l] = 0
      BY <2>3, <2>4
    <2>6. \A l \in Lanes : ~Passed(cursor', l)
      BY <2>2 DEF Passed, Lanes
    <2> QED
      BY <1>2, <2>4, <2>5, <2>6 DEF CursorOK, Window, Passed
  <1>6. CASE ~(\A l \in Lanes : counted[l] > 0)
    <2>1. lead' = counted
      BY <1>4, <1>6
    <2>2. PICK m \in Lanes : m # cursor /\ ~Passed(cursor, m)
      BY <1>3, <1>6 DEF CursorOK, Window
    <2>3. \A l \in Lanes : Passed(cursor', l) <=> (l = cursor \/ Passed(cursor, l))
      BY <1>1, <2>2 DEF Passed, Lanes
    <2>4. Window'
      BY <1>1, <1>3, <2>1, <2>3 DEF CursorOK, Window, Passed
    <2>5. lead' \in [Lanes -> 0 .. 2]
      BY <1>1, <2>1 DEF CursorOK
    <2> QED
      BY <1>2, <2>4, <2>5 DEF CursorOK
  <1> QED
    BY <1>5, <1>6

\* Every step keeps the window: only a reservation moves the cursor.
LEMMA CursorStep == CursorOK /\ [Next]_vars => CursorOK'
  <1> SUFFICES ASSUME CursorOK, [Next]_vars PROVE CursorOK'
    OBVIOUS
  <1>1. CASE \E s \in Processes : Reserve(s)
    BY <1>1, ReserveKeepsWindow
  <1>2. CASE UNCHANGED <<cursor, lead>>
    BY <1>2 DEF CursorOK, Window, Passed
  <1>3. (\E s \in Processes : Reserve(s)) \/ UNCHANGED <<cursor, lead>>
    BY DEF Next, Step, Submit, Begin, Advance, ClaimFrom, Miss, ReturnNone, Crash, vars
  <1> QED
    BY <1>1, <1>2, <1>3

\* The window holds from the first reservation on.
LEMMA CursorHolds == Spec => []CursorOK
  <1>1. Init => CursorOK
    BY LanesAssumption DEF Init, CursorOK, Window, Passed, Lanes
  <1> QED
    BY <1>1, CursorStep, PTL DEF Spec

\* However the processes of a shared scheduler_key interleave and crash, the
\* cursor row deals the lanes out in one round-robin sequence: no lane is
\* reserved twice more often than another, for every number of lanes.
THEOREM Rotation == Spec => []SharedRotation
  <1>1. CursorOK => SharedRotation
    BY DEF CursorOK, Window, SharedRotation
  <1> QED
    BY <1>1, CursorHolds, PTL
-----------------------------------------------------------------------------
\* Types

\* The claim() calls a process can be in.
CallRows == [active : BOOLEAN, tried : 0 .. LaneCount, probing : BOOLEAN, lane : Lanes]

\* A number below two rounds, without the modulus.
LEMMA ModuloOfRound ==
    ASSUME NEW x \in Nat, x < 2 * LaneCount
    PROVE  x % LaneCount = IF x < LaneCount THEN x ELSE x - LaneCount
  BY LanesAssumption

\* The lane that attempt k of a scan from c probes.
LEMMA ScanLane ==
    ASSUME NEW c \in Lanes, NEW k \in Lanes
    PROVE  /\ (c + k) % LaneCount \in Lanes
           /\ (c + k) % LaneCount = IF c + k < LaneCount THEN c + k ELSE c + k - LaneCount
  <1>1. c \in Nat /\ k \in Nat /\ c < LaneCount /\ k < LaneCount /\ LaneCount \in Nat
    BY LanesAssumption DEF Lanes
  <1>2. PICK x : x = c + k
    OBVIOUS
  <1>3. x \in Nat /\ x < 2 * LaneCount
    BY <1>1, <1>2
  <1>4. PICK y : y = x % LaneCount
    OBVIOUS
  <1>5. y = IF x < LaneCount THEN x ELSE x - LaneCount
    BY <1>3, <1>4, ModuloOfRound
  <1>6. y \in Lanes /\ y = IF c + k < LaneCount THEN c + k ELSE c + k - LaneCount
    BY <1>1, <1>2, <1>3, <1>5 DEF Lanes
  <1>7. (c + k) % LaneCount = y
    BY <1>2, <1>4, Zenon
  <1> QED
    BY <1>6, <1>7, Zenon

\* The calls that begin and that are over are calls.
LEMMA NoCallTyped == NoCall \in CallRows /\ [NoCall EXCEPT !.active = TRUE] \in CallRows
  <1>1. 0 \in Lanes /\ 0 \in 0 .. LaneCount
    BY LanesAssumption DEF Lanes
  <1>2. NoCall \in CallRows
    BY <1>1 DEF NoCall, CallRows
  <1> QED
    BY <1>2 DEF CallRows

\* Every action keeps the types; the cursor and the leads are the window's.
LEMMA StepTyped == TypeOK /\ CursorOK /\ CursorOK' /\ [Next]_vars => TypeOK'
  <1> SUFFICES ASSUME TypeOK, CursorOK, CursorOK', [Next]_vars PROVE TypeOK'
    OBVIOUS
  <1> USE LanesAssumption, LaneBoundsAssumption
  <1>1. call \in [Processes -> CallRows]
    BY DEF TypeOK, CallRows
  <1>2. cursor' \in Lanes /\ lead' \in [Lanes -> 0 .. 2]
    BY DEF CursorOK
  <1>3. ASSUME NEW l \in Lanes, Submit(l) PROVE TypeOK'
    <2>1. queue[l] \in 0 .. QueueBound /\ queue[l] + 1 \in 0 .. QueueBound
      BY <1>3 DEF Submit, TypeOK
    <2>2. queue' \in [Lanes -> 0 .. QueueBound]
      BY <1>3, <2>1 DEF Submit, TypeOK
    <2> QED
      BY <1>3, <2>2 DEF Submit, TypeOK
  <1>4. ASSUME NEW s \in Processes, Begin(s) PROVE TypeOK'
    <2>1. call' \in [Processes -> CallRows]
      BY <1>1, <1>4, NoCallTyped DEF Begin
    <2> QED
      BY <1>4, <2>1 DEF Begin, TypeOK, CallRows
  <1>5. ASSUME NEW s \in Processes, NEW lane \in Lanes, call[s].tried < LaneCount,
               call' = [call EXCEPT ![s] = [active |-> TRUE, tried |-> call[s].tried + 1,
                                            probing |-> TRUE, lane |-> lane]]
        PROVE  call' \in [Processes -> CallRows]
    <2>1. call[s] \in CallRows
      BY <1>1
    <2>2. call[s].tried + 1 \in 0 .. LaneCount
      BY <1>5, <2>1 DEF CallRows
    <2>3. [active |-> TRUE, tried |-> call[s].tried + 1, probing |-> TRUE, lane |-> lane]
              \in CallRows
      BY <2>2 DEF CallRows
    <2> QED
      BY <1>1, <1>5, <2>3
  <1>6. ASSUME NEW s \in Processes, Reserve(s) PROVE TypeOK'
    <2>1. call' \in [Processes -> CallRows]
      BY <1>1, <1>5, <1>6 DEF Reserve, CursorOK
    <2> QED
      BY <1>2, <1>6, <2>1 DEF Reserve, TypeOK, CallRows
  <1>7. ASSUME NEW s \in Processes, Advance(s) PROVE TypeOK'
    <2>1. own[s] \in Lanes /\ call[s] \in CallRows
      BY <1>1, <1>7 DEF Advance, TypeOK
    <2>2. call[s].tried \in Lanes
      BY <1>7, <2>1 DEF Advance, CallRows, Lanes
    <2>3. (own[s] + call[s].tried) % LaneCount \in Lanes
      BY <2>1, <2>2, ScanLane
    <2>4. call' \in [Processes -> CallRows]
      BY <1>5, <1>1, <1>7, <2>3 DEF Advance
    <2> QED
      BY <1>7, <2>4 DEF Advance, TypeOK, CallRows
  <1>8. \A l \in Lanes : (l + 1) % LaneCount \in Lanes
    BY NextIndexIs DEF NextIndex, Lanes
  <1>9. ASSUME NEW s \in Processes, NEW l \in Lanes, ClaimFrom(s, l) PROVE TypeOK'
    <2>1. queue[l] \in 0 .. QueueBound /\ queue[l] - 1 \in 0 .. QueueBound
      BY <1>9 DEF ClaimFrom, TypeOK
    <2>2. queue' \in [Lanes -> 0 .. QueueBound]
      BY <1>9, <2>1 DEF ClaimFrom, TypeOK
    <2>3. call' \in [Processes -> CallRows]
      BY <1>1, <1>9, NoCallTyped DEF ClaimFrom
    <2>4. own' \in [Local -> Lanes]
      BY <1>8, <1>9 DEF ClaimFrom, TypeOK, OwnAfterClaim
    <2>5. bypassed' \in [Local -> [Lanes -> Nat]]
      BY <1>9 DEF ClaimFrom, TypeOK
    <2> QED
      BY <1>9, <2>2, <2>3, <2>4, <2>5 DEF ClaimFrom, TypeOK, CallRows
  <1>10. ASSUME NEW s \in Processes, Miss(s) PROVE TypeOK'
    <2>1. call' \in [Processes -> CallRows]
      BY <1>1, <1>10 DEF Miss, CallRows
    <2> QED
      BY <1>10, <2>1 DEF Miss, TypeOK, CallRows
  <1>11. ASSUME NEW s \in Processes, ReturnNone(s) PROVE TypeOK'
    <2>1. call' \in [Processes -> CallRows]
      BY <1>1, <1>11, NoCallTyped DEF ReturnNone
    <2>2. own' \in [Local -> Lanes]
      BY <1>8, <1>11 DEF ReturnNone, TypeOK
    <2> QED
      BY <1>11, <2>1, <2>2 DEF ReturnNone, TypeOK, CallRows
  <1>12. ASSUME NEW s \in Processes, Crash(s) PROVE TypeOK'
    <2>1. call' \in [Processes -> CallRows]
      BY <1>1, <1>12, NoCallTyped DEF Crash
    <2> QED
      BY <1>12, <2>1 DEF Crash, TypeOK, CallRows
  <1>13. CASE UNCHANGED vars
    BY <1>13 DEF vars, TypeOK
  <1> QED
    BY <1>3, <1>4, <1>6, <1>7, <1>9, <1>10, <1>11, <1>12, <1>13 DEF Next, Step

\* Cursors, calls, queues and histories keep their types; the modulus of the code
\* keeps every index inside the lanes.
THEOREM LanesTyped == Spec => []TypeOK
  <1>1. Init => TypeOK
    <2>1. 0 \in Lanes /\ FirstLane \in Lanes
      BY LanesAssumption DEF Lanes
    <2>2. call \in [Processes -> CallRows] <=>
              call \in [Processes -> [active : BOOLEAN, tried : 0 .. LaneCount,
                                      probing : BOOLEAN, lane : Lanes]]
      BY DEF CallRows
    <2>3. Init => call \in [Processes -> CallRows]
      BY NoCallTyped DEF Init
    <2> QED
      BY <2>1, <2>2, <2>3, LanesAssumption, LaneBoundsAssumption DEF Init, TypeOK
  <1>2. TypeOK /\ CursorOK /\ CursorOK' /\ [Next]_vars => TypeOK'
    BY StepTyped
  <1> QED
    BY <1>1, <1>2, CursorHolds, PTL DEF Spec
-----------------------------------------------------------------------------
\* The scans of the local schedulers

\* How many lanes a scan from c probes before it gets to lane l.
Offset(c, l) == IF c <= l THEN l - c ELSE l + LaneCount - c

\* The lane a scan of s probes is the one its attempt stands at.
ProbesInOrder ==
    \A s \in Local :
        /\ call[s].probing => call[s].active
        /\ call[s].probing => call[s].tried = Offset(own[s], call[s].lane) + 1

\* The lanes the scan of s has left behind were empty, and s has taken nothing
\* elsewhere since.
LeftBehindFresh ==
    \A s \in Local : \A l \in Lanes :
        call[s].active =>
            \/ bypassed[s][l] = 0
            \/ Offset(own[s], l) >= call[s].tried
            \/ call[s].probing /\ call[s].lane = l

\* What s took past a lane and what it may still take before it gets there are
\* together less than a round.
WithinRound ==
    \A s \in Local : \A l \in Lanes : bypassed[s][l] + Offset(own[s], l) < LaneCount

\* Nothing is taken past an empty lane.
EmptyFresh == \A s \in Local : \A l \in Lanes : queue[l] = 0 => bypassed[s][l] = 0

ScanInv == ProbesInOrder /\ LeftBehindFresh /\ WithinRound /\ EmptyFresh

\* A lane is reached within a round, and at one position of it.
LEMMA OffsetRange ==
    ASSUME NEW c \in Lanes
    PROVE  /\ \A l \in Lanes : Offset(c, l) \in Nat /\ Offset(c, l) < LaneCount
           /\ \A l, m \in Lanes : Offset(c, l) = Offset(c, m) => l = m
  BY LanesAssumption DEF Lanes, Offset

\* Attempt k of a scan gets to the lane at position k.
LEMMA OffsetOfScan ==
    ASSUME NEW c \in Lanes, NEW k \in Lanes, NEW l \in Lanes, l = (c + k) % LaneCount
    PROVE  Offset(c, l) = k
  <1>1. l = IF c + k < LaneCount THEN c + k ELSE c + k - LaneCount
    BY ScanLane
  <1> QED
    BY <1>1, LanesAssumption DEF Lanes, Offset

\* A scan that starts after lane l comes to l last, and to the lanes that the scan
\* from c had still ahead by as many lanes earlier as that scan had gone.
LEMMA OffsetAfter ==
    ASSUME NEW c \in Lanes, NEW l \in Lanes, NEW m \in Lanes
    PROVE  /\ NextIndex(l) \in Lanes
           /\ m # l => Offset(NextIndex(l), m) < LaneCount - 1
           /\ Offset(c, l) < Offset(c, m) =>
                  Offset(NextIndex(l), m) = Offset(c, m) - Offset(c, l) - 1
  <1>1. PICK n : n = NextIndex(l)
    OBVIOUS
  <1>2. n = IF l + 1 = LaneCount THEN 0 ELSE l + 1
    BY <1>1, NextIndexIs
  <1>3. n \in Lanes
    BY <1>2, LanesAssumption DEF Lanes
  <1>4. m # l => Offset(n, m) < LaneCount - 1
    BY <1>2, LanesAssumption DEF Lanes, Offset
  <1>5. Offset(c, l) < Offset(c, m) => Offset(n, m) = Offset(c, m) - Offset(c, l) - 1
    BY <1>2, LanesAssumption DEF Lanes, Offset
  <1> QED
    BY <1>1, <1>3, <1>4, <1>5

\* What the types say of one local scheduler.
LEMMA LocalTyped ==
    ASSUME TypeOK, NEW t \in Local
    PROVE  /\ t \in Processes
           /\ own[t] \in Lanes
           /\ call[t] \in CallRows
           /\ call[t].tried \in Nat /\ call[t].tried <= LaneCount
           /\ call[t].lane \in Lanes
           /\ \A l \in Lanes : bypassed[t][l] \in Nat /\ queue[l] \in Nat
  <1>1. t \in Processes
    BY DEF Processes
  <1>2. call[t] \in CallRows /\ own[t] \in Lanes /\ bypassed[t] \in [Lanes -> Nat]
    BY <1>1 DEF TypeOK, CallRows
  <1>3. call[t].tried \in 0 .. LaneCount /\ call[t].lane \in Lanes
    BY <1>2 DEF CallRows
  <1> QED
    BY <1>1, <1>2, <1>3, LanesAssumption, LaneBoundsAssumption DEF TypeOK

\* A step that leaves the queues, the cursors and the bypass counts alone has only
\* the call of the scheduler that takes it to answer for.
LEMMA CallMoves ==
    ASSUME ScanInv, UNCHANGED <<queue, own, bypassed>>, NEW s,
           \A t \in Local : t # s => call'[t] = call[t],
           s \in Local =>
               /\ call'[s].probing => call'[s].active
               /\ call'[s].probing => call'[s].tried = Offset(own[s], call'[s].lane) + 1
               /\ \A l \in Lanes :
                      call'[s].active =>
                          \/ bypassed[s][l] = 0
                          \/ Offset(own[s], l) >= call'[s].tried
                          \/ call'[s].probing /\ call'[s].lane = l
    PROVE  ScanInv'
  <1>1. ProbesInOrder'
    BY DEF ScanInv, ProbesInOrder, Offset
  <1>2. LeftBehindFresh'
    BY DEF ScanInv, LeftBehindFresh, Offset
  <1>3. WithinRound' /\ EmptyFresh'
    BY DEF ScanInv, WithinRound, EmptyFresh, Offset
  <1> QED
    BY <1>1, <1>2, <1>3 DEF ScanInv

\* A job that becomes claimable fills no lane that was left behind empty.
LEMMA SubmitScan ==
    ASSUME TypeOK, ScanInv, NEW l \in Lanes, Submit(l)
    PROVE  ScanInv'
  <1>1. \A m \in Lanes : queue'[m] = 0 => queue[m] = 0
    BY LaneBoundsAssumption DEF TypeOK, Submit
  <1>2. EmptyFresh'
    BY <1>1 DEF ScanInv, EmptyFresh, Submit
  <1>3. ProbesInOrder' /\ LeftBehindFresh' /\ WithinRound'
    BY DEF ScanInv, ProbesInOrder, LeftBehindFresh, WithinRound, Offset, Submit
  <1> QED
    BY <1>2, <1>3 DEF ScanInv

\* A scan begins with every lane ahead of it, and a crash ends it.
LEMMA BeginCrashScan ==
    ASSUME TypeOK, ScanInv, NEW s \in Processes, Begin(s) \/ Crash(s)
    PROVE  ScanInv'
  <1>1. UNCHANGED <<queue, own, bypassed>> /\ \A t \in Local : t # s => call'[t] = call[t]
    BY DEF Begin, Crash, TypeOK, Processes
  <1>2. ~call'[s].probing /\ (call'[s].active => call'[s].tried = 0)
    BY DEF Begin, Crash, TypeOK, NoCall
  <1>3. s \in Local => \A l \in Lanes : Offset(own[s], l) >= 0
    BY LocalTyped, OffsetRange
  <1> QED
    BY <1>1, <1>2, <1>3, CallMoves

\* The processes of the persistent scheduler do not touch the local scans.
LEMMA ReserveScan ==
    ASSUME TypeOK, ScanInv, NEW s \in Processes, Reserve(s)
    PROVE  ScanInv'
  <1>1. s \notin Local
    BY ProcessesAssumption DEF Reserve
  <1>2. UNCHANGED <<queue, own, bypassed>> /\ \A t \in Local : t # s => call'[t] = call[t]
    BY DEF Reserve, TypeOK, Processes
  <1> QED
    BY <1>1, <1>2, CallMoves

\* An attempt goes to the next position of the scan and skips none.
LEMMA AdvanceScan ==
    ASSUME TypeOK, ScanInv, NEW s \in Processes, Advance(s)
    PROVE  ScanInv'
  <1>1. UNCHANGED <<queue, own, bypassed>> /\ \A t \in Local : t # s => call'[t] = call[t]
    BY DEF Advance, TypeOK, Processes
  <1>2. s \in Local /\ call[s].active /\ ~call[s].probing /\ call[s].tried < LaneCount
    BY DEF Advance
  <1>3. own[s] \in Lanes /\ call[s].tried \in Nat
    BY <1>2, LocalTyped
  <1>4. PICK k : k = call[s].tried
    OBVIOUS
  <1>5. k \in Lanes
    BY <1>2, <1>3, <1>4, LanesAssumption DEF Lanes
  <1>6. PICK l : l = (own[s] + k) % LaneCount
    OBVIOUS
  <1>7. l \in Lanes /\ Offset(own[s], l) = k
    BY <1>3, <1>5, <1>6, ScanLane, OffsetOfScan
  <1>8. call'[s] = [active |-> TRUE, tried |-> k + 1, probing |-> TRUE, lane |-> l]
    BY <1>4, <1>6 DEF Advance, TypeOK
  <1>9. \A m \in Lanes : bypassed[s][m] = 0 \/ Offset(own[s], m) >= k + 1 \/ l = m
    <2> SUFFICES ASSUME NEW m \in Lanes, bypassed[s][m] # 0, l # m
                 PROVE  Offset(own[s], m) >= k + 1
      OBVIOUS
    <2>1. Offset(own[s], m) >= k
      BY <1>2, <1>4 DEF ScanInv, LeftBehindFresh
    <2>2. Offset(own[s], m) \in Nat /\ Offset(own[s], m) # k
      BY <1>3, <1>7, OffsetRange
    <2> QED
      BY <1>5, <2>1, <2>2, LanesAssumption DEF Lanes
  <1>10. /\ call'[s].probing /\ call'[s].active
         /\ call'[s].tried = k + 1 /\ call'[s].lane = l
    BY <1>8
  <1> QED
    BY <1>1, <1>7, <1>9, <1>10, CallMoves

\* A lane found empty is left behind with nothing taken past it.
LEMMA MissScan ==
    ASSUME TypeOK, ScanInv, NEW s \in Processes, Miss(s)
    PROVE  ScanInv'
  <1>1. UNCHANGED <<queue, own, bypassed>> /\ \A t \in Local : t # s => call'[t] = call[t]
    BY DEF Miss, TypeOK, Processes
  <1>2. call[s].probing /\ queue[call[s].lane] = 0
    BY DEF Miss
  <1>3. /\ ~call'[s].probing
        /\ call'[s].active = call[s].active /\ call'[s].tried = call[s].tried
    BY DEF Miss, TypeOK
  <1>4. ASSUME s \in Local, NEW l \in Lanes, call[s].active
        PROVE  bypassed[s][l] = 0 \/ Offset(own[s], l) >= call[s].tried
    <2>1. CASE l = call[s].lane
      BY <1>2, <1>4, <2>1 DEF ScanInv, EmptyFresh
    <2>2. CASE l # call[s].lane
      BY <1>4, <2>2 DEF ScanInv, LeftBehindFresh
    <2> QED
      BY <2>1, <2>2
  <1> QED
    BY <1>1, <1>3, <1>4, CallMoves

\* A scan that ends without a job has left every lane behind.
LEMMA ReturnNoneScan ==
    ASSUME TypeOK, ScanInv, NEW s \in Processes, ReturnNone(s)
    PROVE  ScanInv'
  <1>1. /\ UNCHANGED <<queue, bypassed>>
        /\ \A t \in Local : t # s => call'[t] = call[t] /\ own'[t] = own[t]
    BY DEF ReturnNone, TypeOK, Processes
  <1>2. call[s].active /\ ~call[s].probing /\ call[s].tried = LaneCount
    BY DEF ReturnNone
  <1>3. ~call'[s].active /\ ~call'[s].probing
    BY DEF ReturnNone, TypeOK, NoCall
  <1>4. ASSUME s \in Local
        PROVE  \A l \in Lanes : bypassed[s][l] = 0 /\ Offset(own'[s], l) < LaneCount
    <2>1. own[s] \in Lanes
      BY <1>4, LocalTyped
    <2>2. own'[s] = NextIndex(own[s])
      BY <1>4 DEF ReturnNone, TypeOK, NextIndex
    <2>3. own'[s] \in Lanes
      BY <2>1, <2>2, OffsetAfter
    <2>4. \A l \in Lanes : Offset(own[s], l) \in Nat /\ Offset(own[s], l) < LaneCount
      BY <2>1, OffsetRange
    <2>5. \A l \in Lanes : Offset(own'[s], l) \in Nat /\ Offset(own'[s], l) < LaneCount
      BY <2>3, OffsetRange
    <2>6. \A l \in Lanes : bypassed[s][l] = 0
      BY <1>2, <1>4, <2>4, LanesAssumption DEF ScanInv, LeftBehindFresh
    <2> QED
      BY <2>5, <2>6
  <1>5. ProbesInOrder' /\ LeftBehindFresh'
    BY <1>1, <1>3 DEF ScanInv, ProbesInOrder, LeftBehindFresh, Offset
  <1>6. EmptyFresh'
    BY <1>1 DEF ScanInv, EmptyFresh
  <1>7. WithinRound'
    <2> SUFFICES ASSUME NEW t \in Local, NEW l \in Lanes
                 PROVE  bypassed'[t][l] + Offset(own'[t], l) < LaneCount
      BY DEF WithinRound, Offset
    <2>1. CASE t = s
      <3>1. own'[t] \in Lanes
        BY <2>1, LocalTyped, OffsetAfter DEF ReturnNone, TypeOK, NextIndex
      <3>2. Offset(own'[t], l) \in Nat
        BY <3>1, OffsetRange
      <3> QED
        BY <1>1, <1>4, <2>1, <3>2
    <2>2. CASE t # s
      BY <1>1, <2>2 DEF ScanInv, WithinRound
    <2> QED
      BY <2>1, <2>2
  <1> QED
    BY <1>5, <1>6, <1>7 DEF ScanInv

\* A job taken from lane l counts once against the lanes that have work, and the
\* next scan starts behind l: each of them is at least that much nearer.
LEMMA ClaimScan ==
    ASSUME TypeOK, ScanInv, NEW s \in Processes, NEW l \in Lanes, ClaimFrom(s, l)
    PROVE  ScanInv'
  <1>1. call[s].probing /\ call[s].lane = l /\ queue[l] > 0
    BY DEF ClaimFrom
  <1>2. /\ ~call'[s].active /\ ~call'[s].probing
        /\ \A t \in Local : t # s => call'[t] = call[t] /\ own'[t] = own[t]
        /\ s \in Local => own'[s] = NextIndex(l)
    BY DEF ClaimFrom, TypeOK, Processes, NoCall, OwnAfterClaim, NextIndex
  <1>3. \A m \in Lanes : queue'[m] = IF m = l THEN queue[m] - 1 ELSE queue[m]
    BY DEF ClaimFrom, TypeOK
  <1>4. \A t \in Local, m \in Lanes :
            bypassed'[t][m] =
                IF m = l THEN IF t = s \/ queue[l] = 1 THEN 0 ELSE bypassed[t][m]
                ELSE IF t = s /\ queue[m] > 0 THEN bypassed[t][m] + 1 ELSE bypassed[t][m]
    BY DEF ClaimFrom
  <1>5. \A t \in Local, m \in Lanes :
            /\ bypassed[t][m] \in Nat
            /\ t # s => bypassed'[t][m] = bypassed[t][m] \/ bypassed'[t][m] = 0
    BY <1>4, LocalTyped
  <1>6. ProbesInOrder'
    BY <1>2 DEF ScanInv, ProbesInOrder, Offset
  <1>7. LeftBehindFresh'
    BY <1>2, <1>5 DEF ScanInv, LeftBehindFresh, Offset
  <1>8. EmptyFresh'
    <2> SUFFICES ASSUME NEW t \in Local, NEW m \in Lanes, queue'[m] = 0
                 PROVE  bypassed'[t][m] = 0
      BY DEF EmptyFresh
    <2>1. queue[m] \in Nat
      BY LocalTyped
    <2>2. CASE m = l
      BY <1>3, <1>4, <2>1, <2>2
    <2>3. CASE m # l
      BY <1>3, <1>4, <2>1, <2>3 DEF ScanInv, EmptyFresh
    <2> QED
      BY <2>2, <2>3
  <1>9. WithinRound'
    <2> SUFFICES ASSUME NEW t \in Local, NEW m \in Lanes
                 PROVE  bypassed'[t][m] + Offset(own'[t], m) < LaneCount
      BY DEF WithinRound, Offset
    <2>1. own[t] \in Lanes /\ call[t].tried \in Nat
      BY LocalTyped
    <2>2. /\ Offset(own[t], m) \in Nat /\ Offset(own[t], l) \in Nat
          /\ Offset(own[t], m) = Offset(own[t], l) => m = l
      BY <2>1, OffsetRange
    <2>3. bypassed[t][m] + Offset(own[t], m) < LaneCount
      BY DEF ScanInv, WithinRound
    <2>4. CASE t # s
      BY <1>2, <1>5, <2>2, <2>3, <2>4, LanesAssumption
    <2>5. CASE t = s
      <3>1. own'[t] = NextIndex(l) /\ NextIndex(l) \in Lanes
        BY <1>2, <2>1, <2>5, OffsetAfter
      <3>2. Offset(own'[t], m) \in Nat /\ Offset(own'[t], m) < LaneCount
        BY <3>1, OffsetRange
      <3>3. CASE m = l
        BY <1>4, <2>5, <3>2, <3>3
      <3>4. CASE m # l /\ Offset(own[t], m) < Offset(own[t], l)
        <4>1. call[t].active /\ call[t].tried = Offset(own[t], l) + 1
          BY <1>1, <2>5 DEF ScanInv, ProbesInOrder
        <4>2. bypassed[t][m] = 0
          BY <1>1, <2>2, <2>5, <3>4, <4>1 DEF ScanInv, LeftBehindFresh
        <4>3. bypassed'[t][m] \in 0 .. 1
          BY <1>4, <2>5, <3>4, <4>2
        <4>4. Offset(own'[t], m) < LaneCount - 1
          BY <2>1, <3>1, <3>4, OffsetAfter
        <4> QED
          BY <3>2, <4>3, <4>4, LanesAssumption
      <3>5. CASE m # l /\ Offset(own[t], l) < Offset(own[t], m)
        <4>1. Offset(own'[t], m) = Offset(own[t], m) - Offset(own[t], l) - 1
          BY <2>1, <3>1, <3>5, OffsetAfter
        <4>2. bypassed'[t][m] = bypassed[t][m] \/ bypassed'[t][m] = bypassed[t][m] + 1
          BY <1>4, <2>5, <3>5
        <4> QED
          BY <1>5, <2>2, <2>3, <4>1, <4>2, LanesAssumption
      <3> QED
        BY <2>2, <3>3, <3>4, <3>5
    <2> QED
      BY <2>4, <2>5
  <1> QED
    BY <1>6, <1>7, <1>8, <1>9 DEF ScanInv

\* Every step keeps the accounts of the local scans.
LEMMA ScanStep == TypeOK /\ ScanInv /\ [Next]_vars => ScanInv'
  <1> SUFFICES ASSUME TypeOK, ScanInv, [Next]_vars PROVE ScanInv'
    OBVIOUS
  <1>1. CASE UNCHANGED vars
    BY <1>1 DEF vars, ScanInv, ProbesInOrder, LeftBehindFresh, WithinRound, EmptyFresh, Offset
  <1>2. CASE \E l \in Lanes : Submit(l)
    BY <1>2, SubmitScan
  <1>3. ASSUME NEW s \in Processes, Step(s) \/ Crash(s) PROVE ScanInv'
    BY <1>3, BeginCrashScan, ReserveScan, AdvanceScan, MissScan, ReturnNoneScan, ClaimScan
       DEF Step
  <1> QED
    BY <1>1, <1>2, <1>3 DEF Next

\* A local scheduler serves a lane that has work after at most one job of each other
\* lane, for every number of lanes and schedulers, however its scans interleave
\* with submissions, with the claims of other processes and with crashes.
THEOREM BypassBounded == Spec => []BoundedBypass
  <1>1. Init => ScanInv
    <2> SUFFICES ASSUME Init PROVE ScanInv
      OBVIOUS
    <2>1. \A s \in Local : ~call[s].active /\ ~call[s].probing
      BY DEF Init, NoCall, Processes
    <2>2. \A s \in Local : own[s] = 0 /\ \A l \in Lanes : bypassed[s][l] = 0
      BY DEF Init
    <2>3. 0 \in Lanes
      BY LanesAssumption DEF Lanes
    <2>4. WithinRound
      BY <2>2, <2>3, OffsetRange DEF WithinRound
    <2> QED
      BY <2>1, <2>2, <2>4 DEF ScanInv, ProbesInOrder, LeftBehindFresh, EmptyFresh
  <1>2. TypeOK /\ ScanInv => BoundedBypass
    <2> SUFFICES ASSUME TypeOK, ScanInv, NEW s \in Local, NEW l \in Lanes
                 PROVE  bypassed[s][l] < LaneCount
      BY DEF BoundedBypass
    <2>1. bypassed[s][l] \in Nat /\ Offset(own[s], l) \in Nat
      BY LocalTyped, OffsetRange
    <2>2. bypassed[s][l] + Offset(own[s], l) < LaneCount
      BY DEF ScanInv, WithinRound
    <2> QED
      BY <2>1, <2>2, LanesAssumption
  <1> QED
    BY <1>1, <1>2, ScanStep, LanesTyped, PTL DEF Spec
=============================================================================

--------------------------- MODULE MCScheduleDispatch ---------------------------
(* Instances of ScheduleDispatch for TLC.                                        *)
EXTENDS ScheduleDispatch, TLC

CONSTANTS p1, p2, r1, r2

MCOnePoller == {p1}
MCTwoPollers == {p1, p2}
MCTwoRegistrars == {r1, r2}
MCOneRegistrar == {r1}
MCSymmetry == Permutations({p1, p2}) \cup Permutations({r1, r2})

MCEpoch == {0}
MCOneSchedule == {1}
MCTwoSchedules == {1, 2}
MCOneVersion == {1}
MCThreeVersions == {1, 2, 3}

Declares(policy, n, lookback, occurrences) ==
    [misfire_policy |-> policy, max_catch_up |-> n, max_lookback |-> lookback,
     occurrences |-> occurrences]

\* One schedule: version 1 catches up one by one, version 2 fires once, version 3 skips
\* and may fall behind its review boundary.
MCByVersion ==
    [k \in Keys |->
        CASE k[2] = 1 -> Declares("catch_up", 1, 9, {1, 2})
          [] k[2] = 2 -> Declares("fire_once", 1, 9, {1, 2})
          [] OTHER -> Declares("skip", 1, 1, {1, 2})]

\* Two schedules with one version each that stay within their review boundary.
MCBySchedule ==
    [k \in Keys |->
        IF k[1] = 1 THEN Declares("catch_up", 1, 9, {1, 2}) ELSE Declares("fire_once", 1, 9, {2})]
=============================================================================

---------------------------- MODULE MCLaneScheduler ----------------------------
(* An instance of LaneScheduler for TLC.                                        *)
EXTENDS LaneScheduler

CONSTANTS s1, s2, s3

MCShared == {s1, s2}
MCLocal == {s3}
=============================================================================

CONSTANTS
    s1 = s1
    s2 = s2
    s3 = s3
    FirstLane = 0
    LaneCount = 2
    Local <- MCLocal
    Shared <- MCShared
    QueueBound = 2
    CrashBound = 1
SPECIFICATION FairSpec
INVARIANTS
    SharedRotation
    BoundedBypass
    TypeOK
PROPERTIES
    NoLaneStarves

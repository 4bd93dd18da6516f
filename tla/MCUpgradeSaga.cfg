CONSTANTS
    o1 = o1
    o2 = o2
    e1 = e1
    None = None
    StepCount = 6
    Kind <- MCKind
    Actors <- MCActors
    Executors <- MCExecutors
    CrashBound = 3
SPECIFICATION FairSpec
INVARIANTS
    TypeOK
    CompletedAtTarget
    RolledBackAtSource
    ChangedIsPrefix
PROPERTIES
    RunSettles
CHECK_DEADLOCK FALSE

CONSTANTS
    o1 = o1
    o2 = o2
    e1 = e1
    None = None
    StepCount = 6
    Kind <- MCKind
    Actors <- MCActors
    Executors <- MCExecutors
    CrashBound = 1
SPECIFICATION FairSpec
PROPERTIES
    RollbackSettles
CHECK_DEADLOCK FALSE

CONSTANTS
    p1 = p1
    p2 = p2
    r1 = r1
    r2 = r2
    None = None
    Schedules <- MCTwoSchedules
    Versions <- MCOneVersion
    Definition <- MCBySchedule
    Pollers <- MCTwoPollers
    Registrars <- MCOneRegistrar
    Limit = 1
    MaxTime = 2
    CrashBound = 1
    MaxSkew = 0
    Cursors <- MCEpoch
SPECIFICATION FairSpec
PROPERTIES
    CatchesUp

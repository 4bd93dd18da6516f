CONSTANTS
    p1 = p1
    p2 = p2
    r1 = r1
    r2 = r2
    None = None
    Schedules <- MCOneSchedule
    Versions <- MCThreeVersions
    Definition <- MCByVersion
    Pollers <- MCOnePoller
    Registrars <- MCTwoRegistrars
    Limit = 1
    MaxTime = 2
    CrashBound = 0
    MaxSkew = 1
    Cursors <- MCEpoch
SPECIFICATION Spec
INVARIANTS
    NothingLost
    EvidenceTiles
    NewestIsActive
PROPERTIES
    SupersededIsFrozen
SYMMETRY
    MCSymmetry

CONSTANTS
    e1 = e1
    e2 = e2
    e3 = e3
    maker = maker
    checker = checker
    c1 = c1
    c2 = c2
    c3 = c3
    c4 = c4
    c5 = c5
    p1 = p1
    None = None
    Entries <- MCThreeEntries
    Originals <- MCOriginal
    Actors <- MCActors
    Commands <- MCFiveCommands
    Amounts <- MCAmounts
    Periods <- MCOnePeriod
    Windows <- MCWindows
    Dates <- MCOneDate
    Sources <- MCSources
    FirstWindow <- MCFirstWindow
SPECIFICATION Spec
INVARIANTS
    TypeOK
    StorageVerifies
    IndependentPosting
    ReversalsNetOut
PROPERTIES
    ClosedPeriodFrozen
SYMMETRY
    MCSymmetry

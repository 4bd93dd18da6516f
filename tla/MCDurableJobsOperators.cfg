CONSTANTS
    Jobs = {1}
    IdemKeys = {k1}
    Lanes = {l1}
    Workers = {w1}
    Operators = {o1, o2}
    Partitions = {p1}
    Caps = {1}
    NoCap = NoCap
    TotalUnits = 1
    RetryCeiling = 1
    MaxTime = 1
    MaxVersion = 5
    MaxLeaseEvents = 4
    None = None
SPECIFICATION Spec
SYMMETRY MCSymmetry
CHECK_DEADLOCK FALSE
INVARIANTS AckedCommandsCommitted
PROPERTIES TerminalIsFinal

CONSTANTS
    Jobs = {1}
    IdemKeys = {k1}
    Lanes = {l1}
    Workers = {w1, w2}
    Operators = {}
    Partitions = {p1, p2}
    Caps = {NoCap}
    NoCap = NoCap
    TotalUnits = 2
    RetryCeiling = 1
    MaxTime = 3
    MaxVersion = 5
    MaxLeaseEvents = 5
    None = None
SPECIFICATION Spec
SYMMETRY MCSymmetry
CHECK_DEADLOCK FALSE
INVARIANTS TypeOK VersionFencesStaleWorkers TransitionHistory LeaseEvidence EffectsExactlyOnce
PROPERTIES FencedWrites ImplementsLifecycle

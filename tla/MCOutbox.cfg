CONSTANTS
    e1 = e1
    p1 = p1
    p2 = p2
    w1 = w1
    Nobody = Nobody
    Processes <- MCProcesses
    WorkerIds <- MCWorkerIds
    WorkerIdOf <- MCSharedLabel
    Events <- MCEvents
    MaxAttempts = 2
    BatchLimit = 1
    ReplayBound = 4
SPECIFICATION FairSpec
INVARIANTS
    EvidenceExplainsState
    GuardsAdmitRepository
    NeverStranded
    AcknowledgedWasDelivered
PROPERTIES
    LeaseIsFenced
    OneDeliveryPerClaim
    EventuallySettled

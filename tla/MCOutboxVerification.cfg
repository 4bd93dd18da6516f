CONSTANTS
    e1 = e1
    p1 = p1
    w1 = w1
    Nobody = Nobody
    Events <- MCEvents
    Processes <- MCProcesses
    WorkerIds <- MCWorkerIds
    WorkerIdOf <- MCLabel
    MaxAttempts = 2
    BatchLimit = 1
    ReplayBound = 0
SPECIFICATION ReaderSpec
INVARIANTS
    RefusedOnlyIfDiscontinuous

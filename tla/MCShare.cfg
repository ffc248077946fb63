SPECIFICATION Spec
CONSTANTS
    w1 = w1
    w2 = w2
    r1 = r1
    Worker <- MCWorker
    Record <- MCRecord
    NoRecord = NoRecord
    Request <- MCRequest
    BatchSize = 2
    MaxJobs = 2
    MaxFaults = 1
SYMMETRY
    MCSymmetry
INVARIANTS
    SuccessIsReal
    RunningIsAttended
    PendingIsQueued
    SingleRetry

SPECIFICATION MCSpec
CONSTANTS
    MaxRequests = 2
    Stream = {1, 2, 3}
    Sender = {1, 2}
    User = {"u", "v"}
    UserOf <- MCUserOf
    NoStream = 0
    ChannelCap = 1
    PoolWorker = {1, 2}
    Items = 4
    DataCap = 2
    ErrorCap = 2
    Worker = {w1, w2}
    None = None
    NoKey = NoKey
    NoResult = NoResult
    Absent = Absent
    InProgress = InProgress
    Key = {"k1", "k2"}
    Result = {"t1", "t2"}
    Request <- MCRequest
    Faults = {"panic"}
INVARIANTS
    RequestsDrained
    FailureIsReported
    NeverSendsOnClosed
    NoOrphanMarker
PROPERTIES
    FailureEndsProcess
    SignalEndsProcess
    HubNeverStalls
    PoolEnds
    KeyRecovers
CHECK_DEADLOCK FALSE

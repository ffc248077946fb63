SPECIFICATION Spec
CONSTANTS
    Worker = {w1, w2}
    None = None
    NoKey = NoKey
    NoResult = NoResult
    Absent = Absent
    InProgress = InProgress
    Key <- MCKey
    Result <- MCResult
    Request <- MCRequest
    Faults = {"expiry"}
PROPERTY
    CompletedByOwner

SPECIFICATION Spec
CONSTANTS
    Worker = {w1, w2}
    None = None
    NoKey = NoKey
    NoResult = NoResult
    Absent = Absent
    InProgress = InProgress
    Key <- MCKey
    Result <- MCResult
    Request <- MCRequest
    Faults = {"callFailure", "replyLoss", "expiry", "panic", "crash"}
INVARIANTS
    AnswerIsTrue
    OneHolder
    AnswerStands
    PostedOncePerKey
PROPERTIES
    CompletedByHolder
    DeclinedMeansNotPosted

SPECIFICATION FairHistory
CONSTANTS
    Relay = {r1, r2}
    Event <- MCEvent
    CreatedAt <- MCCreatedAt
    BatchSize = 2
    Deadlines = TRUE
    LateServer = TRUE
    MaxFaults = 2
INVARIANTS
    OlderFirst
    DuplicatesBounded
PROPERTY
    ImplementsDelivery
    EventuallyProcessed
CHECK_DEADLOCK FALSE

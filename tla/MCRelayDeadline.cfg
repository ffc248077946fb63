SPECIFICATION FairHistory
CONSTANTS
    Relay = {r1}
    Event <- MCEvent
    CreatedAt <- MCCreatedAt
    BatchSize = 2
    Deadlines = TRUE
    LateServer = FALSE
    MaxFaults = 1
PROPERTY
    AtLeastOnce
CHECK_DEADLOCK FALSE

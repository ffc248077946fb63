SPECIFICATION Spec
CONSTANT
    MaxRequests = 2
INVARIANT
    ShutdownReachesServer
CHECK_DEADLOCK FALSE

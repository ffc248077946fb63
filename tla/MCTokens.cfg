SPECIFICATION Spec
CONSTANTS
    Name = {"a"}
    Password = {"p"}
    MaxUsers = 1
    Worker = {w1, w2}
    Page = {1, 2}
    FirstPage = {0, 1}
    MaxConsents = 2
    MaxFaults = 1
SYMMETRY Workers
INVARIANTS
    StateUsedOnce
    TokensAreOwn
    OwnTokenKept
    LinkedPageStays
CHECK_DEADLOCK FALSE

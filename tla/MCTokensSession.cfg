SPECIFICATION Spec
CONSTANTS
    Name = {"a", "b"}
    Password = {"p"}
    MaxUsers = 2
    Worker = {w1}
    Page = {1}
    FirstPage = {0}
    MaxConsents = 1
    MaxFaults = 0
INVARIANT
    TokenOfStarter
CHECK_DEADLOCK FALSE

CONSTANTS
    Items = 4
    Addresses <- FirstAndThird
    Window = 2
    Manual = TRUE
    PerMessage = 1
    MaxWindow = 1
    MaxConns = 2
    MaxFaults = 1
SPECIFICATION FairSpec
INVARIANTS
    OwnsTheConnection
    LockIsFreed
    QueueIsBounded
PROPERTIES
    SuccessIsComplete
    StreamSettles
CHECK_DEADLOCK FALSE

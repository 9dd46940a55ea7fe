CONSTANTS
    Sockets = {s1, s2}
    NoSocket = NoSocket
    MaxRetry = 2
    MaxDeferred = 2
    MaxStarts = 2
SPECIFICATION FairSpec
INVARIANTS
    AlwaysConsistent
PROPERTIES
    ImplementsLifecycle
    Reconnects
    DeadPeerNoticed
CHECK_DEADLOCK FALSE

CONSTANTS
    Sockets = {s1, s2}
    NoSocket = NoSocket
    MaxRetry = 1
    MaxDeferred = 1
    MaxJoinTimers = 2
SPECIFICATION FairSpec
PROPERTIES
    Joins
CHECK_DEADLOCK FALSE

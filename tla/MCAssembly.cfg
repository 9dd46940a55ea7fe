CONSTANTS
    None = None
    Byte = 32
    Short = 2
    Long = 4
    HashSize = 2
    MaxPush = 8
    MaxEntries = 4
    MaxShielded = 3
    MaxText = 2
    MaxProof = 12
    MaxArg = 3
    HTR = 200
    Prime = 3
    MaxHidden = 600
    MaxDomain = 3
    Nonce = 77
    Stored = {1}
    Plans <- MCPlans
    Spent <- MCSpent
    Owned <- MCOwned
    Clock <- MCClock
    Parents <- MCParents
SPECIFICATION Spec
CHECK_DEADLOCK FALSE
INVARIANTS
    ReadsBack
    BalanceCloses
    SignaturesHold
    HistoryIsRight

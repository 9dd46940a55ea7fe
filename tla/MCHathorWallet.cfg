CONSTANTS
    Txs <- TwoTxs
    AddrOf <- SameAddress
    GapLimit = 1
    MaxVer = 3
    MaxConns = 3
    MaxCount = 2
    Plans <- AllPlans
SPECIFICATION FairSpec
INVARIANTS
    CountedOnce
    HistoryCurrent
    GapIsWatched
PROPERTIES
    BecomesReady
    StopQuiesces
CHECK_DEADLOCK FALSE

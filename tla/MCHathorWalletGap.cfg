CONSTANTS
    Txs <- TwoTxs
    AddrOf <- BeyondTheGap
    GapLimit = 1
    MaxVer = 1
    MaxConns = 1
    MaxCount = 2
    Plans <- OnceEach
SPECIFICATION Spec
INVARIANTS
    CountedOnce
CHECK_DEADLOCK FALSE

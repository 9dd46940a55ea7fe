CONSTANTS
    Txs <- ThreeTxs
    Outs <- FourOuts
    TxOf <- TxOfOut
    InsOf <- InsOfTx
    LockOf <- Locks
    MaxTime = 1
    MaxHeight = 3
    MaxEvents = 4
    MaxReloads = 1
    Calm = TRUE
SPECIFICATION Spec
INVARIANTS
    CountsTheHistory
    NoVoidedUtxo
    BalanceIsCorrect
    NoUtxoLost
CHECK_DEADLOCK FALSE

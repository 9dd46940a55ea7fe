SPECIFICATION FairSpec
CONSTANTS
    s1 = s1  s2 = s2  u1 = u1  u2 = u2
    Sends = {s1, s2}
    Utxos = {u1, u2}
    Amount <- MCAmount
    Given <- MCGiven
    MaxTxMiningRetries = 2
    MaxRuns <- MCRuns
CHECK_DEADLOCK FALSE
INVARIANTS
    SelectionHasTimer
    FailureReleases
    InputsAreOwn
PROPERTIES
    Settles

SPECIFICATION TxSpec
CONSTANTS
    HTR = HTR  d = d  f = f  nd = nd  nf = nf
    h1 = h1  h2 = h2  h3 = h3  hs = hs  d1 = d1  d2 = d2  f1 = f1  f2 = f2
    mint = mint  melt = melt  melts = melts  both = both
    TokenOrder <- MCTokenOrder
    Version <- MCVersion
    UtxoOrder <- MCUtxoOrder
    UtxoOf <- MCUtxoOf
    Requests <- MCRequests
    DepositNumerator = 1
    DepositDenominator = 2
    FeePerOutput = 1
    FeePerAmountShielded = 1
    FeePerFullShielded = 2
    MaxInputs = 6
    MaxOutputs = 6
    MaxShielded = 5
CHECK_DEADLOCK FALSE
INVARIANTS
    TxIsBalanced
    FeeIsExact
    UtxosAreRespected
    EnoughIsEnough
    SelectionIsFewest

SPECIFICATION SwapSpec
CONSTANTS
    Wallets = {"alice", "bob"}
    Tokens = {"HTR", "TKA"}
    HTR = "HTR"
    None = None
    Utxos <- MCUtxos
    Owner <- MCOwner
    Token <- MCToken
    Value <- MCValue
    Gives <- MCGives
    MaxChanges = 4
    MaxVersion = 2
    Hasty = {"alice"}
    Reopens = FALSE
INVARIANTS
    InputsOnce
    SignaturesAreOfTheTx
CHECK_DEADLOCK FALSE

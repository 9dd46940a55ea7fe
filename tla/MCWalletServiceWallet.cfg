SPECIFICATION Spec
CONSTANTS
    MaxTx = 2
    GapLimit = 2
    MaxPolls = 2
    MaxRenews = 2
    MaxEvents = 4
INVARIANTS
    ReadyIsComplete
    AppIsCurrent
    AddressIsRight
CHECK_DEADLOCK FALSE

CONSTANTS
    None = None
    Hardened = 1000
    Origins <- MCOrigins
    Hasty <- MCHasty
    Pins = {"1111", "2222"}
    Passwords = {"1111", "secret"}
    Indexes = 2
    Participants = {1, 2, 3}
SPECIFICATION Spec
CHECK_DEADLOCK FALSE
INVARIANTS
    PinOpensTheKeys
    AddressesAreOurs
    MultisigVerifies

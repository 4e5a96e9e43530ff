SPECIFICATION LedgerSpec
CONSTANTS
    Pins = {p1, p2, p3}
    HSM_PIN = p1
    MaxCount = 4
    DebugBuild = TRUE
    FlashFails = TRUE
    MaxResets = 3
    Blank = Blank
    Torn = Torn
INVARIANTS
    TypeOK
    FailurePersistedBeforeAnswer
    NoForeignPin
    PinAndCountKept
PROPERTY
    CallsEnd

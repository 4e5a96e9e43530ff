SPECIFICATION LedgerSpec
CONSTANTS
    n1 = n1
    n2 = n2
    Names = {n1}
    Blank = Blank
    Torn = Torn
    NoCmd = NoCmd
    NSlots = 2
    Groups = {1, 2}
    CanRead = {1}
    CanWrite = {1, 2}
    CanReceive = {}
    MaxChunks = 1
    MaxWrites = 3
    MaxResets = 1
    FlashFails = TRUE
    DebugBuild = TRUE
INVARIANTS
    AcknowledgedKept
    ReadPermitted

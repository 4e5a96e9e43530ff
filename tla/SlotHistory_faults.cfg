SPECIFICATION HistorySpec
CONSTANTS
    Names = {n1}
    Blank = Blank
    Torn = Torn
    NoCmd = NoCmd
    NSlots = 2
    Groups = {0, 1}
    CanRead = {1}
    CanWrite = {0, 1}
    CanReceive = {}
    MaxChunks = 2
    MaxWrites = 2
    MaxResets = 2
    FlashFails = TRUE
    DebugBuild = TRUE
    NoSlot = NoSlot
PROPERTY
    ImplementsDirectory
INVARIANT
    ShadowMatchesUnlessFailed

SPECIFICATION Spec
CONSTANTS
    n1 = n1
    n2 = n2
    Names <- MCNames
    Blank = Blank
    Torn = Torn
    NoCmd = NoCmd
    NSlots = 2
    Groups = {1}
    CanRead = {1}
    CanWrite = {1}
    CanReceive = {1}
    MaxChunks = 2
    MaxWrites = 2
    MaxResets = 1
    FlashFails = TRUE
    DebugBuild = TRUE
INVARIANTS
    TypeOK
    HeaderComplete
    ProgramsErasedFlash
PROPERTIES
    BoundedFlashWork
    CommandsEnd

SPECIFICATION Spec
CONSTANTS
    Ends = {a, b}
    Packets <- MCPackets
    BlockSize = 4
    Limits = {4, 400}
    Strays = {37, 65}
    Empty = Empty
    MaxCalls = 4
    MaxNoise = 1
    MaxResets = 1
INVARIANTS
    TypeOK
    AckedMeansRead
    WholePacketOrNothing
    SuccessLeavesLineClean
PROPERTIES
    CallsBounded
    CallsEnd
CHECK_DEADLOCK FALSE

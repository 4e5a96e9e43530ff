SPECIFICATION Spec
CONSTANTS
    d1 = d1
    d2 = d2
    x = x
    y = y
    Devices <- MCDevices
    Slots = {1, 2}
    BadSlot = 9
    Groups = {1, 2, 3}
    CanReceive <- MCCanReceive
    Overlapping <- MCOverlapping
    Data = {x, y}
    InitialFiles <- MCInitialFiles
    NoFile = NoFile
    HostFiles <- MCHostFiles
    Unsealed = Unsealed
    Nonces = {0}
    Nothing = Nothing
    Noise = Noise
    NoTuple = NoTuple
    RingSize = 1
    MaxCommands = 5
    MaxResets = 1
INVARIANTS
    TypeOK
PROPERTIES
    ImplementsExchange
    CommandsAdvance
    CommandsEnd
CHECK_DEADLOCK FALSE

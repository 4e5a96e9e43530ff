SPECIFICATION Spec
CONSTANTS
    d1 = d1
    d2 = d2
    x = x
    y = y
    Devices <- MCDevices
    Slots = {1}
    BadSlot = 9
    Groups = {1}
    CanReceive <- MCOneGroup
    Overlapping <- MCSameGroup
    Data = {x}
    InitialFiles <- MCOneFile
    NoFile = NoFile
    HostFiles = {}
    Unsealed = Unsealed
    Nonces = {0, 1}
    Nothing = Nothing
    Noise = Noise
    NoTuple = NoTuple
    RingSize = 2
    MaxCommands = 8
    MaxResets = 0
INVARIANTS
    NoReplayInWindow
CHECK_DEADLOCK FALSE

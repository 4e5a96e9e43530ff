SPECIFICATION Spec
CONSTANTS
    Period = 8
    XferTicks = 2
    WorkTicks = 2
    DelayTicks = 9
    KickEvery = 2
    PeerBytes = 3
    SeedWords = 4
    NonceWords = 1
INVARIANTS
    TypeOK
    LocalWorkNotBitten
PROPERTIES
    ServiceNears
    BackInService

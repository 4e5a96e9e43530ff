SPECIFICATION Spec
CONSTANTS
    BlockSize = 4
    LengthSize = 2
    MaxBytes = 13
    MaxMessages = 2
INVARIANTS
    TypeOK
    BytesInOrder
    DigestOfPaddedMessage
PROPERTIES
    UpdateAdvances
    UpdateEnds
CHECK_DEADLOCK FALSE

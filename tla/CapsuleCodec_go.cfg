CONSTANTS
    Base = 2
    Width = 3
    MaxLost = 1
    Values = {2, 5}
    Fields <- MCFields
    ChunkSizes = {0, 3, 6, 9}
    SwiftMax = 4
    SignedMax = 7
    Ephemeral <- MCEphemeral
    MaxMoves = 2
    None = None
SPECIFICATION MessageSpec
INVARIANTS GoOpensInKotlin
CHECK_DEADLOCK FALSE

CONSTANTS
    Lengths <- MCLengths
    ChunkSizes = {1}
    Tag = 2
    Counter = 4
    MaxChunks = 6
SPECIFICATION Spec
INVARIANT NoncesDiffer
CHECK_DEADLOCK FALSE

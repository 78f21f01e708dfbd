CONSTANTS
    Lengths <- MCLengths
    ChunkSizes = {1, 2, 3}
    Tag = 2
    Counter = 4
    MaxChunks = 6
SPECIFICATION FairSpec
INVARIANTS OutIsPrefix SealedIsWhole IntactOpens NoncesRepeatLate
PROPERTIES Returns ImplementsBoth
CHECK_DEADLOCK FALSE

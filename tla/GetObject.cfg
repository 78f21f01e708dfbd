CONSTANTS
    MaxChunks = 3
SPECIFICATION FairSpec
INVARIANTS TypeOK ResponseOwned
PROPERTIES ReleasedAtEnd DrainEnds ImplementsBoth

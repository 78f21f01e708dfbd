CONSTANTS
    MaxBlocks = 3
SPECIFICATION FairSpec
INVARIANTS TypeOK WireInOrder SuccessIsWhole TruncationIsReported RegularEndEndsBoth
PROPERTIES MultipartEnds EncryptorSettles ImplementsBoth

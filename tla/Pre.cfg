CONSTANTS
    N = 5
    Scalar <- Scalars
    Zero = 0
    One = 1
    Plus <- BigIntAdd
    Times <- BigIntMul
    Inverse <- GetInvert
    HashToCurve2 <- MCHash2
    HashToCurve3 <- MCHash3
    Sha3 <- MCSha3
    Users = {alice, bob}
    MaxShares = 2
    ChunkSizes = {1, 4}
    None = None
SPECIFICATION Spec
INVARIANTS TypeOK OwnerOpens ReceiverOpens
CHECK_DEADLOCK FALSE

SPECIFICATION Spec
CONSTANTS
    NC = 4
    ChunkBits <- MCChunkBits
INVARIANTS
    TypeOK
    Lockstep
    PlaneRecovered
    DecodedOrExhausted
    WithinBounds
    DepositedOnce
CHECK_DEADLOCK FALSE

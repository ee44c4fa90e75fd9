SPECIFICATION Spec
CONSTANTS
    NC = 3
    NB = 2
    Prec = 2
    ExpBits = 2
    ExpBias = 1
    MinExp <- MCMinExp
    TolExp = 1
    ChunkBits <- MCChunkBits
INVARIANT
    EMaxesStored
CHECK_DEADLOCK FALSE

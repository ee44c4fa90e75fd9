SPECIFICATION Spec
CONSTANTS
    NC = 2
    NB = 2
    Prec = 2
    ExpBits = 2
    ExpBias = 1
    MinExp <- MCMinExp
    TolExp <- MCMinExp
    ChunkBits <- MCWholeTile
INVARIANT
    ExponentsReturn
CHECK_DEADLOCK FALSE

SPECIFICATION FairSpec
CONSTANTS
    NC = 3
    NB = 2
    Prec = 2
    ExpBits = 2
    ExpBias = 1
    MinExp <- MCMinExp
    TolExp = 1
    ChunkBits <- MCChunkBits
INVARIANTS
    TypeOK
    DecodesThePrefix
    StaysInside
    AllBlocksCopied
    ChainWellFormed
PROPERTY
    Finishes
CHECK_DEADLOCK FALSE

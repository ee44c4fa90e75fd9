SPECIFICATION Spec
CONSTANTS
    CodecCases <- MCCodecCases
    InPlaceCases <- MCInPlaceCases
    FormCases <- MCFormCases
    TileCases <- MCTileCases
    LookupCases <- MCLookupCases
    Heights <- MCHeights
    Scale = 65536
    TileDims <- MCTileDims
    ZDims <- MCZDims
INVARIANTS
    Reconstructs
    AgreesWithOld
    TilesAddUp
    LiftsAreLegal
    SubbandsPartition
    LevelsAgree
    LookupsExact

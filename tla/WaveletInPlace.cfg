SPECIFICATION Spec
CONSTANTS
    CodecCases = {}
    InPlaceCases <- MCReliftedCases
    FormCases = {}
    TileCases = {}
    LookupCases = {}
    Heights <- MCHeights
    Scale = 65536
    TileDims <- MCTileDims
    ZDims <- MCZDims
INVARIANTS
    InverseUndoesForward

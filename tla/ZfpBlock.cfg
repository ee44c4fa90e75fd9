SPECIFICATION Spec
CONSTANTS
    Prec = 12
    Width = 14
    Samples <- MCSamples
    Cuts <- MCCuts
INVARIANTS
    NoExpansion
    WithinLoss
CHECK_DEADLOCK FALSE

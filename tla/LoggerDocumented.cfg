SPECIFICATION Spec
CONSTANTS
    FileNames = {f1, f2, f3}
    MaxSlots = 3
    NoFile = NoFile
INVARIANTS
    AbortsOnlyWhenFull
CHECK_DEADLOCK FALSE

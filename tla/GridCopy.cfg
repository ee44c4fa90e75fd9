SPECIFICATION Spec
CONSTANTS
    Cases <- MCCases
INVARIANTS
    RebuildsWindow
    CropsExactly
PROPERTIES
    CopiesEnd
CHECK_DEADLOCK FALSE

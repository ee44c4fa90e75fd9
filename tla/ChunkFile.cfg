SPECIFICATION FairSpec
CONSTANTS
    NT = 2
    NK = 3
    MaxGen = 2
INVARIANTS
    TypeOK
    HeaderIntegrity
    NewestFirst
    CompleteReadable
    InItsPlace
PROPERTIES
    AppendOnly
    Terminates
    Implements
CHECK_DEADLOCK FALSE

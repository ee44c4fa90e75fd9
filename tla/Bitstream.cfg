SPECIFICATION Spec
CONSTANTS
    ByteBits = 2
    WordBytes = 3
    MaxWrite = 4
    Limit = 8
INVARIANTS
    TypeOK
    InsideStream
    CleanAbove
PROPERTY
    Implements

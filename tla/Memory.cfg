SPECIFICATION Spec
CONSTANTS
    Clients = {c1, c2, c3}
    Blocks = {b1, b2, b3}
    Stack = stack
    Cap = 5
    MinBytes = 2
    MaxBytes = 3
    Sizes = {1, 2, 3, 4}
SYMMETRY Symmetry
INVARIANTS
    LiveApart
    LiveBacked
    NoLeak
    FreesItsOwn

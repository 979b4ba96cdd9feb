SPECIFICATION Spec
CONSTANTS
    Contexts = {c1, c2, c3, c4, c5}
    None = None
    InitSize = 1
    Word = 16
    MaxSize = 8
SYMMETRY Symmetry
INVARIANTS
    TableInv
PROPERTIES
    FailsOnlyAtWrap
CHECK_DEADLOCK FALSE

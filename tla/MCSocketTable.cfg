CONSTANTS
    Workers = {w1, w2}
    Loop = loop
    SetSize = 2
    Capacity = 1
    MaxId = 3
    MaxCalls = 3
SYMMETRY Symmetry
SPECIFICATION Spec
INVARIANTS TypeOK OneOwner RecoverAsserts CloseTold AcceptedBuffersOwn
CHECK_DEADLOCK FALSE

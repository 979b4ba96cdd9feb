CONSTANTS
    Services = {a, b}
    None = None
    MaxCo = 3
    MaxSession = 2
    MaxRoots = 2
    MaxExits = 1
SYMMETRY Symmetry
CONSTRAINT ShortInboxes
SPECIFICATION Spec
INVARIANTS TypeOK AnswerFindsCaller CallOwed
CHECK_DEADLOCK FALSE

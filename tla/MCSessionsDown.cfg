CONSTANTS
    Services = {a, b}
    None = None
    MaxCo = 3
    MaxSession = 2
    MaxRoots = 2
    MaxExits = 1
SYMMETRY Symmetry
SPECIFICATION Spec
INVARIANT DownIsDown
CHECK_DEADLOCK FALSE

SPECIFICATION Spec
CONSTANTS
    Workers = {w1, w2}
    Others = {o1}
    Contexts = {c1, c2}
    Boot = c1
    None = None
    Word = 16
    QueueLen = 3
    MessageLen = 2
    LossyPush = TRUE
    MayStop = FALSE
    MaxSends = 2
    MaxExits = 1
SYMMETRY Symmetry
INVARIANTS
    PoolInv
    ActorExclusive
    RefCount
    OnlyUnretainedDangles
    NoLostWakeup
CHECK_DEADLOCK FALSE

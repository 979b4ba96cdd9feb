SPECIFICATION FairSpec
CONSTANTS
    Workers = {w1, w2}
    Others = {o1}
    Contexts = {c1, c2}
    Boot = c1
    None = None
    Word = 16
    QueueLen = 3
    MessageLen = 3
    LossyPush = FALSE
    MayStop = FALSE
    MaxSends = 1
    MaxExits = 1
PROPERTIES
    QueueServed
CHECK_DEADLOCK FALSE

SPECIFICATION FairSpec
CONSTANTS
    Workers = {w1, w2}
    Others = {}
    Contexts = {c1}
    Boot = c1
    None = None
    Word = 16
    QueueLen = 3
    MessageLen = 3
    LossyPush = FALSE
    MayStop = FALSE
    MaxSends = 0
    MaxExits = 0
PROPERTIES
    LoadFailureExits
CHECK_DEADLOCK FALSE

SPECIFICATION FairSpec
CONSTANTS
    Workers = {w1, w2}
    Others = {}
    Contexts = {c1, c2}
    Boot = c1
    None = None
    Word = 16
    QueueLen = 3
    MessageLen = 3
    LossyPush = TRUE
    MayStop = TRUE
    MaxSends = 1
    MaxExits = 1
PROPERTIES
    StopEnds
    AllExitEnds
CHECK_DEADLOCK FALSE

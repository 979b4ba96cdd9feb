SPECIFICATION FairSpec
CONSTANTS
    Workers = {w1, w2}
    Others = {o1}
    Contexts = {c1}
    Boot = c1
    None = None
    Word = 16
    QueueLen = 3
    MessageLen = 3
    LossyPush = FALSE
    MayStop = FALSE
    MaxSends = 1
    MaxExits = 0
PROPERTIES
    MessagesHandled
CHECK_DEADLOCK FALSE

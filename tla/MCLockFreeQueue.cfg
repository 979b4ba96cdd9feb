SPECIFICATION FairSpec
CONSTANTS
    Threads = {t1, t2}
    Values = {v1, v2}
    NoValue = NoValue
    Size = 4
    Word = 16
    MaxIndex = 5
INVARIANTS
    QueueInv
    CountLag
PROPERTIES
    NoOverwrite
    FifoSpec
    CallsReturn

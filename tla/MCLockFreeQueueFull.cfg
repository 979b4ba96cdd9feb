SPECIFICATION Spec
CONSTANTS
    Threads = {t1, t2, t3}
    Values = {v1}
    NoValue = NoValue
    Size = 4
    Word = 16
    MaxIndex = 3
PROPERTIES
    RefusedOnlyWhenFull

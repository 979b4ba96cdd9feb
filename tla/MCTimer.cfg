CONSTANTS
    Main = main
    Producers = {main, w}
    NoMessage = NoMessage
    Messages <- TimerMessages
    Capacity = 2
    RecvMax = 1
    MaxTimers = 2
    SnMod = 2
SPECIFICATION Spec
INVARIANTS TypeOK EmInv NoSleepOnMessage CancelStops
PROPERTIES CancelHitsOwn StopEnds AddHandled
CHECK_DEADLOCK FALSE

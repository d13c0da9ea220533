CONSTANTS
    Timers = {t1, t2}
    None = None
    Size1 = 3
    Size2 = 2
    Size3 = 2
    Size4 = 2
    Delays = {0, 2, 3, 6, 11, 12, 23}
    Cycles = {0, 4}
    MaxFrame = 25
    MaxRaises = 1
SPECIFICATION Spec
INVARIANTS TypeOK MapFindsTimers
PROPERTIES ImplementsPendingTimers EveryTimerComes
CHECK_DEADLOCK FALSE

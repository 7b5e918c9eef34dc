SPECIFICATION FairSpec
CONSTANTS
    MaxTimers = 2
    MaxTime = 4
    Delays = {0, 2}
    Periods = {0, 1}
CHECK_DEADLOCK FALSE
INVARIANTS
    TimersSafe
PROPERTIES
    TimersOnTime
    EveryTimerFires
    StopEnds

SPECIFICATION Spec
CONSTANTS
    MaxTimers = 1
    MaxTime = 2
    Delays = {0, 2}
    Periods = {1}
CHECK_DEADLOCK FALSE
PROPERTY DeletedNeverFires

SPECIFICATION Spec
CONSTANTS
    Threads = {t1}
    Child = c1
    MAX_FILE_SIZE = 2
    MaxMessages = 4
    MaxSecond = 0
CHECK_DEADLOCK FALSE
INVARIANT RotationLosesNothing

SPECIFICATION SettledSpec
CONSTANT MaxBaseCalls = 3
CHECK_DEADLOCK FALSE
PROPERTY StopEndsThread

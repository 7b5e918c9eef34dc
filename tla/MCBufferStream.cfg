SPECIFICATION Spec
CONSTANTS
    Objects = {a, b}
    Items <- TwoItems
    Default = 2
    MaxBlocks = 2
    MaxSize = 3
    MaxCalls = 4
    MaxDropped = 1
SYMMETRY ObjectSymmetry
CHECK_DEADLOCK FALSE
INVARIANTS
    StreamIsFifo
PROPERTIES
    ByteBuffersSound

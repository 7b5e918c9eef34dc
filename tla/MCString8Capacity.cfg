SPECIFICATION AllSpec
CONSTANTS
    MaxKey = 2
    MapKeys = {1, 2}
    Maps = {m1, m2, m3}
    Values = {0, 1}
    Absent = Absent
    MaxData = 4
    RefMod = 4
    MaxSerial = 2
    Strings = {s1, s2}
    Chars = {1, 2}
    Space = 2
    Texts <- TwoTexts
    DefaultLen = 2
    MaxBlocks = 2
    MaxLen = 4
    BitMaps = {x, y}
    Indices = {0, 1, 4, 5}
    Sizes = {0, 1, 6, 15}
    DefaultSize = 6
    ByteBits = 2
    WordBytes = 2
    CapacityMod = 16
\* After a use of freed memory nothing is said any more.
CHECK_DEADLOCK FALSE
INVARIANT
    CapacityIsSize

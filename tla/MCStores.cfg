\* Ten keys: an insertion recolours below a second red parent with eight, and an
\* erasure goes up past a black node that is not the root with ten, as no tree of
\* fewer keys gets black enough.
SPECIFICATION StoresSpec
CONSTANTS
    TreeKeys = 10
    MaxWalk = 5
    Vals = {1, 2}
    Fields = {f1, f2}
    DBs = {0, 1}
    MaxLen = 2
    MaxReplies = 1
    HashMaps = {h1, h2}
    HashKeys = {0, 1, 2}
    HashValues = {0, 1}
    HashOf <- FewHashes
    MinBits = 1
    CountMod = 3
    MaxHashData = 2
    Absent = Absent
    BiMaps = {b1, b2}
    BiKeys = {1, 2}
    BiValues = {1, 2, 3}
    HashV <- Colliding
    MaxNodes = 3
    Columns = {c1, c2}
    NoColumns = NoColumns
    Readers = {r1, r2}
    Writers = {w1, w2}
    MaxLocks = 2
SYMMETRY Symmetry
\* The program may die of a null reply or of misused memory, and threads sleep for ever.
CHECK_DEADLOCK FALSE
INVARIANTS
    TreeSound
    HashMapsSound
    HashMapsAreDictionaries
    LockSafe
PROPERTIES
    RedisTellsTheTruth
    RedisSound
    BiMapsSound
    MySqlSound

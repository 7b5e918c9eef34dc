\* File: two threads of the parent and the child, each with enough messages for
\* the file to be full while another writer is between its two sections.
\* Console: two applications, more messages than a connection's queue holds,
\* and one restart of logcat.  No symmetry: ClosedIsDrained is a liveness property.
SPECIFICATION LoggingSpec
CONSTANTS
    Threads = {t1, t2}
    Child = c1
    MAX_FILE_SIZE = 2
    MaxMessages = 2
    MaxSecond = 1
    BufThreads = {b1, b2}
    MSG_BUF_SIZE = 4
    EXPAND_SIZE = 2
    MaxLength = 6
    MaxTexts = 3
    Loggers = {l1}
    MaxEvents = 1
    MaxWriters = 4
    Apps = {a1, a2}
    Viewers = {v}
    MaxSends = 2
    MaxQueue = 5
    MaxRead = 3
    MaxBacklog = 2
    MaxRestarts = 1
    MaxSignals = 1
    UserFiles <- TwoFiles
    Arguments <- FewArguments
    IniValues <- ShortValue
    MaxValue = 2
    NotThere = NotThere
    NotRead = NotRead
    Documents <- ThreeDocuments
    BadName = 9
    MaxLoads = 3
    Nothing = Nothing
\* Every part ends when its bounds are used up.
CHECK_DEADLOCK FALSE
INVARIANTS
    FileLogSafe
    MessageWhole
    WritersSound
    LogcatSound
    ConfigShown
PROPERTIES
    IniSound
    ClosedIsDrained

SPECIFICATION BufferSpec
CONSTANTS
    BufThreads = {t1, t2}
    MSG_BUF_SIZE = 4
    EXPAND_SIZE = 2
    MaxLength = 6
    MaxTexts = 2
CHECK_DEADLOCK FALSE
INVARIANT OwnTextOnly

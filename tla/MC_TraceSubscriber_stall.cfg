CONSTANTS
    Threads = {t1, t2}
    MaxLevel = 3
    ChanBound = 1
    BufCap = 1
    MaxCalls = 2
    IdBits = 3
SPECIFICATION Spec
PROPERTY NoProducerBlockedForever
CHECK_DEADLOCK FALSE

CONSTANTS
    Threads = {t1}
    MaxLevel = 3
    ChanBound = 1
    BufCap = 2
    MaxCalls = 3
    IdBits = 2
SPECIFICATION Spec
INVARIANT EventParentIsEnteredSpan
CHECK_DEADLOCK FALSE

CONSTANTS
    Threads = {t1}
    MaxLevel = 3
    ChanBound = 1
    BufCap = 1
    MaxCalls = 2
    IdBits = 2
SPECIFICATION Spec
PROPERTY NoDeliveryAfterTransportFailure
CHECK_DEADLOCK FALSE

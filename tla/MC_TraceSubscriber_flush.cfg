CONSTANTS
    Threads = {t1}
    MaxLevel = 3
    ChanBound = 1
    BufCap = 2
    MaxCalls = 2
    IdBits = 2
SPECIFICATION CollectorSpec
PROPERTY BufferedPacketDelivered
CHECK_DEADLOCK FALSE

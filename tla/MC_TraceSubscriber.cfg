CONSTANTS
    Threads = {t1, t2}
    MaxLevel = 3
    ChanBound = 2
    BufCap = 2
    MaxCalls = 2
    IdBits = 3
SPECIFICATION Spec
INVARIANT TypeOK
INVARIANT PerThreadOrder
INVARIANT PacketConservation
INVARIANT DisabledOnlyWhenDisconnected
CHECK_DEADLOCK FALSE
SYMMETRY ThreadSymmetry
PROPERTY NothingAcceptedAfterDisable

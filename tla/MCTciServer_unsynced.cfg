SPECIFICATION Spec
CONSTANTS
    k1 = k1
    k2 = k2
    Endpoint = {0, 1}
    TrxConfig <- Configured
    NoFreqB = NoFreqB
    IqSamplerate <- StartingRate
    Session = {k1, k2}
    ServerOf <- TwoSessions
    Message <- Messages
    U32 <- Unsigned32
    U64 <- Unsigned64
    I32 <- Signed32
    I64 <- Signed64
    CmdCap = 1
    MaxRequests = 2
    MaxFaults = 1
INVARIANTS
    Synchronized
CHECK_DEADLOCK FALSE

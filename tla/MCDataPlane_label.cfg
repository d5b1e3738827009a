SPECIFICATION Spec
CONSTANTS
    k0 = k0
    k1 = k1
    g48 = g48
    g96 = g96
    NoGroup = NoGroup
    NoRate = NoRate
    Freq = {7}
    Stream <- One
    Endpoint = {0}
    TrxCount <- OneTrx
    ServerOf <- AtHome
    Session = {k0}
    Rate = {48, 96}
    Group = {g48, g96}
    InitRate <- Start48
    Running <- Fresh
    GroupFor <- GroupOfRate
    MulticastAll = FALSE
    SockCap = 1
    StatusCap = 1
    IqCap = 1
    MaxPackets <- Single
    MaxRates = 1
    MaxFaults = 0
INVARIANTS
    LabelIsTrue
CHECK_DEADLOCK FALSE

SPECIFICATION Spec
CONSTANTS
    k0 = k0
    k1 = k1
    g48 = g48
    g96 = g96
    NoGroup = NoGroup
    NoRate = NoRate
    Freq = {7}
    Stream <- OwnAndB
    Endpoint = {0}
    TrxCount <- OneTrx
    ServerOf <- AtHome
    Session = {k0}
    Rate = {48, 96}
    Group = {g48, g96}
    InitRate <- Start48
    Running <- Fresh
    GroupFor <- GroupOfRate
    MulticastAll = TRUE
    SockCap = 1
    StatusCap = 1
    IqCap = 2
    MaxPackets <- Single
    MaxRates = 1
    MaxFaults = 0
INVARIANTS
    NoDuplicates
CHECK_DEADLOCK FALSE

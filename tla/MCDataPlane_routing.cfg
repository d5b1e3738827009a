SPECIFICATION Spec
CONSTANTS
    k0 = k0
    k1 = k1
    g48 = g48
    g96 = g96
    NoGroup = NoGroup
    NoRate = NoRate
    Freq = {7}
    Stream <- Every
    Endpoint <- TwoEndpoints
    TrxCount <- OneTrx
    ServerOf <- Homes
    Session = {k0, k1}
    Rate = {48}
    Group = {g48}
    InitRate <- Start48
    Running <- Fresh
    GroupFor <- GroupOfRate
    MulticastAll = TRUE
    SockCap = 1
    StatusCap = 1
    IqCap = 1
    MaxPackets <- Single
    MaxRates = 0
    MaxFaults = 0
INVARIANTS
    TypeOK
    RoutedHome
    OneStreamPerTrx
CHECK_DEADLOCK FALSE

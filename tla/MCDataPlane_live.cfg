SPECIFICATION FairSpec
CONSTANTS
    k0 = k0
    k1 = k1
    g48 = g48
    g96 = g96
    NoGroup = NoGroup
    NoRate = NoRate
    Freq = {7}
    Stream <- Leftover
    Endpoint = {0}
    TrxCount <- OneTrx
    ServerOf <- AtHome
    Session = {k0}
    Rate = {48, 96}
    Group = {g48, g96}
    InitRate <- Start48
    Running <- Left
    GroupFor <- GroupOfRate
    MulticastAll = TRUE
    SockCap = 2
    StatusCap = 1
    IqCap = 1
    MaxPackets <- TwoOfOurs
    MaxRates = 1
    MaxFaults = 1
INVARIANTS
    InOrder
PROPERTIES
    ImplementsDelivery
    GroupsJoined
    PipelineDrains
CHECK_DEADLOCK FALSE

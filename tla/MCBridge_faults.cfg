SPECIFICATION FairSpec
CONSTANTS
    k1 = k1
    k2 = k2
    iq48 = iq48
    iq96 = iq96
    g48 = g48
    g96 = g96
    gDefault = gDefault
    NoGroup = NoGroup
    NoPreset = NoPreset
    DefaultConfig = DefaultConfig
    DefaultPreset = iq48
    Preset <- Presets
    PresetMap <- Presets96
    Group <- Groups
    GroupFor <- GroupOfMode
    Rate = {48, 96}
    InitFreq = 7
    Chan <- OneChan
    Endpoint <- OneEndpoint
    ServerOf <- OneServer
    RatesOf <- OneRatesOf
    InitRate <- OneInitRate
    Tuner = {k1, k2}
    RateSetter = {k2}
    Enabler = {k1}
    Leftover = {}
    InitialTunes <- TuneFirst
    LifetimeRequired = FALSE
    CmdCap = 4
    StatusCap = 1
    MaxRequests = 3
    MaxFaults = 1
    Freq = {7, 14}
INVARIANTS
    TypeOK
    NoBareTune
    AbandonedIsRecreated
    RateAgreement
PROPERTIES
    WorkDrains
    TableConverges
    ImplementsInterface
CHECK_DEADLOCK FALSE

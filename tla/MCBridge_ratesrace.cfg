SPECIFICATION Spec
CONSTANTS
    k1 = k1
    k2 = k2
    iq48 = iq48
    iq96 = iq96
    g48 = g48
    g96 = g96
    gDefault = gDefault
    NoGroup = NoGroup
    NoPreset = NoPreset
    DefaultConfig = DefaultConfig
    DefaultPreset = iq48
    Preset <- Presets
    PresetMap <- Presets96
    Group <- Groups
    GroupFor <- GroupOfMode
    Rate = {48, 96}
    InitFreq = 7
    Chan <- OneChan
    Endpoint <- OneEndpoint
    ServerOf <- OneServer
    RatesOf <- OneRatesOf
    InitRate <- OneInitRate
    Tuner = {}
    RateSetter = {k1, k2}
    Enabler = {}
    Leftover <- OneChan
    InitialTunes <- NoTunes
    LifetimeRequired = FALSE
    CmdCap = 2
    StatusCap = 1
    MaxRequests = 2
    MaxFaults = 0
    Freq = {7, 14}
INVARIANTS
    RateAgreement
CHECK_DEADLOCK FALSE

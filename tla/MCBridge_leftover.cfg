SPECIFICATION Spec
CONSTANTS
    k1 = k1
    k2 = k2
    iq48 = iq48
    iq96 = iq96
    g48 = g48
    g96 = g96
    gDefault = gDefault
    NoGroup = NoGroup
    NoPreset = NoPreset
    DefaultConfig = DefaultConfig
    DefaultPreset = iq48
    Preset <- Presets
    PresetMap <- Presets96
    Group <- Groups
    GroupFor <- GroupOfMode
    Rate = {48, 96}
    InitFreq = 7
    Chan <- OldChan
    Endpoint <- TwoEndpoints
    ServerOf <- TwoServer
    RatesOf <- TwoRatesOf
    InitRate <- TwoInitRate
    Tuner = {k1, k2}
    RateSetter = {k2}
    Enabler = {k1}
    Leftover <- OldLeftover
    InitialTunes <- NoTunes
    LifetimeRequired = FALSE
    CmdCap = 2
    StatusCap = 1
    MaxRequests = 3
    MaxFaults = 1
    Freq = {7, 14}
INVARIANTS
    NoBareTune
    EndpointIsolation
    FreqAgreement
    RateAgreement
CHECK_DEADLOCK FALSE

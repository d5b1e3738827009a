SPECIFICATION FairSpec
CONSTANTS
    k1 = k1
    k2 = k2
    iq48 = iq48
    iq96 = iq96
    g48 = g48
    g96 = g96
    gDefault = gDefault
    NoGroup = NoGroup
    NoPreset = NoPreset
    DefaultConfig = DefaultConfig
    DefaultPreset = iq48
    Preset <- Presets
    PresetMap <- Presets96
    Group <- Groups
    GroupFor <- GroupOfMode
    Rate = {48, 96}
    InitFreq = 7
    Chan <- ThreeChan
    Endpoint <- TwoEndpoints
    ServerOf <- TwoServer
    RatesOf <- TwoRatesOf
    InitRate <- TwoInitRate
    Tuner = {}
    RateSetter = {}
    Enabler = {}
    Leftover = {}
    InitialTunes <- TuneTwo
    LifetimeRequired = FALSE
    CmdCap = 1
    StatusCap = 1
    MaxRequests = 0
    MaxFaults = 0
    Freq = {7}
PROPERTIES
    StartUpEnds
CHECK_DEADLOCK FALSE

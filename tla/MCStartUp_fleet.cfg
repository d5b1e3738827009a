SPECIFICATION Spec
CONSTANTS
    Configs <- Fleet
    MaxTrx = 3
INVARIANTS
    TypeOK
    OwnChannel
    TunesAddressable
    ConfigServed
CHECK_DEADLOCK FALSE

SPECIFICATION Spec
CONSTANTS
    Configs <- SeventeenTrx
    MaxTrx = 3
INVARIANTS
    OwnChannel
CHECK_DEADLOCK FALSE

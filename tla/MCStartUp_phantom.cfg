SPECIFICATION Spec
CONSTANTS
    Configs <- TwoFiftySixTrx
    MaxTrx = 3
INVARIANTS
    ConfigServed
CHECK_DEADLOCK FALSE

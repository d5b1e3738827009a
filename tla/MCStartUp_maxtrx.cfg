SPECIFICATION Spec
CONSTANTS
    Configs <- FourTrx
    MaxTrx = 3
INVARIANTS
    MaxTrxExposed
CHECK_DEADLOCK FALSE

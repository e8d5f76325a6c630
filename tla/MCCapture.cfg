CONSTANTS
    Read = {t1, t2}
    NoRead = NoRead
    BUFFER_LEN = 2
    MAX_CAPTURED = 3
SPECIFICATION FairSpec
INVARIANTS
    LossNeedsCancel
PROPERTIES
    CapturedMovesOn
    ImplementsTunDevice
CHECK_DEADLOCK FALSE

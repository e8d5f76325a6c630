CONSTANTS
    RETRIES = 3
    MODULUS = 16
    MAX_UNACKED_LEN = 8
    MAX_SEQ = 2
    DeviceMayFail = FALSE
    Leftover <- Nothing
SPECIFICATION FairSpec
PROPERTIES
    LoopEnds
    HalfOpenHeals
CHECK_DEADLOCK FALSE

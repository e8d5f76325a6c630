CONSTANTS
    RETRIES = 3
    MODULUS = 16
    MAX_UNACKED_LEN = 8
    MAX_SEQ = 2
    DeviceMayFail = TRUE
    Leftover <- LateData
SPECIFICATION Spec
INVARIANTS
    
    HelloBudget
CHECK_DEADLOCK FALSE

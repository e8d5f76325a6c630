CONSTANTS
    Sender = Sender
    Worker = {w1, w2}
    MODULUS = 16
    MAX_UNACKED_LEN = 1
    SEND_BUFFER = 1
    MAX_SEGMENTS = 6
    MAX_DATAGRAMS = 2
SPECIFICATION FairSpec
INVARIANTS
    UnackedBounded
    
PROPERTIES
    SendReturns
CHECK_DEADLOCK FALSE

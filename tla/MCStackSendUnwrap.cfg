CONSTANTS
    Socket = {s1, s2}
    NoSocket = NoSocket
    Disconnected = Disconnected
    Reader = {r1}
    FirstPort = 1
    LastPort = 1
    Peer = {}
    NoTuple = NoTuple
    MPMC_BUFFER_LEN = 1
    MPSC_BUFFER_LEN = 1
    PURGE_LEN = 2
SPECIFICATION Spec
SYMMETRY Symmetric
INVARIANTS
    SendUnwrapHolds

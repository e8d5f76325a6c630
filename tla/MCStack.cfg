CONSTANTS
    Socket = {s1, s2, s3}
    NoSocket = NoSocket
    Disconnected = Disconnected
    Reader = {r1}
    FirstPort = 1
    LastPort = 1
    Peer = {p1}
    NoTuple = NoTuple
    MPMC_BUFFER_LEN = 1
    MPSC_BUFFER_LEN = 1
    PURGE_LEN = 2
SPECIFICATION Spec
SYMMETRY Symmetric
INVARIANTS
    TableMatchesSockets
    StaleIsPurged
    NoMisdelivery

    

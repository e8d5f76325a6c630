CONSTANTS
    Socket = {s1, s2}
    NoSocket = NoSocket
    Disconnected = Disconnected
    Reader = {r1}
    FirstPort = 1
    LastPort = 2
    Peer = {}
    NoTuple = NoTuple
    MPMC_BUFFER_LEN = 1
    MPSC_BUFFER_LEN = 1
    PURGE_LEN = 1
SPECIFICATION FairSpec
PROPERTIES
    StaleHeals
    ReaderGetsOn

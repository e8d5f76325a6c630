CONSTANTS
    Client = {u1}
    NoClient = NoClient
    Connection = {c1}
    NoConnection = NoConnection
    Worker = {w1, w2}
    UDP_TTL = 1
    MPMC_BUFFER_LEN = 1
SPECIFICATION FairSpec
PROPERTIES
    QuitCloses
    IdleCloses
    ReaderDeathCloses
    ShutdownCloses
CHECK_DEADLOCK FALSE

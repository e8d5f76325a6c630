CONSTANTS
    Client = {u1, u2}
    NoClient = NoClient
    Connection = {c1, c2}
    NoConnection = NoConnection
    Worker = {w1}
    UDP_TTL = 1
    MPMC_BUFFER_LEN = 1
SPECIFICATION Spec
SYMMETRY Symmetric
INVARIANTS
    TypeOK
    EntryIffTimer
    InsertAssertHolds
    NoOrphanWorker
    
PROPERTY ImplementsSession

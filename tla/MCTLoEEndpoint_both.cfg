SPECIFICATION Spec
CONSTANTS
    Master = Master
    Slave = Slave
    SEQ_MOD = 32
    FIRST_SEQ = 30
    WINDOW_SIZE = 2
    ACK_BUFFER_CAP = 6
    MESSAGE_BUFFER_CAP = 2
    TL_MSG_BUFFER_CAP = 16
    RESPONSE_BUFFER_CAP = 2
    FABRIC_CAP = 6
    CREDIT = 8
    MASTER_REQUESTS = 1
    SLAVE_REQUESTS = 1
    REQUESTS <- MCRequests
    REQUEST_OPS = {"Get", "PutFullData"}
    MAX_LOST = 1
    MAX_EARLY = 1
    MAX_ALLOC_FAILED = 0
INVARIANTS
    
    LinkInv
    TypeOK
    WindowInv
    AckTruthful
    RetainedUntilReceived
    CreditConservation
PROPERTIES
    RemoteMemorySafe

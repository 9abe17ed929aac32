SPECIFICATION Spec
CONSTANTS
    Master = Master
    Slave = Slave
    SEQ_MOD = 32
    FIRST_SEQ = 30
    WINDOW_SIZE = 2
    ACK_BUFFER_CAP = 1
    MESSAGE_BUFFER_CAP = 2
    TL_MSG_BUFFER_CAP = 1
    RESPONSE_BUFFER_CAP = 2
    FABRIC_CAP = 6
    CREDIT = 8
    MASTER_REQUESTS = 2
    SLAVE_REQUESTS = 0
    REQUESTS <- MCRequests
    REQUEST_OPS = {"PutFullData"}
    MAX_LOST = 2
    MAX_EARLY = 0
    MAX_ALLOC_FAILED = 1
INVARIANTS
    AckTruthful
    RetainedUntilReceived
    CreditNeverMade
PROPERTIES
    RemoteMemorySafe

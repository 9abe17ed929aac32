SPECIFICATION Spec
CONSTANTS
    Master = Master
    Slave = Slave
    SEQ_MOD = 32
    FIRST_SEQ = 30
    WINDOW_SIZE = 2
    ACK_BUFFER_CAP = 3
    MESSAGE_BUFFER_CAP = 2
    TL_MSG_BUFFER_CAP = 3
    RESPONSE_BUFFER_CAP = 2
    FABRIC_CAP = 6
    CREDIT = 8
    MASTER_REQUESTS = 1
    SLAVE_REQUESTS = 0
    REQUESTS <- MCRequests
    REQUEST_OPS = {"Get", "PutFullData"}
    MAX_LOST = 6
    MAX_EARLY = 0
    MAX_ALLOC_FAILED = 0
INVARIANTS
    AckFrameEnqueued

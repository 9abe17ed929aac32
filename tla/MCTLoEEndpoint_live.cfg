SPECIFICATION FairSpec
CONSTANTS
    Master = Master
    Slave = Slave
    SEQ_MOD = 32
    FIRST_SEQ = 30
    WINDOW_SIZE = 1
    ACK_BUFFER_CAP = 6
    MESSAGE_BUFFER_CAP = 1
    TL_MSG_BUFFER_CAP = 1
    RESPONSE_BUFFER_CAP = 1
    FABRIC_CAP = 6
    CREDIT = 2
    MASTER_REQUESTS = 2
    SLAVE_REQUESTS = 1
    REQUESTS <- MCRequests
    REQUEST_OPS = {"Get"}
    MAX_LOST = 1
    MAX_EARLY = 0
    MAX_ALLOC_FAILED = 0
INVARIANTS
    NoExit
PROPERTIES
    
    EventuallyQuiet

SPECIFICATION ConnSpec
CONSTANTS
    Master = Master
    Slave = Slave
    SEQ_MOD = 32
    FIRST_SEQ = 2
    WINDOW_SIZE = 2
    ACK_BUFFER_CAP = 6
    MESSAGE_BUFFER_CAP = 1
    TL_MSG_BUFFER_CAP = 3
    RESPONSE_BUFFER_CAP = 1
    FABRIC_CAP = 6
    CREDIT = 8
    MASTER_REQUESTS = 1
    SLAVE_REQUESTS = 0
    REQUESTS <- MCRequests
    REQUEST_OPS = {"Get"}
    MAX_LOST = 2
    MAX_EARLY = 0
    MAX_ALLOC_FAILED = 0
    CREDIT_INIT = 3
    START_READS = {"past"}
    MAX_OPENS = 1
    PROMPT_WORKER = FALSE
    CLOSE_UNCONNECTED = FALSE
    QUITTERS = {}
INVARIANTS
    ConnectedCreditNeverMade
    NoStaleFrame
PROPERTIES
    RemoteMemorySafe
CHECK_DEADLOCK FALSE

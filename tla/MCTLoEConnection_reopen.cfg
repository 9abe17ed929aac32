SPECIFICATION ConnSpec
CONSTANTS
    Master = Master
    Slave = Slave
    SEQ_MOD = 32
    FIRST_SEQ = 2
    WINDOW_SIZE = 2
    ACK_BUFFER_CAP = 6
    MESSAGE_BUFFER_CAP = 1
    TL_MSG_BUFFER_CAP = 3
    RESPONSE_BUFFER_CAP = 1
    FABRIC_CAP = 6
    CREDIT = 8
    MASTER_REQUESTS = 1
    SLAVE_REQUESTS = 0
    REQUESTS <- MCRequests
    REQUEST_OPS = {"PutFullData"}
    MAX_LOST = 0
    MAX_EARLY = 1
    MAX_ALLOC_FAILED = 0
    CREDIT_INIT = 3
    START_READS = {"past", "future"}
    MAX_OPENS = 2
    PROMPT_WORKER = FALSE
    CLOSE_UNCONNECTED = TRUE
    QUITTERS = {}
INVARIANTS
    ConnTypeOK
    NextFrameReachable
    ConnectedCredit
    NoStaleFrame
PROPERTIES
    PerformedOnce
CHECK_DEADLOCK FALSE

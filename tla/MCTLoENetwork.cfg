SPECIFICATION FairSpec
CONSTANTS
    MESSAGES <- MCMessages
    MQ_MAXMSG = 1
    DROP_COUNTS = {1}
    MAX_SENT = 2
    MAX_COMMANDS = 3
INVARIANTS
    NetworkTypeOK
    SingleThread
    DropsOrdered
    DropsAccounted
PROPERTIES
    IsLossyFifo
    StopReturns
    Drained
CHECK_DEADLOCK FALSE

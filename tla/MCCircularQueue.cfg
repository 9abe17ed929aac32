SPECIFICATION Spec
CONSTANTS
    SIZE = 4
    MAX_PUT = 9
INVARIANTS
    TypeOK
    ThreadInv
PROPERTIES
    IsBoundedQueue
CHECK_DEADLOCK FALSE

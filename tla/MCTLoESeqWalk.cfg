SPECIFICATION Spec
CONSTANTS
    SEQ_MOD = 16
    MAX_COUNT = 64
INVARIANTS
    TypeOK
    DistInv
    ClassifyInv
    AckInv
CHECK_DEADLOCK FALSE

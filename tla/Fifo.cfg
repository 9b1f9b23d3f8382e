CONSTANTS
    DEPTH = 4
    PTR_MOD = 4
    FALL_THROUGH = FALSE
    Data = {0, 1, 2}
SPECIFICATION Spec
INVARIANTS PointersAgree
PROPERTY ImplementsQueue

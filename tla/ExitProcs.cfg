SPECIFICATION Spec
CONSTANTS
    t1 = t1
    t2 = t2
    Threads = {t1, t2}
    ATEXIT_MAX = 2
    EXIT_FLUSH = TRUE
    MaxRegs = 6
INVARIANTS
    TypeOK
    Ordered
PROPERTIES
    IsStack
    AppBudget
    ExitEnds
CHECK_DEADLOCK FALSE

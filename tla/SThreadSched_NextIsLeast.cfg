CONSTANTS
    NIL = NIL
    RAIZ = RAIZ
    NULL = NULL
    MaxThreads = 4
    Threads <- MCThreads
    PrioInputs = {0, 2}
    NiceInputs = {1}
    SleepInputs = {5000, 10000}
    MaxClock = 4
SPECIFICATION Spec
INVARIANT NextIsLeast
CHECK_DEADLOCK FALSE

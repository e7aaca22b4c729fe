SPECIFICATION wtSpec
CONSTANTS
    POOL_SIZE = 2
    NJobs = 3
    NIL = NIL
PROPERTY WorkersServeAll
CHECK_DEADLOCK FALSE

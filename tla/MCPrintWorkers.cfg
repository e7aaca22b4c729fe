SPECIFICATION Spec
CONSTANTS
    Thread = {t1, t2}
    NULL = NULL
    MaxEdit = 0
PROPERTY KillsAllWorkers
CHECK_DEADLOCK FALSE

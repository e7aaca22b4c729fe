SPECIFICATION MCSpec
CONSTANTS
    Thread = {t1, t2}
    NULL = NULL
    MaxEdit = 2
    MaxReads = 2
    POOL_SIZE = 2
    NJobs = 3
    NIL = NIL
    Thr = {t1, t2}
    Foo = {o1, o2}
    Id = {1}
    NoFoo = NoFoo
    Free = Free
    MaxRefs = 2
    NTHR = 3
    TNUM = 2
    MaxNum = 1
    UnsignedMax = 7
    SECTONSEC = 3
    WaitSecs = 1
    MaxClock = 9
    NMsgs = 3
    Caller = {c1, c2}
    Name = {n1, n2}
    NQ = 2
    MaxMsg = 2
INVARIANTS ThreadTypes HupIsHonoured StatusIsPrinters JobsAccountedFor CountIsReferences BarriersWork RetryIsTimely EnvironmentIsOwn
PROPERTIES NoWakeupIsLost

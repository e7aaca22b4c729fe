SPECIFICATION MCSpec
CONSTANTS
    Proc = {p1, p2, p3}
    Server = {p1}
    InitVal = 1
    BIGCOUNT = 3
    Cli = {c1, c2}
    Uid <- MCUid
    NoUid = NoUid
    NoCli = NoCli
    NALLOC = 2
    Rounds = 3
    FdLimit = 6
    MaxFd = 5
    MaxPid = 2
    MaxSent = 2
    NKids = 2
    Copy = {d1, d2}
    MaxStarts = 3
    NTyped = 2
    BUFFSIZE = 2
    FPMAXLINE = 5
    NReq = 3
    Client = {c1, c2}
    NoClient = NoClient
    NAddr = 1
    MAXSLEEP = 4
    NLines = 2
    MaxProc = 2
    Sizes = {0, 1, 2, 3}
    Types <- MCTypes
    Bytes = {0, 1}
    MaxWrite = 2
    OpenMax = 3
    OpenFiles = {f1, f2}
    NotOpen = NotOpen
    InputData <- MCData
    BSZ = 2
    NBUF = 2
    NServer = 2
INVARIANTS ProcessTypes Exclusion UndoIsExact InitializedOnce CreatorsKeepTheSet ServerTables TellWaitOrders PipesArePrivate  OneDaemon     StreamIsFile Dup2IsDup2
PROPERTIES WaitingEnds

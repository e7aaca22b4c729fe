SPECIFICATION Spec
CONSTANTS
    p1 = p1
    p2 = p2
    k1 = k1
    k2 = k2
    k3 = k3
    a = a
    b = b
    c = c
    c1 = c1
    c2 = c2
    Proc = {p1, p2}
    Key = {k1, k2, k3}
    Data = {a, b, c}
    Chain = {c1, c2}
    KeyLen <- MCKeyLen
    DataLen <- MCDataLen
    Hash <- MCHash
    Menu <- MCMenu
    Scanner = {p2}
    FREE_OFF = FREE_OFF
    IDX_TAIL = IDX_TAIL
    DAT_FILE = DAT_FILE
    PTR_MAX = 2
    MaxIdx = 3
    MaxDat = 3
    Blank = Blank
    NoData = NoData
    NoReq = NoReq
    Pending = Pending
INVARIANTS TypeOK ListsWellFormed NoRecordLost OnlyScanDumps DataNotShared NextrecReturnsLive
PROPERTIES Linearizable RecordsKeepTheirSize

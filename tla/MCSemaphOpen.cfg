SPECIFICATION Spec
CONSTANTS
    Proc = {p1, p2}
    Server = {}
    InitVal = 1
    BIGCOUNT = 3
INVARIANTS LastOneRemoves

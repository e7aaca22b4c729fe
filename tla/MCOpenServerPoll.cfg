SPECIFICATION osSpec
CONSTANTS
    Cli = {c1, c2}
    Uid <- MCUid
    NoUid = NoUid
    NoCli = NoCli
    NALLOC = 2
INVARIANTS PollUid
CHECK_DEADLOCK FALSE

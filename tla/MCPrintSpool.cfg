SPECIFICATION Spec
CONSTANTS
    Client = {c1, c2}
    DocLen = 1
    JobMax = 2
    MaxCrash = 2
    NoFile = NoFile
INVARIANTS TypeOK NumbersDifferInOneRun AcceptedIsKept OnlySpooledIsPrinted
PROPERTIES FirstInFirstOut AcceptedIsPrinted

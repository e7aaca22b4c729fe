SPECIFICATION Spec
CONSTANTS
    Client = {c1, c2}
    DocLen = 1
    JobMax = 2
    MaxCrash = 1
    NoFile = NoFile
INVARIANT NoAcceptedIsLost

SPECIFICATION Spec
CONSTANTS
    Client = {c1, c2}
    DocLen = 1
    JobMax = 2
    MaxCrash = 0
    NoFile = NoFile
INVARIANT AcceptedIsWhole

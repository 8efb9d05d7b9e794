SPECIFICATION Spec
CONSTANTS
    User = {u1, u2}
    Handler = {h1, h2}
    NoHandler = NoHandler
    MaxLog = 2
    MaxNet = 0
    MaxDisk = 0
    MaxRead = 0
    MaxCrash = 0
INVARIANTS SkippedStaysAheadOfCursor

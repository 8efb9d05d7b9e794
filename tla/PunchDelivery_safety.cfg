SPECIFICATION Spec
CONSTANTS
    User = {u1, u2}
    Handler = {h1, h2}
    NoHandler = NoHandler
    MaxLog = 2
    MaxNet = 3
    MaxDisk = 1
    MaxRead = 1
    MaxCrash = 1
SYMMETRY Symmetry
INVARIANTS TypeOK AtMostOnce AckMeansStored NoLossByNetwork
PROPERTIES QueueKeepsUntilStored CursorNeverGoesBack LedgerSpec

SPECIFICATION FairSpec
CONSTANTS
    User = {u1, u2}
    Handler = {h1, h2}
    NoHandler = NoHandler
    MaxLog = 2
    MaxNet = 2
    MaxDisk = 0
    MaxRead = 0
    MaxCrash = 0
PROPERTIES KnownPunchArrives QueuedIsDelivered

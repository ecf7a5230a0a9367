SPECIFICATION Spec
CONSTANTS
    siteSize = 3
    CharMod = 256
    Files <- Paths
    GraphOf <- Content
    Lists <- AllLists
    Limits = {0, 1, 4}
    Functions <- Funcs
    MaxProgs = 3
INVARIANTS
    IndexInv
    LearntIsWanted
    OwnersAreExact
    ScanIsExact
CHECK_DEADLOCK TRUE

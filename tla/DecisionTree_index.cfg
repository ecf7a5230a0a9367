SPECIFICATION DTSpec
CONSTANTS
    siteSize = 3
    CharMod = 256
    MaxProgs = 2
    NGraphs <- Four
INVARIANTS
    TreeInv
    ProgsAndSitesAgree
PROPERTIES
    ImplementsIndex
CHECK_DEADLOCK TRUE

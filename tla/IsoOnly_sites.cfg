SPECIFICATION IsoFairSpec
CONSTANTS
    siteSize = 4
    CharMod = 256
    NoMatrix = NoMatrix
    Inputs <- Pairs
INVARIANTS
    WalkInv
    MatchesExact
PROPERTIES
    Terminates
CHECK_DEADLOCK TRUE

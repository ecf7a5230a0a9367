SPECIFICATION Spec
CONSTANTS
    nThreads = 2
    nTests = 2
    siteSize = 3
    CharMod = 256
    Inputs <- FiveAndThree
INVARIANTS
    RootsAreExported
CHECK_DEADLOCK TRUE

SPECIFICATION FairSpec
CONSTANTS
    nThreads = 4
    nTests = 2
    siteSize = 3
    CharMod = 256
    Inputs <- FiveAndThree
INVARIANTS
    TypeOK
    ArgsDelivered
    MarksAreMine
    FilesAligned
    ResultsExact
PROPERTIES
    Terminates
CHECK_DEADLOCK TRUE

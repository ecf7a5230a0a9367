SPECIFICATION FairSpec
CONSTANTS
    siteSize = 3
    CharMod = 4
    NULL = NULL
    Graphs <- All
INVARIANTS
    TypeOK
    MarksMatchQueue
    SiteLinksExact
    ResultIsSite
PROPERTIES
    CallReturns
CHECK_DEADLOCK TRUE

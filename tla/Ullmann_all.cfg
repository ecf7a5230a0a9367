SPECIFICATION FairSpec
CONSTANTS
    Inputs <- EveryInput
    Options <- EveryOption
INVARIANTS
    SearchInv
    ResultExact
    GrowsByChildren
PROPERTIES
    Terminates
CHECK_DEADLOCK TRUE

SPECIFICATION FairSpec
CONSTANT
    Inputs <- All
INVARIANTS
    IntervalInv
    Partition
    LimitIffReducible
PROPERTIES
    ReducedExact
    Terminates
CHECK_DEADLOCK TRUE

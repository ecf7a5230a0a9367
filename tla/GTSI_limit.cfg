SPECIFICATION GTSISpec
CONSTANTS
    Unreadable = Unreadable
    Inputs <- PairInputs
    Options <- LimitOptions
INVARIANTS
    LimitIsTotal

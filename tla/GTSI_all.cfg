SPECIFICATION GTSISpec
CONSTANTS
    Unreadable = Unreadable
    Inputs <- AllInputs
    Options <- OptionsFor
INVARIANTS
    WordTreeInv
    WordsTellSites
    SitesAreFound
PROPERTIES
    CountsWords
    Terminates

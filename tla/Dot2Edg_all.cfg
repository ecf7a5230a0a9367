SPECIFICATION ConverterSpec
CONSTANTS
    Dot = Dot
    NotAGraph = NotAGraph
    Mixed = Mixed
    Error = Error
    Graphs <- MCGraphs
    Texts <- AllTexts
    MayStop = TRUE
    Entries <- BothEntries
    MaxDepth = 4
    Names <- MCNames
    hash <- MCHash
    strToSymb <- MCSymb
    DotTexts <- MCTexts
INVARIANTS
    ReadersInv
    GraphIsText
    ConversionExact
    CutFileIsPrefix
PROPERTIES
    Loads

SPECIFICATION Spec
CONSTANTS
    SeqSpace = 16
    MaxStatus = 3
    MaxRecv = 2
    CountMod = 3
    ChunkSyms = 2
    ByteMod = 4
    WordMod = 10
    RefTicks = 4
    Start = 13
    MaxTop = 17
    Reorder = 2
    MaxClock = 5
INVARIANT FeedbackTrue
PROPERTIES ReceiptsConserved TimesDecode

SPECIFICATION StreamSpec
CONSTANTS
    Half = 8
    HistorySize = 4
    MaxRetries = 2
    InitialRtt = 20
    BackoffOffset = 20
    FirstPackets <- MCFirstPackets
    MaxPacket = 19
    Reach = 5
    NackInterval = 20
    MaxTime = 120
    RttSamples <- MCRttSamples
INVARIANTS WindowFitsRing RetriesBounded
PROPERTIES OnlyMissingAsked BackoffRespected GapsAreAsked

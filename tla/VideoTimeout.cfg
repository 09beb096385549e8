SPECIFICATION TrackFairSpec
CONSTANTS
    Half = 8
    FrameSize = 2
    MaxDelay = 2
    IsVideo = TRUE
    FirstPackets <- MCFewFirst
    Packets <- MCFewPackets
    Reach = 3
    MaxTime = 3
PROPERTY TailFrameTimesOut

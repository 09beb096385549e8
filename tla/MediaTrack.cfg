SPECIFICATION TrackSpec
CONSTANTS
    Half = 8
    FrameSize = 2
    MaxDelay = 2
    IsVideo = TRUE
    FirstPackets <- MCFirstPackets
    Packets <- MCPackets
    Reach = 3
    MaxTime = 4
PROPERTIES OrderedFrames NoEarlyDrop

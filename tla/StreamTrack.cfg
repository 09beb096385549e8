SPECIFICATION FairSpec
CONSTANTS
    TS_PACKET_SIZE = 2
    MAX_PROGRAMS = 1
    MAX_PES_BUFFER = 3
    MAX_FRAME_QUEUE = 2
    MAX_PSI_SECTION = 2
    StampMod = 8
    Readers = {r1, r2}
    Inputs <- MCInputs
    ReadSizes = {1, 4, 9}
    MaxCalls = 3
CHECK_DEADLOCK FALSE
INVARIANT FramesFaithful
PROPERTY CancelReaches

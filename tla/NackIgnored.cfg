SPECIFICATION Spec
CONSTANTS
    Capacity = 3
    Streams = 2
    SeqSpace = 4
    HISTORY_SIZE = 2
    Tracks = {"a"}
    Frames <- MCFrames
    RawSizes = {2}
    RtxSize = 1
    NackForms <- MCUsualForms
    MaxNumbers = 5
    MaxSync = 1
PROPERTY NacksAnswered

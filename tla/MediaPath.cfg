SPECIFICATION Spec
CONSTANTS
    PacketMax = 5
    H264Frames <- MCH264Frames
    ByteFrames <- MCByteFrames
    Codecs <- MCCodecs
    PictureIds <- MCPictureIds
    ExtConfigs <- MCExtConfigs
    Csrcs <- MCCsrcs
    Compounds <- MCCompounds
    MaxFrames = 2
INVARIANTS MediaReadBack LossIsLocal ControlReadBack

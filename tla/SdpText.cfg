SPECIFICATION Spec
CONSTANTS
    Lines <- MCLines
    MaxLines = 4
    U8 <- MCU8
    U16 <- MCU16
    U32 <- MCU32
    ParamOrder <- MCParamOrder
    Padded <- MCPadded
INVARIANT NormalForm
PROPERTIES OwnTextAccepted MeaningKept
CHECK_DEADLOCK FALSE

SPECIFICATION InflateSpec
CONSTANTS
    UncompressedSize = 5
    BufferSize = 2
    MaxRead = 3
    Callers = {TRUE, FALSE}
    Nothing = Nothing
INVARIANTS
    InflateTypeOK
    PositionInside
    ReadReturnsBytes
PROPERTIES
    ReadReturns
CHECK_DEADLOCK FALSE

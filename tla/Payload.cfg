SPECIFICATION PayloadSpec
CONSTANTS
    UncompressedSize = 5
    BufferSize = 2
    MaxRead = 2
    Callers = {TRUE, FALSE}
    Nothing = Nothing
    BlockMapBlockSize = 2
    ReadThrough = {TRUE, FALSE}
    ReadAnywhere = {FALSE}
    Damages = {{}, {3}}
INVARIANTS
    PayloadTypeOK
    ValidatedBytes
    IntactReads
PROPERTIES
    PayloadReadReturns
CHECK_DEADLOCK FALSE

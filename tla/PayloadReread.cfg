SPECIFICATION PayloadSpec
CONSTANTS
    UncompressedSize = 6
    BufferSize = 2
    MaxRead = 3
    Callers = {TRUE}
    Nothing = Nothing
    BlockMapBlockSize = 4
    ReadThrough = {}
    ReadAnywhere = {TRUE}
    Damages = {{}}
INVARIANT
    ValidatedBytes
CHECK_DEADLOCK FALSE

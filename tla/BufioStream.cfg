SPECIFICATION Spec
CONSTANTS
    Byte <- MCByte
    NL = 1
    Capacity = 2
    BUFSIZ = 2
    MaxSize = 2
    Modes = {"r+", "w"}
    Reopens = {"same"}
    Lseek = "works"
    Offsets <- MCOffsets
    Setvbufs <- MCSetvbufs
    IOErrors = TRUE
INVARIANTS
    TypeOK
    BufferBounds
    FdPosition
    ReadAhead
    BufferOwner
PROPERTY
    Transparent

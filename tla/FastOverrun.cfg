SPECIFICATION BlockSpec
CONSTANTS
    Byte <- MCByte
    NL = 1
    Capacity = 3
    BUFSIZ = 2
    MaxSize = 2
    Modes = {"r+"}
    Reopens = {}
    Lseek = "works"
    Offsets <- FewOffsets
    Setvbufs <- OneSetvbuf
    IOErrors = TRUE
    FAST_BUFIO = TRUE
    Blocks <- MCBlocks
INVARIANT
    WithinBuffer

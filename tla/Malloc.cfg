SPECIFICATION Spec
CONSTANTS
    HEAD = 2
    PTR = 2
    ALIGN = 2
    SIZE_MAX = 65535
    BucketPot = 4
    HeapStarts = {1}
    HeapEnd = 79
    t1 = t1
    t2 = t2
    Threads = {t1, t2}
    Requests = {0, 4, 36, 65535}
    Aligns = {8}
    Strays = {1}
    MaxCalls = 5
INVARIANTS
    TypeOK
    OneOwner
    Tiles
    Valid
    Usable
    CopyFits
PROPERTY
    BlocksKept
CHECK_DEADLOCK FALSE
SYMMETRY Symmetry

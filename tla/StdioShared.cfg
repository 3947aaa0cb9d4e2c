SPECIFICATION Spec
CONSTANTS
    t1 = t1
    t2 = t2
    t3 = t3
    in = in
    out = out
    err = err
    f1 = f1
    f2 = f2
    l1 = l1
    l2 = l2
    l3 = l3
    l4 = l4
    l5 = l5
    Threads = {t1, t2}
    Stdin = in
    Stdout = out
    Stderr = NULL
    Opened = {}
    Locks = {l1, l2}
    NULL = NULL
    Calls = {"putc", "getc", "fread", "fflush", "setvbuf", "freopen"}
    Resize = {FALSE}
    Pipes = {in}
    Overlap = FALSE
    BufLen = 2
    Block = 2
    MaxInput = 3
    MaxCalls = 2
INVARIANTS
    TypeOK
    HolderInside
    OneLockAtATime
    InputIntact
    AcquiredOnce
PROPERTIES
    LockOnce
    CallsReturn

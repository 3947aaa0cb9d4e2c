SPECIFICATION Spec
CONSTANTS
    t1 = t1
    t2 = t2
    t3 = t3
    in = in
    out = out
    err = err
    f1 = f1
    f2 = f2
    l1 = l1
    l2 = l2
    l3 = l3
    l4 = l4
    l5 = l5
    Threads = {t1, t2}
    Stdin = in
    Stdout = out
    Stderr = err
    Opened = {f1, f2}
    Locks = {l1, l2, l3, l4, l5}
    NULL = NULL
    Calls = {"fopen", "fclose", "putc", "fflush_all", "exit"}
    Resize = {FALSE}
    Pipes = {}
    Overlap = FALSE
    BufLen = 1
    Block = 1
    MaxInput = 1
    MaxCalls = 3
INVARIANT
    ListOpen
SYMMETRY Symmetry

\* Four clients that come and go, two descriptor numbers that are used again,
\* three slots that are not: the fourth registration overruns the table.
SPECIFICATION Spec
CONSTANTS
    c1 = c1
    c2 = c2
    c3 = c3
    c4 = c4
    None = None
    Conns <- All
    Fds = {1, 2}
    Capacity = 3
    RecvMax = 1
    SockBuf = 1
    Quota <- EachOne
    Leavers <- All
SYMMETRY AllSymmetry
INVARIANTS SlotsUsedUp IndInv NoStaleSlot SigpipeWindow
CHECK_DEADLOCK FALSE

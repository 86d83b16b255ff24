\* Two talkers and two listeners, one of whom may leave, a slot for each:
\* broadcasts that meet.
SPECIFICATION Spec
CONSTANTS
    c1 = c1
    c2 = c2
    c3 = c3
    c4 = c4
    None = None
    Conns <- All
    Fds = {1, 2, 3, 4}
    Capacity = 4
    RecvMax = 1
    SockBuf = 1
    Quota <- TwoTalk
    Leavers = {c4}
SYMMETRY OrderSymmetry
INVARIANTS SameOrder
PROPERTIES RoomSpec
CHECK_DEADLOCK FALSE

\* Fair scheduling, three clients; no symmetry, the property is temporal.
SPECIFICATION FairSpec
CONSTANTS
    c1 = c1
    c2 = c2
    c3 = c3
    c4 = c4
    None = None
    Conns <- Three
    Fds = {1, 2, 3}
    Capacity = 3
    RecvMax = 1
    SockBuf = 1
    Quota <- Talkers
    Leavers = {c2}
PROPERTIES EveryoneHears
CHECK_DEADLOCK FALSE

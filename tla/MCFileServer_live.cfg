\* Every kind of request, and a download with an upload of the same file: no
\* symmetry, a liveness property is checked.
SPECIFICATION FairSpec
CONSTANTS
    c1 = c1
    c2 = c2
    f = f
    Conns = {c1, c2}
    Requests <- Everything
    OnDisk <- Disk
    BlockSize = 2
    RecvMax = 2
    Stale = {1, 5}
INVARIANTS IndInv DeathWindow
PROPERTY Answered
CHECK_DEADLOCK FALSE

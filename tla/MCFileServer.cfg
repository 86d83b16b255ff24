\* Two connections that transfer one file up or down at the same time.
SPECIFICATION Spec
CONSTANTS
    c1 = c1
    c2 = c2
    f = f
    Conns = {c1, c2}
    Requests <- Transfers
    OnDisk <- Disk
    BlockSize = 2
    RecvMax = 2
    Stale = {2}
SYMMETRY Symmetry
INVARIANTS UploadKept DataWhole DownloadKept
CHECK_DEADLOCK FALSE

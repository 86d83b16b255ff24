SPECIFICATION LabSpec
CONSTANTS
    Peers = {"p1", "p2"}
    Host <- LabHost
    ServerHost = "h2"
    Names = {"n", "m"}
    Commands <- LabCommands
    Counts <- LabCounts
    None = None
    Users = {"u1", "u2"}
    Typed <- LabTyped
    LinkBuf = 2
    RelayMax = 2
    Quiet = {"u2"}
    RecvLines = 2
    Outputs = {1, 3}
    NoUser = NoUser
    Chatters = {"a", "b", "c"}
    MaxArrivals = 2
    MaxRuns = 2
    MaxStops = 1
    MaxLines = 2
    Callers = {"a", "b", "c"}
    Numbers = {4, 5}
    Address = 900
    BUFFER_SIZE = 12
    Word = 64
    PageTop = 3
    PageEnd = 2
    HeaderLen = 4
    FaviconSize = 2
    ErrorPage = 3
    MaxEntries = 4
    FolderExtra = 1
    LineLengths = {1, 2, 3}
    MaxLine = 4
    Folders = {"m", "c", "d", "e", "x"}
    Dirs <- LabDirs
    Inputs <- LabInputs
    Size = 10
    Start <- LabStart
INVARIANTS
    LabInv
    NobodyAnswered
    DeathNeedsAbort
    OutputPrinted
    
    OwnAnswer
    DeafAndLeaking
    OverrunExactly
    ShortExactly
    RootIsDirectory
    OverrunNeedsStrange
PROPERTIES
    PromptReturns
    SessionsEnd
    UdpRoomSpec
    WaitsOnlyForLost
CHECK_DEADLOCK FALSE

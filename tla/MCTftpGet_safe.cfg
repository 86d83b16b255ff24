\* Early timeouts, a repeated request, and files longer than the numbers.
SPECIFICATION Spec
CONSTANTS
    s1 = s1
    s2 = s2
    None = None
    Sessions = {s1, s2}
    Mod = 2
    MAX_RETRIES = 1
    MaxTotal = 3
    ServerRetries = 1
    MaxLosses = 0
    MaxDups = 1
    Timely = FALSE
SYMMETRY Ports
INVARIANTS IndInv NeverAhead
PROPERTIES GetIsTransfer
CHECK_DEADLOCK FALSE

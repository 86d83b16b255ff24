\* A repeated request, early timeouts, files longer than the numbers.
SPECIFICATION Spec
CONSTANTS
    s1 = s1
    s2 = s2
    None = None
    Sessions = {s1, s2}
    Mod = 3
    MAX_RETRIES = 1
    MaxTotal = 4
    ServerRetries = 1
    MaxDups = 1
SYMMETRY Ports
INVARIANTS IndInv OneSession InStep
PROPERTIES PutIsTransfer
CHECK_DEADLOCK FALSE

\* Timeouts that mean a loss, one session, numbers that do not wrap.
SPECIFICATION FairSpec
CONSTANTS
    s1 = s1
    s2 = s2
    None = None
    Sessions = {s1}
    Mod = 8
    MAX_RETRIES = 2
    MaxTotal = 4
    ServerRetries = 3
    MaxLosses = 3
    MaxDups = 2
    Timely = TRUE
PROPERTIES Delivers Returns
CHECK_DEADLOCK FALSE

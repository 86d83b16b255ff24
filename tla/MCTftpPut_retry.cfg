\* What the message of l.248 announces.
SPECIFICATION Spec
CONSTANTS
    s1 = s1
    s2 = s2
    None = None
    Sessions = {s1}
    Mod = 4
    MAX_RETRIES = 2
    MaxTotal = 2
    ServerRetries = 1
    MaxDups = 0
PROPERTIES RetrySends
CHECK_DEADLOCK FALSE

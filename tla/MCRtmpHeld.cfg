SPECIFICATION Spec
CONSTANTS
    Background = {b1, b2}
    Kinds = {"Start", "Stop", "Release", "Backend"}
    Attempts = 1
    MaxRetries = 0
    MaxSessions = 2
    MaxOps = 4
INVARIANTS
    StopsHold
CHECK_DEADLOCK FALSE

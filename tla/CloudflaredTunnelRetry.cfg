SPECIFICATION Spec
CONSTANTS
    Conns = {0}
    EdgeCount = 2
    U8Max = 3
    Versions = {1}
    Options <- MCOptions
    RetryAfter = 60
INVARIANT RetryAfterIsHonoured
CHECK_DEADLOCK FALSE

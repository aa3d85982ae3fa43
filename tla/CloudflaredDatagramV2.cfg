SPECIFICATION MCSpec
CONSTANTS
    Conns = {0}
    EdgeCount = 1
    U8Max = 3
    Versions = {1}
    Options <- MCOptions
    RetryAfter = 60
    Ids = {1}
    MaxFlows = 1
    MaxPayloads = 1
    IncomingQueue = 1
    OutboundQueue = 1
    MaxBody = 1
    BodyLimit = 1
INVARIANT RegistrationsAreAnswered
CHECK_DEADLOCK FALSE

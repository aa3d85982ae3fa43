SPECIFICATION MCSpec
CONSTANTS
    Conns = {0, 1}
    EdgeCount = 1
    U8Max = 3
    Versions = {1, 2}
    Options <- MCOptions
    RetryAfter = 60
    Ids = {1, 2}
    MaxFlows = 2
    MaxPayloads = 2
    IncomingQueue = 1
    OutboundQueue = 1
    MaxBody = 2
    BodyLimit = 1
INVARIANTS
    QuicUnregisters
    NewestConfigStays
    FlowsIntact
    OneAnswer
PROPERTIES
    StaysForCause
    WaitsEnd
CHECK_DEADLOCK FALSE

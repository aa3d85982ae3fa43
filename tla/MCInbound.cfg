SPECIFICATION MCSpec
CONSTANTS
    Listeners = {l1, l2}
    Conns = {c1, c2, c3}
    MaxData = 2
    MaxPackets = 2
    Own = {"own1", "own2"}
    Foreign = {"foreign"}
    MaxTimeDifference = 60
    MaxSessions = 2
    Addresses = {1, 2}
    MaxPublish = 3
    MaxLive = 2
    Arrivals <- MCArrivals
    EarlyData <- MCEarlyData
    MaskLen = 2
    MaxWrites = 2
    Ids = {1}
    MaxItems = 2
    QueueCap = 1
    PipeCap = 1
INVARIANTS
    ServiceSafe
    HonestReply
    OnlyGenuine
    BytesIntact
    AssociationIsPrivate
    TasksAreBacked
PROPERTIES
    WaitsEnd
    CertificateReaches

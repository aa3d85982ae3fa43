SPECIFICATION MCSpec
CONSTANTS
    Configs <- MCConfigs
    Sessions <- MCSessions
    SetTags = {"whitelist", "blocklist"}
    Contents <- MCContents
    Outbounds = {"direct", "proxy"}
    DefaultOutbound = "direct"
    MaxReplace = 2
    Sites <- MCSites
    MaxRedirects = 2
    MaxResponse = 7
    MaxVersion = 3
    Releases = {"r1", "r2"}
    MaxSize = 3
    MaxEdits = 2
    MaxRequests = 2
    Width = 3
    MaxPort = 3
    MaxNesting = 3
    MaxName = 2
    MaxFrame = 3
    MaxJumps = 6
    MaxSegments = 3
    MaxMessage = 8
INVARIANTS
    RoutingIsSound
    ExchangeIsWhole
    AnswersAreGrounded
    FileMeansTheSame
    WireAgrees
    ConfigIsGathered
    TunnelsAreRouted

SPECIFICATION FairSpec
CONSTANTS
    Domains = {a, b}
    RecordIds = {1, 2}
    AccountIds = {k1, k2}
    Lifetimes = {1, 3}
    RenewBefore = 2
    RenewRetry = 1
    MaxClock = 4
INVARIANTS
    NothingLeftBehind
    ExpiryTakesAttempts
PROPERTIES
    PublishesStored
    CloseReturns

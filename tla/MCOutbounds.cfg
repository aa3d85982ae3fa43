SPECIFICATION MCSpec
CONSTANTS
    Sessions = {s1, s2}
    Requests = {r1, r2}
    MinIdle = 0
    UsizeMax = 15
    Transports = {t1, t2}
    Callers = {c1, c2, c3}
    RequestSize = 4
    MaxEarlyData = {0, 3, 4}
INVARIANTS
    SessionsAreOwned
    BooksAreRight
    DialsAreClean
PROPERTY
    WaitsEnd

SPECIFICATION Spec
CONSTANTS
    Sessions = {s1, s2}
    Requests = {r1, r2}
    MinIdle = 0
    UsizeMax = 15
INVARIANT InsertedStreamIsFound

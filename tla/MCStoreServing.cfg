\* A process that ingests and one that serves with two workers; Redis loses
\* SETs, GETs and keys.
SPECIFICATION SerialSpec
CONSTANTS
    p1 = p1  p2 = p2  w = w  v = v  r = r  q = q  a = a  b = b
    Procs = {p1, p2}
    Threads = {w, r, q}
    Writers = {w}
    Readers = {r, q}
    Entities = {a, b}
    Home <- ServingHome
    Serves <- ServingServe
    CacheCapacity = 1
    RedisUp = TRUE
    GetMayFail = TRUE
    SetMayFail = TRUE
    MayExpire = TRUE
    MaxIngests = 2
    MaxGets = 3
SYMMETRY Workers
CHECK_DEADLOCK FALSE
INVARIANT MonotonicReads

\* The serving process keeps what it read once.
SPECIFICATION Spec
CONSTANTS
    p1 = p1  p2 = p2  w = w  v = v  r = r  q = q  a = a  b = b
    Procs = {p1, p2}
    Threads = {w, r, q}
    Writers = {w}
    Readers = {r, q}
    Entities = {a, b}
    Home <- ServingHome
    Serves <- ShardedServe
    CacheCapacity = 1
    RedisUp = TRUE
    GetMayFail = FALSE
    SetMayFail = FALSE
    MayExpire = FALSE
    MaxIngests = 2
    MaxGets = 2
CHECK_DEADLOCK FALSE
INVARIANT LatestServed

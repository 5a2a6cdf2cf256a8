\* Two threads, each with an entity of its own; Redis loses keys and GETs.
SPECIFICATION Spec
CONSTANTS
    p1 = p1  p2 = p2  w = w  v = v  r = r  q = q  a = a  b = b
    Procs = {p1}
    Threads = {w, v}
    Writers = {w, v}
    Readers = {w, v}
    Entities = {a, b}
    Home <- OwnedHome
    Serves <- OwnedServe
    CacheCapacity = 1
    RedisUp = TRUE
    GetMayFail = TRUE
    SetMayFail = FALSE
    MayExpire = TRUE
    MaxIngests = 4
    MaxGets = 4
CHECK_DEADLOCK FALSE
INVARIANTS TypeOK LatestServed WriterCacheExact
PROPERTY ImplementsHistory

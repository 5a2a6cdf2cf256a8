\* Three channels for threads that can ask for five at once, and a close().
SPECIFICATION Spec
CONSTANTS
    s = s  t = t  u = u
    PoolSize = 3
    Threads = {s, t, u}
    Depth <- MCDepth
    Closers = {c}
INVARIANTS TypeOK ChannelsConserved QuietCloseComplete
PROPERTY ChannelComesBack
CHECK_DEADLOCK FALSE

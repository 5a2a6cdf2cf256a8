\* Three keys for two places, and enough calls to evict, come back and clear.
SPECIFICATION Spec
CONSTANTS
    CacheCapacity = 2
    Keys     = {k1, k2, k3}
    Values   = {v1, v2}
    MaxCalls = 6
SYMMETRY Symmetry
INVARIANTS TypeOK IsLeastRecentlyUsed HoldsLatest
CHECK_DEADLOCK FALSE

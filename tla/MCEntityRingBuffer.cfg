\* Timestamps in order: three slots, so that the ring wraps at every offset.
SPECIFICATION Spec
CONSTANTS
    Capacity  = 3
    Origin    = origin
    Stamps   <- MCStamps
    Amounts   = {1, 2}
    Merchants = {m1, m2}
    Places    = {origin, far}
    InOrder   = TRUE
INVARIANTS TypeOK MerchantsMatchWindow
PROPERTY ImplementsEventLog

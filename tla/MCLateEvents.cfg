\* Timestamps in any order, as the messages of a topic may carry them.
SPECIFICATION Spec
CONSTANTS
    Capacity  = 3
    Origin    = origin
    Stamps   <- MCStamps
    Amounts   = {1}
    Merchants = {m1, m2}
    Places    = {origin}
    InOrder   = FALSE
INVARIANT MerchantsMatchWindow

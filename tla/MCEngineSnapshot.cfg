\* One ingesting thread, as in the server, and one reader.  Three slots and
\* four transactions, so that the ring wraps while a snapshot is taken.
SPECIFICATION Spec
CONSTANTS
    Capacity    = 3
    Origin      = origin
    Ingesters   = {i1}
    Readers     = {r1}
    Entities    = {e1}
    NoEntity    = none
    Amounts     = {1, 2}
    Merchants   = {m1}
    Places      = {origin}
    Narrow      = 0
    Middle      = 1
    Wide        = 2
    MaxEntities = 1
    Lateness    = 0
    MaxTime     = 3
    MaxIngests  = 4
    MaxComputes = 1
INVARIANTS CountsNested AmountsNested
CHECK_DEADLOCK FALSE

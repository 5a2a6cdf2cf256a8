\* The registry under contention: two ingesting threads and one reader over
\* three entities, with room for two.  Buffers are never full.
SPECIFICATION Spec
CONSTANTS
    Capacity    = 5
    Origin      = origin
    Ingesters   = {i1, i2}
    Readers     = {r1}
    Entities    = {e1, e2, e3}
    NoEntity    = none
    Amounts     = {1}
    Merchants   = {m1}
    Places      = {origin}
    Narrow      = 0
    Middle      = 0
    Wide        = 0
    MaxEntities = 2
    Lateness    = 0
    MaxTime     = 1
    MaxIngests  = 4
    MaxComputes = 1
SYMMETRY Symmetry
INVARIANTS TypeOK BuffersAccounted EventsConserved
CHECK_DEADLOCK FALSE

\* One stream open beside Predict and BatchPredict calls, on two workers.
SPECIFICATION Spec
CONSTANTS
    Predicts   = {p1}
    Batches    = {b1}
    Streams    = {s1}
    Workers    = 2
    Items      <- MCItems
    Nested     = FALSE
    MaxReloads = 1
INVARIANTS TypeOK ActiveExact ServedExact ReloadTakesEffect 
PROPERTIES PredictAnswered InterruptEnds
CHECK_DEADLOCK FALSE

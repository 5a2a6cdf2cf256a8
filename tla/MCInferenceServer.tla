------------------------- MODULE MCInferenceServer -------------------------
EXTENDS InferenceServer

MCItems == [r \in Batches \cup Streams |-> IF r \in Batches THEN 2 ELSE 1]
=============================================================================

------------------------ MODULE MCEntityRingBuffer -------------------------
(* A buffer of three slots, filled and wrapped in every way.               *)
EXTENDS EntityRingBuffer

MCStamps == 1 .. 3
=============================================================================

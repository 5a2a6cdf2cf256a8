---------------------------- MODULE MCClientPool ----------------------------
(* Two threads that predict while they iterate over a stream, and one that *)
(* does not.                                                               *)
EXTENDS ClientPool

CONSTANTS s, t, u

MCDepth == [x \in Threads |-> IF x = u THEN 1 ELSE 2]
=============================================================================

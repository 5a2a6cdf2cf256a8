------------------------- MODULE MCTransactionStream -------------------------
(* With a server that reads the topic: one entity's transactions and a     *)
(* malformed message, the server started any number of times, and no       *)
(* delivery faults.                                                        *)
(* With a callback (and no such server): two entities, a delivery that     *)
(* fails and one that is repeated.                                         *)
EXTENDS TransactionStream

CONSTANTS e, f

MCEmits  == [c \in BOOLEAN |->
                [x \in Entities |-> IF x = e THEN 2 ELSE IF c THEN 1 ELSE 0]]
MCFaults == [c \in BOOLEAN |-> IF c THEN 1 ELSE 0]
=============================================================================

------------------------------ MODULE EventLog ------------------------------
(***************************************************************************)
(* What an entity's buffer promises: it remembers the latest Capacity      *)
(* transactions, whole and in arrival order, and the place of the last     *)
(* one.  EntityRingBuffer implements this with slots, a head and a deque.  *)
(***************************************************************************)
EXTENDS Naturals, Sequences

CONSTANTS Capacity, Events, Origin

VARIABLES log,    \* the remembered transactions, oldest first
          place   \* where the entity was last seen

Remembered(e) == [ts |-> e.ts, amount |-> e.amount, merchant |-> e.merchant]

Init == log = << >> /\ place = Origin

Record(e) ==
    /\ log'   = Append(IF Len(log) = Capacity THEN Tail(log) ELSE log,
                       Remembered(e))
    /\ place' = e.place

Next == \E e \in Events : Record(e)

Spec == Init /\ [][Next]_<<log, place>>
=============================================================================

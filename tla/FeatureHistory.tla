--------------------------- MODULE FeatureHistory ---------------------------
(***************************************************************************)
(* What the feature store promises: a history of every entity, and gets    *)
(* that answer with all of it.  There are no tiers, no processes and no    *)
(* stages; a call takes effect at one moment.                              *)
(***************************************************************************)
EXTENDS Naturals

CONSTANTS Callers, Entities,
          Nothing    \* what a caller knows of an entity it never asked for

VARIABLES history,   \* the transactions of each entity
          told       \* what a caller was last told of each entity

Init == /\ history = [e \in Entities |-> 0]
        /\ told = [c \in Callers |-> [e \in Entities |-> Nothing]]

Ingest(e) == /\ history' = [history EXCEPT ![e] = @ + 1]
             /\ UNCHANGED told

Get(c, e) == /\ told' = [told EXCEPT ![c][e] = history[e]]
             /\ UNCHANGED history

Next == \E e \in Entities : Ingest(e) \/ \E c \in Callers : Get(c, e)

Spec == Init /\ [][Next]_<<history, told>>
=============================================================================

-------------------------------- MODULE Topic --------------------------------
(***************************************************************************)
(* The Kafka topic "transactions", one partition of it: a log that keeps   *)
(* what producers append.  External to the repository; modelled from how   *)
(* stream_ingestion/simulator.py uses it.  One partition is enough: the    *)
(* key of a message is its entity, so that an entity's messages share one. *)
(***************************************************************************)
EXTENDS Integers, Sequences, FiniteSets

CONSTANT Entities

VARIABLE topic

\* A transaction is its entity and its number among those of the entity.
Transactions == [entity : Entities, number : Nat \ {0}]

\* Messages of another producer: not JSON; JSON with other fields than those of
\* a Transaction; its fields with values of other types.
NotJSON     == [entity |-> "not JSON"]
OtherFields == [entity |-> "other fields"]
OtherTypes  == [entity |-> "other types"]
Malformed   == {NotJSON, OtherFields, OtherTypes}

Messages == Transactions \cup Malformed
=============================================================================

-------------------------- MODULE TransactionStream --------------------------
(***************************************************************************)
(* The simulator's process and the feature store server's, with the topic  *)
(* between them.                                                           *)
(***************************************************************************)
EXTENDS TransactionSimulator, IngestServer

LOCAL INSTANCE FiniteSetsExt

vars == <<topic, simulator, server>>

Init == topic = << >> /\ SimInit /\ ServerInit

\* Only a server started with --simulate gives the simulator a callback; its
\* ingest task is the simulator's run(), and it reads no topic.
Next == \/ SimNext /\ UNCHANGED server
        \/ ~ callback /\ ServerNext /\ UNCHANGED simulator

\* Both event loops run, and so do executor threads and the producer's task.
\* Nobody has to start, stop or restart a process, or to produce.
Fairness == /\ WF_vars(Background /\ UNCHANGED server)
            /\ WF_vars(Ingesting /\ UNCHANGED simulator)
            /\ WF_vars(Stopping /\ UNCHANGED simulator)

Spec == Init /\ [][Next]_vars /\ Fairness

-----------------------------------------------------------------------------
\* The shapes of the variables; offsets are within the topic, and there is a
\* position exactly while a consumer has been started in this process.
TypeOK ==
    /\ topic \in Seq(Messages)
    /\ run \in {"new", "running", "stopping", "stopped", "cancelled", "failed", "exited"}
    /\ loops \in [Entities -> {"none", "sleep", "callback", "send", "failed", "cancelled"}]
    /\ callback \in BOOLEAN /\ available \in BOOLEAN
    /\ working \subseteq Transactions /\ called \subseteq Transactions
    /\ emitted \in [Entities -> Nat] /\ sent \in Nat /\ buffer \in Seq(Transactions)
    /\ \A e \in Entities : loops[e] \in {"callback", "send"} => emitted[e] > 0
    /\ expired \subseteq Transactions /\ resent \in Nat
    /\ main \in {"down", "serving", "awaiting", "stopped", "raised"}
    /\ task \in {"none", "connecting", "consuming", "ended", "failed", "broken", "cancelled"}
    /\ main = "down" <=> task = "none"
    /\ signalled \in BOOLEAN
    /\ position \in {NoOffset} \cup 0 .. Len(topic)
    /\ task \in {"consuming", "failed", "broken"} => position # NoOffset
    /\ committed \in {NoOffset} \cup 0 .. Len(topic)
    /\ recorded \in Seq(DOMAIN topic)
    /\ since \in 0 .. Len(topic) /\ read \subseteq DOMAIN topic

\* What the engine of a server has recorded of an entity are transactions in
\* the order in which they were generated, none of them twice: from the
\* entity's coroutine through accumulator and topic, and again after a
\* restart that reads messages a second time.  This is what the engine relies
\* on when it takes timestamps not to go back; only a producer that repeats a
\* batch breaks it.
EntityOrder ==
    resent = 0 =>
        \A i, j \in DOMAIN recorded :
            i < j /\ topic[recorded[i]].entity = topic[recorded[j]].entity =>
                topic[recorded[i]].number < topic[recorded[j]].number

\* A committed offset covers only messages that a server has read: a crash
\* between a commit and an ingest loses nothing.  What arrived before the
\* group had any offset is not promised.
CommittedWasRead ==
    committed # NoOffset => since + 1 .. committed \subseteq read

InTopic == {topic[i] : i \in DOMAIN topic} \ Malformed

\* When run() has ended because its time was over, every transaction that it
\* counts as sent ("Kafka sent" in its summary) is in the topic, or its
\* delivery has failed: nothing is left behind in the accumulator.
SentDelivered == run = "stopped" => Cardinality(InTopic \cup expired) = sent

\* What the coroutines have generated.
Generated == UNION {{[entity |-> e, number |-> n] : n \in 1 .. emitted[e]} : e \in Entities}

\* However the coroutines end, no more is generated without being sent than
\* the transaction that each of them has in hand.
OneUnsentEach ==
    available => Cardinality(Generated) - sent =< Cardinality(Entities)

\* With on_transaction, a transaction goes to Kafka after the callback has
\* returned for it, so that the store the callback feeds is never behind.
CalledBeforeSent ==
    callback => InTopic \cup {buffer[i] : i \in DOMAIN buffer} \subseteq called

\* A signal ends the server, whatever its ingest task is doing or died of.
ShutdownEnds == signalled ~> main \in {"stopped", "raised", "down"}

Offsets ==
    1 .. (MaxFaults[FALSE] + 1) * MapThenSumSet(LAMBDA e : MaxEmits[FALSE][e], Entities) + MaxForeign

\* The task has ended of itself: Kafka was never there, or failed.
KafkaGone == task \in {"ended", "failed"}

\* Offset i lies at or behind a message that ends the ingest task.
HeldUp(i) == \E j \in DOMAIN topic :
                since < j /\ j =< i /\ topic[j] \in {NotJSON, OtherTypes}

\* When, after any crashes and restarts, a server stays up and keeps its
\* connection to Kafka, every message that arrives is read, except what came
\* before the group had an offset; and except that a message which is not
\* JSON, or has values of other types, holds up itself and those behind it.
\* The one kind of malformed message that the code skips holds up nothing.
EventuallyRead ==
    <>[](main = "serving" /\ ~ KafkaGone) =>
        \A i \in Offsets : i \in DOMAIN topic ~> (i \in read \/ i =< since \/ HeldUp(i))

\* "Used by the feature store server to stay up-to-date across restarts": a
\* consumer that has caught up has recorded all there was to record since the
\* group first had an offset.
UpToDate ==
    task = "consuming" /\ position = Len(topic) =>
        \A i \in since + 1 .. Len(topic) :
            topic[i] \notin Malformed => \E k \in DOMAIN recorded : recorded[k] = i
=============================================================================

------------------------ MODULE TransactionSimulator ------------------------
(***************************************************************************)
(* TransactionSimulator and KafkaProducer (stream_ingestion/simulator.py): *)
(* run() gathers one coroutine per entity; each of them sleeps, generates  *)
(* a transaction, has an executor thread call on_transaction, and hands    *)
(* the transaction to the producer, which sends in the background.         *)
(*                                                                         *)
(* A step goes from one await of a coroutine to the next.                  *)
(*                                                                         *)
(* Left out: what a transaction contains; fraud counts, rates and reports; *)
(* the predictions that _emit requests two seconds later; an exception in  *)
(* on_transaction; brokers that lose what they acknowledged.               *)
(***************************************************************************)
EXTENDS Topic

LOCAL INSTANCE FiniteSetsExt

CONSTANTS
    Callbacks,   \* is on_transaction given?  A set of answers
    MaxEmits,    \* bounds, without and with a callback: on an entity's transactions,
    MaxFaults    \* on failed and on repeated deliveries

ASSUME SimulatorAssumption ==
    /\ IsFiniteSet(Entities)
    /\ Callbacks \subseteq BOOLEAN /\ Callbacks # {}
    /\ MaxEmits \in [BOOLEAN -> [Entities -> Nat]] /\ MaxFaults \in [BOOLEAN -> Nat]

VARIABLES
    run,         \* where run() is
    loops,       \* the await that an entity's coroutine is at
    callback,    \* is on_transaction given?
    available,   \* did Kafka answer when the producer was started?
    working,     \* transactions an executor thread is calling on_transaction for
    called,      \* history: transactions on_transaction has returned for
    emitted,     \* transactions generated, per entity
    sent,        \* _sent_count
    buffer,      \* the producer's accumulator
    expired,     \* history: transactions whose delivery failed
    resent       \* history: how often the producer repeated messages

simulator == <<run, loops, callback, available, working, called, emitted, sent, buffer,
               expired, resent>>

faults == <<expired, resent>>

SimInit ==
    /\ run = "new" /\ loops = [e \in Entities |-> "none"]
    /\ callback \in Callbacks /\ available = FALSE
    /\ working = {} /\ called = {}
    /\ emitted = [e \in Entities |-> 0] /\ sent = 0 /\ buffer = << >>
    /\ expired = {} /\ resent = 0

\* The transaction that the coroutine of e has in hand.
Current(e) == [entity |-> e, number |-> emitted[e]]

AtLoop(e, from, to) == loops[e] = from /\ loops' = [loops EXCEPT ![e] = to]

\* KafkaProducer.start, which decides for good whether there is Kafka.
StartProducer == available' \in BOOLEAN

\* run() up to gather, which starts the entities' coroutines.
StartRun ==
    /\ run = "new" /\ run' = "running"
    /\ StartProducer
    /\ loops' = [e \in Entities |-> "sleep"]
    /\ UNCHANGED <<callback, working, called, emitted, sent, buffer, topic, faults>>

\* Mutant of Emit: the callback is not awaited.
EmitUnawaited(e) ==
    /\ emitted[e] < MaxEmits[callback][e]
    /\ AtLoop(e, "sleep", "send")
    /\ emitted' = [emitted EXCEPT ![e] = @ + 1]
    /\ working' = IF callback THEN working \cup {Current(e)'} ELSE working
    /\ UNCHANGED <<run, callback, available, called, sent, buffer, topic, faults>>

\* The sleep is over: generate_transaction and the first half of _emit.
Emit(e) ==
    /\ emitted[e] < MaxEmits[callback][e]
    /\ AtLoop(e, "sleep", IF callback THEN "callback" ELSE "send")
    /\ emitted' = [emitted EXCEPT ![e] = @ + 1]
    /\ working' = IF callback THEN working \cup {Current(e)'} ELSE working
    /\ UNCHANGED <<run, callback, available, called, sent, buffer, topic, faults>>

\* An executor thread returns from on_transaction; the coroutine may have
\* been cancelled in the meantime.
CallbackReturns(x) ==
    /\ x \in working
    /\ working' = working \ {x}
    /\ called' = called \cup {x}
    /\ loops' = [loops EXCEPT ![x.entity] = IF @ = "callback" THEN "send" ELSE @]
    /\ UNCHANGED <<run, callback, available, emitted, sent, buffer, topic, faults>>

\* Mutant of Send: a full producer makes the coroutine drop what it has.
SendOrDrop(e) ==
    /\ AtLoop(e, "send", "sleep")
    /\ \/ available /\ buffer' = Append(buffer, Current(e)) /\ sent' = sent + 1
       \/ UNCHANGED <<buffer, sent>>
    /\ UNCHANGED <<run, callback, available, working, called, emitted, topic, faults>>

\* Mutant of Send: the newest message goes first.
SendNewestFirst(e) ==
    /\ AtLoop(e, "send", "sleep")
    /\ \/ available /\ buffer' = <<Current(e)>> \o buffer /\ sent' = sent + 1
       \/ ~ available /\ UNCHANGED <<buffer, sent>>
    /\ UNCHANGED <<run, callback, available, working, called, emitted, topic, faults>>

\* KafkaProducer.send returns when the message is in the accumulator.
Send(e) ==
    /\ AtLoop(e, "send", "sleep")
    /\ \/ available /\ buffer' = Append(buffer, Current(e)) /\ sent' = sent + 1
       \/ ~ available /\ UNCHANGED <<buffer, sent>>
    /\ UNCHANGED <<run, callback, available, working, called, emitted, topic, faults>>

\* It raises, say because the brokers cannot be reached any more.  gather
\* passes the first exception on to run() and lets the other coroutines be.
SendFails(e) ==
    /\ available /\ AtLoop(e, "send", "failed")
    /\ run' = IF run = "running" THEN "failed" ELSE run
    /\ UNCHANGED <<callback, available, working, called, emitted, sent, buffer, topic, faults>>

\* The producer's background task.  With acks = 1 the leader's answer is all
\* that it waits for.
Deliver ==
    /\ buffer # << >>
    /\ topic' = Append(topic, Head(buffer))
    /\ buffer' = Tail(buffer)
    /\ UNCHANGED <<run, loops, callback, available, working, called, emitted, sent, faults>>

\* The answer is lost, and what may be a batch goes to the topic again.
Resend ==
    /\ resent < MaxFaults[callback] /\ resent' = resent + 1
    /\ \E n \in DOMAIN buffer : topic' = topic \o SubSeq(buffer, 1, n)
    /\ UNCHANGED <<run, loops, callback, available, working, called, emitted, sent, buffer, expired>>

\* The delivery fails for good; nobody looks at the future send returned.
Expire ==
    /\ buffer # << >> /\ Cardinality(expired) < MaxFaults[callback]
    /\ expired' = expired \cup {Head(buffer)}
    /\ buffer' = Tail(buffer)
    /\ UNCHANGED <<run, loops, callback, available, working, called, emitted, sent, resent, topic>>

Cancelled == [e \in Entities |-> IF loops[e] = "failed" THEN "failed" ELSE "cancelled"]

\* duration_seconds are over: wait_for cancels the coroutines, whatever they
\* are waiting for, and run() goes on to stop the producer.
Timeout ==
    /\ run = "running" /\ run' = "stopping"
    /\ loops' = Cancelled
    /\ UNCHANGED <<callback, available, working, called, emitted, sent, buffer, topic, faults>>

\* Mutant of StopProducer: without waiting for the accumulator.
StopAtOnce ==
    /\ run = "stopping" /\ run' = "stopped"
    /\ UNCHANGED <<loops, callback, available, working, called, emitted, sent, buffer, topic, faults>>

\* kafka.stop() sends what is in the accumulator first.
StopProducer ==
    /\ run = "stopping" /\ buffer = << >> /\ run' = "stopped"
    /\ UNCHANGED <<loops, callback, available, working, called, emitted, sent, buffer, topic, faults>>

\* run() itself is cancelled (Ctrl-C, the shutdown of the server that runs
\* it): the lines after gather, and with them kafka.stop(), are skipped.
Cancel ==
    /\ run = "running" /\ run' = "cancelled"
    /\ loops' = Cancelled
    /\ UNCHANGED <<callback, available, working, called, emitted, sent, buffer, topic, faults>>

\* The event loop is closed: coroutines left over by a failure are cancelled,
\* executor threads are waited for, the accumulator is gone.
Exit ==
    /\ run \in {"stopped", "cancelled", "failed"} /\ working = {}
    /\ run' = "exited"
    /\ loops' = Cancelled
    /\ buffer' = << >>
    /\ UNCHANGED <<callback, available, working, called, emitted, sent, topic, faults>>

\* What happens without the clock or the user.
Background == Deliver \/ StopProducer \/ \E x \in working : CallbackReturns(x)

SimNext ==
    \/ StartRun \/ Resend \/ Expire \/ Timeout \/ Cancel \/ Exit \/ Background
    \/ \E e \in Entities : Emit(e) \/ Send(e) \/ SendFails(e)
=============================================================================

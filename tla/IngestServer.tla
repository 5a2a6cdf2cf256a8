---------------------------- MODULE IngestServer ----------------------------
(***************************************************************************)
(* The feature store server (feature_store/server.py) fed from Kafka:      *)
(* _main, its ingest task, and TransactionConsumer (simulator.py), through *)
(* shutdowns, crashes and restarts.                                        *)
(*                                                                         *)
(* The history of the entities is in the memory of the process (rolling_   *)
(* engine.py); what survives it is the topic and the group's committed     *)
(* offset.  An offset counts the messages before it.  Between getting a    *)
(* message and the return of store.ingest nothing is awaited, so that both *)
(* are one step.                                                           *)
(*                                                                         *)
(* Left out: what ingest does (FeatureStore); the answers of the health    *)
(* server; more than one member of the consumer group; --simulate, where   *)
(* the ingest task is TransactionSimulator's run.                          *)
(***************************************************************************)
EXTENDS Topic

CONSTANT MaxForeign   \* bound on the messages of other producers

ASSUME ServerAssumption == MaxForeign \in Nat

VARIABLES
    main,        \* where _main is
    task,        \* the ingest task
    signalled,   \* stop_event
    position,    \* the consumer's position
    committed,   \* the committed offset of the group
    recorded,    \* offsets of the messages the engine of this process recorded
    since,       \* history: where the consumer began when nothing was committed
    read         \* history: offsets that any process has read so far

server == <<main, task, signalled, position, committed, recorded, since, read>>

NoOffset == -1

ServerInit ==
    /\ main = "down" /\ task = "none" /\ signalled = FALSE
    /\ position = NoOffset /\ committed = NoOffset
    /\ recorded = << >>
    /\ since = 0 /\ read = {}

\* Another producer's message arrives.
Foreign ==
    /\ Cardinality({i \in DOMAIN topic : topic[i] \in Malformed}) < MaxForeign
    /\ \E message \in Malformed : topic' = Append(topic, message)
    /\ UNCHANGED server

\* A process starts with an empty engine; the health server, the ingest task.
Boot ==
    /\ main = "down"
    /\ main' = "serving" /\ task' = "connecting" /\ signalled' = FALSE
    /\ UNCHANGED <<topic, position, committed, recorded, since, read>>

\* consumer.start(): at the committed offset, or at the end of the topic when
\* there is none (auto_offset "latest").
Connect ==
    /\ task = "connecting" /\ task' = "consuming"
    /\ position' = IF committed = NoOffset THEN Len(topic) ELSE committed
    /\ since' = IF committed = NoOffset THEN Len(topic) ELSE since
    /\ UNCHANGED <<topic, main, signalled, committed, recorded, read>>

\* Kafka is unavailable: the iteration is over before it began, and the task
\* ends as if there were nothing more to do.
Unavailable ==
    /\ task = "connecting" /\ task' = "ended"
    /\ UNCHANGED <<topic, main, signalled, position, committed, recorded, since, read>>

Upcoming == topic[position + 1]

Advance ==
    /\ position' = position + 1
    /\ read' = read \cup {position + 1}

\* Mutant of Consume: the loop ends at a message that is no transaction.
ConsumeUntilMalformed ==
    /\ task = "consuming" /\ position < Len(topic) /\ Upcoming \notin Malformed
    /\ Advance
    /\ recorded' = Append(recorded, position + 1)
    /\ UNCHANGED <<topic, main, task, signalled, committed, since>>

\* One turn of kafka_ingest_loop.  Only a message that makes no Transaction is
\* skipped.  One with values of other types raises in the body of the loop,
\* after the position has moved; one that is not JSON raises in the consumer's
\* deserializer, before it has: both end the task.
Consume ==
    /\ task = "consuming" /\ position < Len(topic)
    /\ \/ /\ Upcoming \notin Malformed /\ Advance
          /\ recorded' = Append(recorded, position + 1)
          /\ UNCHANGED task
       \/ /\ Upcoming = OtherFields /\ Advance
          /\ UNCHANGED <<task, recorded>>
       \/ /\ Upcoming = OtherTypes /\ Advance
          /\ task' = "broken" /\ UNCHANGED recorded
       \/ /\ Upcoming = NotJSON
          /\ task' = "broken" /\ UNCHANGED <<position, read, recorded>>
    /\ UNCHANGED <<topic, main, signalled, committed, since>>

\* Mutant of Commit: the position is taken for the last message's offset.
CommitNext ==
    /\ main \in {"serving", "awaiting"} /\ position # NoOffset
    /\ committed # position + 1
    /\ committed' = position + 1
    /\ UNCHANGED <<topic, main, task, signalled, position, recorded, since, read>>

\* enable_auto_commit, every few seconds while the event loop runs: nothing
\* stops the consumer, also when the ingest task is over.
Commit ==
    /\ main \in {"serving", "awaiting"} /\ position \notin {NoOffset, committed}
    /\ committed' = position
    /\ UNCHANGED <<topic, main, task, signalled, position, recorded, since, read>>

\* Kafka raises out of the iteration; nobody awaits the task before shutdown.
TaskFails ==
    /\ task = "consuming" /\ task' = "failed"
    /\ UNCHANGED <<topic, main, signalled, position, committed, recorded, since, read>>

-----------------------------------------------------------------------------
(* shutdown                                                                *)

\* SIGINT or SIGTERM
Signal ==
    /\ main = "serving" /\ ~ signalled
    /\ signalled' = TRUE
    /\ UNCHANGED <<topic, main, task, position, committed, recorded, since, read>>

TaskOver == task \in {"ended", "failed", "broken", "cancelled"}

\* Mutant of Wake: the task is awaited without having been cancelled.
WakeOnly ==
    /\ main = "serving" /\ signalled
    /\ main' = "awaiting" /\ task' = task
    /\ UNCHANGED <<topic, signalled, position, committed, recorded, since, read>>

\* stop_event.wait() returns; ingest_task.cancel() does nothing to a task
\* that is over.
Wake ==
    /\ main = "serving" /\ signalled
    /\ main' = "awaiting" /\ task' = IF TaskOver THEN task ELSE "cancelled"
    /\ UNCHANGED <<topic, signalled, position, committed, recorded, since, read>>

\* await ingest_task: what a dead task died of is raised here; otherwise the
\* health server is stopped and the final statistics are logged.
Awaited ==
    /\ main = "awaiting" /\ TaskOver
    /\ main' = IF task \in {"failed", "broken"} THEN "raised" ELSE "stopped"
    /\ UNCHANGED <<topic, task, signalled, position, committed, recorded, since, read>>

\* The process ends, after _main or because it is killed.  The consumer is
\* not stopped, so nothing more is committed.
Down ==
    /\ main # "down"
    /\ main' = "down" /\ task' = "none" /\ signalled' = FALSE
    /\ position' = NoOffset /\ recorded' = << >>
    /\ UNCHANGED <<topic, committed, since, read>>

Ingesting == Connect \/ Consume
Stopping  == Wake \/ Awaited

ServerNext ==
    Foreign \/ Boot \/ Ingesting \/ Unavailable \/ Commit \/ TaskFails
      \/ Signal \/ Stopping \/ Down
=============================================================================

-------------------------- MODULE InferenceServer --------------------------
(***************************************************************************)
(* The gRPC inference server (inference_engine/server.py): handlers of     *)
(* Predict, BatchPredict and StreamPredict on a bounded thread pool, the   *)
(* predict_single they share, FraudModel.reload, which the SIGHUP handler  *)
(* runs in the main thread while the handlers read the model, and how the  *)
(* main thread ends: by Ctrl-C, or by a reload that raises.                *)
(*                                                                         *)
(* A request is a model value that lives through one call.  The artifact   *)
(* is one load number per attribute of FraudModel: which pickle the value  *)
(* of the attribute came from.  A step is one read or write of something   *)
(* another thread can change.                                              *)
(*                                                                         *)
(* Left out: Health and GetFeatures, which change nothing here; the        *)
(* histograms, the other counters and the explanations; what get_features  *)
(* does (FeatureStore); the cancellation of a unary call, which its        *)
(* handler does not notice.                                                *)
(***************************************************************************)
EXTENDS Integers, Sequences, FiniteSets

CONSTANTS
    Predicts, Batches, Streams,  \* the calls, by method
    Workers,                     \* max_workers
    Items,                       \* Items[r]: transactions in a batch, at most in a stream
    Nested,                      \* may a SIGHUP arrive while one is handled?
    MaxReloads                   \* bound on the number of SIGHUPs

ASSUME ServerAssumption ==
    /\ Predicts \cap Batches = {} /\ Predicts \cap Streams = {} /\ Batches \cap Streams = {}
    /\ IsFiniteSet(Predicts \cup Batches \cup Streams)
    /\ Workers \in Nat \ {0}
    /\ Items \in [Batches \cup Streams -> Nat \ {0}]
    /\ Nested \in BOOLEAN /\ MaxReloads \in Nat

Requests == Predicts \cup Batches \cup Streams

VARIABLES
    pc, queue,       \* stage of a call; the calls waiting for a worker
    sent, closed,    \* streams: transactions sent, no more will come
    gone,            \* streams that have been cancelled
    taken,           \* streams: transactions the handler has taken
    since, stale,    \* history: the last load that had returned when a prediction
                     \* began; predictions that have read an older attribute
    results,         \* predictions that succeeded, per call
    answers,         \* responses delivered, per call
    served,          \* _request_count
    active,          \* the ACTIVE_REQUESTS gauge
    artifact,        \* FraudModel's attributes
    reloading,       \* the reloads the main thread is in, the innermost first
    process,         \* what the main thread has come to
    reloads, loaded  \* reloads begun; history: the newest that has returned

clients == <<sent, closed, gone>>
model   == <<process, artifact, reloading, reloads, loaded>>
vars    == <<pc, queue, clients, taken, since, stale, results, answers, served,
             active, model>>

\* The order of the assignments in _load; payload[...] raises when the pickle
\* has no such key, payload.get does not.
LoadOrder  == <<"model", "scaler", "feature_names", "model_type", "version", "threshold">>
Required   == {"model", "feature_names", "model_type", "version"}
Attributes == {LoadOrder[i] : i \in DOMAIN LoadOrder}
AllFrom(n) == [f \in Attributes |-> n]

Init ==
    /\ pc = [r \in Requests |-> "new"] /\ queue = << >>
    /\ sent   = [r \in Streams |-> 0]
    /\ closed = [r \in Streams |-> FALSE] /\ gone = {}
    /\ taken  = [r \in Streams |-> 0]
    /\ since = [r \in Requests |-> 0] /\ stale = {}
    /\ results = [r \in Requests |-> 0] /\ answers = [r \in Requests |-> 0]
    /\ served = 0 /\ active = 0
    /\ process = "up"
    /\ artifact = AllFrom(0) /\ reloading = << >> /\ reloads = 0 /\ loaded = 0

Goto(r, from, to) == pc[r] = from /\ pc' = [pc EXCEPT ![r] = to]

-----------------------------------------------------------------------------
(* the clients and the thread pool                                         *)

Call(r) ==
    /\ process = "up"
    /\ Goto(r, "new", "queued")
    /\ queue' = Append(queue, r)
    /\ UNCHANGED <<clients, taken, since, stale, results, answers, served, active, model>>

SendItem(r) ==
    /\ pc[r] # "new" /\ r \notin gone /\ ~ closed[r] /\ sent[r] < Items[r]
    /\ sent' = [sent EXCEPT ![r] = @ + 1]
    /\ UNCHANGED <<pc, queue, closed, gone, taken, since, stale, results, answers,
                   served, active, model>>

HalfClose(r) ==
    /\ pc[r] # "new" /\ r \notin gone /\ ~ closed[r]
    /\ closed' = [closed EXCEPT ![r] = TRUE]
    /\ UNCHANGED <<pc, queue, sent, gone, taken, since, stale, results, answers,
                   served, active, model>>

Over(r) == pc[r] \in {"new", "done"}

\* The client cancels the stream, or its connection breaks.
Cancel(r) ==
    /\ ~ Over(r) /\ r \notin gone
    /\ gone' = gone \cup {r}
    /\ UNCHANGED <<pc, queue, sent, closed, taken, since, stale, results, answers,
                   served, active, model>>

Running == {r \in Requests : pc[r] \notin {"new", "queued", "done"}}

\* Enters predict_single, with what it may rely on.
Begin(r) ==
    /\ since' = [since EXCEPT ![r] = loaded]
    /\ stale' = stale \ {r}

\* Mutant of Start: a thread for every call.
StartUnbounded(r) ==
    /\ queue # << >> /\ Head(queue) = r
    /\ queue' = Tail(queue)
    /\ \/ r \in Streams /\ Goto(r, "queued", "next") /\ UNCHANGED <<since, stale, active>>
       \/ r \in Predicts /\ Goto(r, "queued", "type") /\ Begin(r) /\ active' = active + 1
       \/ r \in Batches /\ Goto(r, "queued", "type") /\ Begin(r) /\ UNCHANGED active
    /\ UNCHANGED <<clients, taken, results, answers, served, model>>

\* A free worker takes the oldest call.  The Predict handler raises the gauge,
\* the batch handler does not, the stream handler waits for a transaction.
Start(r) ==
    /\ queue # << >> /\ Head(queue) = r /\ Cardinality(Running) < Workers
    /\ queue' = Tail(queue)
    /\ \/ r \in Streams /\ Goto(r, "queued", "next") /\ UNCHANGED <<since, stale, active>>
       \/ r \in Predicts /\ Goto(r, "queued", "type") /\ Begin(r) /\ active' = active + 1
       \/ r \in Batches /\ Goto(r, "queued", "type") /\ Begin(r) /\ UNCHANGED active
    /\ UNCHANGED <<clients, taken, results, answers, served, model>>

\* for transaction in request_iterator
NextItem(r) ==
    /\ taken[r] < sent[r] /\ r \notin gone
    /\ Goto(r, "next", "type")
    /\ Begin(r)
    /\ taken'  = [taken EXCEPT ![r] = @ + 1]
    /\ active' = active + 1
    /\ UNCHANGED <<queue, clients, results, answers, served, model>>

\* The iterator stops at the end, and raises in a cancelled stream.
EndOfStream(r) ==
    /\ (taken[r] = sent[r] /\ closed[r]) \/ r \in gone
    /\ Goto(r, "next", "done")
    /\ UNCHANGED <<queue, clients, taken, since, stale, results, answers, served,
                   active, model>>

-----------------------------------------------------------------------------
(* predict_single                                                          *)

Reads(r, attribute) ==
    /\ stale' = IF artifact[attribute] < since[r] THEN stale \cup {r} ELSE stale
    /\ UNCHANGED <<queue, clients, taken, since, results, answers, served, active, model>>

\* The features are transformed unless the model type says xgboost.
ReadType(r) ==
    /\ Goto(r, "type", "scale")
    /\ Reads(r, "model_type")

Scale(r) ==
    /\ Goto(r, "scale", "score")
    /\ Reads(r, "scaler")

Score(r) ==
    /\ Goto(r, "score", "count")
    /\ Reads(r, "model")

Count(r) ==
    /\ Goto(r, "count", "judge")
    /\ served' = served + 1
    /\ UNCHANGED <<queue, clients, taken, since, stale, results, answers, active, model>>

\* is_fraud, after the decision has been made
Judge(r) ==
    /\ Goto(r, "judge", "version")
    /\ Reads(r, "threshold")

Version(r) ==
    /\ Goto(r, "version", "answer")
    /\ Reads(r, "version")

\* Leaves predict_single.
End(r) ==
    /\ since' = [since EXCEPT ![r] = 0]
    /\ stale' = stale \ {r}

Release(r) == active' = IF r \in Batches THEN active ELSE active - 1

\* A prediction succeeded: the next transaction of a batch, or the answer.
NextOfBatch(r) ==
    /\ r \in Batches /\ results[r] + 1 < Items[r]
    /\ Goto(r, "answer", "type")
    /\ results' = [results EXCEPT ![r] = @ + 1]
    /\ Begin(r)
    /\ UNCHANGED <<queue, clients, taken, answers, served, active, model>>

\* In a cancelled stream nobody takes what is yielded and the generator is
\* dropped.
Answer(r) ==
    /\ r \in Batches => results[r] + 1 = Items[r]
    /\ Goto(r, "answer", IF r \in Streams \ gone THEN "next" ELSE "done")
    /\ results' = [results EXCEPT ![r] = @ + 1]
    /\ answers' = [answers EXCEPT ![r] = IF r \in gone THEN @
                                         ELSE IF r \in Batches THEN Items[r] ELSE @ + 1]
    /\ End(r) /\ Release(r)
    /\ UNCHANGED <<queue, clients, taken, served, model>>

\* Mutant of Raise: the gauge is lowered only after a success.
RaiseKeepsGauge(r) ==
    /\ Goto(r, "score", IF r \in Streams THEN "next" ELSE "done")
    /\ End(r)
    /\ UNCHANGED <<queue, clients, taken, results, answers, served, active, model>>

\* Mutant of Raise: a failed prediction is counted as served.
RaiseCounted(r) ==
    /\ Goto(r, "score", IF r \in Streams THEN "next" ELSE "done")
    /\ served' = served + 1
    /\ End(r) /\ Release(r)
    /\ UNCHANGED <<queue, clients, taken, results, answers, model>>

\* Mutant of Raise: every handler waits for another transaction.
RaiseKeepsWorker(r) ==
    /\ Goto(r, "score", "next")
    /\ End(r) /\ Release(r)
    /\ UNCHANGED <<queue, clients, taken, results, answers, served, model>>

\* transform or predict_proba raises: Predict and BatchPredict end in an error
\* status, StreamPredict logs it and goes on with the next transaction.
Raise(r) ==
    /\ Goto(r, "score", IF r \in Streams THEN "next" ELSE "done")
    /\ End(r) /\ Release(r)
    /\ UNCHANGED <<queue, clients, taken, results, answers, served, model>>

-----------------------------------------------------------------------------
(* FraudModel.reload                                                       *)

\* A signal handler runs between two bytecodes of the main thread, those of
\* the handler itself included.  The next pickle is read, none of it assigned.
Reload ==
    /\ process = "up" /\ reloads < MaxReloads
    /\ Nested \/ reloading = << >>
    /\ reloads' = reloads + 1
    /\ reloading' = <<[load |-> reloads + 1, assigned |-> 0]>> \o reloading
    /\ UNCHANGED <<pc, queue, clients, taken, since, stale, results, answers,
                   served, active, process, artifact, loaded>>

\* Mutant of Assign: the threshold is only assigned at start.
AssignKeepsThreshold ==
    /\ reloading # << >>
    /\ LET inner == Head(reloading)
           n     == inner.assigned + 1
       IN  /\ artifact' = IF LoadOrder[n] = "threshold" THEN artifact
                          ELSE [artifact EXCEPT ![LoadOrder[n]] = inner.load]
           /\ IF n = Len(LoadOrder)
              THEN /\ reloading' = Tail(reloading)
                   /\ loaded' = IF loaded < inner.load THEN inner.load ELSE loaded
              ELSE reloading' = [reloading EXCEPT ![1].assigned = n] /\ UNCHANGED loaded
    /\ UNCHANGED <<pc, queue, clients, taken, since, stale, results, answers,
                   served, active, process, reloads>>

\* One assignment of _load; reload returns after the last one.
Assign ==
    /\ reloading # << >>
    /\ LET inner == Head(reloading)
           n     == inner.assigned + 1
       IN  /\ artifact' = [artifact EXCEPT ![LoadOrder[n]] = inner.load]
           /\ IF n = Len(LoadOrder)
              THEN /\ reloading' = Tail(reloading)
                   /\ loaded' = IF loaded < inner.load THEN inner.load ELSE loaded
              ELSE reloading' = [reloading EXCEPT ![1].assigned = n] /\ UNCHANGED loaded
    /\ UNCHANGED <<pc, queue, clients, taken, since, stale, results, answers,
                   served, active, process, reloads>>

-----------------------------------------------------------------------------
(* the end of main                                                         *)

\* The main thread leaves wait_for_termination; reloads in progress unwind.
Leave(to) ==
    /\ process = "up" /\ process' = to
    /\ reloading' = << >>
    /\ UNCHANGED <<pc, queue, clients, taken, since, stale, results, answers,
                   served, active, artifact, reloads, loaded>>

\* The file is gone or pickle.load raises, say because it is being written,
\* before anything has been assigned; or a key is missing, when what comes
\* before it has been.  Nobody catches the error.
ReloadFails ==
    /\ reloading # << >>
    /\ LoadOrder[Head(reloading).assigned + 1] \in Required
    /\ Leave("crashed")

\* KeyboardInterrupt: server.stop(grace=5).
Interrupt == Leave("stopping")

\* Mutant of Grace: the server waits for the streams.
GraceUnlimited ==
    /\ process = "stopping" /\ process' = "exiting"
    /\ UNCHANGED <<pc, queue, clients, taken, since, stale, results, answers,
                   served, active, artifact, reloading, reloads, loaded>>

\* The grace period is over: what is still open is cancelled.
Grace ==
    /\ process = "stopping" /\ process' = "exiting"
    /\ gone' = gone \cup {r \in Streams : ~ Over(r)}
    /\ UNCHANGED <<pc, queue, sent, closed, taken, since, stale, results, answers,
                   served, active, artifact, reloading, reloads, loaded>>

-----------------------------------------------------------------------------
Client == \/ \E r \in Requests : Call(r)
          \/ \E r \in Streams : SendItem(r) \/ HalfClose(r) \/ Cancel(r)

Handler(r) == \/ Start(r) \/ Scale(r) \/ ReadType(r) \/ Score(r) \/ Count(r)
              \/ Judge(r) \/ Version(r) \/ NextOfBatch(r) \/ Answer(r) \/ Raise(r)

Stream(r) == NextItem(r) \/ EndOfStream(r)

Next == \/ Client
        \/ \E r \in Requests : Handler(r)
        \/ \E r \in Streams : Stream(r)
        \/ Reload \/ Assign \/ ReloadFails
        \/ Interrupt \/ Grace

\* The operating system schedules every thread of the server, and grace periods
\* end.  Nothing makes a client send, or end a stream: StreamPredict is called
\* without a deadline.
Fairness == /\ \A r \in Predicts \cup Batches : WF_vars(Handler(r))
            /\ \A r \in Streams : WF_vars(Handler(r) \/ Stream(r))
            /\ WF_vars(Grace)

Spec == Init /\ [][Next]_vars /\ Fairness

-----------------------------------------------------------------------------
Stages == {"new", "queued", "next", "type", "scale", "score", "count", "judge",
           "version", "answer", "done"}

\* The shapes of the variables; a call is queued once, and no more calls run
\* than the pool has workers.
TypeOK ==
    /\ pc \in [Requests -> Stages]
    /\ queue \in Seq(Requests)
    /\ \A i, j \in DOMAIN queue : queue[i] = queue[j] => i = j
    /\ \A r \in Requests : pc[r] = "queued" <=> \E i \in DOMAIN queue : queue[i] = r
    /\ Cardinality(Running) =< Workers
    /\ sent \in [Streams -> Nat] /\ closed \in [Streams -> BOOLEAN]
    /\ \A r \in Streams : sent[r] =< Items[r] /\ taken[r] =< sent[r]
    /\ taken \in [Streams -> Nat] /\ gone \subseteq Streams
    /\ since \in [Requests -> 0 .. MaxReloads] /\ stale \subseteq Requests
    /\ results \in [Requests -> Nat] /\ answers \in [Requests -> Nat]
    /\ served \in Nat /\ active \in Nat
    /\ process \in {"up", "stopping", "exiting", "crashed"}
    /\ artifact \in [Attributes -> 0 .. MaxReloads]
    /\ reloading \in Seq([load : 1 .. reloads, assigned : 0 .. Len(LoadOrder) - 1])
    /\ reloads \in 0 .. MaxReloads /\ loaded \in 0 .. reloads

Predicting(r) == pc[r] \in Stages \ {"new", "queued", "next", "done"}

\* The gauge is the number of predictions in progress for Predict and
\* StreamPredict: it comes back to zero when they are over, however they ended.
ActiveExact == active = Cardinality({r \in Predicts \cup Streams : Predicting(r)})

\* The predictions that a call has counted: those that succeeded, and the one
\* that will.
Counted(r) == results[r] + IF pc[r] \in {"judge", "version", "answer"} THEN 1 ELSE 0

Predictions == UNION {{r} \X (1 .. Counted(r)) : r \in Requests}

\* _request_count is the number of predictions made, those of a batch that is
\* lost to a later error included, so that no delivered response is missing
\* from the requests_served that Health reports.
ServedExact ==
    /\ served = Cardinality(Predictions)
    /\ \A r \in Requests : answers[r] =< results[r]

\* Once reload has returned, no attribute of the previous artifact goes into
\* the answer of a prediction that begins afterwards ("Hot-reload the model").
\* A prediction that overlaps the reload may mix the two.
ReloadTakesEffect == stale = {}

\* While the server is up and no reload is running, every attribute is the
\* newest pickle's: the model, its scaler, its threshold and the version that
\* answers report fit together.  At any other time the calls in progress find
\* two successive pickles at most, and an attribute that _load assigns later is
\* never newer than one it assigns earlier: the version is not ahead of the
\* model.  So it stays for the calls that outlive the main thread, which a
\* missing key or Ctrl-C has ended between two assignments.
ArtifactWhole ==
    /\ process = "up" /\ reloading = << >> => artifact = AllFrom(reloads)
    /\ \A i, j \in DOMAIN LoadOrder :
          i < j => artifact[LoadOrder[i]] - artifact[LoadOrder[j]] \in 0 .. 1

\* With fewer open streams than workers, every Predict and BatchPredict ends:
\* a worker is given back on every path out of a handler.
PredictAnswered ==
    Cardinality(Streams) < Workers =>
        \A r \in Predicts \cup Batches : pc[r] = "queued" ~> pc[r] = "done"

\* Ctrl-C ends the server: with the grace period every handler is over, also
\* those of clients that keep a stream open and send nothing, and of calls
\* that were waiting for a worker.
InterruptEnds == process = "stopping" ~> \A r \in Requests : Over(r)
=============================================================================

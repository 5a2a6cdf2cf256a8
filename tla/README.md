# Verification of the gRPC inference engine

TLA+ models of the concurrent parts of this repository, the TLC
configurations that check them on small instances, and TLAPS proofs of what
holds for every instance.

## The system

A Kafka topic carries card transactions. A feature store process consumes
them, keeps the recent history of every entity in memory, and writes feature
snapshots to Redis. An inference server process answers gRPC calls: it gets
the features of an entity, scores them with a pickled model and returns a
decision.

| part | state | operations | who calls it |
|---|---|---|---|
| `EntityRingBuffer` (`rolling_engine.py`) | ring of timestamps and amounts, deque of merchants, last location; one lock | `push`, `window_stats`, `unique_merchants`, `last_location` | the engine, from many threads |
| `RollingFeatureEngine` (`rolling_engine.py`) | registry of buffers, two counters; registry lock, statistics lock | `ingest`, `_get_or_create` (creates and evicts), `compute_features`, `stats` | `FeatureStore` |
| `LRUCache` (`store.py`) | ordered dict, hits, misses; one lock | `get`, `set`, `clear`, `hit_rate`, `size` | `FeatureStore` |
| `RedisStore` (`store.py`) | a connection, `_available` decided at start | `get`, `set`, `pipeline_set` (unused) | `FeatureStore`; Redis is shared by the processes |
| `FeatureStore` (`store.py`) | an engine, the two tiers, a write count | `ingest`, `get_features`, `clear_cache`, `health` | the ingest loops; the gRPC handlers |
| `FraudModel` (`inference_engine/server.py`) | six attributes loaded from a pickle | `_load`, `reload` (SIGHUP), `predict`, `explain` | the gRPC handlers; the main thread |
| gRPC servicer (`inference_engine/server.py`) | 16 workers, request count, gauge | `Predict`, `BatchPredict`, `StreamPredict`, `Health`, `GetFeatures` | clients |
| `InferenceClient` (`client.py`) | a queue of channels | `predict`, `batch_predict`, `stream_predict`, `health`, `close` | application threads |
| feature store server (`feature_store/server.py`) | ingest task, stop event | Kafka or simulator loop, HTTP health, shutdown | the operating system |
| simulator, producer, consumer (`simulator.py`) | running flag, counters, Kafka clients | `run`, `_emit`, `send`, iteration | the event loop |

What is hard about it: threads share buffers, caches and the model with locks
that cover single operations and not the sequences made of them; two processes
with an engine and an L1 each share one Redis; Redis calls fail silently; a
signal handler replaces the model under the handlers' feet; a client's channel
belongs to one call at a time and a call can be inside another; Kafka delivers
late, and a restart forgets. `PROJECT.json` lists the hazards at their lines.

What makes each part correct:

* buffer: slots and merchants stay aligned through wrap-around and together
  are the last N transactions; a window reports its own merchants;
* engine: one buffer per entity, none lost, every transaction recorded where
  readers look; the windows of a snapshot nest;
* cache: the most recently used keys, with their latest values;
* store: a read returns features that include every acknowledged ingest; what a
  reading process tells of an entity never goes back, except to nothing when
  Redis has lost the key; the ingesting process is never stale;
* server: counters exact on every path; a worker given back on every path; the
  attributes of the model fit together, and a reload that fails half way leaves
  at most two successive artifacts; every unary call ends; an interrupted server
  stops;
* client: a channel is in one place, with one call, in the queue or closed; a
  caller that waits for a channel gets one; a `close` that meets no call closes
  them all;
* transport: an entity's transactions keep their order from its coroutine to
  the engine; the accumulator keeps nothing back; a callback comes before its
  message;
* ingest server: no committed offset covers a message nobody read; a message
  with other fields holds up nothing (one that is not JSON, or has values of
  other types, ends the ingest task); a signal always ends it; a restart knows
  what its predecessor knew (it does not: a finding).

## The modules

`RingBuffer` is the data structure as operators on one record, without state.
`EntityRingBuffer` is one buffer as a machine, with `EventLog` as its abstract
specification. `RollingFeatureEngine` holds many rings behind a registry.
`CacheOps` is the ordered dict as operators; `LRUCache` is the cache as a
machine and `FeatureStore` puts one per process over a shared Redis;
`FeatureHistory` is its abstract specification, a store without tiers.
`InferenceServer` stands beside them: to it a call of `get_features` changes
nothing. `ClientPool` is its client's side. `Topic` is what Kafka keeps;
`TransactionSimulator` writes it, `IngestServer` reads it, and
`TransactionStream` composes the two processes. `MC*` modules name instances
for TLC; `*Proofs` modules hold the theorems.

**RingBuffer, EntityRingBuffer, EventLog.** A ring is a record of the
constructor's fields; `Pushed` is `push`; `View` is the rotated pair of arrays
of `_window_slice`, `Kept` its mask and `KeptMerchants` its slice of the
deque. All methods hold the buffer's lock, so `Push` is one action. `EventLog`
is a sequence that forgets its oldest entry when it is full: no head, no
slots, no wrap-around. The refinement mapping reads the log off the ring by
pairing the i-th oldest slot with the i-th merchant, so it also says that the
two parallel structures never drift apart.

**RollingFeatureEngine.** One step per critical section or unlocked read.
`ingest` is Ingest, Lookup (the unlocked first look), Create (the second look
and the eviction, under the registry lock), Push (under the buffer's lock, the
registry's no longer held), Count. `compute_features` is Compute, Find, then
one step for each of the five times it takes the buffer's lock, then Tally.
Each window read takes the time before it waits for the lock, so its window may
start anywhere between the thread's last step and now (`Starts`). `heap` keeps
every buffer ever created, because a thread may hold an evicted one.

**LRUCache, CacheOps.** The cache is a sequence of entries, least recently
used first. `used` and `latest` are history: the call that last touched a key
and the value last set.

**FeatureStore.** One step per call into a tier or the engine. A snapshot is
abstracted to the number of transactions it includes, which says how fresh it
is: which of two snapshots includes more does not depend on the windows, though
what their windows count may shrink as time passes. `Record` has no room for the
registry's eviction at `max_entities`, after which the engine would start over;
`RollingFeatureEngine` has that. `Home` says which threads share a process, `Serves` which entities a
thread is called for. `RedisUp` is constant because the code decides
availability once; a failed GET looks like a missing key and a failed SET is
dropped, as in `RedisStore`; `Expire` is the time-to-live or an eviction by
Redis. `acked`, `floor`, `last`, `newest` and `lapsed` are history: what had been
ingested when a get began, the last and the best answer of a process about an
entity, and the entities of which Redis has dropped the key or failed a GET.
`SerialSpec` is `Spec` without two gets of one entity in one process at a time
(`GetsApart`). `FeatureHistory` has a history per entity
and what each caller was last told; an ingest and a get are one step each. The
refinement mapping takes an entity's history from the engine of the process
whose thread works on it, so that an ingest takes effect in `Record` and a get
in the step that answers it.

**InferenceServer.** A call waits in the pool's queue, gets a worker, and
takes one step per read or write of shared state: the attributes of the model,
the request count, the gauge. `Raise` is the exception path of each handler;
`Cancel` is a client that leaves its stream, which its handler notices at the
next item. A reload is a frame on a stack, because Python runs a signal
handler between two bytecodes of the main thread, those of a running handler
included; `Assign` is one assignment of `_load`, and `Nested` allows the
second frame. `ReloadFails` is the exception of a reload: the pickle cannot be
read, before anything is assigned, or it lacks a key that `_load` takes with
`payload[...]` (`Required`; the scaler and the threshold have defaults), after
what comes before it has been assigned. The exception leaves
`wait_for_termination`, and the process waits for its workers
(`process = "crashed"`), which go on with the attributes as they are.
`Interrupt` is Ctrl-C, which refuses new calls and
starts the grace period; `Grace` is its end. `since` (loads that had finished
when a prediction began) and `stale` (predictions that read something older)
are history.

**ClientPool.** `pool` is the queue of channels, `held[t]` the stack of
channels of the calls a thread is in: a generator of `stream_predict` keeps
its channel while its caller iterates, so that a prediction inside the loop
needs another one. `waiting` threads are blocked in `_pool.get()`. `EndUnary`
and `EndStream` are every end of a call, exceptions included, since the
channel is put back in a `finally`. `close` is three steps: begin, `empty()`,
`get_nowait()`; the last raises when a call was faster. `overlapped` is
history: did a `close` meet a call?

**Topic, TransactionSimulator.** The topic is a sequence; a transaction is an
entity and its number. One coroutine per entity goes from await to await:
sleep, callback in an executor thread (`working` and `called` belong to the
threads, which a cancellation does not reach), `send` into the accumulator
`buffer`. The producer's task delivers in order; the answer to a batch may be
lost and the batch sent again (`Resend`), and a delivery may fail for good
(`Expire`). `run()` ends by its time (`Timeout`, then `kafka.stop()`), by an
exception in one coroutine (`SendFails`; `gather` leaves the others running),
or by a cancellation (`Cancel`), which skips the lines that stop the producer.

**IngestServer.** `_main` waits for `stop_event` beside the ingest task.
`Connect` starts at the committed offset or, without one, at the end of the
topic; `Consume` is one turn of `kafka_ingest_loop`. Other producers write to the
topic (`Foreign`) messages that are malformed in three ways. With other
fields, `Transaction(**data)` fails and the loop goes on. With values of other
types, the body of the loop raises outside its `try`, and the task is over with the
position behind the message. What is not JSON raises in the consumer's
deserializer, inside the `async for`: the task is over with the position
before the message, so that every later server meets it again. `Commit` is the
automatic commit, at any time, also after the task's end, because nothing stops
the consumer. The task can also end because Kafka was never there
(`Unavailable`) or fail with it (`TaskFails`); shutdown is `Signal`, `Wake`, `Awaited`.
`Down` is every end of the process, a crash included: memory goes, topic and
committed offset stay, and `Boot` starts over.

**TransactionStream.** A deployment is either the simulator as its own process
with Kafka to the server, or a server started with `--simulate`, which gives
the simulator a callback into its store and reads no topic. `callback` tells
them apart.

## What the runs check

| run | instance | shows |
|---|---|---|
| `ring` | 3 slots, 3 timestamps that never go back, 2 amounts, 2 merchants, 2 places | type, `MerchantsMatchWindow`, and the refinement of `EventLog`. The state space is finite without a bound on pushes, so it covers any number of wrap-arounds |
| `engine_registry` | 2 ingesting threads, 1 computing, 3 entities, room for 2, 4 ingests | `BuffersAccounted`, `EventsConserved`: creation races and evictions |
| `engine_snapshot` | 1 + 1 threads, 1 entity, 3 slots, windows of 0, 1 and 2 ticks, 4 ingests, time up to 3 | `CountsNested`, `AmountsNested`: torn snapshots still nest, through a wrap-around |
| `lru` | capacity 2, 3 keys, 2 values, 6 calls | `IsLeastRecentlyUsed`, `HoldsLatest` |
| `store_owned` | 1 process, 2 threads with an entity each, L1 of 1, failing GETs, expiring keys, `clear_cache` | `LatestServed` whichever tier answers; `WriterCacheExact`; the refinement of `FeatureHistory` |
| `store_serving` | an ingesting process and a serving one whose 2 workers answer for any of 2 entities, L1 of 1, lost SETs, failing GETs, expiring keys, `clear_cache` | `MonotonicReads` |
| `inference_server` | a Predict, a BatchPredict of 2, a StreamPredict of up to 1, 2 workers, 1 reload that may fail at any key, an interrupt | `ActiveExact`, `ServedExact`, `ReloadTakesEffect`, `ArtifactWhole`, `PredictAnswered`, `InterruptEnds` |
| `client_pool` | 3 channels, two threads that predict inside a stream, one that does not, one closer | `ChannelsConserved`, `QuietCloseComplete`, `ChannelComesBack` |
| `stream` | both deployments, see Bounds | `EntityOrder`, `CommittedWasRead`, `SentDelivered`, `OneUnsentEach`, `CalledBeforeSent`, `ShutdownEnds`, `EventuallyRead` |

Some properties of the runs deserve a word on when they hold.
`MerchantsMatchWindow` needs timestamps that do not go back. `CountsNested` and
`AmountsNested` are about snapshots whose windows started in the usual order
(`Timely`) and about messages that are not late: a late message in a full buffer
overwrites a younger one, and then a wide window may have lost what a narrow
one counted. `LatestServed` needs each entity to be worked on by one thread and
by the process that ingests it, and Redis to keep what it is given for as long
as it has it: a lost SET followed by an eviction from L1 brings back an older
snapshot. This is how the Kafka loop and the simulator's entity loops ingest.
`MonotonicReads` is about entities that one thread ingests and one process reads,
and about gets of an entity in that process that do not overlap (`SerialSpec`):
under `Spec` TLC finds it violated with a Redis that never fails, when a slow
get writes the empty snapshot of its own engine over what a faster one has
answered. It allows an empty answer about an entity once Redis has dropped the
key or failed a GET, since then the serving process has nothing but its own
engine; what it says next must again be no older than all it said before.
`ReloadTakesEffect` and `ArtifactWhole` need reloads that do not nest.
`ArtifactWhole` promises one pickle only while the server is up and no reload
runs; for the calls that outlive the main thread, after a reload that a missing
key or Ctrl-C ended half way, it says that there are two successive pickles at
most, and that the version never runs ahead of the model.
`QuietCloseComplete` is about a `close` that meets no call, as at the end of a
`with` block; `ChannelComesBack` about pools with more channels than the open
streams around nested calls can take. `EntityOrder` excludes a producer that
repeated a batch, which aiokafka may do without idempotence.
`CommittedWasRead` and `EventuallyRead` promise nothing about messages that
arrived before the consumer group had its first offset, since the consumer
starts at the end of the topic. `EventuallyRead` promises nothing either about
a message at or behind one that ends the ingest task (`HeldUp`), but everything
about what is behind a message with other fields.

Three runs show a disagreement between the code and what it says of itself;
each is a finding in `PROJECT.json`.

* `late_events`: a window reports merchants of transactions outside it.
* `store_stale`: the serving process answers without acknowledged ingests, from
  its own L1, or after a miss that overlapped the ingest put an empty snapshot
  over the new one in both tiers. Two threads that ingest one entity in one
  process break `LatestServed` as well: they compute in one order and write in
  the other.
* `restart`: a server that was restarted and has caught up with the topic knows
  nothing of what its predecessor had read and committed.

Behaviours met on the way that no run keeps, because a plain reading shows
them once they have been seen:

* an eviction between lookup and push loses the transaction that is pushed to
  the evicted buffer (`BuffersAccounted` says that there is no other way to
  lose one);
* `ingest` records a transaction before it computes, so that the stored
  distance from the last transaction is always zero;
* two SIGHUPs in quick succession leave attributes of two pickles
  (`Nested = TRUE` shows it); a reload that fails ends the server, and one that
  fails for a missing key leaves the calls in progress a mixed artifact;
* a message that is not JSON ends the ingest task, and that of every server
  started later, until somebody moves the committed offset; one with values of other
  types ends the task once;
* `close()` beside calls leaves channels open that are put back after it,
  raises `Empty` when a call took the last channel, and leaves callers waiting
  for ever on an empty queue;
* an exception of the ingest task is raised at shutdown only, before the health
  server is stopped; until then nobody notices that nothing is ingested;
* `max_age_seconds` is ignored and hits are restamped (a test of that name
  passes because of the restamping); `hit_rate` reads its counters without the
  lock; `is_fraud` and `DECLINE` disagree at a probability of exactly 0.5.

### Bounds

`MaxIngests`, `MaxComputes`, `MaxTime` (engine), `MaxCalls` (cache),
`MaxIngests`, `MaxGets` (store), `Items` and `MaxReloads` (server), `Depth`
(client), `MaxEmits`, `MaxFaults` and `MaxForeign` (stream) bound what
would grow for ever.

* Four ingests into two places of the registry allow a creation race, an
  eviction and a re-creation; four into three slots wrap the ring during a
  computation.
* Four writes and four reads over one L1 entry allow a miss, a fill and an
  eviction of both entities.
* Two ingests and three gets over two entities, one place in L1 and two workers
  allow an answer, a newer one, and a third after an eviction, a lost SET or a
  dropped key. The workers are interchangeable, hence the symmetry.
* One reload overlaps every step of a prediction, and one that has returned
  precedes the next; two calls and a stream on two workers make one wait.
* Three channels for threads that can ask for five: two nested callers take
  two, the third keeps the pool moving, and a `close` runs against all of them.
* With Kafka between them, one entity's two transactions and a malformed
  message of any kind, before a server that starts any number of times: a message is read before and after
  a commit, a crash falls between them, and the next life reads again. These
  properties relate messages of one entity, and offsets whatever the entity.
  Deliveries do not fail there: a message that was not delivered is one that
  the server never sees, and the other deployment has the producer's faults.
* With a callback, two entities (two transactions and one) with one failed and
  one repeated delivery, through every way `run()` ends.

Runs that stop when the callers stop have deadlock checking off; `ring` has it
on.

### Fairness

* `InferenceServer`: weak fairness of each call's handler, since the operating
  system schedules the pool's threads and handlers block on nothing but the
  stream's next item, and of the end of the grace period. Clients are not fair:
  nobody must send, or end a stream, which is called without a deadline. This is
  why `PredictAnswered` asks for fewer open streams than workers; with as many
  streams as workers Predict waits for ever. Failing predictions are allowed to
  go on for ever.
* `ClientPool`: threads are scheduled; unary calls have a deadline, so that they
  end; a caller reads its stream to the end or drops it. Nobody has to call.
  A thread may be overtaken in `_pool.get()`: `ChannelComesBack` says that the
  pool does not seize up, and not that a given thread is served.
* `TransactionStream`: the producer's task, the executor's threads, the ingest
  task and the shutdown of `_main` go on. Nobody has to start, stop, signal or
  restart a process, to produce or to commit. `EventuallyRead` is therefore
  conditional: from some time on a server is up and has its connection to Kafka
  (`<>[](main = "serving" /\ ~ KafkaGone)`).

## What is proved

The proofs hold for all values of the constants, under the assumptions that
the modules name: at least one slot, one entity in the registry, a cache
capacity that is a natural number (zero included), natural amounts and
timestamps, finite sets of calls and of entities where they are counted.
Every invariant and every action property of the passing runs, the refinements
included, is a theorem, some under a hypothesis that the list below names.

* `RingBufferProofs`: lemmas on the operators. The heart is `PushedView`: after
  a push the view is the old one without its first element, if the ring was
  full, followed by the new one, by cases on whether the head was at the end of
  the array. `PushedLog` adds the merchants. Sums and maxima of what a window
  keeps are compared by induction on sets of places (`SubsetInduction`): a
  wider window keeps more places, so it totals no less.
* `EntityRingBufferProofs`: `TypeCorrect`; `Refinement`, that every push is a
  step of `EventLog`, from `WellFormed` and `PushedLog`; `MerchantsCorrect`,
  that a window reports its own merchants if `InOrder`. The last needs the
  strengthening that the timestamps of the view are sorted, so that what the
  mask keeps is a suffix, which is what the code takes of the deque.
* `RollingFeatureEngineProofs`: `TypeCorrect`, for any number of threads and
  entities, which includes that a thread between lookup and return holds an
  existing buffer; `RegistryCorrect`, that `BuffersAccounted` is always true.
  It is inductive together with the type invariant: the interesting step is
  Create, where the second look under the lock is what keeps buffers unique.
  `CountCorrect` is the equation of `EventsConserved`: a Push adds one to the
  sum of the sizes and moves one thread to the step that counts, Create adds a
  zero. `CountsCorrect` and `AmountsCorrect` are the nesting of a snapshot's
  windows. `CountsNested` and `AmountsNested` speak of values already read, so
  the strengthening (`WindowsNest`) speaks of the buffer: whatever is pushed
  after a window was read, a wider window read from now on counts, totals
  and peaks at no less. A push keeps that either because nothing is overwritten
  (`Unfilled`; any number of ingesters, any lateness) or because the buffer's
  timestamps are sorted (`Chronological`: one ingester, no late messages), so
  that what a full buffer overwrites lies outside the wider window, or else
  every slot lies inside it. Without either the property is false.
* `LRUCacheProofs`: `TypeCorrect`, `CacheIsLRU`, `CacheHoldsLatest`. A hit is
  shown to be a use of the key with its own value, so that both are instances
  of one lemma on `Stored`.

* `FeatureStoreProofs`: `TypeCorrect`; `WriterCacheCorrect`, under either of
  two disciplines: no other thread of an ingesting process is called for its
  entities (`WritersApart`, the deployment), or every entity has one thread in
  all, which may read too (`Owned`), and Redis loses no write (`SetsKept`).
  `LatestCorrect` is the second discipline's other half, and `Refinement`, that
  the tiers then implement `FeatureHistory`, says it in full. The strengthening
  (`OwnerOK`, `LocalOK`) follows the one thread that can change an entity: what
  it has in hand is what its engine has, L1 and Redis hold that or nothing but
  between the recording and the two writes, and the acknowledged count is
  behind by one as long as the ingest runs. What a set, a hit and an eviction
  leave of a cache are lemmas on `Removed`, `Append` and `Tail`.
  `MonotonicCorrect` is about the deployment: no process both ingests and reads,
  an entity has one ingesting thread and is read in one process, by any number
  of threads (`ReadersApart`), whose gets of it do not overlap (`SerialSpec`).
  Nothing is assumed of Redis: SETs and GETs may fail, keys may expire. The
  argument follows one number for an entity up the tiers. What the ingesting
  thread writes to Redis, now or later, is at least its `Ceiling`, and what Redis has is
  never more (`WriterOK`). What a reading process has said and what its L1 holds
  are no more than the ceiling nor, unless Redis lost the key, than what Redis
  has (`Known`), and what L1 holds is not behind what was said (`Ahead`). A get
  past L1 brings what is `Ahead` in the same sense or the zero of an empty
  engine, the latter only if nothing more had been said or the entity is in
  `lapsed` (`GetOK`). Without `SerialSpec` the step that
  fails is a zero decided upon before another thread's answer and written
  after it. `MonotonicOwned` is the other discipline (`Owned`, `SetsKept`), for
  each thread and with no exception (`NeverBack`): keys may expire and GETs fail
  because the engine is at hand.
* `InferenceServerProofs`: `TypeCorrect`, with the bound on the pool;
  `ActiveCorrect`, by counting the set of predictions in progress as it gains
  and loses one element; `ServedCorrect`, the same for the set of predictions
  that were counted, which no step makes smaller; `ReloadCorrect` and `ArtifactCorrect` for reloads that do not nest,
  from one invariant: the attributes that the running reload has assigned are
  the new pickle's and the rest its predecessor's, and no
  prediction's `since` is newer than either. A reload that ends half way, by a
  missing key or by Ctrl-C, leaves the attributes as they are and is the last.
* `ClientPoolProofs`: `TypeCorrect`; `ChannelsInOnePlace`, by showing what
  `Append`, `Head` and `Tail` do to the elements of a queue without repeats;
  `QuietCloseCorrect`, from it and from the fact that after a quiet `close` has
  begun nobody holds or waits.
* `TransactionStreamProofs`: `TypeCorrect`; `CommittedCorrect`, since every
  message from the first offset to the position has been read; `OrderCorrect`,
  from an order of each entity's numbers through hand, accumulator and topic;
  `SentCorrect`, by counting the set of what has left its coroutine, to which a
  `send` adds one new element and a delivery none; `UnsentCorrect`, since what
  is generated and not sent is in the hands of a coroutine, one each;
  `CalledCorrect`. They hold for any number of entities, crashes and faults
  and use no fairness.

Model-checked only: liveness (`PredictAnswered`, `InterruptEnds`,
`ChannelComesBack`, `ShutdownEnds`, `EventuallyRead`), since the prover knows
nothing of fairness.

## Not modelled

* The features' floating-point arithmetic, random profiles, training, benchmark
  and protobuf tools: sequential, numerical or stateless. That training writes
  the pickle in place is the cause of `ReloadFails`.
* `AsyncInferenceClient`: one multiplexed channel; nothing in it takes two steps
  to go wrong.
* Of the simulator: the predictions that `_emit` requests two seconds later,
  which feed a counter of the report; an exception in `on_transaction`.
* Of the transport: several partitions (an entity's messages share one), several
  consumers in the group, rebalances.
* Of the ingest server: the order of the shutdown with `--simulate`, the HTTP
  endpoints, which read.
* Logging and metrics but for the gauge. Deployment files are not programs.

## Plan

What is left, in this order:

1. `ClientPool` composed with the workers of `InferenceServer`: streams that
   hold a channel on one side and a worker on the other.
2. The shutdown with `--simulate`, and the delayed predictions of the simulator.
3. Theorems that the findings leave room for: that a reader of the serving
   process is never told more than was recorded, and which messages a restarted
   server knows.

---------------------------- MODULE FeatureStore ----------------------------
(***************************************************************************)
(* FeatureStore and RedisStore (feature_store/store.py): ingest and        *)
(* get_features over two cache tiers, L1 in the memory of each process and *)
(* L2 in Redis, shared by all of them.                                     *)
(*                                                                         *)
(* A deployment runs two processes, each with a FeatureStore of its own:   *)
(* feature_store.server only ingests, inference_engine.server only calls   *)
(* get_features, so that its engine stays empty.  Procs and Home say which *)
(* threads share a process; Writers and Readers say what they call.        *)
(*                                                                         *)
(* A step is one call into a tier or into the engine.  The engine appears  *)
(* by what its snapshots tell apart: how many transactions of the entity   *)
(* it has recorded (they stay inside the windows).  RollingFeatureEngine   *)
(* has the rest.                                                           *)
(*                                                                         *)
(* Left out: pipeline_set, which nothing calls; health(), which reads; the *)
(* clock: get_features takes max_age_seconds and never looks at it, and a  *)
(* cached snapshot only gets a new computed_at on its way out.             *)
(***************************************************************************)
EXTENDS CacheOps

CONSTANTS
    Procs, Threads, Home,      \* Home[t]: the process of thread t
    Writers, Readers,          \* threads that ingest, threads that get
    Serves,                    \* Serves[t]: the entities thread t is called for
    Entities,
    RedisUp,                   \* did Redis answer when the store was built?
    GetMayFail, SetMayFail,    \* may Redis time out on a GET, on a SETEX?
    MayExpire,                 \* may a key reach its TTL or be evicted?
    MaxIngests, MaxGets        \* bounds of the model

ASSUME StoreAssumption ==
    /\ Entities # {}
    /\ Home \in [Threads -> Procs]
    /\ Writers \cup Readers \subseteq Threads
    /\ Serves \in [Threads -> SUBSET Entities]
    /\ {RedisUp, GetMayFail, SetMayFail, MayExpire} \subseteq BOOLEAN
    /\ {MaxIngests, MaxGets} \subseteq Nat

VARIABLES
    engine,      \* transactions recorded, per process and entity
    l1, l2,      \* the tiers: an LRU cache per process; Redis
    writes,      \* _write_count per process
    ingests, gets,   \* calls so far (bounds)
    pc, call, entity, snap,   \* the threads' stages and locals
    result,      \* what get_features last returned to a thread for an entity
    last, newest,    \* history: the last answer that a process gave of an entity,
                     \* and the one with the most transactions
    lapsed,      \* history: entities of which Redis dropped the key, or failed a GET
    acked,       \* history: ingests of an entity that have returned
    floor        \* history: acked[entity] when the thread's get began

tiers   == <<l1, l2>>
local   == <<call, entity>>
answers == <<result, last, newest>>
vars    == <<engine, tiers, writes, ingests, gets, pc, local, snap, answers,
             lapsed, acked, floor>>

\* What Redis has for an unknown key; a snapshot is a natural number.
NoSnap == -1

Init ==
    /\ engine = [p \in Procs |-> [e \in Entities |-> 0]]
    /\ l1 = [p \in Procs |-> << >>]
    /\ l2 = [e \in Entities |-> NoSnap]
    /\ writes = [p \in Procs |-> 0]
    /\ ingests = 0 /\ gets = 0
    /\ pc     = [t \in Threads |-> "idle"]
    /\ call   = [t \in Threads |-> "none"]
    /\ entity = [t \in Threads |-> CHOOSE e \in Entities : TRUE]
    /\ snap   = [t \in Threads |-> NoSnap]
    /\ result = [t \in Threads |-> [e \in Entities |-> NoSnap]]
    /\ last   = [p \in Procs |-> [e \in Entities |-> NoSnap]]
    /\ newest = [p \in Procs |-> [e \in Entities |-> NoSnap]]
    /\ lapsed = {}
    /\ acked  = [e \in Entities |-> 0]
    /\ floor  = [t \in Threads |-> 0]

Goto(t, from, to) == pc[t] = from /\ pc' = [pc EXCEPT ![t] = to]

Enter(t, name, e) ==
    /\ call'   = [call EXCEPT ![t] = name]
    /\ entity' = [entity EXCEPT ![t] = e]

\* get_features returns s for e.
Answer(t, e, s) ==
    /\ result' = [result EXCEPT ![t][e] = s]
    /\ last'   = [last EXCEPT ![Home[t]][e] = s]
    /\ newest' = [newest EXCEPT ![Home[t]][e] = IF @ < s THEN s ELSE @]

-----------------------------------------------------------------------------
(* ingest: engine.ingest, then the steps the two calls share                *)

Record(t, e) ==
    /\ ingests < MaxIngests /\ ingests' = ingests + 1
    /\ Goto(t, "idle", "compute")
    /\ Enter(t, "ingest", e)
    /\ engine' = [engine EXCEPT ![Home[t]][e] = @ + 1]
    /\ UNCHANGED <<tiers, writes, gets, snap, answers, lapsed, acked, floor>>

\* compute_features, on the engine of the thread's own process: a zero-filled
\* snapshot when the entity is unknown to it.
Compute(t) ==
    /\ Goto(t, "compute", "set1")
    /\ snap' = [snap EXCEPT ![t] = engine[Home[t]][entity[t]]]
    /\ UNCHANGED <<engine, tiers, writes, ingests, gets, local,
                   answers, lapsed, acked, floor>>

\* Mutant of SetL1: an entity that is cached already is left alone.
SetL1IfAbsent(t) ==
    /\ Goto(t, "set1", "set2")
    /\ l1' = [l1 EXCEPT ![Home[t]] = IF entity[t] \in KeysOf(@) THEN @
                                     ELSE Stored(@, entity[t], snap[t])]
    /\ UNCHANGED <<engine, l2, writes, ingests, gets, local, snap,
                   answers, lapsed, acked, floor>>

SetL1(t) ==
    /\ Goto(t, "set1", "set2")
    /\ l1' = [l1 EXCEPT ![Home[t]] = Stored(@, entity[t], snap[t])]
    /\ UNCHANGED <<engine, l2, writes, ingests, gets, local, snap,
                   answers, lapsed, acked, floor>>

\* Mutant of WriteL2: the key is deleted first, and the write may then fail.
WriteL2AfterDelete(e, s) ==
    \/ RedisUp /\ l2' = [l2 EXCEPT ![e] = s]
    \/ (~ RedisUp \/ SetMayFail) /\ l2' = [l2 EXCEPT ![e] = NoSnap]

\* Mutant of WriteL2: SETNX, which leaves a key that is there alone.
WriteL2IfAbsent(e, s) ==
    \/ RedisUp /\ l2' = [l2 EXCEPT ![e] = IF @ = NoSnap THEN s ELSE @]
    \/ (~ RedisUp \/ SetMayFail) /\ UNCHANGED l2

\* RedisStore.set: a no-op without Redis; an exception is logged and lost.
WriteL2(e, s) ==
    \/ RedisUp /\ l2' = [l2 EXCEPT ![e] = s]
    \/ (~ RedisUp \/ SetMayFail) /\ UNCHANGED l2

SetL2(t) ==
    /\ Goto(t, "set2", IF call[t] = "ingest" THEN "count" ELSE "idle")
    /\ WriteL2(entity[t], snap[t])
    /\ IF call[t] = "ingest" THEN UNCHANGED answers
       ELSE Answer(t, entity[t], snap[t])
    /\ UNCHANGED <<engine, l1, writes, ingests, gets, local, snap,
                   lapsed, acked, floor>>

CountWrite(t) ==
    /\ Goto(t, "count", "idle")
    /\ writes' = [writes EXCEPT ![Home[t]] = @ + 1]
    /\ acked'  = [acked EXCEPT ![entity[t]] = @ + 1]
    /\ UNCHANGED <<engine, tiers, ingests, gets, local, snap,
                   answers, lapsed, floor>>

-----------------------------------------------------------------------------
(* get_features: L1, then L2, then the engine                               *)

\* A hit returns a copy of what is cached, however old it is.
GetL1(t, e) ==
    /\ gets < MaxGets /\ gets' = gets + 1
    /\ Enter(t, "get", e)
    /\ floor' = [floor EXCEPT ![t] = acked[e]]
    /\ LET cache == l1[Home[t]]
       IN  \/ /\ e \in KeysOf(cache)
              /\ l1' = [l1 EXCEPT ![Home[t]] = MovedToEnd(cache, e)]
              /\ Answer(t, e, ValueOf(cache, e))
              /\ Goto(t, "idle", "idle")
           \/ /\ e \notin KeysOf(cache)
              /\ Goto(t, "idle", "get2")
              /\ UNCHANGED <<l1, answers>>
    /\ UNCHANGED <<engine, l2, writes, ingests, snap, lapsed, acked>>

\* RedisStore.get: no Redis, no key and a failed call look the same.
GetL2(t) ==
    /\ \/ /\ RedisUp /\ l2[entity[t]] # NoSnap
          /\ snap' = [snap EXCEPT ![t] = l2[entity[t]]]
          /\ Goto(t, "get2", "fill")
          /\ UNCHANGED lapsed
       \/ /\ ~ RedisUp \/ l2[entity[t]] = NoSnap \/ GetMayFail
          /\ UNCHANGED snap
          /\ Goto(t, "get2", "compute")
          /\ lapsed' = lapsed \cup {e \in {entity[t]} : RedisUp /\ l2[e] # NoSnap}
    /\ UNCHANGED <<engine, tiers, writes, ingests, gets, local,
                   answers, acked, floor>>

FillL1(t) ==
    /\ Goto(t, "fill", "idle")
    /\ l1' = [l1 EXCEPT ![Home[t]] = Stored(@, entity[t], snap[t])]
    /\ Answer(t, entity[t], snap[t])
    /\ UNCHANGED <<engine, l2, writes, ingests, gets, local, snap,
                   lapsed, acked, floor>>

-----------------------------------------------------------------------------
\* clear_cache
ClearCache(p) ==
    /\ l1[p] # << >>
    /\ l1' = [l1 EXCEPT ![p] = << >>]
    /\ UNCHANGED <<engine, l2, writes, ingests, gets, pc, local, snap,
                   answers, lapsed, acked, floor>>

\* Redis drops a key at its TTL, or earlier under allkeys-lru.
Expire(e) ==
    /\ MayExpire /\ l2[e] # NoSnap
    /\ l2' = [l2 EXCEPT ![e] = NoSnap]
    /\ lapsed' = lapsed \cup {e}
    /\ UNCHANGED <<engine, l1, writes, ingests, gets, pc, local, snap,
                   answers, acked, floor>>

Store(t) == Compute(t) \/ SetL1(t) \/ SetL2(t)

IngestStep(t) == \/ \E e \in Serves[t] : Record(t, e)
                 \/ CountWrite(t)

GetStep(t) == \/ \E e \in Serves[t] : GetL1(t, e)
              \/ GetL2(t) \/ FillL1(t)

Next == \/ \E t \in Writers : IngestStep(t)
        \/ \E t \in Readers : GetStep(t)
        \/ \E t \in Threads : Store(t)
        \/ \E p \in Procs : ClearCache(p)
        \/ \E e \in Entities : Expire(e)

Spec == Init /\ [][Next]_vars

\* No two threads of a process are in a get of the same entity.
GetsApart ==
    \A t, u \in Readers :
        t # u /\ Home[t] = Home[u] /\ pc[t] # "idle" /\ pc[u] # "idle" =>
            entity[t] # entity[u]

\* Callers that wait for the answer about an entity before they ask again.
SerialSpec == Init /\ [][Next /\ GetsApart']_vars

-----------------------------------------------------------------------------
Snap == -1 .. MaxIngests

\* The shapes of the variables; no cache exceeds its capacity, and what is
\* cached is a snapshot.
TypeOK ==
    /\ engine \in [Procs -> [Entities -> 0 .. MaxIngests]]
    /\ l1 \in [Procs -> Seq(Entry(Entities, Snap \ {NoSnap}))]
    /\ \A p \in Procs : Len(l1[p]) =< CacheCapacity
    /\ l2 \in [Entities -> Snap]
    /\ writes \in [Procs -> Nat]
    /\ ingests \in 0 .. MaxIngests /\ gets \in 0 .. MaxGets
    /\ pc \in [Threads -> {"idle", "compute", "set1", "set2", "count", "get2", "fill"}]
    /\ call \in [Threads -> {"none", "ingest", "get"}]
    /\ entity \in [Threads -> Entities]
    /\ snap \in [Threads -> Snap] /\ result \in [Threads -> [Entities -> Snap]]
    /\ last \in [Procs -> [Entities -> Snap]] /\ newest \in [Procs -> [Entities -> Snap]]
    /\ lapsed \subseteq Entities
    /\ acked \in [Entities -> Nat] /\ floor \in [Threads -> Nat]

Answered(t) == pc[t] = "idle" /\ call[t] = "get"

\* get_features returns features that include every ingest of the entity that
\* had returned when the call began, whichever tier answers ("Retrieve the
\* latest FeatureSnapshot for entity_id").
LatestServed ==
    \A t \in Threads : Answered(t) => result[t][entity[t]] >= floor[t]

\* In a process that ingests, what L1 holds of an entity nobody is working on
\* is what its engine would compute: ingest leaves no stale entry behind.
WriterCacheExact ==
    \A w \in Writers : \A e \in Serves[w] :
        LET p    == Home[w]
            busy == \E t \in Threads : pc[t] # "idle" /\ Home[t] = p /\ entity[t] = e
        IN  e \in KeysOf(l1[p]) /\ ~ busy =>
                ValueOf(l1[p], e) = engine[p][e]

\* The entity's history: what the process that works on the entity recorded.
History ==
    LET server(e) == CHOOSE t \in Threads : e \in Serves[t]
    IN  [e \in Entities |-> IF \E t \in Threads : e \in Serves[t]
                           THEN engine[Home[server(e)]][e] ELSE 0]

\* Where one thread works on each entity, the tiers cannot be told from a
\* store that has none: through evictions, expired keys, failed GETs and
\* clear_cache, a get is answered with all of the entity's history and no more.
Abstract == INSTANCE FeatureHistory
            WITH Callers <- Threads, Nothing <- NoSnap, history <- History, told <- result
ImplementsHistory == Abstract!Spec

\* What the callers of one process are told of an entity never goes back to
\* fewer transactions, whichever of its threads answers, through evictions from
\* L1, lost SETs and clear_cache.  Only an entity whose key Redis has dropped, or
\* failed to GET, may come back empty from the process's own engine; from then
\* on, too, an answer that is not empty is no older than any before it.
\* Said of processes that ingest or read, never both, of an entity that one
\* thread ingests and one process reads, and of gets of an entity that do not
\* overlap (SerialSpec): of two that do, the slower one may put what it found
\* earlier, or nothing, over what the faster one has answered.
MonotonicReads ==
    \A p \in Procs, e \in Entities :
        last[p][e] = newest[p][e] \/ (last[p][e] = 0 /\ e \in lapsed)
=============================================================================

------------------------ MODULE RollingFeatureEngine ------------------------
(***************************************************************************)
(* RollingFeatureEngine (feature_store/rolling_engine.py): a registry of   *)
(* entity buffers shared by threads that ingest transactions and threads   *)
(* that compute feature snapshots.                                         *)
(*                                                                         *)
(* A step is what a thread does between two points where another thread    *)
(* can act: one critical section, or one unlocked read of the registry.    *)
(* compute_features takes the buffer's lock five times and reads the clock *)
(* before each of the four window reads, so a snapshot is put together     *)
(* from up to five states of the buffer.                                   *)
(*                                                                         *)
(* Left out: what is a function of the recorded fields alone (mean, std,   *)
(* amount_zscore, velocity_change_ratio, the great-circle distance), and   *)
(* the caller's current_amount and merchant_category, which are copied.    *)
(***************************************************************************)
EXTENDS RingBuffer

CONSTANTS
    Ingesters, Readers,           \* threads that ingest, threads that compute
    Entities, NoEntity, Amounts, Merchants, Places,
    Narrow, Middle, Wide,         \* WINDOWS = [1, 5, 60]
    MaxEntities,                  \* max_entities
    Lateness,                     \* how old a caller's timestamp may be
    MaxTime, MaxIngests, MaxComputes   \* bounds of the model

ASSUME EngineAssumption ==
    /\ NoEntity \notin Entities
    /\ Amounts \subseteq Nat
    /\ Merchants # {}
    /\ Origin \in Places
    /\ {Narrow, Middle, Wide} \subseteq Nat /\ Narrow <= Middle /\ Middle <= Wide
    /\ MaxEntities \in Nat \ {0}
    /\ Lateness \in Nat
    /\ {MaxTime, MaxIngests, MaxComputes} \subseteq Nat

Threads  == Ingesters \cup Readers
NoBuffer == 0        \* dict.get found nothing
NoEvent  == [ts |-> 0, amount |-> 0, merchant |-> CHOOSE m \in Merchants : TRUE,
             place |-> Origin]

VARIABLES
    now,            \* time.time()
    heap,           \* every buffer ever created; a buffer's number is its index
    keys,           \* the registry's keys in insertion order
    buffers,        \* the registry: entity -> number of its buffer
    evicted,        \* history: numbers of the buffers taken out of the registry
    totalEvents, totalComputes,
    ingests, computes,   \* calls so far (bounds)
    pc, entity, event, held, clock, snap   \* the threads' program counters
                                           \* and local variables

shared == <<heap, keys, buffers, evicted, totalEvents, totalComputes>>
local  == <<pc, entity, event, held, clock, snap>>
vars   == <<now, shared, ingests, computes, local>>

ZeroStats == [since |-> 0, count |-> 0, total |-> 0, min |-> 0, max |-> 0]
ZeroSnap(at) == [at |-> at, s1 |-> ZeroStats, s5 |-> ZeroStats, s60 |-> ZeroStats,
                 unique |-> 0, place |-> Origin]

Init ==
    /\ now = 1
    /\ heap = << >> /\ keys = << >>
    /\ buffers = [e \in Entities |-> NoBuffer]
    /\ evicted = {}
    /\ totalEvents = 0 /\ totalComputes = 0
    /\ ingests = 0 /\ computes = 0
    /\ pc     = [t \in Threads |-> "idle"]
    /\ entity = [t \in Threads |-> NoEntity]
    /\ event  = [t \in Threads |-> NoEvent]
    /\ held   = [t \in Threads |-> NoBuffer]
    /\ clock  = [t \in Threads |-> 0]
    /\ snap   = [t \in Threads |-> ZeroSnap(0)]

Tick ==
    /\ now < MaxTime
    /\ now' = now + 1
    /\ UNCHANGED <<shared, ingests, computes, local>>

At(t, from, to) == pc[t] = from /\ pc' = [pc EXCEPT ![t] = to]

-----------------------------------------------------------------------------
(* ingest                                                                  *)

\* ts = ts or time.time(): a timestamp 0 counts as none.
Ingest(t, e, ev) ==
    /\ ingests < MaxIngests
    /\ At(t, "idle", "lookup")
    /\ entity' = [entity EXCEPT ![t] = e]
    /\ event'  = [event EXCEPT ![t] = IF ev.ts = 0 THEN [ev EXCEPT !.ts = now] ELSE ev]
    /\ ingests' = ingests + 1
    /\ UNCHANGED <<now, shared, computes, held, clock, snap>>

\* Mutant of Lookup: the buffer is used without looking whether there is one.
LookupUnchecked(t) ==
    /\ At(t, "lookup", "push")
    /\ held' = [held EXCEPT ![t] = buffers[entity[t]]]
    /\ UNCHANGED <<now, shared, ingests, computes, entity, event, clock, snap>>

\* The first look of _get_or_create, without the registry lock.
Lookup(t) ==
    /\ LET found == buffers[entity[t]]
       IN  /\ At(t, "lookup", IF found # NoBuffer THEN "push" ELSE "create")
           /\ held' = [held EXCEPT ![t] = found]
    /\ UNCHANGED <<now, shared, ingests, computes, entity, event, clock, snap>>

\* Mutant of Create: room is made one entity too late.
CreateBeyondLimit(t) ==
    /\ At(t, "create", "push")
    /\ \/ /\ buffers[entity[t]] # NoBuffer
          /\ held' = [held EXCEPT ![t] = buffers[entity[t]]]
          /\ UNCHANGED <<heap, keys, buffers, evicted>>
       \/ /\ buffers[entity[t]] = NoBuffer
          /\ LET full == Len(keys) > MaxEntities
                 out  == IF full THEN {Head(keys)} ELSE {}
                 new  == Len(heap) + 1
             IN  /\ heap'    = Append(heap, NewRing)
                 /\ keys'    = Append(IF full THEN Tail(keys) ELSE keys, entity[t])
                 /\ buffers' = [e \in Entities |-> IF e = entity[t] THEN new
                                                   ELSE IF e \in out THEN NoBuffer
                                                   ELSE buffers[e]]
                 /\ evicted' = evicted \cup {buffers[e] : e \in out}
                 /\ held'    = [held EXCEPT ![t] = new]
    /\ UNCHANGED <<now, totalEvents, totalComputes, ingests, computes,
                   entity, event, clock, snap>>

\* Mutant of Create: no second look under the lock.
CreateUnlocked(t) ==
    /\ At(t, "create", "push")
    /\ LET full == Len(keys) >= MaxEntities
           out  == IF full THEN {Head(keys)} ELSE {}
           new  == Len(heap) + 1
       IN  /\ heap'    = Append(heap, NewRing)
           /\ keys'    = Append(IF full THEN Tail(keys) ELSE keys, entity[t])
           /\ buffers' = [e \in Entities |-> IF e = entity[t] THEN new
                                             ELSE IF e \in out THEN NoBuffer
                                             ELSE buffers[e]]
           /\ evicted' = evicted \cup {buffers[e] : e \in out}
           /\ held'    = [held EXCEPT ![t] = new]
    /\ UNCHANGED <<now, totalEvents, totalComputes, ingests, computes,
                   entity, event, clock, snap>>

\* A second look under the lock; the first inserted entity makes room when
\* the registry is full.
Create(t) ==
    /\ At(t, "create", "push")
    /\ \/ /\ buffers[entity[t]] # NoBuffer
          /\ held' = [held EXCEPT ![t] = buffers[entity[t]]]
          /\ UNCHANGED <<heap, keys, buffers, evicted>>
       \/ /\ buffers[entity[t]] = NoBuffer
          /\ LET full == Len(keys) >= MaxEntities
                 out  == IF full THEN {Head(keys)} ELSE {}
                 new  == Len(heap) + 1
             IN  /\ heap'    = Append(heap, NewRing)
                 /\ keys'    = Append(IF full THEN Tail(keys) ELSE keys, entity[t])
                 /\ buffers' = [e \in Entities |-> IF e = entity[t] THEN new
                                                   ELSE IF e \in out THEN NoBuffer
                                                   ELSE buffers[e]]
                 /\ evicted' = evicted \cup {buffers[e] : e \in out}
                 /\ held'    = [held EXCEPT ![t] = new]
    /\ UNCHANGED <<now, totalEvents, totalComputes, ingests, computes,
                   entity, event, clock, snap>>

Push(t) ==
    /\ At(t, "push", "count")
    /\ heap' = [heap EXCEPT ![held[t]] = Pushed(@, event[t])]
    /\ UNCHANGED <<now, keys, buffers, evicted, totalEvents, totalComputes,
                   ingests, computes, entity, event, held, clock, snap>>

\* The counter, and the end of the call: its local variables are gone.
Count(t) ==
    /\ At(t, "count", "idle")
    /\ totalEvents' = totalEvents + 1
    /\ entity' = [entity EXCEPT ![t] = NoEntity]
    /\ event'  = [event EXCEPT ![t] = NoEvent]
    /\ held'   = [held EXCEPT ![t] = NoBuffer]
    /\ UNCHANGED <<now, heap, keys, buffers, evicted, totalComputes,
                   ingests, computes, clock, snap>>

-----------------------------------------------------------------------------
(* compute_features                                                        *)

Compute(t, e) ==
    /\ computes < MaxComputes
    /\ At(t, "idle", "find")
    /\ entity' = [entity EXCEPT ![t] = e]
    /\ clock'  = [clock EXCEPT ![t] = now]
    /\ snap'   = [snap EXCEPT ![t] = ZeroSnap(now)]
    /\ computes' = computes + 1
    /\ UNCHANGED <<now, shared, ingests, event, held>>

\* An unknown entity gets the zero-filled snapshot, which is not tallied.
Find(t) ==
    /\ LET found == buffers[entity[t]]
       IN  /\ At(t, "find", IF found # NoBuffer THEN "read1" ELSE "idle")
           /\ held'   = [held EXCEPT ![t] = found]
           /\ entity' = IF found # NoBuffer THEN entity
                        ELSE [entity EXCEPT ![t] = NoEntity]
    /\ UNCHANGED <<now, shared, ingests, computes, event, clock, snap>>

\* window_stats and unique_merchants read the clock, then wait for the lock:
\* the window starts at a time between the thread's last step and now.
Starts(t, window) == {s - window : s \in clock[t] .. now}

Looked(t) ==
    /\ clock' = [clock EXCEPT ![t] = now]
    /\ UNCHANGED <<now, shared, ingests, computes, entity, event, held>>

Read1(t) ==
    /\ At(t, "read1", "read5")
    /\ \E since \in Starts(t, Narrow) :
         snap' = [snap EXCEPT ![t].s1 = WindowStats(heap[held[t]], since)]
    /\ Looked(t)

Read5(t) ==
    /\ At(t, "read5", "read60")
    /\ \E since \in Starts(t, Middle) :
         snap' = [snap EXCEPT ![t].s5 = WindowStats(heap[held[t]], since)]
    /\ Looked(t)

Read60(t) ==
    /\ At(t, "read60", "merchants")
    /\ \E since \in Starts(t, Wide) :
         snap' = [snap EXCEPT ![t].s60 = WindowStats(heap[held[t]], since)]
    /\ Looked(t)

ReadMerchants(t) ==
    /\ At(t, "merchants", "place")
    /\ \E since \in Starts(t, Wide) :
         snap' = [snap EXCEPT ![t].unique =
                    Cardinality(UniqueMerchants(heap[held[t]], since))]
    /\ Looked(t)

ReadPlace(t) ==
    /\ At(t, "place", "tally")
    /\ snap' = [snap EXCEPT ![t].place = heap[held[t]].last]
    /\ Looked(t)

Tally(t) ==
    /\ At(t, "tally", "idle")
    /\ totalComputes' = totalComputes + 1
    /\ entity' = [entity EXCEPT ![t] = NoEntity]
    /\ held'   = [held EXCEPT ![t] = NoBuffer]
    /\ UNCHANGED <<now, heap, keys, buffers, evicted, totalEvents,
                   ingests, computes, event, clock, snap>>

-----------------------------------------------------------------------------
\* What callers pass: no timestamp (0), or one that is at most Lateness old.
Calls == [ts : {0} \cup {ts \in 1 .. now : ts >= now - Lateness},
          amount : Amounts, merchant : Merchants, place : Places]

IngestStep(t)  == \/ \E e \in Entities, ev \in Calls : Ingest(t, e, ev)
                  \/ Lookup(t) \/ Create(t) \/ Push(t) \/ Count(t)

ComputeStep(t) == \/ \E e \in Entities : Compute(t, e)
                  \/ Find(t) \/ Read1(t) \/ Read5(t) \/ Read60(t)
                  \/ ReadMerchants(t) \/ ReadPlace(t) \/ Tally(t)

Next == \/ Tick
        \/ \E t \in Ingesters : IngestStep(t)
        \/ \E t \in Readers : ComputeStep(t)

Spec == Init /\ [][Next]_vars

-----------------------------------------------------------------------------
Registered == {buffers[e] : e \in Entities} \ {NoBuffer}

Stages == {"idle", "lookup", "create", "push", "count", "find", "read1",
           "read5", "read60", "merchants", "place", "tally"}

\* The shared state and the threads' locals have their shapes; a thread holds
\* a buffer from the moment it found or created one to the end of the call.
TypeOK ==
    /\ now \in Nat \ {0}
    /\ heap \in Seq(Ring(Merchants, Places))
    /\ \A b \in 1 .. Len(heap) : WellFormed(heap[b], Merchants, Places)
    /\ keys \in Seq(Entities)
    /\ buffers \in [Entities -> 0 .. Len(heap)]
    /\ evicted \subseteq 0 .. Len(heap)
    /\ {totalEvents, totalComputes, ingests, computes} \subseteq Nat
    /\ pc \in [Threads -> Stages]
    /\ entity \in [Threads -> Entities \cup {NoEntity}]
    /\ event \in [Threads -> Event(Merchants, Places)]
    /\ held \in [Threads -> 0 .. Len(heap)]
    /\ clock \in [Threads -> Nat] /\ DOMAIN snap = Threads
    /\ \A t \in Threads :
         /\ pc[t] # "idle" => entity[t] \in Entities
         /\ held[t] = NoBuffer <=> pc[t] \in {"idle", "lookup", "create", "find"}

\* Nothing gets out of the registry but by eviction: every buffer ever
\* created is registered for exactly one entity or was evicted, never both;
\* keys and buffers agree and stay within max_entities; and whoever holds a
\* buffer holds the registered buffer of its entity or an evicted one.  Two
\* threads that create the same entity at once end up with one buffer.
BuffersAccounted ==
    /\ Len(keys) <= MaxEntities
    /\ \A i, j \in DOMAIN keys : keys[i] = keys[j] => i = j
    /\ \A e \in Entities : buffers[e] # NoBuffer <=> \E i \in DOMAIN keys : keys[i] = e
    /\ \A e, f \in Entities : buffers[e] = buffers[f] /\ buffers[e] # NoBuffer => e = f
    /\ Registered \cap evicted = {}
    /\ Registered \cup evicted = 1 .. Len(heap)
    /\ \A t \in Threads : held[t] # NoBuffer =>
         held[t] \in evicted \/ held[t] = buffers[entity[t]]

Unfilled == \A b \in DOMAIN heap : heap[b].size < Capacity

\* No transaction is lost or counted twice between buffers and counter: what
\* the registered and the evicted buffers hold is what was counted plus what
\* is about to be, as long as no buffer has been filled to the brim.
EventsConserved ==
    Unfilled =>
        SumFunction([b \in Registered \cup evicted |-> heap[b].size]) =
            totalEvents + Cardinality({t \in Threads : pc[t] = "count"})

\* The windows of a finished snapshot moved no further to the right, from
\* one read to the next, than the next window is wider.
Timely(s) == s.s60.since <= s.s5.since /\ s.s5.since <= s.s1.since

Finished(t) == pc[t] \in {"place", "tally"} \/ (pc[t] = "idle" /\ snap[t].s60 # ZeroStats)

\* Although its windows are read at different times with pushes in between,
\* a timely snapshot counts no transaction in a window that it misses in a
\* wider one, so that txn_count_1s never exceeds txn_count_60s and
\* velocity_change_ratio stays between 0 and 60.
CountsNested ==
    \A t \in Readers :
        Finished(t) /\ Timely(snap[t]) =>
            snap[t].s1.count <= snap[t].s5.count /\ snap[t].s5.count <= snap[t].s60.count

\* The same for totals and maxima while nothing has been overwritten.
AmountsNested ==
    \A t \in Readers :
        Finished(t) /\ Timely(snap[t]) /\ Unfilled =>
        /\ snap[t].s1.total <= snap[t].s5.total /\ snap[t].s5.total <= snap[t].s60.total
        /\ snap[t].s5.max <= snap[t].s60.max /\ snap[t].s60.min <= snap[t].s60.max
=============================================================================

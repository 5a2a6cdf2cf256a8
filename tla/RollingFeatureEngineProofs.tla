--------------------- MODULE RollingFeatureEngineProofs ---------------------
(***************************************************************************)
(* Theorems about RollingFeatureEngine for any number of threads,          *)
(* entities, buffers and calls: type correctness; that the registry        *)
(* accounts for every buffer under every interleaving of lookups,          *)
(* creations and evictions; that no event is lost between the buffers and  *)
(* the engine's counter; and that the windows of a snapshot are nested     *)
(* although each is read in a step of its own.                             *)
(***************************************************************************)
EXTENDS RollingFeatureEngine, RingBufferProofs

LEMMA CallsAreEvents ==
    ASSUME now \in Nat, NEW ev \in Calls
    PROVE  /\ ev \in Event(Merchants, Places)
           /\ [ev EXCEPT !.ts = now] \in Event(Merchants, Places)
  BY EngineAssumption DEF Calls, Event

LEMMA NoEventIsEvent == NoEvent \in Event(Merchants, Places)
  BY EngineAssumption DEF NoEvent, Event

LEMMA InitTypeOK == Init => TypeOK
  BY EngineAssumption, NoEventIsEvent
  DEF Init, TypeOK, NoBuffer, Stages, Threads

\* A push leaves every other buffer alone and its own well formed.
LEMMA PushType ==
    ASSUME TypeOK, NEW t \in Threads, Push(t)
    PROVE  TypeOK'
  <1>1. /\ pc[t] = "push" /\ pc' = [pc EXCEPT ![t] = "count"]
        /\ heap' = [heap EXCEPT ![held[t]] = Pushed(heap[held[t]], event[t])]
    BY DEF Push, At
  <1>0. /\ held[t] \in 1 .. Len(heap)
        /\ event[t] \in Event(Merchants, Places)
    <2>1. held[t] \in 0 .. Len(heap) /\ held[t] # 0 /\ Len(heap) \in Nat
      <3>1. held[t] = NoBuffer <=> pc[t] \in {"idle", "lookup", "create", "find"}
        BY DEF TypeOK
      <3>2. held[t] \in 0 .. Len(heap) /\ Len(heap) \in Nat
        BY DEF TypeOK
      <3> QED
        BY <1>1, <3>1, <3>2 DEF NoBuffer
    <2> QED
      BY <2>1 DEF TypeOK
  <1>2. /\ WellFormed(heap[held[t]], Merchants, Places)
        /\ WellFormed(Pushed(heap[held[t]], event[t]), Merchants, Places)
    BY <1>0, PushedWellFormed DEF TypeOK
  <1>3. Pushed(heap[held[t]], event[t]) \in Ring(Merchants, Places)
    BY <1>2 DEF WellFormed
  <1>4. heap \in Seq(Ring(Merchants, Places))
    BY DEF TypeOK
  <1>5. heap' \in Seq(Ring(Merchants, Places)) /\ Len(heap') = Len(heap)
    BY <1>0, <1>1, <1>3, <1>4
  <1>6. \A b \in 1 .. Len(heap') : WellFormed(heap'[b], Merchants, Places)
    <2> SUFFICES ASSUME NEW b \in 1 .. Len(heap)
                 PROVE  WellFormed(heap'[b], Merchants, Places)
      BY <1>5
    <2>1. CASE b = held[t]
      <3>1. heap'[b] = Pushed(heap[held[t]], event[t])
        BY <1>0, <1>1, <1>4, <2>1
      <3> QED
        BY <1>2, <3>1
    <2>2. CASE b # held[t]
      <3>1. heap'[b] = heap[b]
        BY <1>0, <1>1, <1>4, <2>2
      <3> QED
        BY <3>1 DEF TypeOK
    <2> QED
      BY <2>1, <2>2
  <1> QED
    BY <1>1, <1>5, <1>6 DEF TypeOK, Push, Stages

LEMMA CreateType ==
    ASSUME TypeOK, NEW t \in Threads, Create(t)
    PROVE  TypeOK'
  <1>1. /\ pc[t] = "create" /\ pc' = [pc EXCEPT ![t] = "push"]
        /\ entity[t] \in Entities
        /\ heap \in Seq(Ring(Merchants, Places)) /\ Len(heap) \in Nat
        /\ keys \in Seq(Entities)
        /\ buffers \in [Entities -> 0 .. Len(heap)]
    BY DEF Create, At, TypeOK
  <1>2. CASE buffers[entity[t]] # NoBuffer
    BY <1>1, <1>2 DEF Create, TypeOK, Stages, NoBuffer
  <1>3. CASE buffers[entity[t]] = NoBuffer
    <2> DEFINE full == Len(keys) >= MaxEntities
               out  == IF full THEN {Head(keys)} ELSE {}
               new  == Len(heap) + 1
    <2>1. /\ heap' = Append(heap, NewRing)
          /\ keys' = Append(IF full THEN Tail(keys) ELSE keys, entity[t])
          /\ buffers' = [e \in Entities |-> IF e = entity[t] THEN new
                                            ELSE IF e \in out THEN NoBuffer
                                            ELSE buffers[e]]
          /\ evicted' = evicted \cup {buffers[e] : e \in out}
          /\ held' = [held EXCEPT ![t] = new]
      BY <1>3 DEF Create
    <2>2. WellFormed(NewRing, Merchants, Places) /\ NewRing \in Ring(Merchants, Places)
      BY NewRingWellFormed, EngineAssumption DEF WellFormed
    <2>3. /\ heap' \in Seq(Ring(Merchants, Places)) /\ Len(heap') = Len(heap) + 1
          /\ \A b \in 1 .. Len(heap) : heap'[b] = heap[b]
          /\ heap'[Len(heap) + 1] = NewRing
      BY <1>1, <2>1, <2>2, AppendProperties
    <2>4. \A b \in 1 .. Len(heap') : WellFormed(heap'[b], Merchants, Places)
      <3> SUFFICES ASSUME NEW b \in 1 .. Len(heap) + 1
                   PROVE  WellFormed(heap'[b], Merchants, Places)
        BY <2>3
      <3>1. CASE b = Len(heap) + 1
        BY <2>2, <2>3, <3>1
      <3>2. CASE b # Len(heap) + 1
        <4>1. b \in 1 .. Len(heap)
          BY <1>1, <3>2
        <4> QED
          BY <2>3, <4>1 DEF TypeOK
      <3> QED
        BY <3>1, <3>2
    <2>5. full => Tail(keys) \in Seq(Entities) /\ Head(keys) \in Entities
      BY <1>1, EngineAssumption
    <2>6. keys' \in Seq(Entities)
      BY <1>1, <2>1, <2>5
    <2>7. buffers' \in [Entities -> 0 .. Len(heap')]
      BY <1>1, <2>1, <2>3 DEF NoBuffer
    <2>8. evicted' \subseteq 0 .. Len(heap')
      <3>1. evicted \subseteq 0 .. Len(heap')
        BY <1>1, <2>3 DEF TypeOK
      <3>2. {buffers[e] : e \in out} \subseteq 0 .. Len(heap')
        BY <1>1, <2>3, <2>5
      <3> QED
        BY <2>1, <3>1, <3>2
    <2>9. held' \in [Threads -> 0 .. Len(heap')] /\ held'[t] = new /\ new # NoBuffer
      BY <1>1, <2>1, <2>3 DEF TypeOK, NoBuffer
    <2> QED
      BY <1>1, <2>1, <2>3, <2>4, <2>6, <2>7, <2>8, <2>9 DEF Create, TypeOK, Stages, NoBuffer
  <1> QED
    BY <1>2, <1>3

\* Every step of a thread or of the clock preserves the types.
LEMMA NextTypeOK == TypeOK /\ [Next]_vars => TypeOK'
  <1> SUFFICES ASSUME TypeOK, [Next]_vars PROVE TypeOK'
    OBVIOUS
  <1> USE DEF At, Stages, NoBuffer
  <1>1. CASE Tick
    BY <1>1 DEF Tick, TypeOK, shared, local
  <1>2. ASSUME NEW t \in Ingesters, IngestStep(t) PROVE TypeOK'
    <2>0. t \in Threads
      BY DEF Threads
    <2>1. ASSUME NEW e \in Entities, NEW ev \in Calls, Ingest(t, e, ev) PROVE TypeOK'
      <3>1. now \in Nat
        BY DEF TypeOK
      <3>2. event'[t] \in Event(Merchants, Places)
        BY <2>0, <2>1, <3>1, CallsAreEvents DEF Ingest, TypeOK
      <3> QED
        BY <2>0, <2>1, <3>2 DEF Ingest, TypeOK, shared
    <2>2. CASE Lookup(t)
      BY <2>0, <2>2 DEF Lookup, TypeOK, shared
    <2>3. CASE Create(t)
      BY <2>0, <2>3, CreateType
    <2>4. CASE Push(t)
      BY <2>0, <2>4, PushType
    <2>5. CASE Count(t)
      BY <2>0, <2>5, NoEventIsEvent DEF Count, TypeOK
    <2> QED
      BY <1>2, <2>1, <2>2, <2>3, <2>4, <2>5 DEF IngestStep
  <1>3. ASSUME NEW t \in Readers, ComputeStep(t) PROVE TypeOK'
    <2>0. t \in Threads
      BY DEF Threads
    <2>1. ASSUME NEW e \in Entities, Compute(t, e) PROVE TypeOK'
      BY <2>0, <2>1 DEF Compute, TypeOK, shared
    <2>2. CASE Find(t)
      BY <2>0, <2>2 DEF Find, TypeOK, shared
    <2>3. CASE Read1(t)
      BY <2>0, <2>3 DEF Read1, Looked, TypeOK, shared
    <2>4. CASE Read5(t)
      BY <2>0, <2>4 DEF Read5, Looked, TypeOK, shared
    <2>5. CASE Read60(t)
      BY <2>0, <2>5 DEF Read60, Looked, TypeOK, shared
    <2>6. CASE ReadMerchants(t)
      BY <2>0, <2>6 DEF ReadMerchants, Looked, TypeOK, shared
    <2>7. CASE ReadPlace(t)
      BY <2>0, <2>7 DEF ReadPlace, Looked, TypeOK, shared
    <2>8. CASE Tally(t)
      BY <2>0, <2>8 DEF Tally, TypeOK
    <2> QED
      BY <1>3, <2>1, <2>2, <2>3, <2>4, <2>5, <2>6, <2>7, <2>8 DEF ComputeStep
  <1>4. CASE UNCHANGED vars
    BY <1>4 DEF vars, shared, local, TypeOK
  <1> QED
    BY <1>1, <1>2, <1>3, <1>4 DEF Next

\* The registry, the buffers and the threads' locals keep their types.
THEOREM TypeCorrect == Spec => []TypeOK
  BY InitTypeOK, NextTypeOK, PTL DEF Spec

-----------------------------------------------------------------------------
\* A step that leaves the registry alone, and after which each thread holds
\* what it held or what the registry has for its entity.
LEMMA SameRegistry ==
    ASSUME TypeOK, BuffersAccounted,
           UNCHANGED <<keys, buffers, evicted>>, Len(heap') = Len(heap),
           \A t \in Threads : held'[t] # NoBuffer =>
              \/ held'[t] = held[t] /\ entity'[t] = entity[t]
              \/ held'[t] = buffers[entity'[t]]
    PROVE  BuffersAccounted'
  BY DEF BuffersAccounted, Registered, Threads

\* Creating a buffer, with or without an eviction.
LEMMA CreateAccounted ==
    ASSUME TypeOK, BuffersAccounted, NEW t \in Threads, Create(t)
    PROVE  BuffersAccounted'
  <1> DEFINE mine == entity[t]
  <1>1. /\ mine \in Entities /\ entity' = entity
        /\ heap \in Seq(Ring(Merchants, Places)) /\ Len(heap) \in Nat
        /\ keys \in Seq(Entities) /\ Len(keys) \in Nat /\ Len(keys) <= MaxEntities
        /\ buffers \in [Entities -> 0 .. Len(heap)]
        /\ held \in [Threads -> 0 .. Len(heap)]
    BY DEF Create, At, TypeOK, BuffersAccounted
  <1>2. CASE buffers[mine] # NoBuffer
    BY <1>1, <1>2, SameRegistry DEF Create
  <1>3. CASE buffers[mine] = NoBuffer
    <2> DEFINE full == Len(keys) >= MaxEntities
               out  == IF full THEN {Head(keys)} ELSE {}
               new  == Len(heap) + 1
               rest == IF full THEN Tail(keys) ELSE keys
    <2>1. /\ heap' = Append(heap, NewRing)
          /\ keys' = Append(rest, mine)
          /\ buffers' = [e \in Entities |-> IF e = mine THEN new
                                            ELSE IF e \in out THEN NoBuffer
                                            ELSE buffers[e]]
          /\ evicted' = evicted \cup {buffers[e] : e \in out}
          /\ held' = [held EXCEPT ![t] = new]
      BY <1>3 DEF Create
    <2>2. Len(heap') = new
      BY <1>1, <2>1
    <2>3. \A i \in DOMAIN keys : keys[i] # mine
      BY <1>1, <1>3 DEF BuffersAccounted
    <2>4. full => keys # << >> /\ Head(keys) = keys[1] /\ 1 \in DOMAIN keys
      BY <1>1, EngineAssumption
    <2>5. /\ out \subseteq Entities /\ mine \notin out
          /\ \A e \in out : buffers[e] # NoBuffer /\ full /\ e = keys[1]
      BY <1>1, <2>3, <2>4 DEF BuffersAccounted
    \* what is left of the keys: no duplicates, and no evicted entity
    <2>6. /\ rest \in Seq(Entities) /\ Len(rest) \in Nat /\ Len(rest) + 1 <= MaxEntities
          /\ DOMAIN rest = 1 .. Len(rest)
          /\ \A i, j \in DOMAIN rest : rest[i] = rest[j] => i = j
          /\ \A i \in DOMAIN rest : rest[i] # mine /\ rest[i] \notin out
          /\ \A e \in Entities \ (out \cup {mine}) :
               buffers[e] # NoBuffer <=> \E i \in DOMAIN rest : rest[i] = e
      <3>1. CASE ~ full
        BY <1>1, <2>3, <3>1, EngineAssumption DEF BuffersAccounted
      <3>2. CASE full
        <4>1. /\ rest = Tail(keys) /\ rest \in Seq(Entities)
              /\ Len(rest) = Len(keys) - 1 /\ DOMAIN rest = 1 .. Len(rest)
              /\ \A i \in DOMAIN rest : i + 1 \in DOMAIN keys /\ rest[i] = keys[i + 1]
              /\ \A i \in DOMAIN keys : i # 1 => i - 1 \in DOMAIN rest
                                              /\ keys[i] = rest[i - 1]
          BY <1>1, <2>4, <3>2
        <4>2. out = {keys[1]}
          BY <2>4, <3>2
        <4>3. \A i, j \in DOMAIN rest : rest[i] = rest[j] => i = j
          <5> SUFFICES ASSUME NEW i \in DOMAIN rest, NEW j \in DOMAIN rest,
                              rest[i] = rest[j]
                       PROVE  i = j
            OBVIOUS
          <5>1. keys[i + 1] = keys[j + 1] /\ i + 1 \in DOMAIN keys /\ j + 1 \in DOMAIN keys
            BY <4>1
          <5>2. i + 1 = j + 1 /\ i \in Nat /\ j \in Nat
            BY <1>1, <4>1, <5>1 DEF BuffersAccounted
          <5> QED
            BY <5>2
        <4>4. \A i \in DOMAIN rest : rest[i] # mine /\ rest[i] \notin out
          <5> SUFFICES ASSUME NEW i \in DOMAIN rest
                       PROVE  rest[i] # mine /\ rest[i] # keys[1]
            BY <4>2
          <5>1. i + 1 \in DOMAIN keys /\ rest[i] = keys[i + 1] /\ i + 1 # 1
            BY <1>1, <4>1
          <5> QED
            BY <2>3, <2>4, <3>2, <5>1 DEF BuffersAccounted
        <4>5. ASSUME NEW e \in Entities \ (out \cup {mine})
              PROVE  buffers[e] # NoBuffer <=> \E i \in DOMAIN rest : rest[i] = e
          <5>1. buffers[e] # NoBuffer <=> \E i \in DOMAIN keys : keys[i] = e
            BY DEF BuffersAccounted
          <5>2. (\E i \in DOMAIN keys : keys[i] = e) <=> \E i \in DOMAIN rest : rest[i] = e
            BY <4>1, <4>2
          <5> QED
            BY <5>1, <5>2
        <4> QED
          BY <1>1, <2>4, <3>2, <4>1, <4>3, <4>4, <4>5
      <3> QED
        BY <3>1, <3>2
    <2>7. /\ keys' \in Seq(Entities) /\ Len(keys') = Len(rest) + 1
          /\ DOMAIN keys' = 1 .. Len(rest) + 1
          /\ \A i \in DOMAIN rest : keys'[i] = rest[i] /\ i \in DOMAIN keys'
          /\ \A i \in DOMAIN keys' : i \notin DOMAIN rest => i = Len(rest) + 1
          /\ keys'[Len(rest) + 1] = mine /\ Len(rest) + 1 \in DOMAIN keys'
      BY <1>1, <2>1, <2>6
    <2> HIDE DEF rest, out, full
    <2>8. \A i, j \in DOMAIN keys' : keys'[i] = keys'[j] => i = j
      BY <2>6, <2>7
    <2>9. \A e \in Entities : buffers'[e] # NoBuffer <=> \E i \in DOMAIN keys' : keys'[i] = e
      <3> SUFFICES ASSUME NEW e \in Entities
                   PROVE  buffers'[e] # NoBuffer <=> \E i \in DOMAIN keys' : keys'[i] = e
        OBVIOUS
      <3>1. CASE e = mine
        BY <1>1, <2>1, <2>7, <3>1 DEF NoBuffer
      <3>2. CASE e # mine /\ e \in out
        BY <2>1, <2>6, <2>7, <3>2
      <3>3. CASE e # mine /\ e \notin out
        BY <2>1, <2>6, <2>7, <3>3
      <3> QED
        BY <3>1, <3>2, <3>3
    <2>10. \A e, f \in Entities : buffers'[e] = buffers'[f] /\ buffers'[e] # NoBuffer => e = f
      BY <1>1, <2>1 DEF BuffersAccounted
    <2>11. Registered' = (Registered \ {buffers[e] : e \in out}) \cup {new}
      <3>1. Registered' = {buffers'[e] : e \in Entities} \ {NoBuffer}
        BY DEF Registered
      <3>2. new # NoBuffer
        BY <1>1 DEF NoBuffer
      <3>3. \A e \in Entities \ (out \cup {mine}), f \in out :
              buffers[e] # NoBuffer => buffers[e] # buffers[f]
        BY <2>5 DEF BuffersAccounted
      <3> QED
        BY <1>1, <1>3, <2>1, <2>5, <3>1, <3>2, <3>3 DEF Registered
    <2>12. /\ Registered \subseteq 1 .. Len(heap) /\ evicted \subseteq 1 .. Len(heap)
           /\ {buffers[e] : e \in out} \subseteq Registered
      BY <2>5 DEF BuffersAccounted, Registered
    <2>13. Registered' \cap evicted' = {}
      BY <1>1, <2>1, <2>11, <2>12 DEF BuffersAccounted
    <2>14. Registered' \cup evicted' = 1 .. Len(heap')
      <3>1. 1 .. Len(heap') = (1 .. Len(heap)) \cup {new}
        BY <1>1, <2>2
      <3>2. Registered \cup evicted = 1 .. Len(heap)
        BY DEF BuffersAccounted
      <3> QED
        BY <2>1, <2>11, <2>12, <3>1, <3>2
    <2>15. \A u \in Threads : held'[u] # NoBuffer =>
             held'[u] \in evicted' \/ held'[u] = buffers'[entity'[u]]
      <3> SUFFICES ASSUME NEW u \in Threads, held'[u] # NoBuffer
                   PROVE  held'[u] \in evicted' \/ held'[u] = buffers'[entity[u]]
        BY <1>1
      <3>1. CASE u = t
        BY <1>1, <2>1, <3>1
      <3>2. CASE u # t
        <4>1. held'[u] = held[u] /\ held[u] # NoBuffer
          BY <1>1, <2>1, <3>2
        <4>2. CASE held[u] \in evicted
          BY <2>1, <4>1, <4>2
        <4>3. CASE held[u] = buffers[entity[u]] /\ entity[u] \in Entities
          BY <1>3, <2>1, <4>1, <4>3
        <4>4. entity[u] \in Entities
          <5>1. pc[u] # "idle"
            BY <4>1 DEF TypeOK
          <5> QED
            BY <5>1 DEF TypeOK
        <4> QED
          BY <4>1, <4>2, <4>3, <4>4 DEF BuffersAccounted
      <3> QED
        BY <3>1, <3>2
    <2> QED
      BY <2>6, <2>7, <2>8, <2>9, <2>10, <2>13, <2>14, <2>15 DEF BuffersAccounted
  <1> QED
    BY <1>2, <1>3

\* The registry starts empty.
LEMMA InitAccounted == Init => BuffersAccounted
  BY EngineAssumption DEF Init, BuffersAccounted, Registered, NoBuffer

LEMMA NextAccounted == TypeOK /\ BuffersAccounted /\ [Next]_vars => BuffersAccounted'
  <1> SUFFICES ASSUME TypeOK, BuffersAccounted, [Next]_vars PROVE BuffersAccounted'
    OBVIOUS
  <1> USE DEF At
  <1>1. CASE Tick
    BY <1>1, SameRegistry DEF Tick, shared, local
  <1>2. ASSUME NEW t \in Ingesters, IngestStep(t) PROVE BuffersAccounted'
    <2>0. t \in Threads
      BY DEF Threads
    <2>1. ASSUME NEW e \in Entities, NEW ev \in Calls, Ingest(t, e, ev)
          PROVE  BuffersAccounted'
      <3>1. held[t] = NoBuffer
        BY <2>0, <2>1 DEF Ingest, TypeOK
      <3>2. \A u \in Threads : u # t => entity'[u] = entity[u]
        BY <2>1 DEF Ingest, TypeOK
      <3> QED
        BY <2>1, <3>1, <3>2, SameRegistry DEF Ingest, shared
    <2>2. CASE Lookup(t)
      <3>1. \A u \in Threads : held'[u] = IF u = t THEN buffers[entity[t]] ELSE held[u]
        BY <2>0, <2>2 DEF Lookup, TypeOK
      <3> QED
        BY <2>2, <3>1, SameRegistry DEF Lookup, shared
    <2>3. CASE Create(t)
      BY <2>0, <2>3, CreateAccounted
    <2>4. CASE Push(t)
      <3>1. Len(heap') = Len(heap)
        BY <2>4 DEF Push, TypeOK
      <3> QED
        BY <2>4, <3>1, SameRegistry DEF Push
    <2>5. CASE Count(t)
      <3>1. \A u \in Threads : IF u = t THEN held'[u] = NoBuffer
                               ELSE held'[u] = held[u] /\ entity'[u] = entity[u]
        BY <2>0, <2>5 DEF Count, TypeOK
      <3> QED
        BY <2>5, <3>1, SameRegistry DEF Count
    <2> QED
      BY <1>2, <2>1, <2>2, <2>3, <2>4, <2>5 DEF IngestStep
  <1>3. ASSUME NEW t \in Readers, ComputeStep(t) PROVE BuffersAccounted'
    <2>0. t \in Threads
      BY DEF Threads
    <2>1. ASSUME NEW e \in Entities, Compute(t, e) PROVE BuffersAccounted'
      <3>1. held[t] = NoBuffer
        BY <2>0, <2>1 DEF Compute, TypeOK
      <3>2. \A u \in Threads : u # t => entity'[u] = entity[u]
        BY <2>1 DEF Compute, TypeOK
      <3> QED
        BY <2>1, <3>1, <3>2, SameRegistry DEF Compute, shared
    <2>2. CASE Find(t)
      <3>1. \A u \in Threads : u # t => held'[u] = held[u] /\ entity'[u] = entity[u]
        BY <2>2 DEF Find, TypeOK
      <3>2. held'[t] # NoBuffer => held'[t] = buffers[entity'[t]]
        BY <2>0, <2>2 DEF Find, TypeOK
      <3> QED
        BY <2>2, <3>1, <3>2, SameRegistry DEF Find, shared
    <2>3. CASE Read1(t) \/ Read5(t) \/ Read60(t) \/ ReadMerchants(t) \/ ReadPlace(t)
      <3>1. UNCHANGED <<shared, entity, held>>
        BY <2>3 DEF Read1, Read5, Read60, ReadMerchants, ReadPlace, Looked
      <3> QED
        BY <3>1, SameRegistry DEF shared
    <2>4. CASE Tally(t)
      <3>1. \A u \in Threads : IF u = t THEN held'[u] = NoBuffer
                               ELSE held'[u] = held[u] /\ entity'[u] = entity[u]
        BY <2>0, <2>4 DEF Tally, TypeOK
      <3> QED
        BY <2>4, <3>1, SameRegistry DEF Tally
    <2> QED
      BY <1>3, <2>1, <2>2, <2>3, <2>4 DEF ComputeStep
  <1>4. CASE UNCHANGED vars
    BY <1>4, SameRegistry DEF vars, shared, local
  <1> QED
    BY <1>1, <1>2, <1>3, <1>4 DEF Next

\* However lookups, creations and evictions interleave, every buffer is
\* registered for one entity or evicted, and the registry stays bounded.
THEOREM RegistryCorrect == Spec => []BuffersAccounted
  <1>1. Init => TypeOK /\ BuffersAccounted
    BY InitTypeOK, InitAccounted
  <1>2. TypeOK /\ BuffersAccounted /\ [Next]_vars => (TypeOK /\ BuffersAccounted)'
    BY NextTypeOK, NextAccounted
  <1> QED
    BY <1>1, <1>2, PTL DEF Spec

-----------------------------------------------------------------------------
(* What a step does to the buffers.                                        *)

LEMMA HeapStep ==
    ASSUME TypeOK, [Next]_vars
    PROVE  /\ Len(heap) \in Nat /\ Len(heap') \in Nat /\ Len(heap) <= Len(heap')
           /\ \A b \in 1 .. Len(heap) :
                \/ heap'[b] = heap[b]
                \/ \E t \in Ingesters : /\ pc[t] = "push" /\ held[t] = b
                                        /\ heap'[b] = Pushed(heap[b], event[t])
           /\ \A b \in 1 .. Len(heap') : b > Len(heap) => heap'[b] = NewRing
  <1>1. heap \in Seq(Ring(Merchants, Places)) /\ Len(heap) \in Nat
    BY DEF TypeOK
  <1>2. CASE heap' = heap
    BY <1>1, <1>2
  <1>3. ASSUME NEW t \in Ingesters, Push(t)
        PROVE  /\ Len(heap') = Len(heap)
               /\ \A b \in 1 .. Len(heap) : heap'[b] = heap[b] \/ (held[t] = b /\ heap'[b] = Pushed(heap[b], event[t]))
               /\ pc[t] = "push"
    BY <1>1, <1>3 DEF Push, At
  <1>4. ASSUME heap' = Append(heap, NewRing)
        PROVE  /\ Len(heap') = Len(heap) + 1
               /\ \A b \in 1 .. Len(heap) : heap'[b] = heap[b]
               /\ heap'[Len(heap) + 1] = NewRing
    <2>1. NewRing \in Ring(Merchants, Places)
      BY NewRingWellFormed, EngineAssumption DEF WellFormed
    <2> QED
      BY <1>1, <1>4, <2>1, AppendProperties
  <1>5. \/ heap' = heap
        \/ heap' = Append(heap, NewRing)
        \/ \E t \in Ingesters : Push(t)
    BY DEF Next, vars, shared, Tick, IngestStep, Ingest, Lookup, Create, Count,
           ComputeStep, Compute, Find, Looked, Read1, Read5, Read60, ReadMerchants,
           ReadPlace, Tally
  <1>6. CASE heap' = Append(heap, NewRing)
    BY <1>1, <1>4, <1>6
  <1>7. ASSUME NEW t \in Ingesters, Push(t)
        PROVE  /\ Len(heap') = Len(heap)
               /\ \A b \in 1 .. Len(heap) :
                    \/ heap'[b] = heap[b]
                    \/ \E u \in Ingesters : /\ pc[u] = "push" /\ held[u] = b
                                            /\ heap'[b] = Pushed(heap[b], event[u])
    BY <1>3, <1>7
  <1> QED
    BY <1>1, <1>2, <1>5, <1>6, <1>7

\* A buffer that is pushed to is well formed, and so is what is pushed.
LEMMA PushTypes ==
    ASSUME TypeOK, NEW t \in Threads, pc[t] = "push"
    PROVE  /\ held[t] \in 1 .. Len(heap)
           /\ event[t] \in Event(Merchants, Places)
           /\ WellFormed(heap[held[t]], Merchants, Places)
  <1>1. held[t] \in 0 .. Len(heap) /\ held[t] # NoBuffer /\ Len(heap) \in Nat
    <2>1. held[t] = NoBuffer <=> pc[t] \in {"idle", "lookup", "create", "find"}
      BY DEF TypeOK
    <2> QED
      BY <2>1 DEF TypeOK
  <1> QED
    BY <1>1 DEF TypeOK, NoBuffer

\* A buffer that has been filled stays full.
LEMMA UnfilledBefore ==
    ASSUME TypeOK, [Next]_vars, Unfilled'
    PROVE  /\ Unfilled
           /\ \A b \in 1 .. Len(heap) : heap[b].size < Capacity
  <1>0. heap \in Seq(Ring(Merchants, Places)) /\ heap' \in Seq(Ring(Merchants, Places))
    BY NextTypeOK DEF TypeOK
  <1>1. DOMAIN heap = 1 .. Len(heap) /\ DOMAIN heap' = 1 .. Len(heap')
    BY <1>0
  <1>2. ASSUME NEW b \in 1 .. Len(heap) PROVE heap[b].size < Capacity
    <2>1. heap'[b].size < Capacity
      BY <1>1, HeapStep DEF Unfilled
    <2>2. CASE heap'[b] = heap[b]
      BY <2>1, <2>2
    <2>3. ASSUME NEW t \in Ingesters, pc[t] = "push", held[t] = b,
                 heap'[b] = Pushed(heap[b], event[t])
          PROVE  heap[b].size < Capacity
      <3>1. /\ event[t] \in Event(Merchants, Places)
            /\ WellFormed(heap[b], Merchants, Places)
        BY <2>3, PushTypes DEF Threads
      <3>2. Pushed(heap[b], event[t]).size =
              IF heap[b].size < Capacity THEN heap[b].size + 1 ELSE Capacity
        BY <3>1, PushedWellFormed
      <3> QED
        BY <2>1, <2>3, <3>2, CapacityAssumption
    <2> QED
      BY <2>2, <2>3, HeapStep
  <1> QED
    BY <1>1, <1>2 DEF Unfilled

-----------------------------------------------------------------------------
(* The counter.                                                            *)

SizesOf(h) == [b \in 1 .. Len(h) |-> h[b].size]
Sizes      == SizesOf(heap)
Counting   == {t \in Threads : pc[t] = "count"}

\* The buffers hold what has been counted and what will be.
SizesCounted ==
    /\ IsFiniteSet(Counting)
    /\ Unfilled => SumFunction(Sizes) = totalEvents + Cardinality(Counting)

\* A step that changes neither the buffers nor who is about to count.
LEMMA SameCount ==
    ASSUME SizesCounted, UNCHANGED <<heap, totalEvents, Counting>>
    PROVE  SizesCounted'
  BY DEF SizesCounted, Sizes, Unfilled

LEMMA SizesType ==
    ASSUME NEW h \in Seq(Ring(Merchants, Places))
    PROVE  /\ Len(h) \in Nat /\ IsFiniteSet(1 .. Len(h))
           /\ SizesOf(h) \in [1 .. Len(h) -> Nat]
           /\ SumFunction(SizesOf(h)) = SumFunctionOnSet(SizesOf(h), 1 .. Len(h))
           /\ SumFunctionOnSet(SizesOf(h), 1 .. Len(h)) \in Nat
  <1>1. Len(h) \in Nat /\ IsFiniteSet(1 .. Len(h))
    BY FS_Interval
  <1>2. \A b \in 1 .. Len(h) : h[b].size \in Nat
    <2>1. \A b \in 1 .. Len(h) : h[b] \in Ring(Merchants, Places)
      OBVIOUS
    <2>2. \A r \in Ring(Merchants, Places) : r.size \in Nat
      BY CapacityAssumption DEF Ring
    <2> QED
      BY <2>1, <2>2
  <1>3. SizesOf(h) \in [1 .. Len(h) -> Nat]
    BY <1>2 DEF SizesOf
  <1>4. SumFunction(SizesOf(h)) = SumFunctionOnSet(SizesOf(h), 1 .. Len(h))
    BY <1>3 DEF SumFunction
  <1> QED
    BY <1>1, <1>3, <1>4, SumRemove

LEMMA NextSizesCounted ==
    TypeOK /\ SizesCounted /\ [Next]_vars => SizesCounted'
  <1> SUFFICES ASSUME TypeOK, SizesCounted, [Next]_vars PROVE SizesCounted'
    OBVIOUS
  <1> DEFINE S == 1 .. Len(heap)
  <1>0. TypeOK' /\ heap \in Seq(Ring(Merchants, Places)) /\ pc \in [Threads -> Stages]
    BY NextTypeOK DEF TypeOK
  <1>1. /\ Len(heap) \in Nat /\ IsFiniteSet(S) /\ Sizes \in [S -> Nat]
        /\ SumFunction(Sizes) = SumFunctionOnSet(Sizes, S)
        /\ IsFiniteSet(1 .. Len(heap')) /\ Sizes' \in [1 .. Len(heap') -> Nat]
        /\ SumFunction(Sizes') = SumFunctionOnSet(Sizes', 1 .. Len(heap'))
        /\ SumFunctionOnSet(Sizes, S) \in Nat
        /\ SumFunctionOnSet(Sizes', 1 .. Len(heap')) \in Nat
    <2>1. heap' \in Seq(Ring(Merchants, Places))
      BY <1>0 DEF TypeOK
    <2> QED
      BY <1>0, <2>1, SizesType DEF Sizes
  <1>2. IsFiniteSet(Counting) /\ Cardinality(Counting) \in Nat /\ totalEvents \in Nat
    BY FS_CardinalityType DEF SizesCounted, TypeOK
  <1>3. ASSUME NEW t \in Ingesters, Push(t) PROVE SizesCounted'
    <2>0. t \in Threads /\ pc[t] = "push"
      BY <1>3 DEF Threads, Push, At
    <2>1. Counting' = Counting \cup {t} /\ t \notin Counting
      BY <1>0, <1>3, <2>0 DEF Counting, Push, At
    <2>2. IsFiniteSet(Counting') /\ Cardinality(Counting') = Cardinality(Counting) + 1
      BY <1>2, <2>1, FS_AddElement
    <2>3. /\ held[t] \in S /\ event[t] \in Event(Merchants, Places)
          /\ WellFormed(heap[held[t]], Merchants, Places)
      BY <2>0, PushTypes
    <2>4. /\ Len(heap') = Len(heap)
          /\ \A b \in S : heap'[b] = IF b = held[t] THEN Pushed(heap[b], event[t]) ELSE heap[b]
      BY <1>0, <1>3 DEF Push
    <2>5. ASSUME Unfilled'
          PROVE  SumFunctionOnSet(Sizes', S) = SumFunctionOnSet(Sizes, S) + 1
      <3>1. heap[held[t]].size < Capacity
        BY <2>3, <2>5, UnfilledBefore
      <3>2. Pushed(heap[held[t]], event[t]).size = heap[held[t]].size + 1
        BY <2>3, <3>1, PushedWellFormed
      <3>3. \A b \in S : /\ b # held[t] => Sizes[b] = Sizes'[b]
                         /\ Sizes[b] \in Nat /\ Sizes'[b] \in Nat
        BY <1>1, <2>4 DEF Sizes, SizesOf
      <3>4. Sizes'[held[t]] = Sizes[held[t]] + 1
        BY <2>3, <2>4, <3>2 DEF Sizes, SizesOf
      <3>5. SumFunctionOnSet(Sizes', S) + Sizes[held[t]]
              = SumFunctionOnSet(Sizes, S) + Sizes'[held[t]]
        <4> DEFINE f == Sizes
                   g == Sizes'
        <4>1. \A b \in S : f[b] \in Nat /\ g[b] \in Nat /\ (b # held[t] => f[b] = g[b])
          BY <3>3
        <4> HIDE DEF f, g, S
        <4>2. SumFunctionOnSet(g, S) + f[held[t]] = SumFunctionOnSet(f, S) + g[held[t]]
          BY <1>1, <2>3, <4>1, SumChange
        <4> QED
          BY <4>2 DEF f, g
      <3>6. Sizes[held[t]] \in Nat
        BY <2>3, <3>3
      <3> QED
        BY <1>1, <2>4, <3>4, <3>5, <3>6
    <2>6. totalEvents' = totalEvents
      BY <1>3 DEF Push
    <2> QED
      BY <1>1, <1>2, <2>2, <2>4, <2>5, <2>6, UnfilledBefore DEF SizesCounted
  <1>4. ASSUME NEW t \in Ingesters, Create(t), heap' # heap PROVE SizesCounted'
    <2>1. heap' = Append(heap, NewRing) /\ totalEvents' = totalEvents
      BY <1>4 DEF Create
    <2>2. Counting' = Counting
      BY <1>0, <1>4 DEF Counting, Create, At
    <2> DEFINE new == Len(heap) + 1
               T   == 1 .. new
    <2>3. NewRing \in Ring(Merchants, Places) /\ NewRing.size = 0
      BY NewRingWellFormed, EngineAssumption DEF WellFormed, NewRing
    <2>4. /\ Len(heap') = new /\ \A b \in S : heap'[b] = heap[b]
          /\ heap'[new] = NewRing
      BY <1>0, <2>1, <2>3, AppendProperties
    <2>5. /\ T \ {new} = S /\ new \in T
          /\ \A b \in S : Sizes'[b] = Sizes[b]
          /\ Sizes'[new] = 0
      BY <1>1, <2>3, <2>4 DEF Sizes, SizesOf
    <2>6. SumFunctionOnSet(Sizes', T) = SumFunctionOnSet(Sizes, S)
      <3> DEFINE f == Sizes
                 g == Sizes'
      <3>1. \A b \in T : g[b] \in Nat
        BY <1>1, <2>4
      <3>2. IsFiniteSet(T)
        BY <1>1, <2>4
      <3>3. \A b \in S : g[b] = f[b]
        BY <2>5
      <3>4. g[new] = 0 /\ SumFunctionOnSet(f, S) \in Nat
        BY <1>1, <2>5
      <3> HIDE DEF f, g, S, T
      <3>5. SumFunctionOnSet(g, T) = g[new] + SumFunctionOnSet(g, T \ {new})
        BY <2>5, <3>1, <3>2, SumRemove
      <3>6. SumFunctionOnSet(g, S) = SumFunctionOnSet(f, S)
        BY <1>1, <3>3, SumSame
      <3>7. SumFunctionOnSet(g, T \ {new}) = SumFunctionOnSet(f, S)
        BY <2>5, <3>6
      <3>8. SumFunctionOnSet(g, T) = SumFunctionOnSet(f, S)
        BY <3>4, <3>5, <3>7
      <3> QED
        BY <3>8 DEF f, g
    <2> QED
      BY <1>1, <1>2, <2>1, <2>2, <2>4, <2>6, UnfilledBefore DEF SizesCounted
  <1>5. ASSUME NEW t \in Ingesters, Count(t) PROVE SizesCounted'
    <2>0. t \in Threads /\ pc[t] = "count"
      BY <1>5 DEF Threads, Count, At
    <2>1. Counting' = Counting \ {t} /\ t \in Counting
      BY <1>0, <1>5, <2>0 DEF Counting, Count, At
    <2>2. IsFiniteSet(Counting') /\ Cardinality(Counting') = Cardinality(Counting) - 1
      BY <1>2, <2>1, FS_RemoveElement
    <2>3. heap' = heap /\ totalEvents' = totalEvents + 1
      BY <1>5 DEF Count
    <2>4. Sizes' = Sizes /\ Unfilled' = Unfilled
      BY <2>3 DEF Sizes, SizesOf, Unfilled
    <2> QED
      BY <1>2, <2>2, <2>3, <2>4 DEF SizesCounted
  <1>6. ASSUME UNCHANGED <<heap, totalEvents, Counting>> PROVE SizesCounted'
    BY <1>6, SameCount
  <1>7. \/ UNCHANGED <<heap, totalEvents>> /\ Counting' = Counting
        \/ \E t \in Ingesters : Push(t) \/ Count(t) \/ (Create(t) /\ heap' # heap)
    <2>1. ASSUME NEW t \in Ingesters, IngestStep(t), ~ Push(t), ~ Count(t),
                 ~ (Create(t) /\ heap' # heap)
          PROVE  UNCHANGED <<heap, totalEvents>> /\ Counting' = Counting
      BY <1>0, <2>1 DEF IngestStep, Ingest, Lookup, Create, At, shared, Counting
    <2>2. ASSUME NEW t \in Readers, ComputeStep(t)
          PROVE  UNCHANGED <<heap, totalEvents>> /\ Counting' = Counting
      BY <1>0, <2>2
      DEF ComputeStep, Compute, Find, Looked, Read1, Read5, Read60, ReadMerchants,
          ReadPlace, Tally, At, shared, Counting
    <2>3. CASE Tick \/ UNCHANGED vars
      BY <2>3 DEF Tick, vars, shared, local, Counting
    <2> QED
      BY <2>1, <2>2, <2>3 DEF Next
  <1> QED
    BY <1>3, <1>4, <1>5, <1>6, <1>7

\* While no buffer has been filled, the buffers hold exactly what
\* totalEvents counts and the events whose pushes are about to be counted,
\* however threads interleave and whatever has been evicted.
THEOREM CountCorrect == Spec => []EventsConserved
  <1>1. Init => TypeOK /\ BuffersAccounted
    BY InitTypeOK, InitAccounted
  <1>2. Init => SizesCounted
    <2> SUFFICES ASSUME Init PROVE SizesCounted
      OBVIOUS
    <2>1. Counting = {}
      BY DEF Init, Counting
    <2>2. IsFiniteSet(Counting) /\ Cardinality(Counting) = 0
      BY <2>1, FS_EmptySet
    <2>3. DOMAIN Sizes = {} /\ totalEvents = 0
      BY DEF Init, Sizes, SizesOf
    <2>4. SumFunction(Sizes) = 0
      BY <2>3, FS_EmptySet, SumUnfold DEF SumFunction
    <2> QED
      BY <2>2, <2>3, <2>4 DEF SizesCounted
  <1>3. TypeOK /\ BuffersAccounted /\ SizesCounted /\ [Next]_vars
          => (TypeOK /\ BuffersAccounted /\ SizesCounted)'
    BY NextTypeOK, NextAccounted, NextSizesCounted
  <1>4. BuffersAccounted /\ SizesCounted => EventsConserved
    BY DEF BuffersAccounted, SizesCounted, EventsConserved, Sizes, SizesOf, Counting
  <1> QED
    BY <1>1, <1>2, <1>3, <1>4, PTL DEF Spec

-----------------------------------------------------------------------------
(* Snapshots.                                                              *)

\* One thread ingests, and its callers pass no old timestamps.
Chronological == Lateness = 0 /\ \A i, j \in Ingesters : i = j

NothingYounger(h, ts) ==
    \A b \in 1 .. Len(h) : \A i \in 1 .. h[b].size : View(h[b])[i].ts <= ts

\* What is in the buffers has happened, and what is about to be pushed is
\* the latest that has.
PushedInOrder ==
    Chronological =>
        /\ NothingYounger(heap, now)
        /\ \A t \in Ingesters : pc[t] \in {"lookup", "create", "push"} =>
             event[t].ts <= now /\ NothingYounger(heap, event[t].ts)

\* Window a promises no more than window b: its count if pushes are in
\* order, its count, total and maximum if no buffer has been filled.
Below(unfilled, a, b) ==
    /\ Chronological \/ unfilled => a.count <= b.count
    /\ unfilled => a.total <= b.total /\ a.max <= b.max

\* The buffer will keep what the window s has promised, whatever wider window
\* is read next.
Covered(unfilled, s, ring) ==
    \A x \in Int : x <= s.since => Below(unfilled, s, WindowStats(ring, x))

Snap == [at : Nat, s1 : Stats, s5 : Stats, s60 : Stats, unique : Nat, place : Places]

\* How far the windows of t's snapshot are nested when t has got this far.
NestedSoFar(t) ==
    /\ snap[t] \in Snap
    /\ pc[t] = "read5" => Covered(Unfilled, snap[t].s1, heap[held[t]])
    /\ pc[t] = "read60" =>
         /\ Covered(Unfilled, snap[t].s5, heap[held[t]])
         /\ snap[t].s5.since <= snap[t].s1.since => Below(Unfilled, snap[t].s1, snap[t].s5)
    /\ pc[t] \notin {"read5", "read60"} /\ Timely(snap[t]) =>
         Below(Unfilled, snap[t].s1, snap[t].s5) /\ Below(Unfilled, snap[t].s5, snap[t].s60)
    /\ snap[t].s60.min <= snap[t].s60.max

WindowsNest == PushedInOrder /\ \A t \in Readers : NestedSoFar(t)

\* Window by window, in one state and across a step.
LEMMA BelowStays ==
    ASSUME TypeOK, [Next]_vars, NEW a, NEW b, Below(Unfilled, a, b)
    PROVE  Below(Unfilled', a, b)
  BY UnfilledBefore DEF Below

\* What a buffer covers, it covers after every step.
LEMMA CoveredStays ==
    ASSUME TypeOK, PushedInOrder, [Next]_vars, NEW s \in Stats,
           NEW b \in 1 .. Len(heap), Covered(Unfilled, s, heap[b])
    PROVE  Covered(Unfilled', s, heap'[b])
  <1> SUFFICES ASSUME NEW x \in Int, x <= s.since
               PROVE  Below(Unfilled', s, WindowStats(heap'[b], x))
    BY DEF Covered
  <1>1. Below(Unfilled, s, WindowStats(heap[b], x))
    BY DEF Covered
  <1>2. WellFormed(heap[b], Merchants, Places)
    BY DEF TypeOK
  <1>3. CASE heap'[b] = heap[b]
    BY <1>1, <1>3, BelowStays
  <1>4. ASSUME NEW t \in Ingesters, pc[t] = "push", held[t] = b,
               heap'[b] = Pushed(heap[b], event[t])
        PROVE  Below(Unfilled', s, WindowStats(heap'[b], x))
    <2> DEFINE w == WindowStats(heap[b], x)
               v == WindowStats(Pushed(heap[b], event[t]), x)
    <2>1. event[t] \in Event(Merchants, Places)
      BY <1>4, PushTypes DEF Threads
    <2>2. w \in Stats /\ v \in Stats
      BY <1>2, <2>1, WindowStatsType, PushedWellFormed
    <2>3. /\ Chronological => w.count <= v.count
          /\ Unfilled' => w.count <= v.count /\ w.total <= v.total /\ w.max <= v.max
      <3>1. ASSUME Chronological PROVE w.count <= v.count
        <4>1. \A i \in 1 .. heap[b].size : View(heap[b])[i].ts <= event[t].ts
          BY <1>4, <3>1 DEF PushedInOrder, NothingYounger
        <4> QED
          BY <1>2, <2>1, <4>1, PushCounts
      <3>2. ASSUME Unfilled'
            PROVE  w.count <= v.count /\ w.total <= v.total /\ w.max <= v.max
        BY <1>2, <2>1, <3>2, UnfilledBefore, PushAdds
      <3> QED
        BY <3>1, <3>2
    <2>4. Below(Unfilled', s, w)
      BY <1>1, BelowStays
    <2>5. WindowStats(heap'[b], x) = v
      BY <1>4
    <2> HIDE DEF w, v
    <2>6. Below(Unfilled', s, v)
      BY <2>2, <2>3, <2>4 DEF Below, Stats
    <2> QED
      BY <2>5, <2>6
  <1> QED
    BY <1>3, <1>4, HeapStep

\* A window just read covers itself.
LEMMA ReadCovers ==
    ASSUME NEW unfilled, NEW r, WellFormed(r, Merchants, Places), NEW since \in Int
    PROVE  Covered(unfilled, WindowStats(r, since), r)
  <1> SUFFICES ASSUME NEW x \in Int, x <= WindowStats(r, since).since
               PROVE  Below(unfilled, WindowStats(r, since), WindowStats(r, x))
    BY DEF Covered
  <1>1. x <= since
    BY WindowStatsType
  <1> QED
    BY <1>1, WiderWindow DEF Below

-----------------------------------------------------------------------------
LEMMA InitWindowsNest == Init => WindowsNest
  <1> SUFFICES ASSUME Init PROVE WindowsNest
    OBVIOUS
  <1>1. PushedInOrder
    BY DEF Init, PushedInOrder, NothingYounger, Threads
  <1>2. ASSUME NEW t \in Readers PROVE NestedSoFar(t)
    <2>1. snap[t] = ZeroSnap(0) /\ pc[t] = "idle"
      BY DEF Init, Threads
    <2>2. ZeroSnap(0) \in Snap
      BY EngineAssumption DEF ZeroSnap, ZeroStats, Snap, Stats
    <2> QED
      BY <2>1, <2>2 DEF NestedSoFar, ZeroSnap, ZeroStats, Below
  <1> QED
    BY <1>1, <1>2 DEF WindowsNest

\* The clock never goes back, so that pushes keep their order.
LEMMA NextInOrder ==
    ASSUME TypeOK, PushedInOrder, [Next]_vars
    PROVE  PushedInOrder'
  <1> SUFFICES ASSUME Chronological PROVE PushedInOrder'
    BY DEF PushedInOrder, Chronological
  <1> DEFINE InHand(u) == pc[u] \in {"lookup", "create", "push"}
  <1>0. /\ TypeOK' /\ now \in Nat /\ now' \in Nat /\ now <= now'
        /\ pc \in [Threads -> Stages] /\ event \in [Threads -> Event(Merchants, Places)]
        /\ event' \in [Threads -> Event(Merchants, Places)]
    <2>1. now' = now \/ now' = now + 1
      BY DEF Next, vars, shared, Tick, IngestStep, Ingest, Lookup, Create, Push, Count,
             ComputeStep, Compute, Find, Looked, Read1, Read5, Read60, ReadMerchants,
             ReadPlace, Tally
    <2>2. TypeOK'
      BY NextTypeOK
    <2>3. now \in Nat
      BY DEF TypeOK
    <2>4. event' \in [Threads -> Event(Merchants, Places)]
      BY <2>2 DEF TypeOK
    <2>5. now' \in Nat /\ now <= now'
      BY <2>1, <2>3
    <2>6. pc \in [Threads -> Stages] /\ event \in [Threads -> Event(Merchants, Places)]
      BY DEF TypeOK
    <2> QED
      BY <2>2, <2>3, <2>4, <2>5, <2>6
  <1>1. \A b \in 1 .. Len(heap) : \A i \in 1 .. heap[b].size : View(heap[b])[i].ts \in Nat
    BY ViewType DEF TypeOK, Slot
  <1>2. NothingYounger(heap, now) /\ \A u \in Ingesters : InHand(u) =>
          event[u].ts <= now /\ NothingYounger(heap, event[u].ts)
    BY DEF PushedInOrder
  \* nothing in a buffer is younger than what is pushed next, which is not
  \* younger than now
  <1>3. ASSUME NEW ts \in Nat, NothingYounger(heap, ts),
               \A u \in Ingesters : pc[u] = "push" => event[u].ts <= ts
        PROVE  NothingYounger(heap', ts)
    <2> SUFFICES ASSUME NEW b \in 1 .. Len(heap'), NEW i \in 1 .. heap'[b].size
                 PROVE  View(heap'[b])[i].ts <= ts
      BY DEF NothingYounger
    <2>1. CASE b > Len(heap)
      <3>1. heap'[b].size = 0
        BY <2>1, HeapStep DEF NewRing
      <3> QED
        BY <3>1
    <2>2. CASE ~ (b > Len(heap))
      <3>1. b \in 1 .. Len(heap)
        BY <2>2, HeapStep
      <3>2. CASE heap'[b] = heap[b]
        BY <1>3, <3>1, <3>2 DEF NothingYounger
      <3>3. ASSUME NEW u \in Ingesters, pc[u] = "push", held[u] = b,
                   heap'[b] = Pushed(heap[b], event[u])
            PROVE  View(heap'[b])[i].ts <= ts
        <4>1. /\ event[u] \in Event(Merchants, Places)
              /\ WellFormed(heap[b], Merchants, Places)
          BY <3>3, PushTypes DEF Threads
        <4> DEFINE r == heap[b]
                   q == Pushed(r, event[u])
        <4>2. /\ i = q.size => View(q)[i] = [ts |-> event[u].ts, amount |-> event[u].amount]
              /\ i # q.size => View(q)[i] = View(r)[Before(r, i)]
          BY <3>3, <4>1, PushedView
        <4>3. CASE i = q.size
          BY <1>3, <3>3, <4>2, <4>3
        <4>4. CASE i # q.size
          <5>1. /\ q.size = IF r.size < Capacity THEN r.size + 1 ELSE Capacity
                /\ r.size \in 0 .. Capacity
            BY <4>1, PushedWellFormed DEF WellFormed, Ring
          <5>2. Before(r, i) \in 1 .. r.size
            BY <3>3, <4>4, <5>1, CapacityAssumption DEF Before
          <5> QED
            BY <1>3, <3>1, <3>3, <4>2, <4>4, <5>2 DEF NothingYounger
        <4> QED
          BY <4>3, <4>4
      <3> QED
        BY <3>1, <3>2, <3>3, HeapStep
    <2> QED
      BY <2>1, <2>2
  <1>4. NothingYounger(heap', now')
    <2>1. NothingYounger(heap, now')
      BY <1>0, <1>1, <1>2 DEF NothingYounger
    <2>2. \A u \in Ingesters : pc[u] = "push" => event[u].ts <= now'
      <3> TAKE u \in Ingesters
      <3>1. event[u].ts \in Nat
        BY <1>0 DEF Threads, Event
      <3> QED
        BY <1>0, <1>2, <3>1
    <2> QED
      BY <1>0, <1>3, <2>1, <2>2
  <1>5. ASSUME NEW t \in Ingesters, InHand(t)'
        PROVE  event'[t].ts <= now' /\ NothingYounger(heap', event'[t].ts)
    <2>0. t \in Threads /\ \A u \in Ingesters : u = t
      BY DEF Threads, Chronological
    <2>1. CASE InHand(t) /\ event'[t] = event[t]
      <3>1. event[t].ts \in Nat
        BY <1>0, <2>0 DEF Event
      <3>2. event[t].ts <= now /\ NothingYounger(heap, event[t].ts)
        BY <1>2, <2>1
      <3>3. \A u \in Ingesters : pc[u] = "push" => event[u].ts <= event[t].ts
        BY <2>0, <3>1
      <3>4. NothingYounger(heap', event[t].ts)
        BY <1>3, <3>1, <3>2, <3>3
      <3> QED
        BY <1>0, <2>1, <3>1, <3>2, <3>4
    <2>2. ASSUME NEW e \in Entities, NEW ev \in Calls, Ingest(t, e, ev)
          PROVE  event'[t].ts <= now' /\ NothingYounger(heap', event'[t].ts)
      <3>1. event'[t].ts = now /\ now' = now
        <4>1. ev \in Event(Merchants, Places)
          BY <1>0, CallsAreEvents
        <4>2. ev.ts = 0 \/ ev.ts = now
          BY <1>0 DEF Chronological, Calls
        <4>3. event'[t] = IF ev.ts = 0 THEN [ev EXCEPT !.ts = now] ELSE ev
          BY <1>0, <2>0, <2>2 DEF Ingest
        <4>4. [ev EXCEPT !.ts = now].ts = now
          BY <4>1 DEF Event
        <4> QED
          BY <2>2, <4>2, <4>3, <4>4 DEF Ingest
      <3> QED
        BY <1>0, <1>4, <3>1
    <2>3. \/ InHand(t) /\ event'[t] = event[t]
          \/ \E e \in Entities, ev \in Calls : Ingest(t, e, ev)
      <3>1. ASSUME NEW u \in Ingesters, IngestStep(u)
            PROVE  \/ InHand(t) /\ event'[t] = event[t]
                   \/ \E e \in Entities, ev \in Calls : Ingest(t, e, ev)
        <4>1. u = t
          BY <2>0
        <4> QED
          BY <1>0, <1>5, <2>0, <3>1, <4>1
          DEF IngestStep, Lookup, Create, Push, Count, At
      <3>2. ASSUME NEW u \in Readers, ComputeStep(u)
            PROVE  InHand(t) /\ event'[t] = event[t]
        BY <1>0, <1>5, <2>0, <3>2
        DEF ComputeStep, Compute, Find, Looked, Read1, Read5, Read60, ReadMerchants,
            ReadPlace, Tally, At
      <3>3. CASE Tick \/ UNCHANGED vars
        BY <1>5, <3>3 DEF Tick, vars, local
      <3> QED
        BY <3>1, <3>2, <3>3 DEF Next
    <2> QED
      BY <2>1, <2>2, <2>3
  <1> QED
    BY <1>4, <1>5 DEF PushedInOrder

-----------------------------------------------------------------------------
(* The reader.                                                             *)

\* What a reader of a window has: a well-formed buffer, and a window of it.
LEMMA ReadTypes ==
    ASSUME TypeOK, NEW t \in Threads, pc[t] \notin {"idle", "lookup", "create", "find"}
    PROVE  held[t] \in 1 .. Len(heap) /\ WellFormed(heap[held[t]], Merchants, Places)
  <1>1. held[t] \in 0 .. Len(heap) /\ held[t] # NoBuffer /\ Len(heap) \in Nat
    <2>1. held[t] = NoBuffer <=> pc[t] \in {"idle", "lookup", "create", "find"}
      BY DEF TypeOK
    <2> QED
      BY <2>1 DEF TypeOK
  <1> QED
    BY <1>1 DEF TypeOK, NoBuffer

LEMMA StartsType ==
    ASSUME TypeOK, NEW t \in Threads, NEW window \in Nat, NEW since \in Starts(t, window)
    PROVE  since \in Int
  BY DEF TypeOK, Starts

\* A step that leaves t's snapshot alone and does not take t through its reads.
LEMMA NotReading ==
    ASSUME TypeOK, WindowsNest, [Next]_vars, NEW t \in Readers, snap'[t] = snap[t],
           \/ pc'[t] = pc[t] /\ held'[t] = held[t]
           \/ pc[t] \notin {"read5", "read60"} /\ pc'[t] \notin {"read5", "read60"}
    PROVE  NestedSoFar(t)'
  <1> DEFINE s == snap[t]
  <1>0. t \in Threads /\ PushedInOrder /\ NestedSoFar(t) /\ s \in Snap
    BY DEF WindowsNest, NestedSoFar, Threads
  <1>1. \A a, b : Below(Unfilled, a, b) => Below(Unfilled', a, b)
    BY BelowStays
  <1>2. s.s1 \in Stats /\ s.s5 \in Stats
    BY <1>0 DEF Snap
  <1>3. CASE pc[t] \in {"read5", "read60"}
    <2>1. pc'[t] = pc[t] /\ held'[t] = held[t] /\ held[t] \in 1 .. Len(heap)
      BY <1>0, <1>3, ReadTypes
    <2>2. \A w \in Stats : Covered(Unfilled, w, heap[held[t]])
                             => Covered(Unfilled', w, heap'[held'[t]])
      BY <1>0, <2>1, CoveredStays
    <2> QED
      BY <1>0, <1>1, <1>2, <1>3, <2>1, <2>2 DEF NestedSoFar
  <1>4. CASE pc[t] \notin {"read5", "read60"}
    <2>1. pc'[t] \notin {"read5", "read60"}
      BY <1>4
    <2> QED
      BY <1>0, <1>1, <1>4, <2>1 DEF NestedSoFar
  <1> QED
    BY <1>3, <1>4

LEMMA NextNestedSoFar ==
    ASSUME TypeOK, WindowsNest, [Next]_vars, NEW t \in Readers
    PROVE  NestedSoFar(t)'
  <1> DEFINE s == snap[t]
             r == heap[held[t]]
  <1>0. t \in Threads /\ NestedSoFar(t) /\ s \in Snap /\ now \in Nat
        /\ pc \in [Threads -> Stages] /\ DOMAIN snap = Threads
    BY DEF WindowsNest, NestedSoFar, Threads, TypeOK
  <1>1. /\ s.s1 \in Stats /\ s.s5 \in Stats /\ s.s60 \in Stats
        /\ {Narrow, Middle, Wide} \subseteq Nat
    BY <1>0, EngineAssumption DEF Snap
  <1>2. ASSUME NEW e \in Entities, Compute(t, e) PROVE NestedSoFar(t)'
    <2>1. snap'[t] = ZeroSnap(now) /\ pc'[t] = "find"
      BY <1>0, <1>2 DEF Compute, At
    <2>2. ZeroSnap(now) \in Snap
      BY <1>0, EngineAssumption DEF ZeroSnap, ZeroStats, Snap, Stats
    <2> QED
      BY <2>1, <2>2 DEF NestedSoFar, ZeroSnap, ZeroStats, Below
  <1>3. CASE Read1(t)
    <2>1. /\ pc[t] = "read1" /\ pc'[t] = "read5" /\ heap' = heap /\ held' = held
          /\ Unfilled' = Unfilled
      BY <1>0, <1>3 DEF Read1, Looked, At, shared, Unfilled
    <2>2. PICK since \in Starts(t, Narrow) :
            snap' = [snap EXCEPT ![t].s1 = WindowStats(r, since)]
      BY <1>3 DEF Read1
    <2>3. since \in Int /\ WellFormed(r, Merchants, Places)
      BY <1>0, <1>1, <2>1, ReadTypes, StartsType
    <2> DEFINE w == WindowStats(r, since)
    <2>4. w \in Stats /\ Covered(Unfilled, w, r)
      BY <2>3, WindowStatsType, ReadCovers
    <2> HIDE DEF w
    <2>5. snap'[t] \in Snap /\ snap'[t].s1 = w /\ snap'[t].s60 = s.s60
      BY <1>0, <2>2, <2>4 DEF Snap, w
    <2> QED
      BY <1>0, <2>1, <2>4, <2>5 DEF NestedSoFar
  <1>4. CASE Read5(t)
    <2>1. /\ pc[t] = "read5" /\ pc'[t] = "read60" /\ heap' = heap /\ held' = held
          /\ Unfilled' = Unfilled
      BY <1>0, <1>4 DEF Read5, Looked, At, shared, Unfilled
    <2>2. PICK since \in Starts(t, Middle) :
            snap' = [snap EXCEPT ![t].s5 = WindowStats(r, since)]
      BY <1>4 DEF Read5
    <2>3. since \in Int /\ WellFormed(r, Merchants, Places)
      BY <1>0, <1>1, <2>1, ReadTypes, StartsType
    <2> DEFINE w == WindowStats(r, since)
    <2>4. w \in Stats /\ w.since = since /\ Covered(Unfilled, w, r)
      BY <2>3, WindowStatsType, ReadCovers
    <2>5. since <= s.s1.since => Below(Unfilled, s.s1, w)
      BY <1>0, <2>1, <2>3 DEF NestedSoFar, Covered
    <2> HIDE DEF w
    <2>6. /\ snap'[t] \in Snap /\ snap'[t].s1 = s.s1 /\ snap'[t].s5 = w
          /\ snap'[t].s60 = s.s60
      BY <1>0, <2>2, <2>4 DEF Snap, w
    <2> QED
      BY <1>0, <2>1, <2>4, <2>5, <2>6 DEF NestedSoFar
  <1>5. CASE Read60(t)
    <2>1. /\ pc[t] = "read60" /\ pc'[t] = "merchants" /\ heap' = heap /\ held' = held
          /\ Unfilled' = Unfilled
      BY <1>0, <1>5 DEF Read60, Looked, At, shared, Unfilled
    <2>2. PICK since \in Starts(t, Wide) :
            snap' = [snap EXCEPT ![t].s60 = WindowStats(r, since)]
      BY <1>5 DEF Read60
    <2>3. since \in Int /\ WellFormed(r, Merchants, Places)
      BY <1>0, <1>1, <2>1, ReadTypes, StartsType
    <2> DEFINE w == WindowStats(r, since)
    <2>4. w \in Stats /\ w.since = since /\ w.min <= w.max
      BY <2>3, WindowStatsType
    <2>5. since <= s.s5.since => Below(Unfilled, s.s5, w)
      BY <1>0, <2>1, <2>3 DEF NestedSoFar, Covered
    <2> HIDE DEF w
    <2>6. /\ snap'[t] \in Snap /\ snap'[t].s1 = s.s1 /\ snap'[t].s5 = s.s5
          /\ snap'[t].s60 = w
      BY <1>0, <2>2, <2>4 DEF Snap, w
    <2> QED
      BY <1>0, <2>1, <2>4, <2>5, <2>6 DEF NestedSoFar, Timely
  <1>6. CASE ReadMerchants(t)
    <2>1. /\ pc[t] = "merchants" /\ pc'[t] = "place" /\ heap' = heap /\ Unfilled' = Unfilled
      BY <1>0, <1>6 DEF ReadMerchants, Looked, At, shared, Unfilled
    <2>2. PICK since \in Starts(t, Wide) :
            snap' = [snap EXCEPT ![t].unique = Cardinality(UniqueMerchants(r, since))]
      BY <1>6 DEF ReadMerchants
    <2>3. since \in Int /\ WellFormed(r, Merchants, Places)
      BY <1>0, <1>1, <2>1, ReadTypes, StartsType
    <2>4. Cardinality(UniqueMerchants(r, since)) \in Nat
      BY <2>3, UniqueMerchantsType
    <2>5. /\ snap'[t] \in Snap /\ snap'[t].s1 = s.s1 /\ snap'[t].s5 = s.s5
          /\ snap'[t].s60 = s.s60
      BY <1>0, <2>2, <2>4 DEF Snap
    <2> QED
      BY <1>0, <2>1, <2>5 DEF NestedSoFar, Timely
  <1>7. CASE ReadPlace(t)
    <2>1. /\ pc[t] = "place" /\ pc'[t] = "tally" /\ heap' = heap /\ Unfilled' = Unfilled
          /\ snap' = [snap EXCEPT ![t].place = r.last]
      BY <1>0, <1>7 DEF ReadPlace, Looked, At, shared, Unfilled
    <2>2. r.last \in Places
      BY <1>0, <2>1, ReadTypes DEF WellFormed, Ring
    <2>3. /\ snap'[t] \in Snap /\ snap'[t].s1 = s.s1 /\ snap'[t].s5 = s.s5
          /\ snap'[t].s60 = s.s60
      BY <1>0, <2>1, <2>2 DEF Snap
    <2> QED
      BY <1>0, <2>1, <2>3 DEF NestedSoFar, Timely
  <1>8. \/ /\ snap'[t] = snap[t]
           /\ \/ pc'[t] = pc[t] /\ held'[t] = held[t]
              \/ pc[t] \notin {"read5", "read60"} /\ pc'[t] \notin {"read5", "read60"}
        \/ \E e \in Entities : Compute(t, e)
        \/ Read1(t) \/ Read5(t) \/ Read60(t) \/ ReadMerchants(t) \/ ReadPlace(t)
    <2> DEFINE Aside == /\ snap'[t] = snap[t]
                        /\ \/ pc'[t] = pc[t] /\ held'[t] = held[t]
                           \/ /\ pc[t] \notin {"read5", "read60"}
                              /\ pc'[t] \notin {"read5", "read60"}
    <2>0. held \in [Threads -> 0 .. Len(heap)]
      BY DEF TypeOK
    <2>1. ASSUME NEW u \in Ingesters, IngestStep(u) PROVE Aside
      <3>1. snap' = snap
        BY <2>1 DEF IngestStep, Ingest, Lookup, Create, Push, Count
      <3>2. CASE u = t
        BY <1>0, <2>1, <3>1, <3>2
        DEF IngestStep, Ingest, Lookup, Create, Push, Count, At
      <3>3. CASE u # t
        <4>1. pc'[t] = pc[t]
          BY <1>0, <2>1, <3>3 DEF IngestStep, Ingest, Lookup, Create, Push, Count, At
        <4>2. held'[t] = held[t]
          BY <1>0, <2>0, <2>1, <3>3 DEF IngestStep, Ingest, Lookup, Create, Push, Count
        <4> QED
          BY <3>1, <4>1, <4>2
      <3> QED
        BY <3>2, <3>3
    <2>2. ASSUME NEW u \in Readers, ComputeStep(u), u # t PROVE Aside
      <3>1. pc'[t] = pc[t]
        BY <1>0, <2>2
        DEF ComputeStep, Compute, Find, Looked, Read1, Read5, Read60, ReadMerchants,
            ReadPlace, Tally, At
      <3>2. held'[t] = held[t]
        BY <1>0, <2>0, <2>2
        DEF ComputeStep, Compute, Find, Looked, Read1, Read5, Read60, ReadMerchants,
            ReadPlace, Tally
      <3>3. snap'[t] = snap[t]
        BY <1>0, <2>2
        DEF ComputeStep, Compute, Find, Looked, Read1, Read5, Read60, ReadMerchants,
            ReadPlace, Tally
      <3> QED
        BY <3>1, <3>2, <3>3
    <2>3. CASE Find(t) \/ Tally(t)
      BY <1>0, <2>3 DEF Find, Tally, At
    <2>4. ASSUME Tick \/ UNCHANGED vars PROVE Aside
      BY <2>4 DEF Tick, vars, local
    <2>5. Aside \/ ComputeStep(t)
      <3>1. CASE \E u \in Ingesters : IngestStep(u)
        BY <2>1, <3>1
      <3>2. CASE \E u \in Readers : ComputeStep(u)
        <4>1. PICK u \in Readers : ComputeStep(u)
          BY <3>2
        <4>2. CASE u = t
          BY <4>1, <4>2
        <4>3. CASE u # t
          BY <2>2, <4>1, <4>3
        <4> QED
          BY <4>2, <4>3
      <3>3. CASE Tick \/ UNCHANGED vars
        BY <2>4, <3>3
      <3>4. \/ \E u \in Ingesters : IngestStep(u)
            \/ \E u \in Readers : ComputeStep(u)
            \/ Tick \/ UNCHANGED vars
        BY DEF Next
      <3> QED
        BY <3>1, <3>2, <3>3, <3>4
    <2>6. Aside \/ (\E e \in Entities : Compute(t, e)) \/ Read1(t) \/ Read5(t) \/ Read60(t)
          \/ ReadMerchants(t) \/ ReadPlace(t)
      BY <2>3, <2>5 DEF ComputeStep
    <2> QED
      BY <2>6
  <1> HIDE DEF s, r
  <1> QED
    BY <1>2, <1>3, <1>4, <1>5, <1>6, <1>7, <1>8, NotReading

LEMMA NextWindowsNest == TypeOK /\ WindowsNest /\ [Next]_vars => WindowsNest'
  <1> SUFFICES ASSUME TypeOK, WindowsNest, [Next]_vars PROVE WindowsNest'
    OBVIOUS
  <1>1. PushedInOrder'
    BY NextInOrder DEF WindowsNest
  <1>2. ASSUME NEW t \in Readers PROVE NestedSoFar(t)'
    BY NextNestedSoFar
  <1> QED
    BY <1>1, <1>2 DEF WindowsNest

LEMMA WindowsNestAlways == Spec => []WindowsNest
  <1>1. Init => TypeOK /\ WindowsNest
    BY InitTypeOK, InitWindowsNest
  <1>2. TypeOK /\ WindowsNest /\ [Next]_vars => (TypeOK /\ WindowsNest)'
    BY NextTypeOK, NextWindowsNest
  <1> QED
    BY <1>1, <1>2, PTL DEF Spec

\* With one ingesting thread and no late transactions, a timely snapshot
\* counts nothing in a window that it misses in a wider one, although rings
\* wrap and pushes come between its reads.
THEOREM CountsCorrect ==
    ASSUME Chronological
    PROVE  Spec => []CountsNested
  <1>1. WindowsNest => CountsNested
    BY DEF WindowsNest, NestedSoFar, CountsNested, Finished, Below
  <1> QED
    BY <1>1, WindowsNestAlways, PTL

\* With any number of ingesting threads and transactions as late as may be,
\* the windows are nested in counts, totals and maxima until a buffer fills.
THEOREM AmountsCorrect == Spec => [](AmountsNested /\ (Unfilled => CountsNested))
  <1>1. WindowsNest => AmountsNested /\ (Unfilled => CountsNested)
    BY DEF WindowsNest, NestedSoFar, AmountsNested, CountsNested, Finished, Below
  <1> QED
    BY <1>1, WindowsNestAlways, PTL
=============================================================================

------------------------ MODULE InferenceServerProofs ------------------------
(***************************************************************************)
(* Theorems about InferenceServer for any number of calls and workers, of  *)
(* transactions in a call and of reloads.                                  *)
(***************************************************************************)
EXTENDS InferenceServer, FiniteSetTheorems, TLAPS

InQueue(q, r) == \E i \in DOMAIN q : q[i] = r
QueuedOnce(q) == \A i, j \in DOMAIN q : q[i] = q[j] => i = j

\* The part of the type invariant that is about the pool.
PoolOK ==
    /\ pc \in [Requests -> Stages]
    /\ queue \in Seq(Requests)
    /\ QueuedOnce(queue)
    /\ \A r \in Requests : pc[r] = "queued" <=> InQueue(queue, r)
    /\ Cardinality(Running) =< Workers

\* Stages in which a call is neither new, nor queued, nor over.
Active == Stages \ {"new", "queued", "done"}

LEMMA RequestsFinite ==
    /\ IsFiniteSet(Requests) /\ IsFiniteSet(Running)
    /\ Cardinality(Running) \in Nat
  <1>1. IsFiniteSet(Requests)
    BY ServerAssumption DEF Requests
  <1>2. Running \subseteq Requests
    BY DEF Running
  <1>3. IsFiniteSet(Running)
    BY <1>1, <1>2, FS_Subset
  <1> QED
    BY <1>1, <1>3, FS_CardinalityType

\* A new call goes to the end of the queue.
LEMMA AppendQueue ==
    ASSUME NEW q \in Seq(Requests), QueuedOnce(q), NEW r \in Requests, ~ InQueue(q, r)
    PROVE  /\ Append(q, r) \in Seq(Requests) /\ QueuedOnce(Append(q, r))
           /\ \A x \in Requests : InQueue(Append(q, r), x) <=> InQueue(q, x) \/ x = r
  <1> DEFINE a == Append(q, r)
  <1>1. /\ a \in Seq(Requests) /\ Len(q) \in Nat
        /\ DOMAIN a = 1 .. Len(q) + 1 /\ DOMAIN q = 1 .. Len(q)
        /\ \A i \in 1 .. Len(q) : a[i] = q[i]
        /\ a[Len(q) + 1] = r
    OBVIOUS
  <1> HIDE DEF a
  <1>2. \A i \in 1 .. Len(q) : q[i] # r
    BY <1>1 DEF InQueue
  <1>3. QueuedOnce(a)
    BY <1>1, <1>2 DEF QueuedOnce
  <1>4. \A x \in Requests : InQueue(a, x) <=> InQueue(q, x) \/ x = r
    BY <1>1 DEF InQueue
  <1> QED
    BY <1>1, <1>3, <1>4 DEF a

\* A worker takes the head of the queue.
LEMMA TailQueue ==
    ASSUME NEW q \in Seq(Requests), QueuedOnce(q), q # << >>
    PROVE  /\ Tail(q) \in Seq(Requests) /\ QueuedOnce(Tail(q))
           /\ Head(q) \in Requests /\ InQueue(q, Head(q))
           /\ \A x \in Requests : InQueue(Tail(q), x) <=> InQueue(q, x) /\ x # Head(q)
  <1>1. /\ Tail(q) \in Seq(Requests) /\ Len(q) \in Nat \ {0}
        /\ DOMAIN Tail(q) = 1 .. Len(q) - 1 /\ DOMAIN q = 1 .. Len(q)
        /\ \A i \in 1 .. Len(q) - 1 : Tail(q)[i] = q[i + 1]
        /\ Head(q) = q[1] /\ Head(q) \in Requests
    OBVIOUS
  <1>2. QueuedOnce(Tail(q))
    BY <1>1 DEF QueuedOnce
  <1>3. ASSUME NEW x \in Requests, InQueue(Tail(q), x)
        PROVE  InQueue(q, x) /\ x # Head(q)
    <2>1. PICK i \in 1 .. Len(q) - 1 : x = q[i + 1]
      BY <1>1, <1>3 DEF InQueue
    <2>2. i + 1 \in DOMAIN q /\ i + 1 # 1 /\ 1 \in DOMAIN q
      BY <1>1, <2>1
    <2> QED
      BY <1>1, <2>1, <2>2 DEF InQueue, QueuedOnce
  <1>4. ASSUME NEW x \in Requests, InQueue(q, x), x # Head(q)
        PROVE  InQueue(Tail(q), x)
    <2>1. PICK i \in 1 .. Len(q) : x = q[i]
      BY <1>1, <1>4 DEF InQueue
    <2>2. i - 1 \in 1 .. Len(q) - 1 /\ (i - 1) + 1 = i
      BY <1>1, <1>4, <2>1
    <2>3. Tail(q)[i - 1] = x
      BY <1>1, <2>1, <2>2
    <2> QED
      BY <1>1, <2>2, <2>3 DEF InQueue
  <1>5. InQueue(q, Head(q))
    <2>1. 1 \in DOMAIN q
      BY <1>1
    <2> QED
      BY <1>1, <2>1 DEF InQueue
  <1> QED
    BY <1>1, <1>2, <1>3, <1>4, <1>5

\* A call that runs goes on to another stage, or ends.
LEMMA StepInPool ==
    ASSUME PoolOK, NEW r \in Requests, NEW from \in Active, NEW to \in Active \cup {"done"},
           Goto(r, from, to), queue' = queue
    PROVE  PoolOK'
  <1>1. /\ pc' \in [Requests -> Stages] /\ pc'[r] = to /\ pc[r] = from
        /\ \A x \in Requests : x # r => pc'[x] = pc[x]
    BY DEF PoolOK, Goto, Active, Stages
  <1>2. \A x \in Requests : pc'[x] = "queued" <=> InQueue(queue', x)
    BY <1>1 DEF PoolOK, Active
  <1>3. Running' \subseteq Running
    BY <1>1 DEF Running, Active
  <1>4. Cardinality(Running') =< Cardinality(Running)
    BY <1>3, RequestsFinite, FS_Subset
  <1>5. Cardinality(Running') \in Nat
    BY <1>3, RequestsFinite, FS_Subset, FS_CardinalityType
  <1>6. Cardinality(Running)' =< Workers
    BY <1>4, <1>5, RequestsFinite, ServerAssumption DEF PoolOK
  <1> QED
    BY <1>1, <1>2, <1>6 DEF PoolOK

LEMMA CallInPool ==
    ASSUME PoolOK, NEW r \in Requests, Call(r)
    PROVE  PoolOK'
  <1>1. /\ pc' \in [Requests -> Stages] /\ pc'[r] = "queued" /\ pc[r] = "new"
        /\ \A x \in Requests : x # r => pc'[x] = pc[x]
        /\ queue' = Append(queue, r)
    BY DEF PoolOK, Call, Goto, Stages
  <1>2. /\ queue' \in Seq(Requests) /\ QueuedOnce(queue')
        /\ \A x \in Requests : InQueue(queue', x) <=> InQueue(queue, x) \/ x = r
    BY <1>1, AppendQueue DEF PoolOK
  <1>3. Running' = Running
    BY <1>1 DEF Running
  <1> QED
    BY <1>1, <1>2, <1>3 DEF PoolOK

LEMMA StartInPool ==
    ASSUME PoolOK, NEW r \in Requests, Start(r)
    PROVE  PoolOK' /\ r \notin Running /\ pc[r] = "queued"
  <1>1. /\ pc' \in [Requests -> Stages] /\ pc'[r] \in {"next", "type"} /\ pc[r] = "queued"
        /\ \A x \in Requests : x # r => pc'[x] = pc[x]
        /\ queue # << >> /\ Head(queue) = r /\ queue' = Tail(queue)
        /\ Cardinality(Running) < Workers
    BY DEF PoolOK, Start, Goto, Stages
  <1>2. /\ queue' \in Seq(Requests) /\ QueuedOnce(queue')
        /\ \A x \in Requests : InQueue(queue', x) <=> InQueue(queue, x) /\ x # r
    BY <1>1, TailQueue DEF PoolOK
  <1>3. Running' = Running \cup {r} /\ r \notin Running
    BY <1>1 DEF Running
  <1>4. Cardinality(Running)' = Cardinality(Running) + 1
    BY <1>3, RequestsFinite, FS_AddElement
  <1>5. Cardinality(Running)' =< Workers
    BY <1>1, <1>4, RequestsFinite, ServerAssumption
  <1>6. \A x \in Requests : pc'[x] = "queued" <=> InQueue(queue', x)
    BY <1>1, <1>2 DEF PoolOK
  <1> QED
    BY <1>1, <1>2, <1>3, <1>5, <1>6 DEF PoolOK

-----------------------------------------------------------------------------
(* the calls, the gauge and the model                                      *)

\* The part of the type invariant that is about the calls and their counters.
CallsOK ==
    /\ sent \in [Streams -> Nat] /\ closed \in [Streams -> BOOLEAN]
    /\ \A r \in Streams : sent[r] =< Items[r] /\ taken[r] =< sent[r]
    /\ taken \in [Streams -> Nat] /\ gone \subseteq Streams
    /\ since \in [Requests -> 0 .. MaxReloads] /\ stale \subseteq Requests
    /\ results \in [Requests -> Nat] /\ answers \in [Requests -> Nat]
    /\ served \in Nat

\* The part that is about the main thread.
ModelOK ==
    /\ process \in {"up", "stopping", "exiting", "crashed"}
    /\ artifact \in [Attributes -> 0 .. MaxReloads]
    /\ reloading \in Seq([load : 1 .. reloads, assigned : 0 .. Len(LoadOrder) - 1])
    /\ reloads \in 0 .. MaxReloads /\ loaded \in 0 .. reloads

Gauged == {r \in Predicts \cup Streams : Predicting(r)}

LEMMA TypeParts == TypeOK <=> PoolOK /\ CallsOK /\ ModelOK /\ active \in Nat
  BY DEF TypeOK, PoolOK, CallsOK, ModelOK, InQueue, QueuedOnce

LEMMA GaugedFinite == IsFiniteSet(Gauged) /\ Cardinality(Gauged) \in Nat
  <1>1. Gauged \subseteq Requests
    BY DEF Gauged, Requests
  <1> QED
    BY <1>1, RequestsFinite, FS_Subset, FS_CardinalityType

\* A prediction begins.
LEMMA GaugeUp ==
    ASSUME PoolOK, ActiveExact, NEW r \in Predicts \cup Streams, ~ Predicting(r), Predicting(r)',
           \A x \in Requests : x # r => pc'[x] = pc[x],
           active' = active + 1
    PROVE  ActiveExact' /\ active' \in Nat
  <1>1. Gauged' = Gauged \cup {r} /\ r \notin Gauged
    BY DEF Gauged, Predicting, Requests
  <1>2. Cardinality(Gauged') = Cardinality(Gauged) + 1
    BY <1>1, GaugedFinite, FS_AddElement
  <1> QED
    BY <1>2, GaugedFinite DEF ActiveExact, Gauged

\* It ends, or raises.
LEMMA GaugeDown ==
    ASSUME PoolOK, ActiveExact, NEW r \in Predicts \cup Streams, Predicting(r), ~ Predicting(r)',
           \A x \in Requests : x # r => pc'[x] = pc[x],
           active' = active - 1
    PROVE  ActiveExact' /\ active' \in Nat
  <1>1. Gauged' = Gauged \ {r} /\ r \in Gauged
    BY DEF Gauged, Predicting, Requests
  <1>2. Cardinality(Gauged') = Cardinality(Gauged) - 1 /\ IsFiniteSet(Gauged')
    BY <1>1, GaugedFinite, FS_RemoveElement
  <1>3. Cardinality(Gauged') \in Nat
    BY <1>2, FS_CardinalityType
  <1>4. active = Cardinality(Gauged)
    BY DEF ActiveExact, Gauged
  <1>5. active' = Cardinality(Gauged') /\ active' \in Nat
    BY <1>2, <1>3, <1>4
  <1> QED
    BY <1>5 DEF ActiveExact, Gauged

\* Nothing happens that the gauge is about.
LEMMA GaugeSame ==
    ASSUME ActiveExact, active \in Nat, active' = active,
           \A x \in Predicts \cup Streams : Predicting(x)' <=> Predicting(x)
    PROVE  ActiveExact' /\ active' \in Nat
  <1>1. Gauged' = Gauged
    BY DEF Gauged
  <1> QED
    BY <1>1 DEF ActiveExact, Gauged

LEMMA SeqMonotone ==
    ASSUME NEW S, NEW T, S \subseteq T, NEW s \in Seq(S)
    PROVE  s \in Seq(T)
  <1>1. Len(s) \in Nat /\ s \in [1 .. Len(s) -> S]
    OBVIOUS
  <1>2. s \in [1 .. Len(s) -> T]
    BY <1>1
  <1> QED
    BY <1>1, <1>2

ServerInv == TypeOK /\ ActiveExact

\* Only the steps of the main thread touch the model.
LEMMA ModelNext ==
    ASSUME ModelOK, Reload \/ Assign \/ ReloadFails \/ Interrupt \/ Grace
    PROVE  ModelOK'
  <1> DEFINE Frames(n) == [load : 1 .. n, assigned : 0 .. Len(LoadOrder) - 1]
  <1>1. Len(LoadOrder) = 6 /\ MaxReloads \in Nat
    BY ServerAssumption DEF LoadOrder
  <1>2. CASE Reload
    <2>1. reloads' = reloads + 1 /\ reloads' \in 1 .. MaxReloads /\ loaded' \in 0 .. reloads'
      BY <1>1, <1>2 DEF Reload, ModelOK
    <2>2. [load |-> reloads + 1, assigned |-> 0] \in Frames(reloads')
      BY <1>1, <2>1
    <2>3. reloading \in Seq(Frames(reloads'))
      <3>1. Frames(reloads) \subseteq Frames(reloads')
        BY <1>1, <2>1 DEF ModelOK
      <3> QED
        BY <3>1, SeqMonotone DEF ModelOK
    <2>4. reloading' \in Seq(Frames(reloads'))
      BY <1>2, <2>2, <2>3 DEF Reload
    <2> QED
      BY <1>2, <2>1, <2>4 DEF Reload, ModelOK
  <1>3. CASE Assign
    <2> DEFINE inner == Head(reloading)
               n     == inner.assigned + 1
    <2>1. inner \in Frames(reloads) /\ reloading \in Seq(Frames(reloads)) /\ Len(reloading) \in Nat \ {0}
      <3>1. reloading \in Seq(Frames(reloads)) /\ reloading # << >>
        BY <1>3 DEF Assign, ModelOK
      <3> HIDE DEF Frames
      <3> QED
        BY <3>1
    <2>2. /\ n \in 1 .. 6 /\ inner.load \in 0 .. MaxReloads /\ inner.load \in 0 .. reloads
          /\ inner.assigned \in 0 .. 5
      BY <1>1, <2>1 DEF ModelOK
    <2>3. artifact' \in [Attributes -> 0 .. MaxReloads]
      <3>1. artifact' = [artifact EXCEPT ![LoadOrder[n]] = inner.load]
        BY <1>3 DEF Assign
      <3> HIDE DEF inner, n
      <3> QED
        BY <2>2, <3>1 DEF ModelOK
    <2>4. reloading' \in Seq(Frames(reloads)) /\ loaded' \in 0 .. reloads
      <3>1. CASE n = Len(LoadOrder)
        <4>1. reloading' = Tail(reloading) /\ loaded' \in {loaded, inner.load}
          BY <1>3, <3>1 DEF Assign
        <4> QED
          BY <2>1, <2>2, <4>1 DEF ModelOK
      <3>2. CASE n # Len(LoadOrder)
        <4>1. reloading' = [reloading EXCEPT ![1].assigned = n] /\ loaded' = loaded
          BY <1>3, <3>2 DEF Assign
        <4>2. reloading[1] = inner /\ 1 \in DOMAIN reloading
          BY <2>1
        <4>3. [inner EXCEPT !.assigned = n] \in Frames(reloads)
          BY <1>1, <2>1, <2>2, <3>2
        <4>4. reloading' = [reloading EXCEPT ![1] = [inner EXCEPT !.assigned = n]]
          BY <4>1, <4>2
        <4> HIDE DEF inner, n
        <4> QED
          BY <2>1, <4>1, <4>2, <4>3, <4>4 DEF ModelOK
      <3> QED
        BY <3>1, <3>2
    <2>5. process' = process /\ reloads' = reloads
      BY <1>3 DEF Assign
    <2> HIDE DEF inner, n
    <2> QED
      BY <2>3, <2>4, <2>5 DEF ModelOK
  <1>4. CASE ReloadFails \/ Interrupt
    <2>1. /\ process' \in {"stopping", "crashed"} /\ reloading' = << >>
          /\ UNCHANGED <<artifact, reloads, loaded>>
      BY <1>4 DEF ReloadFails, Interrupt, Leave
    <2> QED
      BY <2>1 DEF ModelOK
  <1>5. CASE Grace
    BY <1>5 DEF Grace, ModelOK
  <1> QED
    BY <1>2, <1>3, <1>4, <1>5

-----------------------------------------------------------------------------
(* the three parts are inductive                                           *)

LEMMA InitInv == Init => ServerInv
  <1> SUFFICES ASSUME Init PROVE ServerInv
    OBVIOUS
  <1>1. \A r \in Requests : pc[r] = "new"
    BY DEF Init
  <1>2. Running = {} /\ Gauged = {}
    BY <1>1 DEF Running, Gauged, Predicting, Requests
  <1>3. Cardinality(Running) = 0 /\ Cardinality(Gauged) = 0
    BY <1>2, FS_EmptySet
  <1>4. PoolOK
    BY <1>3, ServerAssumption DEF Init, PoolOK, InQueue, QueuedOnce, Stages
  <1>5. CallsOK
    BY ServerAssumption DEF Init, CallsOK
  <1>6. ModelOK
    BY ServerAssumption DEF Init, ModelOK, AllFrom
  <1> QED
    BY <1>3, <1>4, <1>5, <1>6, TypeParts DEF ServerInv, ActiveExact, Gauged, Init

\* A step that is not one of a call leaves the pool alone.
LEMMA PoolNext ==
    ASSUME PoolOK, Next
    PROVE  PoolOK'
  <1>1. ASSUME NEW r \in Requests, Call(r) PROVE PoolOK'
    BY <1>1, CallInPool
  <1>2. ASSUME UNCHANGED <<pc, queue>> PROVE PoolOK'
    BY <1>2 DEF PoolOK, Running
  <1>3. ASSUME NEW r \in Streams, SendItem(r) \/ HalfClose(r) \/ Cancel(r) PROVE PoolOK'
    BY <1>2, <1>3 DEF SendItem, HalfClose, Cancel
  <1>4. ASSUME NEW r \in Requests, Start(r) PROVE PoolOK'
    BY <1>4, StartInPool
  <1>5. ASSUME NEW r \in Requests, ReadType(r) \/ Scale(r) \/ Score(r) PROVE PoolOK'
    <2>1. /\ queue' = queue
          /\ Goto(r, "type", "scale") \/ Goto(r, "scale", "score") \/ Goto(r, "score", "count")
      BY <1>5 DEF ReadType, Scale, Score, Reads
    <2> QED
      BY <2>1, StepInPool DEF Active, Stages
  <1>6. ASSUME NEW r \in Requests, Count(r) \/ Judge(r) \/ Version(r) PROVE PoolOK'
    <2>1. /\ queue' = queue
          /\ \/ Goto(r, "count", "judge") \/ Goto(r, "judge", "version")
             \/ Goto(r, "version", "answer")
      BY <1>6 DEF Count, Judge, Version, Reads
    <2> QED
      BY <2>1, StepInPool DEF Active, Stages
  <1>7. ASSUME NEW r \in Requests, NextOfBatch(r) \/ Answer(r) \/ Raise(r) PROVE PoolOK'
    <2>1. /\ queue' = queue
          /\ \/ Goto(r, "answer", "type") \/ Goto(r, "answer", "next")
             \/ Goto(r, "answer", "done") \/ Goto(r, "score", "next")
             \/ Goto(r, "score", "done")
      BY <1>7 DEF NextOfBatch, Answer, Raise
    <2> QED
      BY <2>1, StepInPool DEF Active, Stages
  <1>8. ASSUME NEW r \in Streams, Stream(r) PROVE PoolOK'
    <2>1. queue' = queue /\ (Goto(r, "next", "type") \/ Goto(r, "next", "done"))
      BY <1>8 DEF Stream, NextItem, EndOfStream
    <2> QED
      BY <2>1, StepInPool DEF Active, Stages, Requests
  <1>9. ASSUME Reload \/ Assign \/ ReloadFails \/ Interrupt \/ Grace PROVE PoolOK'
    BY <1>2, <1>9 DEF Reload, Assign, ReloadFails, Interrupt, Leave, Grace
  <1> QED
    BY <1>1, <1>3, <1>4, <1>5, <1>6, <1>7, <1>8, <1>9 DEF Next, Client, Handler

LEMMA CallsNext ==
    ASSUME CallsOK, ModelOK, Next
    PROVE  CallsOK'
  <1> USE DEF CallsOK
  <1>1. loaded \in 0 .. MaxReloads /\ 0 \in 0 .. MaxReloads
    BY ServerAssumption DEF ModelOK
  <1>2. ASSUME NEW r \in Requests, Call(r) PROVE CallsOK'
    BY <1>2 DEF Call, clients
  <1>3. ASSUME NEW r \in Streams, SendItem(r) PROVE CallsOK'
    <2>1. sent' = [sent EXCEPT ![r] = @ + 1] /\ sent[r] < Items[r] /\ Items[r] \in Nat
      BY <1>3, ServerAssumption DEF SendItem
    <2>2. sent' \in [Streams -> Nat]
      BY <2>1
    <2>3. \A x \in Streams : sent'[x] =< Items[x] /\ taken[x] =< sent'[x]
      BY <2>1
    <2> QED
      BY <1>3, <2>2, <2>3 DEF SendItem
  <1>4. ASSUME NEW r \in Streams, HalfClose(r) \/ Cancel(r) PROVE CallsOK'
    BY <1>4 DEF HalfClose, Cancel
  <1>5. ASSUME NEW r \in Requests, Start(r) PROVE CallsOK'
    BY <1>1, <1>5 DEF Start, Begin, clients
  <1>6. ASSUME NEW r \in Requests, ReadType(r) \/ Scale(r) \/ Score(r) \/ Judge(r) \/ Version(r)
        PROVE  CallsOK'
    BY <1>6 DEF ReadType, Scale, Score, Judge, Version, Reads, clients
  <1>7. ASSUME NEW r \in Requests, Count(r) PROVE CallsOK'
    BY <1>7 DEF Count, clients
  <1>8. ASSUME NEW r \in Requests, NextOfBatch(r) PROVE CallsOK'
    BY <1>1, <1>8 DEF NextOfBatch, Begin, clients
  <1>9. ASSUME NEW r \in Requests, Answer(r) PROVE CallsOK'
    <2>1. results' \in [Requests -> Nat] /\ since' \in [Requests -> 0 .. MaxReloads]
          /\ stale' \subseteq Requests
      BY <1>1, <1>9 DEF Answer, End
    <2>2. answers' \in [Requests -> Nat]
      <3>1. r \in Batches => Items[r] \in Nat
        BY ServerAssumption
      <3> QED
        BY <1>9, <3>1 DEF Answer
    <2> QED
      BY <1>9, <2>1, <2>2 DEF Answer, clients
  <1>10. ASSUME NEW r \in Requests, Raise(r) PROVE CallsOK'
    BY <1>1, <1>10 DEF Raise, End, clients
  <1>11. ASSUME NEW r \in Streams, NextItem(r) PROVE CallsOK'
    <2>1. taken' = [taken EXCEPT ![r] = @ + 1] /\ taken[r] < sent[r] /\ sent' = sent
      BY <1>11 DEF NextItem, clients
    <2>2. taken' \in [Streams -> Nat] /\ \A x \in Streams : taken'[x] =< sent'[x]
      BY <2>1
    <2>3. since' \in [Requests -> 0 .. MaxReloads] /\ stale' \subseteq Requests
      BY <1>1, <1>11 DEF NextItem, Begin
    <2> QED
      BY <1>11, <2>2, <2>3 DEF NextItem, clients
  <1>12. ASSUME NEW r \in Streams, EndOfStream(r) PROVE CallsOK'
    BY <1>12 DEF EndOfStream, clients
  <1>13. ASSUME Reload \/ Assign \/ ReloadFails \/ Interrupt PROVE CallsOK'
    BY <1>13 DEF Reload, Assign, ReloadFails, Interrupt, Leave, clients
  <1>14. ASSUME Grace PROVE CallsOK'
    BY <1>14 DEF Grace
  <1> QED
    BY <1>2, <1>3, <1>4, <1>5, <1>6, <1>7, <1>8, <1>9, <1>10, <1>11, <1>12, <1>13, <1>14
    DEF Next, Client, Handler, Stream

LEMMA GaugeNext ==
    ASSUME ServerInv, Next
    PROVE  ActiveExact' /\ active' \in Nat
  <1>1. /\ PoolOK /\ ActiveExact /\ active \in Nat /\ pc \in [Requests -> Stages]
        /\ Predicts \cup Streams \subseteq Requests /\ Batches \cap (Predicts \cup Streams) = {}
    BY TypeParts, ServerAssumption DEF ServerInv, PoolOK, Requests
  <1>2. ASSUME UNCHANGED <<pc, active>> PROVE ActiveExact' /\ active' \in Nat
    BY <1>1, <1>2, GaugeSame DEF Predicting
  \* from one stage in which it does not predict to another, or within a prediction
  <1>3. ASSUME NEW r \in Requests, NEW from \in Stages, NEW to \in Stages, Goto(r, from, to),
               \/ r \in Batches
               \/ from \in {"new", "queued", "next", "done"} <=> to \in {"new", "queued", "next", "done"},
               active' = active
        PROVE  ActiveExact' /\ active' \in Nat
    <2>1. pc'[r] = to /\ pc[r] = from /\ \A x \in Requests : x # r => pc'[x] = pc[x]
      BY <1>1, <1>3 DEF Goto
    <2>2. \A x \in Predicts \cup Streams : Predicting(x)' <=> Predicting(x)
      BY <1>1, <1>3, <2>1 DEF Predicting
    <2> QED
      BY <1>1, <1>3, <2>2, GaugeSame
  <1>4. ASSUME NEW r \in Predicts \cup Streams, NEW from \in {"queued", "next"},
               Goto(r, from, "type"), active' = active + 1
        PROVE  ActiveExact' /\ active' \in Nat
    <2>1. pc'[r] = "type" /\ pc[r] = from /\ \A x \in Requests : x # r => pc'[x] = pc[x]
      BY <1>1, <1>4 DEF Goto
    <2>2. ~ Predicting(r) /\ Predicting(r)'
      BY <2>1 DEF Predicting, Stages
    <2> QED
      BY <1>1, <1>4, <2>1, <2>2, GaugeUp
  <1>5. ASSUME NEW r \in Predicts \cup Streams, NEW from \in {"score", "answer"},
               NEW to \in {"next", "done"}, Goto(r, from, to), active' = active - 1
        PROVE  ActiveExact' /\ active' \in Nat
    <2>1. pc'[r] = to /\ pc[r] = from /\ \A x \in Requests : x # r => pc'[x] = pc[x]
      BY <1>1, <1>5 DEF Goto
    <2>2. Predicting(r) /\ ~ Predicting(r)'
      BY <2>1 DEF Predicting, Stages
    <2> QED
      BY <1>1, <1>5, <2>1, <2>2, GaugeDown
  <1>6. ASSUME NEW r \in Requests, Call(r) PROVE ActiveExact' /\ active' \in Nat
    BY <1>3, <1>6 DEF Call, Stages
  <1>7. ASSUME NEW r \in Streams, SendItem(r) \/ HalfClose(r) \/ Cancel(r)
        PROVE  ActiveExact' /\ active' \in Nat
    BY <1>2, <1>7 DEF SendItem, HalfClose, Cancel
  <1>8. ASSUME NEW r \in Requests, Start(r) PROVE ActiveExact' /\ active' \in Nat
    <2>1. CASE r \in Streams /\ Goto(r, "queued", "next") /\ active' = active
      BY <1>3, <2>1 DEF Stages
    <2>2. CASE r \in Predicts /\ Goto(r, "queued", "type") /\ active' = active + 1
      BY <1>4, <2>2
    <2>3. CASE r \in Batches /\ Goto(r, "queued", "type") /\ active' = active
      BY <1>3, <2>3 DEF Stages
    <2> QED
      BY <1>8, <2>1, <2>2, <2>3 DEF Start
  <1>9. ASSUME NEW r \in Requests, ReadType(r) \/ Scale(r) \/ Score(r)
        PROVE  ActiveExact' /\ active' \in Nat
    <2>1. /\ active' = active
          /\ Goto(r, "type", "scale") \/ Goto(r, "scale", "score") \/ Goto(r, "score", "count")
      BY <1>9 DEF ReadType, Scale, Score, Reads
    <2> QED
      BY <1>3, <2>1 DEF Stages
  <1>10. ASSUME NEW r \in Requests, Count(r) \/ Judge(r) \/ Version(r)
         PROVE  ActiveExact' /\ active' \in Nat
    <2>1. /\ active' = active
          /\ \/ Goto(r, "count", "judge") \/ Goto(r, "judge", "version")
             \/ Goto(r, "version", "answer")
      BY <1>10 DEF Count, Judge, Version, Reads
    <2> QED
      BY <1>3, <2>1 DEF Stages
  <1>11. ASSUME NEW r \in Requests, NextOfBatch(r) PROVE ActiveExact' /\ active' \in Nat
    BY <1>3, <1>11 DEF NextOfBatch, Stages
  <1>12. ASSUME NEW r \in Requests, Answer(r) \/ Raise(r) PROVE ActiveExact' /\ active' \in Nat
    <2>1. PICK from \in {"score", "answer"}, to \in {"next", "done"} :
                 Goto(r, from, to) /\ Release(r)
      BY <1>12 DEF Answer, Raise
    <2>2. CASE r \in Batches
      BY <1>3, <2>1, <2>2 DEF Release, Stages
    <2>3. CASE r \notin Batches
      BY <1>5, <2>1, <2>3 DEF Release, Requests
    <2> QED
      BY <2>2, <2>3
  <1>13. ASSUME NEW r \in Streams, NextItem(r) PROVE ActiveExact' /\ active' \in Nat
    BY <1>4, <1>13 DEF NextItem
  <1>14. ASSUME NEW r \in Streams, EndOfStream(r) PROVE ActiveExact' /\ active' \in Nat
    BY <1>1, <1>3, <1>14 DEF EndOfStream, Stages
  <1>15. ASSUME Reload \/ Assign \/ ReloadFails \/ Interrupt \/ Grace
         PROVE  ActiveExact' /\ active' \in Nat
    BY <1>2, <1>15 DEF Reload, Assign, ReloadFails, Interrupt, Leave, Grace
  <1> QED
    BY <1>6, <1>7, <1>8, <1>9, <1>10, <1>11, <1>12, <1>13, <1>14, <1>15
    DEF Next, Client, Handler, Stream

LEMMA ModelKept ==
    ASSUME Next, ~ (Reload \/ Assign \/ ReloadFails \/ Interrupt \/ Grace)
    PROVE  UNCHANGED model
  <1>1. ASSUME NEW r \in Requests, Call(r) \/ Handler(r) PROVE UNCHANGED model
    BY <1>1 DEF Call, Handler, Start, Scale, ReadType, Score, Count, Judge, Version,
                NextOfBatch, Answer, Raise, Reads, model
  <1>2. ASSUME NEW r \in Streams, SendItem(r) \/ HalfClose(r) \/ Cancel(r) \/ Stream(r)
        PROVE  UNCHANGED model
    BY <1>2 DEF SendItem, HalfClose, Cancel, Stream, NextItem, EndOfStream, model
  <1> QED
    BY <1>1, <1>2 DEF Next, Client

LEMMA NextInv == ServerInv /\ [Next]_vars => ServerInv'
  <1> SUFFICES ASSUME ServerInv, [Next]_vars PROVE ServerInv'
    OBVIOUS
  <1>1. PoolOK /\ CallsOK /\ ModelOK /\ active \in Nat
    BY TypeParts DEF ServerInv
  <1>2. CASE Next
    <2>1. ModelOK'
      BY <1>1, <1>2, ModelNext, ModelKept DEF model, ModelOK
    <2>2. PoolOK' /\ CallsOK' /\ ActiveExact' /\ active' \in Nat
      BY <1>1, <1>2, PoolNext, CallsNext, GaugeNext
    <2> QED
      BY <2>1, <2>2 DEF ServerInv, TypeOK, PoolOK, CallsOK, ModelOK, InQueue, QueuedOnce
  <1>3. CASE UNCHANGED vars
    BY <1>3 DEF vars, clients, model, ServerInv, TypeOK, ActiveExact, Running, Predicting
  <1> QED
    BY <1>2, <1>3

\* Every reachable state has the declared shapes: in particular a call is
\* queued at most once and exactly while it waits, and no more handlers run
\* than the pool has workers, whatever the clients cancel and main ends with.
THEOREM TypeCorrect == Spec => []TypeOK
  <1>1. ServerInv => TypeOK
    BY DEF ServerInv
  <1> QED
    BY <1>1, InitInv, NextInv, PTL DEF Spec

\* The gauge of active requests is the number of predictions in progress, on
\* every path out of predict_single: answered, raised, or cancelled.
THEOREM ActiveCorrect == Spec => []ActiveExact
  <1>1. ServerInv => ActiveExact
    BY DEF ServerInv
  <1> QED
    BY <1>1, InitInv, NextInv, PTL DEF Spec

-----------------------------------------------------------------------------
(* the counter of predictions                                              *)

ServedInv == ServedExact /\ IsFiniteSet(Predictions)

\* A prediction is counted when it has been made.
LEMMA ServedUp ==
    ASSUME PoolOK, ServedInv, results \in [Requests -> Nat], NEW r \in Requests,
           Counted(r)' = Counted(r) + 1,
           \A x \in Requests : x # r => Counted(x)' = Counted(x),
           served' = served + 1, UNCHANGED <<results, answers>>
    PROVE  ServedInv'
  <1> DEFINE n == Counted(r) + 1
  <1>1. \A x \in Requests : Counted(x) \in Nat
    BY DEF Counted
  <1>2. <<r, n>> \notin Predictions
    BY <1>1 DEF Predictions
  <1>3. Predictions' = Predictions \cup {<<r, n>>}
    <2>1. \A x \in Requests :
            {x} \X (1 .. Counted(x)') =
              ({x} \X (1 .. Counted(x))) \cup (IF x = r THEN {<<r, n>>} ELSE {})
      <3> TAKE x \in Requests
      <3> HIDE DEF n
      <3>1. CASE x = r
        <4>1. 1 .. n = (1 .. Counted(r)) \cup {n}
          BY <1>1 DEF n
        <4>2. Counted(x)' = n
          BY <3>1 DEF n
        <4> QED
          BY <3>1, <4>1, <4>2
      <3>2. CASE x # r
        BY <3>2
      <3> QED
        BY <3>1, <3>2
    <2> QED
      BY <2>1 DEF Predictions
  <1>4. IsFiniteSet(Predictions') /\ Cardinality(Predictions') = Cardinality(Predictions) + 1
    BY <1>2, <1>3, FS_AddElement DEF ServedInv
  <1> QED
    BY <1>4 DEF ServedInv, ServedExact

\* Nothing is counted: what was counted becomes a result, or stays.
LEMMA ServedSame ==
    ASSUME ServedInv, served' = served,
           \A x \in Requests : Counted(x)' = Counted(x) /\ answers'[x] =< results'[x]
    PROVE  ServedInv'
  <1>1. Predictions' = Predictions
    BY DEF Predictions
  <1> QED
    BY <1>1 DEF ServedInv, ServedExact

LEMMA ServedNext ==
    ASSUME ServerInv, ServedInv, [Next]_vars
    PROVE  ServedInv'
  <1>1. /\ PoolOK /\ pc \in [Requests -> Stages] /\ served \in Nat
        /\ results \in [Requests -> Nat] /\ answers \in [Requests -> Nat]
        /\ \A x \in Requests : answers[x] =< results[x]
    BY TypeParts DEF ServerInv, PoolOK, CallsOK, ServedInv, ServedExact
  <1>2. /\ Predicts \subseteq Requests /\ Batches \subseteq Requests /\ Streams \subseteq Requests
        /\ Items \in [Batches \cup Streams -> Nat \ {0}] /\ Batches \cap Streams = {}
    BY ServerAssumption DEF Requests
  \* between two stages on the same side of the counter
  <1>3. ASSUME NEW r \in Requests, NEW from \in Stages, NEW to \in Stages, Goto(r, from, to),
               from \in {"judge", "version", "answer"} <=> to \in {"judge", "version", "answer"},
               UNCHANGED <<served, results, answers>>
        PROVE  ServedInv'
    <2>1. \A x \in Requests : Counted(x)' = Counted(x)
      BY <1>1, <1>3 DEF Goto, Counted
    <2> QED
      BY <1>1, <1>3, <2>1, ServedSame
  <1>4. ASSUME UNCHANGED <<pc, served, results, answers>> PROVE ServedInv'
    <2>1. \A x \in Requests : Counted(x)' = Counted(x)
      BY <1>4 DEF Counted
    <2> QED
      BY <1>1, <1>4, <2>1, ServedSame
  <1>5. ASSUME NEW r \in Requests, Count(r) PROVE ServedInv'
    <2>1. pc' = [pc EXCEPT ![r] = "judge"] /\ pc[r] = "count" /\ UNCHANGED <<results, answers>>
          /\ served' = served + 1
      BY <1>5 DEF Count, Goto
    <2>2. Counted(r)' = Counted(r) + 1 /\ \A x \in Requests : x # r => Counted(x)' = Counted(x)
      BY <1>1, <2>1 DEF Counted
    <2> QED
      BY <1>1, <2>1, <2>2, ServedUp
  \* out of a prediction that succeeded
  <1>6. ASSUME NEW r \in Requests, NEW to \in {"type", "next", "done"}, Goto(r, "answer", to),
               results' = [results EXCEPT ![r] = @ + 1], served' = served,
               answers' \in [Requests -> Nat], answers'[r] =< results[r] + 1,
               \A x \in Requests : x # r => answers'[x] = answers[x]
        PROVE  ServedInv'
    <2>1. pc[r] = "answer" /\ pc' = [pc EXCEPT ![r] = to]
      BY <1>6 DEF Goto
    <2>2. \A x \in Requests : Counted(x)' = Counted(x)
      BY <1>1, <1>6, <2>1 DEF Counted
    <2>3. \A x \in Requests : answers'[x] =< results'[x]
      BY <1>1, <1>6
    <2> QED
      BY <1>6, <2>2, <2>3, ServedSame
  <1>7. ASSUME NEW r \in Requests, Call(r) PROVE ServedInv'
    BY <1>3, <1>7 DEF Call, Stages
  <1>8. ASSUME NEW r \in Streams, SendItem(r) \/ HalfClose(r) \/ Cancel(r) PROVE ServedInv'
    BY <1>4, <1>8 DEF SendItem, HalfClose, Cancel
  <1>9. ASSUME NEW r \in Requests, Start(r) PROVE ServedInv'
    <2>1. /\ UNCHANGED <<served, results, answers>>
          /\ Goto(r, "queued", "next") \/ Goto(r, "queued", "type")
      BY <1>9 DEF Start
    <2> QED
      BY <1>3, <2>1 DEF Stages
  <1>10. ASSUME NEW r \in Requests,
                ReadType(r) \/ Scale(r) \/ Score(r) \/ Judge(r) \/ Version(r)
         PROVE  ServedInv'
    <2>1. /\ UNCHANGED <<served, results, answers>>
          /\ \/ Goto(r, "type", "scale") \/ Goto(r, "scale", "score")
             \/ Goto(r, "score", "count") \/ Goto(r, "judge", "version")
             \/ Goto(r, "version", "answer")
      BY <1>10 DEF ReadType, Scale, Score, Judge, Version, Reads
    <2> QED
      BY <1>3, <2>1 DEF Stages
  <1>11. ASSUME NEW r \in Requests, NextOfBatch(r) PROVE ServedInv'
    <2>1. answers' = answers /\ answers'[r] =< results[r] + 1
      BY <1>1, <1>11 DEF NextOfBatch
    <2> QED
      BY <1>1, <1>6, <1>11, <2>1 DEF NextOfBatch
  <1>12. ASSUME NEW r \in Requests, Answer(r) PROVE ServedInv'
    <2> DEFINE n == IF r \in gone THEN answers[r]
                    ELSE IF r \in Batches THEN Items[r] ELSE answers[r] + 1
    <2>1. answers' = [answers EXCEPT ![r] = n]
      BY <1>12 DEF Answer
    <2>2. n \in Nat /\ n =< results[r] + 1
      BY <1>1, <1>2, <1>12 DEF Answer
    <2> HIDE DEF n
    <2>3. /\ answers' \in [Requests -> Nat] /\ answers'[r] =< results[r] + 1
          /\ \A x \in Requests : x # r => answers'[x] = answers[x]
      BY <1>1, <2>1, <2>2
    <2>4. /\ Goto(r, "answer", "next") \/ Goto(r, "answer", "done")
          /\ results' = [results EXCEPT ![r] = @ + 1] /\ served' = served
      BY <1>12 DEF Answer
    <2> QED
      BY <1>6, <2>3, <2>4
  <1>13. ASSUME NEW r \in Requests, Raise(r) PROVE ServedInv'
    <2>1. /\ UNCHANGED <<served, results, answers>>
          /\ Goto(r, "score", "next") \/ Goto(r, "score", "done")
      BY <1>13 DEF Raise
    <2> QED
      BY <1>3, <2>1 DEF Stages
  <1>14. ASSUME NEW r \in Streams, Stream(r) PROVE ServedInv'
    <2>1. /\ UNCHANGED <<served, results, answers>>
          /\ Goto(r, "next", "type") \/ Goto(r, "next", "done")
      BY <1>14 DEF Stream, NextItem, EndOfStream
    <2> QED
      BY <1>2, <1>3, <2>1 DEF Stages
  <1>15. ASSUME Reload \/ Assign \/ ReloadFails \/ Interrupt \/ Grace PROVE ServedInv'
    BY <1>4, <1>15 DEF Reload, Assign, ReloadFails, Interrupt, Leave, Grace
  <1>16. ASSUME UNCHANGED vars PROVE ServedInv'
    BY <1>4, <1>16 DEF vars
  <1> QED
    BY <1>5, <1>7, <1>8, <1>9, <1>10, <1>11, <1>12, <1>13, <1>14, <1>15, <1>16
    DEF Next, Client, Handler

\* Nothing is served in the beginning.
LEMMA ServedInit == Init => ServedInv
  <1> SUFFICES ASSUME Init PROVE ServedInv
    OBVIOUS
  <1>1. Predictions = {}
    BY DEF Init, Predictions, Counted
  <1> QED
    BY <1>1, FS_EmptySet DEF Init, ServedInv, ServedExact

\* _request_count counts every prediction that was made and nothing else: no
\* prediction that raised, and each of a batch that is lost to a later error,
\* however calls, cancellations, reloads and the end of main interleave.
THEOREM ServedCorrect == Spec => []ServedExact
  <1>1. ServedInv => ServedExact
    BY DEF ServedInv
  <1> QED
    BY <1>1, InitInv, NextInv, ServedInit, ServedNext, PTL DEF Spec

-----------------------------------------------------------------------------
(* reloads, one at a time                                                  *)

\* The first k attributes are the newest pickle's, the others those of the
\* newest load that has returned.
Split(k) == \A i \in 1 .. 6 : artifact[LoadOrder[i]] = IF i =< k THEN reloads ELSE loaded

\* Attributes are replaced in the order of _load, and by one load newer: an
\* attribute is never older than the newest load that has returned, and where
\* the new ones end is where a reload in progress is, or one that raised was.
ReloadInv ==
    /\ stale = {}
    /\ \A r \in Requests : since[r] =< loaded
    /\ loaded =< reloads /\ reloads =< loaded + 1
    /\ \E k \in 0 .. 6 : Split(k)
    /\ process = "up" /\ reloading = << >> => loaded = reloads
    /\ reloading # << >> =>
        /\ process = "up" /\ Len(reloading) = 1
        /\ reloads = loaded + 1 /\ Head(reloading).load = reloads
        /\ Split(Head(reloading).assigned)

LEMMA Orders == /\ Len(LoadOrder) = 6 /\ DOMAIN LoadOrder = 1 .. 6
                /\ Attributes = {LoadOrder[i] : i \in 1 .. 6}
                /\ \A i, j \in 1 .. 6 : LoadOrder[i] = LoadOrder[j] => i = j
  BY DEF LoadOrder, Attributes

\* No attribute is older than the newest load that has returned.
LEMMA NotOlder ==
    ASSUME ModelOK, ReloadInv, NEW f \in Attributes
    PROVE  artifact[f] \in Nat /\ loaded \in Nat /\ artifact[f] >= loaded
  <1>1. artifact[f] \in Nat /\ loaded \in Nat /\ reloads \in Nat /\ loaded =< reloads
    BY ServerAssumption DEF ModelOK, ReloadInv
  <1>2. PICK i \in 1 .. 6 : f = LoadOrder[i]
    BY Orders
  <1>3. artifact[f] \in {reloads, loaded}
    BY <1>2 DEF ReloadInv, Split
  <1> QED
    BY <1>1, <1>3

\* What the reload invariant says of the predictions survives every step in
\* which loaded does not fall.
LEMMA ReadsFresh ==
    ASSUME TypeOK, ReloadInv, Next
    PROVE  stale' = {} /\ (\A r \in Requests : since'[r] =< loaded)
  <1>1. /\ ModelOK /\ since \in [Requests -> 0 .. MaxReloads] /\ MaxReloads \in Nat
        /\ stale = {} /\ (\A r \in Requests : since[r] =< loaded) /\ loaded \in Nat
    <2>1. ModelOK /\ CallsOK /\ MaxReloads \in Nat
      BY ServerAssumption, TypeParts
    <2>2. since \in [Requests -> 0 .. MaxReloads] /\ loaded \in Nat
      BY <2>1 DEF CallsOK, ModelOK
    <2> QED
      BY <2>1, <2>2 DEF ReloadInv
  <1>2. ASSUME NEW r \in Requests, NEW f \in Attributes, Reads(r, f)
        PROVE  stale' = {} /\ since' = since
    <2>1. artifact[f] \in Nat /\ artifact[f] >= loaded /\ since[r] \in Nat /\ since[r] =< loaded
      BY <1>1, NotOlder
    <2> QED
      BY <1>1, <1>2, <2>1 DEF Reads
  <1>3. {"model_type", "scaler", "model", "threshold", "version"} \subseteq Attributes
    <2>1. /\ LoadOrder[1] = "model" /\ LoadOrder[2] = "scaler" /\ LoadOrder[4] = "model_type"
          /\ LoadOrder[5] = "version" /\ LoadOrder[6] = "threshold"
      BY DEF LoadOrder
    <2> QED
      BY <2>1, Orders
  <1>4. ASSUME UNCHANGED <<since, stale>> PROVE stale' = {} /\ (\A r \in Requests : since'[r] =< loaded)
    BY <1>1, <1>4
  <1>5. ASSUME NEW r \in Requests, Begin(r) \/ End(r)
        PROVE  stale' = {} /\ (\A x \in Requests : since'[x] =< loaded)
    BY <1>1, <1>5 DEF Begin, End
  <1>6. ASSUME NEW r \in Requests,
               ReadType(r) \/ Scale(r) \/ Score(r) \/ Judge(r) \/ Version(r)
        PROVE  stale' = {} /\ since' = since
    BY <1>2, <1>3, <1>6 DEF ReadType, Scale, Score, Judge, Version
  <1>7. ASSUME NEW r \in Requests,
               Call(r) \/ Start(r) \/ Count(r) \/ NextOfBatch(r) \/ Answer(r) \/ Raise(r)
        PROVE  UNCHANGED <<since, stale>> \/ Begin(r) \/ End(r)
    BY <1>7 DEF Call, Start, Count, NextOfBatch, Answer, Raise
  <1>8. ASSUME NEW r \in Streams, SendItem(r) \/ HalfClose(r) \/ Cancel(r) \/ Stream(r)
        PROVE  UNCHANGED <<since, stale>> \/ Begin(r)
    BY <1>8 DEF SendItem, HalfClose, Cancel, Stream, NextItem, EndOfStream
  <1>9. ASSUME Reload \/ Assign \/ ReloadFails \/ Interrupt \/ Grace
        PROVE  UNCHANGED <<since, stale>>
    BY <1>9 DEF Reload, Assign, ReloadFails, Interrupt, Leave, Grace
  <1> QED
    BY <1>1, <1>4, <1>5, <1>6, <1>7, <1>8, <1>9 DEF Next, Client, Handler, Requests

\* What it says of the artifact survives the steps of the main thread.
LEMMA ReloadStep ==
    ASSUME ~ Nested, TypeOK, ReloadInv, NEW newSince, newSince \in [Requests -> Nat],
           \A r \in Requests : newSince[r] =< loaded,
           stale' = {}, since' = newSince,
           Reload \/ Assign \/ ReloadFails \/ Interrupt \/ Grace
    PROVE  ReloadInv'
  <1>1. /\ ModelOK /\ reloads \in Nat /\ loaded \in Nat /\ loaded =< reloads
        /\ reloads =< loaded + 1
    BY ServerAssumption, TypeParts DEF ModelOK, ReloadInv
  <1>2. PICK k \in 0 .. 6 : Split(k)
    BY DEF ReloadInv
  <1>3. CASE Reload
    <2>1. process = "up" /\ reloading = << >> /\ loaded = reloads
      BY <1>3 DEF Reload, ReloadInv
    <2>2. reloading' = <<[load |-> reloads + 1, assigned |-> 0]>> \o << >>
      BY <1>3, <2>1 DEF Reload
    <2>3. /\ reloading' # << >> /\ Len(reloading') = 1
          /\ Head(reloading') = [load |-> reloads + 1, assigned |-> 0]
      BY <2>2
    <2>4. reloads' = reloads + 1 /\ UNCHANGED <<process, artifact, loaded>>
      BY <1>3 DEF Reload
    <2>5. Split(0)'
      BY <1>1, <1>2, <2>1, <2>4 DEF Split
    <2>6. \E m \in 0 .. 6 : Split(m)'
      BY <2>5
    <2>7. Head(reloading').load = reloads' /\ Split(Head(reloading).assigned)'
      BY <2>3, <2>4, <2>5
    <2> QED
      BY <1>1, <2>1, <2>3, <2>4, <2>6, <2>7 DEF ReloadInv
  <1>4. CASE Assign
    <2> DEFINE inner == Head(reloading)
               n     == inner.assigned + 1
               F     == [load : 1 .. reloads, assigned : 0 .. 5]
    <2>1. /\ reloading # << >> /\ process = "up" /\ Len(reloading) = 1
          /\ reloads = loaded + 1 /\ inner.load = reloads /\ Split(inner.assigned)
      BY <1>4 DEF Assign, ReloadInv
    <2>2. reloading \in Seq(F)
      BY <1>1, Orders DEF ModelOK
    <2>3. inner \in F /\ reloading[1] = inner
      <3> HIDE DEF F
      <3> QED
        BY <2>1, <2>2
    <2>4. reloading = <<inner>>
      <3> HIDE DEF F
      <3> QED
        BY <2>1, <2>2, <2>3
    <2>5. n \in 1 .. 6 /\ inner.assigned \in 0 .. 5 /\ inner.assigned = n - 1
      BY <2>3
    <2>6. /\ UNCHANGED <<process, reloads>>
          /\ artifact' = [artifact EXCEPT ![LoadOrder[n]] = inner.load]
          /\ n = 6 => reloading' = Tail(reloading)
                      /\ loaded' = IF loaded < inner.load THEN inner.load ELSE loaded
          /\ n # 6 => reloading' = [reloading EXCEPT ![1].assigned = n] /\ loaded' = loaded
      BY <1>4, Orders DEF Assign
    <2> HIDE DEF inner, n, F
    <2>7. \A i \in 1 .. 6 : artifact'[LoadOrder[i]] = IF i =< n THEN reloads ELSE loaded
      <3>1. artifact \in [Attributes -> 0 .. MaxReloads] /\ \A i \in 1 .. 6 : LoadOrder[i] \in Attributes
        BY <1>1, Orders DEF ModelOK
      <3>2. \A i \in 1 .. 6 : i =< n <=> i =< inner.assigned \/ i = n
        BY <2>5
      <3>3. \A i \in 1 .. 6 : artifact[LoadOrder[i]] = IF i =< inner.assigned THEN reloads ELSE loaded
        BY <2>1 DEF Split
      <3> QED
        BY <2>1, <2>5, <2>6, <3>1, <3>2, <3>3, Orders
    <2>8. CASE n = 6
      <3>1. reloading' = << >> /\ loaded' = reloads
        BY <1>1, <2>1, <2>4, <2>6, <2>8
      <3>2. Split(6)'
        BY <2>6, <2>7, <2>8, <3>1 DEF Split
      <3>3. \E m \in 0 .. 6 : Split(m)'
        BY <3>2
      <3>4. \A r \in Requests : since'[r] =< loaded'
        BY <1>1, <2>1, <3>1
      <3> QED
        BY <1>1, <2>6, <3>1, <3>3, <3>4 DEF ReloadInv
    <2>9. CASE n # 6
      <3>1. reloading' = <<[inner EXCEPT !.assigned = n]>> /\ loaded' = loaded
        BY <2>4, <2>6, <2>9
      <3>2. /\ reloading' # << >> /\ Len(reloading') = 1
            /\ Head(reloading').load = reloads /\ Head(reloading').assigned = n
        BY <2>1, <2>3, <3>1 DEF F
      <3>3. PICK m \in 0 .. 6 : m = n
        BY <2>5
      <3>4. Split(m)'
        BY <2>6, <2>7, <3>1, <3>3 DEF Split
      <3>5. Head(reloading').assigned = m
        BY <3>2, <3>3
      <3>6. Split(Head(reloading).assigned)' /\ \E x \in 0 .. 6 : Split(x)'
        BY <3>4, <3>5 DEF Split
      <3> QED
        BY <1>1, <2>1, <2>6, <3>1, <3>2, <3>6 DEF ReloadInv
    <2> QED
      BY <2>8, <2>9
  <1>5. CASE ReloadFails \/ Interrupt \/ Grace
    <2>1. /\ process' # "up" /\ UNCHANGED <<artifact, reloads, loaded>>
          /\ reloading' = << >>
      <3>1. CASE ReloadFails \/ Interrupt
        BY <3>1 DEF ReloadFails, Interrupt, Leave
      <3>2. CASE Grace
        BY <3>2 DEF Grace, ReloadInv
      <3> QED
        BY <1>5, <3>1, <3>2
    <2>2. Split(k)'
      BY <1>2, <2>1 DEF Split
    <2> QED
      BY <1>1, <2>1, <2>2 DEF ReloadInv
  <1> QED
    BY <1>3, <1>4, <1>5

LEMMA ReloadNext == ~ Nested /\ TypeOK /\ ReloadInv /\ [Next]_vars => ReloadInv'
  <1> SUFFICES ASSUME ~ Nested, TypeOK, ReloadInv, [Next]_vars PROVE ReloadInv'
    OBVIOUS
  <1>1. CASE Next /\ (Reload \/ Assign \/ ReloadFails \/ Interrupt \/ Grace)
    <2>1. stale' = {} /\ (\A r \in Requests : since'[r] =< loaded)
      BY <1>1, ReadsFresh
    <2>2. since' \in [Requests -> Nat]
      BY <1>1, CallsNext, TypeParts, ServerAssumption DEF CallsOK
    <2> QED
      BY <1>1, <2>1, <2>2, ReloadStep
  <1>2. CASE Next /\ ~ (Reload \/ Assign \/ ReloadFails \/ Interrupt \/ Grace)
    <2>1. UNCHANGED model /\ stale' = {} /\ (\A r \in Requests : since'[r] =< loaded)
      BY <1>2, ReadsFresh, ModelKept
    <2> QED
      BY <2>1 DEF ReloadInv, Split, model
  <1>3. CASE UNCHANGED vars
    BY <1>3 DEF ReloadInv, Split, vars, model
  <1> QED
    BY <1>1, <1>2, <1>3

LEMMA ReloadInit == Init => ReloadInv
  <1> SUFFICES ASSUME Init PROVE ReloadInv
    OBVIOUS
  <1>1. \A r \in Requests : since[r] =< loaded
    BY DEF Init
  <1>2. Split(0)
    BY Orders DEF Init, AllFrom, Split
  <1> QED
    BY <1>1, <1>2 DEF Init, ReloadInv

\* When a SIGHUP never arrives while one is handled: a prediction that begins
\* after reload has returned reads no attribute of an older pickle, for any
\* number of calls, workers and reloads.
THEOREM ReloadCorrect == ~ Nested => (Spec => []ReloadTakesEffect)
  <1> SUFFICES ASSUME ~ Nested PROVE Spec => []ReloadTakesEffect
    OBVIOUS
  <1>1. TypeOK /\ ReloadInv /\ [Next]_vars => ReloadInv'
    BY ReloadNext
  <1>2. ReloadInv => ReloadTakesEffect
    BY DEF ReloadInv, ReloadTakesEffect
  <1> QED
    BY <1>1, <1>2, ReloadInit, TypeCorrect, PTL DEF Spec

\* What a split of the attributes between two successive pickles means.
LEMMA WholeOrSplit ==
    ASSUME TypeOK, ReloadInv
    PROVE  ArtifactWhole
  <1>1. /\ reloads \in Nat /\ loaded \in Nat /\ loaded =< reloads /\ reloads =< loaded + 1
        /\ artifact \in [Attributes -> 0 .. MaxReloads]
    BY ServerAssumption, TypeParts DEF ModelOK, ReloadInv
  <1>2. PICK k \in 0 .. 6 : Split(k)
    BY DEF ReloadInv
  <1>3. ASSUME process = "up", reloading = << >>
        PROVE  artifact = AllFrom(reloads)
    <2>1. loaded = reloads
      BY <1>3 DEF ReloadInv
    <2>2. \A f \in Attributes : artifact[f] = reloads
      BY <1>2, <2>1, Orders DEF Split
    <2> QED
      BY <1>1, <2>2 DEF AllFrom
  <1>4. ASSUME NEW i \in 1 .. 6, NEW j \in 1 .. 6, i < j
        PROVE  artifact[LoadOrder[i]] - artifact[LoadOrder[j]] \in 0 .. 1
    <2>1. /\ artifact[LoadOrder[i]] = IF i =< k THEN reloads ELSE loaded
          /\ artifact[LoadOrder[j]] = IF j =< k THEN reloads ELSE loaded
      BY <1>2 DEF Split
    <2>2. j =< k => i =< k
      BY <1>2, <1>4
    <2> QED
      BY <1>1, <2>1, <2>2
  <1> QED
    BY <1>3, <1>4, Orders DEF ArtifactWhole

\* And the attributes are those of the newest pickle between two reloads, and
\* of two successive ones, later-assigned attributes the older, within one and
\* after one that raised or was interrupted.
THEOREM ArtifactCorrect == ~ Nested => (Spec => []ArtifactWhole)
  <1> SUFFICES ASSUME ~ Nested PROVE Spec => []ArtifactWhole
    OBVIOUS
  <1>1. TypeOK /\ ReloadInv /\ [Next]_vars => ReloadInv'
    BY ReloadNext
  <1>2. TypeOK /\ ReloadInv => ArtifactWhole
    BY WholeOrSplit
  <1> QED
    BY <1>1, <1>2, ReloadInit, TypeCorrect, PTL DEF Spec
=============================================================================

----------------------- MODULE EntityRingBufferProofs -----------------------
(***************************************************************************)
(* Theorems about EntityRingBuffer for every capacity and every set of     *)
(* transactions: the ring stays well formed, it implements the bounded log *)
(* of EventLog, and when timestamps never go back the merchants of every   *)
(* window are those of its transactions.                                   *)
(***************************************************************************)
EXTENDS EntityRingBuffer, RingBufferProofs

\* The transactions of the machine are events of the ring operators.
LEMMA EventsAreEvents == Events \subseteq Event(Merchants, Places)
  BY EventAssumption DEF Events, Event

\* The ring always has the shape its reads rely on.
THEOREM TypeCorrect == Spec => []TypeOK
  <1>1. Init => TypeOK
    BY NewRingWellFormed, EventAssumption DEF Init, TypeOK
  <1>2. TypeOK /\ [Next]_ring => TypeOK'
    <2> SUFFICES ASSUME TypeOK, [Next]_ring PROVE TypeOK'
      OBVIOUS
    <2>1. ASSUME NEW ev \in Events, Push(ev) PROVE TypeOK'
      BY <2>1, EventsAreEvents, PushedWellFormed DEF Push, TypeOK
    <2>2. CASE UNCHANGED ring
      BY <2>2 DEF TypeOK
    <2> QED
      BY <2>1, <2>2 DEF Next
  <1> QED
    BY <1>1, <1>2, PTL DEF Spec

\* Slots and deque together behave as the bounded log of EventLog: a push of
\* the ring is a Record of the log it stands for.
THEOREM Refinement == Spec => ImplementsEventLog
  <1>1. Init => Abstract!Init
    BY DEF Init, Abstract!Init, NewRing, Log, LogOf
  <1>2. TypeOK /\ [Next]_ring => [Abstract!Next]_<<Log, ring.last>>
    <2> SUFFICES ASSUME TypeOK, [Next]_ring
                 PROVE  [Abstract!Next]_<<Log, ring.last>>
      OBVIOUS
    <2>1. ASSUME NEW ev \in Events, Push(ev) PROVE Abstract!Record(ev)
      <3>1. LogOf(ring') = Append(
              IF Len(LogOf(ring)) = Capacity THEN Tail(LogOf(ring)) ELSE LogOf(ring),
              [ts |-> ev.ts, amount |-> ev.amount, merchant |-> ev.merchant])
        BY <2>1, EventsAreEvents, PushedLog DEF Push, TypeOK
      <3>2. ring'.last = ev.place
        BY <2>1 DEF Push, Pushed
      <3>3. Log' = LogOf(ring')
        BY DEF Log, LogOf, View, SlotOf
      <3> QED
        BY <3>1, <3>2, <3>3 DEF Abstract!Record, Abstract!Remembered, Log
    <2>2. CASE UNCHANGED ring
      BY <2>2 DEF Log, LogOf, View, SlotOf
    <2> QED
      BY <2>1, <2>2 DEF Next, Abstract!Next
  <1> QED
    BY <1>1, <1>2, TypeCorrect, PTL DEF Spec, ImplementsEventLog, Abstract!Spec

-----------------------------------------------------------------------------
\* The inductive invariant behind the merchants of a window: timestamps that
\* arrive in order stay in order, also across the wrap-around.
IInv == TypeOK /\ Sorted(ring)

LEMMA InductiveInvariant ==
    ASSUME InOrder
    PROVE  Spec => []IInv
  <1>1. Init => IInv
    BY NewRingWellFormed, EventAssumption
    DEF Init, IInv, TypeOK, Sorted, NewRing
  <1>2. IInv /\ [Next]_ring => IInv'
    <2> SUFFICES ASSUME IInv, [Next]_ring PROVE IInv'
      OBVIOUS
    <2>1. ASSUME NEW ev \in Events, Push(ev) PROVE IInv'
      <3>1. WellFormed(ring, Merchants, Places) /\ ev \in Event(Merchants, Places)
        BY EventsAreEvents DEF IInv, TypeOK
      <3>2. \A i \in 1 .. ring.size : View(ring)[i].ts <= ev.ts
        BY <2>1 DEF Push, Latest
      <3>3. Sorted(ring') /\ WellFormed(ring', Merchants, Places)
        BY <2>1, <3>1, <3>2, PushedSorted, PushedWellFormed DEF Push, IInv
      <3> QED
        BY <3>3 DEF IInv, TypeOK, Sorted, View, SlotOf
    <2>2. CASE UNCHANGED ring
      BY <2>2 DEF IInv, TypeOK, Sorted, View, SlotOf
    <2> QED
      BY <2>1, <2>2 DEF Next
  <1> QED
    BY <1>1, <1>2, PTL DEF Spec

\* Callers whose timestamps never go back get, for every window, exactly the
\* merchants of the transactions in it, although the code takes them from
\* the end of the deque without looking at a timestamp.
THEOREM MerchantsCorrect ==
    ASSUME InOrder
    PROVE  Spec => []MerchantsMatchWindow
  <1>1. IInv => MerchantsMatchWindow
    <2> SUFFICES ASSUME IInv, NEW since \in Stamps
                 PROVE  UniqueMerchants(ring, since) =
                          {Log[i].merchant : i \in {j \in DOMAIN Log : Log[j].ts >= since}}
      BY DEF MerchantsMatchWindow
    <2> DEFINE K    == Kept(ring, since)
               n    == Cardinality(K)
               kept == KeptMerchants(ring, since)
    <2>1. /\ WellFormed(ring, Merchants, Places) /\ Sorted(ring)
          /\ since \in Nat /\ ring.size \in Nat
          /\ ring.merchants \in Seq(Merchants) /\ Len(ring.merchants) = ring.size
      BY EventAssumption, CapacityAssumption DEF IInv, TypeOK, WellFormed, Ring
    <2>2. n \in 0 .. ring.size /\ K = ring.size - n + 1 .. ring.size
      BY <2>1, KeptIsSuffix
    <2>3. kept = SubSeq(ring.merchants, ring.size - n + 1, ring.size)
      BY <2>1 DEF KeptMerchants
    <2>4. {j \in DOMAIN Log : Log[j].ts >= since} = K
      BY DEF Log, LogOf, Kept
    <2>5. \A i \in K : Log[i].merchant = ring.merchants[i]
      BY DEF Log, LogOf, Kept
    <2> DEFINE first == ring.size - n
    <2> HIDE DEF K, n, kept
    <2>6. first \in Nat /\ n \in Nat /\ ring.size = first + n
      BY <2>1, <2>2
    <2> HIDE DEF first
    <2>7. /\ DOMAIN kept = 1 .. n
          /\ \A j \in 1 .. n : kept[j] = ring.merchants[first + j]
      <3>1. kept = SubSeq(ring.merchants, first + 1, first + n)
        BY <2>1, <2>3, <2>6 DEF first
      <3> QED
        BY <2>1, <2>6, <3>1
    <2>8. K = first + 1 .. first + n
      BY <2>1, <2>2, <2>6 DEF first
    <2>9. {kept[j] : j \in DOMAIN kept} = {ring.merchants[i] : i \in K}
      <3>1. \A j \in 1 .. n : first + j \in K
        BY <2>6, <2>8
      <3>2. \A i \in K : \E j \in 1 .. n : i = first + j
        <4> SUFFICES ASSUME NEW i \in K PROVE \E j \in 1 .. n : i = first + j
          OBVIOUS
        <4>1. i - first \in 1 .. n /\ i = first + (i - first)
          BY <2>6, <2>8
        <4> QED
          BY <4>1
      <3> QED
        BY <2>7, <3>1, <3>2
    <2> QED
      BY <2>4, <2>5, <2>9 DEF UniqueMerchants, kept
  <1> QED
    BY <1>1, InductiveInvariant, PTL
=============================================================================

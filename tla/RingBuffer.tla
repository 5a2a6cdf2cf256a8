----------------------------- MODULE RingBuffer -----------------------------
(***************************************************************************)
(* The data structure behind EntityRingBuffer                              *)
(* (feature_store/rolling_engine.py): a fixed-size array of timestamps and *)
(* amounts written at a moving head, and beside it a bounded deque of      *)
(* merchants.  Constant-level operators on one ring value; the machines    *)
(* that hold rings are EntityRingBuffer and RollingFeatureEngine.          *)
(*                                                                         *)
(* Left out: the latitude and longitude arrays, which are written and      *)
(* never read (only the last location is), and the mean and the standard   *)
(* deviation, which are functions of the same window as the total.         *)
(***************************************************************************)
EXTENDS Integers, Sequences, FiniteSets, FiniteSetsExt

CONSTANTS Capacity,  \* number of slots (the constructor's capacity)
          Origin     \* the place (0.0, 0.0) a new buffer starts from

ASSUME CapacityAssumption == Capacity \in Nat \ {0}

\* What one transaction contributes; ts and amount are whole units.
Event(Merchant, Place) ==
    [ts : Nat, amount : Nat, merchant : Merchant, place : Place]

Slots == 0 .. Capacity - 1
Slot  == [ts : Nat, amount : Nat]

Ring(Merchant, Place) ==
    [head : Slots, size : 0 .. Capacity, slots : [Slots -> Slot],
     merchants : Seq(Merchant), last : Place]

\* A ring as the code relies on it: there are as many merchants as events,
\* and until the ring first fills the head is where the used slots end.
WellFormed(ring, Merchant, Place) ==
    /\ ring \in Ring(Merchant, Place)
    /\ Len(ring.merchants) = ring.size
    /\ ring.size < Capacity => ring.head = ring.size

NewRing ==
    [head      |-> 0,
     size      |-> 0,
     slots     |-> [s \in Slots |-> [ts |-> 0, amount |-> 0]],
     merchants |-> << >>,
     last      |-> Origin]

-----------------------------------------------------------------------------
\* Mutant of PushedMerchants: a deque without maxlen.
PushedMerchantsUnbounded(merchants, m) == Append(merchants, m)

\* deque(maxlen=capacity): the oldest merchant leaves when the deque is full.
PushedMerchants(merchants, m) ==
    Append(IF Len(merchants) = Capacity THEN Tail(merchants) ELSE merchants, m)

\* Mutant of Pushed: a size that wraps around like the head.
PushedSizeWraps(ring, ev) ==
    [head      |-> (ring.head + 1) % Capacity,
     size      |-> (ring.size + 1) % (Capacity + 1),
     slots     |-> [ring.slots EXCEPT
                      ![ring.head] = [ts |-> ev.ts, amount |-> ev.amount]],
     merchants |-> PushedMerchants(ring.merchants, ev.merchant),
     last      |-> ev.place]

Pushed(ring, ev) ==
    [head      |-> (ring.head + 1) % Capacity,
     size      |-> IF ring.size < Capacity THEN ring.size + 1 ELSE ring.size,
     slots     |-> [ring.slots EXCEPT
                      ![ring.head] = [ts |-> ev.ts, amount |-> ev.amount]],
     merchants |-> PushedMerchants(ring.merchants, ev.merchant),
     last      |-> ev.place]

-----------------------------------------------------------------------------
\* Mutant of SlotOf: the arrays read from slot 0 also when the ring is full.
SlotOfUnrotated(ring, i) == i - 1

\* The slot of the i-th oldest event: the array prefix while the ring fills,
\* then slots[tail:] followed by slots[:tail].
SlotOf(ring, i) ==
    IF ring.size < Capacity         THEN i - 1
    ELSE IF ring.head + i <= Capacity THEN ring.head + i - 1
    ELSE ring.head + i - 1 - Capacity

\* ts_view and amt_view: the events held, oldest first.
View(ring) == [i \in 1 .. ring.size |-> ring.slots[SlotOf(ring, i)]]

\* The transactions a ring stands for: the i-th oldest slot together with the
\* i-th merchant.
LogOf(ring) == [i \in 1 .. ring.size |->
                  [ts       |-> View(ring)[i].ts,
                   amount   |-> View(ring)[i].amount,
                   merchant |-> ring.merchants[i]]]

\* The boolean mask of _window_slice, as the set of positions it keeps.
Kept(ring, since) == {i \in 1 .. ring.size : View(ring)[i].ts >= since}

\* Mutant of KeptMerchants: merchant_list[:n_keep].
KeptMerchantsFirst(ring, since) ==
    SubSeq(ring.merchants, 1, Cardinality(Kept(ring, since)))

\* merchant_list[-n_keep:]: as many merchants as the mask keeps, taken from
\* the end of the deque, whichever positions the mask kept.
KeptMerchants(ring, since) ==
    LET n == Cardinality(Kept(ring, since))
    IN  SubSeq(ring.merchants, Len(ring.merchants) - n + 1, Len(ring.merchants))

\* unique_merchants: the distinct merchants of the slice.
UniqueMerchants(ring, since) ==
    {KeptMerchants(ring, since)[j] : j \in DOMAIN KeptMerchants(ring, since)}

\* amt_view[mask]: the amounts of the window, by position.
KeptAmounts(ring, since) == [i \in Kept(ring, since) |-> View(ring)[i].amount]

\* Mutant of WindowStats: minimum and maximum exchanged.
WindowStatsSwapped(ring, since) ==
    LET kept == Kept(ring, since)
    IN  [since |-> since,
         count |-> Cardinality(kept),
         total |-> SumFunction(KeptAmounts(ring, since)),
         min   |-> IF kept = {} THEN 0 ELSE Max(Range(KeptAmounts(ring, since))),
         max   |-> IF kept = {} THEN 0 ELSE Min(Range(KeptAmounts(ring, since)))]

\* window_stats: the fields stay 0 when the window is empty.
WindowStats(ring, since) ==
    LET kept == Kept(ring, since)
    IN  [since |-> since,
         count |-> Cardinality(kept),
         total |-> SumFunction(KeptAmounts(ring, since)),
         min   |-> IF kept = {} THEN 0 ELSE Min(Range(KeptAmounts(ring, since))),
         max   |-> IF kept = {} THEN 0 ELSE Max(Range(KeptAmounts(ring, since)))]
=============================================================================

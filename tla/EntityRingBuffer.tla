-------------------------- MODULE EntityRingBuffer --------------------------
(***************************************************************************)
(* One entity's buffer (EntityRingBuffer in                                *)
(* feature_store/rolling_engine.py).  push, window_stats,                  *)
(* unique_merchants and last_location all hold the buffer's lock, so push  *)
(* is one atomic action and the reads are state functions.                 *)
(*                                                                         *)
(* Timestamps are supplied by the caller: FeatureStore.ingest passes the   *)
(* timestamp of the Kafka message, which need not be the order in which    *)
(* the messages arrive.  InOrder = TRUE restricts the environment to       *)
(* callers whose timestamps never go back.                                 *)
(***************************************************************************)
EXTENDS RingBuffer

CONSTANTS Stamps, Amounts, Merchants, Places,  \* what a transaction is made of
          InOrder                              \* do timestamps never go back?

ASSUME EventAssumption ==
    /\ Stamps \subseteq Nat \ {0} /\ Amounts \subseteq Nat
    /\ Origin \in Places
    /\ InOrder \in BOOLEAN

VARIABLE ring

Events == [ts : Stamps, amount : Amounts, merchant : Merchants, place : Places]

\* No remembered transaction is younger than ts.
Latest(ts) == \A i \in 1 .. ring.size : View(ring)[i].ts <= ts

Init == ring = NewRing

Push(ev) ==
    /\ InOrder => Latest(ev.ts)
    /\ ring' = Pushed(ring, ev)

Next == \E ev \in Events : Push(ev)

Spec == Init /\ [][Next]_ring

-----------------------------------------------------------------------------
\* The ring has the shape its reads rely on.
TypeOK == WellFormed(ring, Merchants, Places)

Log == LogOf(ring)

\* Slots and deque together are a log of the last Capacity transactions: the
\* overwritten slot and the merchant that leaves the deque are always those
\* of the same, oldest transaction, also after the head has wrapped around.
Abstract == INSTANCE EventLog WITH log <- Log, place <- ring.last
ImplementsEventLog == Abstract!Spec

\* The merchants of a window are those of the transactions in the window
\* ("Return (amounts, timestamps, merchants) for events after since_ts",
\* _window_slice).  The code takes the last n merchants for n kept amounts,
\* so this rests on the order of the timestamps.
MerchantsMatchWindow ==
    \A since \in Stamps :
        UniqueMerchants(ring, since) =
            {Log[i].merchant : i \in {j \in DOMAIN Log : Log[j].ts >= since}}
=============================================================================

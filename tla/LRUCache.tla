------------------------------ MODULE LRUCache ------------------------------
(***************************************************************************)
(* The in-memory cache tier (LRUCache in feature_store/store.py) under     *)
(* concurrent callers.  get, set and clear are critical sections, one      *)
(* action each, so it does not matter which thread calls.                  *)
(*                                                                         *)
(* Left out: size() and hit_rate(), which change nothing.                  *)
(***************************************************************************)
EXTENDS CacheOps

CONSTANTS Keys, Values,
          MaxCalls     \* bound on the calls of get, set and clear

ASSUME CallsAssumption == MaxCalls \in Nat /\ Values # {}

VARIABLES
    store,          \* the OrderedDict
    hits, misses,
    calls,          \* calls of get, set and clear so far
    used, latest    \* history: the call that last used a key (since the last clear)
                    \* and the value it was last set to

vars == <<store, hits, misses, calls, used, latest>>

Never == 0

Init ==
    /\ store = << >> /\ hits = 0 /\ misses = 0
    /\ calls = 0
    /\ used   = [k \in Keys |-> Never]
    /\ latest = [k \in Keys |-> CHOOSE v \in Values : TRUE]

Called == calls < MaxCalls /\ calls' = calls + 1

Hit(k) ==
    /\ Called /\ k \in KeysOf(store)
    /\ store' = MovedToEnd(store, k)
    /\ hits'  = hits + 1
    /\ used'  = [used EXCEPT ![k] = calls']
    /\ UNCHANGED <<misses, latest>>

\* Mutant of Miss: the miss itself is cached.
MissCached(k) ==
    /\ Called /\ k \notin KeysOf(store)
    /\ misses' = misses + 1
    /\ store'  = Stored(store, k, "none")
    /\ UNCHANGED <<hits, used, latest>>

Miss(k) ==
    /\ Called /\ k \notin KeysOf(store)
    /\ misses' = misses + 1
    /\ UNCHANGED <<store, hits, used, latest>>

Get(k) == Hit(k) \/ Miss(k)

Set(k, v) ==
    /\ Called
    /\ store'  = Stored(store, k, v)
    /\ used'   = [used EXCEPT ![k] = calls']
    /\ latest' = [latest EXCEPT ![k] = v]
    /\ UNCHANGED <<hits, misses>>

Clear ==
    /\ Called
    /\ store' = << >> /\ hits' = 0 /\ misses' = 0
    /\ used'  = [k \in Keys |-> Never]
    /\ UNCHANGED <<latest>>

Next == \/ \E k \in Keys : Get(k)
        \/ \E k \in Keys, v \in Values : Set(k, v)
        \/ Clear

Spec == Init /\ [][Next]_vars

-----------------------------------------------------------------------------
\* The cache and its counters have their shapes; no key is in use after the
\* last call.
TypeOK ==
    /\ store \in Seq(Entry(Keys, Values))
    /\ {hits, misses, calls} \subseteq Nat
    /\ used \in [Keys -> 0 .. calls] /\ latest \in [Keys -> Values]

\* The cache is the CacheCapacity most recently used keys, least recent
\* first, each once: no key that a get or a set touched since the last clear
\* has been given up for one that was touched earlier.
IsLeastRecentlyUsed ==
    /\ Len(store) <= CacheCapacity
    /\ \A i, j \in DOMAIN store : i < j => used[store[i].key] < used[store[j].key]
    /\ \A k \in KeysOf(store) : used[k] # Never
    /\ \A k \in Keys \ KeysOf(store) : used[k] # Never =>
         /\ Len(store) = CacheCapacity
         /\ \A j \in KeysOf(store) : used[k] < used[j]

\* What a get returns is what the key was last set to.
HoldsLatest == \A i \in DOMAIN store : store[i].value = latest[store[i].key]
=============================================================================

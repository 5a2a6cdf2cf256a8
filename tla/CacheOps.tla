------------------------------ MODULE CacheOps ------------------------------
(***************************************************************************)
(* The OrderedDict behind LRUCache (feature_store/store.py) as a sequence  *)
(* of entries, least recently used first, and what get and set do to it.   *)
(***************************************************************************)
EXTENDS Integers, Sequences

CONSTANT CacheCapacity

ASSUME CacheCapacityAssumption == CacheCapacity \in Nat

Entry(Key, Value) == [key : Key, value : Value]

KeysOf(cache) == {cache[i].key : i \in DOMAIN cache}

\* Where k is, for a key in the cache.
PositionOf(cache, k) == CHOOSE i \in DOMAIN cache : cache[i].key = k

ValueOf(cache, k) == cache[PositionOf(cache, k)].value

Removed(cache, i) ==
    [j \in 1 .. Len(cache) - 1 |-> IF j < i THEN cache[j] ELSE cache[j + 1]]

\* Mutant of MovedToEnd: a hit leaves the order alone.
NotMoved(cache, k) == cache

\* move_to_end
MovedToEnd(cache, k) ==
    LET i == PositionOf(cache, k)
    IN  Append(Removed(cache, i), cache[i])

\* Mutant of Stored: a known key keeps its value (setdefault).
StoredOnce(cache, k, v) ==
    LET wider == IF k \in KeysOf(cache) THEN MovedToEnd(cache, k)
                 ELSE Append(cache, [key |-> k, value |-> v])
    IN  IF Len(wider) > CacheCapacity THEN Tail(wider) ELSE wider

\* Mutant of Stored: popitem is forgotten.
StoredUnbounded(cache, k, v) ==
    Append(IF k \in KeysOf(cache)
           THEN Removed(cache, PositionOf(cache, k)) ELSE cache,
           [key |-> k, value |-> v])

\* self._store[key] = value: in place for a known key (which has just been
\* moved to the end), at the end for a new one; then popitem(last=False)
\* when the dict is over capacity.
Stored(cache, k, v) ==
    LET entry == [key |-> k, value |-> v]
        wider == Append(IF k \in KeysOf(cache)
                        THEN Removed(cache, PositionOf(cache, k)) ELSE cache,
                        entry)
    IN  IF Len(wider) > CacheCapacity THEN Tail(wider) ELSE wider
=============================================================================

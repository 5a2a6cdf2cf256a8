--------------------------- MODULE LRUCacheProofs ---------------------------
(***************************************************************************)
(* Theorems about LRUCache for every capacity, key set and number of       *)
(* callers: it holds exactly the most recently used keys, in the order of  *)
(* their use, with the values they were last set to.                       *)
(***************************************************************************)
EXTENDS LRUCache, SequenceTheorems, TLAPS

Entries == Entry(Keys, Values)

\* Where a cached key is found.
LEMMA PositionOfKey ==
    ASSUME NEW c, NEW k \in KeysOf(c)
    PROVE  PositionOf(c, k) \in DOMAIN c /\ c[PositionOf(c, k)].key = k
  <1>1. \E i \in DOMAIN c : c[i].key = k
    BY DEF KeysOf
  <1> QED
    BY <1>1 DEF PositionOf

\* Removing a position closes the gap.
LEMMA RemovedProperties ==
    ASSUME NEW S, NEW c \in Seq(S), NEW i \in 1 .. Len(c)
    PROVE  /\ Removed(c, i) \in Seq(S)
           /\ Len(Removed(c, i)) = Len(c) - 1
           /\ \A j \in 1 .. Len(c) - 1 :
                Removed(c, i)[j] = IF j < i THEN c[j] ELSE c[j + 1]
  <1>1. Len(c) - 1 \in Nat
    OBVIOUS
  <1>2. \A j \in 1 .. Len(c) - 1 : (IF j < i THEN c[j] ELSE c[j + 1]) \in S
    OBVIOUS
  <1>3. Removed(c, i) \in [1 .. Len(c) - 1 -> S]
    BY <1>2 DEF Removed
  <1> QED
    BY <1>1, <1>3 DEF Removed

\* What is left of the cache when k is taken out of it, if it is there: the
\* other entries in their order.
Others(c, k) == IF k \in KeysOf(c) THEN Removed(c, PositionOf(c, k)) ELSE c

\* The part of the invariant that orders the entries.
Ordered(c) == \A i, j \in DOMAIN c : i < j => used[c[i].key] < used[c[j].key]

LEMMA OthersProperties ==
    ASSUME TypeOK, Ordered(store), NEW k \in Keys
    PROVE  /\ Others(store, k) \in Seq(Entries)
           /\ Len(Others(store, k)) =
                IF k \in KeysOf(store) THEN Len(store) - 1 ELSE Len(store)
           /\ Ordered(Others(store, k))
           /\ \A i \in DOMAIN Others(store, k) :
                Others(store, k)[i].key # k /\ \E j \in DOMAIN store :
                                                 Others(store, k)[i] = store[j]
           /\ \A j \in DOMAIN store : store[j].key # k =>
                \E i \in DOMAIN Others(store, k) : Others(store, k)[i] = store[j]
  <1>1. store \in Seq(Entries) /\ used \in [Keys -> Nat]
    BY DEF TypeOK, Entries
  <1>2. CASE k \notin KeysOf(store)
    BY <1>1, <1>2 DEF Others, KeysOf
  <1>3. CASE k \in KeysOf(store)
    <2> DEFINE p == PositionOf(store, k)
               r == Others(store, k)
    <2>1. p \in 1 .. Len(store) /\ store[p].key = k
      BY <1>1, <1>3, PositionOfKey
    <2>2. r = Removed(store, p)
      BY <1>3 DEF Others
    <2> HIDE DEF p, r
    <2>3. /\ r \in Seq(Entries) /\ Len(r) = Len(store) - 1
          /\ \A j \in 1 .. Len(store) - 1 :
               r[j] = IF j < p THEN store[j] ELSE store[j + 1]
      BY <1>1, <2>1, <2>2, RemovedProperties
    <2>4. DOMAIN r = 1 .. Len(store) - 1 /\ DOMAIN store = 1 .. Len(store)
      BY <1>1, <2>3
    <2>5. \A j \in DOMAIN store : store[j].key \in Keys
      <3>1. \A j \in DOMAIN store : store[j] \in Entries
        BY <1>1, <2>4
      <3> QED
        BY <3>1 DEF Entries, Entry
    <2>6. \A j \in DOMAIN store : j # p => store[j].key # k
      <3> SUFFICES ASSUME NEW j \in DOMAIN store, j # p, store[j].key = k PROVE FALSE
        OBVIOUS
      <3>1. j < p \/ p < j
        BY <1>1, <2>1, <2>4
      <3>2. used[store[j].key] < used[store[p].key] \/ used[store[p].key] < used[store[j].key]
        BY <2>1, <2>4, <3>1 DEF Ordered
      <3> QED
        BY <1>1, <2>1, <3>2
    <2>7. Ordered(r)
      <3> SUFFICES ASSUME NEW i \in DOMAIN r, NEW j \in DOMAIN r, i < j
                   PROVE  used[r[i].key] < used[r[j].key]
        BY DEF Ordered
      <3> DEFINE at(x) == IF x < p THEN x ELSE x + 1
      <3>1. at(i) \in DOMAIN store /\ at(j) \in DOMAIN store /\ at(i) < at(j)
        BY <1>1, <2>1, <2>4
      <3>2. r[i] = store[at(i)] /\ r[j] = store[at(j)]
        BY <2>3, <2>4
      <3> HIDE DEF at
      <3> QED
        BY <3>1, <3>2 DEF Ordered
    <2>8. \A i \in DOMAIN r : r[i].key # k /\ \E j \in DOMAIN store : r[i] = store[j]
      <3> SUFFICES ASSUME NEW i \in DOMAIN r
                   PROVE  r[i].key # k /\ \E j \in DOMAIN store : r[i] = store[j]
        OBVIOUS
      <3> DEFINE a == IF i < p THEN i ELSE i + 1
      <3>1. a \in DOMAIN store /\ a # p /\ r[i] = store[a]
        BY <1>1, <2>1, <2>3, <2>4
      <3> QED
        BY <2>6, <3>1
    <2>9. \A j \in DOMAIN store : store[j].key # k => \E i \in DOMAIN r : r[i] = store[j]
      <3> SUFFICES ASSUME NEW j \in DOMAIN store, j # p
                   PROVE  \E i \in DOMAIN r : r[i] = store[j]
        BY <2>1
      <3> DEFINE i == IF j < p THEN j ELSE j - 1
      <3>1. i \in DOMAIN r /\ r[i] = store[j]
        BY <1>1, <2>1, <2>3, <2>4
      <3> QED
        BY <3>1
    <2> QED
      BY <1>3, <2>3, <2>7, <2>8, <2>9 DEF r
  <1> QED
    BY <1>2, <1>3

-----------------------------------------------------------------------------
\* The inductive invariant.
IInv == TypeOK /\ IsLeastRecentlyUsed /\ HoldsLatest

\* A use of k that leaves it in the cache with value v: what a set and a get
\* that hits do to the entries.
LEMMA UseOfKey ==
    ASSUME IInv, NEW k \in Keys, NEW v \in Values, calls' = calls + 1,
           used' = [used EXCEPT ![k] = calls'],
           store' = Stored(store, k, v)
    PROVE  /\ store' \in Seq(Entries)
           /\ IsLeastRecentlyUsed'
           /\ \A i \in DOMAIN store' :
                \/ store'[i] = [key |-> k, value |-> v]
                \/ store'[i].key # k /\ (\E j \in DOMAIN store : store'[i] = store[j])
  <1> DEFINE cap  == CacheCapacity
             rest == Others(store, k)
             e    == [key |-> k, value |-> v]
             wide == Append(rest, e)
  <1>1. /\ store \in Seq(Entries) /\ used \in [Keys -> 0 .. calls] /\ calls \in Nat
        /\ cap \in Nat /\ Len(store) \in Nat /\ Len(store) <= cap
        /\ DOMAIN store = 1 .. Len(store)
        /\ Ordered(store)
    BY CacheCapacityAssumption DEF IInv, TypeOK, IsLeastRecentlyUsed, Ordered, Entries
  <1>2. e \in Entries /\ e.key = k
    BY DEF Entries, Entry
  <1>3. /\ rest \in Seq(Entries)
        /\ Len(rest) = IF k \in KeysOf(store) THEN Len(store) - 1 ELSE Len(store)
        /\ Ordered(rest)
        /\ \A i \in DOMAIN rest : rest[i].key # k /\ \E j \in DOMAIN store : rest[i] = store[j]
        /\ \A j \in DOMAIN store : store[j].key # k => \E i \in DOMAIN rest : rest[i] = store[j]
    <2>1. TypeOK
      BY DEF IInv
    <2> QED
      BY <1>1, <2>1, OthersProperties
  <1> HIDE DEF rest, e
  <1>0. Len(rest) \in Nat /\ DOMAIN rest = 1 .. Len(rest)
    BY <1>3
  <1>4. /\ wide \in Seq(Entries) /\ Len(wide) = Len(rest) + 1
        /\ DOMAIN wide = 1 .. Len(rest) + 1
        /\ \A i \in 1 .. Len(rest) : wide[i] = rest[i]
        /\ wide[Len(rest) + 1] = e
        /\ Len(wide) \in Nat
    <2>1. rest \in Seq(Entries)
      BY <1>3
    <2>2. /\ wide \in Seq(Entries) /\ Len(wide) = Len(rest) + 1
          /\ \A i \in 1 .. Len(rest) : wide[i] = rest[i]
          /\ wide[Len(rest) + 1] = e
      BY <1>2, <2>1, AppendProperties
    <2> HIDE DEF wide
    <2>3. DOMAIN wide = 1 .. Len(wide) /\ Len(wide) \in Nat
      BY <2>2
    <2> QED
      BY <2>2, <2>3
  <1>5. store' = IF Len(wide) > cap THEN Tail(wide) ELSE wide
    BY DEF Stored, Others, rest, e
  <1> HIDE DEF wide
  <1>6. /\ used'[k] = calls + 1
        /\ \A q \in Keys : used[q] \in 0 .. calls
        /\ \A q \in Keys : q # k => used'[q] = used[q]
    BY <1>1
  <1>7. \A i \in DOMAIN rest : rest[i].key \in Keys
    <2>1. \A i \in DOMAIN rest : rest[i] \in Entries
      BY <1>3
    <2> QED
      BY <2>1 DEF Entries, Entry
  \* the widened cache is ordered by use, the used key being the last
  <1>8. \A i, j \in DOMAIN wide : i < j => used'[wide[i].key] < used'[wide[j].key]
    <2> SUFFICES ASSUME NEW i \in DOMAIN wide, NEW j \in DOMAIN wide, i < j
                 PROVE  used'[wide[i].key] < used'[wide[j].key]
      OBVIOUS
    <2>1. i \in DOMAIN rest /\ wide[i] = rest[i]
      BY <1>0, <1>3, <1>4
    <2>2. used'[wide[i].key] = used[rest[i].key] /\ used[rest[i].key] \in 0 .. calls
      BY <1>3, <1>6, <1>7, <2>1
    <2>3. CASE j = Len(rest) + 1
      BY <1>1, <1>2, <1>4, <1>6, <2>2, <2>3
    <2>4. CASE j # Len(rest) + 1
      <3>1. j \in DOMAIN rest /\ wide[j] = rest[j]
        BY <1>0, <1>3, <1>4, <2>4
      <3>2. used'[wide[j].key] = used[rest[j].key]
        BY <1>3, <1>6, <1>7, <3>1
      <3> QED
        BY <1>3, <2>1, <2>2, <3>1, <3>2 DEF Ordered
    <2> QED
      BY <2>3, <2>4
  <1>9. \A i \in DOMAIN wide :
          \/ wide[i] = e
          \/ wide[i].key # k /\ (\E j \in DOMAIN store : wide[i] = store[j])
    <2> SUFFICES ASSUME NEW i \in DOMAIN wide, wide[i] # e
                 PROVE  wide[i].key # k /\ (\E j \in DOMAIN store : wide[i] = store[j])
      OBVIOUS
    <2>1. i \in DOMAIN rest /\ wide[i] = rest[i]
      BY <1>0, <1>3, <1>4
    <2> QED
      BY <1>3, <2>1
  <1>10. \A i \in DOMAIN wide : used'[wide[i].key] # Never /\ wide[i].key \in Keys
    <2> SUFFICES ASSUME NEW i \in DOMAIN wide
                 PROVE  used'[wide[i].key] # Never /\ wide[i].key \in Keys
      OBVIOUS
    <2>1. CASE wide[i] = e
      BY <1>1, <1>2, <1>6, <2>1 DEF Never
    <2>2. CASE wide[i] # e
      <3>1. i \in DOMAIN rest /\ wide[i] = rest[i]
        BY <1>0, <1>3, <1>4, <2>2
      <3>2. rest[i].key \in KeysOf(store) /\ rest[i].key # k
        BY <1>3, <3>1 DEF KeysOf
      <3>3. used[rest[i].key] # Never
        BY <3>2 DEF IInv, IsLeastRecentlyUsed
      <3> QED
        BY <1>6, <1>7, <3>1, <3>2, <3>3
    <2> QED
      BY <2>1, <2>2
  \* a key outside the widened cache was outside the cache before
  <1>11. ASSUME NEW q \in Keys, q \notin KeysOf(wide), used'[q] # Never
         PROVE  /\ q # k /\ q \notin KeysOf(store) /\ used[q] # Never /\ used'[q] = used[q]
                /\ Len(store) = cap
                /\ \A i \in DOMAIN wide : used'[q] < used'[wide[i].key]
    <2>1. q # k
      <3>1. Len(rest) + 1 \in DOMAIN wide
        BY <1>0, <1>3, <1>4
      <3> QED
        BY <1>2, <1>4, <1>11, <3>1 DEF KeysOf
    <2>2. q \notin KeysOf(store)
      <3> SUFFICES ASSUME NEW j \in DOMAIN store, store[j].key = q PROVE FALSE
        BY DEF KeysOf
      <3>1. PICK i \in DOMAIN rest : rest[i] = store[j]
        BY <1>3, <2>1
      <3>2. i \in DOMAIN wide /\ wide[i].key = q
        <4>1. i \in 1 .. Len(rest) /\ i \in 1 .. Len(rest) + 1
          BY <1>0
        <4> QED
          BY <1>4, <3>1, <4>1
      <3> QED
        BY <1>11, <3>2 DEF KeysOf
    <2>3. used'[q] = used[q] /\ used[q] # Never
      BY <1>6, <1>11, <2>1
    <2>4. Len(store) = cap /\ \A j \in KeysOf(store) : used[q] < used[j]
      BY <2>2, <2>3 DEF IInv, IsLeastRecentlyUsed
    <2>5. ASSUME NEW i \in DOMAIN wide PROVE used'[q] < used'[wide[i].key]
      <3>1. CASE wide[i] = e
        BY <1>1, <1>2, <1>6, <2>3, <3>1
      <3>2. CASE wide[i] # e
        <4>1. wide[i].key \in KeysOf(store) /\ wide[i].key # k
          BY <1>9, <3>2 DEF KeysOf
        <4> QED
          BY <1>6, <1>10, <2>3, <2>4, <4>1
      <3> QED
        BY <3>1, <3>2
    <2> QED
      BY <2>1, <2>2, <2>3, <2>4, <2>5
  <1>12. CASE Len(wide) <= cap
    <2>1. store' = wide
      BY <1>1, <1>4, <1>5, <1>12
    <2>2. ASSUME NEW q \in Keys \ KeysOf(wide), used'[q] # Never
          PROVE  Len(wide) = cap /\ \A x \in KeysOf(wide) : used'[q] < used'[x]
      <3>1. /\ Len(store) = cap
            /\ \A i \in DOMAIN wide : used'[q] < used'[wide[i].key]
        BY <1>11, <2>2
      <3>2. Len(wide) = cap
        BY <1>1, <1>0, <1>3, <1>4, <1>12, <3>1
      <3> QED
        BY <3>1, <3>2 DEF KeysOf
    <2>3. \A x \in KeysOf(wide) : used'[x] # Never
      BY <1>10 DEF KeysOf
    <2> QED
      BY <1>4, <1>8, <1>9, <1>12, <2>1, <2>2, <2>3 DEF IsLeastRecentlyUsed, KeysOf, e
  <1>13. CASE Len(wide) > cap
    <2> DEFINE out == Tail(wide)
    <2>1. store' = out /\ Len(store) = cap /\ Len(wide) = cap + 1
      <3>1. /\ cap \in Nat /\ Len(store) \in Nat /\ Len(store) <= cap
            /\ Len(rest) \in Nat /\ Len(wide) = Len(rest) + 1 /\ Len(wide) > cap
        BY <1>0, <1>1, <1>4, <1>13
      <3>2. k \notin KeysOf(store) /\ Len(rest) = Len(store)
        BY <1>3, <3>1
      <3>3. store' = out
        BY <1>5, <1>13
      <3> QED
        BY <3>1, <3>2, <3>3
    <2>2. /\ out \in Seq(Entries) /\ Len(out) = cap /\ DOMAIN out = 1 .. cap
          /\ \A i \in DOMAIN out : i + 1 \in DOMAIN wide /\ out[i] = wide[i + 1]
          /\ \A i \in DOMAIN wide : i # 1 => i - 1 \in DOMAIN out /\ wide[i] = out[i - 1]
          /\ 1 \in DOMAIN wide
      <3>1. wide \in Seq(Entries) /\ cap \in Nat /\ Len(wide) = cap + 1
        BY <1>1, <1>4, <2>1
      <3>2. /\ out \in Seq(Entries) /\ Len(out) = cap
            /\ \A i \in 1 .. cap : out[i] = wide[i + 1]
        BY <3>1
      <3>3. DOMAIN out = 1 .. cap /\ DOMAIN wide = 1 .. cap + 1
        BY <3>1, <3>2
      <3>4. \A i \in 1 .. cap + 1 : i # 1 => i - 1 \in 1 .. cap /\ (i - 1) + 1 = i
        BY <3>1
      <3>5. \A i \in 1 .. cap + 1 : i # 1 => wide[i] = out[i - 1]
        BY <3>2, <3>4
      <3> QED
        BY <3>1, <3>2, <3>3, <3>4, <3>5
    <2> HIDE DEF out
    <2>3. \A i, j \in DOMAIN out : i < j => used'[out[i].key] < used'[out[j].key]
      <3> SUFFICES ASSUME NEW i \in DOMAIN out, NEW j \in DOMAIN out, i < j
                   PROVE  used'[out[i].key] < used'[out[j].key]
        OBVIOUS
      <3>1. i + 1 \in DOMAIN wide /\ j + 1 \in DOMAIN wide /\ i + 1 < j + 1
        BY <1>1, <2>2
      <3> QED
        BY <1>8, <2>2, <3>1
    <2>4. ASSUME NEW q \in Keys \ KeysOf(out), used'[q] # Never
          PROVE  \A i \in DOMAIN out : used'[q] < used'[out[i].key]
      <3> SUFFICES ASSUME NEW i \in DOMAIN out PROVE used'[q] < used'[out[i].key]
        OBVIOUS
      <3>1. i + 1 \in DOMAIN wide /\ out[i] = wide[i + 1] /\ 1 < i + 1
        BY <1>1, <2>2
      <3>2. CASE q = wide[1].key
        BY <1>8, <2>2, <3>1, <3>2
      <3>3. CASE q # wide[1].key
        <4>1. q \notin KeysOf(wide)
          <5> SUFFICES ASSUME NEW j \in DOMAIN wide, wide[j].key = q PROVE FALSE
            BY DEF KeysOf
          <5>1. j - 1 \in DOMAIN out /\ out[j - 1].key = q
            BY <2>2, <3>3
          <5> QED
            BY <2>4, <5>1 DEF KeysOf
        <4> QED
          BY <1>11, <2>4, <3>1, <4>1
      <3> QED
        BY <3>2, <3>3
    <2>5. \A x \in KeysOf(out) : used'[x] # Never
      BY <1>10, <2>2 DEF KeysOf
    <2>6. \A i \in DOMAIN out :
            \/ out[i] = e
            \/ out[i].key # k /\ (\E j \in DOMAIN store : out[i] = store[j])
      BY <1>9, <2>2
    <2>7. \A q \in Keys \ KeysOf(out) : used'[q] # Never =>
            /\ Len(out) = cap
            /\ \A x \in KeysOf(out) : used'[q] < used'[x]
      BY <2>2, <2>4 DEF KeysOf
    <2>8. IsLeastRecentlyUsed'
      <3>1. Len(out) <= cap /\ Len(out) = cap
        BY <1>1, <2>2
      <3>2. KeysOf(store)' = KeysOf(out)
        BY <2>1 DEF KeysOf
      <3> QED
        BY <2>1, <2>3, <2>5, <2>7, <3>1, <3>2 DEF IsLeastRecentlyUsed
    <2> QED
      BY <2>1, <2>2, <2>6, <2>8 DEF e
  <1> QED
    <2>1. Len(wide) <= cap \/ Len(wide) > cap
      BY <1>1, <1>4
    <2> QED
      BY <2>1, <1>12, <1>13

\* A get that hits does to the entries what setting the same value would do.
LEMMA HitIsUse ==
    ASSUME IInv, NEW k \in KeysOf(store)
    PROVE  /\ k \in Keys /\ ValueOf(store, k) \in Values
           /\ MovedToEnd(store, k) = Stored(store, k, ValueOf(store, k))
  <1> DEFINE p == PositionOf(store, k)
             r == Removed(store, p)
  <1>1. /\ store \in Seq(Entries) /\ Len(store) \in Nat /\ Len(store) <= CacheCapacity
        /\ DOMAIN store = 1 .. Len(store) /\ CacheCapacity \in Nat
    BY CacheCapacityAssumption DEF IInv, TypeOK, IsLeastRecentlyUsed, Entries
  <1>2. p \in 1 .. Len(store) /\ store[p].key = k
    BY <1>1, PositionOfKey
  <1> HIDE DEF p
  <1>3. store[p] \in Entries
    BY <1>1, <1>2
  <1>4. /\ k \in Keys /\ store[p].value \in Values
        /\ store[p] = [key |-> k, value |-> store[p].value]
    BY <1>2, <1>3 DEF Entries, Entry
  <1>5. r \in Seq(Entries) /\ Len(r) = Len(store) - 1
    BY <1>1, <1>2, RemovedProperties
  <1> HIDE DEF r
  <1>6. Len(Append(r, store[p])) = Len(store)
    <2>1. Len(Append(r, store[p])) = Len(r) + 1
      BY <1>3, <1>5, AppendProperties
    <2> QED
      BY <1>1, <1>5, <2>1
  <1>7. ~ Len(Append(r, store[p])) > CacheCapacity
    BY <1>1, <1>6
  <1>8. /\ MovedToEnd(store, k) = Append(r, store[p])
        /\ ValueOf(store, k) = store[p].value
    BY DEF MovedToEnd, ValueOf, r, p
  <1>9. Stored(store, k, store[p].value) = Append(r, store[p])
    BY <1>4, <1>7 DEF Stored, r, p
  <1> QED
    BY <1>4, <1>8, <1>9

LEMMA InitInv == Init => IInv
  BY CacheCapacityAssumption, CallsAssumption
  DEF Init, IInv, TypeOK, IsLeastRecentlyUsed, HoldsLatest, KeysOf, Never, Entry

LEMMA NextInv == IInv /\ [Next]_vars => IInv'
  <1> SUFFICES ASSUME IInv, [Next]_vars PROVE IInv'
    OBVIOUS
  <1>0. TypeOK /\ calls \in Nat
    BY DEF IInv, TypeOK
  <1>1. ASSUME NEW k \in Keys, Hit(k) PROVE IInv'
    <2> DEFINE v == ValueOf(store, k)
    <2>1. /\ k \in KeysOf(store) /\ calls' = calls + 1
          /\ used' = [used EXCEPT ![k] = calls'] /\ store' = MovedToEnd(store, k)
          /\ hits' = hits + 1
          /\ UNCHANGED <<misses, latest>>
      BY <1>1 DEF Hit, Called
    <2>2. v \in Values /\ store' = Stored(store, k, v)
      BY <2>1, HitIsUse
    <2>3. v = latest[k]
      BY <2>1, PositionOfKey DEF ValueOf, IInv, HoldsLatest
    <2> HIDE DEF v
    <2>4. /\ store' \in Seq(Entries) /\ IsLeastRecentlyUsed'
          /\ \A i \in DOMAIN store' :
               \/ store'[i] = [key |-> k, value |-> v]
               \/ store'[i].key # k /\ (\E j \in DOMAIN store : store'[i] = store[j])
      BY <2>1, <2>2, UseOfKey
    <2>5. HoldsLatest'
      BY <2>1, <2>3, <2>4 DEF IInv, HoldsLatest
    <2>6. TypeOK'
      BY <1>0, <2>1, <2>4 DEF TypeOK, Entries
    <2> QED
      BY <2>4, <2>5, <2>6 DEF IInv
  <1>2. ASSUME NEW k \in Keys, Miss(k) PROVE IInv'
    BY <1>2 DEF Miss, Called, IInv, TypeOK, IsLeastRecentlyUsed, HoldsLatest, KeysOf
  <1>3. ASSUME NEW k \in Keys, NEW v \in Values, Set(k, v) PROVE IInv'
    <2>1. /\ calls' = calls + 1
          /\ used' = [used EXCEPT ![k] = calls'] /\ store' = Stored(store, k, v)
          /\ latest' = [latest EXCEPT ![k] = v]
          /\ UNCHANGED <<hits, misses>>
      BY <1>3 DEF Set, Called
    <2>2. /\ store' \in Seq(Entries) /\ IsLeastRecentlyUsed'
          /\ \A i \in DOMAIN store' :
               \/ store'[i] = [key |-> k, value |-> v]
               \/ store'[i].key # k /\ (\E j \in DOMAIN store : store'[i] = store[j])
      BY <2>1, UseOfKey
    <2>3. HoldsLatest'
      <3> SUFFICES ASSUME NEW i \in DOMAIN store'
                   PROVE  store'[i].value = latest'[store'[i].key]
        BY DEF HoldsLatest
      <3>1. CASE store'[i] = [key |-> k, value |-> v]
        BY <1>0, <2>1, <3>1 DEF TypeOK
      <3>2. CASE store'[i].key # k /\ (\E j \in DOMAIN store : store'[i] = store[j])
        <4>1. latest'[store'[i].key] = latest[store'[i].key]
          <5>1. store'[i] \in Entries
            BY <2>2
          <5>2. store'[i].key \in Keys
            BY <5>1 DEF Entries, Entry
          <5> QED
            BY <1>0, <2>1, <3>2, <5>2 DEF TypeOK
        <4> QED
          BY <3>2, <4>1 DEF IInv, HoldsLatest
      <3> QED
        BY <2>2, <3>1, <3>2
    <2>4. TypeOK'
      BY <1>0, <2>1, <2>2 DEF TypeOK, Entries
    <2> QED
      BY <2>2, <2>3, <2>4 DEF IInv
  <1>4. CASE Clear
    BY <1>4, CacheCapacityAssumption
    DEF Clear, Called, IInv, TypeOK, IsLeastRecentlyUsed, HoldsLatest, KeysOf, Never
  <1>5. CASE UNCHANGED vars
    BY <1>5 DEF vars, IInv, TypeOK, IsLeastRecentlyUsed, HoldsLatest, KeysOf
  <1> QED
    BY <1>1, <1>2, <1>3, <1>4, <1>5 DEF Next, Get

-----------------------------------------------------------------------------
\* The cache holds exactly its most recently used keys, in order of use, and
\* evicts only the least recently used one.
THEOREM CacheIsLRU == Spec => []IsLeastRecentlyUsed
  <1>1. IInv => IsLeastRecentlyUsed
    BY DEF IInv
  <1> QED
    BY <1>1, InitInv, NextInv, PTL DEF Spec

\* A get returns what the key was last set to.
THEOREM CacheHoldsLatest == Spec => []HoldsLatest
  <1>1. IInv => HoldsLatest
    BY DEF IInv
  <1> QED
    BY <1>1, InitInv, NextInv, PTL DEF Spec

\* Every variable keeps its type.
THEOREM TypeCorrect == Spec => []TypeOK
  <1>1. IInv => TypeOK
    BY DEF IInv
  <1> QED
    BY <1>1, InitInv, NextInv, PTL DEF Spec
=============================================================================

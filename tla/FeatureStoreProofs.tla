-------------------------- MODULE FeatureStoreProofs --------------------------
(***************************************************************************)
(* Theorems about FeatureStore for any number of processes, threads and    *)
(* entities, any capacity of L1 and any behaviour of Redis the theorem     *)
(* does not exclude: the ingesting process's own cache is exact; where     *)
(* every entity has a thread of its own a read is never behind; and what a *)
(* process that reads is told of an entity goes back only to nothing, and  *)
(* only when Redis has lost the entity.                                    *)
(***************************************************************************)
EXTENDS FeatureStore, SequenceTheorems, TLAPS

Entries == Entry(Entities, Snap \ {NoSnap})

UniqueKeys(c) == \A i, j \in DOMAIN c : c[i].key = c[j].key => i = j

-----------------------------------------------------------------------------
(* what the operations of the ordered dict do to its entries               *)

\* Where a cached key is found.
LEMMA PositionOfKey ==
    ASSUME NEW c, NEW k \in KeysOf(c)
    PROVE  PositionOf(c, k) \in DOMAIN c /\ c[PositionOf(c, k)].key = k
  <1>1. \E i \in DOMAIN c : c[i].key = k
    BY DEF KeysOf
  <1> QED
    BY <1>1 DEF PositionOf

\* Taking an entry out leaves the others, and leaves their keys unique.
LEMMA RemovedEntries ==
    ASSUME NEW S, NEW c \in Seq(S), UniqueKeys(c), NEW p \in 1 .. Len(c)
    PROVE  /\ Removed(c, p) \in Seq(S)
           /\ Len(Removed(c, p)) = Len(c) - 1
           /\ UniqueKeys(Removed(c, p))
           /\ \A i \in DOMAIN Removed(c, p) :
                /\ Removed(c, p)[i].key # c[p].key
                /\ \E j \in DOMAIN c : Removed(c, p)[i] = c[j]
  <1> DEFINE r     == Removed(c, p)
             at(i) == IF i < p THEN i ELSE i + 1
  <1>1. Len(c) - 1 \in Nat /\ Len(c) \in Nat /\ DOMAIN c = 1 .. Len(c)
    OBVIOUS
  <1>2. \A i \in 1 .. Len(c) - 1 : at(i) \in DOMAIN c /\ at(i) # p
    BY <1>1
  <1>3. /\ DOMAIN r = 1 .. Len(c) - 1
        /\ \A i \in 1 .. Len(c) - 1 : r[i] = c[at(i)]
    BY DEF Removed
  <1>4. \A i \in 1 .. Len(c) - 1 : (IF i < p THEN c[i] ELSE c[i + 1]) \in S
    OBVIOUS
  <1>5. r \in [1 .. Len(c) - 1 -> S]
    BY <1>4 DEF Removed
  <1>6. r \in Seq(S) /\ Len(r) = Len(c) - 1
    BY <1>1, <1>5 DEF Removed
  <1>7. \A i, j \in 1 .. Len(c) - 1 : at(i) = at(j) => i = j
    BY <1>1
  <1> HIDE DEF at, r
  <1>8. UniqueKeys(r)
    BY <1>2, <1>3, <1>7 DEF UniqueKeys
  <1>9. \A i \in DOMAIN r : r[i].key # c[p].key /\ \E j \in DOMAIN c : r[i] = c[j]
    BY <1>1, <1>2, <1>3 DEF UniqueKeys
  <1> QED
    BY <1>6, <1>8, <1>9 DEF r

\* Appending an entry with a new key.
LEMMA AppendedEntries ==
    ASSUME NEW S, NEW c \in Seq(S), UniqueKeys(c), NEW x \in S,
           \A i \in DOMAIN c : c[i].key # x.key
    PROVE  /\ Append(c, x) \in Seq(S) /\ Len(Append(c, x)) = Len(c) + 1
           /\ UniqueKeys(Append(c, x))
           /\ \A i \in DOMAIN Append(c, x) :
                Append(c, x)[i] = x \/ \E j \in DOMAIN c : Append(c, x)[i] = c[j]
  <1> DEFINE w == Append(c, x)
  <1>1. /\ w \in Seq(S) /\ Len(w) = Len(c) + 1
        /\ \A i \in 1 .. Len(c) : w[i] = c[i]
        /\ w[Len(c) + 1] = x
    BY AppendProperties
  <1>2. Len(c) \in Nat /\ DOMAIN c = 1 .. Len(c)
    OBVIOUS
  <1> HIDE DEF w
  <1>3. DOMAIN w = 1 .. Len(c) + 1
    BY <1>1, <1>2
  <1>4. \A i \in DOMAIN w : (i \in DOMAIN c /\ w[i] = c[i]) \/ (i = Len(c) + 1 /\ w[i] = x)
    BY <1>1, <1>2, <1>3
  <1>5. UniqueKeys(w)
    BY <1>4 DEF UniqueKeys
  <1> QED
    BY <1>1, <1>4, <1>5 DEF w

\* Dropping the oldest entry.
LEMMA TailEntries ==
    ASSUME NEW S, NEW c \in Seq(S), UniqueKeys(c), c # << >>
    PROVE  /\ Tail(c) \in Seq(S) /\ Len(Tail(c)) = Len(c) - 1
           /\ UniqueKeys(Tail(c))
           /\ \A i \in DOMAIN Tail(c) : \E j \in DOMAIN c : Tail(c)[i] = c[j]
  <1> DEFINE w == Tail(c)
  <1>1. /\ w \in Seq(S) /\ Len(w) = Len(c) - 1 /\ Len(w) \in Nat
        /\ \A i \in 1 .. Len(w) : w[i] = c[i + 1]
    OBVIOUS
  <1> HIDE DEF w
  <1>2. DOMAIN w = 1 .. Len(w) /\ DOMAIN c = 1 .. Len(w) + 1
    BY <1>1
  <1>3. \A i \in DOMAIN w : i + 1 \in DOMAIN c /\ w[i] = c[i + 1]
    BY <1>1, <1>2
  <1>4. UniqueKeys(w)
    <2> SUFFICES ASSUME NEW i \in DOMAIN w, NEW j \in DOMAIN w, w[i].key = w[j].key PROVE i = j
      BY DEF UniqueKeys
    <2>1. i + 1 = j + 1
      BY <1>3 DEF UniqueKeys
    <2> QED
      BY <1>1, <1>2, <2>1
  <1> QED
    BY <1>1, <1>3, <1>4 DEF w

\* A set leaves the new entry, if there is room for it, and of the others
\* only entries of other keys that were there before.
LEMMA StoredEntries ==
    ASSUME NEW S, NEW c \in Seq(S), UniqueKeys(c), Len(c) =< CacheCapacity,
           NEW k, NEW v, [key |-> k, value |-> v] \in S
    PROVE  /\ Stored(c, k, v) \in Seq(S)
           /\ Len(Stored(c, k, v)) =< CacheCapacity
           /\ UniqueKeys(Stored(c, k, v))
           /\ \A i \in DOMAIN Stored(c, k, v) :
                \/ Stored(c, k, v)[i] = [key |-> k, value |-> v]
                \/ /\ Stored(c, k, v)[i].key # k
                   /\ \E j \in DOMAIN c : Stored(c, k, v)[i] = c[j]
  <1> DEFINE x    == [key |-> k, value |-> v]
             rest == IF k \in KeysOf(c) THEN Removed(c, PositionOf(c, k)) ELSE c
             wide == Append(rest, x)
             out  == Stored(c, k, v)
  <1>1. x \in S /\ x.key = k /\ Len(c) \in Nat /\ DOMAIN c = 1 .. Len(c) /\ CacheCapacity \in Nat
    BY CacheCapacityAssumption
  <1>2. /\ rest \in Seq(S) /\ Len(rest) \in Nat /\ Len(rest) =< Len(c) /\ UniqueKeys(rest)
        /\ \A i \in DOMAIN rest : rest[i].key # k /\ \E j \in DOMAIN c : rest[i] = c[j]
    <2>1. CASE k \in KeysOf(c)
      <3> DEFINE p == PositionOf(c, k)
      <3>1. p \in 1 .. Len(c) /\ c[p].key = k
        BY <1>1, <2>1, PositionOfKey
      <3> HIDE DEF p
      <3>2. /\ Removed(c, p) \in Seq(S) /\ Len(Removed(c, p)) = Len(c) - 1
            /\ UniqueKeys(Removed(c, p))
            /\ \A i \in DOMAIN Removed(c, p) :
                 Removed(c, p)[i].key # k /\ \E j \in DOMAIN c : Removed(c, p)[i] = c[j]
        BY <3>1, RemovedEntries
      <3>3. rest = Removed(c, p)
        BY <2>1 DEF p
      <3> HIDE DEF rest
      <3> QED
        BY <1>1, <3>1, <3>2, <3>3
    <2>2. CASE k \notin KeysOf(c)
      BY <1>1, <2>2 DEF KeysOf
    <2> QED
      BY <2>1, <2>2
  <1> HIDE DEF rest, x
  <1>3. /\ wide \in Seq(S) /\ Len(wide) = Len(rest) + 1 /\ UniqueKeys(wide)
        /\ \A i \in DOMAIN wide : wide[i] = x \/ \E j \in DOMAIN rest : wide[i] = rest[j]
    BY <1>1, <1>2, AppendedEntries
  <1>4. out = IF Len(wide) > CacheCapacity THEN Tail(wide) ELSE wide
    BY DEF Stored, rest, x
  <1> HIDE DEF wide, out
  <1>5. \A i \in DOMAIN wide : wide[i] = x \/ (wide[i].key # k /\ \E j \in DOMAIN c : wide[i] = c[j])
    BY <1>2, <1>3
  <1>6. CASE Len(wide) > CacheCapacity
    <2>1. wide # << >>
      BY <1>2, <1>3
    <2>2. /\ out \in Seq(S) /\ Len(out) = Len(wide) - 1 /\ UniqueKeys(out)
          /\ \A i \in DOMAIN out : \E j \in DOMAIN wide : out[i] = wide[j]
      BY <1>3, <1>4, <1>6, <2>1, TailEntries
    <2>3. Len(out) =< CacheCapacity
      BY <1>1, <1>2, <1>3, <2>2
    <2>4. \A i \in DOMAIN out : out[i] = x \/ (out[i].key # k /\ \E j \in DOMAIN c : out[i] = c[j])
      BY <1>5, <2>2
    <2> QED
      BY <2>2, <2>3, <2>4 DEF out, x
  <1>7. CASE ~ Len(wide) > CacheCapacity
    <2>1. out = wide /\ Len(out) =< CacheCapacity
      BY <1>1, <1>2, <1>3, <1>4, <1>7
    <2> QED
      BY <1>3, <1>5, <2>1 DEF out, x
  <1> QED
    BY <1>6, <1>7

\* A hit leaves the entries that were there.
LEMMA MovedEntries ==
    ASSUME NEW S, NEW c \in Seq(S), UniqueKeys(c), NEW k \in KeysOf(c)
    PROVE  /\ MovedToEnd(c, k) \in Seq(S)
           /\ Len(MovedToEnd(c, k)) = Len(c)
           /\ UniqueKeys(MovedToEnd(c, k))
           /\ \A i \in DOMAIN MovedToEnd(c, k) :
                \E j \in DOMAIN c : MovedToEnd(c, k)[i] = c[j]
  <1> DEFINE p == PositionOf(c, k)
             r == Removed(c, p)
             m == MovedToEnd(c, k)
  <1>1. Len(c) \in Nat /\ DOMAIN c = 1 .. Len(c)
    OBVIOUS
  <1>2. p \in 1 .. Len(c)
    BY <1>1, PositionOfKey
  <1>3. m = Append(r, c[p])
    BY DEF MovedToEnd
  <1> HIDE DEF p
  <1>4. /\ r \in Seq(S) /\ Len(r) = Len(c) - 1 /\ UniqueKeys(r)
        /\ \A i \in DOMAIN r : r[i].key # c[p].key /\ \E j \in DOMAIN c : r[i] = c[j]
    BY <1>2, RemovedEntries
  <1>5. c[p] \in S
    BY <1>2
  <1> HIDE DEF r, m
  <1>6. /\ m \in Seq(S) /\ Len(m) = Len(r) + 1 /\ UniqueKeys(m)
        /\ \A i \in DOMAIN m : m[i] = c[p] \/ \E j \in DOMAIN r : m[i] = r[j]
    BY <1>3, <1>4, <1>5, AppendedEntries
  <1>7. \A i \in DOMAIN m : \E j \in DOMAIN c : m[i] = c[j]
    BY <1>1, <1>2, <1>4, <1>6
  <1> QED
    BY <1>1, <1>4, <1>6, <1>7 DEF m

-----------------------------------------------------------------------------
(* what a step of a thread does                                            *)

\* The type invariant and what it rests on.
TypeInv ==
    /\ TypeOK
    /\ \A p \in Procs, e \in Entities : engine[p][e] =< ingests
    /\ \A p \in Procs : UniqueKeys(l1[p])
    /\ \A t \in Threads : pc[t] \in {"set1", "set2", "fill"} => snap[t] # NoSnap

CacheOK(c) ==
    /\ c \in [Procs -> Seq(Entries)]
    /\ \A p \in Procs : Len(c[p]) =< CacheCapacity /\ UniqueKeys(c[p])

Step(t) ==
    \/ t \in Writers /\ IngestStep(t)
    \/ t \in Readers /\ GetStep(t)
    \/ Store(t)

LEMMA NextSteps ==
    Next <=> \/ \E t \in Threads : Step(t)
             \/ \E p \in Procs : ClearCache(p)
             \/ \E e \in Entities : Expire(e)
  BY StoreAssumption DEF Next, Step

Putting(t) == pc[t] \in {"set1", "fill"}

\* The entries of the caches after a step of t: those that were there, except
\* that t may put what it has computed or read in the place of the one for its
\* entity in its process's cache.
Kept(t, p, x) ==
    \/ /\ \E j \in DOMAIN l1[p] : x = l1[p][j]
       /\ p = Home[t] /\ Putting(t) => x.key # entity[t]
    \/ p = Home[t] /\ Putting(t) /\ x = [key |-> entity[t], value |-> snap[t]]

LEMMA PutEntries ==
    ASSUME TypeInv, NEW t \in Threads, Putting(t),
           l1' = [l1 EXCEPT ![Home[t]] = Stored(@, entity[t], snap[t])]
    PROVE  CacheOK(l1') /\ \A p \in Procs : \A i \in DOMAIN l1'[p] : Kept(t, p, l1'[p][i])
  <1> DEFINE h == Home[t]
             x == [key |-> entity[t], value |-> snap[t]]
             s == Stored(l1[h], entity[t], snap[t])
  <1>1. /\ h \in Procs /\ l1 \in [Procs -> Seq(Entries)]
        /\ \A p \in Procs : Len(l1[p]) =< CacheCapacity /\ UniqueKeys(l1[p])
    BY StoreAssumption DEF TypeInv, TypeOK, Entries
  <1>2. x \in Entries
    <2>1. entity[t] \in Entities /\ snap[t] \in Snap /\ snap[t] # NoSnap
      BY DEF TypeInv, TypeOK, Putting
    <2> QED
      BY <2>1 DEF Entries, Entry
  <1>3. /\ s \in Seq(Entries) /\ Len(s) =< CacheCapacity /\ UniqueKeys(s)
        /\ \A i \in DOMAIN s : \/ s[i] = x
                               \/ s[i].key # entity[t] /\ \E j \in DOMAIN l1[h] : s[i] = l1[h][j]
    <2>1. l1[h] \in Seq(Entries) /\ Len(l1[h]) =< CacheCapacity /\ UniqueKeys(l1[h])
      BY <1>1
    <2> HIDE DEF h
    <2> QED
      BY <1>2, <2>1, StoredEntries
  <1>4. l1' = [l1 EXCEPT ![h] = s]
    BY <1>1
  <1> HIDE DEF s
  <1>5. CacheOK(l1')
    BY <1>1, <1>3, <1>4 DEF CacheOK
  <1>6. ASSUME NEW p \in Procs, NEW i \in DOMAIN l1'[p] PROVE Kept(t, p, l1'[p][i])
    <2>1. CASE p = h
      BY <1>1, <1>3, <1>4, <2>1 DEF Kept
    <2>2. CASE p # h
      BY <1>1, <1>4, <2>2 DEF Kept
    <2> QED
      BY <2>1, <2>2
  <1> QED
    BY <1>5, <1>6

LEMMA HitEntries ==
    ASSUME TypeInv, NEW t \in Threads, ~ Putting(t), NEW e \in KeysOf(l1[Home[t]]),
           l1' = [l1 EXCEPT ![Home[t]] = MovedToEnd(l1[Home[t]], e)]
    PROVE  CacheOK(l1') /\ \A p \in Procs : \A i \in DOMAIN l1'[p] : Kept(t, p, l1'[p][i])
  <1> DEFINE h == Home[t]
             s == MovedToEnd(l1[h], e)
  <1>1. /\ h \in Procs /\ l1 \in [Procs -> Seq(Entries)]
        /\ \A p \in Procs : Len(l1[p]) =< CacheCapacity /\ UniqueKeys(l1[p])
    BY StoreAssumption DEF TypeInv, TypeOK, Entries
  <1>2. /\ s \in Seq(Entries) /\ Len(s) =< CacheCapacity /\ UniqueKeys(s)
        /\ \A i \in DOMAIN s : \E j \in DOMAIN l1[h] : s[i] = l1[h][j]
    <2>1. l1[h] \in Seq(Entries) /\ Len(l1[h]) =< CacheCapacity /\ UniqueKeys(l1[h])
      BY <1>1
    <2>2. e \in KeysOf(l1[h])
      OBVIOUS
    <2> HIDE DEF h
    <2> QED
      BY <2>1, <2>2, MovedEntries
  <1>3. l1' = [l1 EXCEPT ![h] = s]
    OBVIOUS
  <1> HIDE DEF s
  <1>4. CacheOK(l1')
    BY <1>1, <1>2, <1>3 DEF CacheOK
  <1>5. ASSUME NEW p \in Procs, NEW i \in DOMAIN l1'[p] PROVE Kept(t, p, l1'[p][i])
    <2>1. CASE p = h
      BY <1>1, <1>2, <1>3, <2>1 DEF Kept
    <2>2. CASE p # h
      BY <1>1, <1>3, <2>2 DEF Kept
    <2> QED
      BY <2>1, <2>2
  <1> QED
    BY <1>4, <1>5

LEMMA CacheStep ==
    ASSUME TypeInv, NEW t \in Threads, Step(t)
    PROVE  CacheOK(l1') /\ \A p \in Procs : \A i \in DOMAIN l1'[p] : Kept(t, p, l1'[p][i])
  <1>1. CASE SetL1(t) \/ FillL1(t)
    <2>1. /\ Putting(t)
          /\ l1' = [l1 EXCEPT ![Home[t]] = Stored(@, entity[t], snap[t])]
      BY <1>1 DEF SetL1, FillL1, Goto, Putting
    <2> QED
      BY <2>1, PutEntries
  <1>2. ASSUME UNCHANGED l1, ~ Putting(t)
        PROVE  CacheOK(l1') /\ \A p \in Procs : \A i \in DOMAIN l1'[p] : Kept(t, p, l1'[p][i])
    BY <1>2 DEF CacheOK, Kept, TypeInv, TypeOK, Entries
  <1>3. ASSUME NEW e \in Serves[t], GetL1(t, e)
        PROVE  CacheOK(l1') /\ \A p \in Procs : \A i \in DOMAIN l1'[p] : Kept(t, p, l1'[p][i])
    <2>1. ~ Putting(t)
      BY <1>3 DEF GetL1, Goto, Putting
    <2>2. \/ UNCHANGED l1
          \/ /\ e \in KeysOf(l1[Home[t]])
             /\ l1' = [l1 EXCEPT ![Home[t]] = MovedToEnd(l1[Home[t]], e)]
      BY <1>3 DEF GetL1
    <2> QED
      BY <1>2, <2>1, <2>2, HitEntries
  <1>4. CASE Compute(t) \/ SetL2(t) \/ CountWrite(t) \/ GetL2(t)
    <2>1. UNCHANGED l1 /\ ~ Putting(t)
      BY <1>4 DEF Compute, SetL2, CountWrite, GetL2, Goto, Putting, tiers
    <2> QED
      BY <1>2, <2>1
  <1>5. ASSUME NEW e \in Serves[t], Record(t, e)
        PROVE  UNCHANGED l1 /\ ~ Putting(t)
    BY <1>5 DEF Record, Goto, Putting, tiers
  <1> QED
    BY <1>1, <1>2, <1>3, <1>4, <1>5 DEF Step, IngestStep, GetStep, Store

-----------------------------------------------------------------------------
(* types                                                                   *)

\* The type invariant of everything but the caches.
RestOK ==
    /\ engine \in [Procs -> [Entities -> 0 .. MaxIngests]]
    /\ l2 \in [Entities -> Snap] /\ writes \in [Procs -> Nat]
    /\ ingests \in 0 .. MaxIngests /\ gets \in 0 .. MaxGets
    /\ pc \in [Threads -> {"idle", "compute", "set1", "set2", "count", "get2", "fill"}]
    /\ call \in [Threads -> {"none", "ingest", "get"}]
    /\ entity \in [Threads -> Entities]
    /\ snap \in [Threads -> Snap] /\ result \in [Threads -> [Entities -> Snap]]
    /\ acked \in [Entities -> Nat] /\ floor \in [Threads -> Nat]
    /\ \A p \in Procs, e \in Entities : engine[p][e] =< ingests
    /\ \A t \in Threads : pc[t] \in {"set1", "set2", "fill"} => snap[t] # NoSnap

\* And of the history of the answers.
AnswersOK ==
    /\ last \in [Procs -> [Entities -> Snap]] /\ newest \in [Procs -> [Entities -> Snap]]
    /\ lapsed \subseteq Entities

LEMMA TypeParts == TypeInv <=> RestOK /\ CacheOK(l1) /\ AnswersOK
  BY DEF TypeInv, TypeOK, RestOK, CacheOK, AnswersOK, Entries

LEMMA Constants ==
    /\ MaxIngests \in Nat /\ MaxGets \in Nat /\ Home \in [Threads -> Procs]
    /\ \A t \in Threads : Serves[t] \subseteq Entities
    /\ 0 .. MaxIngests \subseteq Snap /\ NoSnap \in Snap
    /\ \A n \in 0 .. MaxIngests : n # NoSnap
  BY StoreAssumption DEF Snap, NoSnap

\* What changing one place of a table does.
LEMMA Updated ==
    ASSUME NEW A, NEW B, NEW C, NEW f \in [A -> [B -> C]], NEW a \in A, NEW b \in B, NEW c \in C
    PROVE  /\ [f EXCEPT ![a][b] = c] \in [A -> [B -> C]]
           /\ \A x \in A, y \in B :
                [f EXCEPT ![a][b] = c][x][y] = IF x = a /\ y = b THEN c ELSE f[x][y]
  OBVIOUS

LEMMA RestStep == ASSUME TypeInv, NEW t \in Threads, Step(t) PROVE RestOK'
  <1> USE Constants
  <1>0. RestOK /\ CacheOK(l1)
    BY TypeParts
  <1>1. ASSUME NEW e \in Serves[t], Record(t, e) PROVE RestOK'
    <2>1. e \in Entities /\ Home[t] \in Procs
      OBVIOUS
    <2> DEFINE n == engine[Home[t]][e] + 1
    <2>2. ingests' = ingests + 1 /\ ingests' \in 0 .. MaxIngests
      BY <1>0, <1>1 DEF Record, RestOK
    <2>3. n \in 0 .. MaxIngests /\ n =< ingests'
      BY <1>0, <2>1, <2>2 DEF RestOK
    <2>a. engine' = [engine EXCEPT ![Home[t]][e] = n]
      BY <1>1 DEF Record
    <2> HIDE DEF n
    <2>b. /\ engine' \in [Procs -> [Entities -> 0 .. MaxIngests]]
          /\ \A p \in Procs, f \in Entities :
                engine'[p][f] = IF p = Home[t] /\ f = e THEN n ELSE engine[p][f]
      <3> DEFINE h == Home[t]
                 C == 0 .. MaxIngests
      <3>1. h \in Procs /\ e \in Entities /\ n \in C /\ engine \in [Procs -> [Entities -> C]]
        BY <1>0, <2>1, <2>3 DEF RestOK
      <3>2. engine' = [engine EXCEPT ![h][e] = n]
        BY <2>a
      <3> HIDE DEF h, C
      <3>3. /\ [engine EXCEPT ![h][e] = n] \in [Procs -> [Entities -> C]]
            /\ \A p \in Procs, f \in Entities :
                  [engine EXCEPT ![h][e] = n][p][f] = IF p = h /\ f = e THEN n ELSE engine[p][f]
        BY <3>1, Updated
      <3> QED
        BY <3>2, <3>3 DEF h, C
    <2>4. \A p \in Procs, f \in Entities : engine'[p][f] =< ingests'
      BY <1>0, <2>2, <2>3, <2>a, <2>b DEF RestOK
    <2>5. engine' \in [Procs -> [Entities -> 0 .. MaxIngests]]
      BY <2>a, <2>b
    <2>6. /\ pc' = [pc EXCEPT ![t] = "compute"]
          /\ call' = [call EXCEPT ![t] = "ingest"] /\ entity' = [entity EXCEPT ![t] = e]
          /\ UNCHANGED <<l2, writes, gets, snap, result, acked, floor>>
      BY <1>1 DEF Record, Goto, Enter, tiers, answers
    <2> QED
      BY <1>0, <2>1, <2>2, <2>4, <2>5, <2>6 DEF RestOK
  <1>2. CASE Compute(t)
    <2>1. engine[Home[t]][entity[t]] \in 0 .. MaxIngests
      BY <1>0 DEF RestOK
    <2> QED
      BY <1>0, <1>2, <2>1 DEF Compute, Goto, RestOK, tiers, local, answers
  <1>3. CASE SetL1(t)
    BY <1>0, <1>3 DEF SetL1, Goto, RestOK, local, answers
  <1>4. CASE SetL2(t)
    <2>1. entity[t] \in Entities /\ snap[t] \in Snap
      BY <1>0 DEF RestOK
    <2>2. l2' \in [Entities -> Snap]
      BY <1>0, <1>4, <2>1 DEF SetL2, WriteL2, RestOK
    <2>a. [result EXCEPT ![t][entity[t]] = snap[t]] \in [Threads -> [Entities -> Snap]]
      BY <1>0, <2>1, Updated DEF RestOK
    <2>3. result' \in [Threads -> [Entities -> Snap]]
      BY <1>0, <1>4, <2>a DEF SetL2, Answer, RestOK, answers
    <2> QED
      BY <1>0, <1>4, <2>2, <2>3 DEF SetL2, Goto, RestOK, local
  <1>5. CASE CountWrite(t)
    <2>1. writes' \in [Procs -> Nat] /\ acked' \in [Entities -> Nat]
      BY <1>0, <1>5 DEF CountWrite, RestOK
    <2> QED
      BY <1>0, <1>5, <2>1 DEF CountWrite, Goto, RestOK, tiers, local, answers
  <1>6. ASSUME NEW e \in Serves[t], GetL1(t, e) PROVE RestOK'
    <2>1. e \in Entities /\ Home[t] \in Procs
      OBVIOUS
    <2>2. gets' \in 0 .. MaxGets /\ floor' \in [Threads -> Nat]
          /\ call' \in [Threads -> {"none", "ingest", "get"}] /\ entity' \in [Threads -> Entities]
      BY <1>0, <1>6, <2>1 DEF GetL1, Enter, RestOK
    <2>3. ASSUME e \in KeysOf(l1[Home[t]]) PROVE ValueOf(l1[Home[t]], e) \in Snap
      <3>1. PositionOf(l1[Home[t]], e) \in DOMAIN l1[Home[t]]
        BY <2>3, PositionOfKey
      <3>2. l1[Home[t]] \in Seq(Entries)
        BY <1>0, <2>1 DEF CacheOK
      <3>3. \A i \in DOMAIN l1[Home[t]] : l1[Home[t]][i] \in Entries
        BY <3>2
      <3> QED
        BY <3>1, <3>3 DEF ValueOf, Entries, Entry
    <2>a. ASSUME e \in KeysOf(l1[Home[t]])
          PROVE  [result EXCEPT ![t][e] = ValueOf(l1[Home[t]], e)] \in [Threads -> [Entities -> Snap]]
      <3> DEFINE x == ValueOf(l1[Home[t]], e)
      <3>1. x \in Snap /\ e \in Entities /\ result \in [Threads -> [Entities -> Snap]]
        BY <1>0, <2>1, <2>3, <2>a DEF RestOK
      <3> HIDE DEF x
      <3>2. [result EXCEPT ![t][e] = x] \in [Threads -> [Entities -> Snap]]
        BY <3>1, Updated
      <3> QED
        BY <3>2 DEF x
    <2>4. /\ result' \in [Threads -> [Entities -> Snap]]
          /\ \E to \in {"idle", "get2"} : pc' = [pc EXCEPT ![t] = to]
      BY <1>0, <1>6, <2>a DEF GetL1, Goto, Answer, RestOK, answers
    <2>5. UNCHANGED <<engine, l2, writes, ingests, snap, acked>>
      BY <1>6 DEF GetL1
    <2> QED
      BY <1>0, <2>2, <2>4, <2>5 DEF RestOK
  <1>7. CASE GetL2(t)
    BY <1>0, <1>7 DEF GetL2, Goto, RestOK, tiers, local, answers
  <1>8. CASE FillL1(t)
    <2>1. result' \in [Threads -> [Entities -> Snap]]
      BY <1>0, <1>8 DEF FillL1, Answer, RestOK
    <2> QED
      BY <1>0, <1>8, <2>1 DEF FillL1, Goto, RestOK, local
  <1> QED
    BY <1>1, <1>2, <1>3, <1>4, <1>5, <1>6, <1>7, <1>8 DEF Step, IngestStep, GetStep, Store

\* An answer is recorded, of the entity the thread is about, or none is given.
LEMMA AnswerGiven ==
    ASSUME TypeInv, NEW t \in Threads, Step(t)
    PROVE  UNCHANGED answers \/ \E s \in Snap : Answer(t, entity'[t], s)
  <1>1. RestOK /\ CacheOK(l1) /\ Home[t] \in Procs /\ Serves[t] \subseteq Entities
    BY TypeParts, Constants
  <1>2. CASE SetL2(t) \/ FillL1(t)
    <2>1. snap[t] \in Snap /\ entity' = entity
      BY <1>1, <1>2 DEF SetL2, FillL1, RestOK, local
    <2>2. UNCHANGED answers \/ Answer(t, entity'[t], snap[t])
      BY <1>2, <2>1 DEF SetL2, FillL1
    <2> QED
      BY <2>1, <2>2
  <1>3. ASSUME NEW e \in Serves[t], GetL1(t, e)
        PROVE  UNCHANGED answers \/ \E s \in Snap : Answer(t, entity'[t], s)
    <2>1. CASE UNCHANGED answers
      BY <2>1
    <2>2. CASE ~ UNCHANGED answers
      <3>1. e \in KeysOf(l1[Home[t]]) /\ Answer(t, e, ValueOf(l1[Home[t]], e)) /\ entity'[t] = e
        BY <1>1, <1>3, <2>2 DEF GetL1, Enter, RestOK, answers
      <3>2. ValueOf(l1[Home[t]], e) \in Snap
        <4>1. PositionOf(l1[Home[t]], e) \in DOMAIN l1[Home[t]]
          BY <3>1, PositionOfKey
        <4>2. l1[Home[t]] \in Seq(Entries)
          BY <1>1 DEF CacheOK
        <4>3. \A i \in DOMAIN l1[Home[t]] : l1[Home[t]][i] \in Entries
          BY <4>2
        <4> QED
          BY <4>1, <4>3 DEF ValueOf, Entries, Entry
      <3> QED
        BY <3>1, <3>2
    <2> QED
      BY <2>1, <2>2
  <1>4. CASE Compute(t) \/ SetL1(t) \/ CountWrite(t) \/ GetL2(t) \/ \E e \in Serves[t] : Record(t, e)
    BY <1>4 DEF Compute, SetL1, CountWrite, GetL2, Record
  <1> QED
    BY <1>2, <1>3, <1>4 DEF Step, IngestStep, GetStep, Store

LEMMA AnswersStep == ASSUME TypeInv, NEW t \in Threads, Step(t) PROVE AnswersOK'
  <1>1. RestOK /\ AnswersOK /\ Home[t] \in Procs /\ RestOK'
    BY TypeParts, RestStep, Constants
  <1>2. lapsed' \subseteq Entities
    <2>1. CASE GetL2(t)
      BY <1>1, <2>1 DEF GetL2, RestOK, AnswersOK
    <2>2. CASE ~ GetL2(t)
      <3>1. lapsed' = lapsed
        BY <2>2 DEF Step, IngestStep, GetStep, Store, Record, Compute, SetL1, SetL2, CountWrite,
                    GetL1, FillL1
      <3> QED
        BY <1>1, <3>1 DEF AnswersOK
    <2> QED
      BY <2>1, <2>2
  <1>3. CASE UNCHANGED answers
    BY <1>1, <1>2, <1>3 DEF AnswersOK, answers
  <1>4. ASSUME NEW s \in Snap, Answer(t, entity'[t], s) PROVE AnswersOK'
    <2> DEFINE h == Home[t]
               x == entity'[t]
    <2>1. /\ h \in Procs /\ x \in Entities
          /\ last \in [Procs -> [Entities -> Snap]] /\ newest \in [Procs -> [Entities -> Snap]]
      BY <1>1 DEF RestOK, AnswersOK
    <2>2. /\ last' = [last EXCEPT ![h][x] = s]
          /\ newest' = [newest EXCEPT ![h][x] = IF newest[h][x] < s THEN s ELSE newest[h][x]]
      BY <1>4, <2>1 DEF Answer
    <2> HIDE DEF h, x
    <2>3. (IF newest[h][x] < s THEN s ELSE newest[h][x]) \in Snap
      BY <2>1
    <2>4. last' \in [Procs -> [Entities -> Snap]] /\ newest' \in [Procs -> [Entities -> Snap]]
      BY <2>1, <2>2, <2>3, Updated
    <2> QED
      BY <1>2, <2>4 DEF AnswersOK
  <1> QED
    BY <1>3, <1>4, AnswerGiven

LEMMA TypeNext == TypeInv /\ [Next]_vars => TypeInv'
  <1> SUFFICES ASSUME TypeInv, [Next]_vars PROVE TypeInv'
    OBVIOUS
  <1>1. ASSUME NEW t \in Threads, Step(t) PROVE TypeInv'
    <2>1. RestOK' /\ CacheOK(l1') /\ AnswersOK'
      BY <1>1, RestStep, CacheStep, AnswersStep
    <2> QED
      BY <2>1 DEF TypeInv, TypeOK, RestOK, CacheOK, AnswersOK, Entries
  <1>2. ASSUME NEW p \in Procs, ClearCache(p) PROVE TypeInv'
    <2>1. /\ l1' = [l1 EXCEPT ![p] = << >>]
          /\ UNCHANGED <<engine, l2, writes, ingests, gets, pc, call, entity, snap, result,
                         last, newest, lapsed, acked, floor>>
      BY <1>2 DEF ClearCache, local, answers
    <2>2. CacheOK(l1')
      BY <2>1, TypeParts, CacheCapacityAssumption DEF CacheOK, UniqueKeys
    <2>3. RestOK' /\ AnswersOK'
      BY <2>1, TypeParts DEF RestOK, AnswersOK
    <2> QED
      BY <2>2, <2>3 DEF TypeInv, TypeOK, RestOK, CacheOK, AnswersOK, Entries
  <1>3. ASSUME NEW e \in Entities, Expire(e) PROVE TypeInv'
    <2>1. RestOK' /\ AnswersOK'
      BY <1>3, TypeParts, Constants DEF Expire, RestOK, AnswersOK, local, answers
    <2>2. l1' = l1
      BY <1>3 DEF Expire
    <2> QED
      BY <2>1, <2>2, TypeParts DEF TypeInv, TypeOK, RestOK, CacheOK, AnswersOK, Entries
  <1>4. CASE UNCHANGED vars
    BY <1>4 DEF TypeInv, TypeOK, vars, tiers, local, answers
  <1> QED
    BY <1>1, <1>2, <1>3, <1>4, NextSteps

LEMMA TypeInit == Init => TypeInv
  <1> SUFFICES ASSUME Init PROVE TypeInv
    OBVIOUS
  <1>1. entity \in [Threads -> Entities]
    BY StoreAssumption DEF Init
  <1>2. RestOK
    BY <1>1, Constants DEF Init, RestOK
  <1>3. CacheOK(l1)
    BY CacheCapacityAssumption DEF Init, CacheOK, UniqueKeys
  <1>4. AnswersOK
    BY Constants DEF Init, AnswersOK
  <1> QED
    BY <1>2, <1>3, <1>4, TypeParts

LEMMA TypeInvCorrect == Spec => []TypeInv
  BY TypeInit, TypeNext, PTL DEF Spec

\* The variables have the shapes that the code gives them, and no L1 exceeds its
\* capacity, for any processes, threads and entities and any Redis.
THEOREM TypeCorrect == Spec => []TypeOK
  <1>1. TypeInv => TypeOK
    BY DEF TypeInv
  <1> QED
    BY <1>1, TypeInvCorrect, PTL

-----------------------------------------------------------------------------
(* the locals and the engine                                               *)

LEMMA LocalsStep ==
    ASSUME TypeInv, NEW t \in Threads, Step(t), NEW u \in Threads, u # t
    PROVE  /\ pc'[u] = pc[u] /\ call'[u] = call[u] /\ entity'[u] = entity[u]
           /\ snap'[u] = snap[u] /\ floor'[u] = floor[u] /\ result'[u] = result[u]
  <1>1. RestOK
    BY TypeParts
  <1>2. ASSUME NEW e \in Serves[t], Record(t, e) \/ GetL1(t, e)
        PROVE  /\ pc'[u] = pc[u] /\ call'[u] = call[u] /\ entity'[u] = entity[u]
               /\ snap'[u] = snap[u] /\ floor'[u] = floor[u] /\ result'[u] = result[u]
    BY <1>1, <1>2 DEF Record, GetL1, Goto, Enter, Answer, RestOK, answers
  <1>3. CASE Compute(t) \/ SetL1(t) \/ GetL2(t)
    BY <1>1, <1>3 DEF Compute, SetL1, GetL2, Goto, RestOK, local, answers
  <1>4. CASE SetL2(t) \/ CountWrite(t) \/ FillL1(t)
    BY <1>1, <1>4 DEF SetL2, CountWrite, FillL1, Goto, Answer, RestOK, local, answers
  <1> QED
    BY <1>2, <1>3, <1>4 DEF Step, IngestStep, GetStep, Store

\* A transaction is recorded, or the engine is left alone.
Recording(t, e) ==
    /\ t \in Writers /\ e \in Serves[t]
    /\ pc[t] = "idle" /\ pc'[t] = "compute" /\ call'[t] = "ingest" /\ entity'[t] = e
    /\ engine'[Home[t]][e] = engine[Home[t]][e] + 1
    /\ \A p \in Procs, f \in Entities :
         p # Home[t] \/ f # e => engine'[p][f] = engine[p][f]
    /\ UNCHANGED <<l1, l2, acked>>
    /\ snap'[t] = snap[t] /\ floor'[t] = floor[t]

LEMMA EngineStep ==
    ASSUME TypeInv, NEW t \in Threads, Step(t)
    PROVE  UNCHANGED engine \/ \E e \in Serves[t] : Recording(t, e)
  <1>1. RestOK /\ Home[t] \in Procs /\ Serves[t] \subseteq Entities
    BY TypeParts, Constants
  <1>2. ASSUME NEW e \in Serves[t], Record(t, e), t \in Writers PROVE Recording(t, e)
    <2> DEFINE h == Home[t]
               C == 0 .. MaxIngests
    <2>1. h \in Procs /\ e \in Entities /\ engine \in [Procs -> [Entities -> C]]
      BY <1>1 DEF RestOK
    <2>2. engine' = [engine EXCEPT ![h][e] = engine[h][e] + 1]
      BY <1>2 DEF Record
    <2> HIDE DEF h, C
    <2>3. /\ engine'[h][e] = engine[h][e] + 1
          /\ \A p \in Procs, f \in Entities : p # h \/ f # e => engine'[p][f] = engine[p][f]
      BY <2>1, <2>2
    <2>4. /\ pc[t] = "idle" /\ pc'[t] = "compute" /\ call'[t] = "ingest" /\ entity'[t] = e
          /\ UNCHANGED <<l1, l2, acked>> /\ snap'[t] = snap[t] /\ floor'[t] = floor[t]
      BY <1>1, <1>2 DEF Record, Goto, Enter, RestOK, tiers
    <2> QED
      BY <1>2, <2>3, <2>4 DEF Recording, h
  <1>3. ASSUME NEW e \in Serves[t], GetL1(t, e) PROVE UNCHANGED engine
    BY <1>3 DEF GetL1
  <1>4. CASE Compute(t) \/ SetL1(t) \/ SetL2(t) \/ CountWrite(t) \/ GetL2(t) \/ FillL1(t)
    BY <1>4 DEF Compute, SetL1, SetL2, CountWrite, GetL2, FillL1
  <1> QED
    BY <1>2, <1>3, <1>4 DEF Step, IngestStep, GetStep, Store

\* A thread in a call works on an entity it serves.
Serving == \A t \in Threads : pc[t] # "idle" => entity[t] \in Serves[t]

LEMMA ServingNext == TypeInv /\ Serving /\ [Next]_vars => Serving'
  <1> SUFFICES ASSUME TypeInv, Serving, [Next]_vars PROVE Serving'
    OBVIOUS
  <1>1. ASSUME NEW t \in Threads, Step(t) PROVE Serving'
    <2>1. RestOK
      BY TypeParts
    <2>2. ASSUME NEW u \in Threads, u # t PROVE pc'[u] # "idle" => entity'[u] \in Serves[u]
      BY <1>1, <2>2, LocalsStep DEF Serving
    <2>3. pc'[t] # "idle" => entity'[t] \in Serves[t]
      <3>1. ASSUME NEW e \in Serves[t], Record(t, e) \/ GetL1(t, e) PROVE entity'[t] = e
        BY <2>1, <3>1 DEF Record, GetL1, Enter, RestOK
      <3>2. CASE Compute(t) \/ SetL1(t) \/ SetL2(t) \/ CountWrite(t) \/ GetL2(t) \/ FillL1(t)
        <4>1. pc[t] # "idle" /\ entity'[t] = entity[t]
          BY <3>2 DEF Compute, SetL1, SetL2, CountWrite, GetL2, FillL1, Goto, local
        <4> QED
          BY <4>1 DEF Serving
      <3> QED
        BY <1>1, <3>1, <3>2 DEF Step, IngestStep, GetStep, Store
    <2> QED
      BY <2>2, <2>3 DEF Serving
  <1>2. CASE (\E p \in Procs : ClearCache(p)) \/ (\E e \in Entities : Expire(e)) \/ UNCHANGED vars
    BY <1>2 DEF ClearCache, Expire, vars, local, Serving
  <1> QED
    BY <1>1, <1>2, NextSteps

\* What a thread t that steps leaves as it was for a thread u it shares no
\* entity with, or no process.
LEMMA OtherThread ==
    ASSUME TypeInv, Serving, NEW t \in Threads, Step(t), NEW u \in Threads, u # t,
           NEW e \in Serves[u], Home[t] = Home[u] => e \notin Serves[t]
    PROVE  /\ engine'[Home[u]][e] = engine[Home[u]][e]
           /\ \A i \in DOMAIN l1'[Home[u]] : l1'[Home[u]][i].key = e =>
                \E j \in DOMAIN l1[Home[u]] : l1'[Home[u]][i] = l1[Home[u]][j]
  <1>1. Home[u] \in Procs /\ e \in Entities /\ Home[t] \in Procs
    BY Constants
  <1>2. engine'[Home[u]][e] = engine[Home[u]][e]
    <2>1. CASE UNCHANGED engine
      BY <2>1
    <2>2. ASSUME NEW f \in Serves[t], Recording(t, f) PROVE engine'[Home[u]][e] = engine[Home[u]][e]
      <3>1. Home[u] # Home[t] \/ e # f
        OBVIOUS
      <3> QED
        BY <1>1, <2>2, <3>1 DEF Recording
    <2> QED
      BY <2>1, <2>2, EngineStep
  <1>3. ASSUME NEW i \in DOMAIN l1'[Home[u]], l1'[Home[u]][i].key = e
        PROVE  \E j \in DOMAIN l1[Home[u]] : l1'[Home[u]][i] = l1[Home[u]][j]
    <2>1. Kept(t, Home[u], l1'[Home[u]][i])
      BY <1>1, CacheStep
    <2>2. Home[u] = Home[t] /\ Putting(t) => entity[t] # e
      BY DEF Serving, Putting
    <2> QED
      BY <1>3, <2>1, <2>2 DEF Kept
  <1> QED
    BY <1>2, <1>3

-----------------------------------------------------------------------------
(* the cache of the process that ingests                                   *)

\* As in feature_store.server: a thread that ingests reads nothing, and shares
\* its entities with no other thread of its process.
WritersApart ==
    /\ Writers \cap Readers = {}
    /\ \A w \in Writers, t \in Threads :
         w # t /\ Home[t] = Home[w] => Serves[w] \cap Serves[t] = {}

\* What process p has in L1 of e is what its engine would compute.
Exact(p, e) == \A i \in DOMAIN l1[p] : l1[p][i].key = e => l1[p][i].value = engine[p][e]

\* Between the recording of a transaction and the write to L1 the entry is old.
ExactInv ==
    \A w \in Writers :
        /\ pc[w] \notin {"get2", "fill"}
        /\ pc[w] = "set1" => snap[w] = engine[Home[w]][entity[w]]
        /\ \A e \in Serves[w] :
             (entity[w] = e /\ pc[w] \in {"compute", "set1"}) \/ Exact(Home[w], e)

LEMMA ExactOwnStep ==
    ASSUME WritersApart, TypeInv, Serving, ExactInv, NEW w \in Writers, Step(w)
    PROVE  /\ pc'[w] \notin {"get2", "fill"}
           /\ pc'[w] = "set1" => snap'[w] = engine'[Home[w]][entity'[w]]
           /\ \A e \in Serves[w] :
                (entity'[w] = e /\ pc'[w] \in {"compute", "set1"}) \/ Exact(Home[w], e)'
  <1> DEFINE h == Home[w]
  <1>1. /\ w \in Threads /\ w \notin Readers /\ RestOK /\ h \in Procs
        /\ Serves[w] \subseteq Entities
    BY StoreAssumption, TypeParts DEF WritersApart
  <1>2. ASSUME NEW f \in Serves[w], Record(w, f)
        PROVE  /\ pc'[w] = "compute" /\ entity'[w] = f
               /\ \A e \in Serves[w] : e # f => Exact(h, e)'
    <2>1. pc[w] = "idle" /\ pc'[w] = "compute" /\ entity'[w] = f /\ l1' = l1
      BY <1>1, <1>2 DEF Record, Goto, Enter, RestOK, tiers
    <2>2. Step(w)
      OBVIOUS
    <2>3. ASSUME NEW e \in Serves[w], e # f PROVE engine'[h][e] = engine[h][e]
      <3>1. CASE UNCHANGED engine
        BY <3>1
      <3>2. CASE \E x \in Serves[w] : Recording(w, x)
        BY <1>1, <2>1, <2>3, <3>2 DEF Recording
      <3> QED
        BY <1>1, <3>1, <3>2, EngineStep
    <2>4. ASSUME NEW e \in Serves[w] PROVE Exact(h, e)
      BY <2>1 DEF ExactInv
    <2> QED
      BY <2>1, <2>3, <2>4 DEF Exact
  <1>3. CASE Compute(w)
    <2>1. /\ pc[w] = "compute" /\ pc'[w] = "set1" /\ entity' = entity /\ l1' = l1 /\ engine' = engine
          /\ snap'[w] = engine[h][entity[w]]
      BY <1>1, <1>3 DEF Compute, Goto, RestOK, tiers, local
    <2> QED
      BY <2>1 DEF ExactInv, Exact
  <1>4. CASE SetL1(w)
    <2>1. /\ pc[w] = "set1" /\ pc'[w] = "set2" /\ entity' = entity /\ engine' = engine
          /\ snap[w] = engine[h][entity[w]]
      BY <1>1, <1>4 DEF SetL1, Goto, RestOK, local, ExactInv
    <2>2. ASSUME NEW e \in Serves[w], NEW i \in DOMAIN l1'[h], l1'[h][i].key = e
          PROVE  l1'[h][i].value = engine[h][e]
      <3>1. Kept(w, h, l1'[h][i])
        BY <1>1, CacheStep
      <3>2. CASE e = entity[w]
        BY <2>1, <2>2, <3>1, <3>2 DEF Kept, Putting
      <3>3. CASE e # entity[w]
        BY <2>1, <2>2, <3>1, <3>3 DEF Kept, Putting, ExactInv, Exact
      <3> QED
        BY <3>2, <3>3
    <2> QED
      BY <2>1, <2>2 DEF Exact
  <1>5. CASE SetL2(w) \/ CountWrite(w)
    <2>1. /\ pc[w] \in {"set2", "count"} /\ pc'[w] \in {"count", "idle"}
          /\ l1' = l1 /\ engine' = engine
      BY <1>1, <1>5 DEF SetL2, CountWrite, Goto, RestOK, tiers
    <2> QED
      BY <2>1 DEF ExactInv, Exact
  <1> QED
    BY <1>1, <1>2, <1>3, <1>4, <1>5 DEF Step, IngestStep, Store

LEMMA ExactNext == WritersApart /\ TypeInv /\ Serving /\ ExactInv /\ [Next]_vars => ExactInv'
  <1> SUFFICES ASSUME WritersApart, TypeInv, Serving, ExactInv, [Next]_vars PROVE ExactInv'
    OBVIOUS
  <1>1. ASSUME NEW t \in Threads, Step(t) PROVE ExactInv'
    <2> SUFFICES ASSUME NEW w \in Writers
                 PROVE  /\ pc'[w] \notin {"get2", "fill"}
                        /\ pc'[w] = "set1" => snap'[w] = engine'[Home[w]][entity'[w]]
                        /\ \A e \in Serves[w] :
                             (entity'[w] = e /\ pc'[w] \in {"compute", "set1"}) \/ Exact(Home[w], e)'
      BY DEF ExactInv
    <2>1. CASE t = w
      BY <1>1, <2>1, ExactOwnStep
    <2>2. CASE t # w
      <3>1. /\ w \in Threads /\ pc'[w] = pc[w] /\ entity'[w] = entity[w] /\ snap'[w] = snap[w]
        BY <1>1, <2>2, LocalsStep, StoreAssumption
      <3>2. ASSUME NEW e \in Serves[w]
            PROVE  /\ engine'[Home[w]][e] = engine[Home[w]][e]
                   /\ Exact(Home[w], e) => Exact(Home[w], e)'
        <4>1. Home[t] = Home[w] => e \notin Serves[t]
          BY <2>2 DEF WritersApart
        <4>2. /\ engine'[Home[w]][e] = engine[Home[w]][e]
              /\ \A i \in DOMAIN l1'[Home[w]] : l1'[Home[w]][i].key = e =>
                   \E j \in DOMAIN l1[Home[w]] : l1'[Home[w]][i] = l1[Home[w]][j]
          BY <1>1, <2>2, <3>1, <4>1, OtherThread
        <4> QED
          BY <4>2 DEF Exact
      <3>3. pc[w] = "set1" => entity[w] \in Serves[w]
        BY <3>1 DEF Serving
      <3> QED
        BY <3>1, <3>2, <3>3 DEF ExactInv
    <2> QED
      BY <2>1, <2>2
  <1>2. ASSUME NEW p \in Procs, ClearCache(p) PROVE ExactInv'
    <2>1. /\ UNCHANGED <<pc, entity, snap, engine>> /\ l1' = [l1 EXCEPT ![p] = << >>]
      BY <1>2 DEF ClearCache, local
    <2>2. ASSUME NEW q \in Procs, NEW e, Exact(q, e) PROVE Exact(q, e)'
      BY <2>1, <2>2, TypeParts DEF Exact, CacheOK
    <2>3. \A w \in Writers : Home[w] \in Procs
      BY StoreAssumption
    <2> QED
      BY <2>1, <2>2, <2>3 DEF ExactInv
  <1>3. CASE (\E e \in Entities : Expire(e)) \/ UNCHANGED vars
    BY <1>3 DEF Expire, vars, tiers, local, ExactInv, Exact
  <1> QED
    BY <1>1, <1>2, <1>3, NextSteps

-----------------------------------------------------------------------------
(* a thread for every entity                                               *)

\* As when one process ingests and reads, each entity on a thread of its own.
Owned == \A t, u \in Threads : t # u => Serves[t] \cap Serves[u] = {}

\* Redis keeps what it is given, or was never there.
SetsKept == ~ RedisUp \/ ~ SetMayFail

Ingesting(t, e) == call[t] = "ingest" /\ entity[t] = e /\ pc[t] # "idle"

\* What holds of an entity e and of the thread t that serves it.
OwnerOK(t, e) ==
    /\ (Ingesting(t, e) /\ pc[t] \in {"compute", "set1"}) \/ Exact(Home[t], e)
    /\ \/ Ingesting(t, e) /\ pc[t] \in {"compute", "set1", "set2"}
       \/ l2[e] \in {NoSnap, engine[Home[t]][e]}
    /\ acked[e] =< engine[Home[t]][e]
    /\ Ingesting(t, e) => acked[e] < engine[Home[t]][e]

\* And of what the thread has in hand.
LocalOK(t) ==
    /\ pc[t] \in {"set1", "set2", "fill"} => snap[t] = engine[Home[t]][entity[t]]
    /\ pc[t] \in {"get2", "fill"} => call[t] = "get"
    /\ pc[t] = "count" => call[t] = "ingest"
    /\ call[t] = "get" /\ pc[t] # "idle" => floor[t] =< engine[Home[t]][entity[t]]
    /\ Answered(t) => result[t][entity[t]] >= floor[t]

OwnedInv ==
    /\ \A t \in Threads : LocalOK(t) /\ \A e \in Serves[t] : OwnerOK(t, e)
    /\ ~ RedisUp => \A e \in Entities : l2[e] = NoSnap

LEMMA OwnRecord ==
    ASSUME TypeInv, Serving, OwnedInv, NEW t \in Threads, NEW f \in Serves[t], Recording(t, f)
    PROVE  /\ LocalOK(t)' /\ (\A e \in Serves[t] : OwnerOK(t, e)') /\ UNCHANGED l2
  <1>1. RestOK /\ Home[t] \in Procs /\ Serves[t] \subseteq Entities
    BY TypeParts, Constants
  <1>2. /\ pc[t] = "idle" /\ pc'[t] = "compute" /\ call'[t] = "ingest" /\ entity'[t] = f
        /\ engine'[Home[t]][f] = engine[Home[t]][f] + 1
        /\ UNCHANGED <<l1, l2, acked>>
        /\ \A e \in Serves[t] : e # f => engine'[Home[t]][e] = engine[Home[t]][e]
    BY <1>1 DEF Recording
  <1>3. \A e \in Serves[t] : /\ Exact(Home[t], e)
                            /\ l2[e] \in {NoSnap, engine[Home[t]][e]}
                            /\ acked[e] =< engine[Home[t]][e]
    BY <1>2 DEF OwnedInv, OwnerOK
  <1>4. acked[f] \in Nat /\ engine[Home[t]][f] \in Nat
    BY <1>1, Constants DEF RestOK
  <1>5. LocalOK(t)'
    BY <1>2 DEF LocalOK, Answered
  <1>6. ASSUME NEW e \in Serves[t] PROVE OwnerOK(t, e)'
    <2>1. CASE e = f
      <3>1. Ingesting(t, e)'
        BY <1>2, <2>1 DEF Ingesting
      <3>2. acked'[e] < engine'[Home[t]][e]
        BY <1>2, <1>3, <1>4, <2>1
      <3>3. acked'[e] =< engine'[Home[t]][e]
        BY <1>2, <1>3, <1>4, <2>1
      <3> QED
        BY <1>2, <3>1, <3>2, <3>3 DEF OwnerOK
    <2>2. CASE e # f
      BY <1>2, <1>3, <2>2 DEF OwnerOK, Ingesting, Exact
    <2> QED
      BY <2>1, <2>2
  <1> QED
    BY <1>2, <1>5, <1>6

LEMMA OwnIngestStep ==
    ASSUME TypeInv, Serving, OwnedInv, SetsKept, NEW t \in Threads,
           Compute(t) \/ SetL1(t) \/ SetL2(t) \/ CountWrite(t)
    PROVE  /\ LocalOK(t)' /\ (\A e \in Serves[t] : OwnerOK(t, e)')
           /\ \A e \in Entities : l2'[e] = l2[e] \/ (RedisUp /\ e = entity[t])
  <1>1. RestOK /\ Home[t] \in Procs /\ Serves[t] \subseteq Entities
    BY TypeParts, Constants
  <1>2. /\ pc[t] # "idle" /\ entity[t] \in Serves[t] /\ entity[t] \in Entities
        /\ entity' = entity /\ call' = call /\ floor' = floor /\ engine' = engine
    BY <1>1 DEF Serving, Compute, SetL1, SetL2, CountWrite, Goto, local
  <1>3. /\ LocalOK(t) /\ \A e \in Serves[t] : OwnerOK(t, e)
    BY DEF OwnedInv
  <1>4. CASE Compute(t)
    <2>1. /\ pc[t] = "compute" /\ pc'[t] = "set1" /\ snap'[t] = engine[Home[t]][entity[t]]
          /\ UNCHANGED <<l1, l2, acked>>
      BY <1>1, <1>4 DEF Compute, Goto, RestOK, tiers
    <2>2. LocalOK(t)'
      BY <1>2, <1>3, <2>1 DEF LocalOK, Answered
    <2>3. \A e \in Serves[t] : OwnerOK(t, e)'
      BY <1>2, <1>3, <2>1 DEF OwnerOK, Ingesting, Exact
    <2> QED
      BY <2>1, <2>2, <2>3
  <1>5. CASE SetL1(t)
    <2>1. /\ pc[t] = "set1" /\ pc'[t] = "set2" /\ snap' = snap
          /\ snap[t] = engine[Home[t]][entity[t]] /\ UNCHANGED <<l2, acked>>
      BY <1>1, <1>3, <1>5 DEF SetL1, Goto, RestOK, LocalOK
    <2>2. ASSUME NEW e \in Serves[t] PROVE Exact(Home[t], e)'
      <3> SUFFICES ASSUME NEW i \in DOMAIN l1'[Home[t]], l1'[Home[t]][i].key = e
                   PROVE  l1'[Home[t]][i].value = engine[Home[t]][e]
        BY <1>2 DEF Exact
      <3>1. Step(t)
        BY <1>5 DEF Step, Store
      <3>2. Kept(t, Home[t], l1'[Home[t]][i])
        BY <1>1, <3>1, CacheStep
      <3>3. CASE e = entity[t]
        BY <2>1, <3>2, <3>3 DEF Kept, Putting
      <3>4. CASE e # entity[t]
        <4>1. Exact(Home[t], e)
          BY <1>3, <3>4 DEF OwnerOK, Ingesting
        <4> QED
          BY <3>2, <3>4, <4>1 DEF Kept, Exact
      <3> QED
        BY <3>3, <3>4
    <2>3. LocalOK(t)'
      BY <1>2, <1>3, <2>1 DEF LocalOK, Answered
    <2>4. \A e \in Serves[t] : OwnerOK(t, e)'
      BY <1>2, <1>3, <2>1, <2>2 DEF OwnerOK, Ingesting
    <2> QED
      BY <2>1, <2>3, <2>4
  <1>6. CASE SetL2(t)
    <2>1. /\ pc[t] = "set2" /\ pc'[t] = IF call[t] = "ingest" THEN "count" ELSE "idle"
          /\ snap' = snap /\ snap[t] = engine[Home[t]][entity[t]] /\ UNCHANGED <<l1, acked>>
      BY <1>1, <1>3, <1>6 DEF SetL2, Goto, RestOK, LocalOK
    <2>2. /\ \A e \in Entities : e # entity[t] => l2'[e] = l2[e]
          /\ RedisUp => l2'[entity[t]] = snap[t]
          /\ ~ RedisUp => l2' = l2 /\ l2[entity[t]] = NoSnap
      BY <1>1, <1>2, <1>6 DEF SetL2, WriteL2, RestOK, SetsKept, OwnedInv
    <2>3. call[t] # "ingest" => result'[t][entity[t]] = snap[t]
      <3> DEFINE x == entity[t]
      <3>1. call[t] # "ingest" => result' = [result EXCEPT ![t][x] = snap[t]]
        BY <1>6 DEF SetL2, Answer
      <3>2. result \in [Threads -> [Entities -> Snap]] /\ x \in Entities
        BY <1>1, <1>2 DEF RestOK
      <3> HIDE DEF x
      <3>3. call[t] # "ingest" => result'[t][x] = snap[t]
        BY <3>1, <3>2
      <3> QED
        BY <3>3 DEF x
    <2>4. LocalOK(t)'
      <3>1. engine[Home[t]][entity[t]] \in Int /\ floor[t] \in Nat
        BY <1>1, <1>2, Constants DEF RestOK
      <3>2. Answered(t)' => result'[t][entity[t]] >= floor[t]
        BY <1>2, <1>3, <2>1, <2>3, <3>1 DEF LocalOK, Answered
      <3> QED
        BY <1>2, <1>3, <2>1, <3>2 DEF LocalOK
    <2>5. ASSUME NEW e \in Serves[t] PROVE OwnerOK(t, e)'
      <3>1. Exact(Home[t], e)
        BY <1>3, <2>1 DEF OwnerOK
      <3>2. l2'[e] \in {NoSnap, engine[Home[t]][e]}
        BY <1>1, <1>3, <2>1, <2>2 DEF OwnerOK, Ingesting
      <3>3. (Ingesting(t, e))' => Ingesting(t, e)
        BY <1>2 DEF Ingesting
      <3> QED
        BY <1>2, <1>3, <2>1, <3>1, <3>2, <3>3 DEF OwnerOK, Exact
    <2> QED
      BY <2>2, <2>4, <2>5
  <1>7. CASE CountWrite(t)
    <2>1. /\ pc[t] = "count" /\ pc'[t] = "idle" /\ call[t] = "ingest" /\ UNCHANGED <<l1, l2>>
          /\ acked'[entity[t]] = acked[entity[t]] + 1
          /\ \A e \in Entities : e # entity[t] => acked'[e] = acked[e]
      BY <1>1, <1>2, <1>3, <1>7 DEF CountWrite, Goto, RestOK, tiers, LocalOK
    <2>2. LocalOK(t)'
      BY <1>2, <1>3, <2>1 DEF LocalOK, Answered
    <2>3. ASSUME NEW e \in Serves[t] PROVE OwnerOK(t, e)'
      <3>1. Exact(Home[t], e) /\ l2[e] \in {NoSnap, engine[Home[t]][e]}
        BY <1>3, <2>1 DEF OwnerOK
      <3>2. acked'[e] =< engine[Home[t]][e]
        <4>1. acked[e] \in Nat /\ engine[Home[t]][e] \in Nat
          BY <1>1, Constants DEF RestOK
        <4>2. CASE e = entity[t]
          <5>1. acked[e] < engine[Home[t]][e]
            BY <1>2, <1>3, <2>1, <4>2 DEF OwnerOK, Ingesting
          <5> QED
            BY <2>1, <4>1, <4>2, <5>1
        <4>3. CASE e # entity[t]
          BY <1>1, <1>3, <2>1, <4>3 DEF OwnerOK
        <4> QED
          BY <4>2, <4>3
      <3>3. ~ (Ingesting(t, e))'
        BY <2>1 DEF Ingesting
      <3> QED
        BY <1>2, <2>1, <3>1, <3>2, <3>3 DEF OwnerOK, Exact
    <2> QED
      BY <2>1, <2>2, <2>3
  <1> QED
    BY <1>4, <1>5, <1>6, <1>7

LEMMA OwnGetStep ==
    ASSUME TypeInv, Serving, OwnedInv, NEW t \in Threads, t \in Readers,
           (\E e \in Serves[t] : GetL1(t, e)) \/ GetL2(t) \/ FillL1(t)
    PROVE  /\ LocalOK(t)' /\ (\A e \in Serves[t] : OwnerOK(t, e)') /\ UNCHANGED l2
  <1>1. RestOK /\ Home[t] \in Procs /\ Serves[t] \subseteq Entities
    BY TypeParts, Constants
  <1>2. /\ LocalOK(t) /\ \A e \in Serves[t] : OwnerOK(t, e)
    BY DEF OwnedInv
  <1>3. UNCHANGED <<engine, l2, acked>>
    BY DEF GetL1, GetL2, FillL1, tiers
  <1>4. ASSUME NEW e \in Serves[t], Exact(Home[t], e), Step(t),
               Putting(t) /\ entity[t] = e => snap[t] = engine[Home[t]][e]
        PROVE  Exact(Home[t], e)'
    <2> SUFFICES ASSUME NEW i \in DOMAIN l1'[Home[t]], l1'[Home[t]][i].key = e
                 PROVE  l1'[Home[t]][i].value = engine[Home[t]][e]
      BY <1>3 DEF Exact
    <2>1. Kept(t, Home[t], l1'[Home[t]][i])
      BY <1>1, <1>4, CacheStep
    <2> QED
      BY <1>4, <2>1 DEF Kept, Exact
  <1>5. ASSUME NEW f \in Serves[t], GetL1(t, f)
        PROVE  LocalOK(t)' /\ \A e \in Serves[t] : OwnerOK(t, e)'
    <2>1. /\ pc[t] = "idle" /\ call'[t] = "get" /\ entity'[t] = f /\ floor'[t] = acked[f]
          /\ f \in Entities
      BY <1>1, <1>5 DEF GetL1, Goto, Enter, RestOK
    <2>2. \A e \in Serves[t] : /\ Exact(Home[t], e)
                              /\ l2[e] \in {NoSnap, engine[Home[t]][e]}
                              /\ acked[e] =< engine[Home[t]][e]
      BY <1>2, <2>1 DEF OwnerOK, Ingesting
    <2>3. Step(t)
      BY <1>5 DEF Step, GetStep
    <2>4. \A e \in Serves[t] : OwnerOK(t, e)'
      BY <1>3, <1>4, <2>1, <2>2, <2>3 DEF OwnerOK, Ingesting, Putting
    <2>5. CASE pc'[t] = "get2"
      BY <1>3, <2>1, <2>2, <2>4, <2>5 DEF LocalOK, Answered
    <2>6. CASE pc'[t] # "get2"
      <3> DEFINE x == ValueOf(l1[Home[t]], f)
      <3>1. /\ f \in KeysOf(l1[Home[t]]) /\ pc'[t] = "idle"
            /\ result' = [result EXCEPT ![t][f] = x]
        BY <1>1, <1>5, <2>6 DEF GetL1, Goto, Answer, RestOK
      <3>2. x = engine[Home[t]][f]
        <4>1. PositionOf(l1[Home[t]], f) \in DOMAIN l1[Home[t]]
              /\ l1[Home[t]][PositionOf(l1[Home[t]], f)].key = f
          BY <3>1, PositionOfKey
        <4> QED
          BY <2>2, <4>1 DEF ValueOf, Exact
      <3> HIDE DEF x
      <3>3. result'[t][f] = x
        BY <1>1, <2>1, <3>1 DEF RestOK
      <3>4. acked[f] \in Nat /\ engine[Home[t]][f] \in Nat
        BY <1>1, <2>1, Constants DEF RestOK
      <3>5. result'[t][entity'[t]] >= floor'[t]
        BY <2>1, <2>2, <3>2, <3>3, <3>4
      <3> QED
        BY <2>1, <2>4, <3>1, <3>5 DEF LocalOK, Answered
    <2> QED
      BY <2>4, <2>5, <2>6
  <1>6. ASSUME GetL2(t) \/ FillL1(t)
        PROVE  /\ pc[t] \in {"get2", "fill"} /\ call[t] = "get" /\ entity[t] \in Serves[t]
               /\ entity' = entity /\ call' = call /\ floor' = floor
               /\ (\A e \in Serves[t] : OwnerOK(t, e)') /\ entity[t] \in Entities
    <2>1. pc[t] \in {"get2", "fill"} /\ entity' = entity /\ call' = call /\ floor' = floor
      BY <1>6 DEF GetL2, FillL1, Goto, local
    <2>2. call[t] = "get" /\ entity[t] \in Serves[t]
      BY <1>2, <2>1 DEF LocalOK, Serving
    <2>3. Step(t)
      BY <1>6 DEF Step, GetStep
    <2>4. Putting(t) => snap[t] = engine[Home[t]][entity[t]]
      BY <1>2, <2>1 DEF LocalOK, Putting
    <2>5. ASSUME NEW e \in Serves[t] PROVE OwnerOK(t, e)'
      <3>1. ~ Ingesting(t, e) /\ ~ (Ingesting(t, e))'
        BY <2>1, <2>2 DEF Ingesting
      <3>2. Exact(Home[t], e)'
        BY <1>2, <1>4, <2>3, <2>4, <3>1 DEF OwnerOK
      <3> QED
        BY <1>2, <1>3, <3>1, <3>2 DEF OwnerOK
    <2> QED
      BY <1>1, <2>1, <2>2, <2>5
  <1>7. CASE GetL2(t)
    <2>1. l2[entity[t]] \in {NoSnap, engine[Home[t]][entity[t]]}
      BY <1>2, <1>6, <1>7 DEF OwnerOK, Ingesting
    <2>2. \/ pc'[t] = "fill" /\ snap'[t] = l2[entity[t]] /\ l2[entity[t]] # NoSnap
          \/ pc'[t] = "compute"
      BY <1>1, <1>7 DEF GetL2, Goto, RestOK
    <2>3. LocalOK(t)'
      BY <1>2, <1>3, <1>6, <1>7, <2>1, <2>2 DEF LocalOK, Answered
    <2> QED
      BY <1>3, <1>6, <1>7, <2>3
  <1>8. CASE FillL1(t)
    <2> DEFINE x == entity[t]
    <2>1. /\ pc[t] = "fill" /\ pc'[t] = "idle" /\ snap[t] = engine[Home[t]][x]
          /\ result' = [result EXCEPT ![t][x] = snap[t]] /\ snap' = snap
      BY <1>1, <1>2, <1>8 DEF FillL1, Goto, Answer, RestOK, LocalOK
    <2>2. result'[t][x] = snap[t]
      <3>1. x \in Entities
        BY <1>6, <1>8
      <3> HIDE DEF x
      <3> QED
        BY <1>1, <2>1, <3>1 DEF RestOK
    <2>3. engine[Home[t]][x] \in Nat /\ floor[t] \in Nat
      BY <1>1, <1>6, <1>8, Constants DEF RestOK
    <2>4. result'[t][x] >= floor[t]
      BY <1>2, <1>6, <1>8, <2>1, <2>2, <2>3 DEF LocalOK
    <2>5. LocalOK(t)'
      BY <1>6, <1>8, <2>1, <2>4 DEF LocalOK, Answered
    <2> QED
      BY <1>3, <1>6, <1>8, <2>5
  <1> QED
    BY <1>3, <1>5, <1>7, <1>8

LEMMA OwnedNext ==
    Owned /\ SetsKept /\ TypeInv /\ Serving /\ OwnedInv /\ [Next]_vars => OwnedInv'
  <1> SUFFICES ASSUME Owned, SetsKept, TypeInv, Serving, OwnedInv, [Next]_vars PROVE OwnedInv'
    OBVIOUS
  <1>1. ASSUME NEW t \in Threads, Step(t) PROVE OwnedInv'
    \* the thread itself
    <2>1. /\ LocalOK(t)' /\ (\A e \in Serves[t] : OwnerOK(t, e)')
          /\ \A e \in Entities : l2'[e] = l2[e] \/ (RedisUp /\ e \in Serves[t])
      <3>1. CASE \E f \in Serves[t] : Recording(t, f)
        BY <3>1, OwnRecord
      <3>2. CASE Compute(t) \/ SetL1(t) \/ SetL2(t) \/ CountWrite(t)
        <4>1. /\ LocalOK(t)' /\ (\A e \in Serves[t] : OwnerOK(t, e)')
              /\ \A e \in Entities : l2'[e] = l2[e] \/ (RedisUp /\ e = entity[t])
          BY <3>2, OwnIngestStep
        <4>2. entity[t] \in Serves[t]
          BY <3>2 DEF Serving, Compute, SetL1, SetL2, CountWrite, Goto
        <4> QED
          BY <4>1, <4>2
      <3>3. CASE t \in Readers /\ ((\E e \in Serves[t] : GetL1(t, e)) \/ GetL2(t) \/ FillL1(t))
        BY <3>3, OwnGetStep
      <3>4. ASSUME NEW f \in Serves[t], Record(t, f) PROVE \E e \in Serves[t] : Recording(t, e)
        <4>1. engine' # engine
          <5> DEFINE h == Home[t]
          <5>1. /\ h \in Procs /\ f \in Entities /\ engine \in [Procs -> [Entities -> 0 .. MaxIngests]]
                /\ engine' = [engine EXCEPT ![h][f] = engine[h][f] + 1]
            BY <3>4, TypeParts, Constants DEF Record, RestOK
          <5> HIDE DEF h
          <5>2. engine'[h][f] = engine[h][f] + 1 /\ engine[h][f] \in Nat
            BY <5>1, Constants
          <5> QED
            BY <5>2
        <4> QED
          BY <1>1, <4>1, EngineStep
      <3> QED
        BY <1>1, <3>1, <3>2, <3>3, <3>4 DEF Step, IngestStep, GetStep, Store
    \* the others
    <2>2. ASSUME NEW u \in Threads, u # t
          PROVE  LocalOK(u)' /\ \A e \in Serves[u] : OwnerOK(u, e)'
      <3>1. /\ pc'[u] = pc[u] /\ call'[u] = call[u] /\ entity'[u] = entity[u]
            /\ snap'[u] = snap[u] /\ floor'[u] = floor[u] /\ result'[u] = result[u]
        BY <1>1, <2>2, LocalsStep
      <3>2. ASSUME NEW e \in Serves[u]
            PROVE  /\ engine'[Home[u]][e] = engine[Home[u]][e]
                   /\ Exact(Home[u], e) => Exact(Home[u], e)'
                   /\ l2'[e] = l2[e] /\ acked'[e] = acked[e]
        <4>1. e \notin Serves[t] /\ e \in Entities
          BY <2>2, Constants DEF Owned
        <4>2. /\ engine'[Home[u]][e] = engine[Home[u]][e]
              /\ \A i \in DOMAIN l1'[Home[u]] : l1'[Home[u]][i].key = e =>
                   \E j \in DOMAIN l1[Home[u]] : l1'[Home[u]][i] = l1[Home[u]][j]
          BY <1>1, <2>2, <4>1, OtherThread
        <4>3. acked'[e] = acked[e]
          <5>1. CASE CountWrite(t)
            <6>1. pc[t] # "idle" /\ acked' = [acked EXCEPT ![entity[t]] = @ + 1]
              BY <5>1 DEF CountWrite, Goto
            <6>2. entity[t] # e
              BY <4>1, <6>1 DEF Serving
            <6> QED
              BY <4>1, <6>1, <6>2, TypeParts DEF RestOK
          <5>2. CASE ~ CountWrite(t)
            BY <1>1, <5>2 DEF Step, IngestStep, GetStep, Store, Record, Compute, SetL1, SetL2,
                              GetL1, GetL2, FillL1
          <5> QED
            BY <5>1, <5>2
        <4> QED
          BY <2>1, <4>1, <4>2, <4>3 DEF Exact
      <3>3. pc[u] # "idle" => entity[u] \in Serves[u]
        BY DEF Serving
      <3>4. LocalOK(u)'
        BY <3>1, <3>2, <3>3 DEF OwnedInv, LocalOK, Answered
      <3>5. ASSUME NEW e \in Serves[u] PROVE OwnerOK(u, e)'
        BY <3>1, <3>2 DEF OwnedInv, OwnerOK, Ingesting
      <3> QED
        BY <3>4, <3>5
    <2>3. ~ RedisUp => \A e \in Entities : l2'[e] = NoSnap
      BY <2>1 DEF OwnedInv
    <2> QED
      BY <2>1, <2>2, <2>3 DEF OwnedInv
  <1>2. ASSUME NEW p \in Procs, ClearCache(p) PROVE OwnedInv'
    <2>1. /\ UNCHANGED <<pc, call, entity, snap, result, floor, engine, l2, acked>>
          /\ l1' = [l1 EXCEPT ![p] = << >>]
      BY <1>2 DEF ClearCache, local, answers
    <2>2. ASSUME NEW q \in Procs, NEW e, Exact(q, e) PROVE Exact(q, e)'
      BY <2>1, <2>2, TypeParts DEF Exact, CacheOK
    <2>3. ASSUME NEW t \in Threads PROVE LocalOK(t)' /\ \A e \in Serves[t] : OwnerOK(t, e)'
      <3>1. LocalOK(t)'
        BY <2>1 DEF OwnedInv, LocalOK, Answered
      <3>2. ASSUME NEW e \in Serves[t] PROVE OwnerOK(t, e)'
        BY <2>1, <2>2, Constants DEF OwnedInv, OwnerOK, Ingesting
      <3> QED
        BY <3>1, <3>2
    <2> QED
      BY <2>1, <2>3 DEF OwnedInv
  <1>3. ASSUME NEW f \in Entities, Expire(f) PROVE OwnedInv'
    <2>1. /\ UNCHANGED <<pc, call, entity, snap, result, floor, engine, l1, acked>>
          /\ \A e \in Entities : l2'[e] \in {l2[e], NoSnap}
      BY <1>3, TypeParts DEF Expire, local, answers, RestOK
    <2>2. ASSUME NEW t \in Threads PROVE LocalOK(t)' /\ \A e \in Serves[t] : OwnerOK(t, e)'
      <3>1. LocalOK(t)'
        BY <2>1 DEF OwnedInv, LocalOK, Answered
      <3>2. ASSUME NEW e \in Serves[t] PROVE OwnerOK(t, e)'
        BY <2>1, Constants DEF OwnedInv, OwnerOK, Ingesting, Exact
      <3> QED
        BY <3>1, <3>2
    <2>3. ~ RedisUp => \A e \in Entities : l2'[e] = NoSnap
      BY <2>1 DEF OwnedInv
    <2> QED
      BY <2>2, <2>3 DEF OwnedInv
  <1>4. CASE UNCHANGED vars
    BY <1>4 DEF vars, tiers, local, answers, OwnedInv, LocalOK, Answered, OwnerOK, Ingesting, Exact
  <1> QED
    BY <1>1, <1>2, <1>3, <1>4, NextSteps

-----------------------------------------------------------------------------
(* the theorems                                                             *)

\* What an exact process has in L1 is found there with the engine's value.
LEMMA ExactValue ==
    ASSUME NEW p, NEW e \in KeysOf(l1[p]), Exact(p, e)
    PROVE  ValueOf(l1[p], e) = engine[p][e]
  BY PositionOfKey DEF Exact, ValueOf

LEMMA StartInvs == Init => Serving /\ ExactInv /\ OwnedInv
  <1> SUFFICES ASSUME Init PROVE Serving /\ ExactInv /\ OwnedInv
    OBVIOUS
  <1>1. ASSUME NEW t \in Threads
        PROVE  /\ pc[t] = "idle" /\ call[t] = "none" /\ Home[t] \in Procs
               /\ \A e \in Serves[t] : /\ Exact(Home[t], e) /\ l2[e] = NoSnap
                                       /\ acked[e] = 0 /\ engine[Home[t]][e] = 0
    BY Constants DEF Init, Exact
  <1>2. Serving
    BY <1>1 DEF Serving
  <1>3. ExactInv
    BY <1>1, StoreAssumption DEF ExactInv
  <1>4. OwnedInv
    <2>1. \A t \in Threads : LocalOK(t) /\ \A e \in Serves[t] : OwnerOK(t, e)
      BY <1>1 DEF LocalOK, Answered, OwnerOK, Ingesting
    <2> QED
      BY <2>1 DEF OwnedInv, Init
  <1> QED
    BY <1>2, <1>3, <1>4

LEMMA ExactWrite == WritersApart /\ ExactInv => WriterCacheExact
  <1> SUFFICES ASSUME WritersApart, ExactInv, NEW w \in Writers, NEW e \in Serves[w],
                      e \in KeysOf(l1[Home[w]]),
                      ~ \E t \in Threads : pc[t] # "idle" /\ Home[t] = Home[w] /\ entity[t] = e
               PROVE  ValueOf(l1[Home[w]], e) = engine[Home[w]][e]
    BY DEF WriterCacheExact
  <1>1. w \in Threads
    BY StoreAssumption
  <1>2. Exact(Home[w], e)
    BY <1>1 DEF ExactInv
  <1> QED
    BY <1>2, ExactValue

LEMMA OwnedWrite == OwnedInv => WriterCacheExact
  <1> SUFFICES ASSUME OwnedInv, NEW w \in Writers, NEW e \in Serves[w],
                      e \in KeysOf(l1[Home[w]]),
                      ~ \E t \in Threads : pc[t] # "idle" /\ Home[t] = Home[w] /\ entity[t] = e
               PROVE  ValueOf(l1[Home[w]], e) = engine[Home[w]][e]
    BY DEF WriterCacheExact
  <1>1. w \in Threads
    BY StoreAssumption
  <1>2. Exact(Home[w], e)
    BY <1>1 DEF OwnedInv, OwnerOK, Ingesting
  <1> QED
    BY <1>2, ExactValue

\* What L1 of an ingesting process holds of an entity nobody works on is what
\* the engine would compute: if no other thread of the process is called for a
\* writer's entities, whatever Redis does; or if every entity has one thread,
\* which may read as well, and Redis keeps what it is given.
THEOREM WriterCacheCorrect ==
    WritersApart \/ (Owned /\ SetsKept) => (Spec => []WriterCacheExact)
  <1>1. ASSUME WritersApart PROVE Spec => []WriterCacheExact
    <2>1. Init => TypeInv /\ Serving /\ ExactInv
      BY TypeInit, StartInvs
    <2>2. (TypeInv /\ Serving /\ ExactInv) /\ [Next]_vars => (TypeInv /\ Serving /\ ExactInv)'
      BY <1>1, TypeNext, ServingNext, ExactNext
    <2>3. TypeInv /\ Serving /\ ExactInv => WriterCacheExact
      BY <1>1, ExactWrite
    <2> QED
      BY <2>1, <2>2, <2>3, PTL DEF Spec
  <1>2. ASSUME Owned /\ SetsKept PROVE Spec => []WriterCacheExact
    <2>1. Init => TypeInv /\ Serving /\ OwnedInv
      BY TypeInit, StartInvs
    <2>2. (TypeInv /\ Serving /\ OwnedInv) /\ [Next]_vars => (TypeInv /\ Serving /\ OwnedInv)'
      BY <1>2, TypeNext, ServingNext, OwnedNext
    <2>3. TypeInv /\ Serving /\ OwnedInv => WriterCacheExact
      BY OwnedWrite
    <2> QED
      BY <2>1, <2>2, <2>3, PTL DEF Spec
  <1> QED
    BY <1>1, <1>2

\* get_features answers with every ingest of the entity that had returned when
\* the call began, if one thread does all the ingesting and the reading of an
\* entity and no write to Redis is lost.
THEOREM LatestCorrect == Owned /\ SetsKept => (Spec => []LatestServed)
  <1> SUFFICES ASSUME Owned /\ SetsKept PROVE Spec => []LatestServed
    OBVIOUS
  <1>1. Init => TypeInv /\ Serving /\ OwnedInv
    BY TypeInit, StartInvs
  <1>2. (TypeInv /\ Serving /\ OwnedInv) /\ [Next]_vars => (TypeInv /\ Serving /\ OwnedInv)'
    BY TypeNext, ServingNext, OwnedNext
  <1>3. TypeInv /\ Serving /\ OwnedInv => LatestServed
    BY DEF OwnedInv, LocalOK, LatestServed
  <1> QED
    BY <1>1, <1>2, <1>3, PTL DEF Spec

-----------------------------------------------------------------------------
(* the tiers implement a store without tiers                                *)

\* A thread is told nothing by a step, or what its engine has at that moment.
LEMMA AnswerStep ==
    ASSUME TypeInv, Serving, OwnedInv, NEW t \in Threads, Step(t)
    PROVE  \/ UNCHANGED result
           \/ \E e \in Serves[t] :
                /\ UNCHANGED engine
                /\ result' = [result EXCEPT ![t][e] = engine[Home[t]][e]]
  <1>1. LocalOK(t) /\ \A e \in Serves[t] : OwnerOK(t, e)
    BY DEF OwnedInv
  <1>2. ASSUME NEW e \in Serves[t], GetL1(t, e), ~ UNCHANGED result
        PROVE  UNCHANGED engine /\ result' = [result EXCEPT ![t][e] = engine[Home[t]][e]]
    <2>1. /\ e \in KeysOf(l1[Home[t]]) /\ pc[t] = "idle" /\ UNCHANGED engine
          /\ result' = [result EXCEPT ![t][e] = ValueOf(l1[Home[t]], e)]
      BY <1>2 DEF GetL1, Goto, Answer, answers
    <2>2. Exact(Home[t], e)
      BY <1>1, <2>1 DEF OwnerOK, Ingesting
    <2> QED
      BY <2>1, <2>2, ExactValue
  <1>3. CASE SetL2(t) \/ FillL1(t)
    <2>1. /\ entity[t] \in Serves[t] /\ UNCHANGED engine
          /\ UNCHANGED result \/ result' = [result EXCEPT ![t][entity[t]] = snap[t]]
      BY <1>3 DEF Serving, SetL2, FillL1, Goto, Answer, answers
    <2>2. snap[t] = engine[Home[t]][entity[t]]
      BY <1>1, <1>3 DEF LocalOK, SetL2, FillL1, Goto
    <2> QED
      BY <2>1, <2>2
  <1>4. CASE Compute(t) \/ SetL1(t) \/ CountWrite(t) \/ GetL2(t) \/ \E e \in Serves[t] : Record(t, e)
    BY <1>4 DEF Compute, SetL1, CountWrite, GetL2, Record, answers
  <1> QED
    BY <1>2, <1>3, <1>4 DEF Step, IngestStep, GetStep, Store

\* Where every entity has one thread, its history is in that thread's process.
LEMMA OwnHistory ==
    ASSUME Owned, NEW t \in Threads, NEW e \in Serves[t]
    PROVE  History[e] = engine[Home[t]][e] /\ History'[e] = engine'[Home[t]][e]
  <1> DEFINE server == CHOOSE u \in Threads : e \in Serves[u]
  <1>1. server \in Threads /\ e \in Serves[server] /\ e \in Entities
    BY Constants
  <1>2. server = t
    BY <1>1 DEF Owned
  <1> QED
    BY <1>1, <1>2 DEF History

\* With one thread for every entity and a Redis that keeps what it is given,
\* FeatureStore implements FeatureHistory, a store with neither tiers nor
\* stages: an ingest takes effect when the engine has recorded it, and a get
\* when it is answered.
THEOREM Refinement == Owned /\ SetsKept => (Spec => ImplementsHistory)
  <1> SUFFICES ASSUME Owned /\ SetsKept PROVE Spec => ImplementsHistory
    OBVIOUS
  <1>1. Init => TypeInv /\ Serving /\ OwnedInv
    BY TypeInit, StartInvs
  <1>2. (TypeInv /\ Serving /\ OwnedInv) /\ [Next]_vars => (TypeInv /\ Serving /\ OwnedInv)'
    BY TypeNext, ServingNext, OwnedNext
  <1>3. Init => Abstract!Init
    <2> SUFFICES ASSUME Init PROVE Abstract!Init
      OBVIOUS
    <2>1. ASSUME NEW e \in Entities PROVE History[e] = 0
      <3>1. CASE \E t \in Threads : e \in Serves[t]
        <4>1. PICK t \in Threads : e \in Serves[t]
          BY <3>1
        <4> QED
          BY <4>1, OwnHistory, Constants DEF Init
      <3> QED
        BY <3>1 DEF History
    <2>2. History = [e \in Entities |-> 0]
      BY <2>1 DEF History
    <2> QED
      BY <2>2 DEF Init, Abstract!Init
  <1>4. TypeInv /\ Serving /\ OwnedInv /\ [Next]_vars => [Abstract!Next]_<<History, result>>
    <2> SUFFICES ASSUME TypeInv, Serving, OwnedInv, [Next]_vars
                 PROVE  [Abstract!Next]_<<History, result>>
      OBVIOUS
    <2>1. ASSUME UNCHANGED engine PROVE UNCHANGED History
      BY <2>1 DEF History
    <2>2. ASSUME NEW t \in Threads, Step(t) PROVE [Abstract!Next]_<<History, result>>
      <3>1. CASE UNCHANGED engine
        <4>1. CASE UNCHANGED result
          BY <2>1, <3>1, <4>1
        <4>2. CASE ~ UNCHANGED result
          <5>1. PICK e \in Serves[t] : result' = [result EXCEPT ![t][e] = engine[Home[t]][e]]
            BY <2>2, <4>2, AnswerStep
          <5>2. e \in Entities /\ History[e] = engine[Home[t]][e]
            BY Constants, OwnHistory
          <5>3. Abstract!Get(t, e)
            BY <2>1, <3>1, <5>1, <5>2 DEF Abstract!Get
          <5> QED
            BY <5>2, <5>3 DEF Abstract!Next
        <4> QED
          BY <4>1, <4>2
      <3>2. CASE ~ UNCHANGED engine
        <4>1. PICK f \in Serves[t] : Recording(t, f)
          BY <2>2, <3>2, EngineStep
        <4>2. f \in Entities /\ Home[t] \in Procs /\ UNCHANGED result
          BY <2>2, <3>2, AnswerStep, Constants
        <4>3. History'[f] = History[f] + 1
          BY <4>1, OwnHistory DEF Recording
        <4>4. ASSUME NEW e \in Entities, e # f PROVE History'[e] = History[e]
          <5>1. CASE \E u \in Threads : e \in Serves[u]
            <6>1. PICK u \in Threads : e \in Serves[u]
              BY <5>1
            <6>2. engine'[Home[u]][e] = engine[Home[u]][e]
              BY <4>1, <4>4, <6>1, Constants DEF Recording
            <6> QED
              BY <6>1, <6>2, OwnHistory
          <5> QED
            BY <5>1 DEF History
        <4>5. History' = [History EXCEPT ![f] = History[f] + 1]
          BY <4>2, <4>3, <4>4 DEF History
        <4> QED
          BY <4>2, <4>5 DEF Abstract!Ingest, Abstract!Next
      <3> QED
        BY <3>1, <3>2
    <2>3. ASSUME NEW p \in Procs, ClearCache(p) PROVE UNCHANGED <<engine, result>>
      BY <2>3 DEF ClearCache, answers
    <2>4. ASSUME NEW e \in Entities, Expire(e) PROVE UNCHANGED <<engine, result>>
      BY <2>4 DEF Expire, answers
    <2>5. CASE UNCHANGED vars
      BY <2>1, <2>5 DEF vars, answers
    <2> QED
      BY <2>1, <2>2, <2>3, <2>4, <2>5, NextSteps
  <1> QED
    BY <1>1, <1>2, <1>3, <1>4, PTL DEF Spec, ImplementsHistory, Abstract!Spec

-----------------------------------------------------------------------------
(* what the callers of a process are told                                  *)

\* As in the deployment of feature_store.server and inference_engine.server:
\* what ingests and what reads are different processes; an entity is ingested
\* by one thread, and read in one process, by any number of its threads.
ReadersApart ==
    /\ \A w \in Writers, r \in Readers : Home[w] # Home[r]
    /\ \A w, v \in Writers : w # v => Serves[w] \cap Serves[v] = {}
    /\ \A r, q \in Readers : Home[r] # Home[q] => Serves[r] \cap Serves[q] = {}

\* The snapshots of e in a cache (one or none).
Cached(cache, e) == {cache[i].value : i \in {j \in DOMAIN cache : cache[j].key = e}}

\* What w writes to Redis of e, now or later, is at least this.
Ceiling(w, e) ==
    IF pc[w] \in {"set1", "set2"} /\ entity[w] = e THEN snap[w] ELSE engine[Home[w]][e]

\* A snapshot n of e says nothing, or is no newer than what Redis has, unless
\* Redis has lost it; and no newer than anything Redis will be given.
Known(n, e) ==
    /\ n =< 0 \/ n =< l2[e] \/ (e \in lapsed /\ l2[e] =< 0)
    /\ \A w \in Writers : e \in Serves[w] => n =< Ceiling(w, e)

\* Process p may answer n for e.
Ahead(n, p, e) == newest[p][e] =< n \/ (n = 0 /\ e \in lapsed)

\* MonotonicReads for one process and entity.
Said(p, e) == last[p][e] = newest[p][e] \/ (last[p][e] = 0 /\ e \in lapsed)

\* What a process that reads e holds of it.
ProcOK(p, e) ==
    /\ engine[p][e] = 0
    /\ Known(newest[p][e], e)
    /\ \A n \in Cached(l1[p], e) : Ahead(n, p, e) /\ Known(n, e)

\* A get beyond L1 found nothing there, and is alone in looking for it; a zero
\* from the empty engine is only stored when no answer was more than that, or
\* Redis has lost the entity.
GetOK(r) ==
    pc[r] # "idle" =>
        /\ call[r] = "get" /\ pc[r] # "count"
        /\ \A n \in Cached(l1[Home[r]], entity[r]) : pc[r] = "set2" /\ n = 0
        /\ pc[r] \in {"compute", "set1", "set2"} =>
               newest[Home[r]][entity[r]] =< 0 \/ entity[r] \in lapsed
        /\ pc[r] \in {"set1", "set2"} => snap[r] = 0
        /\ pc[r] = "fill" => Ahead(snap[r], Home[r], entity[r]) /\ Known(snap[r], entity[r])

\* What a writer has in hand is no older than what Redis has.
WriterOK(w, e) ==
    /\ l2[e] =< Ceiling(w, e)
    /\ pc[w] # "idle" /\ entity[w] = e =>
         /\ call[w] = "ingest" /\ pc[w] \in {"compute", "set1", "set2", "count"}
         /\ pc[w] \in {"set1", "set2"} => snap[w] =< engine[Home[w]][e]

ReadInv ==
    /\ MonotonicReads
    /\ \A r \in Readers : GetOK(r) /\ \A e \in Serves[r] : ProcOK(Home[r], e)
    /\ \A w \in Writers : \A e \in Serves[w] : WriterOK(w, e)
    /\ \A t \in Threads : pc[t] # "idle" => t \in Writers \cup Readers
    /\ ~ RedisUp => \A e \in Entities : l2[e] = NoSnap

Context == ReadersApart /\ TypeInv /\ Serving /\ ReadInv

\* After a step of t a cache holds of e what it held, or what t puts there.
LEMMA CachedStep ==
    ASSUME TypeInv, NEW t \in Threads, Step(t), NEW p \in Procs, NEW e,
           NEW n \in Cached(l1'[p], e)
    PROVE  \/ n \in Cached(l1[p], e) /\ ~ (p = Home[t] /\ Putting(t) /\ entity[t] = e)
           \/ p = Home[t] /\ Putting(t) /\ entity[t] = e /\ n = snap[t]
  <1>1. PICK i \in DOMAIN l1'[p] : l1'[p][i].key = e /\ l1'[p][i].value = n
    BY DEF Cached
  <1>2. Kept(t, p, l1'[p][i])
    BY CacheStep
  <1>3. CASE p = Home[t] /\ Putting(t) /\ l1'[p][i] = [key |-> entity[t], value |-> snap[t]]
    BY <1>1, <1>3
  <1>4. CASE /\ \E j \in DOMAIN l1[p] : l1'[p][i] = l1[p][j]
             /\ p = Home[t] /\ Putting(t) => l1'[p][i].key # entity[t]
    BY <1>1, <1>4 DEF Cached
  <1> QED
    BY <1>2, <1>3, <1>4 DEF Kept

\* A cached snapshot is a number, and there is one for an entity.
LEMMA CachedOne ==
    ASSUME TypeInv, NEW p \in Procs, NEW e
    PROVE  /\ \A n \in Cached(l1[p], e) : n \in Nat
           /\ e \in KeysOf(l1[p]) => Cached(l1[p], e) = {ValueOf(l1[p], e)}
           /\ e \notin KeysOf(l1[p]) => Cached(l1[p], e) = {}
  <1>1. CacheOK(l1)
    BY TypeParts
  <1>2. l1[p] \in Seq(Entries) /\ UniqueKeys(l1[p])
    BY <1>1 DEF CacheOK
  <1>3. \A i \in DOMAIN l1[p] : l1[p][i] \in Entries
    BY <1>2
  <1>4. \A x \in Entries : x.value \in Nat
    BY Constants DEF Entries, Entry, Snap, NoSnap
  <1>5. \A n \in Cached(l1[p], e) : n \in Nat
    BY <1>3, <1>4 DEF Cached
  <1>6. ASSUME e \in KeysOf(l1[p]) PROVE Cached(l1[p], e) = {ValueOf(l1[p], e)}
    <2>1. PositionOf(l1[p], e) \in DOMAIN l1[p] /\ l1[p][PositionOf(l1[p], e)].key = e
      BY <1>6, PositionOfKey
    <2> QED
      BY <1>2, <2>1 DEF Cached, ValueOf, UniqueKeys
  <1>7. e \notin KeysOf(l1[p]) => Cached(l1[p], e) = {}
    BY DEF Cached, KeysOf
  <1> QED
    BY <1>5, <1>6, <1>7

\* Redis changes by the SETEX of a thread, and keeps what it has otherwise.
LEMMA RedisStep ==
    ASSUME TypeInv, Serving, NEW t \in Threads, Step(t)
    PROVE  \/ l2' = l2
           \/ /\ RedisUp /\ pc[t] = "set2" /\ entity[t] \in Serves[t]
              /\ l2' = [l2 EXCEPT ![entity[t]] = snap[t]]
  <1>1. CASE SetL2(t)
    BY <1>1 DEF SetL2, WriteL2, Goto, Serving
  <1>2. ASSUME NEW e \in Serves[t], Record(t, e) \/ GetL1(t, e) PROVE l2' = l2
    BY <1>2 DEF Record, GetL1, tiers
  <1>3. CASE Compute(t) \/ SetL1(t) \/ CountWrite(t) \/ GetL2(t) \/ FillL1(t)
    BY <1>3 DEF Compute, SetL1, CountWrite, GetL2, FillL1, tiers
  <1> QED
    BY <1>1, <1>2, <1>3 DEF Step, IngestStep, GetStep, Store

\* What the context says of readers, writers and numbers.
LEMMA Facts ==
    ASSUME Context
    PROVE  /\ RestOK /\ AnswersOK /\ CacheOK(l1)
           /\ \A r \in Readers : /\ r \in Threads /\ r \notin Writers /\ Home[r] \in Procs
                                 /\ Serves[r] \subseteq Entities /\ GetOK(r)
                                 /\ pc[r] # "idle" => entity[r] \in Serves[r]
                                 /\ \A e \in Serves[r] : ProcOK(Home[r], e)
           /\ \A w \in Writers : /\ w \in Threads /\ w \notin Readers /\ Home[w] \in Procs
                                 /\ Serves[w] \subseteq Entities
                                 /\ pc[w] # "idle" => entity[w] \in Serves[w]
                                 /\ \A e \in Serves[w] : WriterOK(w, e)
           /\ \A e \in Entities : l2[e] \in Int /\ l2[e] >= -1
           /\ \A p \in Procs, e \in Entities :
                /\ newest[p][e] \in Int /\ last[p][e] \in Int /\ engine[p][e] \in Nat
                /\ \A n \in Cached(l1[p], e) : n \in Nat
           /\ \A t \in Threads : snap[t] \in Int /\ (pc[t] \in {"set1", "set2", "fill"} => 0 =< snap[t])
  <1> USE DEF Context
  <1>1. RestOK /\ AnswersOK /\ CacheOK(l1)
    BY TypeParts
  <1>2. Snap \subseteq Int /\ (\A n \in Snap : n >= -1 /\ (n # NoSnap => 0 =< n))
        /\ 0 .. MaxIngests \subseteq Nat
    BY Constants DEF Snap, NoSnap
  <1>3. \A e \in Entities : l2[e] \in Int /\ l2[e] >= -1
    BY <1>1, <1>2 DEF RestOK
  <1>4. ASSUME NEW p \in Procs, NEW e \in Entities
        PROVE  /\ newest[p][e] \in Int /\ last[p][e] \in Int /\ engine[p][e] \in Nat
               /\ \A n \in Cached(l1[p], e) : n \in Nat
    <2>1. newest[p][e] \in Snap /\ last[p][e] \in Snap /\ engine[p][e] \in 0 .. MaxIngests
      BY <1>1, <1>4 DEF RestOK, AnswersOK
    <2> QED
      BY <1>2, <2>1, CachedOne
  <1>5. ASSUME NEW t \in Threads
        PROVE  snap[t] \in Int /\ (pc[t] \in {"set1", "set2", "fill"} => 0 =< snap[t])
    BY <1>1, <1>2 DEF RestOK
  <1>6. ASSUME NEW t \in Writers \cup Readers
        PROVE  /\ t \in Threads /\ Home[t] \in Procs /\ Serves[t] \subseteq Entities
               /\ pc[t] # "idle" => entity[t] \in Serves[t]
    BY StoreAssumption, Constants DEF Serving
  <1>7. \A w \in Writers, r \in Readers : w # r
    BY DEF ReadersApart
  <1> QED
    BY <1>1, <1>3, <1>4, <1>5, <1>6, <1>7 DEF ReadInv

\* What a writer will write is a snapshot.
LEMMA CeilingNat ==
    ASSUME Context
    PROVE  \A w \in Writers : \A e \in Serves[w] : Ceiling(w, e) \in Nat
  <1> SUFFICES ASSUME NEW w \in Writers, NEW e \in Serves[w] PROVE Ceiling(w, e) \in Nat
    OBVIOUS
  <1>1. /\ w \in Threads /\ Home[w] \in Procs /\ e \in Entities /\ engine[Home[w]][e] \in Nat
        /\ snap[w] \in Int /\ (pc[w] \in {"set1", "set2"} => 0 =< snap[w])
    BY Facts
  <1> QED
    BY <1>1 DEF Ceiling

LEMMA Roles ==
    ASSUME Context, NEW t \in Threads, Step(t)
    PROVE  t \in Writers \cup Readers
  <1>1. CASE Store(t)
    BY <1>1 DEF Store, Compute, SetL1, SetL2, Goto, ReadInv, Context
  <1> QED
    BY <1>1 DEF Step

\* What a step of a reader leaves alone: every engine and what the writers have
\* in hand, and all about the entities it is not about.
LEMMA ReaderFrame ==
    ASSUME Context, NEW t \in Readers, Step(t)
    PROVE  /\ UNCHANGED engine /\ lapsed \subseteq lapsed'
           /\ entity'[t] \in Serves[t] /\ (pc[t] # "idle" => entity'[t] = entity[t])
           /\ \A w \in Writers, e \in Entities : Ceiling(w, e)' = Ceiling(w, e)
           /\ \A e \in Entities : e # entity'[t] =>
                /\ l2'[e] = l2[e]
                /\ \A p \in Procs : /\ newest'[p][e] = newest[p][e] /\ last'[p][e] = last[p][e]
                                    /\ Cached(l1'[p], e) \subseteq Cached(l1[p], e)
           /\ \A p \in Procs, e \in Entities : p # Home[t] =>
                newest'[p][e] = newest[p][e] /\ last'[p][e] = last[p][e]
  <1>1. /\ t \in Threads /\ t \notin Writers /\ Home[t] \in Procs /\ Serves[t] \subseteq Entities
        /\ RestOK /\ AnswersOK /\ TypeInv /\ Serving
        /\ \A w \in Writers : w \in Threads
    BY Facts DEF Context
  <1>2. UNCHANGED engine
    BY <1>1, EngineStep DEF Recording
  <1>3. ASSUME NEW e \in Serves[t], GetL1(t, e)
        PROVE  entity'[t] = e /\ pc[t] = "idle" /\ lapsed' = lapsed
    BY <1>1, <1>3 DEF GetL1, Enter, Goto, RestOK
  <1>4. ASSUME Compute(t) \/ SetL1(t) \/ SetL2(t) \/ GetL2(t) \/ FillL1(t)
        PROVE  entity'[t] = entity[t] /\ pc[t] # "idle" /\ lapsed \subseteq lapsed'
    BY <1>4 DEF Compute, SetL1, SetL2, GetL2, FillL1, Goto, local
  <1>5. /\ entity'[t] \in Serves[t] /\ (pc[t] # "idle" => entity'[t] = entity[t])
        /\ lapsed \subseteq lapsed'
    BY <1>1, <1>3, <1>4 DEF Step, GetStep, Store, Serving
  <1>6. ASSUME NEW w \in Writers, NEW e \in Entities PROVE Ceiling(w, e)' = Ceiling(w, e)
    BY <1>1, <1>2, LocalsStep DEF Ceiling
  <1>7. ASSUME NEW e \in Entities, e # entity'[t] PROVE l2'[e] = l2[e]
    <2>1. CASE l2' = l2
      BY <2>1
    <2>2. CASE pc[t] = "set2" /\ l2' = [l2 EXCEPT ![entity[t]] = snap[t]]
      BY <1>1, <1>5, <1>7, <2>2 DEF RestOK
    <2> QED
      BY <1>1, <2>1, <2>2, RedisStep
  <1>8. ASSUME NEW p \in Procs, NEW e \in Entities, e # entity'[t] \/ p # Home[t]
        PROVE  newest'[p][e] = newest[p][e] /\ last'[p][e] = last[p][e]
    <2>1. CASE UNCHANGED answers
      BY <2>1 DEF answers
    <2>2. ASSUME NEW s \in Snap, Answer(t, entity'[t], s)
          PROVE  newest'[p][e] = newest[p][e] /\ last'[p][e] = last[p][e]
      <3> DEFINE h == Home[t]
                 x == entity'[t]
      <3>1. /\ last' = [last EXCEPT ![h][x] = s]
            /\ \E n : newest' = [newest EXCEPT ![h][x] = n]
        BY <2>2 DEF Answer
      <3>2. e # x \/ p # h
        BY <1>8
      <3>3. last \in [Procs -> [Entities -> Snap]] /\ newest \in [Procs -> [Entities -> Snap]]
        BY <1>1 DEF AnswersOK
      <3> HIDE DEF h, x
      <3>4. last'[p][e] = last[p][e]
        BY <3>1, <3>2, <3>3
      <3>5. PICK n : newest' = [newest EXCEPT ![h][x] = n]
        BY <3>1
      <3>6. newest'[p][e] = newest[p][e]
        BY <3>2, <3>3, <3>5
      <3> QED
        BY <3>4, <3>6
    <2> QED
      BY <1>1, <2>1, <2>2, AnswerGiven
  <1>9. ASSUME NEW e \in Entities, e # entity'[t], NEW p \in Procs
        PROVE  Cached(l1'[p], e) \subseteq Cached(l1[p], e)
    <2>1. Putting(t) => entity[t] # e
      BY <1>5, <1>9 DEF Putting
    <2> QED
      BY <1>1, <2>1, CachedStep
  <1> QED
    BY <1>2, <1>5, <1>6, <1>7, <1>8, <1>9

\* What Redis is known to have of an entity outlives a step of a reader, if it
\* writes nothing of it, or there is nothing to be known.
LEMMA ReaderKnown ==
    ASSUME Context, NEW t \in Readers, Step(t), NEW e \in Entities, NEW n \in Int, Known(n, e),
           l2'[e] = l2[e] \/ (l2'[e] = 0 /\ (n =< 0 \/ e \in lapsed))
    PROVE  Known(n, e)'
  <1>1. n =< 0 \/ n =< l2'[e] \/ (e \in lapsed' /\ l2'[e] =< 0)
    BY ReaderFrame DEF Known
  <1>2. \A w \in Writers : e \in Serves[w] => n =< Ceiling(w, e)'
    BY ReaderFrame DEF Known
  <1> QED
    BY <1>1, <1>2 DEF Known

\* A get that goes past L1, or is answered from it.
LEMMA ReaderHits ==
    ASSUME Context, NEW t \in Readers, NEW x \in Serves[t], GetL1(t, x)
    PROVE  ProcOK(Home[t], x)' /\ GetOK(t)' /\ Said(Home[t], x)'
  <1> DEFINE p == Home[t]
  <1>1. /\ t \in Threads /\ p \in Procs /\ x \in Entities /\ RestOK /\ AnswersOK /\ TypeInv
        /\ ProcOK(p, x) /\ newest[p][x] \in Int /\ Said(p, x) /\ engine[p][x] = 0
        /\ \A n \in Cached(l1[p], x) : n \in Nat
    BY Facts DEF Context, ReadInv, MonotonicReads, Said, ProcOK
  <1>2. Step(t)
    BY DEF Step, GetStep
  <1>3. /\ pc[t] = "idle" /\ entity'[t] = x /\ call'[t] = "get" /\ engine' = engine /\ l2' = l2
        /\ lapsed' = lapsed
    BY <1>1 DEF GetL1, Goto, Enter, RestOK
  <1>4. \A n \in Cached(l1'[p], x) : n \in Cached(l1[p], x)
    BY <1>1, <1>2, <1>3, CachedStep DEF Putting
  <1>5. \A n \in Int : Known(n, x) => Known(n, x)'
    BY <1>1, <1>2, <1>3, ReaderKnown
  <1>6. PICK m \in Int : m = newest[p][x] /\ Known(m, x)'
    BY <1>1, <1>5 DEF ProcOK
  <1>7. ASSUME NEW n \in Cached(l1'[p], x) PROVE n \in Int /\ Ahead(n, p, x) /\ Known(n, x)'
    BY <1>1, <1>4, <1>5, <1>7 DEF ProcOK
  <1>8. CASE pc'[t] = "get2"
    <2>1. UNCHANGED <<last, newest>> /\ x \notin KeysOf(l1[p])
      BY <1>1, <1>8 DEF GetL1, Goto, RestOK, answers
    <2>2. Cached(l1[p], x) = {}
      BY <1>1, <2>1, CachedOne
    <2>3. GetOK(t)' /\ Said(p, x)'
      BY <1>1, <1>3, <1>4, <1>8, <2>1, <2>2 DEF GetOK, Said
    <2>4. ProcOK(p, x)'
      BY <1>1, <1>3, <1>4, <1>6, <2>1, <2>2 DEF ProcOK, Known
    <2> QED
      BY <2>3, <2>4
  <1>9. CASE pc'[t] # "get2"
    <2>1. PICK n : n = ValueOf(l1[p], x)
      OBVIOUS
    <2>2. x \in KeysOf(l1[p]) /\ pc'[t] = "idle" /\ Answer(t, x, n)
      BY <1>1, <1>9, <2>1 DEF GetL1, Goto, RestOK
    <2>3. Cached(l1[p], x) = {n}
      BY <1>1, <2>1, <2>2, CachedOne
    <2>4. n \in Nat /\ Ahead(n, p, x) /\ Known(n, x)'
      BY <1>1, <1>5, <2>3 DEF ProcOK
    <2>5. last'[p][x] = n /\ newest'[p][x] = IF m < n THEN n ELSE m
      <3> HIDE DEF p
      <3> QED
        BY <1>1, <1>6, <2>2 DEF Answer, AnswersOK, p
    <2>6. Said(p, x)'
      BY <1>3, <1>6, <2>4, <2>5 DEF Said, Ahead
    <2>7. ASSUME NEW k \in Cached(l1'[p], x) PROVE Ahead(k, p, x)' /\ Known(k, x)'
      BY <1>3, <1>4, <1>6, <2>3, <2>4, <2>5, <2>7 DEF Ahead
    <2>8. Known(newest[p][x], x)'
      BY <1>6, <2>4, <2>5 DEF Known
    <2>9. ProcOK(p, x)'
      BY <1>1, <1>3, <2>7, <2>8 DEF ProcOK
    <2> QED
      BY <2>2, <2>6, <2>9 DEF GetOK
  <1> QED
    BY <1>8, <1>9

\* A get beyond L1: the answer of Redis, or the empty engine's.
LEMMA ReaderSteps ==
    ASSUME Context, NEW t \in Readers, NEW x, x = entity[t],
           Compute(t) \/ SetL1(t) \/ SetL2(t) \/ GetL2(t) \/ FillL1(t)
    PROVE  ProcOK(Home[t], x)' /\ GetOK(t)' /\ Said(Home[t], x)'
  <1> DEFINE p == Home[t]
  <1>1. /\ t \in Threads /\ p \in Procs /\ x \in Entities /\ x \in Serves[t]
        /\ RestOK /\ AnswersOK /\ TypeInv /\ Serving /\ pc[t] # "idle"
        /\ Step(t) /\ entity' = entity
    BY Facts DEF Context, Step, Store, GetStep, Compute, SetL1, SetL2, GetL2, FillL1, Goto, local
  <1>2. /\ GetOK(t) /\ ProcOK(p, x) /\ Said(p, x) /\ engine[p][x] = 0 /\ call[t] = "get"
        /\ newest[p][x] \in Int /\ l2[x] \in Int /\ l2[x] >= -1 /\ snap[t] \in Int
        /\ Known(newest[p][x], x)
        /\ (pc[t] \in {"set1", "set2", "fill"} => 0 =< snap[t])
        /\ \A n \in Cached(l1[p], x) : n \in Nat
        /\ \A w \in Writers : x \in Serves[w] => l2[x] =< Ceiling(w, x)
    BY <1>1, Facts DEF Context, ReadInv, MonotonicReads, Said, ProcOK, GetOK, WriterOK
  <1>3. /\ engine' = engine /\ lapsed \subseteq lapsed' /\ entity'[t] = x
        /\ \A w \in Writers : Ceiling(w, x)' = Ceiling(w, x)
    BY <1>1, ReaderFrame
  <1>4. ASSUME NEW n \in Int, Known(n, x),
               l2'[x] = l2[x] \/ (l2'[x] = 0 /\ (n =< 0 \/ x \in lapsed))
        PROVE  Known(n, x)'
    BY <1>1, <1>4, ReaderKnown
  <1>5. PICK m \in Int : m = newest[p][x]
    BY <1>2
  <1>6. CASE GetL2(t)
    <2>1. /\ l2' = l2 /\ l1' = l1 /\ last' = last /\ newest' = newest /\ pc[t] = "get2"
          /\ call' = call
      BY <1>6 DEF GetL2, Goto, tiers, answers, local
    <2>2. Cached(l1'[p], x) = {} /\ call'[t] = "get"
      BY <1>1, <1>2, <2>1 DEF GetOK
    <2>3. ProcOK(p, x)' /\ Said(p, x)'
      <3>1. Known(m, x)'
        BY <1>2, <1>4, <1>5, <2>1
      <3> QED
        BY <1>2, <1>3, <1>5, <2>1, <2>2, <3>1 DEF ProcOK, Said
    <2>4. CASE pc'[t] = "fill"
      <3>1. l2[x] # NoSnap /\ snap'[t] = l2[x]
        BY <1>1, <1>6, <2>4 DEF GetL2, Goto, RestOK
      <3>2. PICK n \in Int : n = l2[x] /\ n >= 0
        BY <1>2, <3>1 DEF NoSnap
      <3>3. Known(n, x)
        BY <1>2, <3>2 DEF Known
      <3>4. Ahead(n, p, x)
        BY <1>2, <3>2 DEF Known, Ahead
      <3>5. Known(n, x)' /\ Ahead(n, p, x)'
        BY <1>3, <1>4, <2>1, <3>3, <3>4 DEF Ahead
      <3>6. GetOK(t)'
        BY <1>1, <2>2, <2>4, <3>1, <3>2, <3>5 DEF GetOK
      <3> QED
        BY <2>3, <3>6
    <2>5. CASE pc'[t] = "compute"
      <3>1. lapsed' = lapsed \cup {e \in {x} : RedisUp /\ l2[e] # NoSnap}
        BY <1>1, <1>6, <2>5 DEF GetL2, Goto, RestOK
      <3>2. ~ RedisUp => l2[x] = NoSnap
        BY <1>1 DEF Context, ReadInv
      <3>3. newest[p][x] =< 0 \/ x \in lapsed'
        BY <1>2, <1>3, <3>1, <3>2 DEF Known, NoSnap
      <3>4. GetOK(t)'
        BY <1>1, <2>1, <2>2, <2>5, <3>3 DEF GetOK
      <3> QED
        BY <2>3, <3>4
    <2> QED
      BY <1>1, <1>6, <2>4, <2>5 DEF GetL2, Goto, RestOK
  <1>7. CASE Compute(t)
    <2>1. /\ l2' = l2 /\ l1' = l1 /\ last' = last /\ newest' = newest /\ lapsed' = lapsed
          /\ pc[t] = "compute" /\ pc'[t] = "set1" /\ call' = call /\ snap'[t] = 0
      BY <1>1, <1>2, <1>7 DEF Compute, Goto, tiers, answers, local, RestOK
    <2>2. Cached(l1'[p], x) = {}
      BY <1>1, <1>2, <2>1 DEF GetOK
    <2>3. Known(m, x)'
      BY <1>2, <1>4, <1>5, <2>1
    <2>4. ProcOK(p, x)' /\ Said(p, x)'
      BY <1>2, <1>3, <1>5, <2>1, <2>2, <2>3 DEF ProcOK, Said
    <2>5. GetOK(t)'
      BY <1>1, <1>2, <2>1, <2>2 DEF GetOK
    <2> QED
      BY <2>4, <2>5
  <1>8. CASE SetL1(t)
    <2>1. /\ l2' = l2 /\ last' = last /\ newest' = newest /\ lapsed' = lapsed
          /\ pc[t] = "set1" /\ pc'[t] = "set2" /\ call' = call /\ snap' = snap
      BY <1>1, <1>8 DEF SetL1, Goto, answers, local, RestOK
    <2>2. /\ snap[t] = 0 /\ (newest[p][x] =< 0 \/ x \in lapsed)
          /\ Cached(l1[p], x) = {}
      BY <1>1, <1>2, <2>1 DEF GetOK
    <2>3. \A n \in Cached(l1'[p], x) : n = 0
      BY <1>1, <2>2, CachedStep
    <2>4. Known(0, x) /\ Ahead(0, p, x)'
      <3>1. \A w \in Writers : x \in Serves[w] => 0 =< Ceiling(w, x)
        BY <1>1, CeilingNat
      <3> QED
        BY <1>5, <2>1, <2>2, <3>1 DEF Known, Ahead
    <2>5. Known(0, x)' /\ Known(m, x)'
      BY <1>2, <1>4, <1>5, <2>1, <2>4
    <2>6. ProcOK(p, x)' /\ Said(p, x)'
      BY <1>2, <1>3, <1>5, <2>1, <2>3, <2>4, <2>5 DEF ProcOK, Said
    <2>7. GetOK(t)'
      BY <1>1, <1>2, <2>1, <2>2, <2>3 DEF GetOK
    <2> QED
      BY <2>6, <2>7
  <1>9. CASE SetL2(t)
    <2>1. /\ l1' = l1 /\ lapsed' = lapsed /\ pc[t] = "set2" /\ pc'[t] = "idle"
          /\ Answer(t, x, snap[t]) /\ l2'[x] \in {l2[x], snap[t]}
      BY <1>1, <1>2, <1>9 DEF SetL2, WriteL2, Goto, RestOK
    <2>2. /\ snap[t] = 0 /\ (m =< 0 \/ x \in lapsed)
          /\ \A n \in Cached(l1[p], x) : n = 0
      BY <1>1, <1>2, <1>5, <2>1 DEF GetOK
    <2>3. last'[p][x] = 0 /\ newest'[p][x] = IF m < 0 THEN 0 ELSE m
      <3> HIDE DEF p
      <3> QED
        BY <1>1, <1>5, <2>1, <2>2 DEF Answer, AnswersOK, p
    <2>4. Known(0, x)' /\ Known(m, x)'
      <3>1. Known(0, x)
        BY <1>1, CeilingNat DEF Known
      <3>2. l2'[x] = l2[x] \/ l2'[x] = 0
        BY <2>1, <2>2
      <3>3. Known(0, x)'
        BY <1>4, <3>1, <3>2
      <3>4. Known(m, x)'
        BY <1>2, <1>4, <1>5, <2>2, <3>2
      <3> QED
        BY <3>3, <3>4
    <2>5. Said(p, x)'
      BY <2>1, <2>2, <2>3 DEF Said
    <2>6. Ahead(0, p, x)'
      BY <2>1, <2>2, <2>3 DEF Ahead
    <2>7. PICK k \in {0, m} : k = newest'[p][x]
      BY <2>3
    <2>8. Known(k, x)'
      BY <2>4, <2>7
    <2>9. Known(newest[p][x], x)'
      BY <2>7, <2>8 DEF Known
    <2>10. ProcOK(p, x)'
      BY <1>2, <1>3, <2>1, <2>2, <2>4, <2>6, <2>9 DEF ProcOK
    <2> QED
      BY <2>1, <2>5, <2>10 DEF GetOK
  <1>10. CASE FillL1(t)
    <2>1. /\ l2' = l2 /\ lapsed' = lapsed /\ pc[t] = "fill" /\ pc'[t] = "idle"
          /\ Answer(t, x, snap[t])
      BY <1>1, <1>10 DEF FillL1, Goto, RestOK
    <2>2. PICK n \in Int : n = snap[t] /\ n >= 0
      BY <1>2, <2>1
    <2>3. Ahead(n, p, x) /\ Known(n, x) /\ Cached(l1[p], x) = {}
      BY <1>1, <1>2, <2>1, <2>2 DEF GetOK
    <2>4. \A k \in Cached(l1'[p], x) : k = n
      BY <1>1, <2>2, <2>3, CachedStep
    <2>5. last'[p][x] = n /\ newest'[p][x] = IF m < n THEN n ELSE m
      <3> HIDE DEF p
      <3> QED
        BY <1>1, <1>5, <2>1, <2>2 DEF Answer, AnswersOK, p
    <2>6. Known(n, x)' /\ Known(m, x)'
      BY <1>2, <1>4, <1>5, <2>1, <2>3
    <2>7. Said(p, x)'
      BY <1>5, <2>1, <2>3, <2>5 DEF Said, Ahead
    <2>8. Ahead(n, p, x)'
      BY <1>5, <2>1, <2>3, <2>5 DEF Ahead
    <2>9. PICK k \in {n, m} : k = newest'[p][x]
      BY <2>5
    <2>10. Known(k, x)'
      BY <2>6, <2>9
    <2>11. Known(newest[p][x], x)'
      BY <2>9, <2>10 DEF Known
    <2>12. ProcOK(p, x)'
      BY <1>2, <1>3, <2>4, <2>6, <2>8, <2>11 DEF ProcOK
    <2> QED
      BY <2>1, <2>7, <2>12 DEF GetOK
  <1> QED
    BY <1>6, <1>7, <1>8, <1>9, <1>10

\* What t's step does to what it serves itself.
LEMMA ReaderOwn ==
    ASSUME Context, NEW t \in Readers, Step(t), NEW x, x = entity'[t]
    PROVE  ProcOK(Home[t], x)' /\ GetOK(t)' /\ Said(Home[t], x)'
  <1>1. /\ t \notin Writers /\ t \in Threads /\ RestOK /\ Serving
        /\ GetOK(t) /\ Serves[t] \subseteq Entities
    BY Facts DEF Context
  <1>2. ASSUME NEW e \in Serves[t], GetL1(t, e)
        PROVE  ProcOK(Home[t], x)' /\ GetOK(t)' /\ Said(Home[t], x)'
    <2>1. x = e
      BY <1>1, <1>2 DEF GetL1, Enter, RestOK
    <2> QED
      BY <1>2, <2>1, ReaderHits
  <1>3. CASE Compute(t) \/ SetL1(t) \/ SetL2(t) \/ GetL2(t) \/ FillL1(t)
    <2>1. x = entity[t]
      BY <1>3 DEF Compute, SetL1, SetL2, GetL2, FillL1, local
    <2> QED
      BY <1>3, <2>1, ReaderSteps
  <1> QED
    BY <1>1, <1>2, <1>3 DEF Step, GetStep, Store

\* What t's step does to another thread that gets.
LEMMA ReaderOther ==
    ASSUME Context, GetsApart, GetsApart', NEW t \in Readers, Step(t),
           NEW u \in Readers, u # t
    PROVE  GetOK(u)'
  <1>1. /\ t \in Threads /\ u \in Threads /\ RestOK /\ AnswersOK /\ TypeInv /\ t \notin Writers
        /\ GetOK(u) /\ Home[u] \in Procs /\ Serves[u] \subseteq Entities
        /\ (pc[u] # "idle" => entity[u] \in Serves[u]) /\ GetOK(t)
    BY Facts DEF Context
  <1>2. pc'[u] = pc[u] /\ call'[u] = call[u] /\ entity'[u] = entity[u] /\ snap'[u] = snap[u]
    BY <1>1, LocalsStep
  <1>3. CASE pc[u] = "idle"
    BY <1>2, <1>3 DEF GetOK
  <1>4. CASE pc[u] # "idle" /\ entity[u] # entity'[t]
    <2> DEFINE p == Home[u]
    <2>1. PICK e \in Entities : e = entity[u]
      BY <1>1, <1>4
    <2>2. /\ newest'[p][e] = newest[p][e] /\ Cached(l1'[p], e) \subseteq Cached(l1[p], e)
          /\ l2'[e] = l2[e] /\ lapsed \subseteq lapsed'
      BY <1>1, <1>4, <2>1, ReaderFrame
    <2>3. PICK n \in Int : n = snap[u]
      BY <1>1, Facts
    <2>4. Known(n, e) => Known(n, e)'
      BY <1>1, <2>1, <2>2, ReaderKnown
    <2>5. Ahead(n, p, e) => Ahead(n, p, e)'
      BY <2>2 DEF Ahead
    <2> QED
      BY <1>1, <1>2, <2>1, <2>2, <2>3, <2>4, <2>5 DEF GetOK
  <1>5. CASE pc[u] # "idle" /\ entity[u] = entity'[t]
    <2> DEFINE p == Home[u]
    <2>1. PICK e \in Entities : e = entity[u]
      BY <1>1, <1>5
    <2>2. e \in Serves[t] /\ e \in Serves[u]
      BY <1>1, <1>5, <2>1, ReaderFrame
    <2>3. Home[t] = p
      BY <2>2 DEF Context, ReadersApart
    <2>4. pc'[t] = "idle"
      BY <1>2, <1>5, <2>3 DEF GetsApart
    <2>5. pc[t] = "idle"
      BY <1>5, <2>3, ReaderFrame DEF GetsApart
    <2>6. PICK x \in Serves[t] : GetL1(t, x)
      BY <1>1, <2>5 DEF Step, GetStep, Store, Compute, SetL1, SetL2, GetL2, FillL1, Goto
    <2>7. x = e
      BY <1>1, <1>5, <2>1, <2>6 DEF GetL1, Enter, RestOK
    <2>8. PICK n : n = ValueOf(l1[p], e)
      OBVIOUS
    <2>9. e \in KeysOf(l1[p]) /\ Answer(t, e, n) /\ lapsed' = lapsed
      BY <1>1, <2>3, <2>4, <2>6, <2>7, <2>8 DEF GetL1, Goto, RestOK
    <2>10. Cached(l1[p], e) = {n}
      BY <1>1, <2>8, <2>9, CachedOne
    <2>11. pc[u] = "set2" /\ n = 0
      BY <1>1, <1>5, <2>1, <2>10 DEF GetOK
    <2>12. Cached(l1'[p], e) \subseteq {n}
      BY <1>1, <2>5, <2>10, CachedStep DEF Putting
    <2>13. newest[p][e] \in Int /\ (newest[p][e] =< 0 \/ e \in lapsed)
      BY <1>1, <1>5, <2>1, <2>11, Facts DEF GetOK
    <2>14. newest'[p][e] = IF newest[p][e] < n THEN n ELSE newest[p][e]
      <3> HIDE DEF p
      <3> QED
        BY <1>1, <2>3, <2>9 DEF Answer, AnswersOK, p
    <2>15. newest'[p][e] =< 0 \/ e \in lapsed'
      BY <2>9, <2>11, <2>13, <2>14
    <2> QED
      BY <1>1, <1>2, <2>1, <2>11, <2>12, <2>15 DEF GetOK
  <1> QED
    BY <1>3, <1>4, <1>5

LEMMA ReaderStep ==
    ASSUME Context, GetsApart, GetsApart', NEW t \in Readers, Step(t)
    PROVE  ReadInv'
  <1>1. PICK x : x = entity'[t]
    OBVIOUS
  <1>2. /\ t \in Threads /\ RestOK /\ TypeInv /\ Serving /\ Home[t] \in Procs /\ ReadInv
        /\ x \in Serves[t] /\ Serves[t] \subseteq Entities /\ UNCHANGED engine
        /\ lapsed \subseteq lapsed' /\ t \notin Writers
    BY <1>1, Facts, ReaderFrame DEF Context
  <1>3. ProcOK(Home[t], x)' /\ GetOK(t)' /\ Said(Home[t], x)'
    BY <1>1, ReaderOwn
  <1>4. ASSUME NEW p \in Procs, NEW e \in Entities PROVE Said(p, e)'
    <2>1. CASE p = Home[t] /\ e = x
      BY <1>3, <2>1
    <2>2. CASE ~ (p = Home[t] /\ e = x)
      <3>1. newest'[p][e] = newest[p][e] /\ last'[p][e] = last[p][e]
        BY <1>1, <2>2, ReaderFrame
      <3> QED
        BY <1>2, <3>1 DEF ReadInv, MonotonicReads, Said
    <2> QED
      BY <2>1, <2>2
  <1>5. MonotonicReads'
    BY <1>4 DEF MonotonicReads, Said
  <1>6. ASSUME NEW r \in Readers PROVE GetOK(r)'
    BY <1>3, <1>6, ReaderOther
  <1>7. ASSUME NEW r \in Readers, NEW e \in Serves[r] PROVE ProcOK(Home[r], e)'
    <2>1. CASE e = x
      <3>1. Home[r] = Home[t]
        BY <1>2, <2>1 DEF Context, ReadersApart
      <3> QED
        BY <1>3, <2>1, <3>1
    <2>2. CASE e # x
      <3> DEFINE p == Home[r]
      <3>1. ProcOK(p, e) /\ p \in Procs /\ e \in Entities
            /\ newest[p][e] \in Int /\ \A n \in Cached(l1[p], e) : n \in Int
        BY Facts
      <3>2. /\ newest'[p][e] = newest[p][e] /\ Cached(l1'[p], e) \subseteq Cached(l1[p], e)
            /\ l2'[e] = l2[e]
        BY <1>1, <2>2, <3>1, ReaderFrame
      <3>3. \A n \in Int : Known(n, e) => Known(n, e)'
        BY <3>1, <3>2, ReaderKnown
      <3>4. PICK m \in Int : m = newest[p][e] /\ Known(m, e)'
        BY <3>1, <3>3 DEF ProcOK
      <3>5. Known(newest[p][e], e)'
        BY <3>2, <3>4 DEF Known
      <3>6. ASSUME NEW n \in Cached(l1'[p], e) PROVE Ahead(n, p, e)' /\ Known(n, e)'
        BY <1>2, <3>1, <3>2, <3>3, <3>6 DEF ProcOK, Ahead
      <3> QED
        BY <1>2, <3>1, <3>5, <3>6 DEF ProcOK
    <2> QED
      BY <2>1, <2>2
  <1>8. ASSUME NEW w \in Writers, NEW e \in Serves[w] PROVE WriterOK(w, e)'
    <2>1. /\ WriterOK(w, e) /\ e \in Entities /\ w \in Threads /\ w # t
          /\ Ceiling(w, e) \in Nat /\ l2[e] \in Int
      BY <1>2, Facts, CeilingNat
    <2>2. Ceiling(w, e)' = Ceiling(w, e)
      BY <2>1, ReaderFrame
    <2>3. l2'[e] = l2[e] \/ l2'[e] = 0
      <3>1. CASE l2' = l2
        BY <3>1
      <3>2. CASE pc[t] = "set2" /\ l2' = [l2 EXCEPT ![entity[t]] = snap[t]]
        <4>1. snap[t] = 0
          BY <1>2, <3>2, Facts DEF GetOK
        <4> QED
          BY <1>2, <2>1, <3>2, <4>1 DEF RestOK
      <3> QED
        BY <1>2, <3>1, <3>2, RedisStep
    <2>4. /\ pc'[w] = pc[w] /\ call'[w] = call[w] /\ entity'[w] = entity[w] /\ snap'[w] = snap[w]
      BY <1>2, <2>1, LocalsStep
    <2>5. l2'[e] =< Ceiling(w, e)'
      BY <2>1, <2>2, <2>3 DEF WriterOK
    <2> QED
      BY <1>2, <2>1, <2>4, <2>5 DEF WriterOK
  <1>9. ASSUME NEW u \in Threads, pc'[u] # "idle" PROVE u \in Writers \cup Readers
    <2>1. CASE u = t
      BY <2>1
    <2>2. CASE u # t
      BY <1>2, <1>9, <2>2, LocalsStep DEF ReadInv
    <2> QED
      BY <2>1, <2>2
  <1>10. ~ RedisUp => \A e \in Entities : l2'[e] = NoSnap
    BY <1>2, RedisStep DEF ReadInv
  <1> QED
    BY <1>5, <1>6, <1>7, <1>8, <1>9, <1>10 DEF ReadInv

\* A step of a thread that ingests: what it will write only grows, and it tells
\* nobody anything.
LEMMA WriterFrame ==
    ASSUME Context, NEW t \in Writers, Step(t)
    PROVE  /\ UNCHANGED <<last, newest, lapsed>>
           /\ \A w \in Writers : \A e \in Serves[w] :
                WriterOK(w, e)' /\ Ceiling(w, e) =< Ceiling(w, e)'
           /\ \A e \in Entities :
                l2'[e] = l2[e] \/ (e \in Serves[t] /\ l2'[e] = Ceiling(t, e))
  <1>1. /\ t \in Threads /\ t \notin Readers /\ Home[t] \in Procs /\ Serves[t] \subseteq Entities
        /\ RestOK /\ AnswersOK /\ TypeInv /\ Serving
        /\ \A e \in Serves[t] : WriterOK(t, e)
        /\ (pc[t] # "idle" => entity[t] \in Serves[t])
        /\ RestOK'
    BY Facts, RestStep DEF Context
  <1>2. pc[t] # "idle" => call[t] = "ingest" /\ pc[t] \in {"compute", "set1", "set2", "count"}
    BY <1>1 DEF WriterOK
  <1>3. UNCHANGED <<last, newest, lapsed>>
    <2>1. ASSUME NEW e \in Serves[t], Record(t, e) PROVE UNCHANGED <<last, newest, lapsed>>
      BY <2>1 DEF Record, answers
    <2>2. CASE Compute(t) \/ SetL1(t) \/ CountWrite(t)
      BY <2>2 DEF Compute, SetL1, CountWrite, answers
    <2>3. CASE SetL2(t)
      BY <1>2, <2>3 DEF SetL2, Goto, answers
    <2> QED
      BY <1>1, <2>1, <2>2, <2>3 DEF Step, IngestStep, Store
  <1>4. ASSUME NEW e \in Entities
        PROVE  l2'[e] = l2[e] \/ (e \in Serves[t] /\ l2'[e] = Ceiling(t, e))
    <2>1. CASE l2' = l2
      BY <2>1
    <2>2. CASE /\ pc[t] = "set2" /\ entity[t] \in Serves[t]
               /\ l2' = [l2 EXCEPT ![entity[t]] = snap[t]]
      BY <1>1, <2>2 DEF Ceiling, RestOK
    <2> QED
      BY <1>1, <2>1, <2>2, RedisStep
  <1>5. ASSUME NEW w \in Writers, NEW e \in Serves[w], w # t
        PROVE  WriterOK(w, e)' /\ Ceiling(w, e) =< Ceiling(w, e)'
    <2>1. /\ w \in Threads /\ e \notin Serves[t] /\ e \in Entities /\ WriterOK(w, e)
          /\ Home[w] \in Procs /\ Ceiling(w, e) \in Nat
      BY <1>5, Facts, CeilingNat DEF Context, ReadersApart
    <2>2. /\ pc'[w] = pc[w] /\ call'[w] = call[w] /\ entity'[w] = entity[w] /\ snap'[w] = snap[w]
      BY <1>1, <1>5, <2>1, LocalsStep
    <2>3. engine'[Home[w]][e] = engine[Home[w]][e]
      BY <1>1, <1>5, <2>1, OtherThread
    <2>4. l2'[e] = l2[e]
      BY <1>4, <2>1
    <2>5. Ceiling(w, e)' = Ceiling(w, e)
      BY <2>2, <2>3 DEF Ceiling
    <2> QED
      BY <2>1, <2>2, <2>3, <2>4, <2>5 DEF WriterOK
  <1>6. ASSUME NEW e \in Serves[t]
        PROVE  WriterOK(t, e)' /\ Ceiling(t, e) =< Ceiling(t, e)'
    <2> DEFINE h == Home[t]
    <2>1. /\ e \in Entities /\ WriterOK(t, e) /\ h \in Procs /\ Ceiling(t, e) \in Nat
          /\ l2[e] \in Int /\ engine[h][e] \in Nat /\ snap[t] \in Int
      BY <1>1, Facts, CeilingNat
    <2>2. l2'[e] =< Ceiling(t, e)
      BY <1>4, <2>1 DEF WriterOK
    <2>3. l2'[e] \in Int
      BY <1>4, <2>1
    <2>4. ASSUME NEW f \in Serves[t], Recording(t, f)
          PROVE  WriterOK(t, e)' /\ Ceiling(t, e) =< Ceiling(t, e)'
      <3>1. /\ pc[t] = "idle" /\ pc'[t] = "compute" /\ call'[t] = "ingest" /\ entity'[t] = f
            /\ engine'[h][e] \in {engine[h][e], engine[h][e] + 1}
        BY <1>1, <2>1, <2>4 DEF Recording
      <3>2. Ceiling(t, e) = engine[h][e] /\ Ceiling(t, e)' = engine'[h][e]
        BY <3>1 DEF Ceiling
      <3>3. engine[h][e] =< engine'[h][e] /\ engine'[h][e] \in Int
        BY <2>1, <3>1
      <3> QED
        BY <2>1, <2>2, <2>3, <3>1, <3>2, <3>3 DEF WriterOK
    <2>5. CASE UNCHANGED engine
      <3>1. CASE Compute(t)
        <4>1. /\ pc[t] = "compute" /\ pc'[t] = "set1" /\ call' = call /\ entity' = entity
              /\ snap'[t] = engine[h][entity[t]]
          BY <1>1, <3>1 DEF Compute, Goto, local, RestOK
        <4>2. Ceiling(t, e) = engine[h][e] /\ Ceiling(t, e)' = engine[h][e]
          BY <2>5, <4>1 DEF Ceiling
        <4> QED
          BY <1>2, <2>1, <2>2, <2>3, <2>5, <4>1, <4>2 DEF WriterOK
      <3>2. CASE SetL1(t)
        <4>1. /\ pc[t] = "set1" /\ pc'[t] = "set2" /\ call' = call /\ entity' = entity
              /\ snap' = snap
          BY <1>1, <3>2 DEF SetL1, Goto, local, RestOK
        <4>2. Ceiling(t, e)' = Ceiling(t, e)
          BY <2>5, <4>1 DEF Ceiling
        <4> QED
          BY <1>2, <2>1, <2>2, <2>3, <2>5, <4>1, <4>2 DEF WriterOK
      <3>3. CASE SetL2(t)
        <4>1. /\ pc[t] = "set2" /\ pc'[t] = "count" /\ call' = call /\ entity' = entity
              /\ snap' = snap
          BY <1>1, <1>2, <3>3 DEF SetL2, Goto, local, RestOK
        <4>2. Ceiling(t, e)' = engine[h][e] /\ Ceiling(t, e) =< engine[h][e]
          BY <2>1, <2>5, <4>1 DEF Ceiling, WriterOK
        <4> QED
          BY <1>2, <2>1, <2>2, <2>3, <2>5, <4>1, <4>2 DEF WriterOK
      <3>4. CASE CountWrite(t)
        <4>1. /\ pc[t] = "count" /\ pc'[t] = "idle" /\ call' = call /\ entity' = entity
              /\ snap' = snap
          BY <1>1, <3>4 DEF CountWrite, Goto, local, RestOK
        <4>2. Ceiling(t, e)' = Ceiling(t, e)
          BY <2>5, <4>1 DEF Ceiling
        <4> QED
          BY <2>1, <2>2, <2>3, <2>5, <4>1, <4>2 DEF WriterOK
      <3>5. ASSUME NEW f \in Serves[t], Record(t, f) PROVE FALSE
        <4>1. engine'[h][f] = engine[h][f] + 1 /\ engine[h][f] \in Nat
          <5>1. f \in Entities /\ engine[h][f] \in Nat /\ engine \in [Procs -> [Entities -> 0 .. MaxIngests]]
            BY <1>1, Facts DEF RestOK
          <5>2. engine' = [engine EXCEPT ![h][f] = engine[h][f] + 1]
            BY <3>5 DEF Record
          <5> HIDE DEF h
          <5> QED
            BY <1>1, <5>1, <5>2 DEF h
        <4> QED
          BY <2>5, <4>1
      <3> QED
        BY <1>1, <3>1, <3>2, <3>3, <3>4, <3>5 DEF Step, IngestStep, Store
    <2> QED
      BY <1>1, <2>4, <2>5, EngineStep
  <1> QED
    BY <1>3, <1>4, <1>5, <1>6

LEMMA WriterStep ==
    ASSUME Context, NEW t \in Writers, Step(t)
    PROVE  ReadInv'
  <1>1. /\ t \in Threads /\ RestOK /\ TypeInv /\ Serving /\ Home[t] \in Procs /\ ReadInv
        /\ Serves[t] \subseteq Entities /\ t \notin Readers
        /\ last' = last /\ newest' = newest /\ lapsed' = lapsed
    BY Facts, WriterFrame DEF Context
  <1>2. ASSUME NEW n \in Int, NEW e \in Entities, Known(n, e) PROVE Known(n, e)'
    <2>1. \A w \in Writers : e \in Serves[w] => n =< Ceiling(w, e)'
      <3> SUFFICES ASSUME NEW w \in Writers, e \in Serves[w] PROVE n =< Ceiling(w, e)'
        OBVIOUS
      <3>1. n =< Ceiling(w, e) /\ Ceiling(w, e) =< Ceiling(w, e)'
        BY <1>2, WriterFrame DEF Known
      <3>2. Ceiling(w, e) \in Int /\ Ceiling(w, e)' \in Int
        <4>1. RestOK'
          BY <1>1, RestStep
        <4>2. snap'[w] \in Int /\ engine'[Home[w]][e] \in Int
          <5>1. w \in Threads /\ Home[w] \in Procs
            BY Facts
          <5>2. snap'[w] \in Snap /\ engine'[Home[w]][e] \in 0 .. MaxIngests
            BY <4>1, <5>1 DEF RestOK
          <5> QED
            BY <5>2, Constants DEF Snap
        <4> QED
          BY <4>2, CeilingNat DEF Ceiling
      <3> QED
        BY <3>1, <3>2
    <2>2. CASE l2'[e] = l2[e]
      BY <1>1, <1>2, <2>1, <2>2 DEF Known
    <2>3. CASE e \in Serves[t] /\ l2'[e] = Ceiling(t, e)
      BY <1>2, <2>1, <2>3 DEF Known
    <2> QED
      BY <2>2, <2>3, WriterFrame
  <1>3. ASSUME NEW r \in Readers
        PROVE  /\ r \in Threads /\ Home[r] \in Procs /\ Home[r] # Home[t] /\ r # t
               /\ pc'[r] = pc[r] /\ call'[r] = call[r] /\ entity'[r] = entity[r] /\ snap'[r] = snap[r]
               /\ \A e : Cached(l1'[Home[r]], e) \subseteq Cached(l1[Home[r]], e)
    <2>1. r \in Threads /\ Home[r] \in Procs /\ Home[r] # Home[t] /\ r # t
      BY <1>1, Facts DEF Context, ReadersApart
    <2>2. pc'[r] = pc[r] /\ call'[r] = call[r] /\ entity'[r] = entity[r] /\ snap'[r] = snap[r]
      BY <1>1, <2>1, LocalsStep
    <2>3. \A e : Cached(l1'[Home[r]], e) \subseteq Cached(l1[Home[r]], e)
      BY <1>1, <2>1, CachedStep
    <2> QED
      BY <2>1, <2>2, <2>3
  <1>4. ASSUME NEW r \in Readers PROVE GetOK(r)'
    <2>1. CASE pc[r] = "idle"
      BY <1>3, <2>1 DEF GetOK
    <2>2. CASE pc[r] # "idle"
      <3>1. PICK e \in Entities, n \in Int : e = entity[r] /\ n = snap[r]
        BY <1>3, <2>2, Facts
      <3>2. Known(n, e) => Known(n, e)'
        BY <1>2
      <3>3. GetOK(r)
        BY Facts
      <3>4. Ahead(n, Home[r], e) => Ahead(n, Home[r], e)'
        BY <1>1 DEF Ahead
      <3> QED
        BY <1>1, <1>3, <3>1, <3>2, <3>3, <3>4 DEF GetOK
    <2> QED
      BY <2>1, <2>2
  <1>5. ASSUME NEW r \in Readers, NEW e \in Serves[r] PROVE ProcOK(Home[r], e)'
    <2> DEFINE p == Home[r]
    <2>1. ProcOK(p, e) /\ p \in Procs /\ e \in Entities
          /\ newest[p][e] \in Int /\ \A n \in Cached(l1[p], e) : n \in Int
      BY Facts
    <2>2. Cached(l1'[p], e) \subseteq Cached(l1[p], e) /\ p # Home[t]
      BY <1>3
    <2>3. engine'[p][e] = engine[p][e]
      <3>1. CASE UNCHANGED engine
        BY <3>1
      <3>2. CASE \E f \in Serves[t] : Recording(t, f)
        BY <2>1, <2>2, <3>2 DEF Recording
      <3> QED
        BY <1>1, <3>1, <3>2, EngineStep
    <2>4. PICK m \in Int : m = newest[p][e] /\ Known(m, e)'
      BY <1>2, <2>1 DEF ProcOK
    <2>5. Known(newest[p][e], e)'
      BY <1>1, <2>4 DEF Known
    <2>6. ASSUME NEW n \in Cached(l1'[p], e) PROVE Ahead(n, p, e)' /\ Known(n, e)'
      BY <1>1, <1>2, <2>1, <2>2, <2>6 DEF ProcOK, Ahead
    <2> QED
      BY <2>1, <2>3, <2>5, <2>6 DEF ProcOK
  <1>6. MonotonicReads'
    BY <1>1 DEF ReadInv, MonotonicReads
  <1>7. ASSUME NEW u \in Threads, pc'[u] # "idle" PROVE u \in Writers \cup Readers
    <2>1. CASE u = t
      BY <2>1
    <2>2. CASE u # t
      BY <1>1, <1>7, <2>2, LocalsStep DEF ReadInv
    <2> QED
      BY <2>1, <2>2
  <1>8. ~ RedisUp => \A e \in Entities : l2'[e] = NoSnap
    BY <1>1, RedisStep DEF ReadInv
  <1> QED
    BY <1>4, <1>5, <1>6, <1>7, <1>8, WriterFrame DEF ReadInv

LEMMA ReadNext ==
    ReadersApart /\ TypeInv /\ Serving /\ GetsApart /\ ReadInv /\ [Next /\ GetsApart']_vars
        => ReadInv' /\ GetsApart'
  <1> SUFFICES ASSUME ReadersApart, TypeInv, Serving, GetsApart, ReadInv, [Next /\ GetsApart']_vars
               PROVE  ReadInv' /\ GetsApart'
    OBVIOUS
  <1>1. Context
    BY DEF Context
  <1>2. ASSUME NEW t \in Threads, Step(t), GetsApart' PROVE ReadInv'
    BY <1>1, <1>2, Roles, ReaderStep, WriterStep
  <1>3. ASSUME NEW p \in Procs, ClearCache(p) PROVE ReadInv'
    <2>1. /\ UNCHANGED <<pc, call, entity, snap, last, newest, lapsed, engine, l2>>
          /\ l1' = [l1 EXCEPT ![p] = << >>]
      BY <1>3 DEF ClearCache, local, answers
    <2>2. \A q \in Procs : \A e : Cached(l1'[q], e) \subseteq Cached(l1[q], e)
      BY <2>1, TypeParts DEF Cached, CacheOK
    <2>3. \A e \in Entities : \A n : Known(n, e)' <=> Known(n, e)
      BY <2>1 DEF Known, Ceiling
    <2>4. ASSUME NEW r \in Readers PROVE GetOK(r)' /\ \A e \in Serves[r] : ProcOK(Home[r], e)'
      <3>1. /\ r \in Threads /\ Home[r] \in Procs /\ Serves[r] \subseteq Entities /\ GetOK(r)
            /\ \A e \in Serves[r] : ProcOK(Home[r], e)
            /\ (pc[r] # "idle" => entity[r] \in Entities)
        BY <1>1, Facts
      <3>2. GetOK(r)'
        BY <2>1, <2>2, <2>3, <3>1 DEF GetOK, Ahead, Known, Ceiling
      <3>3. ASSUME NEW e \in Serves[r] PROVE ProcOK(Home[r], e)'
        <4>1. ProcOK(Home[r], e) /\ e \in Entities /\ Home[r] \in Procs
          BY <3>1
        <4>2. PICK m : m = newest[Home[r]][e]
          OBVIOUS
        <4>3. Known(m, e)'
          BY <2>3, <4>1, <4>2 DEF ProcOK
        <4>4. Known(newest[Home[r]][e], e)'
          BY <2>1, <4>2, <4>3 DEF Known
        <4>5. ASSUME NEW n \in Cached(l1'[Home[r]], e) PROVE Ahead(n, Home[r], e)' /\ Known(n, e)'
          BY <2>1, <2>2, <2>3, <4>1, <4>5 DEF ProcOK, Ahead
        <4> QED
          BY <2>1, <4>1, <4>4, <4>5 DEF ProcOK
      <3> QED
        BY <3>2, <3>3
    <2>5. \A w \in Writers : \A e \in Serves[w] : WriterOK(w, e)'
      BY <2>1 DEF ReadInv, WriterOK, Ceiling
    <2> QED
      BY <2>1, <2>4, <2>5 DEF ReadInv, MonotonicReads
  <1>4. ASSUME NEW f \in Entities, Expire(f) PROVE ReadInv'
    <2>1. /\ UNCHANGED <<pc, call, entity, snap, last, newest, engine, l1>>
          /\ lapsed' = lapsed \cup {f}
          /\ \A e \in Entities : l2'[e] = IF e = f THEN -1 ELSE l2[e]
      BY <1>4, TypeParts DEF Expire, local, answers, RestOK, NoSnap
    <2>2. ASSUME NEW n, NEW e \in Entities, Known(n, e) PROVE Known(n, e)'
      <3>1. \A w \in Writers : e \in Serves[w] => n =< Ceiling(w, e)'
        BY <2>1, <2>2 DEF Known, Ceiling
      <3> QED
        BY <2>1, <2>2, <3>1 DEF Known
    <2>3. ASSUME NEW n, NEW p, NEW e, Ahead(n, p, e) PROVE Ahead(n, p, e)'
      BY <2>1, <2>3 DEF Ahead
    <2>4. ASSUME NEW r \in Readers PROVE GetOK(r)' /\ \A e \in Serves[r] : ProcOK(Home[r], e)'
      <3>1. /\ Serves[r] \subseteq Entities /\ GetOK(r)
            /\ \A e \in Serves[r] : ProcOK(Home[r], e)
            /\ (pc[r] # "idle" => entity[r] \in Serves[r])
        BY <1>1, Facts
      <3>2. GetOK(r)'
        <4>1. CASE pc[r] = "idle"
          BY <2>1, <4>1 DEF GetOK
        <4>2. CASE pc[r] # "idle"
          <5>0. PICK n : n = snap[r]
            OBVIOUS
          <5>1. PICK e \in Entities : e = entity[r]
            BY <3>1, <4>2
          <5>2. (Known(n, e) => Known(n, e)') /\ (Ahead(n, Home[r], e) => Ahead(n, Home[r], e)')
            BY <2>2, <2>3
          <5> QED
            BY <2>1, <3>1, <4>2, <5>0, <5>1, <5>2 DEF GetOK
        <4> QED
          BY <4>1, <4>2
      <3>3. ASSUME NEW e \in Serves[r] PROVE ProcOK(Home[r], e)'
        <4>1. ProcOK(Home[r], e) /\ e \in Entities
          BY <3>1
        <4>2. PICK m : m = newest[Home[r]][e]
          OBVIOUS
        <4>3. Known(m, e)'
          BY <2>2, <4>1, <4>2 DEF ProcOK
        <4>4. Known(newest[Home[r]][e], e)'
          BY <2>1, <4>2, <4>3 DEF Known
        <4>5. ASSUME NEW n \in Cached(l1'[Home[r]], e) PROVE Ahead(n, Home[r], e)' /\ Known(n, e)'
          BY <2>1, <2>2, <2>3, <4>1, <4>5 DEF ProcOK
        <4> QED
          BY <2>1, <4>1, <4>4, <4>5 DEF ProcOK
      <3> QED
        BY <3>2, <3>3
    <2>5. ASSUME NEW w \in Writers, NEW e \in Serves[w] PROVE WriterOK(w, e)'
      <3>1. WriterOK(w, e) /\ e \in Entities /\ Ceiling(w, e) \in Nat
        BY <1>1, Facts, CeilingNat
      <3>2. Ceiling(w, e)' = Ceiling(w, e)
        BY <2>1 DEF Ceiling
      <3> QED
        BY <2>1, <3>1, <3>2 DEF WriterOK
    <2>6. ~ RedisUp => \A e \in Entities : l2'[e] = NoSnap
      BY <2>1 DEF ReadInv, NoSnap
    <2>7. MonotonicReads'
      BY <2>1 DEF ReadInv, MonotonicReads
    <2> QED
      BY <2>1, <2>4, <2>5, <2>6, <2>7 DEF ReadInv
  <1>5. CASE UNCHANGED vars
    <2>1. UNCHANGED <<pc, call, entity, snap, last, newest, lapsed, engine, l1, l2>>
      BY <1>5 DEF vars, tiers, local, answers
    <2>2. ReadInv'
      BY <2>1 DEF ReadInv, MonotonicReads, GetOK, ProcOK, WriterOK, Known, Ahead, Ceiling, Cached
    <2>3. GetsApart'
      BY <2>1 DEF GetsApart
    <2> QED
      BY <2>2, <2>3
  <1> QED
    BY <1>2, <1>3, <1>4, <1>5, NextSteps

LEMMA ReadInit == Init => ReadInv /\ GetsApart
  <1> SUFFICES ASSUME Init PROVE ReadInv /\ GetsApart
    OBVIOUS
  <1>1. /\ \A p \in Procs, e \in Entities : /\ engine[p][e] = 0 /\ last[p][e] = -1
                                            /\ newest[p][e] = -1 /\ Cached(l1[p], e) = {}
        /\ \A t \in Threads : pc[t] = "idle" /\ Home[t] \in Procs /\ Serves[t] \subseteq Entities
        /\ \A e \in Entities : l2[e] = -1
        /\ \A t \in Writers \cup Readers : t \in Threads
    BY Constants, StoreAssumption DEF Init, NoSnap, Cached
  <1>2. ASSUME NEW w \in Writers, NEW e \in Entities PROVE Ceiling(w, e) = 0
    BY <1>1 DEF Ceiling
  <1>3. \A e \in Entities : Known(-1, e)
    BY <1>2 DEF Known
  <1>4. ASSUME NEW r \in Readers, NEW e \in Serves[r] PROVE ProcOK(Home[r], e)
    BY <1>1, <1>3 DEF ProcOK
  <1>5. ASSUME NEW w \in Writers, NEW e \in Serves[w] PROVE WriterOK(w, e)
    BY <1>1, <1>2 DEF WriterOK
  <1>6. \A r \in Readers : GetOK(r)
    BY <1>1 DEF GetOK
  <1> QED
    BY <1>1, <1>4, <1>5, <1>6 DEF ReadInv, MonotonicReads, GetsApart, NoSnap

\* What a process that only reads is told of an entity goes back only to
\* nothing, and only when Redis has lost the entity's key or failed to GET it:
\* for any number of threads that ingest and read, whatever Redis loses or
\* fails, if an entity is ingested by one thread and read in one process, and
\* gets of it in the process do not overlap.
THEOREM MonotonicCorrect == ReadersApart => (SerialSpec => []MonotonicReads)
  <1> SUFFICES ASSUME ReadersApart PROVE SerialSpec => []MonotonicReads
    OBVIOUS
  <1>1. Init => TypeInv /\ Serving /\ GetsApart /\ ReadInv
    BY TypeInit, StartInvs, ReadInit
  <1>2. (TypeInv /\ Serving /\ GetsApart /\ ReadInv) /\ [Next /\ GetsApart']_vars
            => (TypeInv /\ Serving /\ GetsApart /\ ReadInv)'
    BY TypeNext, ServingNext, ReadNext
  <1>3. ReadInv => MonotonicReads
    BY DEF ReadInv
  <1> QED
    BY <1>1, <1>2, <1>3, PTL DEF SerialSpec

\* No get_features of a thread returns fewer transactions of an entity than the
\* thread's last one of it.
NeverBack == [][\A t \in Threads, e \in Entities : result'[t][e] >= result[t][e]]_vars

\* So it is in one process, with a thread for every entity and a Redis that
\* keeps what it is given, also if keys expire and GETs fail: what has been
\* told is never more than what the engine has.
THEOREM MonotonicOwned == Owned /\ SetsKept => (Spec => NeverBack)
  <1> SUFFICES ASSUME Owned /\ SetsKept PROVE Spec => NeverBack
    OBVIOUS
  <1> DEFINE ToldPast == \A t \in Threads : \A e \in Serves[t] : result[t][e] =< engine[Home[t]][e]
             Monotonic == \A t \in Threads, e \in Entities : result'[t][e] >= result[t][e]
  <1>1. Init => TypeInv /\ Serving /\ OwnedInv /\ ToldPast
    BY TypeInit, StartInvs, Constants DEF Init, NoSnap
  <1>2. TypeInv /\ Serving /\ OwnedInv /\ ToldPast /\ [Next]_vars => ToldPast' /\ Monotonic
    <2> SUFFICES ASSUME TypeInv, Serving, OwnedInv, ToldPast, [Next]_vars
                 PROVE  ToldPast' /\ Monotonic
      OBVIOUS
    <2>1. /\ RestOK
          /\ \A t \in Threads : Home[t] \in Procs /\ Serves[t] \subseteq Entities
          /\ \A t \in Threads, e \in Entities :
               result[t][e] \in Int /\ engine[Home[t]][e] \in Int
      <3>1. RestOK /\ Snap \subseteq Int /\ 0 .. MaxIngests \subseteq Int
        BY TypeParts, Constants DEF Snap
      <3>2. \A t \in Threads : Home[t] \in Procs /\ Serves[t] \subseteq Entities
        BY Constants
      <3>3. ASSUME NEW t \in Threads, NEW e \in Entities
            PROVE  result[t][e] \in Snap /\ engine[Home[t]][e] \in 0 .. MaxIngests
        BY <3>1, <3>2 DEF RestOK
      <3> QED
        BY <3>1, <3>2, <3>3
    <2>2. CASE UNCHANGED <<engine, result>>
      BY <2>1, <2>2
    <2>3. ASSUME NEW t \in Threads, Step(t) PROVE ToldPast' /\ Monotonic
      <3>1. CASE UNCHANGED result
        <4>1. ASSUME NEW u \in Threads, NEW e \in Serves[u]
              PROVE  engine'[Home[u]][e] >= engine[Home[u]][e]
          <5>1. CASE UNCHANGED engine
            BY <2>1, <5>1
          <5>2. CASE \E f \in Serves[t] : Recording(t, f)
            <6>1. PICK f \in Serves[t] : Recording(t, f)
              BY <5>2
            <6>2. engine'[Home[u]][e] \in {engine[Home[u]][e], engine[Home[u]][e] + 1}
              BY <2>1, <6>1 DEF Recording
            <6> QED
              BY <2>1, <6>2
          <5> QED
            BY <2>3, <5>1, <5>2, EngineStep
        <4>2. ASSUME NEW u \in Threads, NEW e \in Serves[u]
              PROVE  result'[u][e] =< engine'[Home[u]][e]
          <5>1. /\ result[u][e] =< engine[Home[u]][e] /\ result'[u][e] = result[u][e]
                /\ engine[Home[u]][e] \in Int /\ result[u][e] \in Int
            BY <2>1, <3>1
          <5>2. engine'[Home[u]][e] \in Int
            <6>1. TypeInv'
              BY TypeNext
            <6>2. engine' \in [Procs -> [Entities -> 0 .. MaxIngests]]
              BY <6>1 DEF TypeInv, TypeOK
            <6> QED
              BY <2>1, <6>2, Constants
          <5> QED
            BY <4>1, <5>1, <5>2
        <4> QED
          BY <2>1, <3>1, <4>2
      <3>2. CASE ~ UNCHANGED result
        <4>1. PICK f \in Serves[t] :
                UNCHANGED engine /\ result' = [result EXCEPT ![t][f] = engine[Home[t]][f]]
          BY <2>3, <3>2, AnswerStep
        <4>2. f \in Entities
          BY <2>1
        <4>3. \A u \in Threads, e \in Entities :
                result'[u][e] = IF u = t /\ e = f THEN engine[Home[t]][f] ELSE result[u][e]
          BY <2>1, <4>1, <4>2 DEF RestOK
        <4> QED
          BY <2>1, <4>1, <4>3
      <3> QED
        BY <3>1, <3>2
    <2>4. ASSUME NEW p \in Procs, ClearCache(p) PROVE UNCHANGED <<engine, result>>
      BY <2>4 DEF ClearCache, answers
    <2>5. ASSUME NEW e \in Entities, Expire(e) PROVE UNCHANGED <<engine, result>>
      BY <2>5 DEF Expire, answers
    <2>6. CASE UNCHANGED vars
      BY <2>2, <2>6 DEF vars, answers
    <2> QED
      BY <2>2, <2>3, <2>4, <2>5, <2>6, NextSteps
  <1>3. (TypeInv /\ Serving /\ OwnedInv /\ ToldPast) /\ [Next]_vars
          => (TypeInv /\ Serving /\ OwnedInv /\ ToldPast)'
    BY <1>2, TypeNext, ServingNext, OwnedNext
  <1>4. TypeInv /\ Serving /\ OwnedInv /\ ToldPast /\ [Next]_vars => [Monotonic]_vars
    BY <1>2
  <1> HIDE DEF ToldPast
  <1> QED
    BY <1>1, <1>3, <1>4, PTL DEF Spec, NeverBack
=============================================================================

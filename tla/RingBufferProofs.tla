-------------------------- MODULE RingBufferProofs --------------------------
(***************************************************************************)
(* Facts about the ring operators for every capacity: what a push does to  *)
(* what the reads see, what a wider window adds to the count, total and    *)
(* maximum of a narrower one, and when the merchants of a window line up   *)
(* with its amounts.  The machines' proofs rest on these lemmas.           *)
(***************************************************************************)
EXTENDS RingBuffer, SequenceTheorems, FiniteSetTheorems, TLAPS

-----------------------------------------------------------------------------
(* Sums and maxima over finite sets, for any function.                     *)

\* A non-empty set of natural numbers has a least element.
LEMMA LeastExists ==
    ASSUME NEW C, C \subseteq Nat, C # {}
    PROVE  \E n \in C : \A m \in C : n <= m
  <1>1. IsWellFoundedOn(OpToRel(<, Nat), Nat)
    BY NatLessThanWellFounded
  <1>2. PICK n \in C : \A m \in C : <<m, n>> \notin OpToRel(<, Nat)
    BY <1>1, WFMin
  <1>3. \A m \in C : ~ (m < n)
    BY <1>2 DEF OpToRel
  <1> QED
    BY <1>3

\* Induction over the subsets of a finite set, for a set G of subsets: what
\* a set inherits from its proper subsets, every set has.
LEMMA SubsetInduction ==
    ASSUME NEW S, IsFiniteSet(S), NEW G,
           \A T \in SUBSET S : (\A U \in (SUBSET T) \ {T} : U \in G) => T \in G
    PROVE  \A T \in SUBSET S : T \in G
  <1> DEFINE Bad == (SUBSET S) \ G
  <1> SUFFICES ASSUME Bad # {} PROVE FALSE
    OBVIOUS
  <1>1. IsWellFoundedOn(StrictSubsetOrdering(S), SUBSET S)
    <2>1. IsWellFoundedOn(StrictSubsetOrdering(S), FiniteSubsetsOf(S))
      BY FS_StrictSubsetOrderingWellFounded
    <2>2. FiniteSubsetsOf(S) = SUBSET S
      BY FS_FiniteSubsetsOfFinite
    <2> QED
      BY <2>1, <2>2
  <1>2. PICK T \in Bad : \A U \in Bad : ~ (<<U, T>> \in StrictSubsetOrdering(S))
    <2>1. Bad \subseteq SUBSET S
      OBVIOUS
    <2> HIDE DEF Bad
    <2> QED
      BY <1>1, <2>1, WFMin
  <1>3. ASSUME NEW U \in (SUBSET T) \ {T} PROVE U \in G
    BY <1>2 DEF StrictSubsetOrdering
  <1> QED
    BY <1>2, <1>3

-----------------------------------------------------------------------------
\* One step of the recursion behind SumFunctionOnSet: an element chosen, and
\* what g has for the others.
AddChosen(f, g, s) ==
    IF s = {} THEN 0
    ELSE LET x == CHOOSE x \in s : TRUE IN f[x] + g[s \ {x}]

PartSums(f, S) == CHOOSE g : g = [s \in SUBSET S |-> AddChosen(f, g, s)]

SubsetsUpTo(S, n) == {T \in SUBSET S : Cardinality(T) <= n}

\* The recursion has a solution on the subsets of at most n elements.
LEMMA SolvedUpTo ==
    ASSUME NEW f, NEW S, IsFiniteSet(S), NEW n \in Nat
    PROVE  \E g : g = [s \in SubsetsUpTo(S, n) |-> AddChosen(f, g, s)]
  <1> USE DEF SubsetsUpTo
  <1> DEFINE D(k) == SubsetsUpTo(S, k)
             Solved(k) == \E g : g = [s \in D(k) |-> AddChosen(f, g, s)]
             Bad == {k \in Nat : ~ Solved(k)}
  <1> SUFFICES ASSUME Bad # {} PROVE FALSE
    OBVIOUS
  <1>1. PICK k \in Bad : \A m \in Bad : k <= m
    <2> HIDE DEF Solved
    <2> QED
      BY LeastExists
  <1>0. \A s \in SUBSET S : IsFiniteSet(s) /\ Cardinality(s) \in Nat
    BY FS_Subset, FS_CardinalityType
  <1>2. CASE k = 0
    <2>1. \A s \in D(0) : s = {}
      BY <1>0, FS_EmptySet
    <2> DEFINE g == [s \in D(0) |-> 0]
    <2>2. g = [s \in D(0) |-> AddChosen(f, g, s)]
      BY <2>1 DEF AddChosen
    <2> QED
      BY <1>2, <2>2
  <1>3. CASE k # 0
    <2>1. k - 1 \in Nat /\ k - 1 \notin Bad /\ k \in Nat
      <3>1. k \in Nat
        BY DEF Bad
      <3> HIDE DEF Bad
      <3> QED
        BY <1>1, <1>3, <3>1
    <2>2. PICK g : g = [s \in D(k - 1) |-> AddChosen(f, g, s)]
      BY <2>1
    <2> DEFINE h == [s \in D(k) |-> AddChosen(f, g, s)]
    <2>3. ASSUME NEW s \in D(k) PROVE AddChosen(f, g, s) = AddChosen(f, h, s)
      <3>1. CASE s = {}
        BY <3>1 DEF AddChosen
      <3>2. CASE s # {}
        <4> DEFINE x == CHOOSE x \in s : TRUE
                   r == s \ {x}
        <4>1. x \in s
          BY <3>2
        <4>2. Cardinality(r) = Cardinality(s) - 1
          BY <1>0, <4>1, FS_RemoveElement
        <4>3. r \in D(k - 1) /\ r \in D(k)
          BY <1>0, <2>1, <4>2
        <4>4. h[r] = g[r]
          <5>1. g[r] = AddChosen(f, g, r)
            BY <2>2, <4>3
          <5> QED
            BY <4>3, <5>1
        <4> QED
          BY <3>2, <4>4 DEF AddChosen
      <3> QED
        BY <3>1, <3>2
    <2>4. h = [s \in D(k) |-> AddChosen(f, h, s)]
      BY <2>3
    <2> QED
      BY <2>4
  <1> QED
    BY <1>2, <1>3

LEMMA PartSumsDef ==
    ASSUME NEW f, NEW S, IsFiniteSet(S)
    PROVE  \A s \in SUBSET S : PartSums(f, S)[s] = AddChosen(f, PartSums(f, S), s)
  <1>1. \A T \in SUBSET S : Cardinality(T) <= Cardinality(S)
    BY FS_Subset
  <1>2. SubsetsUpTo(S, Cardinality(S)) = SUBSET S
    BY <1>1 DEF SubsetsUpTo
  <1>3. \E g : g = [s \in SUBSET S |-> AddChosen(f, g, s)]
    <2>1. Cardinality(S) \in Nat
      BY FS_CardinalityType
    <2>2. \E g : g = [s \in SubsetsUpTo(S, Cardinality(S)) |-> AddChosen(f, g, s)]
      BY <2>1, SolvedUpTo
    <2> QED
      BY <1>2, <2>2
  <1>4. PartSums(f, S) = [s \in SUBSET S |-> AddChosen(f, PartSums(f, S), s)]
    BY <1>3 DEF PartSums
  <1> QED
    BY <1>4

\* The sum is the last of the partial sums, which do not depend on the set
\* they are taken in.
LEMMA PartSumsAgree ==
    ASSUME NEW f, NEW S, IsFiniteSet(S), NEW T \in SUBSET S
    PROVE  PartSums(f, S)[T] = SumFunctionOnSet(f, T)
  <1> DEFINE G == {s \in SUBSET T : PartSums(f, S)[s] = PartSums(f, T)[s]}
  <1>1. IsFiniteSet(T)
    BY FS_Subset
  <1>2. ASSUME NEW s \in SUBSET T, \A U \in (SUBSET s) \ {s} : U \in G
        PROVE  s \in G
    <2>1. /\ PartSums(f, S)[s] = AddChosen(f, PartSums(f, S), s)
          /\ PartSums(f, T)[s] = AddChosen(f, PartSums(f, T), s)
      BY <1>1, PartSumsDef
    <2>2. CASE s = {}
      BY <2>1, <2>2 DEF AddChosen
    <2>3. CASE s # {}
      <3> DEFINE x == CHOOSE x \in s : TRUE
      <3>1. s \ {x} \in G
        BY <1>2, <2>3
      <3> QED
        BY <2>1, <2>3, <3>1 DEF AddChosen
    <2> QED
      BY <2>2, <2>3
  <1>3. T \in G
    <2> HIDE DEF G
    <2> QED
      BY <1>1, <1>2, SubsetInduction
  <1>4. SumFunctionOnSet(f, T) = PartSums(f, T)[T]
    BY DEF SumFunctionOnSet, FoldFunctionOnSet, MapThenFoldSet, PartSums, AddChosen
  <1> QED
    BY <1>3, <1>4

LEMMA SumUnfold ==
    ASSUME NEW f, NEW S, IsFiniteSet(S)
    PROVE  /\ S = {} => SumFunctionOnSet(f, S) = 0
           /\ S # {} => LET x == CHOOSE x \in S : TRUE
                        IN  SumFunctionOnSet(f, S) = f[x] + SumFunctionOnSet(f, S \ {x})
  <1>1. PartSums(f, S)[S] = AddChosen(f, PartSums(f, S), S)
    BY PartSumsDef
  <1>2. PartSums(f, S)[S] = SumFunctionOnSet(f, S)
    BY PartSumsAgree
  <1>3. \A x : PartSums(f, S)[S \ {x}] = SumFunctionOnSet(f, S \ {x})
    BY PartSumsAgree
  <1> QED
    BY <1>1, <1>2, <1>3 DEF AddChosen

\* The sum is a natural number, and any element may be taken out first.
LEMMA SumRemove ==
    ASSUME NEW f, NEW S, IsFiniteSet(S), \A x \in S : f[x] \in Nat
    PROVE  /\ SumFunctionOnSet(f, S) \in Nat
           /\ \A y \in S : SumFunctionOnSet(f, S) = f[y] + SumFunctionOnSet(f, S \ {y})
  <1> DEFINE Sum(T) == SumFunctionOnSet(f, T)
             Good(T) == Sum(T) \in Nat /\ \A y \in T : Sum(T) = f[y] + Sum(T \ {y})
             G == {T \in SUBSET S : Good(T)}
  <1>1. ASSUME NEW T \in SUBSET S, \A U \in (SUBSET T) \ {T} : U \in G
        PROVE  T \in G
    <2>1. IsFiniteSet(T)
      BY FS_Subset
    <2>2. CASE T = {}
      <3>1. Sum(T) = 0
        BY <2>1, <2>2, SumUnfold
      <3> HIDE DEF Sum
      <3> QED
        BY <2>2, <3>1
    <2>3. CASE T # {}
      <3> DEFINE x == CHOOSE x \in T : TRUE
      <3>1. x \in T /\ Sum(T) = f[x] + Sum(T \ {x})
        BY <2>1, <2>3, SumUnfold
      <3> HIDE DEF x, Sum
      <3>2. Good(T \ {x}) /\ Sum(T) \in Nat
        BY <1>1, <3>1
      <3>3. ASSUME NEW y \in T, y # x
            PROVE  Sum(T) = f[y] + Sum(T \ {y})
        <4>1. Sum(T \ {x}) = f[y] + Sum((T \ {x}) \ {y})
          BY <3>2, <3>3
        <4>2. Sum(T \ {y}) = f[x] + Sum((T \ {y}) \ {x})
          BY <1>1, <3>1, <3>3
        <4>3. (T \ {x}) \ {y} = (T \ {y}) \ {x}
          OBVIOUS
        <4>4. Good((T \ {x}) \ {y})
          BY <1>1, <3>1
        <4> QED
          BY <3>1, <4>1, <4>2, <4>3, <4>4
      <3> QED
        BY <3>1, <3>2, <3>3
    <2> QED
      BY <2>2, <2>3
  <1>2. S \in G
    <2> HIDE DEF G
    <2> QED
      BY <1>1, SubsetInduction
  <1> QED
    BY <1>2

\* A sum over more elements is not smaller.
LEMMA SumSubset ==
    ASSUME NEW f, NEW S, IsFiniteSet(S), \A x \in S : f[x] \in Nat, NEW T \in SUBSET S
    PROVE  SumFunctionOnSet(f, T) <= SumFunctionOnSet(f, S)
  <1> DEFINE Sum(U) == SumFunctionOnSet(f, U)
             G == {U \in SUBSET S : T \subseteq U => Sum(T) <= Sum(U)}
  <1>1. ASSUME NEW U \in SUBSET S, \A V \in (SUBSET U) \ {U} : V \in G, T \subseteq U
        PROVE  Sum(T) <= Sum(U)
    <2>1. IsFiniteSet(U) /\ IsFiniteSet(T)
      BY FS_Subset
    <2>2. Sum(T) \in Nat /\ Sum(U) \in Nat
      BY <2>1, SumRemove
    <2>3. CASE T = U
      BY <2>2, <2>3
    <2>4. CASE T # U
      <3>1. PICK y \in U : y \notin T
        BY <1>1, <2>4
      <3>2. Sum(U) = f[y] + Sum(U \ {y})
        BY <2>1, SumRemove
      <3>3. Sum(T) <= Sum(U \ {y})
        BY <1>1, <3>1
      <3>4. Sum(U \ {y}) \in Nat
        BY <2>1, FS_Subset, SumRemove
      <3> QED
        BY <2>2, <3>2, <3>3, <3>4
    <2> QED
      BY <2>3, <2>4
  <1>2. S \in G
    <2>1. \A U \in SUBSET S : (\A V \in (SUBSET U) \ {U} : V \in G) => U \in G
      BY <1>1
    <2> HIDE DEF G
    <2> QED
      BY <2>1, SubsetInduction
  <1> QED
    BY <1>2

\* A sum depends on the values at the elements alone.
LEMMA SumSame ==
    ASSUME NEW f, NEW g, NEW S, IsFiniteSet(S), \A x \in S : f[x] = g[x]
    PROVE  SumFunctionOnSet(f, S) = SumFunctionOnSet(g, S)
  <1> DEFINE G == {T \in SUBSET S : SumFunctionOnSet(f, T) = SumFunctionOnSet(g, T)}
  <1>1. ASSUME NEW T \in SUBSET S, \A U \in (SUBSET T) \ {T} : U \in G
        PROVE  T \in G
    <2>1. IsFiniteSet(T)
      BY FS_Subset
    <2>2. CASE T = {}
      BY <2>1, <2>2, SumUnfold
    <2>3. CASE T # {}
      <3> DEFINE x == CHOOSE x \in T : TRUE
      <3>1. x \in T /\ SumFunctionOnSet(f, T \ {x}) = SumFunctionOnSet(g, T \ {x})
        BY <1>1, <2>3
      <3>2. /\ SumFunctionOnSet(f, T) = f[x] + SumFunctionOnSet(f, T \ {x})
            /\ SumFunctionOnSet(g, T) = g[x] + SumFunctionOnSet(g, T \ {x})
        BY <2>1, <2>3, SumUnfold
      <3> QED
        BY <3>1, <3>2
    <2> QED
      BY <2>2, <2>3
  <1>2. S \in G
    <2> HIDE DEF G
    <2> QED
      BY <1>1, SubsetInduction
  <1> QED
    BY <1>2

\* Changing one value changes the sum by the difference.
LEMMA SumChange ==
    ASSUME NEW f, NEW g, NEW S, IsFiniteSet(S), NEW y \in S,
           \A x \in S : f[x] \in Nat /\ g[x] \in Nat /\ (x # y => f[x] = g[x])
    PROVE  SumFunctionOnSet(g, S) + f[y] = SumFunctionOnSet(f, S) + g[y]
  <1>1. IsFiniteSet(S \ {y})
    BY FS_Subset
  <1>2. SumFunctionOnSet(f, S \ {y}) = SumFunctionOnSet(g, S \ {y})
    BY <1>1, SumSame
  <1>3. /\ SumFunctionOnSet(f, S) = f[y] + SumFunctionOnSet(f, S \ {y})
        /\ SumFunctionOnSet(g, S) = g[y] + SumFunctionOnSet(g, S \ {y})
        /\ SumFunctionOnSet(f, S \ {y}) \in Nat
    BY <1>1, SumRemove
  <1> QED
    BY <1>2, <1>3

\* A function with more arguments has the greater sum, and all the values.
LEMMA MoreArguments ==
    ASSUME NEW S, NEW T, IsFiniteSet(T), S \subseteq T,
           NEW f \in [S -> Nat], NEW g \in [T -> Nat], \A x \in S : f[x] = g[x]
    PROVE  /\ SumFunction(f) \in Nat /\ SumFunction(g) \in Nat
           /\ SumFunction(f) <= SumFunction(g)
           /\ Range(f) \subseteq Range(g) /\ Range(g) \subseteq Nat
           /\ IsFiniteSet(Range(g))
  <1>1. IsFiniteSet(S)
    BY FS_Subset
  <1>2. SumFunction(f) = SumFunctionOnSet(f, S) /\ SumFunction(g) = SumFunctionOnSet(g, T)
    BY DEF SumFunction
  <1>3. SumFunctionOnSet(f, S) = SumFunctionOnSet(g, S)
    BY <1>1, SumSame
  <1>4. SumFunctionOnSet(g, S) <= SumFunctionOnSet(g, T)
    BY SumSubset
  <1>5. SumFunctionOnSet(f, S) \in Nat /\ SumFunctionOnSet(g, T) \in Nat
    BY <1>1, SumRemove
  <1>6. IsFiniteSet(Range(g))
    <2>1. g \in Surjection(T, Range(g))
      BY DEF Surjection, Range
    <2> QED
      BY <2>1, FS_Surjection
  <1> QED
    BY <1>2, <1>3, <1>4, <1>5, <1>6 DEF Range

LEMMA MaxOfNaturals ==
    ASSUME NEW S, IsFiniteSet(S), S \subseteq Nat, S # {}
    PROVE  Max(S) \in S /\ \A y \in S : y <= Max(S)
  <1> DEFINE G == {T \in SUBSET S : T # {} => \E x \in T : \A y \in T : x >= y}
  <1>1. ASSUME NEW T \in SUBSET S, \A U \in (SUBSET T) \ {T} : U \in G, T # {}
        PROVE  \E x \in T : \A y \in T : x >= y
    <2>1. PICK z \in T : TRUE
      BY <1>1
    <2>2. CASE T = {z}
      BY <2>2
    <2>3. CASE T # {z}
      <3>1. T \ {z} \in G /\ T \ {z} # {}
        BY <1>1, <2>1, <2>3
      <3>2. PICK x \in T \ {z} : \A y \in T \ {z} : x >= y
        BY <3>1
      <3>3. x \in Nat /\ z \in Nat
        OBVIOUS
      <3>4. CASE x >= z
        BY <3>2, <3>4
      <3>5. CASE z >= x
        <4>1. \A y \in T : z >= y
          BY <3>2, <3>3, <3>5
        <4> QED
          BY <4>1
      <3> QED
        BY <3>3, <3>4, <3>5
    <2> QED
      BY <2>2, <2>3
  <1>2. S \in G
    <2>1. \A T \in SUBSET S : (\A U \in (SUBSET T) \ {T} : U \in G) => T \in G
      BY <1>1
    <2> HIDE DEF G
    <2> QED
      BY <2>1, SubsetInduction
  <1>3. \E x \in S : \A y \in S : x >= y
    BY <1>2
  <1> QED
    BY <1>3 DEF Max

LEMMA MinOfNaturals ==
    ASSUME NEW S, S \subseteq Nat, S # {}
    PROVE  Min(S) \in S /\ \A y \in S : Min(S) <= y
  BY LeastExists DEF Min

-----------------------------------------------------------------------------
(* The ring.                                                               *)

\* The head moves around the slots: one up, or from the last slot to 0.
LEMMA HeadStep ==
    ASSUME NEW h \in Slots
    PROVE  /\ (h + 1) % Capacity = IF h + 1 = Capacity THEN 0 ELSE h + 1
           /\ (h + 1) % Capacity \in Slots
  BY CapacityAssumption DEF Slots

\* A new ring is well formed.
LEMMA NewRingWellFormed ==
    ASSUME NEW Merchant, NEW Place, Origin \in Place
    PROVE  WellFormed(NewRing, Merchant, Place)
  BY CapacityAssumption DEF WellFormed, NewRing, Ring, Slots, Slot

\* Pushing a merchant grows the deque by one until it is full, and keeps its
\* length from then on.
LEMMA PushedMerchantsType ==
    ASSUME NEW M, NEW s \in Seq(M), NEW m \in M, Len(s) <= Capacity
    PROVE  /\ PushedMerchants(s, m) \in Seq(M)
           /\ Len(PushedMerchants(s, m)) =
                IF Len(s) < Capacity THEN Len(s) + 1 ELSE Capacity
  BY CapacityAssumption DEF PushedMerchants

\* The merchants after a push: all move down one place in a full deque, and
\* the new one comes last.
LEMMA PushedMerchantAt ==
    ASSUME NEW M, NEW s \in Seq(M), NEW m \in M, Len(s) <= Capacity,
           NEW i \in 1 .. Len(PushedMerchants(s, m))
    PROVE  PushedMerchants(s, m)[i] =
             IF i = Len(PushedMerchants(s, m)) THEN m
             ELSE IF Len(s) = Capacity THEN s[i + 1] ELSE s[i]
  <1> USE CapacityAssumption
  <1>1. CASE Len(s) < Capacity
    BY <1>1 DEF PushedMerchants
  <1>2. CASE Len(s) = Capacity
    <2>1. /\ Tail(s) \in Seq(M)
          /\ Len(Tail(s)) = Capacity - 1
          /\ \A j \in 1 .. Capacity - 1 : Tail(s)[j] = s[j + 1]
      BY <1>2
    <2>2. PushedMerchants(s, m) = Append(Tail(s), m)
      BY <1>2 DEF PushedMerchants
    <2> QED
      BY <1>2, <2>1, <2>2
  <1> QED
    BY <1>1, <1>2

\* A push takes a well-formed ring to a well-formed ring.
LEMMA PushedWellFormed ==
    ASSUME NEW M, NEW P, NEW r, WellFormed(r, M, P), NEW ev \in Event(M, P)
    PROVE  /\ WellFormed(Pushed(r, ev), M, P)
           /\ Pushed(r, ev).size = IF r.size < Capacity THEN r.size + 1 ELSE Capacity
  <1> USE CapacityAssumption
  <1> DEFINE q == Pushed(r, ev)
  <1>1. /\ r.head \in Slots /\ r.size \in 0 .. Capacity
        /\ r.slots \in [Slots -> Slot]
        /\ r.merchants \in Seq(M) /\ Len(r.merchants) = r.size
        /\ r.size < Capacity => r.head = r.size
    BY DEF WellFormed, Ring
  <1>2. ev.ts \in Nat /\ ev.amount \in Nat /\ ev.merchant \in M /\ ev.place \in P
    BY DEF Event
  <1>3. /\ PushedMerchants(r.merchants, ev.merchant) \in Seq(M)
        /\ Len(PushedMerchants(r.merchants, ev.merchant)) =
             IF r.size < Capacity THEN r.size + 1 ELSE Capacity
    BY <1>1, <1>2, PushedMerchantsType
  <1>4. q.slots \in [Slots -> Slot]
    BY <1>1, <1>2 DEF Pushed, Slot
  <1>5. q.head \in Slots /\ q.size \in 0 .. Capacity
    BY <1>1, HeadStep DEF Pushed
  <1>6. q.size = IF r.size < Capacity THEN r.size + 1 ELSE Capacity
    BY <1>1 DEF Pushed
  <1>7. q \in Ring(M, P)
    BY <1>2, <1>3, <1>4, <1>5 DEF Ring, Pushed
  <1>8. Len(q.merchants) = q.size
    BY <1>1, <1>3 DEF Pushed
  <1>9. q.size < Capacity => q.head = q.size
    BY <1>1, HeadStep DEF Pushed, Slots
  <1> QED
    BY <1>6, <1>7, <1>8, <1>9 DEF WellFormed

-----------------------------------------------------------------------------
\* What the reads see of a well-formed ring has the right type.
LEMMA ViewType ==
    ASSUME NEW M, NEW P, NEW r, WellFormed(r, M, P), NEW i \in 1 .. r.size
    PROVE  /\ SlotOf(r, i) \in Slots
           /\ View(r)[i] = r.slots[SlotOf(r, i)]
           /\ View(r)[i] \in Slot
  <1> USE CapacityAssumption
  <1>1. /\ r.head \in Slots /\ r.size \in 0 .. Capacity
        /\ r.slots \in [Slots -> Slot]
        /\ r.size < Capacity => r.head = r.size
    BY DEF WellFormed, Ring
  <1>2. SlotOf(r, i) \in Slots
    BY <1>1 DEF SlotOf, Slots
  <1> QED
    BY <1>1, <1>2 DEF View

\* Where the event at position i was before a push made it the i-th.
Before(r, i) == IF r.size = Capacity THEN i + 1 ELSE i

\* Where the reads look after a push: every remembered event is found one
\* position earlier in a full ring and at its old position otherwise, and
\* the new event comes last.
LEMMA PushedView ==
    ASSUME NEW M, NEW P, NEW r, WellFormed(r, M, P), NEW ev \in Event(M, P),
           NEW i \in 1 .. Pushed(r, ev).size
    PROVE  /\ i = Pushed(r, ev).size =>
                 View(Pushed(r, ev))[i] = [ts |-> ev.ts, amount |-> ev.amount]
           /\ i # Pushed(r, ev).size =>
                 View(Pushed(r, ev))[i] = View(r)[Before(r, i)]
  <1> USE CapacityAssumption
  <1> DEFINE q   == Pushed(r, ev)
             new == [ts |-> ev.ts, amount |-> ev.amount]
  <1>1. /\ r.head \in Slots /\ r.size \in 0 .. Capacity
        /\ r.slots \in [Slots -> Slot]
        /\ r.size < Capacity => r.head = r.size
    BY DEF WellFormed, Ring
  <1>2. /\ q.head = IF r.head + 1 = Capacity THEN 0 ELSE r.head + 1
        /\ q.size = IF r.size < Capacity THEN r.size + 1 ELSE r.size
        /\ q.slots = [r.slots EXCEPT ![r.head] = new]
    BY <1>1, HeadStep DEF Pushed
  <1>3. View(q)[i] = q.slots[SlotOf(q, i)]
    BY DEF View
  <1> HIDE DEF q
  <1>4. CASE r.size < Capacity
    <2>1. SlotOf(q, i) = i - 1
      BY <1>1, <1>2, <1>4 DEF SlotOf, Slots, q
    <2>2. CASE i = q.size
      BY <1>1, <1>2, <1>3, <1>4, <2>1, <2>2 DEF q
    <2>3. CASE i # q.size
      <3>1. i \in 1 .. r.size
        BY <1>1, <1>2, <1>4, <2>3 DEF q
      <3>2. View(r)[i] = r.slots[i - 1]
        BY <1>4, <3>1, ViewType DEF SlotOf
      <3> QED
        BY <1>1, <1>2, <1>3, <1>4, <2>1, <2>3, <3>1, <3>2 DEF Slots, q, Before
    <2> QED
      BY <2>2, <2>3
  <1>5. CASE r.size = Capacity
    <2>1. q.size = Capacity
      BY <1>2, <1>5
    <2>2. CASE i = Capacity
      <3>1. SlotOf(q, i) = r.head
        BY <1>1, <1>2, <2>1, <2>2 DEF SlotOf, Slots
      <3> QED
        BY <1>1, <1>2, <1>3, <2>1, <2>2, <3>1 DEF q
    <2>3. CASE i # Capacity
      <3>1. i \in 1 .. Capacity - 1
        BY <2>1, <2>3 DEF q
      <3>2. SlotOf(q, i) = SlotOf(r, i + 1)
        <4>1. CASE r.head + 1 = Capacity
          <5>1. SlotOf(q, i) = i - 1
            BY <1>2, <2>1, <3>1, <4>1 DEF SlotOf
          <5>2. SlotOf(r, i + 1) = i - 1
            BY <1>1, <1>5, <3>1, <4>1 DEF SlotOf, Slots
          <5> QED
            BY <5>1, <5>2
        <4>2. CASE r.head + 1 # Capacity
          BY <1>1, <1>2, <1>5, <2>1, <3>1, <4>2 DEF SlotOf, Slots
        <4> QED
          BY <4>1, <4>2
      <3>3. SlotOf(r, i + 1) \in Slots \ {r.head}
        BY <1>1, <1>5, <3>1 DEF SlotOf, Slots
      <3>4. View(r)[i + 1] = r.slots[SlotOf(r, i + 1)]
        BY <1>5, <3>1 DEF View
      <3> QED
        BY <1>1, <1>2, <1>3, <1>5, <2>1, <2>3, <3>2, <3>3, <3>4 DEF q, Before
    <2> QED
      BY <2>2, <2>3
  <1> QED
    BY <1>1, <1>4, <1>5

-----------------------------------------------------------------------------
\* The log of a well-formed ring is a sequence of as many transactions as
\* the ring has events.
LogItem(M) == [ts : Nat, amount : Nat, merchant : M]

LEMMA LogType ==
    ASSUME NEW M, NEW P, NEW r, WellFormed(r, M, P)
    PROVE  LogOf(r) \in Seq(LogItem(M)) /\ Len(LogOf(r)) = r.size
  <1>1. /\ r.size \in Nat /\ r.merchants \in Seq(M) /\ Len(r.merchants) = r.size
    BY CapacityAssumption DEF WellFormed, Ring
  <1>2. ASSUME NEW i \in 1 .. r.size
        PROVE  [ts |-> View(r)[i].ts, amount |-> View(r)[i].amount,
                merchant |-> r.merchants[i]] \in LogItem(M)
    <2>1. View(r)[i].ts \in Nat /\ View(r)[i].amount \in Nat
      BY ViewType DEF Slot
    <2>2. r.merchants[i] \in M
      BY <1>1
    <2> QED
      BY <2>1, <2>2 DEF LogItem
  <1>3. LogOf(r) \in [1 .. r.size -> LogItem(M)]
    BY <1>2 DEF LogOf
  <1> QED
    BY <1>1, <1>3

\* A push appends the whole transaction to the log, from which the oldest
\* one leaves when the ring is full.
LEMMA PushedLog ==
    ASSUME NEW M, NEW P, NEW r, WellFormed(r, M, P), NEW ev \in Event(M, P)
    PROVE  LogOf(Pushed(r, ev)) =
             Append(IF Len(LogOf(r)) = Capacity THEN Tail(LogOf(r)) ELSE LogOf(r),
                    [ts |-> ev.ts, amount |-> ev.amount, merchant |-> ev.merchant])
  <1> USE CapacityAssumption
  <1> DEFINE q    == Pushed(r, ev)
             item == [ts |-> ev.ts, amount |-> ev.amount, merchant |-> ev.merchant]
             old  == IF Len(LogOf(r)) = Capacity THEN Tail(LogOf(r)) ELSE LogOf(r)
             new  == Append(old, item)
  <1>1. /\ r.size \in 0 .. Capacity
        /\ r.merchants \in Seq(M) /\ Len(r.merchants) = r.size
    BY DEF WellFormed, Ring
  <1>2. /\ WellFormed(q, M, P)
        /\ q.size = IF r.size < Capacity THEN r.size + 1 ELSE Capacity
    BY PushedWellFormed
  <1>3. ev.merchant \in M /\ item \in LogItem(M)
    BY DEF Event, LogItem
  <1>4. /\ LogOf(r) \in Seq(LogItem(M)) /\ Len(LogOf(r)) = r.size
        /\ LogOf(q) \in Seq(LogItem(M)) /\ Len(LogOf(q)) = q.size
    BY <1>2, LogType
  <1>5. q.merchants = PushedMerchants(r.merchants, ev.merchant)
    BY DEF Pushed
  <1>0. \A k \in 1 .. q.size :
          /\ k = q.size => View(q)[k] = [ts |-> ev.ts, amount |-> ev.amount]
          /\ k # q.size => View(q)[k] = View(r)[Before(r, k)]
    BY PushedView
  <1> HIDE DEF q, item
  <1>6. /\ old \in Seq(LogItem(M))
        /\ Len(old) = q.size - 1
        /\ \A i \in 1 .. q.size - 1 :
             old[i] = LogOf(r)[Before(r, i)]
    BY <1>1, <1>2, <1>4 DEF Before
  <1> HIDE DEF old
  <1>7. /\ new \in Seq(LogItem(M))
        /\ Len(new) = q.size
        /\ \A i \in 1 .. q.size - 1 : new[i] = old[i]
        /\ new[q.size] = item
    <2>1. q.size \in Nat
      BY <1>1, <1>2
    <2> QED
      BY <1>3, <1>6, <2>1, AppendProperties
  <1> HIDE DEF new
  <1>8. ASSUME NEW i \in 1 .. Len(LogOf(q)) PROVE LogOf(q)[i] = new[i]
    <2>1. i \in 1 .. q.size
      BY <1>4
    <2>2. LogOf(q)[i] = [ts       |-> View(q)[i].ts,
                         amount   |-> View(q)[i].amount,
                         merchant |-> q.merchants[i]]
      BY <2>1 DEF LogOf
    <2>3. i \in 1 .. Len(q.merchants) /\ Len(q.merchants) = q.size
      BY <1>2, <2>1 DEF WellFormed
    <2>4. CASE i = q.size
      <3>1. View(q)[i] = [ts |-> ev.ts, amount |-> ev.amount]
        BY <1>0, <2>1, <2>4
      <3>2. q.merchants[i] = ev.merchant
        BY <1>1, <1>3, <1>5, <2>3, <2>4, PushedMerchantAt
      <3> QED
        BY <1>7, <2>2, <2>4, <3>1, <3>2 DEF item
    <2>5. CASE i # q.size
      <3> DEFINE j == Before(r, i)
      <3>1. j \in 1 .. r.size /\ i \in 1 .. q.size - 1
        BY <1>1, <1>2, <2>1, <2>5 DEF Before
      <3>2. View(q)[i] = View(r)[j]
        BY <1>0, <2>1, <2>5
      <3>3. q.merchants[i] = r.merchants[j]
        BY <1>1, <1>3, <1>5, <2>3, <2>5, PushedMerchantAt DEF Before
      <3>4. new[i] = LogOf(r)[j]
        BY <1>6, <1>7, <3>1
      <3> QED
        BY <2>2, <3>1, <3>2, <3>3, <3>4 DEF LogOf
    <2> QED
      BY <2>4, <2>5
  <1>9. LogOf(q) = new
    BY <1>4, <1>7, <1>8, SeqEqual
  <1> QED
    BY <1>9 DEF q, new, old, item

-----------------------------------------------------------------------------
\* The timestamps of a ring never go back.
Sorted(r) ==
    \A i, j \in 1 .. r.size : i <= j => View(r)[i].ts <= View(r)[j].ts

\* A push that is not older than anything remembered keeps a ring sorted.
LEMMA PushedSorted ==
    ASSUME NEW M, NEW P, NEW r, WellFormed(r, M, P), NEW ev \in Event(M, P),
           Sorted(r), \A i \in 1 .. r.size : View(r)[i].ts <= ev.ts
    PROVE  Sorted(Pushed(r, ev))
  <1> DEFINE q == Pushed(r, ev)
  <1>1. /\ r.size \in 0 .. Capacity
        /\ q.size = IF r.size < Capacity THEN r.size + 1 ELSE Capacity
    BY PushedWellFormed DEF WellFormed, Ring
  <1>2. ev.ts \in Nat
    BY DEF Event
  <1>0. \A k \in 1 .. q.size :
          /\ k = q.size => View(q)[k] = [ts |-> ev.ts, amount |-> ev.amount]
          /\ k # q.size => View(q)[k] = View(r)[Before(r, k)]
    BY PushedView
  <1> SUFFICES ASSUME NEW i \in 1 .. q.size, NEW j \in 1 .. q.size, i <= j
               PROVE  View(q)[i].ts <= View(q)[j].ts
    BY DEF Sorted
  <1> HIDE DEF q
  <1>3. CASE i = q.size
    <2>1. i = j /\ View(q)[i] = [ts |-> ev.ts, amount |-> ev.amount]
      BY <1>0, <1>1, <1>3, CapacityAssumption
    <2> QED
      BY <1>2, <2>1
  <1>4. CASE i # q.size
    <2>1. Before(r, i) \in 1 .. r.size
      BY <1>1, <1>4, CapacityAssumption DEF Before
    <2>2. View(q)[i] = View(r)[Before(r, i)]
      BY <1>0, <1>4
    <2>3. CASE j = q.size
      <3>1. View(q)[j] = [ts |-> ev.ts, amount |-> ev.amount]
        BY <1>0, <2>3
      <3> QED
        BY <2>1, <2>2, <3>1
    <2>4. CASE j # q.size
      <3>1. Before(r, j) \in 1 .. r.size /\ Before(r, i) <= Before(r, j)
        BY <1>1, <2>4, CapacityAssumption DEF Before
      <3>2. View(q)[j] = View(r)[Before(r, j)]
        BY <1>0, <2>4
      <3> QED
        BY <2>1, <2>2, <3>1, <3>2 DEF Sorted
    <2> QED
      BY <2>3, <2>4
  <1> QED
    BY <1>3, <1>4

\* In a sorted ring the mask keeps exactly the newest events: each position
\* is kept if and only if it is among the last n, n being how many are kept.
LEMMA KeptIsSuffix ==
    ASSUME NEW M, NEW P, NEW r, WellFormed(r, M, P), Sorted(r), NEW since \in Nat
    PROVE  /\ Cardinality(Kept(r, since)) \in 0 .. r.size
           /\ Kept(r, since) = r.size - Cardinality(Kept(r, since)) + 1 .. r.size
  <1> DEFINE K == Kept(r, since)
             n == Cardinality(K)
  <1>1. r.size \in Nat
    BY CapacityAssumption DEF WellFormed, Ring
  <1>2. IsFiniteSet(1 .. r.size) /\ Cardinality(1 .. r.size) = r.size
    BY <1>1, FS_Interval
  <1>3. K \subseteq 1 .. r.size
    BY DEF Kept
  <1>4. IsFiniteSet(K) /\ n \in Nat /\ n <= r.size
    BY <1>2, <1>3, FS_Subset, FS_CardinalityType
  <1>5. ASSUME NEW i \in K PROVE i > r.size - n
    <2>1. i .. r.size \subseteq K
      <3> SUFFICES ASSUME NEW j \in i .. r.size PROVE j \in K
        OBVIOUS
      <3>1. i \in 1 .. r.size /\ j \in 1 .. r.size /\ i <= j
        BY <1>1, <1>3
      <3>2. View(r)[i].ts \in Nat /\ View(r)[j].ts \in Nat
        BY <3>1, ViewType DEF Slot
      <3>3. View(r)[i].ts >= since /\ View(r)[i].ts <= View(r)[j].ts
        BY <3>1 DEF Kept, Sorted
      <3> QED
        BY <3>1, <3>2, <3>3 DEF Kept
    <2>2. Cardinality(i .. r.size) = r.size - i + 1
      BY <1>1, <1>3, FS_Interval
    <2>3. Cardinality(i .. r.size) <= n
      BY <1>4, <2>1, FS_Subset
    <2> QED
      BY <1>1, <1>3, <1>4, <2>2, <2>3
  <1>6. ASSUME NEW i \in 1 .. r.size, i \notin K PROVE i <= r.size - n
    <2>1. K \subseteq i + 1 .. r.size
      <3> SUFFICES ASSUME NEW j \in K, j <= i PROVE FALSE
        BY <1>1, <1>3
      <3>1. j \in 1 .. r.size
        BY <1>3
      <3>2. View(r)[i].ts \in Nat /\ View(r)[j].ts \in Nat
        BY <3>1, ViewType DEF Slot
      <3>3. View(r)[j].ts >= since /\ View(r)[j].ts <= View(r)[i].ts
        BY <3>1 DEF Kept, Sorted
      <3> QED
        BY <1>6, <3>2, <3>3 DEF Kept
    <2>2. /\ IsFiniteSet(i + 1 .. r.size)
          /\ Cardinality(i + 1 .. r.size) = r.size - i
      <3>1. i + 1 \in Int /\ r.size \in Int
        BY <1>1
      <3>2. /\ IsFiniteSet(i + 1 .. r.size)
            /\ Cardinality(i + 1 .. r.size) =
                 IF i + 1 > r.size THEN 0 ELSE r.size - (i + 1) + 1
        BY <3>1, FS_Interval
      <3> QED
        BY <1>1, <3>2
    <2>3. n <= Cardinality(i + 1 .. r.size)
      BY <2>1, <2>2, FS_Subset
    <2> QED
      BY <1>1, <1>4, <2>2, <2>3
  <1>7. K = r.size - n + 1 .. r.size
    <2> HIDE DEF K, n
    <2>1. \A i \in K : i \in r.size - n + 1 .. r.size
      BY <1>1, <1>3, <1>4, <1>5
    <2>2. \A i \in r.size - n + 1 .. r.size : i \in K
      BY <1>1, <1>4, <1>6
    <2> QED
      BY <2>1, <2>2
  <1> QED
    BY <1>1, <1>4, <1>7

-----------------------------------------------------------------------------
(* Windows: what a wider window, or a window after a push, adds.           *)

Stats == [since : Int, count : Nat, total : Nat, min : Nat, max : Nat]

LEMMA KeptType ==
    ASSUME NEW M, NEW P, NEW r, WellFormed(r, M, P), NEW since \in Int
    PROVE  /\ Kept(r, since) \subseteq 1 .. r.size
           /\ IsFiniteSet(Kept(r, since)) /\ Cardinality(Kept(r, since)) \in Nat
           /\ KeptAmounts(r, since) \in [Kept(r, since) -> Nat]
  <1>1. Kept(r, since) \subseteq 1 .. r.size
    BY DEF Kept
  <1>2. r.size \in Nat /\ IsFiniteSet(1 .. r.size)
    BY FS_Interval, CapacityAssumption DEF WellFormed, Ring
  <1>3. IsFiniteSet(Kept(r, since)) /\ Cardinality(Kept(r, since)) \in Nat
    BY <1>1, <1>2, FS_Subset, FS_CardinalityType
  <1>4. \A i \in Kept(r, since) : View(r)[i].amount \in Nat
    BY <1>1, ViewType DEF Slot
  <1> QED
    BY <1>1, <1>3, <1>4 DEF KeptAmounts

LEMMA WindowStatsType ==
    ASSUME NEW M, NEW P, NEW r, WellFormed(r, M, P), NEW since \in Int
    PROVE  /\ WindowStats(r, since) \in Stats
           /\ WindowStats(r, since).since = since
           /\ WindowStats(r, since).min <= WindowStats(r, since).max
  <1> DEFINE K == Kept(r, since)
             A == KeptAmounts(r, since)
  <1>1. IsFiniteSet(K) /\ Cardinality(K) \in Nat /\ A \in [K -> Nat]
    BY KeptType
  <1>2. SumFunction(A) \in Nat /\ Range(A) \subseteq Nat /\ IsFiniteSet(Range(A))
    <2> HIDE DEF K, A
    <2> QED
      BY <1>1, MoreArguments
  <1>3. ASSUME K # {}
        PROVE  Min(Range(A)) \in Nat /\ Max(Range(A)) \in Nat /\ Min(Range(A)) <= Max(Range(A))
    <2>1. Range(A) # {}
      BY <1>1, <1>3 DEF Range
    <2> HIDE DEF A
    <2>2. Min(Range(A)) \in Range(A) /\ \A y \in Range(A) : Min(Range(A)) <= y
      BY <1>2, <2>1, MinOfNaturals
    <2>3. Max(Range(A)) \in Range(A)
      BY <1>2, <2>1, MaxOfNaturals
    <2> QED
      BY <1>2, <2>2, <2>3
  <1> QED
    BY <1>1, <1>2, <1>3 DEF WindowStats, Stats

\* A window that keeps at least the events of another one, with the same
\* amounts, has at least its count, total and maximum.
LEMMA KeepsMore ==
    ASSUME NEW M, NEW P, NEW r, WellFormed(r, M, P), NEW q, WellFormed(q, M, P),
           NEW x \in Int, NEW y \in Int, Kept(r, x) \subseteq Kept(q, y),
           \A i \in Kept(r, x) : View(r)[i] = View(q)[i]
    PROVE  /\ WindowStats(r, x).count <= WindowStats(q, y).count
           /\ WindowStats(r, x).total <= WindowStats(q, y).total
           /\ WindowStats(r, x).max <= WindowStats(q, y).max
  <1> DEFINE S == Kept(r, x)
             T == Kept(q, y)
             f == KeptAmounts(r, x)
             g == KeptAmounts(q, y)
  <1>1. IsFiniteSet(T) /\ f \in [S -> Nat] /\ g \in [T -> Nat]
    BY KeptType
  <1>2. S \subseteq T /\ \A i \in S : f[i] = g[i]
    BY DEF KeptAmounts
  <1>3. Cardinality(S) <= Cardinality(T)
    BY <1>1, FS_Subset
  <1>4. /\ SumFunction(f) <= SumFunction(g)
        /\ Range(f) \subseteq Range(g) /\ Range(g) \subseteq Nat /\ IsFiniteSet(Range(g))
    <2> HIDE DEF S, T, f, g
    <2> QED
      BY <1>1, <1>2, MoreArguments
  <1>5. WindowStats(r, x).max <= WindowStats(q, y).max
    <2>1. CASE S = {}
      <3>1. WindowStats(r, x).max = 0 /\ WindowStats(q, y).max \in Nat
        BY <2>1, WindowStatsType DEF WindowStats, Stats
      <3> QED
        BY <3>1
    <2>2. CASE S # {}
      <3>1. Range(f) # {} /\ T # {} /\ IsFiniteSet(Range(f)) /\ Range(f) \subseteq Nat
        BY <1>1, <1>4, <2>2, FS_Subset DEF Range
      <3>2. WindowStats(r, x).max = Max(Range(f)) /\ WindowStats(q, y).max = Max(Range(g))
        BY <2>2, <3>1 DEF WindowStats
      <3> HIDE DEF f, g
      <3>3. Max(Range(f)) \in Range(f) /\ \A z \in Range(g) : z <= Max(Range(g))
        BY <1>4, <3>1, MaxOfNaturals
      <3> QED
        BY <1>4, <3>2, <3>3
    <2> QED
      BY <2>1, <2>2
  <1> QED
    BY <1>3, <1>4, <1>5 DEF WindowStats

\* A window that starts earlier has at least what a later one has.
LEMMA WiderWindow ==
    ASSUME NEW M, NEW P, NEW r, WellFormed(r, M, P), NEW x \in Int, NEW y \in Int, x <= y
    PROVE  /\ WindowStats(r, y).count <= WindowStats(r, x).count
           /\ WindowStats(r, y).total <= WindowStats(r, x).total
           /\ WindowStats(r, y).max <= WindowStats(r, x).max
  <1>1. \A i \in 1 .. r.size : View(r)[i].ts \in Nat
    BY ViewType DEF Slot
  <1>2. Kept(r, y) \subseteq Kept(r, x)
    BY <1>1 DEF Kept
  <1> QED
    BY <1>2, KeepsMore

\* A push into a ring that is not full takes nothing away from a window.
LEMMA PushAdds ==
    ASSUME NEW M, NEW P, NEW r, WellFormed(r, M, P), NEW ev \in Event(M, P),
           r.size < Capacity, NEW x \in Int
    PROVE  /\ WindowStats(r, x).count <= WindowStats(Pushed(r, ev), x).count
           /\ WindowStats(r, x).total <= WindowStats(Pushed(r, ev), x).total
           /\ WindowStats(r, x).max <= WindowStats(Pushed(r, ev), x).max
  <1> DEFINE q == Pushed(r, ev)
  <1>1. WellFormed(q, M, P) /\ q.size = r.size + 1 /\ r.size \in Nat
    BY PushedWellFormed, CapacityAssumption DEF WellFormed, Ring
  <1>2. \A i \in 1 .. r.size : View(q)[i] = View(r)[i]
    <2>1. \A i \in 1 .. q.size :
            /\ i = q.size => View(q)[i] = [ts |-> ev.ts, amount |-> ev.amount]
            /\ i # q.size => View(q)[i] = View(r)[Before(r, i)]
      BY PushedView
    <2>2. \A i \in 1 .. r.size : i \in 1 .. q.size /\ i # q.size /\ Before(r, i) = i
      BY <1>1 DEF Before
    <2> QED
      BY <2>1, <2>2
  <1> HIDE DEF q
  <1>3. Kept(r, x) \subseteq 1 .. r.size /\ Kept(r, x) \subseteq Kept(q, x)
    BY <1>1, <1>2 DEF Kept
  <1>4. \A i \in Kept(r, x) : View(r)[i] = View(q)[i]
    BY <1>2, <1>3
  <1>5. /\ WindowStats(r, x).count <= WindowStats(q, x).count
        /\ WindowStats(r, x).total <= WindowStats(q, x).total
        /\ WindowStats(r, x).max <= WindowStats(q, x).max
    BY <1>1, <1>3, <1>4, KeepsMore
  <1> QED
    BY <1>5 DEF q

\* Nor does the count of a window shrink when a full ring is pushed an event
\* that is not older than any it holds: the event that is overwritten is in
\* the window only if the new one is.
LEMMA PushCounts ==
    ASSUME NEW M, NEW P, NEW r, WellFormed(r, M, P), NEW ev \in Event(M, P),
           \A i \in 1 .. r.size : View(r)[i].ts <= ev.ts, NEW x \in Int
    PROVE  WindowStats(r, x).count <= WindowStats(Pushed(r, ev), x).count
  <1>1. CASE r.size < Capacity
    BY <1>1, PushAdds
  <1>2. CASE ~ (r.size < Capacity)
    <2> USE CapacityAssumption
    <2> DEFINE q == Pushed(r, ev)
               S == Kept(r, x)
               T == Kept(q, x)
               f == [i \in S |-> IF i = 1 THEN Capacity ELSE i - 1]
    <2>1. r.size = Capacity
      BY <1>2 DEF WellFormed, Ring
    <2>2. WellFormed(q, M, P) /\ q.size = Capacity
      BY <2>1, PushedWellFormed
    <2>3. \A i \in 1 .. Capacity :
             View(q)[i] = IF i = Capacity THEN [ts |-> ev.ts, amount |-> ev.amount]
                          ELSE View(r)[i + 1]
      BY <2>1, <2>2, PushedView DEF Before
    <2>4. ev.ts \in Nat /\ \A i \in 1 .. Capacity : View(r)[i].ts \in Nat
      BY <2>1, ViewType DEF Event, Slot
    <2> HIDE DEF q
    <2>5. S \subseteq 1 .. Capacity /\ T \subseteq 1 .. Capacity
      BY <2>1, <2>2 DEF Kept
    <2>6. \A i \in S : f[i] \in T
      <3> SUFFICES ASSUME NEW i \in S PROVE f[i] \in T
        OBVIOUS
      <3>1. i \in 1 .. Capacity /\ View(r)[i].ts >= x
        BY <2>5 DEF Kept
      <3>2. CASE i = 1
        <4>1. View(q)[Capacity].ts = ev.ts
          BY <2>3
        <4>2. ev.ts >= x
          BY <2>1, <2>4, <3>1
        <4>3. Capacity \in T
          BY <2>2, <4>1, <4>2 DEF Kept
        <4> QED
          BY <3>2, <4>3
      <3>3. CASE i # 1
        <4>1. i - 1 \in 1 .. Capacity /\ i - 1 # Capacity /\ (i - 1) + 1 = i
          BY <3>1, <3>3
        <4>2. View(q)[i - 1] = View(r)[i]
          BY <2>3, <4>1
        <4>3. i - 1 \in T
          BY <2>2, <3>1, <4>1, <4>2 DEF Kept
        <4> QED
          BY <3>3, <4>3
      <3> QED
        BY <3>2, <3>3
    <2>7. IsFiniteSet(T)
      BY <2>2, KeptType
    <2>8. \A i, j \in S : f[i] = f[j] => i = j
      BY <2>5
    <2>9. f \in Injection(S, T)
      <3> HIDE DEF T
      <3>1. f \in [S -> T]
        BY <2>6
      <3> QED
        BY <2>8, <3>1 DEF Injection, IsInjective
    <2>10. Cardinality(S) <= Cardinality(T)
      <3> HIDE DEF S, T, f
      <3> QED
        BY <2>7, <2>9, FS_Injection
    <2> QED
      BY <2>10 DEF WindowStats, q
  <1> QED
    BY <1>1, <1>2

\* There are finitely many merchants in a window.
LEMMA UniqueMerchantsType ==
    ASSUME NEW M, NEW P, NEW r, WellFormed(r, M, P), NEW since \in Int
    PROVE  Cardinality(UniqueMerchants(r, since)) \in Nat
  <1> DEFINE k == KeptMerchants(r, since)
             n == Cardinality(Kept(r, since))
  <1>1. r.merchants \in Seq(M) /\ Len(r.merchants) = r.size /\ r.size \in Nat
    BY CapacityAssumption DEF WellFormed, Ring
  <1>2. n \in 0 .. r.size
    <2>1. IsFiniteSet(1 .. r.size) /\ Cardinality(1 .. r.size) = r.size
      BY <1>1, FS_Interval
    <2>2. Kept(r, since) \subseteq 1 .. r.size /\ n \in Nat
      BY KeptType
    <2>3. n <= Cardinality(1 .. r.size)
      BY <2>1, <2>2, FS_Subset
    <2> QED
      BY <1>1, <2>1, <2>2, <2>3
  <1>3. k = SubSeq(r.merchants, r.size - n + 1, r.size)
    BY <1>1 DEF KeptMerchants
  <1> HIDE DEF n
  <1>4. k \in Seq(M) /\ DOMAIN k = 1 .. n
    <2> HIDE DEF k
    <2> DEFINE a == r.size - n + 1
    <2>1. a \in Int /\ r.size \in Int /\ \A i \in a .. r.size : r.merchants[i] \in M
      BY <1>1, <1>2
    <2>2. k \in Seq(M) /\ Len(k) = IF a =< r.size THEN r.size - a + 1 ELSE 0
      <3> HIDE DEF a
      <3> QED
        BY <1>3, <2>1, SubSeqProperties DEF a
    <2>3. Len(k) = n
      BY <1>1, <1>2, <2>2
    <2> QED
      BY <2>2, <2>3
  <1>5. IsFiniteSet(DOMAIN k)
    BY <1>2, <1>4, FS_Interval
  <1>6. k \in Surjection(DOMAIN k, UniqueMerchants(r, since))
    <2> HIDE DEF k
    <2>1. k \in [DOMAIN k -> {k[j] : j \in DOMAIN k}]
      BY <1>4
    <2>2. UniqueMerchants(r, since) = {k[j] : j \in DOMAIN k}
      BY DEF UniqueMerchants, k
    <2> QED
      BY <2>1, <2>2 DEF Surjection
  <1> QED
    BY <1>5, <1>6, FS_Surjection, FS_CardinalityType
=============================================================================

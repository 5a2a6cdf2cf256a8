-------------------------- MODULE ClientPoolProofs --------------------------
(***************************************************************************)
(* Theorems about ClientPool for every pool size, any number of threads    *)
(* with any depth of nesting, and any number of closers: a channel is in   *)
(* one place at a time, and close() on a quiet client closes them all.     *)
(***************************************************************************)
EXTENDS ClientPool, FunctionTheorems, FiniteSetTheorems, TLAPS

\* The queue gives up its first channel.
LEMMA TailElements ==
    ASSUME NEW S, NEW s \in Seq(S), s # << >>, NoRepeats(s)
    PROVE  /\ Tail(s) \in Seq(S) /\ Len(Tail(s)) = Len(s) - 1
           /\ Head(s) \in S /\ Head(s) \in ElementsOf(s)
           /\ NoRepeats(Tail(s))
           /\ ElementsOf(Tail(s)) = ElementsOf(s) \ {Head(s)}
  <1>1. Len(s) \in Nat \ {0} /\ DOMAIN s = 1 .. Len(s) /\ Head(s) = s[1]
    OBVIOUS
  <1>2. /\ Tail(s) \in Seq(S) /\ Len(Tail(s)) = Len(s) - 1
        /\ DOMAIN Tail(s) = 1 .. Len(s) - 1
        /\ \A i \in 1 .. Len(s) - 1 : Tail(s)[i] = s[i + 1]
    BY <1>1
  <1>3. NoRepeats(Tail(s))
    BY <1>1, <1>2 DEF NoRepeats
  <1>4. ASSUME NEW x \in ElementsOf(Tail(s)) PROVE x \in ElementsOf(s) \ {Head(s)}
    <2>1. PICK i \in 1 .. Len(s) - 1 : x = s[i + 1]
      BY <1>2, <1>4 DEF ElementsOf
    <2>2. i + 1 \in DOMAIN s /\ i + 1 # 1 /\ 1 \in DOMAIN s
      BY <1>1, <2>1
    <2> QED
      BY <1>1, <2>1, <2>2 DEF ElementsOf, NoRepeats
  <1>5. ASSUME NEW x \in ElementsOf(s) \ {Head(s)} PROVE x \in ElementsOf(Tail(s))
    <2>1. PICK i \in 1 .. Len(s) : x = s[i]
      BY <1>1, <1>5 DEF ElementsOf
    <2>2. i # 1
      BY <1>1, <1>5, <2>1
    <2>3. i - 1 \in 1 .. Len(s) - 1 /\ Tail(s)[i - 1] = s[i]
      <3>1. i - 1 \in 1 .. Len(s) - 1 /\ (i - 1) + 1 = i
        BY <1>1, <2>1, <2>2
      <3> QED
        BY <1>2, <3>1
    <2> QED
      BY <1>2, <2>1, <2>3 DEF ElementsOf
  <1>6. Head(s) \in S /\ Head(s) \in ElementsOf(s)
    <2>1. 1 \in DOMAIN s
      BY <1>1
    <2> QED
      BY <1>1, <2>1 DEF ElementsOf
  <1> QED
    BY <1>2, <1>3, <1>4, <1>5, <1>6

\* A channel that is not in the queue is put at its end.
LEMMA AppendElements ==
    ASSUME NEW S, NEW s \in Seq(S), NEW x \in S, x \notin ElementsOf(s), NoRepeats(s)
    PROVE  /\ Append(s, x) \in Seq(S) /\ Len(Append(s, x)) = Len(s) + 1
           /\ NoRepeats(Append(s, x))
           /\ ElementsOf(Append(s, x)) = ElementsOf(s) \cup {x}
  <1> DEFINE a == Append(s, x)
  <1>1. /\ a \in Seq(S) /\ Len(a) = Len(s) + 1 /\ Len(s) \in Nat
        /\ DOMAIN a = 1 .. Len(s) + 1 /\ DOMAIN s = 1 .. Len(s)
        /\ \A i \in 1 .. Len(s) : a[i] = s[i]
        /\ a[Len(s) + 1] = x
    OBVIOUS
  <1> HIDE DEF a
  <1>2. \A i \in 1 .. Len(s) : s[i] # x
    BY <1>1 DEF ElementsOf
  <1>3. NoRepeats(a)
    BY <1>1, <1>2 DEF NoRepeats
  <1>4. ElementsOf(a) = ElementsOf(s) \cup {x}
    BY <1>1 DEF ElementsOf
  <1> QED
    BY <1>1, <1>3, <1>4 DEF a

\* A call becomes a thread's innermost one.
LEMMA ConsElements ==
    ASSUME NEW S, NEW s \in Seq(S), NEW x \in S, x \notin ElementsOf(s), NoRepeats(s)
    PROVE  /\ <<x>> \o s \in Seq(S) /\ Len(<<x>> \o s) = Len(s) + 1
           /\ <<x>> \o s # << >>
           /\ NoRepeats(<<x>> \o s)
           /\ ElementsOf(<<x>> \o s) = ElementsOf(s) \cup {x}
  <1> DEFINE a == <<x>> \o s
  <1>1. /\ a \in Seq(S) /\ Len(a) = Len(s) + 1 /\ Len(s) \in Nat
        /\ DOMAIN a = 1 .. Len(s) + 1 /\ DOMAIN s = 1 .. Len(s)
        /\ a[1] = x
        /\ \A i \in 2 .. Len(s) + 1 : a[i] = s[i - 1]
    OBVIOUS
  <1> HIDE DEF a
  <1>2. \A i \in 1 .. Len(s) : s[i] # x
    BY <1>1 DEF ElementsOf
  <1>3. NoRepeats(a)
    <2> SUFFICES ASSUME NEW i \in 1 .. Len(s) + 1, NEW j \in 1 .. Len(s) + 1, i < j
                 PROVE  a[i] # a[j]
      BY <1>1 DEF NoRepeats
    <2>1. j - 1 \in 1 .. Len(s) /\ a[j] = s[j - 1]
      BY <1>1
    <2>2. CASE i = 1
      BY <1>1, <1>2, <2>1, <2>2
    <2>3. CASE i # 1
      <3>1. i - 1 \in 1 .. Len(s) /\ a[i] = s[i - 1] /\ i - 1 # j - 1
        BY <1>1, <2>3
      <3> QED
        BY <1>1, <2>1, <3>1 DEF NoRepeats
    <2> QED
      BY <2>2, <2>3
  <1>4. ElementsOf(a) = ElementsOf(s) \cup {x}
    <2>1. ASSUME NEW y \in ElementsOf(a) PROVE y \in ElementsOf(s) \cup {x}
      <3>1. PICK i \in 1 .. Len(s) + 1 : y = a[i]
        BY <1>1, <2>1 DEF ElementsOf
      <3>2. i = 1 \/ (i - 1 \in 1 .. Len(s) /\ a[i] = s[i - 1])
        BY <1>1
      <3> QED
        BY <1>1, <3>1, <3>2 DEF ElementsOf
    <2>2. ASSUME NEW i \in 1 .. Len(s) PROVE s[i] \in ElementsOf(a)
      <3>1. i + 1 \in 2 .. Len(s) + 1 /\ (i + 1) - 1 = i
        BY <1>1
      <3>2. a[i + 1] = s[i] /\ i + 1 \in DOMAIN a
        BY <1>1, <3>1
      <3> QED
        BY <3>2 DEF ElementsOf
    <2>3. x \in ElementsOf(a)
      <3>1. 1 \in DOMAIN a
        BY <1>1
      <3> QED
        BY <1>1, <3>1 DEF ElementsOf
    <2> QED
      BY <1>1, <2>1, <2>2, <2>3 DEF ElementsOf
  <1>5. a # << >>
    BY <1>1
  <1> QED
    BY <1>1, <1>3, <1>4, <1>5 DEF a

\* The queue is never longer than the pool has channels.
LEMMA Pigeonhole ==
    ASSUME NEW n \in Nat, NEW s \in Seq(1 .. n), NoRepeats(s)
    PROVE  Len(s) =< n
  <1>1. Len(s) \in Nat /\ DOMAIN s = 1 .. Len(s) /\ s \in [1 .. Len(s) -> 1 .. n]
    OBVIOUS
  <1>2. s \in Injection(1 .. Len(s), 1 .. n)
    BY <1>1 DEF NoRepeats, Injection, IsInjective
  <1>3. ASSUME NEW k \in Nat
        PROVE  IsFiniteSet(1 .. k) /\ Cardinality(1 .. k) = k
    <2>1. 1 \in Int /\ k \in Int
      OBVIOUS
    <2> QED
      BY <2>1, FS_Interval
  <1>4. Cardinality(1 .. Len(s)) =< Cardinality(1 .. n)
    BY <1>2, <1>3, FS_Injection
  <1> QED
    BY <1>1, <1>3, <1>4

-----------------------------------------------------------------------------
(* Where the channels are, as sets                                         *)

Conserved(P, E, C) ==
    /\ \A t, u \in Threads : t # u => E[t] \cap E[u] = {}
    /\ \A t \in Threads : E[t] \cap (P \cup C) = {}
    /\ P \cap C = {}
    /\ P \cup C \cup UNION {E[t] : t \in Threads} = Channels

Holdings(h) == [t \in Threads |-> ElementsOf(h[t])]

NoneTwice == NoRepeats(pool) /\ \A t \in Threads : NoRepeats(held[t])

LEMMA ConservedSets ==
    ChannelsConserved <=> NoneTwice /\ Conserved(ElementsOf(pool), Holdings(held), closed)
  <1>1. {Holdings(held)[t] : t \in Threads} = {ElementsOf(held[t]) : t \in Threads}
    BY DEF Holdings
  <1>2. \A t \in Threads : Holdings(held)[t] = ElementsOf(held[t])
    BY DEF Holdings
  <1> QED
    BY <1>1, <1>2 DEF ChannelsConserved, NoneTwice, Conserved

\* A thread takes a channel from the queue.
LEMMA TakeConserves ==
    ASSUME NEW P, NEW E, NEW C, NEW F, NEW x \in P, NEW t \in Threads,
           Conserved(P, E, C),
           F[t] = E[t] \cup {x}, \A u \in Threads : u # t => F[u] = E[u]
    PROVE  Conserved(P \ {x}, F, C)
  <1>1. UNION {F[u] : u \in Threads} = (UNION {E[u] : u \in Threads}) \cup {x}
    <2>1. \A u \in Threads : E[u] \subseteq F[u] /\ F[u] \subseteq E[u] \cup {x}
      OBVIOUS
    <2> QED
      BY <2>1
  <1>2. \A u \in Threads : x \notin E[u]
    BY DEF Conserved
  <1>3. x \notin C
    BY DEF Conserved
  <1>4. \A u, v \in Threads : u # v => F[u] \cap F[v] = {}
    BY <1>2 DEF Conserved
  <1>5. \A u \in Threads : F[u] \cap ((P \ {x}) \cup C) = {}
    BY <1>2, <1>3 DEF Conserved
  <1>6. (P \ {x}) \cup C \cup UNION {F[u] : u \in Threads}
            = P \cup C \cup UNION {E[u] : u \in Threads}
    BY <1>1
  <1> QED
    BY <1>4, <1>5, <1>6 DEF Conserved

\* It gives it back.
LEMMA PutConserves ==
    ASSUME NEW P, NEW E, NEW C, NEW F, NEW t \in Threads, NEW x \in E[t],
           Conserved(P, E, C),
           F[t] = E[t] \ {x}, \A u \in Threads : u # t => F[u] = E[u]
    PROVE  Conserved(P \cup {x}, F, C)
  <1>1. UNION {E[u] : u \in Threads} = (UNION {F[u] : u \in Threads}) \cup {x}
    <2>1. \A u \in Threads : F[u] \subseteq E[u] /\ E[u] \subseteq F[u] \cup {x}
      OBVIOUS
    <2>2. x \in UNION {E[u] : u \in Threads}
      OBVIOUS
    <2> QED
      BY <2>1, <2>2
  <1>2. \A u \in Threads : x \notin F[u]
    BY DEF Conserved
  <1>3. x \notin C
    BY DEF Conserved
  <1>4. \A u, v \in Threads : u # v => F[u] \cap F[v] = {}
    BY DEF Conserved
  <1>5. \A u \in Threads : F[u] \cap ((P \cup {x}) \cup C) = {}
    BY <1>2 DEF Conserved
  <1>6. (P \cup {x}) \cup C \cup UNION {F[u] : u \in Threads}
            = P \cup C \cup UNION {E[u] : u \in Threads}
    BY <1>1
  <1> QED
    BY <1>3, <1>4, <1>5, <1>6 DEF Conserved

\* close() takes it out of the queue for good.
LEMMA CloseConserves ==
    ASSUME NEW P, NEW E, NEW C, NEW x \in P, Conserved(P, E, C)
    PROVE  Conserved(P \ {x}, E, C \cup {x})
  <1>1. (P \ {x}) \cup (C \cup {x}) = P \cup C
    OBVIOUS
  <1> QED
    BY <1>1 DEF Conserved

-----------------------------------------------------------------------------
(* The invariant: the bound on the queue in TypeOK follows from the         *)
(* conservation of the channels, so that both are proved together.          *)

PoolInv == TypeOK /\ ChannelsConserved

LEMMA InitInv == Init => PoolInv
  <1> SUFFICES ASSUME Init PROVE PoolInv
    OBVIOUS
  <1>1. PoolSize \in Nat /\ Depth \in [Threads -> Nat \ {0}]
    BY PoolAssumption
  <1>2. /\ pool \in Seq(Channels) /\ Len(pool) = PoolSize
        /\ NoRepeats(pool) /\ ElementsOf(pool) = Channels
    BY <1>1 DEF Init, Channels, NoRepeats, ElementsOf
  <1>3. /\ held \in [Threads -> Seq(Channels)]
        /\ \A t \in Threads : held[t] = << >> /\ Len(held[t]) = 0
    BY DEF Init
  <1>4. TypeOK
    <2>1. closing \in [Closers -> {"open", "check", "pop", "done", "raised"}]
      BY DEF Init
    <2>2. \A t \in Threads : Depth[t] \in Nat
      BY <1>1
    <2>3. pool \in Seq(Channels) /\ Len(pool) =< PoolSize
      BY <1>1, <1>2
    <2>4. \A t \in Threads : Len(held[t]) =< Depth[t]
      BY <1>3, <2>2
    <2>5. waiting = {} /\ calling = {} /\ closed = {} /\ overlapped \in BOOLEAN
      BY DEF Init
    <2> QED
      BY <1>3, <2>1, <2>3, <2>4, <2>5 DEF TypeOK
  <1>5. \A t \in Threads : NoRepeats(held[t]) /\ ElementsOf(held[t]) = {}
    BY <1>3 DEF NoRepeats, ElementsOf
  <1>6. Conserved(ElementsOf(pool), Holdings(held), closed)
    BY <1>2, <1>5 DEF Conserved, Holdings, Init
  <1> QED
    BY <1>2, <1>4, <1>5, <1>6, ConservedSets DEF PoolInv, NoneTwice

LEMMA TakeInv ==
    ASSUME PoolInv, NEW t \in Threads, Take(t)
    PROVE  /\ ChannelsConserved'
           /\ pool' \in Seq(Channels) /\ Len(pool') =< PoolSize
           /\ held' \in [Threads -> Seq(Channels)]
           /\ Len(held'[t]) = Len(held[t]) + 1
           /\ held'[t] # << >>
  <1> DEFINE x == Head(pool)
  <1>1. /\ pool \in Seq(Channels) /\ pool # << >> /\ NoRepeats(pool)
        /\ held \in [Threads -> Seq(Channels)] /\ Len(pool) =< PoolSize
    BY DEF PoolInv, TypeOK, ChannelsConserved, Take
  <1>2. /\ pool' \in Seq(Channels) /\ Len(pool') = Len(pool) - 1
        /\ x \in Channels /\ x \in ElementsOf(pool)
        /\ NoRepeats(pool') /\ ElementsOf(pool') = ElementsOf(pool) \ {x}
    BY <1>1, TailElements DEF Take
  <1>3. held[t] \in Seq(Channels) /\ NoRepeats(held[t]) /\ x \notin ElementsOf(held[t])
    BY <1>1, <1>2 DEF PoolInv, ChannelsConserved
  <1>4. held' = [held EXCEPT ![t] = <<x>> \o held[t]]
    BY DEF Take
  <1> HIDE DEF x
  <1>5. /\ <<x>> \o held[t] \in Seq(Channels) /\ Len(<<x>> \o held[t]) = Len(held[t]) + 1
        /\ <<x>> \o held[t] # << >> /\ NoRepeats(<<x>> \o held[t])
        /\ ElementsOf(<<x>> \o held[t]) = ElementsOf(held[t]) \cup {x}
    BY <1>2, <1>3, ConsElements
  <1>6. /\ held'[t] = <<x>> \o held[t]
        /\ \A u \in Threads : u # t => held'[u] = held[u]
        /\ held' \in [Threads -> Seq(Channels)]
    BY <1>1, <1>4, <1>5
  <1>7. \A u \in Threads : NoRepeats(held'[u])
    BY <1>5, <1>6 DEF PoolInv, ChannelsConserved
  <1>8. Conserved(ElementsOf(pool), Holdings(held), closed)
    BY ConservedSets DEF PoolInv
  <1>9. /\ Holdings(held')[t] = Holdings(held)[t] \cup {x}
        /\ \A u \in Threads : u # t => Holdings(held')[u] = Holdings(held)[u]
    BY <1>5, <1>6 DEF Holdings
  <1>10. Conserved(ElementsOf(pool) \ {x}, Holdings(held'), closed)
    BY <1>2, <1>8, <1>9, TakeConserves
  <1>11. ChannelsConserved'
    <2>1. closed' = closed /\ NoneTwice'
      BY <1>2, <1>7 DEF Take, NoneTwice
    <2>2. Conserved(ElementsOf(pool), Holdings(held), closed)'
      BY <1>2, <1>10, <2>1 DEF Conserved, Holdings, ElementsOf
    <2> QED
      BY <2>1, <2>2, ConservedSets, PTL
  <1>12. Len(pool') =< PoolSize
    BY <1>1, <1>2, PoolAssumption
  <1> QED
    BY <1>2, <1>5, <1>6, <1>11, <1>12

LEMMA PutBackInv ==
    ASSUME PoolInv, NEW t \in Threads, PutBack(t)
    PROVE  /\ ChannelsConserved'
           /\ pool' \in Seq(Channels) /\ Len(pool') =< PoolSize
           /\ held' \in [Threads -> Seq(Channels)]
           /\ Len(held'[t]) = Len(held[t]) - 1
           /\ \A u \in Threads : u # t => held'[u] = held[u]
  <1> DEFINE x == Head(held[t])
  <1>1. /\ pool \in Seq(Channels) /\ NoRepeats(pool)
        /\ held \in [Threads -> Seq(Channels)]
        /\ held[t] \in Seq(Channels) /\ held[t] # << >> /\ NoRepeats(held[t])
    BY DEF PoolInv, TypeOK, ChannelsConserved, PutBack
  <1>2. /\ Tail(held[t]) \in Seq(Channels) /\ Len(Tail(held[t])) = Len(held[t]) - 1
        /\ x \in Channels /\ x \in ElementsOf(held[t])
        /\ NoRepeats(Tail(held[t])) /\ ElementsOf(Tail(held[t])) = ElementsOf(held[t]) \ {x}
    BY <1>1, TailElements
  <1>3. pool' = Append(pool, x) /\ held' = [held EXCEPT ![t] = Tail(held[t])]
    BY DEF PutBack
  <1> HIDE DEF x
  <1>4. x \notin ElementsOf(pool)
    BY <1>2 DEF PoolInv, ChannelsConserved
  <1>5. /\ pool' \in Seq(Channels) /\ NoRepeats(pool')
        /\ ElementsOf(pool') = ElementsOf(pool) \cup {x}
    BY <1>1, <1>2, <1>3, <1>4, AppendElements
  <1>6. /\ held'[t] = Tail(held[t])
        /\ \A u \in Threads : u # t => held'[u] = held[u]
        /\ held' \in [Threads -> Seq(Channels)]
    BY <1>1, <1>2, <1>3
  <1>7. \A u \in Threads : NoRepeats(held'[u])
    BY <1>2, <1>6 DEF PoolInv, ChannelsConserved
  <1>8. Conserved(ElementsOf(pool), Holdings(held), closed)
    BY ConservedSets DEF PoolInv
  <1>9. /\ Holdings(held')[t] = Holdings(held)[t] \ {x}
        /\ x \in Holdings(held)[t]
        /\ \A u \in Threads : u # t => Holdings(held')[u] = Holdings(held)[u]
    BY <1>2, <1>6 DEF Holdings
  <1>10. Conserved(ElementsOf(pool) \cup {x}, Holdings(held'), closed)
    BY <1>8, <1>9, PutConserves
  <1>11. ChannelsConserved'
    <2>1. closed' = closed /\ NoneTwice'
      BY <1>5, <1>7 DEF PutBack, NoneTwice
    <2>2. Conserved(ElementsOf(pool), Holdings(held), closed)'
      BY <1>5, <1>10, <2>1 DEF Conserved, Holdings, ElementsOf
    <2> QED
      BY <2>1, <2>2, ConservedSets, PTL
  <1>12. Len(pool') =< PoolSize
    BY <1>5, Pigeonhole, PoolAssumption DEF Channels
  <1> QED
    BY <1>2, <1>5, <1>6, <1>11, <1>12

LEMMA NextInv ==
    ASSUME PoolInv, [Next]_vars
    PROVE  PoolInv'
  <1>1. \A t \in Threads : held[t] \in Seq(Channels) /\ Depth[t] \in Nat
    BY PoolAssumption DEF PoolInv, TypeOK
  <1>2. ASSUME NEW t \in Threads, Ask(t) PROVE PoolInv'
    <2>1. TypeOK'
      BY <1>2 DEF PoolInv, TypeOK, Ask, CloseBegun
    <2>2. ChannelsConserved'
      BY <1>2 DEF PoolInv, ChannelsConserved, Ask
    <2> QED
      BY <2>1, <2>2 DEF PoolInv
  <1>3. ASSUME NEW t \in Threads, Take(t), calling' \subseteq calling \cup {t}
        PROVE  PoolInv'
    <2>1. /\ ChannelsConserved'
          /\ pool' \in Seq(Channels) /\ Len(pool') =< PoolSize
          /\ held' \in [Threads -> Seq(Channels)]
          /\ Len(held'[t]) = Len(held[t]) + 1 /\ held'[t] # << >>
      BY <1>3, TakeInv
    <2>2. \A u \in Threads : u # t => held'[u] = held[u]
      BY <1>3 DEF Take, PoolInv, TypeOK
    <2>3. \A u \in Threads : /\ Len(held'[u]) =< Depth[u]
                             /\ u \in waiting' => Len(held'[u]) < Depth[u]
                             /\ u \in calling' => held'[u] # << >>
      <3> SUFFICES ASSUME NEW u \in Threads
                   PROVE  /\ Len(held'[u]) =< Depth[u]
                          /\ u \in waiting' => Len(held'[u]) < Depth[u]
                          /\ u \in calling' => held'[u] # << >>
        OBVIOUS
      <3>1. CASE u = t
        <4>1. Len(held[t]) < Depth[t] /\ t \notin waiting'
          BY <1>3 DEF Take, PoolInv, TypeOK
        <4>2. Len(held[t]) \in Nat /\ Depth[t] \in Nat
          BY <1>1
        <4> QED
          BY <2>1, <3>1, <4>1, <4>2
      <3>2. CASE u # t
        BY <1>3, <2>2, <3>2 DEF Take, PoolInv, TypeOK
      <3> QED
        BY <3>1, <3>2
    <2>4. waiting' \subseteq Threads /\ calling' \subseteq Threads \ waiting'
      BY <1>3 DEF Take, PoolInv, TypeOK
    <2>5. TypeOK'
      BY <1>3, <2>1, <2>3, <2>4 DEF TypeOK, PoolInv, Take
    <2> QED
      BY <2>1, <2>5 DEF PoolInv
  <1>4. ASSUME NEW t \in Threads, PutBack(t), calling' \subseteq calling \ {t}
        PROVE  PoolInv'
    <2>1. /\ ChannelsConserved'
          /\ pool' \in Seq(Channels) /\ Len(pool') =< PoolSize
          /\ held' \in [Threads -> Seq(Channels)]
          /\ Len(held'[t]) = Len(held[t]) - 1
          /\ \A u \in Threads : u # t => held'[u] = held[u]
      BY <1>4, PutBackInv
    <2>2. \A u \in Threads : /\ Len(held'[u]) =< Depth[u]
                             /\ u \in waiting' => Len(held'[u]) < Depth[u]
                             /\ u \in calling' => held'[u] # << >>
      <3> SUFFICES ASSUME NEW u \in Threads
                   PROVE  /\ Len(held'[u]) =< Depth[u]
                          /\ u \in waiting' => Len(held'[u]) < Depth[u]
                          /\ u \in calling' => held'[u] # << >>
        OBVIOUS
      <3>1. CASE u = t
        <4>1. Len(held[t]) =< Depth[t] /\ t \notin waiting' /\ t \notin calling'
          BY <1>4 DEF PutBack, PoolInv, TypeOK
        <4>2. Len(held[t]) \in Nat /\ Depth[t] \in Nat
          BY <1>1
        <4> QED
          BY <2>1, <3>1, <4>1, <4>2
      <3>2. CASE u # t
        BY <1>4, <2>1, <3>2 DEF PutBack, PoolInv, TypeOK
      <3> QED
        BY <3>1, <3>2
    <2>3. waiting' \subseteq Threads /\ calling' \subseteq Threads \ waiting'
      BY <1>4 DEF PutBack, PoolInv, TypeOK
    <2>4. TypeOK'
      BY <1>4, <2>1, <2>2, <2>3 DEF TypeOK, PoolInv, PutBack
    <2> QED
      BY <2>1, <2>4 DEF PoolInv
  <1>5. ASSUME NEW c \in Closers, CloseBegin(c) \/ CloseCheck(c) PROVE PoolInv'
    <2>1. TypeOK'
      BY <1>5 DEF PoolInv, TypeOK, CloseBegin, CloseCheck, AtClose, CloseBegun
    <2>2. ChannelsConserved'
      BY <1>5 DEF PoolInv, ChannelsConserved, CloseBegin, CloseCheck
    <2> QED
      BY <2>1, <2>2 DEF PoolInv
  <1>6. ASSUME NEW c \in Closers, ClosePop(c) PROVE PoolInv'
    <2>1. CASE pool = << >>
      <3>1. TypeOK'
        BY <1>6, <2>1 DEF PoolInv, TypeOK, ClosePop, AtClose
      <3>2. ChannelsConserved'
        BY <1>6, <2>1 DEF PoolInv, ChannelsConserved, ClosePop
      <3> QED
        BY <3>1, <3>2 DEF PoolInv
    <2>2. CASE pool # << >>
      <3> DEFINE x == Head(pool)
      <3>1. pool \in Seq(Channels) /\ NoRepeats(pool) /\ Len(pool) =< PoolSize
        BY DEF PoolInv, TypeOK, ChannelsConserved
      <3>2. pool' = Tail(pool) /\ closed' = closed \cup {x} /\ held' = held
        BY <1>6, <2>2 DEF ClosePop
      <3>3. /\ pool' \in Seq(Channels) /\ Len(pool') = Len(pool) - 1
            /\ x \in Channels /\ x \in ElementsOf(pool)
            /\ NoRepeats(pool') /\ ElementsOf(pool') = ElementsOf(pool) \ {x}
        BY <2>2, <3>1, <3>2, TailElements
      <3> HIDE DEF x
      <3>4. Len(pool') =< PoolSize
        BY <3>1, <3>3, PoolAssumption
      <3>5. TypeOK'
        <4>1. closing' \in [Closers -> {"open", "check", "pop", "done", "raised"}]
          BY <1>6 DEF ClosePop, AtClose, PoolInv, TypeOK
        <4>2. UNCHANGED <<waiting, calling, overlapped>>
          BY <1>6 DEF ClosePop
        <4> QED
          BY <3>2, <3>3, <3>4, <4>1, <4>2 DEF PoolInv, TypeOK
      <3>6. Conserved(ElementsOf(pool), Holdings(held), closed)
        BY ConservedSets DEF PoolInv
      <3>7. Conserved(ElementsOf(pool) \ {x}, Holdings(held), closed \cup {x})
        BY <3>3, <3>6, CloseConserves
      <3>8. ChannelsConserved'
        <4>1. NoneTwice'
          BY <3>2, <3>3 DEF NoneTwice, PoolInv, ChannelsConserved
        <4>2. Conserved(ElementsOf(pool), Holdings(held), closed)'
          <5>1. Conserved(ElementsOf(pool'), Holdings(held'), closed')
            BY <3>2, <3>3, <3>7
          <5> QED
            BY <5>1 DEF Conserved, Holdings, ElementsOf
        <4> QED
          BY <4>1, <4>2, ConservedSets, PTL
      <3> QED
        BY <3>5, <3>8 DEF PoolInv
    <2> QED
      BY <2>1, <2>2
  <1>7. CASE UNCHANGED vars
    BY <1>7 DEF vars, PoolInv, TypeOK, ChannelsConserved
  <1>8. ASSUME NEW t \in Threads, TakeUnary(t) \/ TakeStream(t) PROVE PoolInv'
    BY <1>3, <1>8 DEF TakeUnary, TakeStream
  <1>9. ASSUME NEW t \in Threads, EndUnary(t) \/ EndStream(t) PROVE PoolInv'
    <2>1. PutBack(t) /\ calling' \subseteq calling \ {t}
      BY <1>9 DEF EndUnary, EndStream
    <2> QED
      BY <1>4, <2>1
  <1> QED
    BY <1>2, <1>5, <1>6, <1>7, <1>8, <1>9 DEF Next, Close

LEMMA Invariance == Spec => []PoolInv
  BY InitInv, NextInv, PTL DEF Spec

\* The state stays well formed, and the queue never outgrows the pool.
THEOREM TypeCorrect == Spec => []TypeOK
  BY Invariance, PTL DEF PoolInv

\* No two calls share a channel, no call has a closed one and none is lost.
THEOREM ChannelsInOnePlace == Spec => []ChannelsConserved
  BY Invariance, PTL DEF PoolInv

-----------------------------------------------------------------------------
(* close() on a quiet client: one closer, who alone touches the queue.      *)

QuietInv ==
    ~ overlapped =>
        /\ CloseBegun => waiting = {} /\ \A t \in Threads : held[t] = << >>
        /\ \A c, d \in Closers : closing[c] # "open" /\ closing[d] # "open" => c = d
        /\ \A c \in Closers : /\ closing[c] = "pop" => pool # << >>
                              /\ closing[c] = "done" => pool = << >>
                              /\ closing[c] # "raised"

LEMMA QuietNext ==
    ASSUME TypeOK, QuietInv, [Next]_vars
    PROVE  QuietInv'
  <1> SUFFICES ASSUME ~ overlapped' PROVE QuietInv'
    BY DEF QuietInv
  <1>1. ASSUME NEW t \in Threads, Ask(t) PROVE QuietInv'
    BY <1>1 DEF Ask, QuietInv, CloseBegun
  <1>2. ASSUME NEW t \in Threads, TakeUnary(t) \/ TakeStream(t) PROVE QuietInv'
    BY <1>2 DEF TakeUnary, TakeStream, Take, QuietInv, CloseBegun
  <1>3. ASSUME NEW t \in Threads, EndUnary(t) \/ EndStream(t) PROVE QuietInv'
    BY <1>3 DEF EndUnary, EndStream, PutBack, QuietInv, CloseBegun
  <1>4. ASSUME NEW c \in Closers, CloseBegin(c) PROVE QuietInv'
    BY <1>4 DEF CloseBegin, AtClose, QuietInv, CloseBegun, TypeOK
  <1>5. ASSUME NEW c \in Closers, CloseCheck(c) PROVE QuietInv'
    BY <1>5 DEF CloseCheck, AtClose, QuietInv, CloseBegun, TypeOK
  <1>6. ASSUME NEW c \in Closers, ClosePop(c) PROVE QuietInv'
    BY <1>6 DEF ClosePop, AtClose, QuietInv, CloseBegun, TypeOK
  <1>7. CASE UNCHANGED vars
    BY <1>7 DEF vars, QuietInv, CloseBegun
  <1> QED
    BY <1>1, <1>2, <1>3, <1>4, <1>5, <1>6, <1>7 DEF Next, Close

LEMMA QuietClosed ==
    ASSUME ChannelsConserved, QuietInv
    PROVE  QuietCloseComplete
  <1> SUFFICES ASSUME ~ overlapped, NEW c \in Closers, closing[c] = "done"
               PROVE  closed = Channels
    BY DEF QuietInv, QuietCloseComplete
  <1>1. pool = << >> /\ \A t \in Threads : held[t] = << >>
    BY DEF QuietInv, CloseBegun
  <1>2. ElementsOf(pool) = {} /\ \A t \in Threads : ElementsOf(held[t]) = {}
    BY <1>1 DEF ElementsOf
  <1> QED
    BY <1>2 DEF ChannelsConserved

\* When nothing overlaps it, close() returns with every channel closed.
THEOREM QuietCloseCorrect == Spec => []QuietCloseComplete
  <1>1. Init => QuietInv
    BY DEF Init, QuietInv, CloseBegun
  <1>2. QuietInv /\ TypeOK /\ [Next]_vars => QuietInv'
    BY QuietNext
  <1>3. Spec => []QuietInv
    BY <1>1, <1>2, TypeCorrect, PTL DEF Spec
  <1> QED
    BY <1>3, ChannelsInOnePlace, QuietClosed, PTL
=============================================================================

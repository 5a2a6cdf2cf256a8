----------------------- MODULE TransactionStreamProofs -----------------------
(***************************************************************************)
(* Theorems about TransactionStream for any number of entities, of their   *)
(* transactions, of restarts, foreign messages and delivery faults.        *)
(***************************************************************************)
EXTENDS TransactionStream, FiniteSetTheorems, TLAPS

\* The part of the type invariant that is about the simulator's process.
SimOK ==
    /\ topic \in Seq(Messages)
    /\ run \in {"new", "running", "stopping", "stopped", "cancelled", "failed", "exited"}
    /\ loops \in [Entities -> {"none", "sleep", "callback", "send", "failed", "cancelled"}]
    /\ callback \in BOOLEAN /\ available \in BOOLEAN
    /\ working \subseteq Transactions /\ called \subseteq Transactions
    /\ emitted \in [Entities -> Nat] /\ sent \in Nat /\ buffer \in Seq(Transactions)
    /\ \A e \in Entities : loops[e] \in {"callback", "send"} => emitted[e] > 0
    /\ expired \subseteq Transactions /\ resent \in Nat

\* The part that is about the server.
ServerOK ==
    /\ main \in {"down", "serving", "awaiting", "stopped", "raised"}
    /\ task \in {"none", "connecting", "consuming", "ended", "failed", "broken", "cancelled"}
    /\ main = "down" <=> task = "none"
    /\ signalled \in BOOLEAN
    /\ position \in {NoOffset} \cup 0 .. Len(topic)
    /\ task \in {"consuming", "failed", "broken"} => position # NoOffset
    /\ committed \in {NoOffset} \cup 0 .. Len(topic)
    /\ recorded \in Seq(DOMAIN topic)
    /\ since \in 0 .. Len(topic) /\ read \subseteq DOMAIN topic

LEMMA TypeParts == TypeOK <=> SimOK /\ ServerOK
  BY DEF TypeOK, SimOK, ServerOK

\* The topic is a log: what is in it stays where it is.
Grows ==
    /\ topic' \in Seq(Messages) /\ Len(topic) =< Len(topic')
    /\ \A i \in 1 .. Len(topic) : topic'[i] = topic[i]

Elements(s) == {s[i] : i \in DOMAIN s}

LEMMA AppendSeq ==
    ASSUME NEW S, NEW s \in Seq(S), NEW x \in S
    PROVE  /\ Append(s, x) \in Seq(S) /\ Len(s) \in Nat /\ Len(Append(s, x)) = Len(s) + 1
           /\ \A i \in 1 .. Len(s) : Append(s, x)[i] = s[i]
           /\ Append(s, x)[Len(s) + 1] = x
           /\ Elements(Append(s, x)) = Elements(s) \cup {x}
  <1> DEFINE a == Append(s, x)
  <1>1. /\ a \in Seq(S) /\ Len(s) \in Nat /\ Len(a) = Len(s) + 1
        /\ DOMAIN a = 1 .. Len(s) + 1 /\ DOMAIN s = 1 .. Len(s)
        /\ \A i \in 1 .. Len(s) : a[i] = s[i]
        /\ a[Len(s) + 1] = x
    OBVIOUS
  <1> HIDE DEF a
  <1>2. Elements(a) = Elements(s) \cup {x}
    BY <1>1 DEF Elements
  <1> QED
    BY <1>1, <1>2 DEF a

LEMMA TailSeq ==
    ASSUME NEW S, NEW s \in Seq(S), s # << >>
    PROVE  /\ Tail(s) \in Seq(S) /\ Head(s) \in S /\ Head(s) = s[1]
           /\ Len(s) \in Nat \ {0} /\ Len(Tail(s)) = Len(s) - 1
           /\ \A i \in 1 .. Len(s) - 1 : Tail(s)[i] = s[i + 1]
           /\ Elements(s) = Elements(Tail(s)) \cup {Head(s)}
  <1> DEFINE t == Tail(s)
  <1>1. /\ t \in Seq(S) /\ Head(s) \in S /\ Head(s) = s[1]
        /\ Len(s) \in Nat \ {0} /\ Len(t) = Len(s) - 1
        /\ DOMAIN t = 1 .. Len(s) - 1 /\ DOMAIN s = 1 .. Len(s)
        /\ \A i \in 1 .. Len(s) - 1 : t[i] = s[i + 1]
    OBVIOUS
  <1> HIDE DEF t
  <1>2. ASSUME NEW i \in 1 .. Len(s) PROVE i = 1 \/ (i - 1 \in 1 .. Len(s) - 1 /\ t[i - 1] = s[i])
    BY <1>1
  <1>3. Elements(s) \subseteq Elements(t) \cup {Head(s)}
    <2> SUFFICES ASSUME NEW i \in 1 .. Len(s) PROVE s[i] \in Elements(t) \cup {Head(s)}
      BY <1>1 DEF Elements
    <2>1. CASE i = 1
      BY <1>1, <2>1
    <2>2. CASE i # 1
      <3>1. i - 1 \in DOMAIN t /\ t[i - 1] = s[i]
        BY <1>1, <1>2, <2>2
      <3> QED
        BY <3>1 DEF Elements
    <2> QED
      BY <2>1, <2>2
  <1>4. Elements(t) \cup {Head(s)} \subseteq Elements(s)
    <2>1. \A i \in 1 .. Len(s) - 1 : i + 1 \in 1 .. Len(s)
      BY <1>1
    <2>2. 1 \in DOMAIN s
      BY <1>1
    <2> QED
      BY <1>1, <2>1, <2>2 DEF Elements
  <1> QED
    BY <1>1, <1>3, <1>4 DEF t

LEMMA ConcatSeq ==
    ASSUME NEW S, NEW s \in Seq(S), NEW b \in Seq(S), NEW n \in DOMAIN b
    PROVE  /\ s \o SubSeq(b, 1, n) \in Seq(S)
           /\ Len(s) \in Nat /\ Len(s) =< Len(s \o SubSeq(b, 1, n))
           /\ \A i \in 1 .. Len(s) : (s \o SubSeq(b, 1, n))[i] = s[i]
           /\ Elements(s) \subseteq Elements(s \o SubSeq(b, 1, n))
           /\ Elements(s \o SubSeq(b, 1, n)) \subseteq Elements(s) \cup Elements(b)
  <1>1. n \in 1 .. Len(b) /\ Len(b) \in Nat
    OBVIOUS
  <1> DEFINE p == SubSeq(b, 1, n)
             c == s \o p
  <1>2. p \in Seq(S) /\ Len(p) = n /\ (\A i \in 1 .. n : p[i] = b[i])
    BY <1>1
  <1> HIDE DEF p
  <1>3. /\ c \in Seq(S) /\ Len(s) \in Nat /\ Len(c) = Len(s) + n
        /\ DOMAIN c = 1 .. Len(s) + n /\ DOMAIN s = 1 .. Len(s) /\ DOMAIN b = 1 .. Len(b)
        /\ \A i \in 1 .. Len(s) : c[i] = s[i]
        /\ \A i \in Len(s) + 1 .. Len(s) + n : c[i] = p[i - Len(s)]
    BY <1>1, <1>2
  <1> HIDE DEF c
  <1>4. Elements(s) \subseteq Elements(c)
    <2>1. \A i \in DOMAIN s : i \in DOMAIN c /\ c[i] = s[i]
      BY <1>1, <1>3
    <2> QED
      BY <2>1 DEF Elements
  <1>5. Elements(c) \subseteq Elements(s) \cup Elements(b)
    <2>1. ASSUME NEW i \in DOMAIN c PROVE c[i] \in Elements(s) \cup Elements(b)
      <3>1. CASE i \in 1 .. Len(s)
        BY <1>3, <3>1 DEF Elements
      <3>2. CASE i \in Len(s) + 1 .. Len(s) + n
        <4>1. i - Len(s) \in 1 .. n /\ i - Len(s) \in DOMAIN b
          BY <1>1, <1>3, <3>2
        <4> QED
          BY <1>2, <1>3, <3>2, <4>1 DEF Elements
      <3> QED
        BY <1>1, <1>3, <3>1, <3>2
    <2> QED
      BY <2>1 DEF Elements
  <1> QED
    BY <1>1, <1>3, <1>4, <1>5 DEF c, p

LEMMA SeqMonotone ==
    ASSUME NEW S, NEW T, S \subseteq T, NEW s \in Seq(S)
    PROVE  s \in Seq(T)
  <1>1. Len(s) \in Nat /\ s \in [1 .. Len(s) -> S]
    OBVIOUS
  <1>2. s \in [1 .. Len(s) -> T]
    BY <1>1
  <1> QED
    BY <1>1, <1>2

LEMMA NotMalformed == \A x \in Transactions : x \notin Malformed
  <1> SUFFICES ASSUME NEW x \in Transactions, x \in Malformed PROVE FALSE
    OBVIOUS
  <1>1. "number" \in DOMAIN x
    BY DEF Transactions
  <1>2. "number" \notin DOMAIN NotJSON /\ "number" \notin DOMAIN OtherFields
        /\ "number" \notin DOMAIN OtherTypes
    BY DEF NotJSON, OtherFields, OtherTypes
  <1> QED
    BY <1>1, <1>2, Zenon DEF Malformed

-----------------------------------------------------------------------------
(* the type invariant                                                      *)

LEMMA InitType == Init => TypeOK
  <1> SUFFICES ASSUME Init PROVE SimOK /\ ServerOK
    BY TypeParts
  <1>1. topic \in Seq(Messages) /\ Len(topic) = 0
    BY DEF Init
  <1>2. SimOK
    <2>1. callback \in BOOLEAN /\ available \in BOOLEAN
      BY SimulatorAssumption, Zenon DEF Init, SimInit
    <2>2. buffer \in Seq(Transactions) /\ emitted \in [Entities -> Nat]
      BY DEF Init, SimInit
    <2> QED
      BY <1>1, <2>1, <2>2 DEF Init, SimInit, SimOK
  <1>3. ServerOK
    <2>1. recorded \in Seq(DOMAIN topic)
      BY DEF Init, ServerInit
    <2>2. since \in 0 .. Len(topic)
      BY <1>1 DEF Init, ServerInit
    <2> QED
      BY <2>1, <2>2 DEF Init, ServerInit, ServerOK
  <1> QED
    BY <1>2, <1>3

LEMMA TopicKept == SimOK /\ UNCHANGED topic => Grows
  BY DEF SimOK, Grows

LEMMA SimGrows ==
    ASSUME SimOK, SimNext
    PROVE  Grows
  <1>1. \A x \in Transactions : x \in Messages
    BY DEF Messages
  <1>2. CASE Deliver
    <2>1. Head(buffer) \in Messages /\ topic' = Append(topic, Head(buffer))
      BY <1>1, <1>2, TailSeq DEF Deliver, SimOK
    <2> QED
      BY <2>1, AppendSeq DEF SimOK, Grows
  <1>3. CASE Resend
    <2>1. buffer \in Seq(Messages) /\ topic \in Seq(Messages)
      BY SeqMonotone DEF SimOK, Messages
    <2>2. PICK n \in DOMAIN buffer : topic' = topic \o SubSeq(buffer, 1, n)
      BY <1>3 DEF Resend
    <2> QED
      BY <2>1, <2>2, ConcatSeq DEF Grows
  <1>4. CASE ~ Deliver /\ ~ Resend
    <2>1. topic' = topic
      BY <1>4 DEF SimNext, Background, StartRun, Expire, Timeout, Cancel, Exit, StopProducer,
                  CallbackReturns, Emit, Send, SendFails
    <2> QED
      BY <2>1, TopicKept
  <1> QED
    BY <1>2, <1>3, <1>4

LEMMA SimType ==
    ASSUME SimOK, SimNext
    PROVE  SimOK'
  <1> USE DEF SimOK
  <1>1. topic' \in Seq(Messages)
    BY SimGrows DEF Grows
  <1>3. CASE StartRun
    BY <1>1, <1>3 DEF StartRun, StartProducer, faults
  <1>4. ASSUME NEW e \in Entities, Emit(e) PROVE SimOK'
    <2>1. emitted' = [emitted EXCEPT ![e] = @ + 1] /\ emitted' \in [Entities -> Nat]
      BY <1>4 DEF Emit
    <2>2. Current(e)' \in Transactions
      BY <2>1 DEF Current, Transactions
    <2>3. working' \subseteq Transactions
      BY <1>4, <2>2 DEF Emit
    <2>4. loops' \in [Entities -> {"none", "sleep", "callback", "send", "failed", "cancelled"}]
      BY <1>4 DEF Emit, AtLoop
    <2>5. \A x \in Entities : loops'[x] \in {"callback", "send"} => emitted'[x] > 0
      BY <1>4, <2>1 DEF Emit, AtLoop
    <2> QED
      BY <1>1, <1>4, <2>1, <2>3, <2>4, <2>5 DEF Emit, faults
  <1>5. ASSUME NEW x \in working, CallbackReturns(x) PROVE SimOK'
    <2>1. loops' \in [Entities -> {"none", "sleep", "callback", "send", "failed", "cancelled"}]
      BY <1>5 DEF CallbackReturns
    <2>2. \A e \in Entities : loops'[e] \in {"callback", "send"} => emitted[e] > 0
      BY <1>5 DEF CallbackReturns
    <2> QED
      BY <1>1, <1>5, <2>1, <2>2 DEF CallbackReturns, faults
  <1>6. ASSUME NEW e \in Entities, Send(e) PROVE SimOK'
    <2>1. Current(e) \in Transactions
      BY <1>6 DEF Current, Transactions, Send, AtLoop
    <2>2. buffer' \in Seq(Transactions) /\ sent' \in Nat
      <3>1. Append(buffer, Current(e)) \in Seq(Transactions)
        BY <2>1, AppendSeq
      <3>2. buffer \in Seq(Transactions) /\ sent \in Nat
        OBVIOUS
      <3>3. \/ buffer' = Append(buffer, Current(e)) /\ sent' = sent + 1
            \/ buffer' = buffer /\ sent' = sent
        BY <1>6 DEF Send
      <3> HIDE DEF SimOK
      <3> QED
        BY <3>1, <3>2, <3>3
    <2>3. loops' \in [Entities -> {"none", "sleep", "callback", "send", "failed", "cancelled"}]
      BY <1>6 DEF Send, AtLoop
    <2>4. \A x \in Entities : loops'[x] \in {"callback", "send"} => emitted[x] > 0
      BY <1>6 DEF Send, AtLoop
    <2>5. UNCHANGED <<run, callback, available, working, called, emitted, faults>>
      BY <1>6 DEF Send
    <2> QED
      BY <1>1, <2>2, <2>3, <2>4, <2>5 DEF faults
  <1>7. ASSUME NEW e \in Entities, SendFails(e) PROVE SimOK'
    BY <1>1, <1>7 DEF SendFails, AtLoop, faults
  <1>8. CASE Deliver
    BY <1>1, <1>8, TailSeq DEF Deliver, faults
  <1>9. CASE Resend
    BY <1>1, <1>9 DEF Resend
  <1>10. CASE Expire
    <2>1. Tail(buffer) \in Seq(Transactions) /\ Head(buffer) \in Transactions
      BY <1>10, TailSeq DEF Expire
    <2> QED
      BY <1>1, <1>10, <2>1 DEF Expire
  <1>11. CASE Timeout \/ Cancel \/ Exit
    <2>1. /\ loops' \in [Entities -> {"none", "sleep", "callback", "send", "failed", "cancelled"}]
          /\ \A e \in Entities : loops'[e] \notin {"callback", "send"}
          /\ run' \in {"stopping", "cancelled", "exited"} /\ buffer' \in {buffer, << >>}
          /\ UNCHANGED <<callback, available, working, called, emitted, sent, faults>>
      BY <1>11 DEF Timeout, Cancel, Exit, Cancelled
    <2>2. buffer' \in Seq(Transactions)
      <3>1. buffer \in Seq(Transactions) /\ << >> \in Seq(Transactions)
        OBVIOUS
      <3> QED
        BY <2>1, <3>1, Zenon
    <2> QED
      BY <1>1, <2>1, <2>2 DEF faults
  <1>12. CASE StopProducer
    BY <1>1, <1>12 DEF StopProducer, faults
  <1> QED
    BY <1>3, <1>4, <1>5, <1>6, <1>7, <1>8, <1>9, <1>10, <1>11, <1>12
    DEF SimNext, Background

LEMMA ServerGrows ==
    ASSUME SimOK, ServerNext
    PROVE  Grows
  <1>1. CASE Foreign
    <2>1. PICK m \in Malformed : topic' = Append(topic, m)
      BY <1>1 DEF Foreign
    <2> QED
      BY <2>1, AppendSeq DEF SimOK, Grows, Messages
  <1>2. CASE ~ Foreign
    <2>1. topic' = topic
      BY <1>2 DEF ServerNext, Boot, Ingesting, Connect, Consume, Unavailable, Commit, TaskFails,
                  Signal, Stopping, Wake, Awaited, Down
    <2> QED
      BY <2>1, TopicKept
  <1> QED
    BY <1>1, <1>2

\* What the server knows of the topic stays true when the topic grows.
LEMMA ServerKept ==
    ASSUME ServerOK, topic \in Seq(Messages), Grows, UNCHANGED server
    PROVE  ServerOK'
  <1>1. Len(topic) \in Nat /\ Len(topic') \in Nat /\ DOMAIN topic = 1 .. Len(topic)
        /\ DOMAIN topic' = 1 .. Len(topic')
    BY DEF Grows
  <1>2. DOMAIN topic \subseteq DOMAIN topic'
    BY <1>1 DEF Grows
  <1>3. recorded' \in Seq(DOMAIN topic')
    BY <1>2, SeqMonotone DEF ServerOK, server
  <1>4. 0 .. Len(topic) \subseteq 0 .. Len(topic')
    BY <1>1 DEF Grows
  <1> QED
    BY <1>2, <1>3, <1>4 DEF ServerOK, server

LEMMA ServerType ==
    ASSUME SimOK, ServerOK, ServerNext
    PROVE  ServerOK'
  <1>1. topic \in Seq(Messages) /\ Len(topic) \in Nat /\ DOMAIN topic = 1 .. Len(topic)
    BY DEF SimOK
  <1>2. CASE Foreign
    BY <1>1, <1>2, ServerGrows, ServerKept DEF Foreign
  <1>3. CASE Connect
    <2>1. Len(topic) \in 0 .. Len(topic) /\ NoOffset \notin 0 .. Len(topic)
      BY <1>1 DEF NoOffset
    <2> QED
      BY <1>3, <2>1 DEF Connect, ServerOK
  <1>4. CASE Consume
    <2>1. position \in 0 .. Len(topic) /\ position < Len(topic)
      BY <1>4 DEF Consume, Upcoming, Advance, ServerOK
    <2>2. position + 1 \in DOMAIN topic /\ position + 1 \in 0 .. Len(topic) /\ position + 1 # NoOffset
      BY <1>1, <2>1 DEF NoOffset
    <2>3. recorded' \in Seq(DOMAIN topic) /\ read' \subseteq DOMAIN topic
      <3>1. recorded' \in {recorded, Append(recorded, position + 1)}
            /\ read' \in {read, read \cup {position + 1}}
        BY <1>4 DEF Consume, Advance
      <3>2. recorded \in Seq(DOMAIN topic) /\ read \subseteq DOMAIN topic
        BY DEF ServerOK
      <3>3. Append(recorded, position + 1) \in Seq(DOMAIN topic)
        BY <2>2, <3>2, AppendSeq
      <3> QED
        BY <2>2, <3>1, <3>2, <3>3
    <2>4. /\ task = "consuming" /\ task' \in {"consuming", "broken"}
          /\ position' \in {position, position + 1}
          /\ UNCHANGED <<topic, main, signalled, committed, since>>
      BY <1>4 DEF Consume, Advance
    <2>5. position' \in 0 .. Len(topic) /\ position' # NoOffset
      BY <2>1, <2>2, <2>4 DEF NoOffset
    <2>6. main # "down"
      BY <2>4 DEF ServerOK
    <2> QED
      BY <2>3, <2>4, <2>5, <2>6 DEF ServerOK
  <1>5. CASE Commit
    BY <1>5 DEF Commit, ServerOK
  <1>6. CASE Boot
    <2>1. main' = "serving" /\ task' = "connecting" /\ signalled' \in BOOLEAN
      BY <1>6 DEF Boot
    <2>2. UNCHANGED <<topic, position, committed, recorded, since, read>>
      BY <1>6 DEF Boot
    <2> QED
      BY <2>1, <2>2 DEF ServerOK
  <1>7. CASE Unavailable \/ TaskFails
    BY <1>7 DEF Unavailable, TaskFails, ServerOK
  <1>8. CASE Signal \/ Wake \/ Awaited
    BY <1>8 DEF Signal, Wake, Awaited, TaskOver, ServerOK
  <1>9. CASE Down
    <2>1. /\ main' = "down" /\ task' = "none" /\ signalled' \in BOOLEAN /\ position' = NoOffset
          /\ UNCHANGED <<topic, committed, since, read>>
      BY <1>9 DEF Down
    <2>2. recorded' \in Seq(DOMAIN topic)
      BY <1>9 DEF Down
    <2> QED
      BY <2>1, <2>2 DEF ServerOK
  <1> QED
    BY <1>2, <1>3, <1>4, <1>5, <1>6, <1>7, <1>8, <1>9 DEF ServerNext, Ingesting, Stopping

LEMMA StepCases ==
    ASSUME [Next]_vars
    PROVE  \/ SimNext /\ UNCHANGED server
           \/ ServerNext /\ UNCHANGED simulator
           \/ UNCHANGED vars
  BY DEF Next

LEMMA NextType == TypeOK /\ [Next]_vars => TypeOK'
  <1> SUFFICES ASSUME SimOK, ServerOK, [Next]_vars PROVE SimOK' /\ ServerOK'
    BY TypeParts DEF TypeOK, SimOK, ServerOK
  <1>1. CASE SimNext /\ UNCHANGED server
    BY <1>1, SimGrows, SimType, ServerKept DEF SimOK
  <1>2. CASE ServerNext /\ UNCHANGED simulator
    <2>1. SimOK'
      BY <1>2, ServerGrows DEF SimOK, Grows, simulator
    <2> QED
      BY <1>2, <2>1, ServerType
  <1>3. CASE UNCHANGED vars
    BY <1>3 DEF vars, simulator, server, SimOK, ServerOK
  <1> QED
    BY <1>1, <1>2, <1>3, StepCases

\* Every reachable state has the declared shapes; in particular no offset, in
\* memory, committed or recorded, ever lies outside the topic.
THEOREM TypeCorrect == Spec => []TypeOK
  BY InitType, NextType, PTL DEF Spec

-----------------------------------------------------------------------------
(* nothing is committed unread                                             *)

\* A consumer has read everything from where the group began to its position.
ReadInv ==
    /\ committed # NoOffset => since + 1 .. committed \subseteq read
    /\ position # NoOffset => since + 1 .. position \subseteq read

LEMMA ReadNext == TypeOK /\ ReadInv /\ [Next]_vars => ReadInv'
  <1> SUFFICES ASSUME TypeOK, ReadInv, [Next]_vars PROVE ReadInv'
    OBVIOUS
  <1>1. /\ SimOK /\ ServerOK /\ Len(topic) \in Nat /\ since \in Nat
        /\ position \in {NoOffset} \cup Nat /\ committed \in {NoOffset} \cup Nat
    BY TypeParts DEF SimOK, ServerOK
  <1>2. ASSUME UNCHANGED <<since, committed, position, read>> PROVE ReadInv'
    BY <1>2 DEF ReadInv
  <1>3. CASE Connect
    <2>1. CASE committed = NoOffset
      <3>1. committed' = NoOffset /\ since' + 1 .. position' = {}
        BY <1>1, <1>3, <2>1 DEF Connect
      <3> QED
        BY <3>1 DEF ReadInv
    <2>2. CASE committed # NoOffset
      BY <1>3, <2>2 DEF Connect, ReadInv
    <2> QED
      BY <2>1, <2>2
  <1>4. CASE Consume
    <2>1. /\ position \in Nat /\ position # NoOffset /\ since' = since /\ committed' = committed
          /\ \/ position' = position + 1 /\ read' = read \cup {position + 1}
             \/ UNCHANGED <<position, read>>
      BY <1>1, <1>4 DEF Consume, Upcoming, Advance, ServerOK
    <2>2. since + 1 .. position + 1 \subseteq (since + 1 .. position) \cup {position + 1}
      BY <1>1, <2>1
    <2> QED
      BY <2>1, <2>2 DEF ReadInv
  <1>5. CASE Commit
    BY <1>1, <1>5 DEF Commit, ReadInv, ServerOK
  <1>6. CASE Down
    BY <1>6 DEF Down, ReadInv
  <1>7. CASE ServerNext /\ ~ (Connect \/ Consume \/ Commit \/ Down)
    BY <1>2, <1>7 DEF ServerNext, Foreign, server, Boot, Ingesting, Unavailable, TaskFails,
                      Signal, Stopping, Wake, Awaited
  <1>8. CASE UNCHANGED server
    BY <1>2, <1>8 DEF server
  <1> QED
    BY <1>3, <1>4, <1>5, <1>6, <1>7, <1>8, StepCases DEF vars

LEMMA ReadInit == Init => ReadInv
  BY DEF Init, ServerInit, ReadInv

\* The group's committed offset covers only messages that a server has read,
\* through any number of crashes and restarts: what a crash loses is memory,
\* never a message that nobody has seen.
THEOREM CommittedCorrect == Spec => []CommittedWasRead
  <1>1. ReadInv => CommittedWasRead
    BY DEF ReadInv, CommittedWasRead
  <1> QED
    BY <1>1, ReadInit, ReadNext, TypeCorrect, PTL DEF Spec

-----------------------------------------------------------------------------
(* what has left the coroutines                                            *)

OnWay == InTopic \cup Elements(buffer)
Gone  == OnWay \cup expired

\* A transaction that has left its coroutine is not the one it has in hand.
Behind(x) ==
    /\ x.number =< emitted[x.entity]
    /\ loops[x.entity] \in {"callback", "send"} => x.number < emitted[x.entity]

LEMMA TransactionType ==
    \A x \in Transactions : x.entity \in Entities /\ x.number \in Nat
  BY DEF Transactions

LEMMA OnWayType == SimOK => OnWay \subseteq Transactions /\ Gone \subseteq Transactions
  <1> SUFFICES ASSUME SimOK PROVE OnWay \subseteq Transactions /\ Gone \subseteq Transactions
    OBVIOUS
  <1>1. \A i \in DOMAIN buffer : buffer[i] \in Transactions
    BY DEF SimOK
  <1>2. \A i \in DOMAIN topic : topic[i] \in Transactions \cup Malformed
    BY DEF SimOK, Messages
  <1> QED
    BY <1>1, <1>2 DEF OnWay, Gone, InTopic, Elements, SimOK

\* Only Send adds to what has left the coroutines, and only the end of the
\* process and a delivery that fails take something away.
LEMMA GoneNext ==
    ASSUME SimOK, SimNext
    PROVE  /\ \/ Gone' = Gone
              \/ Exit /\ Gone' \subseteq Gone
              \/ \E e \in Entities : Send(e) /\ available /\ Gone' = Gone \cup {Current(e)}
           /\ \/ OnWay' \subseteq OnWay
              \/ \E e \in Entities : Send(e) /\ OnWay' \subseteq OnWay \cup {Current(e)}
  <1>1. InTopic = Elements(topic) \ Malformed /\ InTopic' = Elements(topic') \ Malformed
    BY DEF InTopic, Elements
  <1>2. topic \in Seq(Messages) /\ buffer \in Seq(Transactions)
    BY DEF SimOK
  <1>3. CASE Deliver
    <2>1. Head(buffer) \in Transactions /\ Elements(buffer) = Elements(Tail(buffer)) \cup {Head(buffer)}
      BY <1>2, <1>3, TailSeq DEF Deliver
    <2>2. Elements(topic') = Elements(topic) \cup {Head(buffer)}
      BY <1>2, <1>3, <2>1, AppendSeq DEF Deliver, Messages
    <2>3. Elements(buffer') = Elements(Tail(buffer)) /\ expired' = expired
      BY <1>3 DEF Deliver, faults
    <2> QED
      BY <1>1, <2>1, <2>2, <2>3, NotMalformed DEF OnWay, Gone
  <1>4. CASE Resend
    <2>1. buffer \in Seq(Messages)
      BY <1>2, SeqMonotone DEF Messages
    <2>2. PICK n \in DOMAIN buffer : topic' = topic \o SubSeq(buffer, 1, n)
      BY <1>4 DEF Resend
    <2>3. Elements(topic) \subseteq Elements(topic') /\ Elements(topic') \subseteq Elements(topic) \cup Elements(buffer)
      BY <1>2, <2>1, <2>2, ConcatSeq
    <2>4. expired' = expired /\ Elements(buffer') = Elements(buffer)
      BY <1>4 DEF Resend
    <2>5. Malformed \cap Elements(buffer) = {}
      BY <1>2, NotMalformed DEF Elements
    <2> QED
      BY <1>1, <2>3, <2>4, <2>5 DEF OnWay, Gone
  <1>5. CASE Expire
    <2>1. Elements(buffer) = Elements(Tail(buffer)) \cup {Head(buffer)}
      BY <1>2, <1>5, TailSeq DEF Expire
    <2>2. InTopic' = InTopic /\ Elements(buffer') = Elements(Tail(buffer))
          /\ expired' = expired \cup {Head(buffer)}
      BY <1>1, <1>5 DEF Expire
    <2> QED
      BY <2>1, <2>2 DEF OnWay, Gone
  <1>6. ASSUME NEW e \in Entities, Send(e)
        PROVE  \/ Gone' = Gone /\ OnWay' = OnWay
               \/ available /\ Gone' = Gone \cup {Current(e)} /\ OnWay' = OnWay \cup {Current(e)}
    <2>1. InTopic' = InTopic /\ expired' = expired
      BY <1>1, <1>6 DEF Send, faults
    <2>2. Current(e) \in Transactions
      BY <1>6 DEF Current, Transactions, Send, AtLoop, SimOK
    <2>3. CASE available /\ buffer' = Append(buffer, Current(e))
      <3>1. Elements(buffer') = Elements(buffer) \cup {Current(e)}
        BY <1>2, <2>2, <2>3, AppendSeq
      <3> QED
        BY <2>1, <2>3, <3>1 DEF OnWay, Gone
    <2>4. CASE buffer' = buffer
      BY <2>1, <2>4 DEF OnWay, Gone
    <2> QED
      BY <1>6, <2>3, <2>4 DEF Send
  <1>7. CASE Exit
    <2>1. Elements(buffer') = {} /\ InTopic' = InTopic /\ expired' = expired
      BY <1>1, <1>7 DEF Exit, faults, Elements
    <2> QED
      BY <1>7, <2>1 DEF OnWay, Gone
  <1>8. CASE UNCHANGED <<topic, buffer, expired>>
    BY <1>1, <1>8 DEF OnWay, Gone
  <1>9. \/ Deliver \/ Resend \/ Expire \/ Exit \/ UNCHANGED <<topic, buffer, expired>>
        \/ \E e \in Entities : Send(e)
    BY DEF SimNext, Background, StartRun, Timeout, Cancel, StopProducer,
           CallbackReturns, Emit, SendFails, faults
  <1> QED
    BY <1>3, <1>4, <1>5, <1>6, <1>7, <1>8, <1>9

\* A server's step adds no transaction.
LEMMA GoneKept ==
    ASSUME SimOK, ServerNext \/ UNCHANGED topic, UNCHANGED simulator
    PROVE  Gone' = Gone /\ OnWay' = OnWay
  <1>1. InTopic = Elements(topic) \ Malformed /\ InTopic' = Elements(topic') \ Malformed
    BY DEF InTopic, Elements
  <1>2. CASE Foreign
    <2>1. PICK m \in Malformed : topic' = Append(topic, m)
      BY <1>2 DEF Foreign
    <2>2. Elements(topic') = Elements(topic) \cup {m}
      BY <2>1, AppendSeq DEF SimOK, Messages
    <2> QED
      BY <1>1, <2>1, <2>2 DEF OnWay, Gone, simulator
  <1>3. CASE topic' = topic
    BY <1>1, <1>3 DEF OnWay, Gone, simulator
  <1>4. Foreign \/ topic' = topic
    BY DEF ServerNext, Boot, Ingesting, Connect, Consume, Unavailable, Commit, TaskFails,
           Signal, Stopping, Wake, Awaited, Down
  <1> QED
    BY <1>2, <1>3, <1>4

InHand == \A x \in Gone : Behind(x)

\* What has left is behind its coroutine, which only generates more.
LEMMA InHandNext ==
    ASSUME SimOK, InHand, SimNext
    PROVE  InHand'
  <1>1. /\ Gone \subseteq Transactions
        /\ emitted \in [Entities -> Nat]
        /\ \A x \in Gone : x.entity \in Entities /\ x.number \in Nat
    BY OnWayType, TransactionType DEF SimOK
  <1>2. ASSUME NEW x \in Gone,
               UNCHANGED emitted,
               loops'[x.entity] \in {"callback", "send"} => loops[x.entity] \in {"callback", "send"}
        PROVE  Behind(x)'
    BY <1>2 DEF InHand, Behind
  <1>3. ASSUME NEW e \in Entities, Emit(e), NEW x \in Gone PROVE Behind(x)'
    <2>1. /\ emitted' = [emitted EXCEPT ![e] = @ + 1] /\ loops[e] = "sleep"
          /\ \A y \in Entities : y # e => loops'[y] = loops[y]
      BY <1>3 DEF Emit, AtLoop, SimOK
    <2>2. Behind(x)
      BY DEF InHand
    <2>3. CASE x.entity = e
      BY <1>1, <2>1, <2>2, <2>3 DEF Behind
    <2>4. CASE x.entity # e
      BY <1>1, <2>1, <2>2, <2>4 DEF Behind
    <2> QED
      BY <2>3, <2>4
  <1>4. ASSUME NEW x \in Gone PROVE Behind(x)'
    <2>1. CASE \E e \in Entities : Emit(e)
      BY <1>3, <2>1
    <2>2. CASE \E e \in Entities : Send(e) \/ SendFails(e)
      BY <1>1, <1>2, <2>2 DEF Send, SendFails, AtLoop, SimOK
    <2>3. CASE StartRun \/ Timeout \/ Cancel \/ Exit
      BY <1>1, <1>2, <2>3 DEF StartRun, Timeout, Cancel, Exit, Cancelled
    <2>4. CASE \E y \in working : CallbackReturns(y)
      BY <1>1, <1>2, <2>4 DEF CallbackReturns, SimOK
    <2>5. CASE Deliver \/ StopProducer \/ Resend \/ Expire
      BY <1>2, <2>5 DEF Deliver, StopProducer, Resend, Expire
    <2> QED
      BY <2>1, <2>2, <2>3, <2>4, <2>5 DEF SimNext, Background
  <1>5. ASSUME NEW e \in Entities, Send(e) PROVE Behind(Current(e))'
    <2>1. emitted' = emitted /\ loops'[e] = "sleep" /\ emitted[e] \in Nat
      BY <1>5 DEF Send, AtLoop, SimOK
    <2>2. Current(e).entity = e /\ Current(e).number = emitted[e]
      BY DEF Current
    <2>3. Current(e)' = Current(e)
      BY <2>1 DEF Current
    <2> QED
      BY <2>1, <2>2, <2>3 DEF Behind
  <1>6. \A e \in Entities : Send(e) => Current(e)' = Current(e)
    BY DEF Send, Current
  <1> QED
    BY <1>4, <1>5, <1>6, GoneNext DEF InHand

-----------------------------------------------------------------------------
(* what is counted as sent                                                 *)

Halted == \A e \in Entities : loops[e] \in {"failed", "cancelled"}

SentInv ==
    /\ run # "exited" => IsFiniteSet(Gone) /\ Cardinality(Gone) = sent
    /\ run \in {"stopping", "stopped"} => Halted
    /\ run = "stopped" => buffer = << >>

LEMMA SentNext ==
    ASSUME SimOK, InHand, SentInv, SimNext
    PROVE  SentInv'
  <1>1. ASSUME run' # "exited" PROVE IsFiniteSet(Gone') /\ Cardinality(Gone') = sent'
    <2>1. run # "exited"
      BY <1>1 DEF SimNext, Background, StartRun, Resend, Expire, Timeout, Cancel, Exit,
                  Deliver, StopProducer, CallbackReturns, Emit, Send, SendFails
    <2>2. IsFiniteSet(Gone) /\ Cardinality(Gone) = sent
      BY <2>1 DEF SentInv
    <2>3. ASSUME NEW e \in Entities, Send(e), available, Gone' = Gone \cup {Current(e)}
          PROVE  IsFiniteSet(Gone') /\ Cardinality(Gone') = sent'
      <3>1. Current(e) \notin Gone
        <4>1. loops[e] = "send" /\ Current(e).entity = e /\ Current(e).number = emitted[e]
              /\ emitted[e] \in Nat
          BY <2>3 DEF Send, AtLoop, Current, SimOK
        <4> QED
          BY <4>1 DEF InHand, Behind
      <3>2. sent' = sent + 1
        BY <2>3 DEF Send
      <3> QED
        BY <2>2, <2>3, <3>1, <3>2, FS_AddElement
    <2>4. ASSUME Gone' = Gone, ~ \E e \in Entities : Send(e)
          PROVE  IsFiniteSet(Gone') /\ Cardinality(Gone') = sent'
      <3>1. sent' = sent
        BY <2>4 DEF SimNext, Background, StartRun, Resend, Expire, Timeout, Cancel, Exit,
                    Deliver, StopProducer, CallbackReturns, Emit, SendFails
      <3> QED
        BY <2>2, <2>4, <3>1
    <2>5. ASSUME NEW e \in Entities, Send(e), Gone' = Gone
          PROVE  IsFiniteSet(Gone') /\ Cardinality(Gone') = sent'
      <3>1. CASE sent' = sent
        BY <2>2, <2>5, <3>1
      <3>2. CASE sent' # sent
        <4>1. buffer' = Append(buffer, Current(e)) /\ Current(e) \in Transactions
              /\ loops[e] = "send" /\ emitted[e] \in Nat
          BY <2>5, <3>2 DEF Send, AtLoop, SimOK, Current, Transactions
        <4>2. Current(e) \in Gone
          BY <2>5, <4>1, AppendSeq DEF Gone, OnWay, SimOK
        <4> QED
          BY <4>1, <4>2 DEF InHand, Behind, Current
      <3> QED
        BY <3>1, <3>2
    <2>6. ~ Exit
      BY <1>1 DEF Exit
    <2> QED
      BY <2>3, <2>4, <2>5, <2>6, GoneNext
  <1>2. run' \in {"stopping", "stopped"} => Halted'
    <2>1. CASE Timeout
      <3>1. loops' = Cancelled
        BY <2>1 DEF Timeout
      <3> QED
        BY <3>1 DEF Halted, Cancelled
    <2>2. CASE run \in {"stopping", "stopped"} /\ ~ Exit
      <3>1. Halted
        BY <2>2 DEF SentInv
      <3>2. \A e \in Entities : ~ Emit(e) /\ ~ Send(e) /\ ~ SendFails(e)
        BY <3>1 DEF Halted, Emit, Send, SendFails, AtLoop
      <3>3. ASSUME NEW x \in working, CallbackReturns(x) PROVE Halted'
        BY <3>1, <3>3 DEF CallbackReturns, Halted, SimOK
      <3>4. CASE Deliver \/ StopProducer \/ Resend \/ Expire
        BY <3>1, <3>4 DEF Deliver, StopProducer, Resend, Expire, Halted
      <3>5. ~ StartRun /\ ~ Timeout /\ ~ Cancel
        BY <2>2 DEF StartRun, Timeout, Cancel
      <3> QED
        BY <2>2, <3>2, <3>3, <3>4, <3>5 DEF SimNext, Background
    <2>3. run' \in {"stopping", "stopped"} => Timeout \/ (run \in {"stopping", "stopped"} /\ ~ Exit)
      BY DEF SimNext, Background, StartRun, Resend, Expire, Timeout, Cancel, Exit,
             Deliver, StopProducer, CallbackReturns, Emit, Send, SendFails
    <2> QED
      BY <2>1, <2>2, <2>3
  <1>3. run' = "stopped" => buffer' = << >>
    <2>1. CASE StopProducer
      BY <2>1 DEF StopProducer
    <2>2. CASE run = "stopped"
      <3>1. buffer = << >> /\ Halted
        BY <2>2 DEF SentInv
      <3>2. \A e \in Entities : ~ Send(e)
        BY <3>1 DEF Halted, Send, AtLoop
      <3> QED
        BY <3>1, <3>2 DEF SimNext, Background, StartRun, Resend, Expire, Timeout, Cancel, Exit,
                          Deliver, StopProducer, CallbackReturns, Emit, SendFails
    <2>3. run' = "stopped" => StopProducer \/ run = "stopped"
      BY DEF SimNext, Background, StartRun, Resend, Expire, Timeout, Cancel, Exit,
             Deliver, CallbackReturns, Emit, Send, SendFails
    <2> QED
      BY <2>1, <2>2, <2>3
  <1> QED
    BY <1>1, <1>2, <1>3 DEF SentInv

-----------------------------------------------------------------------------
(* the callback                                                            *)

NewInv == run = "new" => working = {} /\ \A e \in Entities : loops[e] = "none"

\* A coroutine that sends has had its callback; an executor thread works for
\* the transaction that a coroutine waits with, if it has not been cancelled.
CalledInv ==
    callback =>
        /\ OnWay \subseteq called
        /\ \A e \in Entities : loops[e] = "send" => Current(e) \in called
        /\ \A x \in working : loops[x.entity] # "cancelled" =>
                                  loops[x.entity] = "callback" /\ x = Current(x.entity)

LEMMA NewNext == NewInv /\ SimNext => NewInv'
  <1> SUFFICES ASSUME NewInv, SimNext, run' = "new" PROVE NewInv'
    BY DEF NewInv
  <1>1. run = "new"
    BY DEF SimNext, Background, StartRun, Resend, Expire, Timeout, Cancel, Exit,
           Deliver, StopProducer, CallbackReturns, Emit, Send, SendFails
  <1>2. working = {} /\ \A e \in Entities : loops[e] = "none"
    BY <1>1 DEF NewInv
  <1>3. Deliver \/ Resend \/ Expire
    BY <1>1, <1>2 DEF SimNext, Background, StartRun, Timeout, Cancel, Exit,
                      StopProducer, Emit, Send, SendFails, AtLoop
  <1> QED
    BY <1>2, <1>3 DEF NewInv, Deliver, Resend, Expire

LEMMA CalledNext ==
    ASSUME SimOK, NewInv, CalledInv, SimNext
    PROVE  CalledInv'
  <1> SUFFICES ASSUME callback PROVE CalledInv'
    <2>1. callback' = callback
      BY DEF SimNext, Background, StartRun, Resend, Expire, Timeout, Cancel, Exit,
             Deliver, StopProducer, CallbackReturns, Emit, Send, SendFails
    <2> QED
      BY <2>1 DEF CalledInv
  <1>1. /\ OnWay \subseteq called
        /\ \A e \in Entities : loops[e] = "send" => Current(e) \in called
        /\ \A x \in working : loops[x.entity] # "cancelled" =>
                                  loops[x.entity] = "callback" /\ x = Current(x.entity)
    BY DEF CalledInv
  <1>2. \A x \in working : x.entity \in Entities
    BY TransactionType DEF SimOK
  <1>3. OnWay' \subseteq called'
    <2>1. called \subseteq called'
      BY DEF SimNext, Background, StartRun, Resend, Expire, Timeout, Cancel, Exit,
             Deliver, StopProducer, CallbackReturns, Emit, Send, SendFails
    <2>2. \A e \in Entities : Send(e) => Current(e) \in called
      BY <1>1 DEF Send, AtLoop
    <2> QED
      BY <1>1, <2>1, <2>2, GoneNext
  <1>4. CASE UNCHANGED <<loops, working, called, emitted>>
    BY <1>1, <1>3, <1>4 DEF CalledInv, Current
  <1>5. ASSUME loops' \in [Entities -> {"sleep", "failed", "cancelled"}],
               UNCHANGED <<called, emitted>>, working' = working,
               \A x \in working : loops'[x.entity] = "cancelled"
        PROVE  CalledInv'
    BY <1>2, <1>3, <1>5 DEF CalledInv
  <1>6. CASE Timeout \/ Cancel \/ Exit
    <2>1. loops' = Cancelled /\ working' = working /\ UNCHANGED <<called, emitted>>
      BY <1>6 DEF Timeout, Cancel, Exit
    <2>2. \A x \in working : loops'[x.entity] = "cancelled"
      BY <1>1, <1>2, <2>1 DEF Cancelled
    <2> QED
      BY <1>5, <2>1, <2>2 DEF Cancelled
  <1>7. CASE StartRun
    <2>1. loops' = [e \in Entities |-> "sleep"] /\ UNCHANGED <<called, emitted, working>>
          /\ working = {}
      BY <1>7 DEF StartRun, NewInv
    <2> QED
      BY <1>5, <2>1
  <1>8. ASSUME NEW e \in Entities, Emit(e) PROVE CalledInv'
    <2>1. /\ loops[e] = "sleep" /\ loops'[e] = "callback"
          /\ \A y \in Entities : y # e => loops'[y] = loops[y] /\ emitted'[y] = emitted[y]
          /\ working' = working \cup {Current(e)'} /\ called' = called
      BY <1>8 DEF Emit, AtLoop, SimOK
    <2>2. \A y \in Entities : y # e => Current(y)' = Current(y)
      BY <2>1 DEF Current
    <2>3. Current(e)'.entity = e
      BY DEF Current
    <2>4. \A x \in working : x.entity # e \/ loops[x.entity] # "sleep"
      BY <1>1
    <2> QED
      BY <1>1, <1>2, <1>3, <2>1, <2>2, <2>3, <2>4 DEF CalledInv
  <1>9. ASSUME NEW x \in working, CallbackReturns(x) PROVE CalledInv'
    <2>1. /\ working' = working \ {x} /\ called' = called \cup {x} /\ emitted' = emitted
          /\ loops' = [loops EXCEPT ![x.entity] = IF @ = "callback" THEN "send" ELSE @]
          /\ x.entity \in Entities
      BY <1>2, <1>9 DEF CallbackReturns
    <2>2. \A y \in Entities : Current(y)' = Current(y)
      BY <2>1 DEF Current
    <2>3. \A y \in Entities : y # x.entity => loops'[y] = loops[y]
      BY <2>1 DEF SimOK
    <2>4. loops'[x.entity] = IF loops[x.entity] = "callback" THEN "send" ELSE loops[x.entity]
      BY <2>1 DEF SimOK
    <2>5. \A e \in Entities : loops'[e] = "send" => Current(e)' \in called'
      BY <1>1, <2>1, <2>2, <2>3, <2>4
    <2>6. \A y \in working' : loops'[y.entity] # "cancelled" =>
                                  loops'[y.entity] = "callback" /\ y = Current(y.entity)'
      <3> SUFFICES ASSUME NEW y \in working', loops'[y.entity] # "cancelled"
                   PROVE  loops'[y.entity] = "callback" /\ y = Current(y.entity)'
        OBVIOUS
      <3>1. y \in working /\ y # x /\ y.entity \in Entities
        BY <1>2, <2>1
      <3>2. CASE y.entity # x.entity
        BY <1>1, <2>2, <2>3, <3>1, <3>2
      <3>3. CASE y.entity = x.entity
        BY <1>1, <2>4, <3>1, <3>3
      <3> QED
        BY <3>2, <3>3
    <2> QED
      BY <1>3, <2>5, <2>6 DEF CalledInv
  <1>10. ASSUME NEW e \in Entities, Send(e) \/ SendFails(e) PROVE CalledInv'
    <2>1. /\ loops[e] = "send" /\ loops'[e] \in {"sleep", "failed"}
          /\ \A y \in Entities : y # e => loops'[y] = loops[y]
          /\ UNCHANGED <<working, called, emitted>>
      BY <1>10 DEF Send, SendFails, AtLoop, SimOK
    <2>2. \A y \in Entities : Current(y)' = Current(y)
      BY <2>1 DEF Current
    <2>3. \A x \in working : x.entity # e
      BY <1>1, <2>1
    <2> QED
      BY <1>1, <1>2, <1>3, <2>1, <2>2, <2>3 DEF CalledInv
  <1>11. CASE Deliver \/ StopProducer \/ Resend \/ Expire
    BY <1>4, <1>11 DEF Deliver, StopProducer, Resend, Expire
  <1> QED
    BY <1>6, <1>7, <1>8, <1>9, <1>10, <1>11 DEF SimNext, Background

-----------------------------------------------------------------------------
(* the order of an entity's transactions                                   *)

Before(x, y) ==
    x \notin Malformed /\ y \notin Malformed /\ x.entity = y.entity => x.number < y.number

\* The topic continues in the accumulator.
Ordered ==
    /\ \A i, j \in DOMAIN topic  : i < j => Before(topic[i], topic[j])
    /\ \A i \in DOMAIN topic, j \in DOMAIN buffer : Before(topic[i], buffer[j])
    /\ \A i, j \in DOMAIN buffer : i < j => Before(buffer[i], buffer[j])

OrderInv == resent = 0 => Ordered

LEMMA OrderNext ==
    ASSUME SimOK, InHand, OrderInv, SimNext
    PROVE  OrderInv'
  <1> SUFFICES ASSUME resent' = 0 PROVE Ordered'
    BY DEF OrderInv
  <1>1. /\ resent = 0 /\ ~ Resend
        /\ topic \in Seq(Messages) /\ Len(topic) \in Nat /\ DOMAIN topic = 1 .. Len(topic)
        /\ buffer \in Seq(Transactions) /\ Len(buffer) \in Nat /\ DOMAIN buffer = 1 .. Len(buffer)
    <2>1. ~ Resend
      BY DEF Resend, SimOK
    <2>2. resent = 0
      BY <2>1 DEF SimNext, Background, StartRun, Expire, Timeout, Cancel, Exit,
                  Deliver, StopProducer, CallbackReturns, Emit, Send, SendFails, faults
    <2> QED
      BY <2>1, <2>2 DEF SimOK
  <1>2. Ordered
    BY <1>1 DEF OrderInv
  <1>3. CASE Deliver
    <2>1. /\ Head(buffer) = buffer[1] /\ Len(buffer) \in Nat \ {0}
          /\ Tail(buffer) \in Seq(Transactions) /\ Len(Tail(buffer)) = Len(buffer) - 1
          /\ \A i \in 1 .. Len(buffer) - 1 : Tail(buffer)[i] = buffer[i + 1]
      BY <1>1, <1>3, TailSeq DEF Deliver
    <2>2. buffer[1] \in Messages
      BY <1>1, <2>1 DEF Messages
    <2>3. /\ Append(topic, buffer[1]) \in Seq(Messages)
          /\ Len(Append(topic, buffer[1])) = Len(topic) + 1
          /\ \A i \in 1 .. Len(topic) : Append(topic, buffer[1])[i] = topic[i]
          /\ Append(topic, buffer[1])[Len(topic) + 1] = buffer[1]
      BY <1>1, <2>2, AppendSeq
    <2>4. /\ topic' = Append(topic, buffer[1]) /\ buffer' = Tail(buffer)
          /\ DOMAIN topic' = 1 .. Len(topic) + 1 /\ DOMAIN buffer' = 1 .. Len(buffer) - 1
      BY <1>3, <2>1, <2>3 DEF Deliver
    <2>5. /\ \A i \in 1 .. Len(topic) : topic'[i] = topic[i]
          /\ topic'[Len(topic) + 1] = buffer[1]
          /\ \A j \in DOMAIN buffer' : buffer'[j] = buffer[j + 1] /\ j + 1 \in DOMAIN buffer
          /\ 1 \in DOMAIN buffer
      BY <1>1, <2>1, <2>3, <2>4
    <2>6. ASSUME NEW i \in DOMAIN topic', NEW j \in DOMAIN topic', i < j
          PROVE  Before(topic'[i], topic'[j])
      <3>1. i \in DOMAIN topic /\ (j \in DOMAIN topic \/ j = Len(topic) + 1)
        BY <1>1, <2>4, <2>6
      <3> QED
        BY <1>1, <1>2, <2>5, <2>6, <3>1 DEF Ordered
    <2>7. ASSUME NEW i \in DOMAIN topic', NEW j \in DOMAIN buffer'
          PROVE  Before(topic'[i], buffer'[j])
      <3>1. i \in DOMAIN topic \/ i = Len(topic) + 1
        BY <1>1, <2>4
      <3>2. 1 < j + 1
        BY <2>1, <2>4
      <3> QED
        BY <1>1, <1>2, <2>5, <3>1, <3>2 DEF Ordered
    <2>8. ASSUME NEW i \in DOMAIN buffer', NEW j \in DOMAIN buffer', i < j
          PROVE  Before(buffer'[i], buffer'[j])
      <3>1. i + 1 < j + 1
        BY <2>1, <2>4, <2>8
      <3> QED
        BY <1>2, <2>5, <3>1 DEF Ordered
    <2> QED
      BY <2>6, <2>7, <2>8 DEF Ordered
  <1>4. CASE Expire
    <2>1. /\ Len(buffer) \in Nat \ {0}
          /\ Tail(buffer) \in Seq(Transactions) /\ Len(Tail(buffer)) = Len(buffer) - 1
          /\ \A i \in 1 .. Len(buffer) - 1 : Tail(buffer)[i] = buffer[i + 1]
          /\ topic' = topic /\ buffer' = Tail(buffer)
      BY <1>1, <1>4, TailSeq DEF Expire
    <2>2. DOMAIN buffer' = 1 .. Len(buffer) - 1
      BY <2>1
    <2>3. \A j \in DOMAIN buffer' : buffer'[j] = buffer[j + 1] /\ j + 1 \in DOMAIN buffer
      BY <1>1, <2>1, <2>2
    <2>4. \A i, j \in DOMAIN buffer' : i < j => i + 1 < j + 1
      BY <2>1, <2>2
    <2> QED
      BY <1>2, <2>1, <2>3, <2>4 DEF Ordered
  <1>5. ASSUME NEW e \in Entities, Send(e), buffer' # buffer
        PROVE  Ordered'
    <2>1. /\ Current(e) \in Transactions /\ loops[e] = "send"
          /\ Current(e).entity = e /\ Current(e).number = emitted[e] /\ emitted[e] \in Nat
      BY <1>5 DEF Send, AtLoop, Current, Transactions, SimOK
    <2>2. /\ buffer' = Append(buffer, Current(e)) /\ topic' = topic
          /\ Len(buffer') = Len(buffer) + 1
          /\ \A i \in 1 .. Len(buffer) : buffer'[i] = buffer[i]
          /\ buffer'[Len(buffer) + 1] = Current(e) /\ buffer' \in Seq(Transactions)
      BY <1>1, <1>5, <2>1, AppendSeq DEF Send
    <2>3. DOMAIN buffer' = 1 .. Len(buffer) + 1
      BY <2>2
    <2>4. ASSUME NEW x \in Gone PROVE Before(x, Current(e))
      BY <2>1, <2>4 DEF InHand, Behind, Before
    <2>5. ASSUME NEW i \in DOMAIN topic PROVE Before(topic[i], Current(e))
      <3>1. CASE topic[i] \in Malformed
        BY <3>1 DEF Before
      <3>2. CASE topic[i] \notin Malformed
        BY <2>4, <3>2 DEF Gone, OnWay, InTopic
      <3> QED
        BY <3>1, <3>2
    <2>6. ASSUME NEW i \in DOMAIN buffer PROVE Before(buffer[i], Current(e))
      BY <2>4 DEF Gone, OnWay, Elements
    <2>7. ASSUME NEW i \in DOMAIN topic', NEW j \in DOMAIN buffer'
          PROVE  Before(topic'[i], buffer'[j])
      <3>1. j \in DOMAIN buffer \/ j = Len(buffer) + 1
        BY <1>1, <2>3
      <3> QED
        BY <1>1, <1>2, <2>2, <2>5, <3>1 DEF Ordered
    <2>8. ASSUME NEW i \in DOMAIN buffer', NEW j \in DOMAIN buffer', i < j
          PROVE  Before(buffer'[i], buffer'[j])
      <3>1. i \in DOMAIN buffer /\ (j \in DOMAIN buffer \/ j = Len(buffer) + 1)
        BY <1>1, <2>3, <2>8
      <3> QED
        BY <1>1, <1>2, <2>2, <2>6, <2>8, <3>1 DEF Ordered
    <2> QED
      BY <1>2, <2>2, <2>7, <2>8 DEF Ordered
  <1>6. CASE UNCHANGED <<topic, buffer>>
    BY <1>2, <1>6 DEF Ordered
  <1>7. CASE Exit
    <2>1. topic' = topic /\ DOMAIN buffer' = {}
      BY <1>7 DEF Exit
    <2> QED
      BY <1>2, <2>1 DEF Ordered
  <1>8. \/ Deliver \/ Expire \/ Exit \/ UNCHANGED <<topic, buffer>>
        \/ \E e \in Entities : Send(e) /\ topic' = topic
    BY <1>1 DEF SimNext, Background, StartRun, Timeout, Cancel, StopProducer,
                CallbackReturns, Emit, Send, SendFails
  <1> QED
    BY <1>3, <1>4, <1>5, <1>6, <1>7, <1>8

LEMMA OrderKept ==
    ASSUME SimOK, OrderInv, ServerNext \/ UNCHANGED topic, UNCHANGED simulator
    PROVE  OrderInv'
  <1>1. CASE Foreign
    <2>1. PICK m \in Malformed :
             topic \in Seq(Messages) /\ topic' = Append(topic, m) /\ m \in Messages
      BY <1>1 DEF Foreign, SimOK, Messages
    <2>2. /\ Len(topic) \in Nat /\ topic' \in Seq(Messages) /\ Len(topic') = Len(topic) + 1
          /\ \A i \in 1 .. Len(topic) : topic'[i] = topic[i]
          /\ topic'[Len(topic) + 1] = m
      BY <2>1, AppendSeq
    <2>3. DOMAIN topic = 1 .. Len(topic) /\ DOMAIN topic' = 1 .. Len(topic) + 1
      BY <2>1, <2>2
    <2>4. \A i \in DOMAIN topic' : (i \in DOMAIN topic /\ topic'[i] = topic[i]) \/ topic'[i] \in Malformed
      BY <2>2, <2>3
    <2> QED
      BY <2>4 DEF OrderInv, Ordered, Before, simulator
  <1>2. CASE topic' = topic
    BY <1>2 DEF OrderInv, Ordered, simulator
  <1>3. Foreign \/ topic' = topic
    BY DEF ServerNext, Boot, Ingesting, Connect, Consume, Unavailable, Commit, TaskFails,
           Signal, Stopping, Wake, Awaited, Down
  <1> QED
    BY <1>1, <1>2, <1>3

\* The engine records at ever higher offsets, and never what is malformed.
RecordInv ==
    /\ task \in {"none", "connecting"} => recorded = << >>
    /\ \A i, j \in DOMAIN recorded : i < j => recorded[i] < recorded[j]
    /\ \A i \in DOMAIN recorded : recorded[i] =< position /\ topic[recorded[i]] \notin Malformed

LEMMA RecordNext ==
    ASSUME TypeOK, RecordInv, [Next]_vars
    PROVE  RecordInv'
  <1>1. /\ SimOK /\ ServerOK /\ Len(topic) \in Nat /\ DOMAIN topic = 1 .. Len(topic)
        /\ recorded \in Seq(DOMAIN topic) /\ (\A i \in DOMAIN recorded : recorded[i] \in DOMAIN topic)
    BY TypeParts DEF SimOK, ServerOK
  <1>2. Grows
    BY <1>1, StepCases, SimGrows, ServerGrows, TopicKept DEF vars
  <1>3. \A i \in DOMAIN recorded : topic'[recorded[i]] = topic[recorded[i]]
    BY <1>1, <1>2 DEF Grows
  <1>4. ASSUME UNCHANGED <<recorded, position>>, task' = task \/ task' \notin {"none", "connecting"}
        PROVE  RecordInv'
    BY <1>3, <1>4 DEF RecordInv
  <1>5. CASE Boot
    <2>1. recorded = << >> /\ UNCHANGED <<recorded, position>>
      BY <1>1, <1>5 DEF Boot, RecordInv, ServerOK
    <2> QED
      BY <2>1, <1>3 DEF RecordInv
  <1>6. CASE Connect
    <2>1. DOMAIN recorded' = {} /\ task' = "consuming"
      BY <1>6 DEF Connect, RecordInv
    <2> QED
      BY <2>1 DEF RecordInv
  <1>7. CASE Down
    <2>1. DOMAIN recorded' = {} /\ recorded' = << >>
      BY <1>7 DEF Down
    <2> QED
      BY <2>1 DEF RecordInv
  <1>8. CASE Consume
    <2>1. /\ position \in Nat /\ position' \in {position, position + 1} /\ topic' = topic
          /\ task' \in {"consuming", "broken"} /\ position + 1 \in DOMAIN topic
      BY <1>1, <1>8 DEF Consume, Upcoming, Advance, ServerOK
    <2>2. CASE recorded' = recorded
      BY <1>1, <2>1, <2>2 DEF RecordInv
    <2>3. CASE /\ topic[position + 1] \notin Malformed /\ position' = position + 1
               /\ recorded' = Append(recorded, position + 1)
      <3>1. /\ Len(recorded) \in Nat /\ recorded' \in Seq(DOMAIN topic)
            /\ Len(recorded') = Len(recorded) + 1
            /\ \A i \in 1 .. Len(recorded) : recorded'[i] = recorded[i]
            /\ recorded'[Len(recorded) + 1] = position + 1
        BY <1>1, <2>1, <2>3, AppendSeq
      <3>2. DOMAIN recorded' = 1 .. Len(recorded) + 1 /\ DOMAIN recorded = 1 .. Len(recorded)
        BY <1>1, <3>1
      <3>3. ASSUME NEW i \in DOMAIN recorded'
            PROVE  \/ i \in DOMAIN recorded /\ recorded'[i] = recorded[i]
                   \/ i = Len(recorded) + 1 /\ recorded'[i] = position + 1
        BY <3>1, <3>2
      <3>4. \A i \in DOMAIN recorded' : recorded'[i] =< position' /\ topic'[recorded'[i]] \notin Malformed
        BY <1>1, <2>1, <2>3, <3>3 DEF RecordInv
      <3>5. ASSUME NEW i \in DOMAIN recorded', NEW j \in DOMAIN recorded', i < j
            PROVE  recorded'[i] < recorded'[j]
        <4>1. i \in DOMAIN recorded /\ recorded'[i] = recorded[i]
          BY <3>1, <3>2, <3>5
        <4>2. CASE j \in DOMAIN recorded /\ recorded'[j] = recorded[j]
          BY <3>5, <4>1, <4>2 DEF RecordInv
        <4>3. CASE recorded'[j] = position + 1
          <5>1. recorded[i] =< position /\ recorded[i] \in Nat
            BY <1>1, <4>1 DEF RecordInv
          <5> QED
            BY <2>1, <4>1, <4>3, <5>1
        <4> QED
          BY <3>3, <4>2, <4>3
      <3> QED
        BY <2>1, <3>4, <3>5 DEF RecordInv
    <2> QED
      BY <1>8, <2>2, <2>3 DEF Consume, Upcoming, Advance
  <1>9. CASE ServerNext /\ ~ (Boot \/ Connect \/ Down \/ Consume)
    BY <1>4, <1>9 DEF ServerNext, Foreign, server, Ingesting, Unavailable, Commit, TaskFails,
                      Signal, Stopping, Wake, Awaited
  <1>10. CASE UNCHANGED server
    BY <1>4, <1>10 DEF server
  <1> QED
    BY <1>5, <1>6, <1>7, <1>8, <1>9, <1>10, StepCases DEF vars

-----------------------------------------------------------------------------
(* what is generated and not sent                                          *)

\* The coroutines that are past their sleep, or over.
Busy == {e \in Entities : loops[e] \notin {"none", "sleep"}}

UnsentInv ==
    /\ IsFiniteSet(Generated)
    /\ run = "new" => emitted = [e \in Entities |-> 0]
    /\ available => Cardinality(Generated) =< sent + Cardinality(Busy)

LEMMA BusyFinite ==
    /\ IsFiniteSet(Busy) /\ Cardinality(Busy) \in Nat
    /\ Cardinality(Busy) =< Cardinality(Entities) /\ Cardinality(Entities) \in Nat
  BY SimulatorAssumption, FS_Subset, FS_CardinalityType DEF Busy

\* A coroutine that becomes busy is one more; one that has sent is one less.
LEMMA BusyMore ==
    ASSUME Busy \subseteq Busy'
    PROVE  Cardinality(Busy) =< Cardinality(Busy')
  <1>1. Busy' \subseteq Entities
    BY DEF Busy
  <1>2. IsFiniteSet(Busy')
    BY <1>1, SimulatorAssumption, FS_Subset
  <1> QED
    BY <1>2, FS_Subset

LEMMA NothingGenerated ==
    (\A e \in Entities : emitted[e] = 0) => IsFiniteSet(Generated) /\ Cardinality(Generated) = 0
  <1> SUFFICES ASSUME \A e \in Entities : emitted[e] = 0
               PROVE  IsFiniteSet(Generated) /\ Cardinality(Generated) = 0
    OBVIOUS
  <1>1. Generated = {}
    BY DEF Generated
  <1> QED
    BY <1>1, FS_EmptySet

LEMMA UnsentNext ==
    ASSUME SimOK, NewInv, UnsentInv, SimNext
    PROVE  UnsentInv'
  <1>1. /\ emitted \in [Entities -> Nat] /\ sent \in Nat
        /\ IsFiniteSet(Generated) /\ Cardinality(Generated) \in Nat
        /\ DOMAIN loops = Entities
    BY FS_CardinalityType DEF SimOK, UnsentInv
  <1>2. Cardinality(Busy) \in Nat
    BY BusyFinite
  \* nothing is generated or sent, and no coroutine is back at its sleep
  <1>3. ASSUME UNCHANGED <<available, emitted, sent>>, run' = run \/ run' # "new",
               Busy \subseteq Busy'
        PROVE  UnsentInv'
    <2>1. Generated' = Generated
      BY <1>3 DEF Generated
    <2>2. Cardinality(Busy) =< Cardinality(Busy') /\ Cardinality(Busy') \in Nat
      <3>1. Busy' \subseteq Entities
        BY DEF Busy
      <3>2. IsFiniteSet(Busy')
        BY <3>1, SimulatorAssumption, FS_Subset
      <3> QED
        BY <1>3, <3>2, BusyMore, FS_CardinalityType
    <2>3. available' => Cardinality(Generated) =< sent + Cardinality(Busy')
      BY <1>1, <1>2, <1>3, <2>2 DEF UnsentInv
    <2> QED
      BY <1>1, <1>3, <2>1, <2>3 DEF UnsentInv
  <1>4. CASE StartRun
    <2>1. \A e \in Entities : emitted'[e] = 0
      BY <1>4 DEF StartRun, UnsentInv
    <2>2. IsFiniteSet(Generated) /\ Cardinality(Generated) = 0 /\ Generated' = Generated
      BY <1>4, <2>1, NothingGenerated DEF StartRun, Generated
    <2>3. run' # "new" /\ sent' = sent
      BY <1>4 DEF StartRun
    <2>4. Cardinality(Busy') \in Nat
      <3>1. Busy' \subseteq Entities
        BY DEF Busy
      <3> QED
        BY <3>1, SimulatorAssumption, FS_Subset, FS_CardinalityType
    <2>5. Cardinality(Generated') =< sent' + Cardinality(Busy')
      BY <1>1, <2>2, <2>3, <2>4
    <2> QED
      BY <2>2, <2>3, <2>5 DEF UnsentInv
  <1>5. ASSUME NEW e \in Entities, Emit(e) PROVE UnsentInv'
    <2> DEFINE x == [entity |-> e, number |-> emitted[e] + 1]
    <2>1. /\ emitted' = [emitted EXCEPT ![e] = @ + 1]
          /\ loops[e] = "sleep" /\ \E to \in {"callback", "send"} : loops' = [loops EXCEPT ![e] = to]
          /\ UNCHANGED <<run, available, sent>>
      BY <1>5 DEF Emit, AtLoop
    <2>2. Generated' = Generated \cup {x}
      <3>1. \A d \in Entities :
              {[entity |-> d, number |-> n] : n \in 1 .. emitted'[d]} =
                {[entity |-> d, number |-> n] : n \in 1 .. emitted[d]}
                  \cup (IF d = e THEN {x} ELSE {})
        <4> TAKE d \in Entities
        <4>1. CASE d = e
          <5>1. 1 .. emitted'[d] = (1 .. emitted[d]) \cup {emitted[d] + 1}
            BY <1>1, <2>1, <4>1
          <5> QED
            BY <4>1, <5>1
        <4>2. CASE d # e
          BY <1>1, <2>1, <4>2
        <4> QED
          BY <4>1, <4>2
      <3> QED
        BY <3>1 DEF Generated
    <2>3. x \notin Generated
      <3> SUFFICES ASSUME NEW d \in Entities, NEW n \in 1 .. emitted[d],
                          x = [entity |-> d, number |-> n]
                   PROVE  FALSE
        BY DEF Generated
      <3>1. x.entity = d /\ x.number = n /\ x.entity = e /\ x.number = emitted[e] + 1
        <4>1. x.entity = e /\ x.number = emitted[e] + 1
          OBVIOUS
        <4> HIDE DEF x
        <4> QED
          BY <4>1
      <3> QED
        BY <1>1, <3>1
    <2>4. IsFiniteSet(Generated') /\ Cardinality(Generated') = Cardinality(Generated) + 1
      BY <1>1, <2>2, <2>3, FS_AddElement
    <2>5. Busy' = Busy \cup {e} /\ e \notin Busy
      BY <1>1, <2>1 DEF Busy
    <2>6. Cardinality(Busy') = Cardinality(Busy) + 1
      BY <2>5, BusyFinite, FS_AddElement
    <2>7. run' # "new"
      BY <2>1 DEF NewInv
    <2>8. available' => Cardinality(Generated') =< sent' + Cardinality(Busy')
      BY <1>1, <1>2, <2>1, <2>4, <2>6 DEF UnsentInv
    <2> QED
      BY <2>4, <2>7, <2>8 DEF UnsentInv
  <1>6. ASSUME NEW e \in Entities, Send(e) PROVE UnsentInv'
    <2>1. /\ UNCHANGED <<run, available, emitted>> /\ (available => sent' = sent + 1)
          /\ loops[e] = "send" /\ loops' = [loops EXCEPT ![e] = "sleep"]
      BY <1>6 DEF Send, AtLoop
    <2>2. Busy' = Busy \ {e} /\ e \in Busy
      BY <1>1, <2>1 DEF Busy
    <2>3. Cardinality(Busy') = Cardinality(Busy) - 1
      BY <2>2, BusyFinite, FS_RemoveElement
    <2>4. Generated' = Generated
      BY <2>1 DEF Generated
    <2>5. available' => Cardinality(Generated') =< sent' + Cardinality(Busy')
      BY <1>1, <1>2, <2>1, <2>3, <2>4 DEF UnsentInv
    <2> QED
      BY <2>1, <2>4, <2>5 DEF UnsentInv
  <1>7. ASSUME NEW e \in Entities, SendFails(e) PROVE UnsentInv'
    <2>1. Busy \subseteq Busy'
      BY <1>1, <1>7 DEF SendFails, AtLoop, Busy
    <2> QED
      BY <1>3, <1>7, <2>1 DEF SendFails
  <1>8. ASSUME NEW x \in working, CallbackReturns(x) PROVE UnsentInv'
    <2>1. Busy \subseteq Busy'
      BY <1>1, <1>8 DEF CallbackReturns, Busy
    <2> QED
      BY <1>3, <1>8, <2>1 DEF CallbackReturns
  <1>9. CASE Timeout \/ Cancel \/ Exit
    <2>1. Busy \subseteq Busy'
      BY <1>9 DEF Timeout, Cancel, Exit, Cancelled, Busy
    <2> QED
      BY <1>3, <1>9, <2>1 DEF Timeout, Cancel, Exit
  <1>10. CASE Deliver \/ Resend \/ Expire \/ StopProducer
    <2>1. Busy' = Busy
      BY <1>10 DEF Deliver, Resend, Expire, StopProducer, Busy
    <2> QED
      BY <1>3, <1>10, <2>1 DEF Deliver, Resend, Expire, StopProducer
  <1> QED
    BY <1>4, <1>5, <1>6, <1>7, <1>8, <1>9, <1>10 DEF SimNext, Background

-----------------------------------------------------------------------------
(* the theorems                                                            *)

StreamInv ==
    InHand /\ SentInv /\ NewInv /\ UnsentInv /\ CalledInv /\ OrderInv /\ RecordInv

LEMMA StreamInit == Init => StreamInv
  <1> SUFFICES ASSUME Init PROVE StreamInv
    OBVIOUS
  <1>1. DOMAIN topic = {} /\ DOMAIN buffer = {} /\ DOMAIN recorded = {} /\ expired = {}
    BY DEF Init, SimInit, ServerInit
  <1>2. OnWay = {} /\ Gone = {}
    BY <1>1 DEF OnWay, Gone, InTopic, Elements
  <1>3. InHand /\ NewInv /\ OrderInv /\ RecordInv
    BY <1>1, <1>2 DEF InHand, NewInv, OrderInv, Ordered, RecordInv, Init, SimInit, ServerInit
  <1>4. IsFiniteSet(Gone) /\ Cardinality(Gone) = 0
    BY <1>2, FS_EmptySet
  <1>5. SentInv
    BY <1>4 DEF SentInv, Init, SimInit
  <1>6. CalledInv
    BY <1>2 DEF CalledInv, Init, SimInit
  <1>7. UnsentInv
    <2>1. \A e \in Entities : emitted[e] = 0
      BY DEF Init, SimInit
    <2>2. ~ available
      BY DEF Init, SimInit
    <2> QED
      BY <2>1, <2>2, NothingGenerated DEF UnsentInv, Init, SimInit
  <1> QED
    BY <1>3, <1>5, <1>6, <1>7 DEF StreamInv

LEMMA StreamNext == TypeOK /\ StreamInv /\ [Next]_vars => StreamInv'
  <1> SUFFICES ASSUME TypeOK, StreamInv, [Next]_vars PROVE StreamInv'
    OBVIOUS
  <1>1. SimOK
    BY TypeParts
  <1>2. RecordInv'
    BY RecordNext DEF StreamInv
  <1>3. CASE SimNext
    BY <1>1, <1>2, <1>3, InHandNext, SentNext, NewNext, UnsentNext, CalledNext,
       OrderNext DEF StreamInv
  <1>4. CASE (ServerNext \/ UNCHANGED topic) /\ UNCHANGED simulator
    <2>1. Gone' = Gone /\ OnWay' = OnWay /\ OrderInv'
      BY <1>1, <1>4, GoneKept, OrderKept DEF StreamInv
    <2>2. UNCHANGED <<run, loops, callback, available, working, called, emitted, sent, buffer>>
      BY <1>4 DEF simulator
    <2>3. InHand'
      BY <2>1, <2>2 DEF StreamInv, InHand, Behind
    <2>4. SentInv'
      BY <2>1, <2>2 DEF StreamInv, SentInv, Halted
    <2>5. NewInv' /\ CalledInv'
      BY <2>1, <2>2 DEF StreamInv, NewInv, CalledInv, Current
    <2>6. UnsentInv'
      BY <2>2 DEF StreamInv, UnsentInv, Generated, Busy
    <2> QED
      BY <1>2, <2>1, <2>3, <2>4, <2>5, <2>6 DEF StreamInv
  <1> QED
    BY <1>3, <1>4, StepCases DEF vars

LEMMA StreamCorrect == Spec => []StreamInv
  BY StreamInit, StreamNext, TypeCorrect, PTL DEF Spec

\* Without repeated deliveries the engine records an entity's transactions in
\* the order in which its coroutine generated them, none twice, through any
\* interleaving of the coroutines, failed deliveries, crashes and restarts.
THEOREM OrderCorrect == Spec => []EntityOrder
  <1>1. TypeOK /\ StreamInv => EntityOrder
    <2> SUFFICES ASSUME TypeOK, StreamInv, resent = 0,
                        NEW i \in DOMAIN recorded, NEW j \in DOMAIN recorded, i < j,
                        topic[recorded[i]].entity = topic[recorded[j]].entity
                 PROVE  topic[recorded[i]].number < topic[recorded[j]].number
      BY DEF EntityOrder
    <2>1. recorded[i] \in DOMAIN topic /\ recorded[j] \in DOMAIN topic
      BY DEF TypeOK
    <2>2. recorded[i] < recorded[j] /\ topic[recorded[i]] \notin Malformed /\ topic[recorded[j]] \notin Malformed
      BY DEF StreamInv, RecordInv
    <2>3. Ordered
      BY DEF StreamInv, OrderInv
    <2> QED
      BY <2>1, <2>2, <2>3 DEF Ordered, Before
  <1> QED
    BY <1>1, StreamCorrect, TypeCorrect, PTL

\* A run that has ended because its time was over has left nothing it counts
\* as sent in the accumulator, whatever the coroutines were doing when they
\* were cancelled.
THEOREM SentCorrect == Spec => []SentDelivered
  <1>1. StreamInv => SentDelivered
    <2> SUFFICES ASSUME StreamInv, run = "stopped"
                 PROVE  Cardinality(InTopic \cup expired) = sent
      BY DEF SentDelivered
    <2>1. buffer = << >> /\ Cardinality(Gone) = sent
      BY DEF StreamInv, SentInv
    <2>2. Gone = InTopic \cup expired
      BY <2>1 DEF Gone, OnWay, Elements
    <2> QED
      BY <2>1, <2>2
  <1> QED
    BY <1>1, StreamCorrect, PTL

\* With on_transaction, nothing reaches the producer before the callback has
\* returned for it: also not a transaction whose coroutine was cancelled while
\* an executor thread was still calling.
THEOREM CalledCorrect == Spec => []CalledBeforeSent
  <1>1. StreamInv => CalledBeforeSent
    BY DEF StreamInv, CalledInv, CalledBeforeSent, OnWay, Elements
  <1> QED
    BY <1>1, StreamCorrect, PTL

\* Of what the coroutines have generated, at most one transaction each is
\* neither sent nor about to be, through failures of the producer, the end of
\* the run, Ctrl-C, and callbacks that return after their coroutine is gone.
THEOREM UnsentCorrect == Spec => []OneUnsentEach
  <1>1. TypeOK /\ StreamInv => OneUnsentEach
    <2> SUFFICES ASSUME TypeOK, StreamInv, available
                 PROVE  Cardinality(Generated) - sent =< Cardinality(Entities)
      BY DEF OneUnsentEach
    <2>1. Cardinality(Generated) \in Nat /\ Cardinality(Generated) =< sent + Cardinality(Busy)
      BY FS_CardinalityType DEF StreamInv, UnsentInv
    <2>2. sent \in Nat
      BY DEF TypeOK
    <2> QED
      BY <2>1, <2>2, BusyFinite
  <1> QED
    BY <1>1, StreamCorrect, TypeCorrect, PTL
=============================================================================

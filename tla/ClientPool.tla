------------------------------ MODULE ClientPool ------------------------------
(***************************************************************************)
(* InferenceClient (inference_engine/client.py): a queue of channels that  *)
(* application threads share.  A call takes a channel with _pool.get(),    *)
(* which blocks, and puts it back in a finally clause.  stream_predict is  *)
(* a generator: it keeps its channel while its caller iterates, so that a  *)
(* caller that predicts inside the loop holds one channel and waits for    *)
(* another.  close() empties the queue and closes what it finds there.     *)
(*                                                                         *)
(* Left out: the requests and the answers; the server (InferenceServer);   *)
(* AsyncInferenceClient, which has one channel and no pool.                *)
(***************************************************************************)
EXTENDS Integers, Sequences, FiniteSets

LOCAL INSTANCE FiniteSetsExt

CONSTANTS
    PoolSize,    \* pool_size
    Threads,     \* application threads
    Depth,       \* Depth[t]: how many calls of thread t may be open at once
    Closers      \* threads that call close()

ASSUME PoolAssumption ==
    /\ PoolSize \in Nat
    /\ Depth \in [Threads -> Nat \ {0}]

Channels == 1 .. PoolSize

VARIABLES
    pool,        \* _pool
    waiting,     \* threads blocked in _pool.get()
    held,        \* the channels of a thread's open calls, the innermost first
    calling,     \* threads whose innermost call is a unary one
    closed,      \* channels that close() has closed
    closing,     \* where a closer is in close()
    overlapped   \* history: was a call open during a close(), or begun later?

vars == <<pool, waiting, held, calling, closed, closing, overlapped>>

Init ==
    /\ pool = [i \in 1 .. PoolSize |-> i]
    /\ waiting = {} /\ calling = {} /\ closed = {}
    /\ held = [t \in Threads |-> << >>]
    /\ closing = [c \in Closers |-> "open"]
    /\ overlapped = FALSE

CloseBegun == \E c \in Closers : closing[c] # "open"

\* A call begins.  A thread inside a unary call begins no other; one that
\* iterates over a stream may.
Ask(t) ==
    /\ t \notin waiting \cup calling /\ Len(held[t]) < Depth[t]
    /\ waiting' = waiting \cup {t}
    /\ overlapped' = (overlapped \/ CloseBegun)
    /\ UNCHANGED <<pool, held, calling, closed, closing>>

Take(t) ==
    /\ t \in waiting /\ pool # << >>
    /\ waiting' = waiting \ {t}
    /\ pool' = Tail(pool)
    /\ held' = [held EXCEPT ![t] = <<Head(pool)>> \o @]
    /\ UNCHANGED <<closed, closing, overlapped>>

\* predict, batch_predict and health
TakeUnary(t) == Take(t) /\ calling' = calling \cup {t}

\* stream_predict
TakeStream(t) == Take(t) /\ UNCHANGED calling

\* Mutant of PutBack: without finally, a call that fails keeps its channel.
PutBackUnlessFailed(t) ==
    /\ t \notin waiting /\ held[t] # << >>
    /\ pool' \in {pool, Append(pool, Head(held[t]))}
    /\ held' = [held EXCEPT ![t] = Tail(@)]
    /\ UNCHANGED <<waiting, closed, closing, overlapped>>

\* Mutant of PutBack: an except clause that puts the channel back as well.
PutBackTwice(t) ==
    /\ t \notin waiting /\ held[t] # << >>
    /\ pool' \in {pool \o <<Head(held[t])>>, pool \o <<Head(held[t]), Head(held[t])>>}
    /\ held' = [held EXCEPT ![t] = Tail(@)]
    /\ UNCHANGED <<waiting, closed, closing, overlapped>>

\* The finally clause of _stub, whatever ended the call.
PutBack(t) ==
    /\ t \notin waiting /\ held[t] # << >>
    /\ pool' = Append(pool, Head(held[t]))
    /\ held' = [held EXCEPT ![t] = Tail(@)]
    /\ UNCHANGED <<waiting, closed, closing, overlapped>>

\* A unary call is answered, fails or reaches its deadline.
EndUnary(t) == t \in calling /\ PutBack(t) /\ calling' = calling \ {t}

\* The innermost stream ends or fails, or its generator is dropped.
EndStream(t) == t \notin calling /\ PutBack(t) /\ UNCHANGED calling

-----------------------------------------------------------------------------
(* close()                                                                 *)

AtClose(c, from, to) == closing[c] = from /\ closing' = [closing EXCEPT ![c] = to]

CloseBegin(c) ==
    /\ AtClose(c, "open", "check")
    /\ overlapped' = (overlapped \/ CloseBegun \/ waiting # {}
                        \/ \E t \in Threads : held[t] # << >>)
    /\ UNCHANGED <<pool, waiting, held, calling, closed>>

\* while not self._pool.empty()
CloseCheck(c) ==
    /\ AtClose(c, "check", IF pool = << >> THEN "done" ELSE "pop")
    /\ UNCHANGED <<pool, waiting, held, calling, closed, overlapped>>

\* Mutant of ClosePop: one channel instead of all of them.
ClosePopOnce(c) ==
    /\ \/ /\ pool # << >> /\ AtClose(c, "pop", "done")
          /\ closed' = closed \cup {Head(pool)}
          /\ pool' = Tail(pool)
       \/ /\ pool = << >> /\ AtClose(c, "pop", "raised")
          /\ UNCHANGED <<pool, closed>>
    /\ UNCHANGED <<waiting, held, calling, overlapped>>

\* get_nowait, which raises Empty when a call has taken the last channel
\* since empty() was asked; then ch.close().
ClosePop(c) ==
    /\ \/ /\ pool # << >> /\ AtClose(c, "pop", "check")
          /\ closed' = closed \cup {Head(pool)}
          /\ pool' = Tail(pool)
       \/ /\ pool = << >> /\ AtClose(c, "pop", "raised")
          /\ UNCHANGED <<pool, closed>>
    /\ UNCHANGED <<waiting, held, calling, overlapped>>

-----------------------------------------------------------------------------
Close(c) == CloseBegin(c) \/ CloseCheck(c) \/ ClosePop(c)

Next ==
    \/ \E t \in Threads : \/ Ask(t) \/ TakeUnary(t) \/ TakeStream(t)
                          \/ EndUnary(t) \/ EndStream(t)
    \/ \E c \in Closers : Close(c)

\* Threads are scheduled; unary calls have a deadline; a caller reads its
\* stream to the end or drops it.  Nobody has to call.
Fairness ==
    /\ \A t \in Threads : /\ WF_vars(TakeUnary(t) \/ TakeStream(t))
                          /\ WF_vars(EndUnary(t)) /\ WF_vars(EndStream(t))
    /\ \A c \in Closers : WF_vars(CloseCheck(c)) /\ WF_vars(ClosePop(c))

Spec == Init /\ [][Next]_vars /\ Fairness

-----------------------------------------------------------------------------
\* The shapes of the variables: the queue never grows beyond the pool, and no
\* thread has more calls open than it may.
TypeOK ==
    /\ pool \in Seq(Channels) /\ Len(pool) =< PoolSize
    /\ waiting \subseteq Threads /\ calling \subseteq Threads \ waiting
    /\ held \in [Threads -> Seq(Channels)]
    /\ \A t \in Threads : /\ Len(held[t]) =< Depth[t]
                          /\ t \in waiting => Len(held[t]) < Depth[t]
                          /\ t \in calling => held[t] # << >>
    /\ closed \subseteq Channels
    /\ closing \in [Closers -> {"open", "check", "pop", "done", "raised"}]
    /\ overlapped \in BOOLEAN

ElementsOf(s) == {s[i] : i \in DOMAIN s}
NoRepeats(s)  == \A i, j \in DOMAIN s : i # j => s[i] # s[j]

\* Every channel is in exactly one place: the queue, one open call of one
\* thread, or closed.  No two calls share a channel, no call has a closed one,
\* none is lost to a call that failed, and close() closes none twice.
ChannelsConserved ==
    /\ NoRepeats(pool) /\ \A t \in Threads : NoRepeats(held[t])
    /\ \A t, u \in Threads : t # u => ElementsOf(held[t]) \cap ElementsOf(held[u]) = {}
    /\ \A t \in Threads : ElementsOf(held[t]) \cap (ElementsOf(pool) \cup closed) = {}
    /\ ElementsOf(pool) \cap closed = {}
    /\ ElementsOf(pool) \cup closed \cup UNION {ElementsOf(held[t]) : t \in Threads} = Channels

\* When no call is open during close() and none begins afterwards, as on
\* leaving a with block, close() returns, without Empty, and every channel the
\* client ever opened is closed: none was lost in a call that failed.
QuietCloseComplete ==
    ~ overlapped => \A c \in Closers : /\ closing[c] # "raised"
                                       /\ closing[c] = "done" => closed = Channels

\* The channels that threads may hold while they wait for another.
Nesting == MapThenSumSet(LAMBDA t : Depth[t] - 1, Threads)

\* The pool does not seize up: as long as nobody calls close(), a caller who
\* waits for a channel sees one come back, provided that there are more
\* channels than open streams around nested calls can take.
ChannelComesBack ==
    Nesting < PoolSize =>
        \A t \in Threads : t \in waiting ~> (t \notin waiting \/ pool # << >> \/ CloseBegun)
=============================================================================

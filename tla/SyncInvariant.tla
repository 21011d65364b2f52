--------------------------- MODULE SyncInvariant ---------------------------
(***************************************************************************)
(* The inductive invariant of SyncServer.  At its core is where a call is: *)
(* a thread that has called is in one place only, as a packet to the MCP,  *)
(* in one queue of the server or as the answer, and what is found there    *)
(* belongs to the call it is making.                                       *)
(***************************************************************************)
EXTENDS SyncServer

CallOf(t) == script[t][pc[t]]
Calling(t, op) == mode[t] = "RESPONSE" /\ CallOf(t).op = op

\* Where thread t can be.
Asked(t) == toMcp[t] # <<>>
Got(t, kind) == ms.mail[t][kind] # <<>>
AtMutex(t) == \E m \in DOMAIN mutexes : t \in Range(mutexes[m].waiting)
AtCond(t) == \E c \in DOMAIN conds : \E w \in Range(conds[c]) : w.core = t
AtBarrier(t) == \E b \in DOMAIN barriers : t \in Range(barriers[b].waiting)
InLoop(t) == \E w \in Range(waking.left) : w.core = t
Kept(t) ==
  \/ AtMutex(t) \/ AtCond(t) \/ AtBarrier(t) \/ InLoop(t)
  \/ t \in waking.woken \/ t = waking.by \/ t \in ms.acquired

\* It is in one of these places, and there once.
InOnePlace(t) ==
  /\ Len(toMcp[t]) <= 1 /\ \A k \in Kinds : Len(ms.mail[t][k]) <= 1
  /\ Asked(t) => ~ Kept(t) /\ \A k \in Kinds : ~ Got(t, k)
  /\ \A k \in Kinds : Got(t, k) => ~ Kept(t)
  /\ AtMutex(t) => ~ AtCond(t) /\ ~ InLoop(t) /\ t \notin waking.woken
  /\ AtCond(t) => ~ InLoop(t) /\ t \notin waking.woken
  /\ InLoop(t) => t \notin waking.woken

CoresDiffer(waiters) == \A i, j \in DOMAIN waiters : waiters[i].core = waiters[j].core => i = j
OncePerQueue ==
  /\ \A m \in DOMAIN mutexes : IsInjective(mutexes[m].waiting)
  /\ \A c \in DOMAIN conds : CoresDiffer(conds[c])
  /\ \A b \in DOMAIN barriers : IsInjective(barriers[b].waiting)
  /\ CoresDiffer(waking.left)

\* The objects that the application has a handle of are there, and so are
\* those that thread t's call names.
Exists(kind, v) ==
  CASE kind = "mutex" -> v \in DOMAIN mutexes
    [] kind = "barrier" -> v \in DOMAIN barriers
    [] OTHER -> v \in DOMAIN conds
HandlesKnown == \A h \in handles : Exists(h[1], h[2])
CallKnown(t) ==
  mode[t] = "RESPONSE" =>
    LET c == CallOf(t)
    IN  /\ pc[t] \in DOMAIN script[t] /\ c.op \in Ops
        /\ Makes(c) \/ Exists(ObjectKind(c.op), c.obj)
        /\ c.op = "COND_WAIT" => c.mux \in DOMAIN mutexes

\* A packet to the MCP is the request of the call the thread makes.
RequestFits(t) ==
  Asked(t) =>
    LET r == Head(toMcp[t])
    IN  /\ r.time = clk[t]
        /\ \/ /\ mode[t] = "RESPONSE"
              /\ r.op = CallOf(t).op /\ r.obj = CallOf(t).obj /\ r.mux = CallOf(t).mux
           \/ mode[t] = "SYSTEM_RESPONSE" /\ r.op = "CLOCK_SKEW"
           \/ mode[t] = "EXIT_REPLY" /\ r.op = "EXIT"

\* A thread in a queue waits for the queue's object.
QueuesFit(t) ==
  /\ \A m \in DOMAIN mutexes :
       t \in Range(mutexes[m].waiting) => mode[t] = "RESPONSE" /\ m \in Obtained(CallOf(t))
  /\ \A c \in DOMAIN conds : \A w \in Range(conds[c]) :
       w.core = t => Calling(t, "COND_WAIT") /\ CallOf(t).obj = c /\ CallOf(t).mux = w.mutex
  /\ \A w \in Range(waking.left) :
       w.core = t => Calling(t, "COND_WAIT") /\ CallOf(t).mux = w.mutex
  /\ t \in waking.woken => Calling(t, "COND_WAIT")
  /\ t = waking.by => Calling(t, "COND_BROADCAST")
  /\ \A b \in DOMAIN barriers :
       t \in Range(barriers[b].waiting) => Calling(t, "BARRIER_WAIT") /\ CallOf(t).obj = b
  /\ t \in ms.acquired => mode[t] = "SYSTEM_RESPONSE" /\ ms.clock[t] = clk[t]

\* An answer is the one that the caller expects.
AnswersFit(t) ==
  /\ \A k \in Kinds : Got(t, k) => mode[t] = k
  /\ Got(t, "RESPONSE") =>
       LET c == CallOf(t)
           reply == Head(ms.mail[t]["RESPONSE"])
       IN  reply.code = Expected(c) /\ (Makes(c) => Exists(ObjectKind(c.op), reply.value))

\* A mutex that a thread holds, has asked to release, or has been given is
\* the thread's.
Owns(t, m) == m \in DOMAIN mutexes /\ mutexes[m].owner = t
MutexesOwned(t) ==
  /\ \A m \in holding[t] : Owns(t, m)
  /\ Asked(t) /\ mode[t] = "RESPONSE" =>
       \A m \in Released(CallOf(t)) : Owns(t, m) /\ m \notin holding[t]
  /\ Got(t, "RESPONSE") \/ t \in waking.woken =>
       \A m \in Obtained(CallOf(t)) : Owns(t, m)

ThreadOK(t) ==
  /\ InOnePlace(t) /\ CallKnown(t) /\ RequestFits(t) /\ QueuesFit(t) /\ AnswersFit(t)
  /\ MutexesOwned(t)

CallsInv ==
  /\ TypeOK
  /\ OncePerQueue /\ HandlesKnown
  /\ waking # NotWaking => waking.by \in Tiles
  /\ \A t \in AllTiles : ms.waiter[t] = NoTile
  /\ \A t \in Tiles : ThreadOK(t)

\* The clock barrier: a thread that is let go has not reached it.
ClockInv ==
  /\ ms.next % Quantum = 0
  /\ AcquiredIsLate
  /\ \A t \in Tiles : Got(t, "SYSTEM_RESPONSE") => clk[t] < ms.next
  /\ SkewBounded
=============================================================================

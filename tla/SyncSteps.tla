----------------------------- MODULE SyncSteps -----------------------------
(***************************************************************************)
(* What a step of SyncServer can do to the master's table, to a thread and *)
(* to a queue: the words in which the proofs that every step keeps         *)
(* SyncInvariant's invariant are put.                                      *)
(***************************************************************************)
EXTENDS SyncInvariant

-----------------------------------------------------------------------------
(* The master's table *)

\* A set of naturals that is not empty has a least element: why
\* barrierRelease's loop ends.
NatWellOrdered == \A T \in SUBSET Nat : T # {} => \E x \in T : \A y \in T : x <= y

\* What a thread that is let go of the clock barrier is sent.
Release == Msg("BARRIER_RELEASE", 0)

\* What the master does to its table on the way to an answer: threads in the
\* clock barrier may be let go, and are then told so.
Quiet(m, n) ==
  /\ n \in MasterTables
  /\ n.clock = m.clock /\ n.waiter = m.waiter
  /\ n.acquired \subseteq m.acquired
  /\ \A t \in AllTiles, k \in Kinds :
       n.mail[t][k] = IF k = "SYSTEM_RESPONSE" /\ t \in m.acquired \ n.acquired
                      THEN Append(m.mail[t][k], Release) ELSE m.mail[t][k]
  /\ n.next >= m.next /\ (m.next % Quantum = 0 => n.next % Quantum = 0)
  /\ \A t \in m.acquired \ n.acquired : m.clock[t] < n.next
  /\ SkewScheme = "lax_barrier" /\ m.acquired = Late(m) => n.acquired = Late(n)

\* The packet msg is added to the mail of the tiles of S.
Sent(m, n, S, kind, msg) ==
  /\ n \in MasterTables
  /\ n.waiter = m.waiter /\ n.clock = m.clock /\ n.acquired = m.acquired /\ n.next = m.next
  /\ \A t \in AllTiles, k \in Kinds :
       n.mail[t][k] = IF t \in S /\ k = kind THEN Append(m.mail[t][k], msg) ELSE m.mail[t][k]

\* A tile takes its oldest packet of a kind.
Taken(m, t, kind) == [m EXCEPT !.mail[t][kind] = Tail(@)]

\* masterOnThreadExit of a thread that no one joins.
ThreadGone(m, n, t) ==
  \E g \in MasterTables :
     /\ Quiet(m, g)
     /\ n = Send(g, t, "EXIT_REPLY", Msg("EXITED", 0))

\* The master lets go of some of the threads in the clock barrier and answers
\* thread x with f[x].
Answers(m, n, f) ==
  /\ n \in MasterTables
  /\ n.clock = m.clock /\ n.waiter = m.waiter
  /\ n.acquired \subseteq m.acquired
  /\ \A t \in AllTiles, k \in Kinds :
       n.mail[t][k] = IF k = "SYSTEM_RESPONSE" /\ t \in m.acquired \ n.acquired
                      THEN Append(m.mail[t][k], Release)
                      ELSE IF k = "RESPONSE" /\ t \in DOMAIN f THEN Append(m.mail[t][k], f[t])
                      ELSE m.mail[t][k]
  /\ n.next >= m.next /\ (m.next % Quantum = 0 => n.next % Quantum = 0)
  /\ \A t \in m.acquired \ n.acquired : m.clock[t] < n.next
  /\ SkewScheme = "lax_barrier" /\ m.acquired = Late(m) => n.acquired = Late(n)

\* One thread is answered.
AnswersWith(m, o, u, msg) == \E g : Answers(m, o, g) /\ DOMAIN g = {u} /\ g[u] = msg

\* One thread more is answered.
AnswersAlso(m, o, f, u, msg) ==
  \E g : /\ Answers(m, o, g) /\ DOMAIN g = DOMAIN f \cup {u} /\ g[u] = msg
         /\ \A x \in DOMAIN f : g[x] = f[x]

\* A thread is resumed and answered, and so is another.
AnswersBoth(m, p, o, c1, t, c2) ==
  \E f : Answers(m, p, f) /\ DOMAIN f = {o, t} /\ f[o].code = c1 /\ f[t].code = c2

\* The answers at the end of the loop.
AnswersSet(m, p, S, c1, u, c2) ==
  \E f : /\ Answers(m, p, f) /\ DOMAIN f = S \cup {u}
         /\ f[u].code = c2 /\ \A x \in S : f[x].code = c1

-----------------------------------------------------------------------------
(* A thread *)

\* The state of a thread the MCP has the call of, but for its packets.
SameCall(u) ==
  /\ script' = script /\ mode'[u] = mode[u] /\ pc'[u] = pc[u] /\ clk'[u] = clk[u]
  /\ holding'[u] = holding[u]

\* The state of a thread that a step is not about.
SameThread(u) ==
  /\ script' = script /\ mode'[u] = mode[u] /\ pc'[u] = pc[u] /\ clk'[u] = clk[u]
  /\ holding'[u] = holding[u] /\ toMcp'[u] = toMcp[u]

\* The MCP takes the packet r of thread t.
TakesPacket(t, r) ==
  /\ toMcp[t] # <<>> /\ r = Head(toMcp[t])
  /\ toMcp' = [toMcp EXCEPT ![t] = Tail(@)]
  /\ UNCHANGED clients

\* The queues that thread u is in after a step are those it was in.
StaysPut(u) ==
  /\ \A m \in DOMAIN mutexes' : u \in Range(mutexes'[m].waiting) =>
       m \in DOMAIN mutexes /\ u \in Range(mutexes[m].waiting)
  /\ \A c \in DOMAIN conds' : \A w \in Range(conds'[c]) : w.core = u =>
       c \in DOMAIN conds /\ w \in Range(conds[c])
  /\ \A w \in Range(waking'.left) : w.core = u => w \in Range(waking.left)
  /\ u \in waking'.woken => u \in waking.woken
  /\ u = waking'.by => u = waking.by
  /\ \A b \in DOMAIN barriers' : u \in Range(barriers'[b].waiting) =>
       b \in DOMAIN barriers /\ u \in Range(barriers[b].waiting)

\* The master sends thread u nothing, unless it lets it go of the clock barrier.
Unanswered(u) ==
  /\ ms' \in MasterTables
  /\ ms'.clock[u] = ms.clock[u]
  /\ u \in ms'.acquired => u \in ms.acquired
  /\ \A k \in Kinds :
       ms'.mail[u][k] = IF k = "SYSTEM_RESPONSE" /\ u \in ms.acquired \ ms'.acquired
                        THEN Append(ms.mail[u][k], Release) ELSE ms.mail[u][k]

\* No object goes away, and no mutex of thread u.
ObjectsStay ==
  /\ DOMAIN mutexes \subseteq DOMAIN mutexes' /\ DOMAIN conds \subseteq DOMAIN conds'
  /\ DOMAIN barriers \subseteq DOMAIN barriers'

OwnsStill(u) == \A m \in DOMAIN mutexes : mutexes[m].owner = u => mutexes'[m].owner = u

\* What a step of the MCP can do with a thread: leave it where it is, answer it
\* or put it in a queue.
ThreadLeft(u, f) == toMcp'[u] = toMcp[u] /\ StaysPut(u) /\ OwnsStill(u) /\ u \notin DOMAIN f

ThreadAnswered(u, f) ==
  /\ mode[u] = "RESPONSE" /\ (\A k \in Kinds : ~ Got(u, k)) /\ toMcp'[u] = <<>> /\ ~ Kept(u)'
  /\ u \in DOMAIN f /\ f[u].code = Expected(CallOf(u))
  /\ Makes(CallOf(u)) => Exists(ObjectKind(CallOf(u).op), f[u].value)'
  /\ \A m \in holding[u] \cup Obtained(CallOf(u)) : Owns(u, m)'

ThreadQueued(u, f) ==
  /\ mode[u] = "RESPONSE" /\ (\A k \in Kinds : ~ Got(u, k)) /\ toMcp'[u] = <<>> /\ u \notin DOMAIN f
  /\ QueuesFit(u)'
  /\ AtMutex(u)' => ~ AtCond(u)' /\ ~ InLoop(u)' /\ u \notin waking'.woken
  /\ AtCond(u)' => ~ InLoop(u)' /\ u \notin waking'.woken
  /\ InLoop(u)' => u \notin waking'.woken
  /\ \A m \in holding[u] : Owns(u, m)'
  /\ u \in waking'.woken => \A m \in Obtained(CallOf(u)) : Owns(u, m)'

-----------------------------------------------------------------------------
(* A queue *)

\* mx becomes my: mutex x gets owner o and queue w.
MutexSet(mx, my, x, o, w) ==
  /\ my \in Seq(Mutexes) /\ DOMAIN my = DOMAIN mx
  /\ my[x].owner = o /\ my[x].waiting = w
  /\ \A y \in DOMAIN mx : y # x => my[y] = mx[y]

\* Who is in a mutex's queue when thread t joins queue x, and when the first
\* thread leaves it.
JoinedMutex(t, x) ==
  /\ \A u \in Tiles : u # t => \A m \in DOMAIN mutexes' : u \in Range(mutexes'[m].waiting) =>
       m \in DOMAIN mutexes /\ u \in Range(mutexes[m].waiting)
  /\ \A m \in DOMAIN mutexes' : t \in Range(mutexes'[m].waiting) => m = x
  /\ \A m \in DOMAIN mutexes' : IsInjective(mutexes'[m].waiting)

LeftMutex(o, x) ==
  /\ o \in Tiles /\ o \in Range(mutexes[x].waiting)
  /\ \A u \in Tiles : \A m \in DOMAIN mutexes' : u \in Range(mutexes'[m].waiting) =>
       m \in DOMAIN mutexes /\ u \in Range(mutexes[m].waiting) /\ (m = x => u # o)
  /\ \A m \in DOMAIN mutexes' : IsInjective(mutexes'[m].waiting)

\* The queue of condition c becomes q.
CondSet(c, q) ==
  /\ conds' \in Seq(Seq(CondWaiters)) /\ DOMAIN conds' = DOMAIN conds
  /\ conds'[c] = q /\ \A d \in DOMAIN conds : d # c => conds'[d] = conds[d]

\* Who is in a condition's queue when waiter w joins queue c, and when the first
\* waiter leaves it.
JoinedCond(w, c) ==
  /\ \A u \in Tiles : u # w.core => \A d \in DOMAIN conds' : \A v \in Range(conds'[d]) :
       v.core = u => d \in DOMAIN conds /\ v \in Range(conds[d])
  /\ \A d \in DOMAIN conds' : \A v \in Range(conds'[d]) : v.core = w.core => d = c /\ v = w
  /\ \A d \in DOMAIN conds' : CoresDiffer(conds'[d])

LeftCond(w, c) ==
  /\ w \in CondWaiters /\ w \in Range(conds[c])
  /\ \A d \in DOMAIN conds' : \A v \in Range(conds'[d]) :
       d \in DOMAIN conds /\ v \in Range(conds[d]) /\ (d = c => v.core # w.core)
  /\ \A d \in DOMAIN conds' : CoresDiffer(conds'[d])

\* Barrier x has queue q after a step, and the others stay.
BarrierSet(x, q) ==
  /\ barriers' \in Seq(Barriers) /\ DOMAIN barriers' = DOMAIN barriers
  /\ barriers'[x].count = barriers[x].count /\ barriers'[x].waiting = q
  /\ \A y \in DOMAIN barriers : y # x => barriers'[y] = barriers[y]

\* Thread t is the last one that barrier x counts: all are resumed, but for
\* those whose bit is not read, and answered.
AllReleased(x, t) ==
  \E S \in SUBSET Tiles, skipped \in SUBSET Tiles, time \in Nat :
     /\ S = Range(barriers[x].waiting) \cup {t}
     /\ skipped \subseteq BeyondResumed(S, barriers[x].count)
     /\ ms' = SendAll(ResumeThreads(StallThread(ms, t), S \ skipped), S, "RESPONSE",
                      Msg("BARRIER_WAIT", time))
=============================================================================

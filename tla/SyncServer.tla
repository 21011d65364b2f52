----------------------------- MODULE SyncServer -----------------------------
(***************************************************************************)
(* Application synchronisation through the MCP: the SyncClient calls the   *)
(* threads make (mutexes, condition variables, barriers), the SyncServer   *)
(* that serves them, and the lax-barrier clock-skew scheme that runs on    *)
(* the same MCP and is told by it which threads are stalled.               *)
(*                                                                         *)
(* One thread runs on each tile of Tiles.  A thread computes, calls, and   *)
(* blocks in netRecv until the MCP's answer arrives; before an instruction *)
(* it synchronises its clock when that is due.  Its calls are those of     *)
(* script[t], a program of the application; then it exits.                 *)
(***************************************************************************)
EXTENDS MasterThreads

CONSTANTS Programs,     \* sets of scripts the threads may run
          Durations,    \* simulated time an instruction may take
          MaxTime,      \* bound: no instruction ends after this time
          WordBits      \* bits in a word of a vector<bool>

ASSUME DurationsAssumption == Durations \subseteq Nat \ {0} /\ MaxTime \in Nat
ASSUME WordAssumption == WordBits \in Nat \ {0}

Ops == {"MUTEX_INIT", "MUTEX_LOCK", "MUTEX_UNLOCK", "COND_INIT", "COND_WAIT", "COND_SIGNAL",
        "COND_BROADCAST", "BARRIER_INIT", "BARRIER_WAIT"}
\* obj: the object (for BARRIER_INIT the count); mux: COND_WAIT's mutex.  SET
\* is no call: the program makes the predicate of the condition obj true.
Calls == [op : Ops \cup {"SET"}, obj : Nat, mux : Nat]
Requests == [op : Ops \cup {"CLOCK_SKEW", "EXIT"}, obj : Nat, mux : Nat, time : Nat]

ASSUME ProgramsAssumption == \A p \in Programs : p \in [Tiles -> Seq(Calls)]

VARIABLES
  script,    \* the program
  pc,        \* pc[t]: the next call of thread t
  mode,      \* what thread t is doing: RUN, or the packet it waits for
  clk,       \* the clock of t's core model
  nextSync,  \* m_next_sync_time of t's LaxBarrierSyncClient
  holding,   \* the mutexes that thread t has been told it holds
  handles,   \* the objects made, as the application's memory has them
  flags,     \* the predicates of condition variables that have become true
  toMcp,     \* packets from tile t to the MCP
  ms,        \* the master's thread table
  mutexes,   \* SyncServer::m_mutexes
  conds,     \* SyncServer::m_conds, each its m_waiting
  barriers,  \* SyncServer::m_barriers
  waking     \* the loop of SimCond::broadcast the MCP is in

clients == <<script, pc, mode, clk, nextSync, holding, handles, flags>>
server == <<mutexes, conds, barriers, waking>>
vars == <<clients, toMcp, ms, server>>

Mutexes == [owner : Tiles \cup {NoTile}, waiting : Seq(Tiles)]
CondWaiters == [core : Tiles, mutex : Nat]
Barriers == [count : Nat, waiting : Seq(Tiles), maxTime : Nat]
Modes == {"RUN", "RESPONSE", "SYSTEM_RESPONSE", "EXIT_REPLY", "DONE"}

\* by and time are those of the broadcast request; woken the cores that got
\* the lock.
Wakings == [left : Seq(CondWaiters), woken : SUBSET Tiles, by : Tiles \cup {NoTile}, time : Nat]
NotWaking == [left |-> <<>>, woken |-> {}, by |-> NoTile, time |-> 0]

Init ==
  /\ script \in Programs
  /\ pc = [t \in Tiles |-> 1]
  /\ mode = [t \in Tiles |-> "RUN"]
  /\ clk = [t \in Tiles |-> 0]
  /\ nextSync = [t \in Tiles |-> Quantum]
  /\ holding = [t \in Tiles |-> {}]
  /\ handles = {}
  /\ flags = {}
  /\ toMcp = [t \in Tiles |-> <<>>]
  /\ ms = InitialTable(Tiles \ {0})
  /\ mutexes = <<>>
  /\ conds = <<>>
  /\ barriers = <<>>
  /\ waking = NotWaking

-----------------------------------------------------------------------------
(* The threads *)

SyncDue(t) == SkewScheme = "lax_barrier" /\ clk[t] >= nextSync[t]
Finished(t) == pc[t] > Len(script[t])

Request(t, op, obj, mux) ==
  toMcp' = [toMcp EXCEPT ![t] = Append(@, [op |-> op, obj |-> obj, mux |-> mux, time |-> clk[t]])]

Instruction(t) ==
  /\ mode[t] = "RUN" /\ ~ SyncDue(t) /\ ~ Finished(t)
  /\ \E d \in Durations :
       /\ clk[t] + d <= MaxTime
       /\ clk' = [clk EXCEPT ![t] = @ + d]
  /\ UNCHANGED <<script, pc, mode, nextSync, holding, handles, flags, toMcp, ms, server>>

\* LaxBarrierSyncClient::synchronize, before every instruction.
Synchronize(t) ==
  /\ mode[t] = "RUN" /\ SyncDue(t)
  /\ Request(t, "CLOCK_SKEW", 0, 0)
  /\ mode' = [mode EXCEPT ![t] = "SYSTEM_RESPONSE"]
  /\ UNCHANGED <<script, pc, clk, nextSync, holding, handles, flags, ms, server>>

SynchronizeReturn(t) ==
  /\ mode[t] = "SYSTEM_RESPONSE"
  /\ ms.mail[t]["SYSTEM_RESPONSE"] # <<>>
  /\ ms' = [ms EXCEPT !.mail[t]["SYSTEM_RESPONSE"] = Tail(@)]
  /\ mode' = [mode EXCEPT ![t] = "RUN"]
  /\ nextSync' = [nextSync EXCEPT ![t] = (clk[t] \div Quantum) * Quantum + Quantum]
  /\ UNCHANGED <<script, pc, clk, holding, handles, flags, toMcp, server>>

\* What the call's arguments name.
ObjectKind(op) ==
  CASE op \in {"MUTEX_INIT", "MUTEX_LOCK", "MUTEX_UNLOCK"} -> "mutex"
    [] op \in {"BARRIER_INIT", "BARRIER_WAIT"} -> "barrier"
    [] OTHER -> "cond"
Makes(c) == c.op \in {"MUTEX_INIT", "COND_INIT", "BARRIER_INIT"}

\* A program uses the objects it has made; it unlocks, and waits on a
\* condition with, a mutex that it holds; and it waits on a condition in a
\* loop, while (! predicate).
Legal(t, c) ==
  /\ c.op \in Ops
  /\ Makes(c) \/ <<ObjectKind(c.op), c.obj>> \in handles
  /\ c.op = "MUTEX_UNLOCK" => c.obj \in holding[t]
  /\ c.op = "COND_WAIT" => c.mux \in holding[t] /\ c.obj \notin flags

Released(c) ==
  CASE c.op = "MUTEX_UNLOCK" -> {c.obj}
    [] c.op = "COND_WAIT" -> {c.mux}
    [] OTHER -> {}

\* A SyncClient call, up to its netRecv.
Call(t) ==
  /\ mode[t] = "RUN" /\ ~ SyncDue(t) /\ ~ Finished(t)
  /\ LET c == script[t][pc[t]]
     IN  /\ Legal(t, c)
         /\ Request(t, c.op, c.obj, c.mux)
         /\ holding' = [holding EXCEPT ![t] = @ \ Released(c)]
  /\ mode' = [mode EXCEPT ![t] = "RESPONSE"]
  /\ UNCHANGED <<script, pc, clk, nextSync, handles, flags, ms, server>>

SetPredicate(t) ==
  /\ mode[t] = "RUN" /\ ~ SyncDue(t) /\ ~ Finished(t)
  /\ LET c == script[t][pc[t]] IN c.op = "SET" /\ flags' = flags \cup {c.obj}
  /\ pc' = [pc EXCEPT ![t] = @ + 1]
  /\ UNCHANGED <<script, mode, clk, nextSync, holding, handles, toMcp, ms, server>>

\* The predicate holds: the loop around condWait is left.
LeaveWait(t) ==
  /\ mode[t] = "RUN" /\ ~ SyncDue(t) /\ ~ Finished(t)
  /\ LET c == script[t][pc[t]] IN c.op = "COND_WAIT" /\ c.obj \in flags
  /\ pc' = [pc EXCEPT ![t] = @ + 1]
  /\ UNCHANGED <<script, mode, clk, nextSync, holding, handles, flags, toMcp, ms, server>>

\* The answer the call asserts it gets.
Expected(c) ==
  CASE Makes(c) -> "INIT"
    [] c.op \in {"MUTEX_LOCK", "COND_WAIT"} -> "MUTEX_LOCK"
    [] OTHER -> c.op

Obtained(c) ==
  CASE c.op = "MUTEX_LOCK" -> {c.obj}
    [] c.op = "COND_WAIT" -> {c.mux}
    [] OTHER -> {}

Timed(c) == c.op \in {"MUTEX_LOCK", "COND_WAIT", "BARRIER_WAIT"}

\* The rest of the call: a later time in the answer advances the clock.
Return(t) ==
  /\ mode[t] = "RESPONSE"
  /\ ms.mail[t]["RESPONSE"] # <<>>
  /\ LET c == script[t][pc[t]]
         reply == Head(ms.mail[t]["RESPONSE"])
         read == [ms EXCEPT !.mail[t]["RESPONSE"] = Tail(@)]
     IN  /\ ms' = IF reply.code = Expected(c) THEN read ELSE Fail(read, "answer")
         /\ clk' = [clk EXCEPT ![t] = IF Timed(c) /\ reply.value > @ THEN reply.value ELSE @]
         /\ holding' = [holding EXCEPT ![t] = @ \cup Obtained(c)]
         /\ handles' = handles \cup (IF Makes(c) THEN {<<ObjectKind(c.op), reply.value>>} ELSE {})
         /\ pc' = [pc EXCEPT ![t] = IF c.op = "COND_WAIT" THEN @ ELSE @ + 1]
  /\ mode' = [mode EXCEPT ![t] = "RUN"]
  /\ UNCHANGED <<script, nextSync, flags, toMcp, server>>

\* ThreadManager::onThreadExit and ThreadScheduler::onThreadExit.
OnThreadExit(t) ==
  /\ mode[t] = "RUN" /\ Finished(t)
  /\ Request(t, "EXIT", 0, 0)
  /\ mode' = [mode EXCEPT ![t] = "EXIT_REPLY"]
  /\ UNCHANGED <<script, pc, clk, nextSync, holding, handles, flags, ms, server>>

OnThreadExitReturn(t) ==
  /\ mode[t] = "EXIT_REPLY"
  /\ ms.mail[t]["EXIT_REPLY"] # <<>>
  /\ ms' = [ms EXCEPT !.mail[t]["EXIT_REPLY"] = Tail(@)]
  /\ mode' = [mode EXCEPT ![t] = "DONE"]
  /\ UNCHANGED <<script, pc, clk, nextSync, holding, handles, flags, toMcp, server>>

-----------------------------------------------------------------------------
(* The SyncServer.  Handlers take the requesting tile t and its request r. *)

MutexReply(table, t, time) == Send(table, t, "RESPONSE", Msg("MUTEX_LOCK", time))
Reply(table, t, code, value) == Send(table, t, "RESPONSE", Msg(code, value))

\* SimMutex::lock, on the thread table and the mutexes; it succeeds if the
\* mutex is free.
Free_Always(muxes, m) == TRUE
Free(muxes, m) == muxes[m].owner = NoTile
Lock(s, m, t) ==
  IF Free(s.mutexes, m)
  THEN [s EXCEPT !.mutexes[m].owner = t]
  ELSE [s EXCEPT !.table = StallThread(@, t), !.mutexes[m].waiting = Append(@, t)]

\* SimMutex::unlock
Unlock(s, m, t) ==
  IF s.mutexes[m].owner # t
  THEN [s EXCEPT !.table = Fail(@, "owner")]
  ELSE IF s.mutexes[m].waiting = <<>>
       THEN [s EXCEPT !.mutexes[m].owner = NoTile]
       ELSE LET o == Head(s.mutexes[m].waiting)
            IN  [s EXCEPT !.mutexes[m] = [owner |-> o, waiting |-> Tail(s.mutexes[m].waiting)],
                          !.table = ResumeThread(@, o)]

\* What mutexUnlock and condWait do with the owner that unlock returns.
NotifyOwner(s, m, time) ==
  LET o == s.mutexes[m].owner
  IN  IF o = NoTile THEN s ELSE [s EXCEPT !.table = MutexReply(@, o, time)]

Server(table) == [table |-> table, mutexes |-> mutexes]
Becomes(s) == ms' = s.table /\ mutexes' = s.mutexes

MutexInit(t, r) ==
  /\ mutexes' = Append(mutexes, [owner |-> NoTile, waiting |-> <<>>])
  /\ ms' = Reply(ms, t, "INIT", Len(mutexes) + 1)
  /\ UNCHANGED <<conds, barriers, waking>>

MutexLock(t, r) ==
  /\ LET s == Lock(Server(ms), r.obj, t)
     IN  Becomes(IF Free(mutexes, r.obj)
                 THEN [s EXCEPT !.table = MutexReply(@, t, r.time)]
                 ELSE s)
  /\ UNCHANGED <<conds, barriers, waking>>

MutexUnlock(t, r) ==
  /\ LET s == NotifyOwner(Unlock(Server(ms), r.obj, t), r.obj, r.time)
     IN  Becomes([s EXCEPT !.table = Reply(@, t, "MUTEX_UNLOCK", 0)])
  /\ UNCHANGED <<conds, barriers, waking>>

CondInit(t, r) ==
  /\ conds' = Append(conds, <<>>)
  /\ ms' = Reply(ms, t, "INIT", Len(conds) + 1)
  /\ UNCHANGED <<mutexes, barriers, waking>>

\* SimCond::wait: stall, enqueue, then unlock.
CondWait(t, r) ==
  /\ conds' = [conds EXCEPT ![r.obj] = Append(@, [core |-> t, mutex |-> r.mux])]
  /\ Becomes(NotifyOwner(Unlock(Server(StallThread(ms, t)), r.mux, t), r.mux, r.time))
  /\ UNCHANGED <<barriers, waking>>

\* A waiter is taken off a condition: it is resumed and locks its mutex,
\* which stalls it again when the mutex is held.
Wake_NoLock(table, w) == Server(ResumeThread(table, w.core))
Wake(table, w) == Lock(Server(ResumeThread(table, w.core)), w.mutex, w.core)
GotLock(w) == Free(mutexes, w.mutex)

CondSignal(t, r) ==
  /\ IF conds[r.obj] = <<>>
     THEN /\ Becomes(Server(Reply(ms, t, "COND_SIGNAL", 0)))
          /\ conds' = conds
     ELSE LET w == Head(conds[r.obj])
              s == Wake(ms, w)
          IN  /\ conds' = [conds EXCEPT ![r.obj] = Tail(@)]
              /\ Becomes([s EXCEPT !.table = Reply(IF GotLock(w) THEN MutexReply(@, w.core, r.time)
                                                                  ELSE @, t, "COND_SIGNAL", 0)])
  /\ UNCHANGED <<barriers, waking>>

\* condBroadcast begins SimCond::broadcast's loop over the waiters.
CondBroadcast(t, r) ==
  /\ waking' = [left |-> conds[r.obj], woken |-> {}, by |-> t, time |-> r.time]
  /\ conds' = [conds EXCEPT ![r.obj] = <<>>]
  /\ UNCHANGED <<ms, mutexes, barriers>>

\* One iteration of the loop.
WakeNext ==
  /\ waking.left # <<>> /\ ms.failed = {}
  /\ LET w == Head(waking.left)
     IN  /\ Becomes(Wake(ms, w))
         /\ waking' = [waking EXCEPT !.left = Tail(@),
                                     !.woken = IF GotLock(w) THEN @ \cup {w.core} ELSE @]
  /\ UNCHANGED <<clients, toMcp, conds, barriers>>

\* The loop has ended: the answers are sent.
WakeDone ==
  /\ waking # NotWaking /\ waking.left = <<>> /\ ms.failed = {}
  /\ ms' = Reply(SendAll(ms, waking.woken, "RESPONSE", Msg("MUTEX_LOCK", waking.time)),
                waking.by, "COND_BROADCAST", 0)
  /\ waking' = NotWaking
  /\ UNCHANGED <<clients, toMcp, mutexes, conds, barriers>>

BarrierInit(t, r) ==
  /\ barriers' = Append(barriers, [count |-> r.obj, waiting |-> <<>>, maxTime |-> 0])
  /\ ms' = Reply(ms, t, "INIT", Len(barriers) + 1)
  /\ UNCHANGED <<mutexes, conds, waking>>

\* m_max_time once the n-th thread of a round arrives.
ArrivalTime_Elapsed(b, n, time) == time - b.maxTime
ArrivalTime_First(b, n, time) == IF n = 1 THEN time ELSE b.maxTime
ArrivalTime(b, n, time) == IF n = 1 \/ time > b.maxTime THEN time ELSE b.maxTime

\* All threads have reached the barrier.
AllReached_AllButOne(b, n) == n >= b.count - 1
AllReached(b, n) == n = b.count

\* The tiles whose bit is beyond resumed_tiles, which has a bit for each of
\* the n waiting threads and is indexed by tile: what is read there may be
\* set, and then the thread is not resumed.
BeyondResumed(S, n) == {t \in S : t >= WordBits * ((n + WordBits - 1) \div WordBits)}

\* SyncServer::barrierWait and SimBarrier::wait
SimBarrierWait(t, r) ==
  LET b == barriers[r.obj]
      w == Append(b.waiting, t)
      n == Len(w)
      time == ArrivalTime(b, n, r.time)
      arrived == {w[i] : i \in 1..n}
      table == StallThread(ms, t)
  IN  /\ \/ /\ ~ AllReached(b, n)
            /\ ms' = IF n > b.count THEN Fail(table, "count") ELSE table
            /\ barriers' = [barriers EXCEPT ![r.obj] = [@ EXCEPT !.waiting = w, !.maxTime = time]]
         \/ /\ AllReached(b, n)
            /\ \E skipped \in SUBSET BeyondResumed(arrived, n) :
                 ms' = SendAll(ResumeThreads(table, arrived \ skipped), arrived, "RESPONSE",
                               Msg("BARRIER_WAIT", time))
            /\ barriers' = [barriers EXCEPT ![r.obj] = [@ EXCEPT !.waiting = <<>>, !.maxTime = time]]
      /\ UNCHANGED <<mutexes, conds, waking>>

-----------------------------------------------------------------------------
(* The MCP *)

\* MCP::processPacket: the oldest packet of some tile; packets of different
\* tiles arrive in any order.
ProcessPacket(t) ==
  /\ waking = NotWaking
  /\ toMcp[t] # <<>>
  /\ toMcp' = [toMcp EXCEPT ![t] = Tail(@)]
  /\ LET r == Head(toMcp[t])
     IN  \/ r.op = "MUTEX_INIT" /\ MutexInit(t, r)
         \/ r.op = "MUTEX_LOCK" /\ MutexLock(t, r)
         \/ r.op = "MUTEX_UNLOCK" /\ MutexUnlock(t, r)
         \/ r.op = "COND_INIT" /\ CondInit(t, r)
         \/ r.op = "COND_WAIT" /\ CondWait(t, r)
         \/ r.op = "COND_SIGNAL" /\ CondSignal(t, r)
         \/ r.op = "COND_BROADCAST" /\ CondBroadcast(t, r)
         \/ r.op = "BARRIER_INIT" /\ BarrierInit(t, r)
         \/ r.op = "BARRIER_WAIT" /\ SimBarrierWait(t, r)
         \/ r.op = "CLOCK_SKEW" /\ ms' = BarrierWait(ms, t, r.time) /\ UNCHANGED server
         \/ r.op = "EXIT" /\ ms' = MasterOnThreadExit(ms, t, r.time) /\ UNCHANGED server
  /\ UNCHANGED clients

-----------------------------------------------------------------------------
(* The specification *)

ThreadStep(t) ==
  /\ ms.failed = {}
  /\ \/ Instruction(t)
     \/ Synchronize(t) \/ SynchronizeReturn(t)
     \/ Call(t) \/ Return(t) \/ SetPredicate(t) \/ LeaveWait(t)
     \/ OnThreadExit(t) \/ OnThreadExitReturn(t)

McpStep ==
  /\ ms.failed = {}
  /\ WakeNext \/ WakeDone \/ \E t \in Tiles : ProcessPacket(t)

Next == (\E t \in Tiles : ThreadStep(t)) \/ McpStep

Spec == Init /\ [][Next]_vars

\* The host runs every thread, and the MCP takes every packet in the end.
Fairness ==
  /\ \A t \in Tiles : WF_vars(ThreadStep(t))
  /\ WF_vars(ms.failed = {} /\ (WakeNext \/ WakeDone))
  /\ \A t \in Tiles : WF_vars(ms.failed = {} /\ ProcessPacket(t))

FairSpec == Spec /\ Fairness

-----------------------------------------------------------------------------
(* Properties *)

TypeOK ==
  /\ script \in Programs
  /\ pc \in [Tiles -> Nat \ {0}]
  /\ mode \in [Tiles -> Modes]
  /\ clk \in [Tiles -> Nat]
  /\ nextSync \in [Tiles -> Nat]
  /\ holding \in [Tiles -> SUBSET Nat]
  /\ handles \subseteq {"mutex", "cond", "barrier"} \X Nat
  /\ flags \subseteq Nat
  /\ toMcp \in [Tiles -> Seq(Requests)]
  /\ ms \in MasterTables
  /\ mutexes \in Seq(Mutexes)
  /\ conds \in Seq(Seq(CondWaiters))
  /\ barriers \in Seq(Barriers)
  /\ waking \in Wakings

\* No assert fails, on the MCP or in a SyncClient call: a thread that is
\* stalled was running, the clock barrier has a thread to release, only the
\* owner unlocks, and an answer is the one the caller waits for.
NoAssertFails == ms.failed = {}

\* Two threads that mutexLock or condWait has returned to do not hold the same
\* mutex.
MutualExclusion ==
  \A t, u \in Tiles : t # u => holding[t] \cap holding[u] = {}

\* The threads that an object of the SyncServer keeps waiting.
Waiting ==
  UNION {{mutexes[m].waiting[i] : i \in DOMAIN mutexes[m].waiting} : m \in DOMAIN mutexes} \cup
  UNION {{conds[c][i].core : i \in DOMAIN conds[c]} : c \in DOMAIN conds} \cup
  UNION {{barriers[b].waiting[i] : i \in DOMAIN barriers[b].waiting} : b \in DOMAIN barriers} \cup
  {waking.left[i].core : i \in DOMAIN waking.left}

\* The master takes exactly the threads for stalled that wait for a mutex, a
\* condition or a barrier: otherwise the clock barrier would wait for a thread
\* that cannot come, or not wait for one that runs.  And a thread that the clock
\* barrier keeps is running, or about to: what the asserts of
\* LaxBarrierSyncServer say ("has acquired barrier ... but not initializing or
\* running") and, comparing a bool with -1, never check.
StatusFits ==
  \A t \in Tiles : /\ ms.status[t] = "STALLED" <=> t \in Waiting
                   /\ t \in ms.acquired => ms.status[t] \in {"RUNNING", "INITIALIZING"}

\* The threads in the clock barrier's acquire list are those whose clock has
\* reached the barrier time, so that the loop of barrierRelease ends and no
\* thread is left in the list or released twice.
AcquiredIsLate == SkewScheme = "lax_barrier" => ms.acquired = Late(ms)

\* A thread synchronises before its clock passes the barrier time.
SkewBounded == \A t \in Tiles : nextSync[t] <= ms.next

\* The barrier time advances only when every running thread has reached it,
\* the thread whose packet the MCP is handling excepted.
QuantumBarrier ==
  [][ms'.next # ms.next =>
       \A t \in Tiles :
         ms.status[t] = "RUNNING" /\ toMcp'[t] = toMcp[t] => clk[t] >= ms.next]_vars

\* How often thread t has come to, and has come out of, barrier b.
WaitsOn(t, b, n) == Cardinality({i \in 1..n : script[t][i].op = "BARRIER_WAIT" /\ script[t][i].obj = b})
Completed(t, b) == WaitsOn(t, b, pc[t] - 1)
Arrived(t, b) == WaitsOn(t, b, IF mode[t] = "RESPONSE" THEN pc[t] ELSE pc[t] - 1)
Uses(t, b) == WaitsOn(t, b, Len(script[t])) > 0

\* No thread comes out of a barrier before every thread has come to it, for
\* barriers as many threads use as they count.
BarrierSeparates ==
  \A b \in DOMAIN barriers : \A t, u \in Tiles :
    Uses(t, b) /\ Uses(u, b) => Completed(t, b) <= Arrived(u, b)

\* A thread comes out of a barrier no earlier, in simulated time, than the
\* time at which any thread that is still to come out arrived.
BarrierAdvancesClock ==
  \A b \in DOMAIN barriers : \A t, u \in Tiles :
    Uses(t, b) /\ Uses(u, b) /\ Completed(t, b) > Completed(u, b) => clk[t] >= clk[u]

\* "Resuming all the threads stalled at the barrier" (SimBarrier::wait): a
\* thread that is answered is running again.
BarrierResumesAll ==
  \A t \in Tiles : \A i \in DOMAIN ms.mail[t]["RESPONSE"] :
    ms.mail[t]["RESPONSE"][i].code = "BARRIER_WAIT" => ms.status[t] = "RUNNING"

\* Every thread comes to its end: no answer, release or wake-up is lost.
AllFinish == <>(\A t \in Tiles : mode[t] = "DONE")

=============================================================================

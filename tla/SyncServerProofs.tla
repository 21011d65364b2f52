-------------------------- MODULE SyncServerProofs --------------------------
(***************************************************************************)
(* Proofs about SyncServer, for every number of tiles, every program and   *)
(* every quantum: types, mutual exclusion, and the clock barrier's list    *)
(* and times.  The handlers of condition variables keep the inductive      *)
(* invariant, and with those of SyncServerSteps and SyncServerObjects      *)
(* every step does.                                                        *)
(***************************************************************************)
EXTENDS SyncServerObjects, WellFoundedInduction

\* A leaf is for Zenon, or for the SMT solver where it says so.
USE ZenonT(60)

-----------------------------------------------------------------------------
(* The MCP's handlers: conditions *)

\* Setting one condition leaves the others.
LEMMA CondChanged ==
  ASSUME conds \in Seq(Seq(CondWaiters)), NEW c \in DOMAIN conds, NEW q \in Seq(CondWaiters),
         conds' = [conds EXCEPT ![c] = q]
  PROVE  CondSet(c, q)
<1>1. conds' \in Seq(Seq(CondWaiters)) /\ DOMAIN conds' = DOMAIN conds /\ conds'[c] = q
  BY SMTT(60)
<1>2. \A d \in DOMAIN conds : d # c => conds'[d] = conds[d]
  OBVIOUS
<1> QED  BY <1>1, <1>2 DEF CondSet

\* SyncServer::condWait queues the thread and hands over its mutex.
LEMMA CondWaitStep ==
  \A t \in Tiles : \A r :
    /\ NatWellOrdered /\ CallsInv
    /\ TakesPacket(t, r)
    /\ r.op = "COND_WAIT"
    /\ CondWait(t, r)
    =>
         CallsInv' /\ (ClockInv => ClockInv')
\* The same of the waiters of a condition, which are named by their core.
<1>CoresAppend.
  ASSUME NEW s \in Seq(CondWaiters), NEW w \in CondWaiters
  PROVE  /\ Append(s, w) \in Seq(CondWaiters)
         /\ Range(Append(s, w)) = Range(s) \cup {w}
         /\ CoresDiffer(s) /\ (\A x \in Range(s) : x.core # w.core) => CoresDiffer(Append(s, w))
  <2> USE <1>CoresAppend
  <2> DEFINE a == Append(s, w)
  <2>1. Range(a) = Range(s) \cup {w} /\ a \in Seq(CondWaiters)
    BY RangeAppend, SMTT(60)
  <2>2. /\ DOMAIN s = 1..Len(s) /\ DOMAIN a = 1..(Len(s) + 1)
        /\ \A i \in 1..Len(s) : a[i] = s[i]
        /\ a[Len(s) + 1] = w /\ Len(s) \in Nat
    BY SMTT(60)
  <2> HIDE DEF a
  <2>3. CoresDiffer(s) /\ (\A x \in Range(s) : x.core # w.core) => CoresDiffer(a)
    BY <2>2, SMTT(60) DEF CoresDiffer, Range
  <2> QED  BY <2>1, <2>3 DEF a
\* A waiter that joins a condition is the only change in the conditions.
<1>CondJoined.
  ASSUME OncePerQueue, conds \in Seq(Seq(CondWaiters)), NEW c \in DOMAIN conds,
         NEW w \in CondWaiters, CondSet(c, Append(conds[c], w)), ~ AtCond(w.core)
  PROVE  JoinedCond(w, c)
  <2> USE <1>CondJoined
  <2>1. conds[c] \in Seq(CondWaiters) /\ \A v \in Range(conds[c]) : v.core # w.core
    BY SMTT(60) DEF AtCond
  <2>2. /\ Range(Append(conds[c], w)) = Range(conds[c]) \cup {w}
        /\ CoresDiffer(Append(conds[c], w))
    BY <2>1, <1>CoresAppend DEF OncePerQueue
  <2>3. ASSUME NEW d \in DOMAIN conds', NEW v \in Range(conds'[d])
        PROVE  d \in DOMAIN conds /\ (v \in Range(conds[d]) \/ (d = c /\ v = w))
    <3>1. d \in DOMAIN conds
      BY <2>3 DEF CondSet
    <3>2. CASE d # c
      BY <2>3, <3>1, <3>2 DEF CondSet
    <3>3. CASE d = c
      <4>1. conds'[d] = Append(conds[c], w)
        BY <3>3 DEF CondSet
      <4>2. v \in Range(conds[c]) \cup {w}
        BY <2>2, <2>3, <4>1
      <4> QED  BY <3>1, <3>3, <4>2
    <3> QED  BY <3>2, <3>3
  <2>4. \A d \in DOMAIN conds' : CoresDiffer(conds'[d])
    <3>1. ASSUME NEW d \in DOMAIN conds'
          PROVE  CoresDiffer(conds'[d])
      <4>1. CASE d = c
        BY <2>2, <4>1 DEF CondSet
      <4>2. CASE d # c
        BY <3>1, <4>2 DEF CondSet, OncePerQueue
      <4> QED  BY <4>1, <4>2
    <3> QED  BY <3>1
  <2>5. \A d \in DOMAIN conds' : \A v \in Range(conds'[d]) : v.core = w.core => d = c /\ v = w
    BY <2>3 DEF AtCond
  <2> QED  BY <2>3, <2>4, <2>5 DEF JoinedCond
\* What condWait does to the MCP's state.
<1>CondWaitEffect.
  ASSUME NatWellOrdered, CallsInv, NEW t \in Tiles, NEW r, TakesPacket(t, r), r.op = "COND_WAIT", CondWait(t, r)
  PROVE  /\ r.obj \in DOMAIN conds /\ r.mux \in DOMAIN mutexes /\ mutexes[r.mux].owner = t
         /\ [core |-> t, mutex |-> r.mux] \in CondWaiters
         /\ CondSet(r.obj, Append(conds[r.obj], [core |-> t, mutex |-> r.mux]))
         /\ \/ /\ mutexes[r.mux].waiting = <<>> /\ ms' = StallThread(ms, t)
               /\ MutexSet(mutexes, mutexes', r.mux, NoTile, <<>>)
            \/ /\ mutexes[r.mux].waiting # <<>>
               /\ \E o \in Tiles :
                    /\ o = Head(mutexes[r.mux].waiting)
                    /\ ms' = Reply(ResumeThread(StallThread(ms, t), o), o, "MUTEX_LOCK", r.time)
                    /\ MutexSet(mutexes, mutexes', r.mux, o, Tail(mutexes[r.mux].waiting))
         /\ barriers' = barriers /\ waking' = waking
  <2> USE <1>CondWaitEffect
  <2>1. r.obj \in DOMAIN conds /\ r.mux \in DOMAIN mutexes /\ r.time \in Nat /\ r.mux \in Nat
    BY ObjectThere DEF Ops
  <2>2. ms \in MasterTables /\ mutexes \in Seq(Mutexes) /\ conds \in Seq(Seq(CondWaiters))
    BY ServerTyped
  <2>3. mutexes[r.mux].owner = t
    <3>1. CallOf(t).op = "COND_WAIT" /\ CallOf(t).mux = r.mux
          /\ \A m \in Released(CallOf(t)) : Owns(t, m)
      BY PacketTaken, SMTT(60) DEF Ops
    <3>2. Released(CallOf(t)) = {r.mux}
      BY <3>1, CallOps
    <3> QED  BY <3>1, <3>2 DEF Owns
  <2>35. [core |-> t, mutex |-> r.mux] \in CondWaiters
    BY <2>1 DEF CondWaiters
  <2>36. CondSet(r.obj, Append(conds[r.obj], [core |-> t, mutex |-> r.mux]))
    <3>1. PICK q \in Seq(CondWaiters) : q = Append(conds[r.obj], [core |-> t, mutex |-> r.mux])
      <4>1. conds[r.obj] \in Seq(CondWaiters)
        BY <2>1, <2>2, SMTT(60)
      <4>2. Append(conds[r.obj], [core |-> t, mutex |-> r.mux]) \in Seq(CondWaiters)
        BY <2>35, <4>1, <1>CoresAppend
      <4> QED  BY <4>2
    <3>2. conds' = [conds EXCEPT ![r.obj] = q]
      BY <3>1 DEF CondWait
    <3> QED  BY <2>1, <2>2, <3>1, <3>2, CondChanged
  <2>37. PICK m \in MasterTables : m = StallThread(ms, t)
    BY <2>2, StallThreadEffect DEF Quiet
  <2> DEFINE s == NotifyOwner(Unlock([table |-> m, mutexes |-> mutexes], r.mux, t), r.mux, r.time)
             w == mutexes[r.mux].waiting
  <2>4. \/ /\ w = <<>> /\ s.table = m
           /\ MutexSet(mutexes, s.mutexes, r.mux, NoTile, <<>>)
        \/ /\ w # <<>> /\ Head(w) \in Tiles
           /\ s.table = MutexReply(ResumeThread(m, Head(w)), Head(w), r.time)
           /\ MutexSet(mutexes, s.mutexes, r.mux, Head(w), Tail(w))
    BY <2>1, <2>2, <2>3, <2>37, ReleaseEffect
  <2>5. Becomes(s) /\ barriers' = barriers /\ waking' = waking
    BY <2>37 DEF CondWait, Server
  <2> HIDE DEF s
  <2>7. ms' = s.table /\ mutexes' = s.mutexes
    BY <2>5 DEF Becomes
  <2>8. CASE w = <<>>
    BY <2>1, <2>3, <2>35, <2>36, <2>37, <2>4, <2>5, <2>7, <2>8
  <2>9. CASE w # <<>>
    <3>1. PICK o \in Tiles : o = Head(w)
      BY <2>4, <2>9
    <3>2. s.table = Reply(ResumeThread(StallThread(ms, t), o), o, "MUTEX_LOCK", r.time)
      BY <2>37, <2>4, <2>9, <3>1 DEF MutexReply, Reply
    <3>3. MutexSet(mutexes, mutexes', r.mux, o, Tail(w))
      BY <2>4, <2>7, <2>9, <3>1
    <3> QED  BY <2>1, <2>3, <2>35, <2>36, <2>5, <2>7, <2>9, <3>1, <3>2, <3>3
  <2> QED  BY <2>8, <2>9
\* A thread is put in a condition's queue.
<1>JoinsCond.
  ASSUME NEW u \in Tiles, Calling(u, "COND_WAIT"), \A k \in Kinds : ~ Got(u, k), toMcp'[u] = <<>>,
         NEW f, u \notin DOMAIN f, UNCHANGED clients,
         NEW w, w.core = u, w.mutex = CallOf(u).mux, JoinedCond(w, CallOf(u).obj),
         ~ AtMutex(u)', ~ InLoop(u)', ~ AtBarrier(u)', u \notin waking'.woken, u # waking'.by,
         u \notin ms'.acquired, \A m \in holding[u] : Owns(u, m)'
  PROVE  ThreadQueued(u, f)
  <2> USE <1>JoinsCond
  <2>1. mode'[u] = mode[u] /\ CallOf(u)' = CallOf(u)
    BY DEF clients, CallOf
  <2>2. Calling(u, "COND_WAIT")'
    BY <2>1 DEF Calling
  <2>3. QueuesFit(u)'
    BY <2>1, <2>2 DEF QueuesFit, AtMutex, InLoop, AtBarrier, JoinedCond
  <2> QED  BY <2>3 DEF ThreadQueued, Calling
<1>CondWaitStep.
  ASSUME NatWellOrdered, CallsInv, NEW t \in Tiles, NEW r, TakesPacket(t, r), r.op = "COND_WAIT", CondWait(t, r)
  PROVE  CallsInv' /\ (ClockInv => ClockInv')
  <2> USE <1>CondWaitStep
  <2> DEFINE x == r.mux
             c == r.obj
             w == mutexes[x].waiting
  <2>1. /\ c \in DOMAIN conds /\ x \in DOMAIN mutexes /\ mutexes[x].owner = t
        /\ barriers' = barriers /\ waking' = waking
        /\ [core |-> t, mutex |-> x] \in CondWaiters
        /\ CondSet(c, Append(conds[c], [core |-> t, mutex |-> x]))
    BY <1>CondWaitEffect
  <2>15. r.time \in Nat
    BY ObjectThere DEF Ops
  <2>2. /\ ms \in MasterTables /\ mutexes \in Seq(Mutexes) /\ conds \in Seq(Seq(CondWaiters))
        /\ barriers \in Seq(Barriers) /\ OncePerQueue /\ waking \in Wakings
        /\ waking # NotWaking => waking.by \in Tiles
    BY ServerTyped
  <2>3. /\ mode[t] = "RESPONSE" /\ CallOf(t).op = "COND_WAIT" /\ CallOf(t).obj = c /\ CallOf(t).mux = x
        /\ toMcp' \in [Tiles -> Seq(Requests)] /\ toMcp'[t] = <<>>
        /\ \A u \in Tiles : u # t => toMcp'[u] = toMcp[u]
        /\ ~ Kept(t) /\ (\A k \in Kinds : ~ Got(t, k)) /\ (\A m \in holding[t] : Owns(t, m))
        /\ \A m \in Released(CallOf(t)) : m \notin holding[t]
    BY PacketTaken, SMTT(60) DEF Ops
  <2>4. Released(CallOf(t)) = {x}
    BY <2>3, CallOps
  <2>5. PICK v \in CondWaiters : v = [core |-> t, mutex |-> x]
    BY <2>1
  <2>55. v.core = t /\ v.mutex = x
    BY <2>5
  <2>6. JoinedCond(v, c)
    <3>1. CondSet(c, Append(conds[c], v)) /\ ~ AtCond(v.core)
      BY <2>1, <2>3, <2>5, <2>55 DEF Kept
    <3> QED  BY <2>1, <2>2, <2>5, <3>1, <1>CondJoined
  <2>65. UNCHANGED clients /\ conds' \in Seq(Seq(CondWaiters)) /\ DOMAIN conds' = DOMAIN conds
    BY <2>1 DEF TakesPacket, CondSet
  \* The step, whoever the mutex goes to.
  <2>7. ASSUME NEW o, NEW q, MutexSet(mutexes, mutexes', x, o, q),
               NEW f, Answers(ms, ms', f), t \notin DOMAIN f,
               \A m \in DOMAIN mutexes' : IsInjective(mutexes'[m].waiting),
               \A u \in Tiles : \A m \in DOMAIN mutexes' : u \in Range(mutexes'[m].waiting) =>
                 m \in DOMAIN mutexes /\ u \in Range(mutexes[m].waiting),
               \A u \in Tiles : u \in DOMAIN f => ThreadAnswered(u, f)
        PROVE  CallsInv' /\ (ClockInv => ClockInv')
    <3>1. mutexes' \in Seq(Mutexes) /\ ObjectsStay
      BY <2>1, <2>65, <2>7 DEF MutexSet, ObjectsStay
    <3>2. \A u \in Tiles : u # t => OwnsStill(u)
      BY <2>1, <2>7 DEF MutexSet, OwnsStill
    <3>3. \A u \in Tiles : u # t => StaysPut(u)
      BY <2>1, <2>55, <2>6, <2>7 DEF StaysPut, JoinedCond
    <3>4. ThreadQueued(t, f)
      <4>1. ~ AtMutex(t)'
        BY <2>3, <2>7 DEF Kept, AtMutex
      <4>2. ~ InLoop(t)' /\ ~ AtBarrier(t)' /\ t \notin waking'.woken /\ t # waking'.by
        BY <2>1, <2>3 DEF Kept, InLoop, AtBarrier
      <4>3. t \notin ms'.acquired
        BY <2>3, <2>7 DEF Kept, Answers
      <4>4. \A m \in holding[t] : Owns(t, m)'
        BY <2>3, <2>4, <2>7 DEF MutexSet, Owns
      <4>5. Calling(t, "COND_WAIT") /\ v.mutex = CallOf(t).mux /\ JoinedCond(v, CallOf(t).obj)
        BY <2>3, <2>55, <2>6 DEF Calling
      <4> QED  BY <2>3, <2>55, <2>65, <2>7, <4>1, <4>2, <4>3, <4>4, <4>5, <1>JoinsCond
    <3>5. \A u \in Tiles : u # t /\ u \notin DOMAIN f => ThreadLeft(u, f)
      BY <2>3, <3>2, <3>3 DEF ThreadLeft
    <3>6. \A u \in Tiles : ThreadLeft(u, f) \/ ThreadAnswered(u, f) \/ ThreadQueued(u, f)
      BY <2>7, <3>4, <3>5
    <3>7. OncePerQueue'
      BY <2>1, <2>2, <2>6, <2>7 DEF OncePerQueue, JoinedCond
    <3>8. barriers' \in Seq(Barriers) /\ waking' \in Wakings /\ (waking' # NotWaking => waking'.by \in Tiles)
      BY <2>1, <2>2
    <3>9. CallsInv'
      BY <2>3, <2>65, <2>7, <3>1, <3>6, <3>7, <3>8, ServerStep
    <3> QED  BY <2>65, <2>7, <3>9, AnswersClock
  <2>75. Quiet(ms, StallThread(ms, t))
    BY <2>2, StallThreadEffect
  <2>8. CASE w = <<>> /\ ms' = StallThread(ms, t) /\ MutexSet(mutexes, mutexes', x, NoTile, <<>>)
    <3>1. PICK f : Answers(ms, ms', f) /\ DOMAIN f = {}
      <4>1. Answers(ms, ms', <<>>) /\ DOMAIN <<>> = {}
        BY <2>2, <2>75, <2>8, QuietAnswers, SMTT(60)
      <4> QED  BY <4>1
    <3>2. \A m \in DOMAIN mutexes' : IsInjective(mutexes'[m].waiting)
      BY <2>1, <2>2, <2>8, EmptyQueue, MutexOnce
    <3>3. \A u \in Tiles : \A m \in DOMAIN mutexes' : u \in Range(mutexes'[m].waiting) =>
            m \in DOMAIN mutexes /\ u \in Range(mutexes[m].waiting)
      BY <2>8, EmptyQueue DEF MutexSet
    <3> QED  BY <2>7, <2>8, <3>1, <3>2, <3>3
  <2>9. CASE /\ w # <<>>
             /\ \E o \in Tiles :
                  /\ o = Head(w)
                  /\ ms' = Reply(ResumeThread(StallThread(ms, t), o), o, "MUTEX_LOCK", r.time)
                  /\ MutexSet(mutexes, mutexes', x, o, Tail(w))
    <3>1. PICK o \in Tiles :
            /\ o = Head(w)
            /\ ms' = Reply(ResumeThread(StallThread(ms, t), o), o, "MUTEX_LOCK", r.time)
            /\ MutexSet(mutexes, mutexes', x, o, Tail(w))
      BY <2>9
    <3>2. LeftMutex(o, x)
      BY <2>1, <2>2, <2>9, <3>1, MutexHandedOver
    <3>3. o # t
      BY <2>1, <2>3, <3>2 DEF LeftMutex, Kept, AtMutex
    <3>4. PICK f : Answers(ms, ms', f) /\ DOMAIN f = {o} /\ f[o].code = "MUTEX_LOCK"
      <4>1. PICK m : m = StallThread(ms, t)
        OBVIOUS
      <4>2. Quiet(ms, m) /\ m \in MasterTables
        BY <2>75, <4>1 DEF Quiet
      <4>3. Quiet(m, ResumeThread(m, o))
        BY <3>1, <4>2, ResumeThreadsEffect DEF ResumeThread
      <4>4. Quiet(ms, ResumeThread(m, o))
        BY <2>2, <4>2, <4>3, QuietTrans
      <4>5. PICK msg \in Messages : msg = Msg("MUTEX_LOCK", r.time) /\ msg.code = "MUTEX_LOCK"
        BY <2>15, ReplyIs, SMTT(60) DEF Codes
      <4>6. AnswersWith(ms, Send(ResumeThread(m, o), o, "RESPONSE", msg), o, msg)
        BY <2>2, <3>1, <4>4, <4>5, AnswersOne
      <4>7. AnswersWith(ms, ms', o, msg)
        BY <3>1, <4>1, <4>5, <4>6 DEF Reply
      <4> QED  BY <4>5, <4>7 DEF AnswersWith
    <3>5. ThreadAnswered(o, f)
      <4>1. \A d \in DOMAIN conds' : \A y \in Range(conds'[d]) : y.core = o => AtCond(o)
        BY <2>55, <2>6, <3>3 DEF JoinedCond, AtCond
      <4>2. mutexes[x].owner # o /\ toMcp'[o] = toMcp[o] /\ o \in DOMAIN f
        BY <2>1, <2>3, <3>3, <3>4
      <4>3. ms'.acquired \subseteq ms.acquired
        BY <3>4 DEF Answers
      <4> QED  BY <2>1, <3>1, <3>2, <3>4, <4>1, <4>2, <4>3, GrantedThread
    <3>6. /\ \A m \in DOMAIN mutexes' : IsInjective(mutexes'[m].waiting)
          /\ \A u \in Tiles : \A m \in DOMAIN mutexes' : u \in Range(mutexes'[m].waiting) =>
               m \in DOMAIN mutexes /\ u \in Range(mutexes[m].waiting)
      BY <3>2 DEF LeftMutex
    <3>7. t \notin DOMAIN f /\ \A u \in Tiles : u \in DOMAIN f => ThreadAnswered(u, f)
      BY <3>3, <3>4, <3>5
    <3> QED  BY <2>7, <3>1, <3>4, <3>6, <3>7
  <2> QED  BY <2>8, <2>9, <1>CondWaitEffect
<1> QED  BY <1>CondWaitStep

\* No loop is in progress.
LEMMA NoLoop ==
  /\ NotWaking \in Wakings
  /\ NotWaking.left = <<>> /\ NotWaking.woken = {} /\ NotWaking.by = NoTile
  /\ \A u \in Tiles : u # NoTile
<1>1. NoTile \in Tiles \cup {NoTile} /\ <<>> \in Seq(CondWaiters) /\ {} \in SUBSET Tiles /\ 0 \in Nat
  BY SMTT(60)
<1>2. NotWaking \in Wakings
  BY <1>1 DEF NotWaking, Wakings
<1>3. \A u \in Tiles : u # NoTile
  BY TilesAssumption, SMTT(60) DEF NoTile
<1> QED  BY <1>2, <1>3 DEF NotWaking

\* SyncServer::condBroadcast takes all waiters off the condition.
LEMMA CondBroadcastStep ==
  \A t \in Tiles : \A r :
    /\ CallsInv
    /\ TakesPacket(t, r)
    /\ r.op = "COND_BROADCAST"
    /\ CondBroadcast(t, r)
    /\ waking = NotWaking
    =>
         CallsInv' /\ (ClockInv => ClockInv')
\* What condBroadcast does to the MCP's state.
<1>CondBroadcastEffect.
  ASSUME CallsInv, NEW t \in Tiles, NEW r, TakesPacket(t, r), r.op = "COND_BROADCAST", CondBroadcast(t, r)
  PROVE  /\ r.obj \in DOMAIN conds /\ barriers' = barriers /\ mutexes' = mutexes /\ ms' = ms
         /\ CondSet(r.obj, <<>>)
         /\ waking' \in Wakings /\ waking'.left = conds[r.obj] /\ waking'.woken = {} /\ waking'.by = t
  <2> USE <1>CondBroadcastEffect
  <2>1. r.obj \in DOMAIN conds /\ r.time \in Nat
    BY ObjectThere DEF Ops
  <2>2. conds \in Seq(Seq(CondWaiters))
    BY ServerTyped
  <2>3. CondSet(r.obj, <<>>)
    <3>1. <<>> \in Seq(CondWaiters)
      BY SMTT(60)
    <3>2. conds' = [conds EXCEPT ![r.obj] = <<>>]
      BY DEF CondBroadcast
    <3> QED  BY <2>1, <2>2, <3>1, <3>2, CondChanged
  <2>4. conds[r.obj] \in Seq(CondWaiters)
    BY <2>1, <2>2, SMTT(60)
  <2>5. PICK q \in Seq(CondWaiters), time \in Nat : q = conds[r.obj] /\ time = r.time
    BY <2>1, <2>4
  <2>6. waking' = [left |-> q, woken |-> {}, by |-> t, time |-> time]
    BY <2>5 DEF CondBroadcast
  <2>7. t \in Tiles \cup {NoTile} /\ {} \in SUBSET Tiles
    OBVIOUS
  <2>8. waking' \in Wakings
    BY <2>5, <2>6, <2>7 DEF Wakings
  <2>9. waking'.left = q /\ waking'.woken = {} /\ waking'.by = t
    BY <2>6
  <2>10. barriers' = barriers /\ mutexes' = mutexes /\ ms' = ms
    BY DEF CondBroadcast
  <2> QED  BY <2>1, <2>3, <2>5, <2>8, <2>9, <2>10
<1>CondBroadcastStep.
  ASSUME CallsInv, NEW t \in Tiles, NEW r, TakesPacket(t, r), r.op = "COND_BROADCAST",
         CondBroadcast(t, r), waking = NotWaking
  PROVE  CallsInv' /\ (ClockInv => ClockInv')
  <2> USE <1>CondBroadcastStep
  <2>0. PICK c : c = r.obj
    OBVIOUS
  <2>1. /\ c \in DOMAIN conds /\ barriers' = barriers /\ mutexes' = mutexes /\ ms' = ms
        /\ CondSet(c, <<>>)
        /\ waking' \in Wakings /\ waking'.left = conds[c] /\ waking'.woken = {} /\ waking'.by = t
    BY <2>0, <1>CondBroadcastEffect
  <2>2. /\ ms \in MasterTables /\ mutexes \in Seq(Mutexes) /\ conds \in Seq(Seq(CondWaiters))
        /\ barriers \in Seq(Barriers) /\ OncePerQueue
    BY ServerTyped
  <2>3. /\ mode[t] = "RESPONSE" /\ CallOf(t).op = "COND_BROADCAST"
        /\ toMcp' \in [Tiles -> Seq(Requests)] /\ toMcp'[t] = <<>>
        /\ \A u \in Tiles : u # t => toMcp'[u] = toMcp[u]
        /\ ~ Kept(t) /\ (\A k \in Kinds : ~ Got(t, k)) /\ (\A m \in holding[t] : Owns(t, m))
    BY PacketTaken DEF Ops
  <2>4. UNCHANGED clients
    BY DEF TakesPacket
  <2>5. PICK f : Answers(ms, ms', f) /\ DOMAIN f = {}
    <3>1. Quiet(ms, ms')
      BY <2>1, <2>2, QuietSame
    <3>2. Answers(ms, ms', <<>>) /\ DOMAIN <<>> = {}
      BY <2>2, <3>1, QuietAnswers, SMTT(60)
    <3> QED  BY <3>2
  <2>6. /\ conds' \in Seq(Seq(CondWaiters)) /\ DOMAIN conds' = DOMAIN conds
        /\ \A d \in DOMAIN conds' : \A v \in Range(conds'[d]) : d \in DOMAIN conds /\ d # c /\ v \in Range(conds[d])
        /\ \A d \in DOMAIN conds' : CoresDiffer(conds'[d])
    <3>1. \A d \in DOMAIN conds : d = c \/ conds'[d] = conds[d]
      BY <2>1 DEF CondSet
    <3>2. conds'[c] = <<>> /\ conds' \in Seq(Seq(CondWaiters)) /\ DOMAIN conds' = DOMAIN conds
      BY <2>1 DEF CondSet
    <3>3. Range(conds'[c]) = {} /\ CoresDiffer(conds'[c])
      BY <3>2, EmptyQueue
    <3>4. \A d \in DOMAIN conds' : CoresDiffer(conds'[d])
      <4>1. ASSUME NEW d \in DOMAIN conds' PROVE CoresDiffer(conds'[d])
        <5>1. CASE d = c
          BY <3>3, <5>1
        <5>2. CASE d # c
          BY <2>2, <3>1, <3>2, <5>2 DEF OncePerQueue
        <5> QED  BY <5>1, <5>2
      <4> QED  BY <4>1
    <3>5. \A d \in DOMAIN conds' : \A v \in Range(conds'[d]) : d \in DOMAIN conds /\ d # c /\ v \in Range(conds[d])
      <4>1. ASSUME NEW d \in DOMAIN conds', NEW v \in Range(conds'[d])
            PROVE  d \in DOMAIN conds /\ d # c /\ v \in Range(conds[d])
        BY <3>1, <3>2, <3>3, <4>1
      <4> QED  BY <4>1
    <3> QED  BY <3>2, <3>4, <3>5
  <2>7. OncePerQueue' /\ ObjectsStay
    <3>1. CoresDiffer(waking'.left)
      BY <2>1, <2>2 DEF OncePerQueue
    <3>2. CoresDiffer(waking.left)'
      BY <3>1 DEF CoresDiffer
    <3>3. ObjectsStay
      BY <2>1, <2>6 DEF ObjectsStay
    <3> QED  BY <2>1, <2>2, <2>6, <3>2, <3>3 DEF OncePerQueue
  <2>8. \A u \in Tiles : \A m \in holding[u] : Owns(u, m)'
    BY <2>1 DEF Owns, CallsInv, ThreadOK, MutexesOwned
  <2>85. waking.left = <<>> /\ waking.woken = {} /\ \A u \in Tiles : u # waking.by
    BY NoLoop
  <2>9. ASSUME NEW u \in Tiles, \E v \in Range(conds[c]) : v.core = u
        PROVE  ThreadQueued(u, f)
    <3>1. AtCond(u) /\ ThreadOK(u)
      BY <2>1, <2>9 DEF AtCond, CallsInv
    <3>2. u # t
      BY <2>3, <3>1 DEF Kept
    <3>3. /\ mode[u] = "RESPONSE" /\ toMcp[u] = <<>> /\ (\A i \in Kinds : ~ Got(u, i))
          /\ ~ AtBarrier(u) /\ u \notin ms.acquired
      BY <3>1, LockWaiter
    <3>4. ~ AtMutex(u)
      BY <3>1 DEF ThreadOK, InOnePlace
    <3>5. \A d \in DOMAIN conds : \A v \in Range(conds[d]) :
            v.core = u => Calling(u, "COND_WAIT") /\ CallOf(u).obj = d /\ CallOf(u).mux = v.mutex
      BY <3>1 DEF ThreadOK, QueuesFit
    <3>6. CallOf(u).obj = c
      BY <2>1, <2>9, <3>5
    <3>7. ~ AtCond(u)'
      BY <2>6, <3>5, <3>6 DEF AtCond
    <3>8. ~ AtMutex(u)' /\ ~ AtBarrier(u)' /\ u \notin ms'.acquired
      BY <2>1, <3>3, <3>4 DEF AtMutex, AtBarrier
    <3>9. CallOf(u)' = CallOf(u) /\ mode'[u] = mode[u]
      BY <2>4 DEF clients, CallOf
    <3>10. \A v \in Range(waking'.left) : v.core = u => Calling(u, "COND_WAIT") /\ CallOf(u).mux = v.mutex
      BY <2>1, <3>5
    <3>11. QueuesFit(u)'
      BY <2>1, <3>2, <3>7, <3>8, <3>9, <3>10 DEF QueuesFit, AtMutex, AtCond, AtBarrier, Calling
    <3>12. u \notin waking'.woken /\ toMcp'[u] = <<>> /\ u \notin DOMAIN f
      BY <2>1, <2>3, <2>5, <3>2, <3>3
    <3> QED  BY <2>8, <3>3, <3>7, <3>8, <3>11, <3>12 DEF ThreadQueued
  <2>10. ThreadQueued(t, f)
    <3>1. ~ AtMutex(t)' /\ ~ AtBarrier(t)' /\ ~ AtCond(t)' /\ t \notin ms'.acquired
      BY <2>1, <2>3, <2>6 DEF Kept, AtMutex, AtBarrier, AtCond
    <3>2. ~ \E v \in Range(conds[c]) : v.core = t
      BY <2>1, <2>3 DEF Kept, AtCond
    <3>3. \A v \in Range(waking'.left) : v.core # t
      BY <2>1, <3>2
    <3>4. CallOf(t)' = CallOf(t) /\ mode'[t] = mode[t]
      BY <2>4 DEF clients, CallOf
    <3>5. Calling(t, "COND_BROADCAST")'
      BY <2>3, <3>4 DEF Calling
    <3>6. QueuesFit(t)'
      BY <2>1, <3>1, <3>3, <3>5 DEF QueuesFit, AtMutex, AtCond, AtBarrier
    <3>7. t \notin waking'.woken /\ t \notin DOMAIN f
      BY <2>1, <2>5
    <3> QED  BY <2>3, <2>8, <3>1, <3>6, <3>7 DEF ThreadQueued
  <2>11. ASSUME NEW u \in Tiles, u # t, ~ \E v \in Range(conds[c]) : v.core = u
         PROVE  ThreadLeft(u, f)
    <3>1. \A v \in Range(waking'.left) : v.core # u
      BY <2>1, <2>11
    <3>2. StaysPut(u)
      BY <2>1, <2>6, <2>11, <3>1 DEF StaysPut
    <3>3. OwnsStill(u)
      BY <2>1 DEF OwnsStill
    <3> QED  BY <2>3, <2>5, <2>11, <3>2, <3>3 DEF ThreadLeft
  <2>12. \A u \in Tiles : ThreadLeft(u, f) \/ ThreadAnswered(u, f) \/ ThreadQueued(u, f)
    BY <2>9, <2>10, <2>11
  <2>13. /\ mutexes' \in Seq(Mutexes) /\ barriers' \in Seq(Barriers)
         /\ waking' # NotWaking => waking'.by \in Tiles
    BY <2>1, <2>2
  <2>14. CallsInv'
    BY <2>1, <2>3, <2>4, <2>5, <2>6, <2>7, <2>12, <2>13, ServerStep
  <2> QED  BY <2>4, <2>5, <2>14, AnswersClock
<1> QED  BY <1>CondBroadcastStep

\* condBroadcast answers the threads that got their mutex, then the caller.
LEMMA WakeDoneStep ==
  
    /\ CallsInv
    /\ WakeDone
    =>
         CallsInv' /\ (ClockInv => ClockInv')
\* The thread that has called condBroadcast, while the loop is in progress.
<1>Broadcaster.
  ASSUME NEW u \in Tiles, ThreadOK(u), u = waking.by
  PROVE  /\ mode[u] = "RESPONSE"
         /\ Expected(CallOf(u)) = "COND_BROADCAST" /\ ~ Makes(CallOf(u)) /\ Obtained(CallOf(u)) = {}
         /\ toMcp[u] = <<>> /\ (\A k \in Kinds : ~ Got(u, k))
         /\ ~ AtMutex(u) /\ ~ AtCond(u) /\ ~ AtBarrier(u) /\ ~ InLoop(u)
         /\ u \notin waking.woken /\ u \notin ms.acquired
         /\ \A m \in holding[u] : Owns(u, m)
  <2> USE <1>Broadcaster
  <2>1. mode[u] = "RESPONSE" /\ CallOf(u).op = "COND_BROADCAST"
    BY DEF ThreadOK, QueuesFit, Calling
  <2>2. Expected(CallOf(u)) = "COND_BROADCAST" /\ ~ Makes(CallOf(u)) /\ Obtained(CallOf(u)) = {}
    BY <2>1, CallOps DEF Makes
  <2>3. Kept(u)
    BY DEF Kept
  <2>4. toMcp[u] = <<>> /\ (\A k \in Kinds : ~ Got(u, k))
    BY <2>3 DEF ThreadOK, InOnePlace, Asked
  <2>5. ~ AtMutex(u)
    BY <2>2 DEF ThreadOK, QueuesFit, AtMutex
  <2>6. ~ AtCond(u) /\ ~ AtBarrier(u) /\ ~ InLoop(u) /\ u \notin waking.woken /\ u \notin ms.acquired
    BY <2>1 DEF ThreadOK, QueuesFit, AtCond, AtBarrier, InLoop, Calling
  <2>7. \A m \in holding[u] : Owns(u, m)
    BY DEF ThreadOK, MutexesOwned
  <2> QED  BY <2>1, <2>2, <2>4, <2>5, <2>6, <2>7
\* The answers at the end of the loop go to the woken threads and to the
\* broadcaster.
<1>LoopAnswers.
  ASSUME NEW m \in MasterTables, NEW S \in SUBSET Tiles, NEW u \in Tiles, u \notin S,
         NEW c1 \in Codes, NEW v1 \in Nat, NEW c2 \in Codes, NEW v2 \in Nat
  PROVE  AnswersSet(m, Reply(SendAll(m, S, "RESPONSE", Msg(c1, v1)), u, c2, v2), S, c1, u, c2)
  <2> USE <1>LoopAnswers
  <2>0. PICK p : p = Reply(SendAll(m, S, "RESPONSE", Msg(c1, v1)), u, c2, v2)
    OBVIOUS
  <2>1. PICK m1 \in Messages : m1 = Msg(c1, v1)
    BY ReplyIs
  <2>2. PICK m2 \in Messages : m2 = Msg(c2, v2)
    BY ReplyIs
  <2>3. PICK k : k = SendAll(m, S, "RESPONSE", m1)
    OBVIOUS
  <2>4. p = Send(k, u, "RESPONSE", m2) /\ m1.code = c1 /\ m2.code = c2
    BY <2>0, <2>1, <2>2, <2>3, ReplyIs DEF Reply
  <2>5. PICK f : Answers(m, k, f) /\ DOMAIN f = S /\ \A x \in S : f[x] = m1
    <3>1. Quiet(m, m)
      BY QuietSame
    <3>2. Answers(m, k, [x \in S |-> m1])
      BY <2>1, <2>3, <3>1, AnswersSendAll
    <3>3. PICK f : f = [x \in S |-> m1]
      OBVIOUS
    <3>4. DOMAIN f = S /\ \A x \in S : f[x] = m1
      BY <3>3
    <3>5. Answers(m, k, f)
      BY <3>2, <3>3
    <3> QED  BY <3>4, <3>5
  <2>6. PICK g : Answers(m, p, g) /\ DOMAIN g = DOMAIN f \cup {u} /\ g[u] = m2 /\ \A x \in DOMAIN f : g[x] = f[x]
    <3>1. AnswersAlso(m, Send(k, u, "RESPONSE", m2), f, u, m2)
      BY <2>2, <2>5, AnswersMore
    <3> QED  BY <2>4, <2>5, <3>1 DEF AnswersAlso
  <2>7. DOMAIN g = S \cup {u} /\ g[u].code = c2 /\ \A x \in S : g[x].code = c1
    BY <2>4, <2>5, <2>6
  <2>8. AnswersSet(m, p, S, c1, u, c2)
    BY <2>6, <2>7 DEF AnswersSet
  <2> QED  BY <2>0, <2>8
<1>WakeDoneStep.
  ASSUME CallsInv, WakeDone
  PROVE  CallsInv' /\ (ClockInv => ClockInv')
  <2> USE <1>WakeDoneStep
  <2>1. /\ UNCHANGED clients /\ toMcp' = toMcp /\ conds' = conds /\ barriers' = barriers /\ mutexes' = mutexes
        /\ waking # NotWaking /\ waking' = NotWaking
        /\ ms' = Reply(SendAll(ms, waking.woken, "RESPONSE", Msg("MUTEX_LOCK", waking.time)),
                       waking.by, "COND_BROADCAST", 0)
    BY DEF WakeDone
  <2>2. /\ ms \in MasterTables /\ mutexes \in Seq(Mutexes) /\ conds \in Seq(Seq(CondWaiters))
        /\ barriers \in Seq(Barriers) /\ OncePerQueue /\ waking \in Wakings
        /\ waking.by \in Tiles /\ toMcp \in [Tiles -> Seq(Requests)]
    BY <2>1, ServerTyped DEF CallsInv, TypeOK
  <2>3. PICK t \in Tiles, S \in SUBSET Tiles, time \in Nat : t = waking.by /\ S = waking.woken /\ time = waking.time
    <3>1. waking.by \in Tiles /\ waking.woken \in SUBSET Tiles /\ waking.time \in Nat
      BY <2>2 DEF Wakings
    <3> QED  BY <3>1
  <2>4. ThreadOK(t)
    BY DEF CallsInv
  <2>5. /\ mode[t] = "RESPONSE"
        /\ Expected(CallOf(t)) = "COND_BROADCAST" /\ ~ Makes(CallOf(t)) /\ Obtained(CallOf(t)) = {}
        /\ toMcp[t] = <<>> /\ (\A k \in Kinds : ~ Got(t, k))
        /\ ~ AtMutex(t) /\ ~ AtCond(t) /\ ~ AtBarrier(t) /\ t \notin S /\ t \notin ms.acquired
        /\ \A m \in holding[t] : Owns(t, m)
    BY <2>3, <2>4, <1>Broadcaster
  <2>6. PICK f : /\ Answers(ms, ms', f)
                 /\ DOMAIN f = S \cup {t} /\ f[t].code = "COND_BROADCAST" /\ \A x \in S : f[x].code = "MUTEX_LOCK"
    <3>1. "MUTEX_LOCK" \in Codes /\ "COND_BROADCAST" \in Codes /\ 0 \in Nat
      BY DEF Codes
    <3>2. AnswersSet(ms, Reply(SendAll(ms, S, "RESPONSE", Msg("MUTEX_LOCK", time)), t, "COND_BROADCAST", 0),
                     S, "MUTEX_LOCK", t, "COND_BROADCAST")
      BY <2>2, <2>3, <2>5, <3>1, <1>LoopAnswers
    <3>3. AnswersSet(ms, ms', S, "MUTEX_LOCK", t, "COND_BROADCAST")
      BY <2>1, <2>3, <3>2
    <3> QED  BY <3>3 DEF AnswersSet
  <2>7. /\ waking' \in Wakings /\ waking'.left = <<>> /\ waking'.woken = {}
        /\ \A u \in Tiles : u # waking'.by
    BY <2>1, NoLoop
  <2>8. \A u \in Tiles : ~ InLoop(u)' /\ u \notin waking'.woken /\ u # waking'.by
    BY <2>7, EmptyQueue DEF InLoop
  <2>9. \A u \in Tiles : StaysPut(u) /\ OwnsStill(u)
    <3>1. Range(waking'.left) = {}
      BY <2>7, EmptyQueue
    <3> QED  BY <2>1, <2>7, <3>1 DEF StaysPut, OwnsStill
  <2>10. OncePerQueue' /\ ObjectsStay
    <3>1. CoresDiffer(waking'.left)
      BY <2>7, EmptyQueue
    <3>2. CoresDiffer(waking.left)'
      BY <3>1 DEF CoresDiffer
    <3> QED  BY <2>1, <2>2, <3>2 DEF OncePerQueue, ObjectsStay
  <2>11. ASSUME NEW u \in Tiles, ~ AtMutex(u), ~ AtCond(u), ~ AtBarrier(u), u \notin ms.acquired
         PROVE  ~ Kept(u)'
    <3>1. ~ AtMutex(u)' /\ ~ AtCond(u)' /\ ~ AtBarrier(u)'
      BY <2>1, <2>11 DEF AtMutex, AtCond, AtBarrier
    <3>2. u \notin ms'.acquired
      BY <2>6, <2>11 DEF Answers
    <3> QED  BY <2>8, <3>1, <3>2 DEF Kept
  <2>12. ThreadAnswered(t, f)
    <3>1. ~ Kept(t)'
      BY <2>5, <2>11
    <3>2. \A m \in holding[t] : Owns(t, m)'
      BY <2>1, <2>5 DEF Owns
    <3> QED  BY <2>1, <2>5, <2>6, <3>1, <3>2 DEF ThreadAnswered
  <2>13. ASSUME NEW u \in Tiles, u \in S
         PROVE  ThreadAnswered(u, f)
    <3>1. ThreadOK(u) /\ u \in waking.woken
      BY <2>3, <2>13 DEF CallsInv
    <3>2. ~ AtBarrier(u) /\ u \notin ms.acquired /\ \A m \in holding[u] : Owns(u, m)
      BY <3>1, LockWaiter
    <3>3. ~ AtMutex(u) /\ ~ AtCond(u)
      BY <3>1 DEF ThreadOK, InOnePlace
    <3>4. ~ Kept(u)'
      BY <2>11, <3>2, <3>3
    <3>5. \A m \in holding[u] : Owns(u, m)'
      BY <2>1, <3>2 DEF Owns
    <3>6. \A m \in Obtained(CallOf(u)) : Owns(u, m)
      BY <3>1 DEF ThreadOK, MutexesOwned
    <3>7. \A m \in Obtained(CallOf(u)) : Owns(u, m)'
      BY <2>1, <3>6 DEF Owns
    <3>8. toMcp'[u] = toMcp[u] /\ u \in DOMAIN f /\ f[u].code = "MUTEX_LOCK"
      BY <2>1, <2>6, <2>13
    <3> QED  BY <3>1, <3>4, <3>5, <3>7, <3>8, GetsMutex
  <2>14. \A u \in Tiles : u # t /\ u \notin S => ThreadLeft(u, f)
    BY <2>1, <2>6, <2>9 DEF ThreadLeft
  <2>15. \A u \in Tiles : ThreadLeft(u, f) \/ ThreadAnswered(u, f) \/ ThreadQueued(u, f)
    BY <2>12, <2>13, <2>14
  <2>16. /\ mutexes' \in Seq(Mutexes) /\ barriers' \in Seq(Barriers) /\ conds' \in Seq(Seq(CondWaiters))
         /\ toMcp' \in [Tiles -> Seq(Requests)] /\ (waking' # NotWaking => waking'.by \in Tiles)
    BY <2>1, <2>2
  <2>17. CallsInv'
    BY <2>1, <2>6, <2>7, <2>10, <2>15, <2>16, ServerStep
  <2> QED  BY <2>1, <2>6, <2>17, AnswersClock
<1> QED  BY <1>WakeDoneStep

\* SyncServer::condSignal and an iteration of SimCond::broadcast's loop wake
\* one waiter, which gets its mutex or queues up for it.
LEMMA WakeSteps ==
  NatWellOrdered /\ CallsInv =>
    /\ \A t \in Tiles : \A r :
         TakesPacket(t, r) /\ r.op = "COND_SIGNAL" /\ CondSignal(t, r) => CallsInv' /\ (ClockInv => ClockInv')
    /\ WakeNext => CallsInv' /\ (ClockInv => ClockInv')
\* What leaves a queue of waiters is no longer in it.
<1>CoresTail.
  ASSUME NEW s \in Seq(CondWaiters), s # <<>>, CoresDiffer(s)
  PROVE  /\ Tail(s) \in Seq(CondWaiters) /\ Head(s) \in CondWaiters /\ Head(s) \in Range(s)
         /\ Range(Tail(s)) \subseteq Range(s)
         /\ \A x \in Range(s) : x \in Range(Tail(s)) <=> x.core # Head(s).core
         /\ CoresDiffer(Tail(s))
  <2> USE <1>CoresTail
  <2> DEFINE r == Tail(s)
             h == Head(s)
  <2>1. r \in Seq(CondWaiters) /\ h \in CondWaiters /\ h \in Range(s) /\ Range(r) \subseteq Range(s)
    BY RangeTail
  <2>2. /\ h = s[1]
        /\ Len(s) \in Nat /\ Len(s) >= 1 /\ DOMAIN s = 1..Len(s) /\ DOMAIN r = 1..(Len(s) - 1)
        /\ \A i \in DOMAIN r : r[i] = s[i + 1]
    BY SMTT(60)
  <2> HIDE DEF r, h
  <2>3. 1 \in DOMAIN s /\ \A i \in DOMAIN r : i + 1 \in DOMAIN s /\ i + 1 # 1
    BY <2>2, SMTT(60)
  <2>4. \A i \in DOMAIN s : i # 1 => i - 1 \in DOMAIN r /\ r[i - 1] = s[i]
    BY <2>2, SMTT(60)
  <2>5. CoresDiffer(r)
    BY <2>2, <2>3, SMTT(60) DEF CoresDiffer
  <2>6. \A w \in Range(r) : w.core # h.core
    BY <2>2, <2>3, SMTT(60) DEF CoresDiffer, Range
  <2>7. \A w \in Range(s) : w = h \/ w \in Range(r)
    BY <2>2, <2>4, SMTT(60) DEF Range
  <2> QED  BY <2>1, <2>5, <2>6, <2>7 DEF r, h
\* A waiter of a condition is resumed, and gets its mutex or queues up for it.
<1>WakeEffect.
  ASSUME ms \in MasterTables, mutexes \in Seq(Mutexes), NEW w \in CondWaiters,
         w.mutex \in DOMAIN mutexes, NEW s, s = Wake(ms, w)
  PROVE  /\ s = [table |-> s.table, mutexes |-> s.mutexes]
         /\ \/ /\ GotLock(w) /\ mutexes[w.mutex].owner = NoTile /\ s.table = ResumeThread(ms, w.core)
               /\ MutexSet(mutexes, s.mutexes, w.mutex, w.core, mutexes[w.mutex].waiting)
            \/ /\ ~ GotLock(w) /\ mutexes[w.mutex].owner # NoTile
               /\ s.table = StallThread(ResumeThread(ms, w.core), w.core)
               /\ MutexSet(mutexes, s.mutexes, w.mutex, mutexes[w.mutex].owner,
                           Append(mutexes[w.mutex].waiting, w.core))
  <2> USE <1>WakeEffect
  <2>1. w.core \in Tiles
    BY DEF CondWaiters
  <2>2. PICK m \in MasterTables : m = ResumeThread(ms, w.core)
    BY <2>1, ResumeThreadsEffect, SMTT(60) DEF Quiet, ResumeThread
  <2>3. s = Lock([table |-> m, mutexes |-> mutexes], w.mutex, w.core)
    BY <2>2 DEF Wake, Server
  <2>4. GotLock(w) <=> mutexes[w.mutex].owner = NoTile
    BY DEF GotLock, Free
  <2>5. /\ s = [table |-> s.table, mutexes |-> s.mutexes]
        /\ \/ /\ mutexes[w.mutex].owner = NoTile /\ s.table = m
              /\ MutexSet(mutexes, s.mutexes, w.mutex, w.core, mutexes[w.mutex].waiting)
           \/ /\ mutexes[w.mutex].owner # NoTile /\ s.table = StallThread(m, w.core)
              /\ MutexSet(mutexes, s.mutexes, w.mutex, mutexes[w.mutex].owner,
                          Append(mutexes[w.mutex].waiting, w.core))
    BY <2>1, <2>2, <2>3, LockEffect
  <2> QED  BY <2>2, <2>4, <2>5
\* Dropping the first element of a sequence.
<1>TailType.
  ASSUME NEW S, NEW q \in Seq(S), q # <<>>
  PROVE  Tail(q) \in Seq(S)
  BY <1>TailType, SMTT(60)
\* The master's table when a waiter is woken.
<1>WakeQuiet.
  ASSUME NatWellOrdered, NEW m \in MasterTables, NEW u \in Tiles
  PROVE  /\ Quiet(m, ResumeThread(m, u))
         /\ Quiet(m, StallThread(ResumeThread(m, u), u))
  <2> USE <1>WakeQuiet
  <2>1. PICK n : n = ResumeThread(m, u)
    OBVIOUS
  <2>2. Quiet(m, n) /\ n \in MasterTables
    BY <2>1, ResumeThreadsEffect, SMTT(60) DEF ResumeThread, Quiet
  <2>3. Quiet(n, StallThread(n, u))
    BY <2>2, StallThreadEffect
  <2>4. Quiet(m, StallThread(n, u))
    BY <2>2, <2>3, QuietTrans
  <2> QED  BY <2>1, <2>2, <2>4
\* What the change of one mutex does to the owners, when it was free or stays
\* with its owner.
<1>OwnersStay.
  ASSUME CallsInv, NEW x \in DOMAIN mutexes, NEW o, NEW q, MutexSet(mutexes, mutexes', x, o, q),
         mutexes[x].owner = NoTile \/ mutexes[x].owner = o
  PROVE  /\ mutexes' \in Seq(Mutexes) /\ DOMAIN mutexes' = DOMAIN mutexes
         /\ \A u \in Tiles : OwnsStill(u)
         /\ \A u \in Tiles : \A m \in holding[u] : Owns(u, m)'
  <2> USE <1>OwnersStay
  <2>1. \A u \in Tiles : u # NoTile
    BY TilesAssumption, SMTT(60) DEF NoTile
  <2>2. \A u \in Tiles : OwnsStill(u)
    BY <2>1 DEF MutexSet, OwnsStill
  <2>3. \A u \in Tiles : \A m \in holding[u] : Owns(u, m)'
    BY <2>1, SMTT(60) DEF MutexSet, Owns, CallsInv, ThreadOK, MutexesOwned
  <2> QED  BY <2>2, <2>3 DEF MutexSet
\* A mutex changes hands and its queue stays.
<1>SameQueues.
  ASSUME OncePerQueue, NEW x \in DOMAIN mutexes, NEW o,
         MutexSet(mutexes, mutexes', x, o, mutexes[x].waiting)
  PROVE  /\ \A m \in DOMAIN mutexes' : IsInjective(mutexes'[m].waiting)
         /\ \A u \in Tiles : \A m \in DOMAIN mutexes' : u \in Range(mutexes'[m].waiting) =>
              m \in DOMAIN mutexes /\ u \in Range(mutexes[m].waiting)
  <2> USE <1>SameQueues
  <2>1. DOMAIN mutexes' = DOMAIN mutexes /\ \A m \in DOMAIN mutexes : mutexes'[m].waiting = mutexes[m].waiting
    BY DEF MutexSet
  <2> QED  BY <2>1 DEF OncePerQueue
\* A thread that a condition has keeps waiting for the condition.
<1>CondWaiter.
  ASSUME NEW w, w.core \in Tiles, ThreadOK(w.core),
         (InLoop(w.core) /\ w \in Range(waking.left)) \/ \E c \in DOMAIN conds : w \in Range(conds[c])
  PROVE  /\ Obtained(CallOf(w.core)) = {w.mutex} /\ w.mutex \in DOMAIN mutexes
         /\ ~ AtMutex(w.core) /\ w.core \notin waking.woken
         /\ InLoop(w.core) => ~ AtCond(w.core)
         /\ \A c \in DOMAIN conds : w \in Range(conds[c]) =>
              ~ InLoop(w.core) /\ \A d \in DOMAIN conds : \A v \in Range(conds[d]) : v.core = w.core => d = c
  <2> USE <1>CondWaiter
  <2>1. Calling(w.core, "COND_WAIT") /\ CallOf(w.core).mux = w.mutex
    BY DEF ThreadOK, QueuesFit
  <2>2. w.mutex \in DOMAIN mutexes
    BY <2>1 DEF ThreadOK, CallKnown, Calling
  <2>3. Obtained(CallOf(w.core)) = {w.mutex}
    BY <2>1, CallOps DEF Calling
  <2>4. AtCond(w.core) \/ InLoop(w.core)
    BY DEF AtCond
  <2>5. /\ ~ AtMutex(w.core) /\ w.core \notin waking.woken
        /\ InLoop(w.core) => ~ AtCond(w.core)
    BY <2>4 DEF ThreadOK, InOnePlace
  <2>6. \A c \in DOMAIN conds : w \in Range(conds[c]) =>
          ~ InLoop(w.core) /\ \A d \in DOMAIN conds : \A v \in Range(conds[d]) : v.core = w.core => d = c
    BY <2>5 DEF ThreadOK, QueuesFit, AtCond
  <2> QED  BY <2>2, <2>3, <2>5, <2>6
\* What condSignal does to the MCP's state.
<1>CondSignalEffect.
  ASSUME CallsInv, NEW t \in Tiles, NEW r, TakesPacket(t, r), r.op = "COND_SIGNAL", CondSignal(t, r)
  PROVE  /\ r.obj \in DOMAIN conds /\ barriers' = barriers /\ waking' = waking
         /\ \/ /\ conds[r.obj] = <<>> /\ ms' = Reply(ms, t, "COND_SIGNAL", 0)
               /\ mutexes' = mutexes /\ conds' = conds
            \/ /\ conds[r.obj] # <<>> /\ CondSet(r.obj, Tail(conds[r.obj]))
               /\ \E w \in CondWaiters :
                  /\ w = Head(conds[r.obj]) /\ w.mutex \in DOMAIN mutexes
                  /\ \/ /\ mutexes[w.mutex].owner = NoTile
                        /\ ms' = Reply(Reply(ResumeThread(ms, w.core), w.core, "MUTEX_LOCK", r.time),
                                       t, "COND_SIGNAL", 0)
                        /\ MutexSet(mutexes, mutexes', w.mutex, w.core, mutexes[w.mutex].waiting)
                     \/ /\ mutexes[w.mutex].owner # NoTile
                        /\ ms' = Reply(StallThread(ResumeThread(ms, w.core), w.core),
                                       t, "COND_SIGNAL", 0)
                        /\ MutexSet(mutexes, mutexes', w.mutex, mutexes[w.mutex].owner,
                                    Append(mutexes[w.mutex].waiting, w.core))
  <2> USE <1>CondSignalEffect
  <2>1. r.obj \in DOMAIN conds /\ r.time \in Nat
    BY ObjectThere DEF Ops
  <2>2. ms \in MasterTables /\ mutexes \in Seq(Mutexes) /\ conds \in Seq(Seq(CondWaiters)) /\ OncePerQueue
    BY ServerTyped
  <2>3. barriers' = barriers /\ waking' = waking
    BY DEF CondSignal
  <2>4. CASE conds[r.obj] = <<>>
    <3>1. ms' = Reply(ms, t, "COND_SIGNAL", 0) /\ mutexes' = mutexes /\ conds' = conds
      <4>1. Becomes(Server(Reply(ms, t, "COND_SIGNAL", 0))) /\ conds' = conds
        BY <2>4 DEF CondSignal
      <4> QED  BY <4>1 DEF Becomes, Server
    <3> QED  BY <2>1, <2>3, <2>4, <3>1
  <2>5. CASE conds[r.obj] # <<>>
    <3>1. conds[r.obj] \in Seq(CondWaiters) /\ CoresDiffer(conds[r.obj])
      BY <2>1, <2>2, SMTT(60) DEF OncePerQueue
    <3>2. PICK w \in CondWaiters : w = Head(conds[r.obj]) /\ w \in Range(conds[r.obj])
      BY <2>5, <3>1, <1>CoresTail
    <3>3. w.mutex \in DOMAIN mutexes
      <4>1. w.core \in Tiles
        BY <3>2 DEF CondWaiters
      <4>2. ThreadOK(w.core) /\ \E c \in DOMAIN conds : w \in Range(conds[c])
        BY <2>1, <3>2, <4>1 DEF CallsInv
      <4> QED  BY <4>1, <4>2, <1>CondWaiter
    <3>4. CondSet(r.obj, Tail(conds[r.obj]))
      <4>1. PICK q \in Seq(CondWaiters) : q = Tail(conds[r.obj])
        BY <2>5, <3>1, <1>TailType
      <4>2. conds' = [conds EXCEPT ![r.obj] = q]
        BY <2>5, <4>1 DEF CondSignal
      <4> QED  BY <2>1, <2>2, <4>1, <4>2, CondChanged
    <3> DEFINE s == Wake(ms, w)
               q == [s EXCEPT !.table = Reply(IF GotLock(w) THEN MutexReply(s.table, w.core, r.time)
                                                            ELSE s.table, t, "COND_SIGNAL", 0)]
    <3>5. Becomes(q)
      BY <2>5, <3>2 DEF CondSignal
    <3>6. /\ s = [table |-> s.table, mutexes |-> s.mutexes]
          /\ \/ /\ GotLock(w) /\ mutexes[w.mutex].owner = NoTile /\ s.table = ResumeThread(ms, w.core)
                /\ MutexSet(mutexes, s.mutexes, w.mutex, w.core, mutexes[w.mutex].waiting)
             \/ /\ ~ GotLock(w) /\ mutexes[w.mutex].owner # NoTile
                /\ s.table = StallThread(ResumeThread(ms, w.core), w.core)
                /\ MutexSet(mutexes, s.mutexes, w.mutex, mutexes[w.mutex].owner,
                            Append(mutexes[w.mutex].waiting, w.core))
      BY <2>2, <3>2, <3>3, <1>WakeEffect
    <3> HIDE DEF s
    <3>7. /\ q.table = Reply(IF GotLock(w) THEN MutexReply(s.table, w.core, r.time)
                                           ELSE s.table, t, "COND_SIGNAL", 0)
          /\ q.mutexes = s.mutexes
      <4>1. PICK a, b : s = [table |-> a, mutexes |-> b]
        BY <3>6
      <4> QED  BY <4>1
    <3> HIDE DEF q
    <3>8. /\ ms' = Reply(IF GotLock(w) THEN MutexReply(s.table, w.core, r.time)
                                       ELSE s.table, t, "COND_SIGNAL", 0)
          /\ mutexes' = s.mutexes
      BY <3>5, <3>7 DEF Becomes
    <3>9. MutexReply(s.table, w.core, r.time) = Reply(s.table, w.core, "MUTEX_LOCK", r.time)
      BY DEF MutexReply, Reply
    <3>10. CASE GotLock(w)
      <4>1. /\ mutexes[w.mutex].owner = NoTile
            /\ ms' = Reply(Reply(ResumeThread(ms, w.core), w.core, "MUTEX_LOCK", r.time),
                           t, "COND_SIGNAL", 0)
            /\ MutexSet(mutexes, mutexes', w.mutex, w.core, mutexes[w.mutex].waiting)
        BY <3>6, <3>8, <3>9, <3>10
      <4> QED  BY <2>1, <2>3, <2>5, <3>2, <3>3, <3>4, <4>1
    <3>11. CASE ~ GotLock(w)
      <4>1. /\ mutexes[w.mutex].owner # NoTile
            /\ ms' = Reply(StallThread(ResumeThread(ms, w.core), w.core), t, "COND_SIGNAL", 0)
            /\ MutexSet(mutexes, mutexes', w.mutex, mutexes[w.mutex].owner,
                        Append(mutexes[w.mutex].waiting, w.core))
        BY <3>6, <3>8, <3>11
      <4> QED  BY <2>1, <2>3, <2>5, <3>2, <3>3, <3>4, <4>1
    <3> QED  BY <3>10, <3>11
  <2> QED  BY <2>4, <2>5
\* The waiter that is signalled leaves the condition, and no other does.
<1>CondLeft.
  ASSUME OncePerQueue, conds \in Seq(Seq(CondWaiters)), NEW c \in DOMAIN conds,
         conds[c] # <<>>, NEW w, w = Head(conds[c]), CondSet(c, Tail(conds[c]))
  PROVE  LeftCond(w, c)
  <2> USE <1>CondLeft
  <2>1. conds[c] \in Seq(CondWaiters) /\ CoresDiffer(conds[c])
    BY SMTT(60) DEF OncePerQueue
  <2>2. /\ w \in CondWaiters /\ w \in Range(conds[c]) /\ CoresDiffer(Tail(conds[c]))
        /\ Range(Tail(conds[c])) \subseteq Range(conds[c])
        /\ \A v \in Range(conds[c]) : v \in Range(Tail(conds[c])) <=> v.core # w.core
    BY <2>1, <1>CoresTail
  <2>3. ASSUME NEW d \in DOMAIN conds', NEW v \in Range(conds'[d])
        PROVE  d \in DOMAIN conds /\ v \in Range(conds[d]) /\ (d = c => v.core # w.core)
    <3>1. d \in DOMAIN conds
      BY <2>3 DEF CondSet
    <3>2. CASE d # c
      BY <2>3, <3>1, <3>2 DEF CondSet
    <3>3. CASE d = c
      <4>1. conds'[d] = Tail(conds[c])
        BY <3>3 DEF CondSet
      <4>2. v \in Range(Tail(conds[c]))
        BY <2>3, <4>1
      <4> QED  BY <2>2, <3>1, <3>3, <4>2
    <3> QED  BY <3>2, <3>3
  <2>4. \A d \in DOMAIN conds' : CoresDiffer(conds'[d])
    <3>1. ASSUME NEW d \in DOMAIN conds'
          PROVE  CoresDiffer(conds'[d])
      <4>1. CASE d = c
        BY <2>2, <4>1 DEF CondSet
      <4>2. CASE d # c
        BY <3>1, <4>2 DEF CondSet, OncePerQueue
      <4> QED  BY <4>1, <4>2
    <3> QED  BY <3>1
  <2> QED  BY <2>2, <2>3, <2>4 DEF LeftCond
\* SyncServer::condSignal wakes the first waiter, which gets its mutex and is
\* answered or queues up for it, and answers the caller.
<1>CondSignalStep.
  ASSUME NatWellOrdered, CallsInv, NEW t \in Tiles, NEW r, TakesPacket(t, r), r.op = "COND_SIGNAL", CondSignal(t, r)
  PROVE  CallsInv' /\ (ClockInv => ClockInv')
  <2> USE <1>CondSignalStep
  <2> DEFINE c == r.obj
  <2>1. /\ c \in DOMAIN conds /\ barriers' = barriers /\ waking' = waking
    BY <1>CondSignalEffect
  <2>15. r.time \in Nat
    BY ObjectThere DEF Ops
  <2>2. /\ ms \in MasterTables /\ mutexes \in Seq(Mutexes) /\ conds \in Seq(Seq(CondWaiters))
        /\ barriers \in Seq(Barriers) /\ OncePerQueue /\ waking \in Wakings
        /\ waking # NotWaking => waking.by \in Tiles
    BY ServerTyped
  <2>3. /\ mode[t] = "RESPONSE" /\ CallOf(t).op = "COND_SIGNAL" /\ CallOf(t).obj = c
        /\ toMcp' \in [Tiles -> Seq(Requests)] /\ toMcp'[t] = <<>>
        /\ \A u \in Tiles : u # t => toMcp'[u] = toMcp[u]
        /\ ~ Kept(t) /\ (\A k \in Kinds : ~ Got(t, k)) /\ (\A m \in holding[t] : Owns(t, m))
    BY PacketTaken, SMTT(60) DEF Ops
  <2>4. /\ "COND_SIGNAL" = Expected(CallOf(t)) /\ Obtained(CallOf(t)) = {} /\ ~ Makes(CallOf(t))
    BY <2>3, CallOps DEF Makes
  <2>5. "MUTEX_LOCK" \in Codes /\ "COND_SIGNAL" \in Codes /\ 0 \in Nat
    BY DEF Codes
  <2>6. UNCHANGED clients
    BY DEF TakesPacket
  <2>7. CASE /\ conds[c] = <<>> /\ ms' = Reply(ms, t, "COND_SIGNAL", 0)
             /\ mutexes' = mutexes /\ conds' = conds
    <3>1. \A u \in Tiles : StaysPut(u) /\ OwnsStill(u)
      BY <2>1, <2>7 DEF StaysPut, OwnsStill
    <3>2. OncePerQueue' /\ ObjectsStay
      BY <2>1, <2>2, <2>7 DEF OncePerQueue, ObjectsStay
    <3>3. Quiet(ms, ms) /\ r.op \in Ops
      BY <2>2, QuietSame DEF Ops
    <3>4. \A m \in holding[t] \cup Obtained(CallOf(t)) : Owns(t, m)'
      BY <2>3, <2>4, <2>7 DEF Owns
    <3>5. mutexes' \in Seq(Mutexes) /\ conds' \in Seq(Seq(CondWaiters)) /\ barriers' \in Seq(Barriers)
      BY <2>1, <2>2, <2>7
    <3>6. \A u \in Tiles : StaysPut(u)
      BY <3>1
    <3>7. \A u \in Tiles : u # t => OwnsStill(u)
      BY <3>1
    <3> QED  BY <2>1, <2>2, <2>4, <2>5, <2>7, <3>2, <3>3, <3>4, <3>5, <3>6, <3>7, ReplyStep
  <2>8. ASSUME conds[c] # <<>>, CondSet(c, Tail(conds[c])), NEW w \in CondWaiters,
               w = Head(conds[c]), w.mutex \in DOMAIN mutexes,
               \/ /\ mutexes[w.mutex].owner = NoTile
                  /\ ms' = Reply(Reply(ResumeThread(ms, w.core), w.core, "MUTEX_LOCK", r.time),
                                 t, "COND_SIGNAL", 0)
                  /\ MutexSet(mutexes, mutexes', w.mutex, w.core, mutexes[w.mutex].waiting)
               \/ /\ mutexes[w.mutex].owner # NoTile
                  /\ ms' = Reply(StallThread(ResumeThread(ms, w.core), w.core), t, "COND_SIGNAL", 0)
                  /\ MutexSet(mutexes, mutexes', w.mutex, mutexes[w.mutex].owner,
                              Append(mutexes[w.mutex].waiting, w.core))
        PROVE  CallsInv' /\ (ClockInv => ClockInv')
    <3>1. PICK k \in Tiles : k = w.core
      BY DEF CondWaiters
    <3>2. LeftCond(w, c)
      BY <2>1, <2>2, <2>8, <1>CondLeft
    <3>3. w \in Range(conds[c]) /\ AtCond(k) /\ ThreadOK(k)
      BY <2>1, <3>1, <3>2 DEF LeftCond, AtCond, CallsInv
    <3>4. k # t
      BY <2>3, <3>3 DEF Kept
    <3>5. \E d \in DOMAIN conds : w \in Range(conds[d])
      BY <2>1, <3>3
    <3>6. /\ Obtained(CallOf(k)) = {w.mutex}
          /\ ~ AtMutex(k) /\ k \notin waking.woken /\ ~ InLoop(k)
          /\ \A d \in DOMAIN conds : \A v \in Range(conds[d]) : v.core = k => d = c
      BY <2>1, <3>1, <3>3, <3>5, <1>CondWaiter
    <3>7. /\ mode[k] = "RESPONSE" /\ toMcp[k] = <<>> /\ (\A i \in Kinds : ~ Got(k, i))
          /\ ~ AtBarrier(k) /\ k # waking.by /\ k \notin ms.acquired
      BY <3>1, <3>3, LockWaiter
    <3>8. toMcp'[k] = toMcp[k] /\ toMcp'[k] = <<>>
      BY <2>3, <3>4, <3>7
    <3>9. ~ AtCond(k)' /\ ~ InLoop(k)' /\ ~ AtBarrier(k)' /\ k \notin waking'.woken /\ k # waking'.by
      BY <2>1, <3>1, <3>2, <3>6, <3>7 DEF LeftCond, AtCond, InLoop, AtBarrier
    <3>10. conds' \in Seq(Seq(CondWaiters)) /\ DOMAIN conds' = DOMAIN conds
      BY <2>8 DEF CondSet
    <3>11. \A d \in DOMAIN conds' : \A v \in Range(conds'[d]) : d \in DOMAIN conds /\ v \in Range(conds[d])
      BY <3>2 DEF LeftCond
    \* What is left to show in both cases.
    <3>12. ASSUME NEW o, NEW q, MutexSet(mutexes, mutexes', w.mutex, o, q),
                  mutexes[w.mutex].owner = NoTile \/ mutexes[w.mutex].owner = o,
                  NEW f, Answers(ms, ms', f), DOMAIN f \subseteq {k, t}, t \in DOMAIN f,
                  f[t].code = "COND_SIGNAL",
                  \A m \in DOMAIN mutexes' : IsInjective(mutexes'[m].waiting),
                  \A u \in Tiles : u # k => \A m \in DOMAIN mutexes' : u \in Range(mutexes'[m].waiting) =>
                     m \in DOMAIN mutexes /\ u \in Range(mutexes[m].waiting),
                  ThreadAnswered(k, f) \/ ThreadQueued(k, f)
           PROVE  CallsInv' /\ (ClockInv => ClockInv')
      <4>1. /\ mutexes' \in Seq(Mutexes) /\ DOMAIN mutexes' = DOMAIN mutexes
            /\ \A u \in Tiles : OwnsStill(u)
            /\ \A u \in Tiles : \A m \in holding[u] : Owns(u, m)'
        BY <2>8, <3>12, <1>OwnersStay
      <4>2. ObjectsStay
        BY <2>1, <3>10, <4>1 DEF ObjectsStay
      <4>3. \A u \in Tiles : u # k => StaysPut(u)
        BY <2>1, <3>11, <3>12 DEF StaysPut
      <4>4. OncePerQueue'
        BY <2>1, <2>2, <3>2, <3>12 DEF OncePerQueue, LeftCond
      <4>5. ThreadAnswered(t, f)
        <5>1. ms'.acquired \subseteq ms.acquired
          BY <3>12 DEF Answers
        <5>2. ~ Kept(t)'
          BY <2>3, <3>4, <4>3, <5>1, KeptStays
        <5> QED  BY <2>3, <2>4, <3>12, <4>1, <5>2 DEF ThreadAnswered
      <4>6. \A u \in Tiles : u # t /\ u # k => ThreadLeft(u, f)
        BY <2>3, <3>12, <4>1, <4>3 DEF ThreadLeft
      <4>7. \A u \in Tiles : ThreadLeft(u, f) \/ ThreadAnswered(u, f) \/ ThreadQueued(u, f)
        BY <3>12, <4>5, <4>6
      <4>8. barriers' \in Seq(Barriers) /\ waking' \in Wakings /\ (waking' # NotWaking => waking'.by \in Tiles)
        BY <2>1, <2>2
      <4>9. CallsInv'
        BY <2>3, <2>6, <3>10, <3>12, <4>1, <4>2, <4>4, <4>7, <4>8, ServerStep
      <4> QED  BY <2>6, <3>12, <4>9, AnswersClock
    <3>13. CASE mutexes[w.mutex].owner = NoTile
      <4>1. /\ ms' = Reply(Reply(ResumeThread(ms, k), k, "MUTEX_LOCK", r.time), t, "COND_SIGNAL", 0)
            /\ MutexSet(mutexes, mutexes', w.mutex, k, mutexes[w.mutex].waiting)
        BY <2>8, <3>1, <3>13
      <4>2. PICK f : /\ Answers(ms, ms', f) /\ DOMAIN f = {k, t}
                     /\ f[k].code = "MUTEX_LOCK" /\ f[t].code = "COND_SIGNAL"
        <5>1. Quiet(ms, ResumeThread(ms, k))
          BY <2>2, <3>1, <1>WakeQuiet
        <5>2. AnswersBoth(ms, Reply(Reply(ResumeThread(ms, k), k, "MUTEX_LOCK", r.time),
                                    t, "COND_SIGNAL", 0), k, "MUTEX_LOCK", t, "COND_SIGNAL")
          BY <2>2, <2>15, <2>5, <3>1, <3>4, <5>1, TwoReplies
        <5>3. AnswersBoth(ms, ms', k, "MUTEX_LOCK", t, "COND_SIGNAL")
          BY <4>1, <5>2
        <5> QED  BY <5>3 DEF AnswersBoth
      <4>3. /\ \A m \in DOMAIN mutexes' : IsInjective(mutexes'[m].waiting)
            /\ \A u \in Tiles : \A m \in DOMAIN mutexes' : u \in Range(mutexes'[m].waiting) =>
                 m \in DOMAIN mutexes /\ u \in Range(mutexes[m].waiting)
        BY <2>2, <2>8, <4>1, <1>SameQueues
      <4>4. \A m \in holding[k] : Owns(k, m)'
        BY <2>8, <3>1, <3>13, <4>1, <1>OwnersStay
      <4>5. \A m \in Obtained(CallOf(k)) : Owns(k, m)'
        <5>1. w.mutex \in DOMAIN mutexes' /\ mutexes'[w.mutex].owner = k
          <6>1. w.mutex \in DOMAIN mutexes
            BY <2>8
          <6>2. MutexSet(mutexes, mutexes', w.mutex, k, mutexes[w.mutex].waiting)
            BY <4>1
          <6> QED  BY <6>1, <6>2 DEF MutexSet
        <5>2. Owns(k, w.mutex)'
          BY <5>1 DEF Owns
        <5> QED  BY <3>6, <5>2
      <4>6. ~ Kept(k)'
        <5>1. ~ AtMutex(k)'
          BY <3>1, <3>6, <4>3 DEF AtMutex
        <5>2. k \notin ms'.acquired
          BY <3>7, <4>2 DEF Answers
        <5> QED  BY <3>9, <5>1, <5>2 DEF Kept
      <4>7. ThreadAnswered(k, f)
        <5>1. k \in DOMAIN f
          BY <4>2
        <5> QED  BY <3>1, <3>3, <3>8, <4>2, <4>4, <4>5, <4>6, <5>1, GetsMutex
      <4>8. /\ DOMAIN f \subseteq {k, t} /\ t \in DOMAIN f
            /\ \A u \in Tiles : u # k => \A m \in DOMAIN mutexes' : u \in Range(mutexes'[m].waiting) =>
                 m \in DOMAIN mutexes /\ u \in Range(mutexes[m].waiting)
        BY <4>2, <4>3
      <4> QED  BY <3>12, <3>13, <4>1, <4>2, <4>3, <4>7, <4>8
    <3>14. CASE mutexes[w.mutex].owner # NoTile
      <4>1. /\ ms' = Reply(StallThread(ResumeThread(ms, k), k), t, "COND_SIGNAL", 0)
            /\ MutexSet(mutexes, mutexes', w.mutex, mutexes[w.mutex].owner,
                        Append(mutexes[w.mutex].waiting, k))
        BY <2>8, <3>1, <3>14
      <4>2. PICK f : Answers(ms, ms', f) /\ DOMAIN f = {t} /\ f[t].code = "COND_SIGNAL"
        <5>1. Quiet(ms, StallThread(ResumeThread(ms, k), k))
          BY <2>2, <3>1, <1>WakeQuiet
        <5>2. PICK msg \in Messages : msg = Msg("COND_SIGNAL", 0) /\ msg.code = "COND_SIGNAL"
          BY <2>5, ReplyIs, SMTT(60)
        <5>3. AnswersWith(ms, Send(StallThread(ResumeThread(ms, k), k), t, "RESPONSE", msg), t, msg)
          BY <2>2, <5>1, <5>2, AnswersOne
        <5>4. AnswersWith(ms, ms', t, msg)
          BY <4>1, <5>2, <5>3 DEF Reply
        <5> QED  BY <5>2, <5>4 DEF AnswersWith
      <4>3. JoinedMutex(k, w.mutex)
        BY <2>2, <2>8, <3>1, <3>6, <4>1, MutexJoined
      <4>4. \A m \in holding[k] : Owns(k, m)'
        BY <2>8, <3>1, <4>1, <1>OwnersStay
      <4>5. ThreadQueued(k, f)
        <5>1. k \notin DOMAIN f /\ k \notin ms'.acquired /\ w.mutex \in Obtained(CallOf(k))
          BY <3>4, <3>6, <3>7, <4>2 DEF Answers
        <5>2. \A m \in DOMAIN mutexes' : k \in Range(mutexes'[m].waiting) => m = w.mutex
          BY <4>3 DEF JoinedMutex
        <5> QED  BY <2>6, <3>1, <3>7, <3>8, <3>9, <4>4, <5>1, <5>2, JoinsMutex
      <4>6. /\ DOMAIN f \subseteq {k, t} /\ t \in DOMAIN f
            /\ \A m \in DOMAIN mutexes' : IsInjective(mutexes'[m].waiting)
            /\ \A u \in Tiles : u # k => \A m \in DOMAIN mutexes' : u \in Range(mutexes'[m].waiting) =>
                 m \in DOMAIN mutexes /\ u \in Range(mutexes[m].waiting)
        BY <4>2, <4>3 DEF JoinedMutex
      <4> QED  BY <3>12, <3>14, <4>1, <4>2, <4>5, <4>6
    <3> QED  BY <3>13, <3>14
  <2> QED  BY <2>7, <2>8, <1>CondSignalEffect
\* What one iteration of the loop does to the MCP's state.
<1>WakeNextEffect.
  ASSUME CallsInv, WakeNext, NEW w, w = Head(waking.left)
  PROVE  /\ UNCHANGED clients /\ toMcp' = toMcp /\ conds' = conds /\ barriers' = barriers
         /\ w \in CondWaiters /\ w \in Range(waking.left) /\ w.core \in Tiles /\ w.mutex \in DOMAIN mutexes
         /\ waking' \in Wakings /\ waking'.left = Tail(waking.left) /\ waking'.by = waking.by
         /\ \/ /\ mutexes[w.mutex].owner = NoTile /\ ms' = ResumeThread(ms, w.core)
               /\ MutexSet(mutexes, mutexes', w.mutex, w.core, mutexes[w.mutex].waiting)
               /\ waking'.woken = waking.woken \cup {w.core}
            \/ /\ mutexes[w.mutex].owner # NoTile
               /\ ms' = StallThread(ResumeThread(ms, w.core), w.core)
               /\ MutexSet(mutexes, mutexes', w.mutex, mutexes[w.mutex].owner,
                           Append(mutexes[w.mutex].waiting, w.core))
               /\ waking'.woken = waking.woken
  <2> USE <1>WakeNextEffect
  <2>1. ms \in MasterTables /\ mutexes \in Seq(Mutexes) /\ waking \in Wakings /\ OncePerQueue
    BY ServerTyped
  <2>2. waking.left \in Seq(CondWaiters) /\ waking.left # <<>>
    BY <2>1 DEF WakeNext, Wakings
  <2>3. w \in CondWaiters /\ w \in Range(waking.left) /\ Tail(waking.left) \in Seq(CondWaiters)
    BY <2>1, <2>2, <1>CoresTail DEF OncePerQueue
  <2>4. w.core \in Tiles
    BY <2>3 DEF CondWaiters
  <2>5. w.mutex \in DOMAIN mutexes
    <3>1. ThreadOK(w.core) /\ InLoop(w.core) /\ w \in Range(waking.left)
      BY <2>3, <2>4 DEF CallsInv, InLoop
    <3> QED  BY <2>4, <3>1, <1>CondWaiter
  <2>6. Becomes(Wake(ms, w))
    BY DEF WakeNext
  <2>7. PICK g \in BOOLEAN : g <=> GotLock(w)
    OBVIOUS
  <2>8. PICK a, q : /\ a = IF g THEN waking.woken \cup {w.core} ELSE waking.woken
                    /\ q = Tail(waking.left)
    OBVIOUS
  <2>9. waking' \in Wakings /\ waking'.left = q /\ waking'.by = waking.by /\ waking'.woken = a
    <3>1. waking.woken \subseteq Tiles
      BY <2>1 DEF Wakings
    <3>2. a \in SUBSET Tiles /\ q \in Seq(CondWaiters)
      BY <2>3, <2>4, <2>8, <3>1
    <3>3. a = IF GotLock(w) THEN waking.woken \cup {w.core} ELSE waking.woken
      BY <2>7, <2>8
    <3>4. waking' = [waking EXCEPT !.left = q, !.woken = a]
      BY <2>8, <3>3 DEF WakeNext
    <3>5. waking' \in Wakings
      BY <2>1, <3>2, <3>4 DEF Wakings
    <3>6. waking'.left = q /\ waking'.by = waking.by /\ waking'.woken = a
      BY <2>1, <3>4 DEF Wakings
    <3> QED  BY <3>5, <3>6
  <2>10. PICK s : s = Wake(ms, w)
    OBVIOUS
  <2>11. /\ s = [table |-> s.table, mutexes |-> s.mutexes]
         /\ \/ /\ GotLock(w) /\ mutexes[w.mutex].owner = NoTile /\ s.table = ResumeThread(ms, w.core)
               /\ MutexSet(mutexes, s.mutexes, w.mutex, w.core, mutexes[w.mutex].waiting)
            \/ /\ ~ GotLock(w) /\ mutexes[w.mutex].owner # NoTile
               /\ s.table = StallThread(ResumeThread(ms, w.core), w.core)
               /\ MutexSet(mutexes, s.mutexes, w.mutex, mutexes[w.mutex].owner,
                           Append(mutexes[w.mutex].waiting, w.core))
    BY <2>1, <2>3, <2>5, <2>10, <1>WakeEffect
  <2>12. ms' = s.table /\ mutexes' = s.mutexes
    BY <2>6, <2>10 DEF Becomes
  <2>13. UNCHANGED clients /\ toMcp' = toMcp /\ conds' = conds /\ barriers' = barriers
    BY DEF WakeNext
  <2>14. CASE g
    <3>1. waking'.woken = waking.woken \cup {w.core}
      BY <2>8, <2>9, <2>14
    <3>2. /\ mutexes[w.mutex].owner = NoTile /\ ms' = ResumeThread(ms, w.core)
          /\ MutexSet(mutexes, mutexes', w.mutex, w.core, mutexes[w.mutex].waiting)
      BY <2>7, <2>11, <2>12, <2>14
    <3> QED  BY <2>3, <2>4, <2>5, <2>8, <2>9, <2>13, <3>1, <3>2
  <2>15. CASE ~ g
    <3>1. waking'.woken = waking.woken
      BY <2>8, <2>9, <2>15
    <3>2. /\ mutexes[w.mutex].owner # NoTile
          /\ ms' = StallThread(ResumeThread(ms, w.core), w.core)
          /\ MutexSet(mutexes, mutexes', w.mutex, mutexes[w.mutex].owner,
                      Append(mutexes[w.mutex].waiting, w.core))
      BY <2>7, <2>11, <2>12, <2>15
    <3> QED  BY <2>3, <2>4, <2>5, <2>8, <2>9, <2>13, <3>1, <3>2
  <2> QED  BY <2>14, <2>15
\* An iteration of SimCond::broadcast's loop wakes one waiter.
<1>WakeNextStep.
  ASSUME NatWellOrdered, CallsInv, WakeNext
  PROVE  CallsInv' /\ (ClockInv => ClockInv')
  <2> USE <1>WakeNextStep
  <2>0. PICK w : w = Head(waking.left)
    OBVIOUS
  <2>1. /\ UNCHANGED clients /\ toMcp' = toMcp /\ conds' = conds /\ barriers' = barriers
        /\ w \in CondWaiters /\ w \in Range(waking.left) /\ w.core \in Tiles /\ w.mutex \in DOMAIN mutexes
        /\ waking' \in Wakings /\ waking'.left = Tail(waking.left) /\ waking'.by = waking.by
    BY <2>0, <1>WakeNextEffect
  <2>2. /\ ms \in MasterTables /\ mutexes \in Seq(Mutexes) /\ conds \in Seq(Seq(CondWaiters))
        /\ barriers \in Seq(Barriers) /\ OncePerQueue /\ waking \in Wakings
        /\ waking # NotWaking => waking.by \in Tiles
        /\ toMcp \in [Tiles -> Seq(Requests)]
    BY ServerTyped DEF CallsInv, TypeOK
  <2>3. PICK k \in Tiles : k = w.core
    BY <2>1
  <2>4. InLoop(k) /\ ThreadOK(k)
    BY <2>1, <2>3 DEF InLoop, CallsInv
  <2>5. /\ Obtained(CallOf(k)) = {w.mutex} /\ ~ AtMutex(k) /\ k \notin waking.woken /\ ~ AtCond(k)
    BY <2>1, <2>3, <2>4, <1>CondWaiter
  <2>6. /\ mode[k] = "RESPONSE" /\ toMcp[k] = <<>> /\ (\A i \in Kinds : ~ Got(k, i))
        /\ ~ AtBarrier(k) /\ k # waking.by /\ k \notin ms.acquired
    BY <2>3, <2>4, LockWaiter
  <2>7. Calling(k, "COND_WAIT")
    BY <2>4 DEF ThreadOK, QueuesFit, InLoop
  <2>8. /\ Range(waking'.left) \subseteq Range(waking.left)
        /\ \A v \in Range(waking'.left) : v.core # k
        /\ CoresDiffer(waking'.left)
    <3>1. waking.left \in Seq(CondWaiters) /\ CoresDiffer(waking.left) /\ waking.left # <<>>
      BY <2>2 DEF Wakings, OncePerQueue, WakeNext
    <3>2. /\ Range(Tail(waking.left)) \subseteq Range(waking.left)
          /\ \A v \in Range(waking.left) : v \in Range(Tail(waking.left)) <=> v.core # w.core
          /\ CoresDiffer(Tail(waking.left))
      BY <2>0, <3>1, <1>CoresTail
    <3>3. /\ Range(waking'.left) \subseteq Range(waking.left)
          /\ \A v \in Range(waking.left) : v \in Range(waking'.left) <=> v.core # k
          /\ CoresDiffer(waking'.left)
      BY <2>1, <2>3, <3>2
    <3> QED  BY <3>3
  <2>9. ~ AtCond(k)' /\ ~ InLoop(k)' /\ ~ AtBarrier(k)' /\ k # waking'.by
    BY <2>1, <2>5, <2>6, <2>8 DEF AtCond, InLoop, AtBarrier
  <2>95. toMcp'[k] = <<>>
    BY <2>1, <2>6
  \* What is left to show in both cases.
  <2>10. ASSUME NEW o, NEW q, MutexSet(mutexes, mutexes', w.mutex, o, q),
                mutexes[w.mutex].owner = NoTile \/ mutexes[w.mutex].owner = o,
                NEW f, Answers(ms, ms', f), DOMAIN f = {},
                \A m \in DOMAIN mutexes' : IsInjective(mutexes'[m].waiting),
                \A u \in Tiles : u # k => \A m \in DOMAIN mutexes' : u \in Range(mutexes'[m].waiting) =>
                   m \in DOMAIN mutexes /\ u \in Range(mutexes[m].waiting),
                waking'.woken \subseteq waking.woken \cup {k},
                ThreadQueued(k, f)
         PROVE  CallsInv' /\ (ClockInv => ClockInv')
    <3>1. /\ mutexes' \in Seq(Mutexes) /\ DOMAIN mutexes' = DOMAIN mutexes
          /\ \A u \in Tiles : OwnsStill(u)
      BY <2>1, <2>10, <1>OwnersStay
    <3>2. ObjectsStay
      BY <2>1, <3>1 DEF ObjectsStay
    <3>3. \A u \in Tiles : u # k => StaysPut(u)
      BY <2>1, <2>8, <2>10 DEF StaysPut
    <3>4. OncePerQueue'
      <4>1. CoresDiffer(waking.left)'
        BY <2>8 DEF CoresDiffer
      <4> QED  BY <2>1, <2>2, <2>10, <4>1 DEF OncePerQueue
    <3>5. \A u \in Tiles : u # k => ThreadLeft(u, f)
      BY <2>1, <2>10, <3>1, <3>3 DEF ThreadLeft
    <3>6. \A u \in Tiles : ThreadLeft(u, f) \/ ThreadAnswered(u, f) \/ ThreadQueued(u, f)
      BY <2>10, <3>5
    <3>7. waking' # NotWaking => waking'.by \in Tiles
      <4>1. waking # NotWaking
        BY NoLoop DEF WakeNext
      <4> QED  BY <2>1, <2>2, <4>1
    <3>8. toMcp' \in [Tiles -> Seq(Requests)] /\ conds' \in Seq(Seq(CondWaiters)) /\ barriers' \in Seq(Barriers)
      BY <2>1, <2>2
    <3>9. CallsInv'
      BY <2>1, <2>10, <3>1, <3>2, <3>4, <3>6, <3>7, <3>8, ServerStep
    <3> QED  BY <2>1, <2>10, <3>9, AnswersClock
  <2>11. CASE /\ mutexes[w.mutex].owner = NoTile /\ ms' = ResumeThread(ms, w.core)
              /\ MutexSet(mutexes, mutexes', w.mutex, w.core, mutexes[w.mutex].waiting)
              /\ waking'.woken = waking.woken \cup {w.core}
    <3>1. PICK f : Answers(ms, ms', f) /\ DOMAIN f = {}
      <4>1. Quiet(ms, ms')
        BY <2>1, <2>2, <2>11, <1>WakeQuiet
      <4>2. Answers(ms, ms', <<>>) /\ DOMAIN <<>> = {}
        BY <2>2, <4>1, QuietAnswers, SMTT(60)
      <4> QED  BY <4>2
    <3>2. MutexSet(mutexes, mutexes', w.mutex, k, mutexes[w.mutex].waiting) /\ mutexes[w.mutex].owner = NoTile
      BY <2>3, <2>11
    <3>3. /\ \A m \in DOMAIN mutexes' : IsInjective(mutexes'[m].waiting)
          /\ \A u \in Tiles : \A m \in DOMAIN mutexes' : u \in Range(mutexes'[m].waiting) =>
               m \in DOMAIN mutexes /\ u \in Range(mutexes[m].waiting)
      BY <2>1, <2>2, <3>2, <1>SameQueues
    <3>4. \A m \in holding[k] : Owns(k, m)'
      BY <2>1, <2>3, <3>2, <1>OwnersStay
    <3>5. \A m \in Obtained(CallOf(k)) : Owns(k, m)'
      <4>1. w.mutex \in DOMAIN mutexes' /\ mutexes'[w.mutex].owner = k
        BY <2>1, <3>2 DEF MutexSet
      <4>2. Owns(k, w.mutex)'
        BY <4>1 DEF Owns
      <4>3. Obtained(CallOf(k)) = {w.mutex}
        BY <2>5
      <4> QED  BY <4>2, <4>3
    <3>6. ~ AtMutex(k)' /\ k \notin ms'.acquired
      <4>1. ~ AtMutex(k)'
        BY <2>3, <2>5, <3>3 DEF AtMutex
      <4> QED  BY <2>6, <3>1, <4>1 DEF Answers
    <3>7. ThreadQueued(k, f)
      <4>1. CallOf(k)' = CallOf(k) /\ mode'[k] = mode[k]
        BY <2>1 DEF clients, CallOf
      <4>2. Calling(k, "COND_WAIT")'
        BY <2>7, <4>1 DEF Calling
      <4>3. QueuesFit(k)'
        BY <2>9, <3>6, <4>2 DEF QueuesFit, AtMutex, AtCond, AtBarrier, InLoop
      <4>4. k \notin DOMAIN f
        BY <3>1
      <4> QED  BY <2>6, <2>9, <2>95, <3>4, <3>5, <3>6, <4>3, <4>4 DEF ThreadQueued
    <3>8. /\ waking'.woken \subseteq waking.woken \cup {k}
          /\ \A u \in Tiles : u # k => \A m \in DOMAIN mutexes' : u \in Range(mutexes'[m].waiting) =>
               m \in DOMAIN mutexes /\ u \in Range(mutexes[m].waiting)
      BY <2>3, <2>11, <3>3
    <3> QED  BY <2>10, <3>1, <3>2, <3>3, <3>7, <3>8
  <2>12. CASE /\ mutexes[w.mutex].owner # NoTile
              /\ ms' = StallThread(ResumeThread(ms, w.core), w.core)
              /\ MutexSet(mutexes, mutexes', w.mutex, mutexes[w.mutex].owner,
                          Append(mutexes[w.mutex].waiting, w.core))
              /\ waking'.woken = waking.woken
    <3>1. PICK f : Answers(ms, ms', f) /\ DOMAIN f = {}
      <4>1. Quiet(ms, ms')
        BY <2>1, <2>2, <2>12, <1>WakeQuiet
      <4>2. Answers(ms, ms', <<>>) /\ DOMAIN <<>> = {}
        BY <2>2, <4>1, QuietAnswers, SMTT(60)
      <4> QED  BY <4>2
    <3>2. MutexSet(mutexes, mutexes', w.mutex, mutexes[w.mutex].owner, Append(mutexes[w.mutex].waiting, k))
      BY <2>3, <2>12
    <3>3. JoinedMutex(k, w.mutex)
      BY <2>1, <2>2, <2>3, <2>5, <3>2, MutexJoined
    <3>4. \A m \in holding[k] : Owns(k, m)'
      BY <2>1, <2>3, <3>2, <1>OwnersStay
    <3>5. ThreadQueued(k, f)
      <4>1. k \notin DOMAIN f /\ k \notin ms'.acquired /\ w.mutex \in Obtained(CallOf(k)) /\ k \notin waking'.woken
        BY <2>5, <2>6, <2>12, <3>1 DEF Answers
      <4>2. \A m \in DOMAIN mutexes' : k \in Range(mutexes'[m].waiting) => m = w.mutex
        BY <3>3 DEF JoinedMutex
      <4> QED  BY <2>1, <2>3, <2>6, <2>9, <2>95, <3>4, <4>1, <4>2, JoinsMutex
    <3>6. /\ \A m \in DOMAIN mutexes' : IsInjective(mutexes'[m].waiting)
          /\ \A u \in Tiles : u # k => \A m \in DOMAIN mutexes' : u \in Range(mutexes'[m].waiting) =>
               m \in DOMAIN mutexes /\ u \in Range(mutexes[m].waiting)
          /\ waking'.woken \subseteq waking.woken \cup {k}
      BY <2>12, <3>3 DEF JoinedMutex
    <3> QED  BY <2>10, <3>1, <3>2, <3>5, <3>6
  <2> QED  BY <2>0, <2>11, <2>12, <1>WakeNextEffect
<1> QED  BY <1>CondSignalStep, <1>WakeNextStep

-----------------------------------------------------------------------------
(* The specification *)

\* The invariant holds when the threads have been started.
LEMMA InitialState ==
  
    /\ Init
    =>
         CallsInv /\ ClockInv
\* The master's table at the start.
<1>InitialTableTyped.
  ASSUME NEW S \in SUBSET Tiles
  PROVE  InitialTable(S) \in MasterTables
  <2> USE <1>InitialTableTyped
  <2>1. <<>> \in Seq(Messages) /\ <<>> \in Seq(LcpMessages) /\ <<>> \in Seq(Tiles)
    BY SMTT(60)
  <2>2. [t \in AllTiles |-> IF t \in S \cup {0} \cup SpawnerTiles THEN "RUNNING" ELSE "IDLE"]
          \in [AllTiles -> Status]
    BY DEF Status
  <2>3. [t \in AllTiles |-> NoTile] \in [AllTiles -> Tiles \cup {NoTile}]
    OBVIOUS
  <2>4. [t \in AllTiles |-> 0] \in [AllTiles -> Nat] /\ [t \in Tiles |-> 0] \in [Tiles -> Nat]
    OBVIOUS
  <2>5. [t \in AllTiles |-> [k \in Kinds |-> <<>>]] \in [AllTiles -> [Kinds -> Seq(Messages)]]
    BY <2>1
  <2>6. [p \in Procs |-> <<>>] \in [Procs -> Seq(LcpMessages)]
    BY <2>1
  <2>7. Quantum \in Nat /\ {} \in SUBSET Failures /\ {} \in SUBSET Tiles
    BY QuantumAssumption
  <2> QED  BY <2>1, <2>2, <2>3, <2>4, <2>5, <2>6, <2>7 DEF InitialTable, MasterTables
<1>InitialState.
  ASSUME Init
  PROVE  CallsInv /\ ClockInv
  <2> USE <1>InitialState
  <2>1. /\ ms.waiter = [t \in AllTiles |-> NoTile] /\ ms.acquired = {} /\ ms.next = Quantum
        /\ ms.clock = [t \in Tiles |-> 0] /\ ms.failed = {}
        /\ ms.mail = [t \in AllTiles |-> [k \in Kinds |-> <<>>]]
    BY DEF Init, InitialTable
  <2>2. ms \in MasterTables
    BY <1>InitialTableTyped DEF Init
  <2>3. /\ Len(<<>>) = 0 /\ DOMAIN <<>> = {} /\ Range(<<>>) = {}
    BY EmptyQueue, SMTT(60)
  <2>4. TypeOK
    <3>1. /\ mutexes = <<>> /\ conds = <<>> /\ barriers = <<>> /\ waking = NotWaking /\ script \in Programs
          /\ handles = {} /\ flags = {}
      BY DEF Init
    <3>2. /\ pc \in [Tiles -> Nat \ {0}] /\ mode \in [Tiles -> Modes] /\ clk \in [Tiles -> Nat]
          /\ nextSync \in [Tiles -> Nat] /\ holding \in [Tiles -> SUBSET Nat]
      BY QuantumAssumption, SMTT(60) DEF Init, Modes
    <3>3. toMcp \in [Tiles -> Seq(Requests)]
      <4>1. <<>> \in Seq(Requests)
        BY SMTT(60)
      <4> QED  BY <4>1 DEF Init
    <3>4. waking \in Wakings
      <4>1. <<>> \in Seq(CondWaiters) /\ 0 \in Nat
        BY SMTT(60)
      <4> QED  BY <3>1, <4>1 DEF NotWaking, Wakings
    <3>5. mutexes \in Seq(Mutexes) /\ conds \in Seq(Seq(CondWaiters)) /\ barriers \in Seq(Barriers)
      BY <3>1, SMTT(60)
    <3> QED  BY <2>2, <3>1, <3>2, <3>3, <3>4, <3>5 DEF TypeOK
  <2>5. /\ mutexes = <<>> /\ conds = <<>> /\ barriers = <<>> /\ handles = {}
        /\ waking = NotWaking /\ waking.left = <<>> /\ waking.woken = {} /\ waking.by = NoTile
    BY DEF Init, NotWaking
  <2>6. OncePerQueue /\ HandlesKnown
    BY <2>3, <2>5 DEF OncePerQueue, HandlesKnown, CoresDiffer
  <2>7. ASSUME NEW t \in Tiles PROVE ThreadOK(t)
    <3>1. /\ mode[t] = "RUN" /\ toMcp[t] = <<>> /\ holding[t] = {}
      BY DEF Init
    <3>2. \A k \in Kinds : ms.mail[t][k] = <<>>
      BY <2>1, TilesInAll, SMTT(60)
    <3>3. t # NoTile
      BY TilesAssumption, SMTT(60) DEF NoTile
    <3>4. ~ Asked(t) /\ \A k \in Kinds : ~ Got(t, k)
      BY <3>1, <3>2 DEF Asked, Got
    <3>5. InOnePlace(t)
      BY <2>3, <2>5, <3>1, <3>2, <3>4, SMTT(60) DEF InOnePlace, AtMutex, AtCond, InLoop
    <3>6. CallKnown(t) /\ RequestFits(t)
      BY <3>1, <3>4 DEF CallKnown, RequestFits
    <3>7. QueuesFit(t)
      BY <2>1, <2>3, <2>5, <3>3 DEF QueuesFit
    <3>8. AnswersFit(t)
      BY <3>4 DEF AnswersFit, Kinds
    <3>9. MutexesOwned(t)
      BY <2>5, <3>1, <3>4 DEF MutexesOwned, Kinds
    <3> QED  BY <3>5, <3>6, <3>7, <3>8, <3>9 DEF ThreadOK
  <2>8. CallsInv
    BY <2>1, <2>4, <2>5, <2>6, <2>7 DEF CallsInv
  <2>9. ClockInv
    <3>1. Late(ms) = {}
      BY <2>1, QuantumAssumption, SMTT(60) DEF Late
    <3>2. \A t \in Tiles : ~ Got(t, "SYSTEM_RESPONSE")
      BY <2>1, TilesInAll, SMTT(60) DEF Got, Kinds
    <3>3. nextSync = [t \in Tiles |-> Quantum]
      BY DEF Init
    <3>4. Quantum % Quantum = 0
      BY QuantumAssumption, SMTT(60)
    <3> QED  BY <2>1, <3>1, <3>2, <3>3, <3>4, QuantumAssumption, SMTT(60) DEF ClockInv, AcquiredIsLate, SkewBounded
  <2> QED  BY <2>8, <2>9
<1> QED  BY <1>InitialState

\* Every packet that MCP::processPacket handles keeps the invariant.
LEMMA PacketStep ==
  ASSUME NatWellOrdered, CallsInv, NEW t \in Tiles, ProcessPacket(t)
  PROVE  CallsInv' /\ (ClockInv => ClockInv')
<1>1. PICK r : r = Head(toMcp[t])
  OBVIOUS
<1>2. TakesPacket(t, r) /\ waking = NotWaking
  BY <1>1 DEF ProcessPacket, TakesPacket
<1>3. \/ r.op = "MUTEX_INIT" /\ MutexInit(t, r)
      \/ r.op = "MUTEX_LOCK" /\ MutexLock(t, r)
      \/ r.op = "MUTEX_UNLOCK" /\ MutexUnlock(t, r)
      \/ r.op = "COND_INIT" /\ CondInit(t, r)
      \/ r.op = "COND_WAIT" /\ CondWait(t, r)
      \/ r.op = "COND_SIGNAL" /\ CondSignal(t, r)
      \/ r.op = "COND_BROADCAST" /\ CondBroadcast(t, r)
      \/ r.op = "BARRIER_INIT" /\ BarrierInit(t, r)
      \/ r.op = "BARRIER_WAIT" /\ SimBarrierWait(t, r)
      \/ r.op = "CLOCK_SKEW" /\ ms' = BarrierWait(ms, t, r.time) /\ UNCHANGED server
      \/ r.op = "EXIT" /\ ms' = MasterOnThreadExit(ms, t, r.time) /\ UNCHANGED server
  BY <1>1 DEF ProcessPacket
<1>4. CASE r.op = "MUTEX_INIT" /\ MutexInit(t, r)
  BY <1>2, <1>4, NewObjectSteps
<1>5. CASE r.op = "MUTEX_LOCK" /\ MutexLock(t, r)
  BY <1>2, <1>5, MutexLockStep
<1>6. CASE r.op = "MUTEX_UNLOCK" /\ MutexUnlock(t, r)
  BY <1>2, <1>6, MutexUnlockStep
<1>7. CASE r.op = "COND_INIT" /\ CondInit(t, r)
  BY <1>2, <1>7, NewObjectSteps
<1>8. CASE r.op = "COND_WAIT" /\ CondWait(t, r)
  BY <1>2, <1>8, CondWaitStep
<1>9. CASE r.op = "COND_SIGNAL" /\ CondSignal(t, r)
  BY <1>2, <1>9, WakeSteps
<1>10. CASE r.op = "COND_BROADCAST" /\ CondBroadcast(t, r)
  BY <1>2, <1>10, CondBroadcastStep
<1>11. CASE r.op = "BARRIER_INIT" /\ BarrierInit(t, r)
  BY <1>2, <1>11, NewObjectSteps
<1>12. CASE r.op = "BARRIER_WAIT" /\ SimBarrierWait(t, r)
  BY <1>2, <1>12, SimBarrierWaitStep
<1>13. CASE r.op = "CLOCK_SKEW" /\ ms' = BarrierWait(ms, t, r.time) /\ UNCHANGED server
  BY <1>2, <1>13, MasterSteps
<1>14. CASE r.op = "EXIT" /\ ms' = MasterOnThreadExit(ms, t, r.time) /\ UNCHANGED server
  BY <1>2, <1>14, MasterSteps
<1> QED  BY <1>3, <1>4, <1>5, <1>6, <1>7, <1>8, <1>9, <1>10, <1>11, <1>12, <1>13, <1>14

\* Every step keeps the invariant.
LEMMA NextStep ==
  ASSUME NatWellOrdered, CallsInv, ClockInv, [Next]_vars
  PROVE  CallsInv' /\ ClockInv'
<1>1. CASE Next
  <2>1. \/ \E t \in Tiles : ThreadStep(t)
        \/ WakeNext \/ WakeDone \/ \E t \in Tiles : ProcessPacket(t)
    BY <1>1 DEF Next, McpStep
  <2>2. ASSUME NEW t \in Tiles, ThreadStep(t) PROVE CallsInv' /\ ClockInv'
    BY <2>2, ThreadSteps
  <2>3. ASSUME NEW t \in Tiles, ProcessPacket(t) PROVE CallsInv' /\ ClockInv'
    BY <2>3, PacketStep
  <2>4. CASE WakeNext
    BY <2>4, WakeSteps
  <2>5. CASE WakeDone
    BY <2>5, WakeDoneStep
  <2> QED  BY <2>1, <2>2, <2>3, <2>4, <2>5
<1>2. CASE UNCHANGED vars
  <2>1. /\ UNCHANGED clients /\ toMcp' = toMcp /\ ms' = ms
        /\ mutexes' = mutexes /\ conds' = conds /\ barriers' = barriers /\ waking' = waking
        /\ script' = script /\ pc' = pc /\ mode' = mode /\ clk' = clk /\ holding' = holding
    BY <1>2 DEF vars, server, clients
  <2>2. ClockInv'
    BY <2>1 DEF ClockInv, AcquiredIsLate, Late, SkewBounded, Got, clients
  <2>3. TypeOK' /\ OncePerQueue' /\ HandlesKnown'
    BY <2>1 DEF CallsInv, clients, TypeOK, OncePerQueue, HandlesKnown, Exists
  <2>4. ASSUME NEW t \in Tiles PROVE ThreadOK(t)'
    <3>1. CallOf(t)' = CallOf(t)
      BY <2>1 DEF clients, CallOf
    <3>2. (Asked(t)' <=> Asked(t)) /\ \A k : Got(t, k)' <=> Got(t, k)
      BY <2>1 DEF Asked, Got
    <3>3. ThreadOK(t)
      BY DEF CallsInv
    <3>4. InOnePlace(t)'
      BY <2>1, <3>2, <3>3
         DEF ThreadOK, InOnePlace, AtMutex, AtCond, AtBarrier, InLoop, Kept
    <3>5. CallKnown(t)' /\ RequestFits(t)'
      BY <2>1, <3>1, <3>2, <3>3 DEF ThreadOK, CallKnown, RequestFits, Exists, clients
    <3>6. QueuesFit(t)'
      BY <2>1, <3>1, <3>3 DEF ThreadOK, QueuesFit, Calling, clients
    <3>7. AnswersFit(t)'
      BY <2>1, <3>1, <3>2, <3>3 DEF ThreadOK, AnswersFit, Exists, clients
    <3>8. MutexesOwned(t)'
      BY <2>1, <3>1, <3>2, <3>3 DEF ThreadOK, MutexesOwned, Owns, clients
    <3> QED  BY <3>4, <3>5, <3>6, <3>7, <3>8 DEF ThreadOK
  <2> QED  BY <2>1, <2>2, <2>3, <2>4 DEF CallsInv
<1> QED  BY <1>1, <1>2

\* A set of naturals that is not empty has a least element.
LEMMA LeastNat == NatWellOrdered
<1>1. SUFFICES ASSUME NEW T \in SUBSET Nat, T # {}
               PROVE  \E x \in T : \A y \in T : x <= y
  BY DEF NatWellOrdered
<1>2. PICK x \in T : \A y \in T : ~ (<<y, x>> \in OpToRel(<, Nat))
  BY <1>1, NatLessThanWellFounded, WFMin
<1>3. ASSUME NEW y \in T
      PROVE  x <= y
  <2>1. ~ (<<y, x>> \in OpToRel(<, Nat))
    BY <1>2
  <2>2. x \in Nat /\ y \in Nat
    OBVIOUS
  <2>3. ~ (y < x)
    BY <2>1, <2>2 DEF OpToRel
  <2> QED  BY <2>2, <2>3, SMTT(60)
<1> QED  BY <1>3

\* In every reachable state each call is in one place, the packets, queues
\* and answers fit the calls, the mutexes held are owned, and no thread that
\* is let go has reached the clock barrier.
THEOREM InvariantHolds == Spec => [](CallsInv /\ ClockInv)
<1>1. Init => CallsInv /\ ClockInv
  BY InitialState
<1>2. CallsInv /\ ClockInv /\ [Next]_vars => (CallsInv /\ ClockInv)'
  BY LeastNat, NextStep
<1> QED  BY <1>1, <1>2, PTL DEF Spec

\* The variables of the SyncServer model keep their types.
THEOREM Typed == Spec => []TypeOK
<1>1. CallsInv => TypeOK
  BY DEF CallsInv
<1> QED  BY <1>1, InvariantHolds, PTL

\* SyncServer::mutexLock and condWait return to one thread at a time for each
\* mutex, with any number of threads, for every program and whatever the MCP
\* interleaves with a broadcast.
THEOREM MutexesExclude == Spec => []MutualExclusion
<1>1. CallsInv => MutualExclusion
  BY DEF CallsInv, ThreadOK, MutexesOwned, Owns, MutualExclusion
<1> QED  BY <1>1, InvariantHolds, PTL

\* LaxBarrierSyncServer's acquire list is exactly the threads whose clock has
\* reached the barrier time, at every number of threads, quantum and program.
THEOREM AcquireListExact == Spec => []AcquiredIsLate
<1>1. ClockInv => AcquiredIsLate
  BY DEF ClockInv
<1> QED  BY <1>1, InvariantHolds, PTL

\* No thread's next synchronisation time is beyond the MCP's barrier time: a
\* thread synchronises before its clock passes it.
THEOREM SkewIsBounded == Spec => []SkewBounded
<1>1. ClockInv => SkewBounded
  BY DEF ClockInv
<1> QED  BY <1>1, InvariantHolds, PTL
=============================================================================

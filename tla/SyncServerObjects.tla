-------------------------- MODULE SyncServerObjects --------------------------
(***************************************************************************)
(* Proofs about SyncServer, second part: the handlers that make objects,   *)
(* and those of barriers and mutexes, keep the inductive invariant.        *)
(***************************************************************************)
EXTENDS SyncServerSteps

\* A leaf is for Zenon, or for the SMT solver where it says so.
USE ZenonT(60)

\* An empty queue keeps no one.
LEMMA EmptyQueue ==
  Range(<<>>) = {} /\ IsInjective(<<>>) /\ CoresDiffer(<<>>)
BY SMTT(60) DEF Range, IsInjective, CoresDiffer

\* The types of the MCP's state.
LEMMA ServerTyped ==
  ASSUME CallsInv
  PROVE  /\ ms \in MasterTables /\ mutexes \in Seq(Mutexes) /\ conds \in Seq(Seq(CondWaiters))
         /\ barriers \in Seq(Barriers) /\ waking \in Wakings
         /\ waking # NotWaking => waking.by \in Tiles
         /\ OncePerQueue
BY DEF CallsInv, TypeOK

\* The object of a request that makes none is there.
LEMMA ObjectThere ==
  \A t \in Tiles : \A r :
    /\ CallsInv
    /\ TakesPacket(t, r)
    /\ r.op \in Ops
    =>
         /\ r.op \in {"MUTEX_LOCK", "MUTEX_UNLOCK"} => r.obj \in DOMAIN mutexes
         /\ r.op \in {"COND_WAIT", "COND_SIGNAL", "COND_BROADCAST"} => r.obj \in DOMAIN conds
         /\ r.op = "COND_WAIT" => r.mux \in DOMAIN mutexes
         /\ r.op = "BARRIER_WAIT" => r.obj \in DOMAIN barriers
         /\ r.obj \in Nat /\ r.mux \in Nat /\ r.time \in Nat
\* What Exists says of a call's object.
<1>ObjectOps.
  ASSUME NEW c, NEW v, c.op \in Ops
  PROVE  Exists(ObjectKind(c.op), v) <=>
           v \in IF c.op \in {"MUTEX_INIT", "MUTEX_LOCK", "MUTEX_UNLOCK"} THEN DOMAIN mutexes
                 ELSE IF c.op \in {"BARRIER_INIT", "BARRIER_WAIT"} THEN DOMAIN barriers
                 ELSE DOMAIN conds
  BY <1>ObjectOps DEF Exists, ObjectKind, Ops
<1>ObjectThere.
  ASSUME CallsInv, NEW t \in Tiles, NEW r, TakesPacket(t, r), r.op \in Ops
  PROVE  /\ r.op \in {"MUTEX_LOCK", "MUTEX_UNLOCK"} => r.obj \in DOMAIN mutexes
         /\ r.op \in {"COND_WAIT", "COND_SIGNAL", "COND_BROADCAST"} => r.obj \in DOMAIN conds
         /\ r.op = "COND_WAIT" => r.mux \in DOMAIN mutexes
         /\ r.op = "BARRIER_WAIT" => r.obj \in DOMAIN barriers
         /\ r.obj \in Nat /\ r.mux \in Nat /\ r.time \in Nat
  <2> USE <1>ObjectThere
  <2>1. /\ r \in Requests /\ mode[t] = "RESPONSE" /\ CallOf(t).op = r.op /\ CallOf(t).obj = r.obj
        /\ CallOf(t).mux = r.mux
    BY PacketTaken, SMTT(60)
  <2>2. CallKnown(t)
    BY DEF CallsInv, ThreadOK
  <2>3. /\ Makes(CallOf(t)) \/ Exists(ObjectKind(CallOf(t).op), CallOf(t).obj)
        /\ CallOf(t).op = "COND_WAIT" => CallOf(t).mux \in DOMAIN mutexes
    BY <2>1, <2>2 DEF CallKnown
  <2>4. Exists(ObjectKind(CallOf(t).op), CallOf(t).obj) <=>
          CallOf(t).obj \in IF CallOf(t).op \in {"MUTEX_INIT", "MUTEX_LOCK", "MUTEX_UNLOCK"} THEN DOMAIN mutexes
                   ELSE IF CallOf(t).op \in {"BARRIER_INIT", "BARRIER_WAIT"} THEN DOMAIN barriers
                   ELSE DOMAIN conds
    BY <2>1, <1>ObjectOps
  <2>5. r.obj \in Nat /\ r.mux \in Nat /\ r.time \in Nat
    BY <2>1 DEF Requests
  <2> QED  BY <2>1, <2>3, <2>4, <2>5 DEF Makes
<1> QED  BY <1>ObjectThere

-----------------------------------------------------------------------------
(* The MCP's handlers: barriers *)

\* SyncServer::barrierWait queues the thread, or answers all threads of the
\* barrier when it is the last.
LEMMA SimBarrierWaitStep ==
  \A t \in Tiles : \A r :
    /\ NatWellOrdered /\ CallsInv
    /\ TakesPacket(t, r)
    /\ r.op = "BARRIER_WAIT"
    /\ SimBarrierWait(t, r)
    =>
         CallsInv' /\ (ClockInv => ClockInv')
\* The elements of a queue are of its type.
<1>RangeType.
  ASSUME NEW S, NEW s \in Seq(S)
  PROVE  Range(s) \subseteq S
    BY <1>RangeType, SMTT(60) DEF Range
\* Setting one barrier leaves the others.
<1>BarrierChanged.
  ASSUME barriers \in Seq(Barriers), NEW x \in DOMAIN barriers, NEW q \in Seq(Tiles), NEW time \in Nat,
         barriers' = [barriers EXCEPT ![x] = [@ EXCEPT !.waiting = q, !.maxTime = time]]
  PROVE  BarrierSet(x, q)
  <2> USE <1>BarrierChanged
  <2>1. PICK b \in Barriers : b = barriers[x]
    BY SMTT(60)
  <2>2. PICK d : d = [b EXCEPT !.waiting = q, !.maxTime = time]
    OBVIOUS
  <2>3. d \in Barriers
    BY <2>1, <2>2 DEF Barriers
  <2>4. d.count = b.count /\ d.waiting = q
    BY <2>1, <2>2 DEF Barriers
  <2>5. barriers' = [barriers EXCEPT ![x] = d]
    BY <2>1, <2>2
  <2>6. barriers' \in Seq(Barriers) /\ DOMAIN barriers' = DOMAIN barriers /\ barriers'[x] = d
    BY <2>3, <2>5, SMTT(60)
  <2>7. \A y \in DOMAIN barriers : y # x => barriers'[y] = barriers[y]
    BY <2>5
  <2> QED  BY <2>1, <2>4, <2>6, <2>7 DEF BarrierSet
\* The waiting threads and the one that arrives.
<1>ThreadsArrived.
  ASSUME NEW q \in Seq(Tiles), NEW t \in Tiles
  PROVE  /\ Append(q, t) \in Seq(Tiles) /\ Len(Append(q, t)) = Len(q) + 1
         /\ {Append(q, t)[i] : i \in 1..Len(Append(q, t))} = Range(q) \cup {t}
  <2> USE <1>ThreadsArrived
  <2>1. PICK w : w = Append(q, t)
    OBVIOUS
  <2>2. w \in Seq(Tiles) /\ Len(w) = Len(q) + 1 /\ DOMAIN w = 1..Len(w)
    BY <2>1, SMTT(60)
  <2>3. Range(w) = Range(q) \cup {t}
    BY <2>1, RangeAppend, SMTT(60)
  <2>4. {w[i] : i \in 1..Len(w)} = Range(w)
    BY <2>2 DEF Range
  <2>5. /\ Append(q, t) \in Seq(Tiles) /\ Len(Append(q, t)) = Len(q) + 1
        /\ {Append(q, t)[i] : i \in 1..Len(Append(q, t))} = Range(Append(q, t))
    BY <2>1, <2>2, <2>4
  <2> QED  BY <2>1, <2>3, <2>5
\* What barrierWait does to the MCP's state.
<1>SimBarrierWaitEffect.
  ASSUME CallsInv, NEW t \in Tiles, NEW r, TakesPacket(t, r), r.op = "BARRIER_WAIT", SimBarrierWait(t, r)
  PROVE  /\ r.obj \in DOMAIN barriers /\ mutexes' = mutexes /\ conds' = conds /\ waking' = waking
         /\ \/ /\ Len(barriers[r.obj].waiting) + 1 # barriers[r.obj].count
               /\ \/ Len(barriers[r.obj].waiting) + 1 < barriers[r.obj].count /\ ms' = StallThread(ms, t)
                  \/ Len(barriers[r.obj].waiting) + 1 > barriers[r.obj].count /\ ms' = Fail(StallThread(ms, t), "count")
               /\ BarrierSet(r.obj, Append(barriers[r.obj].waiting, t))
            \/ /\ Len(barriers[r.obj].waiting) + 1 = barriers[r.obj].count
               /\ AllReleased(r.obj, t)
               /\ BarrierSet(r.obj, <<>>)
  <2> USE <1>SimBarrierWaitEffect
  <2>1. r.obj \in DOMAIN barriers /\ r.time \in Nat
    BY ObjectThere DEF Ops
  <2>2. ms \in MasterTables /\ barriers \in Seq(Barriers)
    BY ServerTyped
  <2> DEFINE x == r.obj
             b == barriers[x]
             w == Append(b.waiting, t)
             n == Len(w)
             time == ArrivalTime(b, n, r.time)
             S == {w[i] : i \in 1..n}
             table == StallThread(ms, t)
  <2>3. \/ /\ ~ AllReached(b, n)
           /\ ms' = IF n > b.count THEN Fail(table, "count") ELSE table
           /\ barriers' = [barriers EXCEPT ![x] = [@ EXCEPT !.waiting = w, !.maxTime = time]]
        \/ /\ AllReached(b, n)
           /\ \E skipped \in SUBSET BeyondResumed(S, n) :
                ms' = SendAll(ResumeThreads(table, S \ skipped), S, "RESPONSE",
                              Msg("BARRIER_WAIT", time))
           /\ barriers' = [barriers EXCEPT ![x] = [@ EXCEPT !.waiting = <<>>, !.maxTime = time]]
    BY DEF SimBarrierWait
  <2>4. b \in Barriers
    BY <2>1, <2>2, SMTT(60)
  <2>5. b.waiting \in Seq(Tiles) /\ b.count \in Nat /\ b.maxTime \in Nat
    BY <2>4 DEF Barriers
  <2>6. w \in Seq(Tiles) /\ n = Len(b.waiting) + 1 /\ S = Range(b.waiting) \cup {t}
    BY <2>5, <1>ThreadsArrived
  <2>7. n \in Nat
    BY <2>5, SMTT(60)
  <2> HIDE DEF n
  <2>8. time \in Nat
    BY <2>1, <2>5, <2>7 DEF ArrivalTime
  <2>9. S \in SUBSET Tiles
    <3>1. Range(b.waiting) \subseteq Tiles
      BY <2>5, <1>RangeType
    <3> QED  BY <2>6, <3>1
  <2>11. mutexes' = mutexes /\ conds' = conds /\ waking' = waking
    BY DEF SimBarrierWait
  <2> HIDE DEF w, time, S, table
  <2>12. CASE ~ AllReached(b, n)
    <3>1. n # b.count
      BY <2>12 DEF AllReached
    <3>2. /\ ms' = IF n > b.count THEN Fail(table, "count") ELSE table
          /\ barriers' = [barriers EXCEPT ![x] = [@ EXCEPT !.waiting = w, !.maxTime = time]]
      BY <2>3, <2>12
    <3>3. BarrierSet(x, w)
      BY <2>1, <2>2, <2>6, <2>8, <3>2, <1>BarrierChanged
    <3>4. \/ n < b.count /\ ms' = table
          \/ n > b.count /\ ms' = Fail(table, "count")
      BY <2>5, <2>7, <3>1, <3>2, SMTT(60)
    <3> QED  BY <2>1, <2>6, <2>11, <3>1, <3>3, <3>4 DEF w, table
  <2>13. CASE AllReached(b, n)
    <3>1. n = b.count
      BY <2>13 DEF AllReached
    <3>2. PICK skipped \in SUBSET BeyondResumed(S, n) :
            ms' = SendAll(ResumeThreads(table, S \ skipped), S, "RESPONSE", Msg("BARRIER_WAIT", time))
      BY <2>3, <2>13
    <3>3. barriers' = [barriers EXCEPT ![x] = [@ EXCEPT !.waiting = <<>>, !.maxTime = time]]
      BY <2>3, <2>13
    <3>4. BarrierSet(x, <<>>)
      <4>1. <<>> \in Seq(Tiles)
        BY SMTT(60)
      <4> QED  BY <2>1, <2>2, <2>8, <3>3, <4>1, <1>BarrierChanged
    <3>5. BeyondResumed(S, n) \subseteq Tiles
      BY <2>9 DEF BeyondResumed
    <3>6. skipped \in SUBSET Tiles /\ skipped \subseteq BeyondResumed(S, b.count)
      BY <3>1, <3>2, <3>5
    <3>7. /\ S = Range(barriers[r.obj].waiting) \cup {t}
          /\ skipped \subseteq BeyondResumed(S, barriers[r.obj].count)
          /\ ms' = SendAll(ResumeThreads(StallThread(ms, t), S \ skipped), S, "RESPONSE",
                           Msg("BARRIER_WAIT", time))
      BY <2>6, <3>2, <3>6 DEF table
    <3>8. BarrierSet(r.obj, <<>>) /\ Len(barriers[r.obj].waiting) + 1 = barriers[r.obj].count
      BY <2>6, <3>1, <3>4
    <3>9. AllReleased(r.obj, t)
      BY <2>8, <2>9, <3>6, <3>7 DEF AllReleased
    <3> QED  BY <2>1, <2>11, <3>8, <3>9
  <2> QED  BY <2>12, <2>13
\* A thread in a barrier's queue.
<1>BarrierWaiter.
  ASSUME NEW u \in Tiles, ThreadOK(u), NEW x \in DOMAIN barriers, u \in Range(barriers[x].waiting)
  PROVE  /\ mode[u] = "RESPONSE" /\ CallOf(u).op = "BARRIER_WAIT" /\ CallOf(u).obj = x
         /\ toMcp[u] = <<>> /\ (\A k \in Kinds : ~ Got(u, k))
         /\ ~ AtMutex(u) /\ ~ AtCond(u) /\ ~ InLoop(u) /\ u \notin waking.woken /\ u # waking.by
         /\ u \notin ms.acquired
         /\ \A m \in holding[u] : Owns(u, m)
         /\ \A b \in DOMAIN barriers : u \in Range(barriers[b].waiting) => b = x
  <2> USE <1>BarrierWaiter
  <2>1. \A b \in DOMAIN barriers : u \in Range(barriers[b].waiting) =>
          Calling(u, "BARRIER_WAIT") /\ CallOf(u).obj = b
    BY DEF ThreadOK, QueuesFit
  <2>2. mode[u] = "RESPONSE" /\ CallOf(u).op = "BARRIER_WAIT" /\ CallOf(u).obj = x
    BY <2>1 DEF Calling
  <2>3. AtBarrier(u) /\ Kept(u)
    BY DEF AtBarrier, Kept
  <2>4. toMcp[u] = <<>> /\ (\A k \in Kinds : ~ Got(u, k))
    BY <2>3 DEF ThreadOK, InOnePlace, Asked
  <2>5. Obtained(CallOf(u)) = {}
    BY <2>2, CallOps
  <2>6. ~ AtMutex(u)
    BY <2>5 DEF ThreadOK, QueuesFit, AtMutex
  <2>7. ~ AtCond(u) /\ ~ InLoop(u) /\ u \notin waking.woken /\ u # waking.by /\ u \notin ms.acquired
    BY <2>2 DEF ThreadOK, QueuesFit, AtCond, InLoop, Calling
  <2>8. \A m \in holding[u] : Owns(u, m)
    BY DEF ThreadOK, MutexesOwned
  <2> QED  BY <2>1, <2>2, <2>4, <2>6, <2>7, <2>8
\* Who is in a barrier's queue when thread t joins queue x, and when all leave it.
<1>BarrierJoined.
  ASSUME OncePerQueue, barriers \in Seq(Barriers), NEW x \in DOMAIN barriers, NEW t \in Tiles,
         BarrierSet(x, Append(barriers[x].waiting, t)), ~ AtBarrier(t)
  PROVE  /\ \A u \in Tiles : u # t => \A b \in DOMAIN barriers' : u \in Range(barriers'[b].waiting) =>
              b \in DOMAIN barriers /\ u \in Range(barriers[b].waiting)
         /\ \A b \in DOMAIN barriers' : t \in Range(barriers'[b].waiting) => b = x
         /\ \A b \in DOMAIN barriers' : IsInjective(barriers'[b].waiting)
  <2> USE <1>BarrierJoined
  <2>1. barriers[x].waiting \in Seq(Tiles) /\ t \notin Range(barriers[x].waiting)
    <3>1. barriers[x] \in Barriers
      BY SMTT(60)
    <3> QED  BY <3>1 DEF Barriers, AtBarrier
  <2>2. /\ Range(Append(barriers[x].waiting, t)) = Range(barriers[x].waiting) \cup {t}
        /\ IsInjective(Append(barriers[x].waiting, t))
    BY <2>1, RangeAppend, SMTT(60) DEF OncePerQueue
  <2>3. ASSUME NEW b \in DOMAIN barriers'
        PROVE  /\ b \in DOMAIN barriers
               /\ b # x => Range(barriers'[b].waiting) = Range(barriers[b].waiting)
               /\ b = x => Range(barriers'[b].waiting) = Range(barriers[x].waiting) \cup {t}
               /\ IsInjective(barriers'[b].waiting)
    <3>1. b \in DOMAIN barriers
      BY DEF BarrierSet
    <3>2. CASE b # x
      BY <3>1, <3>2 DEF BarrierSet, OncePerQueue
    <3>3. CASE b = x
      <4>1. barriers'[b].waiting = Append(barriers[x].waiting, t)
        BY <3>3 DEF BarrierSet
      <4> QED  BY <2>2, <3>1, <3>3, <4>1
    <3> QED  BY <3>2, <3>3
  <2>4. \A b \in DOMAIN barriers' : t \in Range(barriers'[b].waiting) => b = x
    BY <2>3 DEF AtBarrier
  <2> QED  BY <2>3, <2>4
\* All threads leave the barrier that is complete.
<1>BarrierLeft.
  ASSUME OncePerQueue, NEW x \in DOMAIN barriers, BarrierSet(x, <<>>)
  PROVE  /\ \A b \in DOMAIN barriers' : Range(barriers'[b].waiting) # {} =>
              b \in DOMAIN barriers /\ b # x /\ barriers'[b].waiting = barriers[b].waiting
         /\ \A b \in DOMAIN barriers' : IsInjective(barriers'[b].waiting)
  <2> USE <1>BarrierLeft
  <2>1. ASSUME NEW b \in DOMAIN barriers'
        PROVE  /\ Range(barriers'[b].waiting) # {} =>
                    b \in DOMAIN barriers /\ b # x /\ barriers'[b].waiting = barriers[b].waiting
               /\ IsInjective(barriers'[b].waiting)
    <3>1. b \in DOMAIN barriers
      BY DEF BarrierSet
    <3>2. CASE b # x
      BY <3>1, <3>2 DEF BarrierSet, OncePerQueue
    <3>3. CASE b = x
      <4>1. barriers'[b].waiting = <<>>
        BY <3>3 DEF BarrierSet
      <4> QED  BY <4>1, EmptyQueue
    <3> QED  BY <3>2, <3>3
  <2> QED  BY <2>1
<1>SimBarrierWaitStep.
  ASSUME NatWellOrdered, CallsInv, NEW t \in Tiles, NEW r, TakesPacket(t, r), r.op = "BARRIER_WAIT", SimBarrierWait(t, r)
  PROVE  CallsInv' /\ (ClockInv => ClockInv')
  <2> USE <1>SimBarrierWaitStep
  <2> DEFINE x == r.obj
             table == StallThread(ms, t)
  <2>1. x \in DOMAIN barriers /\ mutexes' = mutexes /\ conds' = conds /\ waking' = waking
    BY <1>SimBarrierWaitEffect
  <2>2. /\ ms \in MasterTables /\ mutexes \in Seq(Mutexes) /\ conds \in Seq(Seq(CondWaiters))
        /\ barriers \in Seq(Barriers) /\ OncePerQueue /\ waking \in Wakings
        /\ waking # NotWaking => waking.by \in Tiles
    BY ServerTyped
  <2>3. /\ mode[t] = "RESPONSE" /\ CallOf(t).op = "BARRIER_WAIT" /\ CallOf(t).obj = x
        /\ toMcp' \in [Tiles -> Seq(Requests)] /\ toMcp'[t] = <<>>
        /\ \A u \in Tiles : u # t => toMcp'[u] = toMcp[u]
        /\ ~ Kept(t) /\ (\A k \in Kinds : ~ Got(t, k)) /\ (\A m \in holding[t] : Owns(t, m))
    BY PacketTaken, SMTT(60) DEF Ops
  <2>4. UNCHANGED clients
    BY DEF TakesPacket
  <2>5. \A u \in Tiles : OwnsStill(u) /\ \A m \in holding[u] : Owns(u, m)'
    BY <2>1 DEF OwnsStill, Owns, CallsInv, ThreadOK, MutexesOwned
  <2>6. /\ mutexes' \in Seq(Mutexes) /\ conds' \in Seq(Seq(CondWaiters)) /\ waking' \in Wakings
        /\ waking' # NotWaking => waking'.by \in Tiles
    BY <2>1, <2>2
  <2>7. ASSUME NEW u, u \in Tiles, ~ AtMutex(u), ~ AtCond(u), ~ InLoop(u), u \notin waking.woken, u # waking.by
        PROVE  ~ AtMutex(u)' /\ ~ AtCond(u)' /\ ~ InLoop(u)' /\ u \notin waking'.woken /\ u # waking'.by
    BY <2>1, <2>7 DEF AtMutex, AtCond, InLoop
  \* What is left to show in both cases.
  <2>8. ASSUME NEW q, BarrierSet(x, q), NEW f, Answers(ms, ms', f),
               \A b \in DOMAIN barriers' : IsInjective(barriers'[b].waiting),
               \A u \in Tiles : \/ ThreadAnswered(u, f) \/ ThreadQueued(u, f)
                                \/ /\ u # t /\ u \notin DOMAIN f
                                   /\ \A b \in DOMAIN barriers' : u \in Range(barriers'[b].waiting) =>
                                        b \in DOMAIN barriers /\ u \in Range(barriers[b].waiting)
        PROVE  CallsInv' /\ (ClockInv => ClockInv')
    <3>1. ObjectsStay /\ barriers' \in Seq(Barriers)
      BY <2>1, <2>8 DEF BarrierSet, ObjectsStay
    <3>2. OncePerQueue'
      BY <2>1, <2>2, <2>8 DEF OncePerQueue
    <3>3. ASSUME NEW u \in Tiles, u # t, u \notin DOMAIN f,
                 \A b \in DOMAIN barriers' : u \in Range(barriers'[b].waiting) =>
                    b \in DOMAIN barriers /\ u \in Range(barriers[b].waiting)
          PROVE  ThreadLeft(u, f)
      <4>1. StaysPut(u)
        BY <2>1, <3>3 DEF StaysPut
      <4> QED  BY <2>3, <2>5, <3>3, <4>1 DEF ThreadLeft
    <3>4. \A u \in Tiles : ThreadLeft(u, f) \/ ThreadAnswered(u, f) \/ ThreadQueued(u, f)
      BY <2>8, <3>3
    <3>5. CallsInv'
      BY <2>3, <2>4, <2>6, <2>8, <3>1, <3>2, <3>4, ServerStep
    <3> QED  BY <2>4, <2>8, <3>5, AnswersClock
  <2>9. Quiet(ms, table) /\ table \in MasterTables
    BY <2>2, StallThreadEffect DEF Quiet
  <2>95. \/ /\ ms' = table \/ ms' = Fail(table, "count")
            /\ BarrierSet(x, Append(barriers[x].waiting, t))
         \/ /\ \E S \in SUBSET Tiles, skipped \in SUBSET Tiles, time \in Nat :
                 /\ S = Range(barriers[x].waiting) \cup {t}
                 /\ ms' = SendAll(ResumeThreads(table, S \ skipped), S, "RESPONSE", Msg("BARRIER_WAIT", time))
            /\ BarrierSet(x, <<>>)
    <3>1. CASE Len(barriers[x].waiting) + 1 # barriers[x].count
      <4>1. /\ ms' = table \/ ms' = Fail(table, "count")
            /\ BarrierSet(x, Append(barriers[x].waiting, t))
        BY <3>1, <1>SimBarrierWaitEffect
      <4> QED  BY <4>1
    <3>2. CASE Len(barriers[x].waiting) + 1 = barriers[x].count
      <4>1. BarrierSet(x, <<>>)
        BY <3>2, <1>SimBarrierWaitEffect
      <4>2. \E S \in SUBSET Tiles, skipped \in SUBSET Tiles, time \in Nat :
              /\ S = Range(barriers[x].waiting) \cup {t}
              /\ skipped \subseteq BeyondResumed(S, barriers[x].count)
              /\ ms' = SendAll(ResumeThreads(table, S \ skipped), S, "RESPONSE", Msg("BARRIER_WAIT", time))
        <5>1. AllReleased(x, t)
          BY <3>2, <1>SimBarrierWaitEffect
        <5> QED  BY <5>1 DEF AllReleased
      <4> QED  BY <4>1, <4>2
    <3> QED  BY <3>1, <3>2
  <2> HIDE DEF table
  <2>10. ASSUME ms' = table \/ ms' = Fail(table, "count"), BarrierSet(x, Append(barriers[x].waiting, t))
         PROVE  CallsInv' /\ (ClockInv => ClockInv')
    <3>1. PICK f : Answers(ms, ms', f) /\ DOMAIN f = {}
      <4>1. Quiet(ms, ms')
        <5>1. CASE ms' = table
          BY <2>9, <5>1
        <5>2. CASE ms' = Fail(table, "count")
          <6>1. Quiet(table, ms')
            BY <2>9, <5>2, FailEffect DEF Failures
          <6> QED  BY <2>2, <2>9, <6>1, QuietTrans
        <5> QED  BY <2>10, <5>1, <5>2
      <4>2. Answers(ms, ms', <<>>) /\ DOMAIN <<>> = {}
        BY <2>2, <4>1, QuietAnswers, SMTT(60)
      <4> QED  BY <4>2
    <3>2. ~ AtBarrier(t)
      BY <2>3 DEF Kept
    <3>3. /\ \A u \in Tiles : u # t => \A b \in DOMAIN barriers' : u \in Range(barriers'[b].waiting) =>
                b \in DOMAIN barriers /\ u \in Range(barriers[b].waiting)
          /\ \A b \in DOMAIN barriers' : t \in Range(barriers'[b].waiting) => b = x
          /\ \A b \in DOMAIN barriers' : IsInjective(barriers'[b].waiting)
      BY <2>1, <2>2, <2>10, <3>2, <1>BarrierJoined
    <3>4. ThreadQueued(t, f)
      <4>1. ~ AtMutex(t)' /\ ~ AtCond(t)' /\ ~ InLoop(t)' /\ t \notin waking'.woken /\ t # waking'.by
        BY <2>3, <2>7 DEF Kept
      <4>2. t \notin ms'.acquired
        BY <2>3, <3>1 DEF Kept, Answers
      <4>3. CallOf(t)' = CallOf(t) /\ mode'[t] = mode[t]
        BY <2>4 DEF clients, CallOf
      <4>4. Calling(t, "BARRIER_WAIT")' /\ CallOf(t)'.obj = x
        BY <2>3, <4>3 DEF Calling
      <4>5. QueuesFit(t)'
        BY <3>3, <4>1, <4>2, <4>4 DEF QueuesFit, AtMutex, AtCond, InLoop
      <4>6. t \notin DOMAIN f
        BY <3>1
      <4> QED  BY <2>3, <2>5, <4>1, <4>5, <4>6 DEF ThreadQueued
    <3>5. \A u \in Tiles : u \notin DOMAIN f
      BY <3>1
    <3> QED  BY <2>8, <2>10, <3>1, <3>3, <3>4, <3>5
  <2>11. ASSUME NEW S \in SUBSET Tiles, NEW skipped \in SUBSET Tiles, NEW time \in Nat,
                S = Range(barriers[x].waiting) \cup {t},
                ms' = SendAll(ResumeThreads(table, S \ skipped), S, "RESPONSE", Msg("BARRIER_WAIT", time)),
                BarrierSet(x, <<>>)
         PROVE  CallsInv' /\ (ClockInv => ClockInv')
    <3>1. PICK f : Answers(ms, ms', f) /\ DOMAIN f = S /\ \A u \in S : f[u].code = "BARRIER_WAIT"
      <4>1. PICK n : n = ResumeThreads(table, S \ skipped)
        OBVIOUS
      <4>2. S \ skipped \in SUBSET Tiles
        OBVIOUS
      <4>3. Quiet(table, n)
        BY <2>9, <4>1, <4>2, ResumeThreadsEffect
      <4>4. Quiet(ms, n)
        BY <2>2, <2>9, <4>3, QuietTrans
      <4>5. PICK msg \in Messages : msg = Msg("BARRIER_WAIT", time) /\ msg.code = "BARRIER_WAIT"
        BY ReplyIs, SMTT(60) DEF Codes
      <4>6. ms' = SendAll(n, S, "RESPONSE", msg)
        BY <2>11, <4>1, <4>5
      <4>7. Answers(ms, ms', [u \in S |-> msg])
        BY <2>2, <4>4, <4>5, <4>6, AnswersSendAll
      <4>8. PICK f : f = [u \in S |-> msg]
        OBVIOUS
      <4>9. DOMAIN f = S /\ \A u \in S : f[u].code = "BARRIER_WAIT"
        BY <4>5, <4>8
      <4>10. Answers(ms, ms', f)
        BY <4>7, <4>8
      <4> QED  BY <4>9, <4>10
    <3>2. /\ \A b \in DOMAIN barriers' : Range(barriers'[b].waiting) # {} =>
                b \in DOMAIN barriers /\ b # x /\ barriers'[b].waiting = barriers[b].waiting
          /\ \A b \in DOMAIN barriers' : IsInjective(barriers'[b].waiting)
      BY <2>1, <2>2, <2>11, <1>BarrierLeft
    <3>3. \A u \in Tiles : \A b \in DOMAIN barriers' : u \in Range(barriers'[b].waiting) =>
            b \in DOMAIN barriers /\ b # x /\ u \in Range(barriers[b].waiting)
      BY <3>2
    <3>4. ASSUME NEW u \in Tiles, u \in S
          PROVE  ThreadAnswered(u, f)
      <4>1. /\ mode[u] = "RESPONSE" /\ CallOf(u).op = "BARRIER_WAIT"
            /\ toMcp'[u] = <<>> /\ (\A k \in Kinds : ~ Got(u, k))
            /\ ~ AtMutex(u) /\ ~ AtCond(u) /\ ~ InLoop(u) /\ u \notin waking.woken /\ u # waking.by
            /\ u \notin ms.acquired
            /\ \A b \in DOMAIN barriers : u \in Range(barriers[b].waiting) => b = x
        <5>1. CASE u = t
          BY <2>3, <5>1 DEF Kept, AtBarrier
        <5>2. CASE u # t
          <6>1. u \in Range(barriers[x].waiting) /\ ThreadOK(u)
            BY <2>11, <3>4, <5>2 DEF CallsInv
          <6>2. /\ mode[u] = "RESPONSE" /\ CallOf(u).op = "BARRIER_WAIT"
                /\ toMcp[u] = <<>> /\ (\A k \in Kinds : ~ Got(u, k))
                /\ ~ AtMutex(u) /\ ~ AtCond(u) /\ ~ InLoop(u) /\ u \notin waking.woken /\ u # waking.by
                /\ u \notin ms.acquired
                /\ \A b \in DOMAIN barriers : u \in Range(barriers[b].waiting) => b = x
            BY <2>1, <3>4, <6>1, <1>BarrierWaiter
          <6> QED  BY <2>3, <5>2, <6>2
        <5> QED  BY <5>1, <5>2
      <4>2. Expected(CallOf(u)) = "BARRIER_WAIT" /\ ~ Makes(CallOf(u)) /\ Obtained(CallOf(u)) = {}
        BY <4>1, CallOps DEF Makes
      <4>3. ~ Kept(u)'
        <5>1. ~ AtMutex(u)' /\ ~ AtCond(u)' /\ ~ InLoop(u)' /\ u \notin waking'.woken /\ u # waking'.by
          BY <2>7, <4>1
        <5>2. ~ AtBarrier(u)'
          BY <3>3, <4>1 DEF AtBarrier
        <5>3. u \notin ms'.acquired
          BY <3>1, <4>1 DEF Answers
        <5> QED  BY <5>1, <5>2, <5>3 DEF Kept
      <4>4. u \in DOMAIN f /\ f[u].code = "BARRIER_WAIT"
        BY <3>1, <3>4
      <4> QED  BY <2>5, <4>1, <4>2, <4>3, <4>4 DEF ThreadAnswered
    <3>5. \A u \in Tiles : u \notin S => u # t /\ u \notin DOMAIN f
      BY <2>11, <3>1
    <3>6. \A u \in Tiles : \A b \in DOMAIN barriers' : u \in Range(barriers'[b].waiting) =>
            b \in DOMAIN barriers /\ u \in Range(barriers[b].waiting)
      BY <3>3
    <3> QED  BY <2>8, <2>11, <3>1, <3>2, <3>4, <3>5, <3>6
  <2> QED  BY <2>10, <2>11, <2>95
<1> QED  BY <1>SimBarrierWaitStep

-----------------------------------------------------------------------------
(* The MCP's handlers: new objects *)

\* A thread stays out of the queues when a step puts it in none.
LEMMA KeptStays ==
  ASSUME NEW u, StaysPut(u), ms'.acquired \subseteq ms.acquired, ~ Kept(u)
  PROVE  ~ Kept(u)'
BY DEF StaysPut, Kept, AtMutex, AtCond, AtBarrier, InLoop

\* A request is answered at once, and its sender is in no queue.
LEMMA ReplyStep ==
  ASSUME CallsInv, NEW t \in Tiles, NEW r, TakesPacket(t, r), r.op \in Ops,
         NEW code \in Codes, NEW value \in Nat, NEW n, Quiet(ms, n), ms' = Reply(n, t, code, value),
         code = Expected(CallOf(t)),
         Makes(CallOf(t)) => Exists(ObjectKind(CallOf(t).op), value)',
         \A m \in holding[t] \cup Obtained(CallOf(t)) : Owns(t, m)',
         mutexes' \in Seq(Mutexes), conds' \in Seq(Seq(CondWaiters)), barriers' \in Seq(Barriers),
         waking' = waking, OncePerQueue', ObjectsStay,
         \A u \in Tiles : StaysPut(u) /\ (u # t => OwnsStill(u))
  PROVE  CallsInv' /\ (ClockInv => ClockInv')
<1>1. ms \in MasterTables /\ waking' \in Wakings /\ (waking' # NotWaking => waking'.by \in Tiles)
  BY ServerTyped
<1>2. PICK msg \in Messages : msg = Msg(code, value)
  BY ReplyIs
<1>3. ms' = Send(n, t, "RESPONSE", msg) /\ msg.code = code /\ msg.value = value
  BY <1>2, ReplyIs DEF Reply
<1>4. PICK f : Answers(ms, ms', f) /\ DOMAIN f = {t} /\ f[t] = msg
  <2>1. AnswersWith(ms, Send(n, t, "RESPONSE", msg), t, msg)
    BY <1>1, <1>2, AnswersOne
  <2> QED  BY <1>3, <2>1 DEF AnswersWith
<1>5. /\ toMcp' \in [Tiles -> Seq(Requests)] /\ toMcp'[t] = <<>>
      /\ \A u \in Tiles : u # t => toMcp'[u] = toMcp[u]
      /\ ~ Kept(t) /\ (\A k \in Kinds : ~ Got(t, k)) /\ mode[t] = "RESPONSE"
  BY PacketTaken
<1>6. ThreadAnswered(t, f)
  <2>1. ~ Kept(t)'
    BY <1>4, <1>5, KeptStays DEF Answers
  <2>3. f[t].code = code /\ f[t].value = value
    BY <1>3, <1>4
  <2> QED  BY <1>4, <1>5, <2>1, <2>3 DEF ThreadAnswered
<1>7. \A u \in Tiles : u # t => ThreadLeft(u, f)
  BY <1>4, <1>5 DEF ThreadLeft
<1>8. UNCHANGED clients
  BY DEF TakesPacket
<1>9. CallsInv'
  BY <1>1, <1>4, <1>5, <1>6, <1>7, <1>8, ServerStep
<1> QED  BY <1>4, <1>8, <1>9, AnswersClock

\* SyncServer::mutexInit, condInit and barrierInit make an object and answer
\* with its handle.
LEMMA NewObjectSteps ==
  \A t \in Tiles : \A r :
    CallsInv /\ TakesPacket(t, r) =>
      /\ r.op = "MUTEX_INIT" /\ MutexInit(t, r) => CallsInv' /\ (ClockInv => ClockInv')
      /\ r.op = "COND_INIT" /\ CondInit(t, r) => CallsInv' /\ (ClockInv => ClockInv')
      /\ r.op = "BARRIER_INIT" /\ BarrierInit(t, r) => CallsInv' /\ (ClockInv => ClockInv')
\* A new object is added to its list, with the next handle.
<1>ListGrows.
  ASSUME NEW S, NEW s \in Seq(S), NEW x \in S, NEW a, a = Append(s, x)
  PROVE  /\ a \in Seq(S) /\ Len(s) + 1 \in Nat
         /\ DOMAIN a = DOMAIN s \cup {Len(s) + 1} /\ Len(s) + 1 \notin DOMAIN s
         /\ a[Len(s) + 1] = x /\ \A i \in DOMAIN s : a[i] = s[i]
  BY <1>ListGrows, SMTT(60)
\* SyncServer::mutexInit makes a mutex and answers with its handle.
<1>MutexInitStep.
  ASSUME CallsInv, NEW t \in Tiles, NEW r, TakesPacket(t, r), r.op = "MUTEX_INIT", MutexInit(t, r)
  PROVE  CallsInv' /\ (ClockInv => ClockInv')
  <2> USE <1>MutexInitStep
  <2> DEFINE new == [owner |-> NoTile, waiting |-> <<>>]
  <2>1. new \in Mutexes /\ new.waiting = <<>>
    BY SMTT(60) DEF Mutexes
  <2>2. /\ ms \in MasterTables /\ mutexes \in Seq(Mutexes) /\ conds \in Seq(Seq(CondWaiters))
        /\ barriers \in Seq(Barriers) /\ OncePerQueue
    BY ServerTyped
  <2>25. PICK v \in Nat : v = Len(mutexes) + 1
    BY <2>2, SMTT(60)
  <2>3. /\ mutexes' = Append(mutexes, new) /\ ms' = Reply(ms, t, "INIT", v)
        /\ conds' = conds /\ barriers' = barriers /\ waking' = waking
    BY <2>25 DEF MutexInit
  <2> HIDE DEF new
  <2>4. /\ mutexes' \in Seq(Mutexes) /\ v \in Nat /\ DOMAIN mutexes' = DOMAIN mutexes \cup {v}
        /\ mutexes'[v] = new /\ \A i \in DOMAIN mutexes : mutexes'[i] = mutexes[i]
    BY <2>1, <2>2, <2>25, <2>3, <1>ListGrows, SMTT(60)
  <2>5. r.op \in Ops /\ (\A m \in holding[t] : Owns(t, m)) /\ CallOf(t).op = "MUTEX_INIT"
    BY PacketTaken DEF Ops
  <2>6. /\ "INIT" = Expected(CallOf(t)) /\ "INIT" \in Codes
        /\ Obtained(CallOf(t)) = {} /\ ObjectKind(CallOf(t).op) = "mutex"
    BY <2>5, CallOps DEF Makes, ObjectKind, Codes
  <2>7. Makes(CallOf(t)) => Exists(ObjectKind(CallOf(t).op), v)'
    <3>1. Exists("mutex", v)'
      BY <2>4 DEF Exists
    <3>2. CallOf(t)' = CallOf(t)
      BY DEF TakesPacket, clients, CallOf
    <3>3. ObjectKind(CallOf(t).op)' = "mutex"
      BY <2>5, <3>2 DEF ObjectKind
    <3> QED  BY <3>1, <3>3 DEF Exists
  <2>8. \A u \in Tiles : StaysPut(u) /\ OwnsStill(u)
    BY <2>1, <2>3, <2>4, EmptyQueue DEF StaysPut, OwnsStill
  <2>9. ObjectsStay
    BY <2>3, <2>4 DEF ObjectsStay
  <2>95. \A m \in holding[t] \cup Obtained(CallOf(t)) : Owns(t, m)'
    BY <2>5, <2>6, <2>8, <2>9 DEF Owns, OwnsStill, ObjectsStay
  <2>10. OncePerQueue'
    BY <2>1, <2>2, <2>3, <2>4, EmptyQueue DEF OncePerQueue
  <2>11. Quiet(ms, ms)
    BY <2>2, QuietSame
  <2> QED  BY <2>2, <2>3, <2>4, <2>5, <2>6, <2>7, <2>8, <2>9, <2>95, <2>10, <2>11, ReplyStep
\* SyncServer::condInit makes a condition and answers with its handle.
<1>CondInitStep.
  ASSUME CallsInv, NEW t \in Tiles, NEW r, TakesPacket(t, r), r.op = "COND_INIT", CondInit(t, r)
  PROVE  CallsInv' /\ (ClockInv => ClockInv')
  <2> USE <1>CondInitStep
  <2> DEFINE new == <<>>
  <2>1. new \in Seq(CondWaiters) /\ Range(new) = {} /\ CoresDiffer(new)
    BY EmptyQueue, SMTT(60)
  <2>2. /\ ms \in MasterTables /\ mutexes \in Seq(Mutexes) /\ conds \in Seq(Seq(CondWaiters))
        /\ barriers \in Seq(Barriers) /\ OncePerQueue
    BY ServerTyped
  <2>25. PICK v \in Nat : v = Len(conds) + 1
    BY <2>2, SMTT(60)
  <2>3. /\ conds' = Append(conds, new) /\ ms' = Reply(ms, t, "INIT", v)
        /\ mutexes' = mutexes /\ barriers' = barriers /\ waking' = waking
    BY <2>25 DEF CondInit
  <2> HIDE DEF new
  <2>4. /\ conds' \in Seq(Seq(CondWaiters)) /\ v \in Nat /\ DOMAIN conds' = DOMAIN conds \cup {v}
        /\ conds'[v] = new /\ \A i \in DOMAIN conds : conds'[i] = conds[i]
    BY <2>1, <2>2, <2>25, <2>3, <1>ListGrows, SMTT(60)
  <2>5. r.op \in Ops /\ (\A m \in holding[t] : Owns(t, m)) /\ CallOf(t).op = "COND_INIT"
    BY PacketTaken, SMTT(60) DEF Ops
  <2>6. /\ "INIT" = Expected(CallOf(t)) /\ "INIT" \in Codes
        /\ Obtained(CallOf(t)) = {} /\ ObjectKind(CallOf(t).op) = "cond"
    BY <2>5, CallOps DEF Makes, ObjectKind, Codes
  <2>7. Makes(CallOf(t)) => Exists(ObjectKind(CallOf(t).op), v)'
    <3>1. Exists("cond", v)'
      BY <2>4 DEF Exists
    <3>2. CallOf(t)' = CallOf(t)
      BY DEF TakesPacket, clients, CallOf
    <3>3. ObjectKind(CallOf(t).op)' = "cond"
      BY <2>5, <3>2 DEF ObjectKind
    <3> QED  BY <3>1, <3>3 DEF Exists
  <2>8. \A u \in Tiles : StaysPut(u) /\ OwnsStill(u)
    BY <2>1, <2>3, <2>4 DEF StaysPut, OwnsStill
  <2>9. ObjectsStay
    BY <2>3, <2>4 DEF ObjectsStay
  <2>95. \A m \in holding[t] \cup Obtained(CallOf(t)) : Owns(t, m)'
    BY <2>5, <2>6, <2>8, <2>9 DEF Owns, OwnsStill, ObjectsStay
  <2>10. OncePerQueue'
    BY <2>1, <2>2, <2>3, <2>4 DEF OncePerQueue
  <2>11. Quiet(ms, ms)
    BY <2>2, QuietSame
  <2> QED  BY <2>2, <2>3, <2>4, <2>5, <2>6, <2>7, <2>8, <2>9, <2>95, <2>10, <2>11, ReplyStep
\* SyncServer::barrierInit makes a barrier and answers with its handle.
<1>BarrierInitStep.
  ASSUME CallsInv, NEW t \in Tiles, NEW r, TakesPacket(t, r), r.op = "BARRIER_INIT", BarrierInit(t, r)
  PROVE  CallsInv' /\ (ClockInv => ClockInv')
  <2> USE <1>BarrierInitStep
  <2> DEFINE new == [count |-> r.obj, waiting |-> <<>>, maxTime |-> 0]
  <2>1. new \in Barriers /\ new.waiting = <<>>
    <3>1. r.obj \in Nat
      BY PacketTaken DEF Requests
    <3> QED  BY <3>1, SMTT(60) DEF Barriers
  <2>2. /\ ms \in MasterTables /\ mutexes \in Seq(Mutexes) /\ conds \in Seq(Seq(CondWaiters))
        /\ barriers \in Seq(Barriers) /\ OncePerQueue
    BY ServerTyped
  <2>25. PICK v \in Nat : v = Len(barriers) + 1
    BY <2>2, SMTT(60)
  <2>3. /\ barriers' = Append(barriers, new) /\ ms' = Reply(ms, t, "INIT", v)
        /\ mutexes' = mutexes /\ conds' = conds /\ waking' = waking
    BY <2>25 DEF BarrierInit
  <2> HIDE DEF new
  <2>4. /\ barriers' \in Seq(Barriers) /\ v \in Nat /\ DOMAIN barriers' = DOMAIN barriers \cup {v}
        /\ barriers'[v] = new /\ \A i \in DOMAIN barriers : barriers'[i] = barriers[i]
    BY <2>1, <2>2, <2>25, <2>3, <1>ListGrows, SMTT(60)
  <2>5. r.op \in Ops /\ (\A m \in holding[t] : Owns(t, m)) /\ CallOf(t).op = "BARRIER_INIT"
    BY PacketTaken, SMTT(60) DEF Ops
  <2>6. /\ "INIT" = Expected(CallOf(t)) /\ "INIT" \in Codes
        /\ Obtained(CallOf(t)) = {} /\ ObjectKind(CallOf(t).op) = "barrier"
    BY <2>5, CallOps DEF Makes, ObjectKind, Codes
  <2>7. Makes(CallOf(t)) => Exists(ObjectKind(CallOf(t).op), v)'
    <3>1. Exists("barrier", v)'
      BY <2>4 DEF Exists
    <3>2. CallOf(t)' = CallOf(t)
      BY DEF TakesPacket, clients, CallOf
    <3>3. ObjectKind(CallOf(t).op)' = "barrier"
      BY <2>5, <3>2 DEF ObjectKind
    <3> QED  BY <3>1, <3>3 DEF Exists
  <2>8. \A u \in Tiles : StaysPut(u) /\ OwnsStill(u)
    BY <2>1, <2>3, <2>4, EmptyQueue DEF StaysPut, OwnsStill
  <2>9. ObjectsStay
    BY <2>3, <2>4 DEF ObjectsStay
  <2>95. \A m \in holding[t] \cup Obtained(CallOf(t)) : Owns(t, m)'
    BY <2>5, <2>6, <2>8, <2>9 DEF Owns, OwnsStill, ObjectsStay
  <2>10. OncePerQueue'
    BY <2>1, <2>2, <2>3, <2>4, EmptyQueue DEF OncePerQueue
  <2>11. Quiet(ms, ms)
    BY <2>2, QuietSame
  <2> QED  BY <2>2, <2>3, <2>4, <2>5, <2>6, <2>7, <2>8, <2>9, <2>95, <2>10, <2>11, ReplyStep
<1> QED  BY <1>MutexInitStep, <1>CondInitStep, <1>BarrierInitStep

-----------------------------------------------------------------------------
(* The MCP's handlers: mutexes *)

\* The fields of a mutex.
LEMMA MutexFields ==
  ASSUME NEW mx \in Seq(Mutexes), NEW x \in DOMAIN mx
  PROVE  mx[x] \in Mutexes /\ mx[x].owner \in Tiles \cup {NoTile} /\ mx[x].waiting \in Seq(Tiles)
<1>1. mx[x] \in Mutexes
  BY SMTT(60)
<1> QED  BY <1>1 DEF Mutexes

\* Setting one mutex leaves the others.
LEMMA MutexChanged ==
  ASSUME NEW mx \in Seq(Mutexes), NEW x \in DOMAIN mx, NEW b \in Mutexes,
         NEW my, my = [mx EXCEPT ![x] = b]
  PROVE  MutexSet(mx, my, x, b.owner, b.waiting)
<1>1. my \in Seq(Mutexes) /\ DOMAIN my = DOMAIN mx /\ my[x] = b
  BY SMTT(60)
<1>2. \A y \in DOMAIN mx : y # x => my[y] = mx[y]
  OBVIOUS
<1> QED  BY <1>1, <1>2 DEF MutexSet

\* The two parts of the state that SimMutex works on.
LEMMA TableMutexes ==
  ASSUME NEW s, NEW a, NEW mx, s = [table |-> a, mutexes |-> mx]
  PROVE  s.table = a /\ s.mutexes = mx /\ s = [table |-> s.table, mutexes |-> s.mutexes]
OBVIOUS

\* SimMutex::lock: the thread gets a free mutex and queues up for another.
LEMMA LockEffect ==
  ASSUME NEW m \in MasterTables, NEW mx \in Seq(Mutexes), NEW x \in DOMAIN mx, NEW t \in Tiles,
         NEW s, s = Lock([table |-> m, mutexes |-> mx], x, t)
  PROVE  /\ s = [table |-> s.table, mutexes |-> s.mutexes]
         /\ \/ /\ mx[x].owner = NoTile /\ s.table = m
               /\ MutexSet(mx, s.mutexes, x, t, mx[x].waiting)
            \/ /\ mx[x].owner # NoTile /\ s.table = StallThread(m, t)
               /\ MutexSet(mx, s.mutexes, x, mx[x].owner, Append(mx[x].waiting, t))
<1> DEFINE b == [mx[x] EXCEPT !.owner = t]
           c == [mx[x] EXCEPT !.waiting = Append(mx[x].waiting, t)]
           tab == StallThread(m, t)
<1>1. mx[x] \in Mutexes /\ mx[x].owner \in Tiles \cup {NoTile} /\ mx[x].waiting \in Seq(Tiles)
  BY MutexFields
<1>2. b \in Mutexes /\ b.owner = t /\ b.waiting = mx[x].waiting
  BY <1>1 DEF Mutexes
<1>25. Append(mx[x].waiting, t) \in Seq(Tiles)
  BY <1>1, RangeAppend
<1>3. c \in Mutexes /\ c.owner = mx[x].owner /\ c.waiting = Append(mx[x].waiting, t)
  BY <1>1, <1>25 DEF Mutexes
<1>4. CASE mx[x].owner = NoTile
  <2> DEFINE my == [mx EXCEPT ![x] = b]
  <2>1. s = [table |-> m, mutexes |-> my]
    BY <1>4 DEF Lock, Free
  <2> HIDE DEF b, my
  <2>2. s.table = m /\ s.mutexes = my /\ s = [table |-> s.table, mutexes |-> s.mutexes]
    BY <2>1, TableMutexes
  <2>3. MutexSet(mx, s.mutexes, x, t, mx[x].waiting)
    BY <1>2, <2>2, MutexChanged DEF my
  <2> QED  BY <1>4, <2>2, <2>3
<1>5. CASE mx[x].owner # NoTile
  <2> DEFINE my == [mx EXCEPT ![x] = c]
  <2>1. s = [table |-> tab, mutexes |-> my]
    BY <1>5 DEF Lock, Free
  <2> HIDE DEF c, tab, my
  <2>2. s.table = tab /\ s.mutexes = my /\ s = [table |-> s.table, mutexes |-> s.mutexes]
    BY <2>1, TableMutexes
  <2>3. MutexSet(mx, my, x, c.owner, c.waiting)
    BY <1>3, MutexChanged DEF my
  <2> QED  BY <1>3, <1>5, <2>2, <2>3 DEF tab
<1> QED  BY <1>4, <1>5

\* SimMutex::unlock by the owner, and the notice to the next owner, the thread
\* that has waited longest.
LEMMA ReleaseEffect ==
  ASSUME NEW m \in MasterTables, NEW mx \in Seq(Mutexes), NEW x \in DOMAIN mx, NEW t \in Tiles,
         mx[x].owner = t, NEW time \in Nat,
         NEW s, s = NotifyOwner(Unlock([table |-> m, mutexes |-> mx], x, t), x, time)
  PROVE  /\ s = [table |-> s.table, mutexes |-> s.mutexes]
         /\ \/ /\ mx[x].waiting = <<>> /\ s.table = m
               /\ MutexSet(mx, s.mutexes, x, NoTile, <<>>)
            \/ /\ mx[x].waiting # <<>> /\ Head(mx[x].waiting) \in Tiles
               /\ s.table = MutexReply(ResumeThread(m, Head(mx[x].waiting)), Head(mx[x].waiting), time)
               /\ MutexSet(mx, s.mutexes, x, Head(mx[x].waiting), Tail(mx[x].waiting))
<1> DEFINE o == Head(mx[x].waiting)
           b == [mx[x] EXCEPT !.owner = NoTile]
           c == [owner |-> o, waiting |-> Tail(mx[x].waiting)]
           u == Unlock([table |-> m, mutexes |-> mx], x, t)
           tab == ResumeThread(m, o)
<1>1. mx[x] \in Mutexes /\ mx[x].owner \in Tiles \cup {NoTile} /\ mx[x].waiting \in Seq(Tiles)
  BY MutexFields
<1>2. CASE mx[x].waiting = <<>>
  <2>1. b \in Mutexes /\ b.owner = NoTile /\ b.waiting = <<>>
    BY <1>1, <1>2 DEF Mutexes
  <2>2. u = [table |-> m, mutexes |-> [mx EXCEPT ![x] = b]]
    BY <1>2 DEF Unlock
  <2> HIDE DEF b, u
  <2>3. u.mutexes[x].owner = NoTile
    BY <2>1, <2>2
  <2>4. s = u
    BY <2>3 DEF NotifyOwner, u
  <2> QED  BY <1>2, <2>1, <2>2, <2>4, MutexChanged, SMTT(60)
<1>3. CASE mx[x].waiting # <<>>
  <2>1. o \in Tiles /\ Tail(mx[x].waiting) \in Seq(Tiles)
    BY <1>1, <1>3, SMTT(60)
  <2>2. c \in Mutexes /\ c.owner = o /\ c.waiting = Tail(mx[x].waiting)
    BY <2>1 DEF Mutexes
  <2>3. u = [table |-> tab, mutexes |-> [mx EXCEPT ![x] = c]]
    BY <1>3 DEF Unlock
  <2> HIDE DEF c, u, tab
  <2>4. u.mutexes[x].owner = o /\ o # NoTile /\ u.table = tab
    BY <2>1, <2>2, <2>3, TilesAssumption, SMTT(60) DEF NoTile
  <2> DEFINE my == [mx EXCEPT ![x] = c]
             sent == MutexReply(tab, o, time)
  <2>5. s = [table |-> sent, mutexes |-> my]
    <3>1. s = [u EXCEPT !.table = MutexReply(tab, o, time)]
      BY <2>4 DEF NotifyOwner, u
    <3> HIDE DEF o
    <3> QED  BY <2>3, <3>1
  <2> HIDE DEF my, sent
  <2>6. /\ s.table = sent /\ s.mutexes = my
        /\ s = [table |-> s.table, mutexes |-> s.mutexes]
    BY <2>5, TableMutexes
  <2>7. MutexSet(mx, s.mutexes, x, o, Tail(mx[x].waiting))
    BY <2>2, <2>6, MutexChanged, SMTT(60) DEF my
  <2> QED  BY <1>3, <2>1, <2>6, <2>7 DEF tab, sent
<1> QED  BY <1>2, <1>3

\* A thread that waits for a mutex, now or once it is woken.
LEMMA LockWaiter ==
  ASSUME NEW u \in Tiles, ThreadOK(u), AtMutex(u) \/ AtCond(u) \/ InLoop(u) \/ u \in waking.woken
  PROVE  /\ mode[u] = "RESPONSE" /\ CallOf(u).op \in {"MUTEX_LOCK", "COND_WAIT"}
         /\ Expected(CallOf(u)) = "MUTEX_LOCK" /\ ~ Makes(CallOf(u))
         /\ toMcp[u] = <<>> /\ \A k \in Kinds : ~ Got(u, k)
         /\ ~ AtBarrier(u) /\ u # waking.by /\ u \notin ms.acquired
         /\ \A m \in holding[u] : Owns(u, m)
<1>1. Kept(u)
  BY DEF Kept
<1>2. toMcp[u] = <<>> /\ \A k \in Kinds : ~ Got(u, k)
  BY <1>1 DEF ThreadOK, InOnePlace, Asked
<1>3. mode[u] = "RESPONSE" /\ CallOf(u).op \in {"MUTEX_LOCK", "COND_WAIT"}
  <2>1. CASE AtMutex(u)
    <3>1. PICK m \in DOMAIN mutexes : u \in Range(mutexes[m].waiting)
      BY <2>1 DEF AtMutex
    <3>2. mode[u] = "RESPONSE" /\ m \in Obtained(CallOf(u))
      BY <3>1 DEF ThreadOK, QueuesFit
    <3> QED  BY <3>2, CallOps
  <2>2. CASE ~ AtMutex(u)
    BY <2>2 DEF ThreadOK, QueuesFit, AtCond, InLoop, Calling
  <2> QED  BY <2>1, <2>2
<1>4. Expected(CallOf(u)) = "MUTEX_LOCK" /\ ~ Makes(CallOf(u))
  BY <1>3, CallOps DEF Makes
<1>5. ~ AtBarrier(u) /\ u # waking.by /\ u \notin ms.acquired
  BY <1>3 DEF ThreadOK, QueuesFit, AtBarrier, Calling
<1>6. \A m \in holding[u] : Owns(u, m)
  BY DEF ThreadOK, MutexesOwned
<1> QED  BY <1>2, <1>3, <1>4, <1>5, <1>6

\* Mutexes that get a thread less in a queue, or one that is in no other, have
\* each of their threads once.
LEMMA MutexOnce ==
  ASSUME OncePerQueue, NEW x \in DOMAIN mutexes, NEW o, NEW w, MutexSet(mutexes, mutexes', x, o, w),
         IsInjective(w)
  PROVE  \A m \in DOMAIN mutexes' : IsInjective(mutexes'[m].waiting)
BY DEF OncePerQueue, MutexSet

\* A thread that joins a mutex's queue is the only change in the queues.
LEMMA MutexJoined ==
  ASSUME OncePerQueue, mutexes \in Seq(Mutexes), NEW x \in DOMAIN mutexes, NEW o, NEW t \in Tiles,
         MutexSet(mutexes, mutexes', x, o, Append(mutexes[x].waiting, t)), ~ AtMutex(t)
  PROVE  JoinedMutex(t, x)
<1>1. mutexes[x].waiting \in Seq(Tiles) /\ t \notin Range(mutexes[x].waiting)
  BY MutexFields DEF AtMutex
<1>2. /\ Range(Append(mutexes[x].waiting, t)) = Range(mutexes[x].waiting) \cup {t}
      /\ IsInjective(Append(mutexes[x].waiting, t))
  BY <1>1, RangeAppend, SMTT(60) DEF OncePerQueue
<1>3. ASSUME NEW u \in Tiles, u # t, NEW m \in DOMAIN mutexes', u \in Range(mutexes'[m].waiting)
      PROVE  m \in DOMAIN mutexes /\ u \in Range(mutexes[m].waiting)
  <2>1. m \in DOMAIN mutexes
    BY <1>3 DEF MutexSet
  <2>2. CASE m # x
    BY <1>3, <2>1, <2>2 DEF MutexSet
  <2>3. CASE m = x
    <3>1. mutexes'[m].waiting = Append(mutexes[x].waiting, t)
      BY <2>3 DEF MutexSet
    <3> QED  BY <1>2, <1>3, <2>1, <2>3, <3>1
  <2> QED  BY <2>2, <2>3
<1>4. \A m \in DOMAIN mutexes' : t \in Range(mutexes'[m].waiting) => m = x
  BY DEF MutexSet, AtMutex
<1>5. \A m \in DOMAIN mutexes' : IsInjective(mutexes'[m].waiting)
  BY <1>2, MutexOnce
<1> QED  BY <1>3, <1>4, <1>5 DEF JoinedMutex

\* The thread that a mutex is handed to leaves its queue, and no other does.
LEMMA MutexHandedOver ==
  ASSUME OncePerQueue, mutexes \in Seq(Mutexes), NEW x \in DOMAIN mutexes,
         mutexes[x].waiting # <<>>, NEW o, o = Head(mutexes[x].waiting),
         MutexSet(mutexes, mutexes', x, o, Tail(mutexes[x].waiting))
  PROVE  LeftMutex(o, x)
<1>1. mutexes[x].waiting \in Seq(Tiles) /\ IsInjective(mutexes[x].waiting)
  BY MutexFields DEF OncePerQueue
<1>2. /\ o \in Tiles /\ o \in Range(mutexes[x].waiting)
      /\ Range(Tail(mutexes[x].waiting)) = Range(mutexes[x].waiting) \ {o}
      /\ IsInjective(Tail(mutexes[x].waiting))
  BY <1>1, RangeTail
<1>3. ASSUME NEW u \in Tiles, NEW m \in DOMAIN mutexes', u \in Range(mutexes'[m].waiting)
      PROVE  m \in DOMAIN mutexes /\ u \in Range(mutexes[m].waiting) /\ (m = x => u # o)
  <2>1. m \in DOMAIN mutexes
    BY <1>3 DEF MutexSet
  <2>2. CASE m # x
    BY <1>3, <2>1, <2>2 DEF MutexSet
  <2>3. CASE m = x
    <3>1. mutexes'[m].waiting = Tail(mutexes[x].waiting)
      BY <2>3 DEF MutexSet
    <3>2. u \in Range(mutexes[x].waiting) \ {o}
      BY <1>2, <1>3, <3>1
    <3> QED  BY <2>1, <2>3, <3>2
  <2> QED  BY <2>2, <2>3
<1>4. \A m \in DOMAIN mutexes' : IsInjective(mutexes'[m].waiting)
  BY <1>2, MutexOnce
<1> QED  BY <1>2, <1>3, <1>4 DEF LeftMutex

\* A thread is put in a mutex's queue.
LEMMA JoinsMutex ==
  ASSUME NEW u \in Tiles, mode[u] = "RESPONSE", \A k \in Kinds : ~ Got(u, k), toMcp'[u] = <<>>,
         NEW f, u \notin DOMAIN f, UNCHANGED clients,
         NEW x, x \in Obtained(CallOf(u)),
         \A m \in DOMAIN mutexes' : u \in Range(mutexes'[m].waiting) => m = x,
         ~ AtCond(u)', ~ InLoop(u)', ~ AtBarrier(u)', u \notin waking'.woken, u # waking'.by,
         u \notin ms'.acquired, \A m \in holding[u] : Owns(u, m)'
  PROVE  ThreadQueued(u, f)
<1>1. mode'[u] = mode[u] /\ CallOf(u)' = CallOf(u) /\ Obtained(CallOf(u))' = Obtained(CallOf(u))
  BY DEF clients, CallOf, Obtained
<1>2. QueuesFit(u)'
  BY <1>1 DEF QueuesFit, AtCond, InLoop, AtBarrier
<1> QED  BY <1>2 DEF ThreadQueued

\* A thread that waits for a mutex, or for the mutex of a condition, gets it.
LEMMA GetsMutex ==
  ASSUME NEW u \in Tiles, ThreadOK(u), AtMutex(u) \/ AtCond(u) \/ InLoop(u) \/ u \in waking.woken,
         toMcp'[u] = toMcp[u], ~ Kept(u)', \A m \in holding[u] : Owns(u, m)',
         \A m \in Obtained(CallOf(u)) : Owns(u, m)',
         NEW f, u \in DOMAIN f, f[u].code = "MUTEX_LOCK"
  PROVE  ThreadAnswered(u, f)
<1>1. /\ mode[u] = "RESPONSE"
      /\ Expected(CallOf(u)) = "MUTEX_LOCK" /\ ~ Makes(CallOf(u))
      /\ toMcp[u] = <<>> /\ \A k \in Kinds : ~ Got(u, k)
  BY LockWaiter
<1> QED  BY <1>1 DEF ThreadAnswered

\* Replies to two threads, sent one after the other.
LEMMA TwoReplies ==
  ASSUME NEW m \in MasterTables, NEW n, Quiet(m, n), NEW o \in Tiles, NEW t \in Tiles, o # t,
         NEW c1 \in Codes, NEW v1 \in Nat, NEW c2 \in Codes, NEW v2 \in Nat
  PROVE  AnswersBoth(m, Reply(Reply(n, o, c1, v1), t, c2, v2), o, c1, t, c2)
<1>0. PICK p : p = Reply(Reply(n, o, c1, v1), t, c2, v2)
  OBVIOUS
<1>1. PICK m1 \in Messages : m1 = Msg(c1, v1)
  BY ReplyIs
<1>2. PICK m2 \in Messages : m2 = Msg(c2, v2)
  BY ReplyIs
<1>3. PICK k : k = Send(n, o, "RESPONSE", m1)
  OBVIOUS
<1>4. p = Send(k, t, "RESPONSE", m2) /\ m1.code = c1 /\ m2.code = c2
  BY <1>0, <1>1, <1>2, <1>3, ReplyIs DEF Reply
<1>5. PICK f : Answers(m, k, f) /\ DOMAIN f = {o} /\ f[o] = m1
  <2>1. AnswersWith(m, Send(n, o, "RESPONSE", m1), o, m1)
    BY <1>1, AnswersOne
  <2> QED  BY <1>3, <2>1 DEF AnswersWith
<1>6. PICK g : Answers(m, p, g) /\ DOMAIN g = DOMAIN f \cup {t} /\ g[t] = m2 /\ g[o] = f[o]
  <2>1. AnswersAlso(m, Send(k, t, "RESPONSE", m2), f, t, m2)
    BY <1>2, <1>5, AnswersMore
  <2> QED  BY <1>4, <1>5, <2>1 DEF AnswersAlso
<1>7. DOMAIN g = {o, t} /\ g[o].code = c1 /\ g[t].code = c2
  BY <1>4, <1>5, <1>6
<1>8. AnswersBoth(m, p, o, c1, t, c2)
  BY <1>6, <1>7 DEF AnswersBoth
<1> QED  BY <1>0, <1>8

\* The thread that a mutex is handed to.
LEMMA GrantedThread ==
  \A x \in DOMAIN mutexes : \A o : \A w : \A f :
    /\ CallsInv
    /\ LeftMutex(o, x)
    /\ mutexes[x].owner # o
    /\ MutexSet(mutexes, mutexes', x, o, w)
    /\ toMcp'[o] = toMcp[o]
    /\ (\A c \in DOMAIN conds' : \A v \in Range(conds'[c]) : v.core = o => AtCond(o))
    /\ waking' = waking
    /\ barriers' = barriers
    /\ ms'.acquired \subseteq ms.acquired
    /\ o \in DOMAIN f
    /\ f[o].code = "MUTEX_LOCK"
    =>
         ThreadAnswered(o, f)
\* A thread in a mutex's queue waits for that mutex only.
<1>MutexWaiter.
  ASSUME NEW u \in Tiles, ThreadOK(u), NEW x \in DOMAIN mutexes, u \in Range(mutexes[x].waiting)
  PROVE  /\ Obtained(CallOf(u)) = {x}
         /\ ~ AtCond(u) /\ ~ InLoop(u) /\ u \notin waking.woken
         /\ \A m \in DOMAIN mutexes : u \in Range(mutexes[m].waiting) => m = x
  <2> USE <1>MutexWaiter
  <2>1. AtMutex(u)
    BY DEF AtMutex
  <2>2. ~ AtCond(u) /\ ~ InLoop(u) /\ u \notin waking.woken
    BY <2>1 DEF ThreadOK, InOnePlace
  <2>3. \A m \in DOMAIN mutexes : u \in Range(mutexes[m].waiting) => m \in Obtained(CallOf(u))
    BY DEF ThreadOK, QueuesFit
  <2>4. \A m \in Obtained(CallOf(u)) : Obtained(CallOf(u)) = {m}
    BY CallOps
  <2> QED  BY <2>2, <2>3, <2>4
<1>GrantedThread.
  ASSUME CallsInv, NEW x \in DOMAIN mutexes, NEW o, LeftMutex(o, x), mutexes[x].owner # o,
         NEW w, MutexSet(mutexes, mutexes', x, o, w),
         toMcp'[o] = toMcp[o],
         \A c \in DOMAIN conds' : \A v \in Range(conds'[c]) : v.core = o => AtCond(o),
         waking' = waking, barriers' = barriers, ms'.acquired \subseteq ms.acquired,
         NEW f, o \in DOMAIN f, f[o].code = "MUTEX_LOCK"
  PROVE  ThreadAnswered(o, f)
  <2> USE <1>GrantedThread
  <2>1. o \in Tiles /\ ThreadOK(o) /\ o \in Range(mutexes[x].waiting) /\ AtMutex(o)
    BY DEF CallsInv, LeftMutex, AtMutex
  <2>2. /\ Obtained(CallOf(o)) = {x}
        /\ ~ AtCond(o) /\ ~ InLoop(o) /\ o \notin waking.woken
        /\ \A m \in DOMAIN mutexes : o \in Range(mutexes[m].waiting) => m = x
    BY <2>1, <1>MutexWaiter
  <2>3. /\ ~ AtBarrier(o) /\ o # waking.by /\ o \notin ms.acquired
        /\ \A m \in holding[o] : Owns(o, m)
    BY <2>1, LockWaiter
  <2>4. ~ AtMutex(o)'
    BY <2>1, <2>2 DEF LeftMutex, AtMutex
  <2>5. ~ AtCond(o)' /\ ~ AtBarrier(o)' /\ ~ InLoop(o)'
    BY <2>2, <2>3 DEF AtCond, AtBarrier, InLoop
  <2>6. ~ Kept(o)'
    BY <2>2, <2>3, <2>4, <2>5 DEF Kept
  <2>7. \A m \in holding[o] : Owns(o, m)'
    BY <2>3 DEF Owns, MutexSet
  <2>8. \A m \in Obtained(CallOf(o)) : Owns(o, m)'
    BY <2>2 DEF Owns, MutexSet
  <2> QED  BY <2>1, <2>6, <2>7, <2>8, GetsMutex
<1> QED  BY <1>GrantedThread

\* SyncServer::mutexLock answers when the mutex is free and queues the thread
\* otherwise.
LEMMA MutexLockStep ==
  \A t \in Tiles : \A r :
    /\ NatWellOrdered /\ CallsInv
    /\ TakesPacket(t, r)
    /\ r.op = "MUTEX_LOCK"
    /\ MutexLock(t, r)
    =>
         CallsInv' /\ (ClockInv => ClockInv')
\* What mutexLock does to the MCP's state.
<1>MutexLockEffect.
  ASSUME CallsInv, NEW t \in Tiles, NEW r, TakesPacket(t, r), r.op = "MUTEX_LOCK", MutexLock(t, r)
  PROVE  /\ r.obj \in DOMAIN mutexes
         /\ \/ /\ mutexes[r.obj].owner = NoTile /\ ms' = Reply(ms, t, "MUTEX_LOCK", r.time)
               /\ MutexSet(mutexes, mutexes', r.obj, t, mutexes[r.obj].waiting)
            \/ /\ mutexes[r.obj].owner # NoTile /\ ms' = StallThread(ms, t)
               /\ MutexSet(mutexes, mutexes', r.obj, mutexes[r.obj].owner,
                           Append(mutexes[r.obj].waiting, t))
         /\ conds' = conds /\ barriers' = barriers /\ waking' = waking
  <2> USE <1>MutexLockEffect
  <2>1. r.obj \in DOMAIN mutexes
    BY ObjectThere DEF Ops
  <2>2. ms \in MasterTables /\ mutexes \in Seq(Mutexes)
    BY ServerTyped
  <2> DEFINE s == Lock([table |-> ms, mutexes |-> mutexes], r.obj, t)
  <2>3. /\ s = [table |-> s.table, mutexes |-> s.mutexes]
        /\ \/ /\ mutexes[r.obj].owner = NoTile /\ s.table = ms
              /\ MutexSet(mutexes, s.mutexes, r.obj, t, mutexes[r.obj].waiting)
           \/ /\ mutexes[r.obj].owner # NoTile /\ s.table = StallThread(ms, t)
              /\ MutexSet(mutexes, s.mutexes, r.obj, mutexes[r.obj].owner, Append(mutexes[r.obj].waiting, t))
    BY <2>1, <2>2, LockEffect
  <2> DEFINE q == [s EXCEPT !.table = MutexReply(s.table, t, r.time)]
  <2>4. /\ Becomes(IF mutexes[r.obj].owner = NoTile THEN q ELSE s)
        /\ conds' = conds /\ barriers' = barriers /\ waking' = waking
    BY DEF MutexLock, Server, Free
  <2> HIDE DEF s
  <2>5. q.table = MutexReply(s.table, t, r.time) /\ q.mutexes = s.mutexes
    <3>1. PICK a, b : s = [table |-> a, mutexes |-> b]
      BY <2>3
    <3> QED  BY <3>1
  <2>6. MutexReply(ms, t, r.time) = Reply(ms, t, "MUTEX_LOCK", r.time)
    BY DEF MutexReply, Reply
  <2> HIDE DEF q
  <2>7. CASE mutexes[r.obj].owner = NoTile
    BY <2>1, <2>3, <2>4, <2>5, <2>6, <2>7 DEF Becomes
  <2>8. CASE mutexes[r.obj].owner # NoTile
    BY <2>1, <2>3, <2>4, <2>8 DEF Becomes
  <2> QED  BY <2>7, <2>8
<1>MutexLockStep.
  ASSUME NatWellOrdered, CallsInv, NEW t \in Tiles, NEW r, TakesPacket(t, r), r.op = "MUTEX_LOCK", MutexLock(t, r)
  PROVE  CallsInv' /\ (ClockInv => ClockInv')
  <2> USE <1>MutexLockStep
  <2> DEFINE x == r.obj
  <2>1. /\ x \in DOMAIN mutexes /\ x \in Nat /\ r.time \in Nat
        /\ conds' = conds /\ barriers' = barriers /\ waking' = waking
    BY <1>MutexLockEffect, ObjectThere DEF Ops
  <2>2. /\ ms \in MasterTables /\ mutexes \in Seq(Mutexes) /\ conds \in Seq(Seq(CondWaiters))
        /\ barriers \in Seq(Barriers) /\ OncePerQueue /\ waking \in Wakings
        /\ waking # NotWaking => waking.by \in Tiles
    BY ServerTyped
  <2>3. /\ mode[t] = "RESPONSE" /\ CallOf(t).op = "MUTEX_LOCK" /\ CallOf(t).obj = x
        /\ toMcp' \in [Tiles -> Seq(Requests)] /\ toMcp'[t] = <<>>
        /\ \A u \in Tiles : u # t => toMcp'[u] = toMcp[u]
        /\ ~ Kept(t) /\ (\A k \in Kinds : ~ Got(t, k)) /\ \A m \in holding[t] : Owns(t, m)
    BY PacketTaken, SMTT(60) DEF Ops
  <2>4. "MUTEX_LOCK" = Expected(CallOf(t)) /\ Obtained(CallOf(t)) = {x} /\ ~ Makes(CallOf(t))
    BY <2>3, CallOps DEF Makes
  <2>5. mutexes[x].waiting \in Seq(Tiles) /\ mutexes[x].owner \in Tiles \cup {NoTile}
    BY <2>1, <2>2, MutexFields
  <2>6. \A u \in Tiles : u # NoTile
    BY TilesAssumption, SMTT(60) DEF NoTile
  <2>7. CASE /\ mutexes[x].owner = NoTile /\ ms' = Reply(ms, t, "MUTEX_LOCK", r.time)
             /\ MutexSet(mutexes, mutexes', x, t, mutexes[x].waiting)
    <3>1. mutexes' \in Seq(Mutexes) /\ DOMAIN mutexes' = DOMAIN mutexes
      BY <2>7 DEF MutexSet
    <3>2. \A u \in Tiles : StaysPut(u) /\ OwnsStill(u)
      BY <2>1, <2>6, <2>7 DEF StaysPut, OwnsStill, MutexSet
    <3>3. OncePerQueue'
      BY <2>1, <2>2, <2>7, MutexOnce DEF OncePerQueue
    <3>4. ObjectsStay
      BY <2>1, <3>1 DEF ObjectsStay
    <3>5. \A m \in holding[t] \cup Obtained(CallOf(t)) : Owns(t, m)'
      <4>1. \A m \in holding[t] : Owns(t, m)'
        BY <2>3, <3>2, <3>4 DEF Owns, OwnsStill, ObjectsStay
      <4>2. Owns(t, x)'
        BY <2>1, <2>7 DEF Owns, MutexSet
      <4> QED  BY <2>4, <4>1, <4>2
    <3>6. Quiet(ms, ms) /\ r.op \in Ops /\ "MUTEX_LOCK" \in Codes
      BY <2>2, QuietSame DEF Ops, Codes
    <3> QED  BY <2>1, <2>2, <2>4, <2>7, <3>1, <3>2, <3>3, <3>4, <3>5, <3>6, ReplyStep
  <2>8. CASE /\ mutexes[x].owner # NoTile /\ ms' = StallThread(ms, t)
             /\ MutexSet(mutexes, mutexes', x, mutexes[x].owner, Append(mutexes[x].waiting, t))
    <3>1. mutexes' \in Seq(Mutexes) /\ DOMAIN mutexes' = DOMAIN mutexes
      BY <2>8 DEF MutexSet
    <3>2. PICK f : Answers(ms, ms', f) /\ DOMAIN f = {}
      <4>1. Quiet(ms, ms')
        BY <2>2, <2>8, StallThreadEffect
      <4>2. Answers(ms, ms', <<>>) /\ DOMAIN <<>> = {}
        BY <2>2, <4>1, QuietAnswers, SMTT(60)
      <4> QED  BY <4>2
    <3>3. ~ AtMutex(t)
      BY <2>3 DEF Kept
    <3>4. JoinedMutex(t, x)
      BY <2>1, <2>2, <2>8, <3>3, MutexJoined
    <3>5. \A u \in Tiles : OwnsStill(u) /\ (u # t => StaysPut(u))
      <4>1. \A u \in Tiles : OwnsStill(u)
        BY <2>1, <2>8 DEF OwnsStill, MutexSet
      <4>2. \A u \in Tiles : u # t => StaysPut(u)
        BY <2>1, <3>4 DEF StaysPut, JoinedMutex
      <4> QED  BY <4>1, <4>2
    <3>6. OncePerQueue'
      BY <2>1, <2>2, <3>4 DEF OncePerQueue, JoinedMutex
    <3>7. ObjectsStay
      BY <2>1, <3>1 DEF ObjectsStay
    <3>8. ThreadQueued(t, f)
      <4>2. /\ ~ AtCond(t)' /\ ~ InLoop(t)' /\ ~ AtBarrier(t)' /\ t \notin waking'.woken
            /\ t # waking'.by
        BY <2>1, <2>3 DEF Kept, AtCond, InLoop, AtBarrier
      <4>3. t \notin ms'.acquired
        BY <2>3, <3>2 DEF Kept, Answers
      <4>4. \A m \in holding[t] : Owns(t, m)'
        BY <2>3, <3>5, <3>7 DEF Owns, OwnsStill, ObjectsStay
      <4>5. UNCHANGED clients /\ t \notin DOMAIN f
        BY <3>2 DEF TakesPacket
      <4> QED  BY <2>3, <2>4, <3>4, <4>2, <4>3, <4>4, <4>5, JoinsMutex DEF JoinedMutex
    <3>9. \A u \in Tiles : u # t => ThreadLeft(u, f)
      BY <2>3, <3>2, <3>5 DEF ThreadLeft
    <3>10. UNCHANGED clients
      BY DEF TakesPacket
    <3>11. CallsInv'
      BY <2>1, <2>2, <2>3, <3>1, <3>2, <3>6, <3>7, <3>8, <3>9, <3>10, ServerStep
    <3> QED  BY <3>2, <3>10, <3>11, AnswersClock
  <2> QED  BY <2>7, <2>8, <1>MutexLockEffect
<1> QED  BY <1>MutexLockStep

\* SyncServer::mutexUnlock hands the mutex to the thread that waits longest,
\* which is resumed and answered, and answers the caller.
LEMMA MutexUnlockStep ==
  \A t \in Tiles : \A r :
    /\ CallsInv
    /\ TakesPacket(t, r)
    /\ r.op = "MUTEX_UNLOCK"
    /\ MutexUnlock(t, r)
    =>
         CallsInv' /\ (ClockInv => ClockInv')
\* What mutexUnlock does to the MCP's state.
<1>MutexUnlockEffect.
  ASSUME CallsInv, NEW t \in Tiles, NEW r, TakesPacket(t, r), r.op = "MUTEX_UNLOCK", MutexUnlock(t, r)
  PROVE  /\ r.obj \in DOMAIN mutexes /\ mutexes[r.obj].owner = t
         /\ \/ /\ mutexes[r.obj].waiting = <<>> /\ ms' = Reply(ms, t, "MUTEX_UNLOCK", 0)
               /\ MutexSet(mutexes, mutexes', r.obj, NoTile, <<>>)
            \/ /\ mutexes[r.obj].waiting # <<>>
               /\ \E o \in Tiles :
                    /\ o = Head(mutexes[r.obj].waiting)
                    /\ ms' = Reply(Reply(ResumeThread(ms, o), o, "MUTEX_LOCK", r.time),
                                   t, "MUTEX_UNLOCK", 0)
                    /\ MutexSet(mutexes, mutexes', r.obj, o, Tail(mutexes[r.obj].waiting))
         /\ conds' = conds /\ barriers' = barriers /\ waking' = waking
  <2> USE <1>MutexUnlockEffect
  <2>1. r.obj \in DOMAIN mutexes /\ r.time \in Nat
    BY ObjectThere DEF Ops
  <2>2. ms \in MasterTables /\ mutexes \in Seq(Mutexes)
    BY ServerTyped
  <2>3. mutexes[r.obj].owner = t
    <3>1. CallOf(t).op = "MUTEX_UNLOCK" /\ CallOf(t).obj = r.obj
          /\ \A m \in Released(CallOf(t)) : Owns(t, m)
      BY PacketTaken, SMTT(60) DEF Ops
    <3>2. Released(CallOf(t)) = {r.obj}
      BY <3>1, CallOps
    <3> QED  BY <3>1, <3>2 DEF Owns
  <2> DEFINE s == NotifyOwner(Unlock([table |-> ms, mutexes |-> mutexes], r.obj, t), r.obj, r.time)
             w == mutexes[r.obj].waiting
  <2>4. /\ s = [table |-> s.table, mutexes |-> s.mutexes]
        /\ \/ /\ w = <<>> /\ s.table = ms
              /\ MutexSet(mutexes, s.mutexes, r.obj, NoTile, <<>>)
           \/ /\ w # <<>> /\ Head(w) \in Tiles
              /\ s.table = MutexReply(ResumeThread(ms, Head(w)), Head(w), r.time)
              /\ MutexSet(mutexes, s.mutexes, r.obj, Head(w), Tail(w))
    BY <2>1, <2>2, <2>3, ReleaseEffect
  <2> DEFINE q == [s EXCEPT !.table = Reply(s.table, t, "MUTEX_UNLOCK", 0)]
  <2>5. Becomes(q) /\ conds' = conds /\ barriers' = barriers /\ waking' = waking
    BY DEF MutexUnlock, Server
  <2> HIDE DEF s
  <2>6. q.table = Reply(s.table, t, "MUTEX_UNLOCK", 0) /\ q.mutexes = s.mutexes
    <3>1. PICK a, b : s = [table |-> a, mutexes |-> b]
      BY <2>4
    <3> QED  BY <3>1
  <2> HIDE DEF q
  <2>7. ms' = Reply(s.table, t, "MUTEX_UNLOCK", 0) /\ mutexes' = s.mutexes
    BY <2>5, <2>6 DEF Becomes
  <2>8. CASE w = <<>>
    BY <2>1, <2>3, <2>4, <2>5, <2>7, <2>8
  <2>9. CASE w # <<>>
    <3>1. PICK o \in Tiles : o = Head(w)
      BY <2>4, <2>9
    <3>2. s.table = Reply(ResumeThread(ms, o), o, "MUTEX_LOCK", r.time)
      BY <2>4, <2>9, <3>1 DEF MutexReply, Reply
    <3>3. MutexSet(mutexes, mutexes', r.obj, o, Tail(w))
      BY <2>4, <2>7, <2>9, <3>1
    <3> QED  BY <2>1, <2>3, <2>5, <2>7, <2>9, <3>1, <3>2, <3>3
  <2> QED  BY <2>8, <2>9
<1>MutexUnlockStep.
  ASSUME CallsInv, NEW t \in Tiles, NEW r, TakesPacket(t, r), r.op = "MUTEX_UNLOCK", MutexUnlock(t, r)
  PROVE  CallsInv' /\ (ClockInv => ClockInv')
  <2> USE <1>MutexUnlockStep
  <2> DEFINE x == r.obj
             w == mutexes[x].waiting
  <2>1. /\ x \in DOMAIN mutexes /\ mutexes[x].owner = t
        /\ conds' = conds /\ barriers' = barriers /\ waking' = waking
    BY <1>MutexUnlockEffect
  <2>15. x \in Nat /\ r.time \in Nat
    BY ObjectThere DEF Ops
  <2>2. /\ ms \in MasterTables /\ mutexes \in Seq(Mutexes) /\ conds \in Seq(Seq(CondWaiters))
        /\ barriers \in Seq(Barriers) /\ OncePerQueue /\ waking \in Wakings
        /\ waking # NotWaking => waking.by \in Tiles
    BY ServerTyped
  <2>3. /\ mode[t] = "RESPONSE" /\ CallOf(t).op = "MUTEX_UNLOCK" /\ CallOf(t).obj = x
        /\ toMcp' \in [Tiles -> Seq(Requests)] /\ toMcp'[t] = <<>>
        /\ \A u \in Tiles : u # t => toMcp'[u] = toMcp[u]
        /\ ~ Kept(t) /\ (\A k \in Kinds : ~ Got(t, k)) /\ (\A m \in holding[t] : Owns(t, m))
        /\ \A m \in Released(CallOf(t)) : m \notin holding[t]
    BY PacketTaken, SMTT(60) DEF Ops
  <2>4. /\ "MUTEX_UNLOCK" = Expected(CallOf(t)) /\ Obtained(CallOf(t)) = {} /\ ~ Makes(CallOf(t))
        /\ Released(CallOf(t)) = {x}
    BY <2>3, CallOps DEF Makes
  <2>5. \A u \in Tiles : u # NoTile
    BY TilesAssumption, SMTT(60) DEF NoTile
  <2>6. ASSUME NEW o, NEW q, MutexSet(mutexes, mutexes', x, o, q)
        PROVE  /\ mutexes' \in Seq(Mutexes) /\ ObjectsStay
               /\ \A m \in holding[t] \cup Obtained(CallOf(t)) : Owns(t, m)'
               /\ \A u \in Tiles : u # t => OwnsStill(u)
    <3>1. mutexes' \in Seq(Mutexes) /\ ObjectsStay
      BY <2>1, <2>6 DEF MutexSet, ObjectsStay
    <3>2. \A m \in holding[t] \cup Obtained(CallOf(t)) : Owns(t, m)'
      BY <2>3, <2>4, <2>6 DEF MutexSet, Owns
    <3>3. \A u \in Tiles : u # t => OwnsStill(u)
      BY <2>1, <2>6 DEF MutexSet, OwnsStill
    <3> QED  BY <3>1, <3>2, <3>3
  <2>7. CASE /\ w = <<>> /\ ms' = Reply(ms, t, "MUTEX_UNLOCK", 0)
             /\ MutexSet(mutexes, mutexes', x, NoTile, <<>>)
    <3>1. \A u \in Tiles : StaysPut(u)
      BY <2>1, <2>7, EmptyQueue DEF StaysPut, MutexSet
    <3>2. OncePerQueue'
      BY <2>1, <2>2, <2>7, EmptyQueue, MutexOnce DEF OncePerQueue
    <3>3. Quiet(ms, ms) /\ r.op \in Ops /\ "MUTEX_UNLOCK" \in Codes /\ 0 \in Nat
      BY <2>2, QuietSame DEF Ops, Codes
    <3>4. /\ mutexes' \in Seq(Mutexes) /\ ObjectsStay
          /\ \A m \in holding[t] \cup Obtained(CallOf(t)) : Owns(t, m)'
          /\ \A u \in Tiles : u # t => OwnsStill(u)
      BY <2>6, <2>7
    <3> QED  BY <2>1, <2>2, <2>4, <2>7, <3>1, <3>2, <3>3, <3>4, ReplyStep
  <2>8. CASE /\ w # <<>>
             /\ \E o \in Tiles :
                  /\ o = Head(w)
                  /\ ms' = Reply(Reply(ResumeThread(ms, o), o, "MUTEX_LOCK", r.time), t, "MUTEX_UNLOCK", 0)
                  /\ MutexSet(mutexes, mutexes', x, o, Tail(w))
    <3>1. PICK o \in Tiles :
            /\ o = Head(w)
            /\ ms' = Reply(Reply(ResumeThread(ms, o), o, "MUTEX_LOCK", r.time), t, "MUTEX_UNLOCK", 0)
            /\ MutexSet(mutexes, mutexes', x, o, Tail(w))
      BY <2>8
    <3>2. LeftMutex(o, x)
      BY <2>1, <2>2, <2>8, <3>1, MutexHandedOver
    <3>3. o # t
      BY <2>1, <2>3, <3>2 DEF LeftMutex, Kept, AtMutex
    <3>4. PICK f : /\ Answers(ms, ms', f) /\ DOMAIN f = {o, t}
                   /\ f[o].code = "MUTEX_LOCK" /\ f[t].code = "MUTEX_UNLOCK"
      <4>1. Quiet(ms, ResumeThread(ms, o))
        BY <2>2, <3>1, ResumeThreadsEffect DEF ResumeThread
      <4>2. "MUTEX_LOCK" \in Codes /\ "MUTEX_UNLOCK" \in Codes /\ 0 \in Nat
        BY DEF Codes
      <4>3. AnswersBoth(ms, Reply(Reply(ResumeThread(ms, o), o, "MUTEX_LOCK", r.time),
                                  t, "MUTEX_UNLOCK", 0), o, "MUTEX_LOCK", t, "MUTEX_UNLOCK")
        BY <2>2, <2>15, <3>1, <3>3, <4>1, <4>2, TwoReplies
      <4>4. AnswersBoth(ms, ms', o, "MUTEX_LOCK", t, "MUTEX_UNLOCK")
        BY <3>1, <4>3
      <4> QED  BY <4>4 DEF AnswersBoth
    <3>5. /\ mutexes' \in Seq(Mutexes) /\ ObjectsStay
          /\ \A m \in holding[t] \cup Obtained(CallOf(t)) : Owns(t, m)'
          /\ \A u \in Tiles : u # t => OwnsStill(u)
      BY <2>6, <3>1
    <3>6. \A u \in Tiles : StaysPut(u)
      BY <2>1, <3>2 DEF StaysPut, LeftMutex
    <3>7. OncePerQueue'
      BY <2>1, <2>2, <3>2 DEF OncePerQueue, LeftMutex
    <3>8. ms'.acquired \subseteq ms.acquired
      BY <3>4 DEF Answers
    <3>9. ThreadAnswered(o, f)
      <4>1. \A c \in DOMAIN conds' : \A v \in Range(conds'[c]) : v.core = o => AtCond(o)
        BY <2>1 DEF AtCond
      <4>2. mutexes[x].owner # o /\ toMcp'[o] = toMcp[o] /\ o \in DOMAIN f
        BY <2>1, <2>3, <3>3, <3>4
      <4> QED  BY <2>1, <3>1, <3>2, <3>4, <3>8, <4>1, <4>2, GrantedThread
    <3>10. ThreadAnswered(t, f)
      <4>1. ~ Kept(t)'
        BY <2>3, <3>6, <3>8, KeptStays
      <4> QED  BY <2>3, <2>4, <3>4, <3>5, <4>1 DEF ThreadAnswered
    <3>11. \A u \in Tiles : u # t /\ u # o => ThreadLeft(u, f)
      BY <2>3, <3>4, <3>5, <3>6 DEF ThreadLeft
    <3>12. UNCHANGED clients
      BY DEF TakesPacket
    <3>125. \A u \in Tiles : ThreadLeft(u, f) \/ ThreadAnswered(u, f) \/ ThreadQueued(u, f)
      BY <3>9, <3>10, <3>11
    <3>13. CallsInv'
      BY <2>1, <2>2, <2>3, <3>4, <3>5, <3>7, <3>12, <3>125, ServerStep
    <3> QED  BY <3>4, <3>12, <3>13, AnswersClock
  <2> QED  BY <2>7, <2>8, <1>MutexUnlockEffect
<1> QED  BY <1>MutexUnlockStep
=============================================================================

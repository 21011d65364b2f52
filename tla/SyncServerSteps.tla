-------------------------- MODULE SyncServerSteps --------------------------
(***************************************************************************)
(* Proofs about SyncServer, first part: what the operations on the         *)
(* master's thread table do, for every table, and that the steps of the    *)
(* threads and the MCP's handlers for the clock barrier and for exits keep *)
(* the inductive invariant, CallsInv and ClockInv of SyncInvariant.  The   *)
(* argument goes by what a step does to a thread: it is left alone, it is  *)
(* answered with its call complete, or it is put in one queue.             *)
(***************************************************************************)
EXTENDS SyncSteps, TLAPS

\* A leaf is for Zenon, or for the SMT solver where it says so.
USE ZenonT(60)

-----------------------------------------------------------------------------
(* Queues *)

\* What joins a queue is in it, and twice only if it was there.
LEMMA RangeAppend ==
  ASSUME NEW S, NEW s \in Seq(S), NEW x \in S
  PROVE  /\ Append(s, x) \in Seq(S)
         /\ Range(Append(s, x)) = Range(s) \cup {x}
         /\ IsInjective(s) /\ x \notin Range(s) => IsInjective(Append(s, x))
<1> DEFINE a == Append(s, x)
<1>1. /\ a \in Seq(S) /\ DOMAIN s = 1..Len(s) /\ DOMAIN a = 1..(Len(s) + 1)
      /\ \A i \in 1..Len(s) : a[i] = s[i]
      /\ a[Len(s) + 1] = x /\ Len(s) \in Nat
  BY SMTT(60)
<1>2. Range(a) = Range(s) \cup {x}
  <2>1. \A y \in Range(a) : y \in Range(s) \cup {x}
    <3> HIDE DEF a
    <3> QED  BY <1>1, SMTT(60) DEF Range
  <2>2. \A y \in Range(s) \cup {x} : y \in Range(a)
    <3> HIDE DEF a
    <3>1. \A i \in DOMAIN s : i \in DOMAIN a  BY <1>1, SMTT(60)
    <3>2. Len(s) + 1 \in DOMAIN a  BY <1>1, SMTT(60)
    <3> QED  BY <1>1, <3>1, <3>2 DEF Range
  <2> QED  BY <2>1, <2>2
<1>3. IsInjective(s) /\ x \notin Range(s) => IsInjective(a)
  <2> HIDE DEF a
  <2> QED  BY <1>1, SMTT(60) DEF IsInjective, Range
<1> QED  BY <1>1, <1>2, <1>3

\* What leaves a queue without duplicates is no longer in it.
LEMMA RangeTail ==
  ASSUME NEW S, NEW s \in Seq(S), s # <<>>
  PROVE  /\ Tail(s) \in Seq(S) /\ Head(s) \in S /\ Head(s) \in Range(s)
         /\ Range(Tail(s)) \subseteq Range(s)
         /\ IsInjective(s) => /\ IsInjective(Tail(s))
                              /\ Range(Tail(s)) = Range(s) \ {Head(s)}
<1> DEFINE r == Tail(s)
           h == Head(s)
<1>1. /\ r \in Seq(S) /\ h \in S /\ h = s[1]
      /\ Len(s) \in Nat /\ Len(s) >= 1 /\ DOMAIN s = 1..Len(s) /\ DOMAIN r = 1..(Len(s) - 1)
      /\ \A i \in DOMAIN r : r[i] = s[i + 1]
  BY SMTT(60)
<1> HIDE DEF r, h
<1>2. 1 \in DOMAIN s /\ \A i \in DOMAIN r : i + 1 \in DOMAIN s /\ i + 1 # 1
  BY <1>1, SMTT(60)
<1>3. \A i \in DOMAIN s : i # 1 => i - 1 \in DOMAIN r /\ r[i - 1] = s[i]
  BY <1>1, SMTT(60)
<1>4. h \in Range(s) /\ Range(r) \subseteq Range(s)
  BY <1>1, <1>2 DEF Range
<1>5. ASSUME IsInjective(s)
      PROVE  IsInjective(r) /\ Range(r) = Range(s) \ {h}
  <2>1. IsInjective(r)
    BY <1>1, <1>2, <1>5, SMTT(60) DEF IsInjective
  <2>2. h \notin Range(r)
    BY <1>1, <1>2, <1>5, SMTT(60) DEF IsInjective, Range
  <2>3. \A y \in Range(s) : y # h => y \in Range(r)
    BY <1>1, <1>3, SMTT(60) DEF Range
  <2> QED  BY <1>4, <2>1, <2>2, <2>3
<1> QED  BY <1>1, <1>4, <1>5 DEF r, h

\* A queue of at most one packet that is not empty is left empty.
LEMMA TailOfOne ==
  ASSUME NEW S, NEW s \in Seq(S), s # <<>>, Len(s) <= 1
  PROVE  Tail(s) = <<>> /\ Head(s) \in S
BY SMTT(60)

-----------------------------------------------------------------------------
(* The master's thread table *)

\* The fields of a table.
LEMMA TableFields ==
  ASSUME NEW m \in MasterTables
  PROVE  /\ m.status \in [AllTiles -> Status]
         /\ m.waiter \in [AllTiles -> Tiles \cup {NoTile}]
         /\ m.stalled \subseteq Tiles /\ m.queued \subseteq Tiles
         /\ m.clock \in [Tiles -> Nat] /\ m.acquired \subseteq Tiles /\ m.next \in Nat
         /\ m.mail \in [AllTiles -> [Kinds -> Seq(Messages)]]
         /\ m.failed \subseteq Failures
BY DEF MasterTables

\* The tiles of the application are tiles of the simulation.
LEMMA TilesInAll ==
  Tiles \subseteq AllTiles
BY DEF AllTiles

\* A failed assert changes nothing but the record of it.
LEMMA FailEffect ==
  ASSUME NEW m \in MasterTables, NEW what \in Failures,
         NEW n, n = Fail(m, what)
  PROVE  Quiet(m, n)
<1>1. n \in MasterTables
  <2>1. m.failed \cup {what} \in SUBSET Failures
    BY TableFields
  <2> QED  BY <2>1 DEF Fail, MasterTables
<1>2. /\ n.waiter = m.waiter /\ n.clock = m.clock
      /\ n.acquired = m.acquired /\ n.next = m.next /\ n.mail = m.mail
  BY DEF Fail, MasterTables
<1>3. n.next \in Nat
  BY <1>1, TableFields
<1>4. Late(n) = Late(m)
  BY <1>2 DEF Late
<1> QED  BY <1>1, <1>2, <1>3, <1>4, SMTT(60) DEF Quiet

\* Packets are added to the mail of the tiles they are sent to.
LEMMA SendAllEffect ==
  ASSUME NEW m \in MasterTables, NEW S \in SUBSET AllTiles, NEW kind \in Kinds, NEW msg \in Messages
  PROVE  Sent(m, SendAll(m, S, kind, msg), S, kind, msg)
<1> DEFINE mail == [t \in AllTiles |-> IF t \in S THEN [m.mail[t] EXCEPT ![kind] = Append(m.mail[t][kind], msg)]
                                                 ELSE m.mail[t]]
           o == [m EXCEPT !.mail = mail]
<1>1. SendAll(m, S, kind, msg) = o
  BY DEF SendAll
<1>2. m.mail \in [AllTiles -> [Kinds -> Seq(Messages)]]
  BY TableFields
<1>3. /\ mail \in [AllTiles -> [Kinds -> Seq(Messages)]]
      /\ \A t \in AllTiles, k \in Kinds :
           mail[t][k] = IF t \in S /\ k = kind THEN Append(m.mail[t][k], msg) ELSE m.mail[t][k]
  BY <1>2, SMTT(60)
<1> HIDE DEF mail
<1>4. o \in MasterTables
  BY <1>3 DEF MasterTables
<1>5. /\ o.waiter = m.waiter /\ o.clock = m.clock /\ o.acquired = m.acquired
      /\ o.next = m.next /\ o.mail = mail
  BY DEF MasterTables
<1> HIDE DEF o
<1>6. Sent(m, o, S, kind, msg)
  BY <1>3, <1>4, <1>5 DEF Sent
<1> QED  BY <1>1, <1>6

\* A packet is added to the mail of one tile.
LEMMA SendEffect ==
  ASSUME NEW m \in MasterTables, NEW u \in AllTiles, NEW kind \in Kinds, NEW msg \in Messages
  PROVE  Sent(m, Send(m, u, kind, msg), {u}, kind, msg)
<1> DEFINE box == [m.mail[u] EXCEPT ![kind] = Append(m.mail[u][kind], msg)]
           mail == [m.mail EXCEPT ![u] = box]
           o == [m EXCEPT !.mail = mail]
<1>1. Send(m, u, kind, msg) = o
  BY DEF Send
<1>2. m.mail \in [AllTiles -> [Kinds -> Seq(Messages)]]
  BY TableFields
<1>25. /\ box \in [Kinds -> Seq(Messages)]
      /\ \A k \in Kinds : box[k] = IF k = kind THEN Append(m.mail[u][k], msg) ELSE m.mail[u][k]
  BY <1>2, SMTT(60)
<1> HIDE DEF box
<1>3. /\ mail \in [AllTiles -> [Kinds -> Seq(Messages)]]
      /\ \A t \in AllTiles, k \in Kinds :
           mail[t][k] = IF t = u /\ k = kind THEN Append(m.mail[t][k], msg) ELSE m.mail[t][k]
  <2>1. mail \in [AllTiles -> [Kinds -> Seq(Messages)]]
    BY <1>2, <1>25
  <2>2. \A t \in AllTiles : mail[t] = IF t = u THEN box ELSE m.mail[t]
    BY <1>2
  <2>3. ASSUME NEW t \in AllTiles, NEW k \in Kinds
        PROVE  mail[t][k] = IF t = u /\ k = kind THEN Append(m.mail[t][k], msg) ELSE m.mail[t][k]
    <3> HIDE DEF mail
    <3>1. CASE t = u
      BY <1>25, <2>2, <3>1
    <3>2. CASE t # u
      BY <2>2, <3>2
    <3> QED  BY <3>1, <3>2
  <2> HIDE DEF mail
  <2> QED  BY <2>1, <2>3
<1> HIDE DEF mail
<1>4. o \in MasterTables
  BY <1>3 DEF MasterTables
<1>5. /\ o.waiter = m.waiter /\ o.clock = m.clock /\ o.acquired = m.acquired
      /\ o.next = m.next /\ o.mail = mail
  BY DEF MasterTables
<1> HIDE DEF o
<1>6. Sent(m, o, {u}, kind, msg)
  BY <1>3, <1>4, <1>5 DEF Sent
<1> QED  BY <1>1, <1>6

\* barrierSignal lets go of threads in the clock barrier only, with a barrier
\* time they have not reached.
LEMMA SignalEffect ==
  NatWellOrdered => \A m \in MasterTables : Quiet(m, Signal(m))
\* A set of naturals that is not empty has a least element.
<1>LeastNat.
  ASSUME NatWellOrdered, NEW T \in SUBSET Nat, T # {}
  PROVE  Min(T) \in T
  <2> USE <1>LeastNat
  <2>1. \E x \in T : \A y \in T : x <= y
    BY DEF NatWellOrdered
  <2> QED  BY <2>1 DEF Min
\* A multiple of q stays one when a multiple of q is added.
<1>MultipleAdded.
  ASSUME NEW n \in Nat, NEW q \in Nat, q > 0, NEW k \in Nat, n % q = 0
  PROVE  (n + q * k) % q = 0
  <2> USE <1>MultipleAdded
  <2>1. PICK j \in Nat : n = q * j
    BY SMTT(60)
  <2>2. n + q * k = q * (j + k) /\ j + k \in Nat
    BY <2>1, SMTT(60)
  <2>3. \A i \in Nat : (q * i) % q = 0
    BY SMTT(60)
  <2>4. (q * (j + k)) % q = 0
    BY <2>2, <2>3
  <2> QED  BY <2>2, <2>4
\* The next barrier time is a later multiple of the quantum, and one that a
\* thread in the barrier has not reached.
<1>NextTime.
  ASSUME NatWellOrdered, NEW m \in MasterTables, m.acquired # {}
  PROVE  /\ NextBarrierTime(m) \in Nat /\ NextBarrierTime(m) > m.next
         /\ m.next % Quantum = 0 => NextBarrierTime(m) % Quantum = 0
  <2> USE <1>NextTime
  <2> DEFINE first == Min({m.clock[t] : t \in m.acquired})
             k == IF first < m.next THEN 1 ELSE 1 + (first - m.next) \div Quantum
  <2>1. first \in Nat
    <3>1. {m.clock[t] : t \in m.acquired} \in SUBSET Nat /\ {m.clock[t] : t \in m.acquired} # {}
      BY TableFields, SMTT(60)
    <3> QED  BY <3>1, <1>LeastNat
  <2>2. NextBarrierTime(m) = m.next + Quantum * k
    BY DEF NextBarrierTime
  <2>3. m.next \in Nat /\ Quantum \in Nat /\ Quantum > 0
    BY TableFields, QuantumAssumption, SMTT(60)
  <2> HIDE DEF first
  <2>4. k \in Nat /\ k >= 1
    BY <2>1, <2>3, SMTT(60)
  <2> HIDE DEF k
  <2>5. Quantum * k \in Nat /\ Quantum * k >= Quantum
    BY <2>3, <2>4, SMTT(60)
  <2>6. m.next % Quantum = 0 => (m.next + Quantum * k) % Quantum = 0
    BY <2>3, <2>4, <1>MultipleAdded
  <2> QED  BY <2>2, <2>3, <2>5, <2>6, SMTT(60)
\* Threads whose clock the new barrier time is beyond leave the barrier.
<1>BarrierReleaseEffect.
  ASSUME NatWellOrdered, NEW m \in MasterTables,
         NEW n, n = BarrierRelease(m)
  PROVE  Quiet(m, n)
  <2> USE <1>BarrierReleaseEffect
  <2> DEFINE time == NextBarrierTime(m)
             freed == {t \in m.acquired : m.clock[t] < time}
             a == [m EXCEPT !.next = time, !.acquired = m.acquired \ freed]
  <2>1. m.acquired \subseteq Tiles /\ m.clock \in [Tiles -> Nat] /\ m.next \in Nat
        /\ Tiles \subseteq AllTiles
    BY TableFields, TilesInAll
  <2>2. CASE m.acquired = {}
    <3>1. n = Fail(m, "release_loop")
      BY <2>2 DEF BarrierRelease
    <3> QED  BY <3>1, FailEffect DEF Failures
  <2>3. CASE m.acquired # {}
    <3>1. n = SendAll(a, freed, "SYSTEM_RESPONSE", Release)
      BY <2>3 DEF BarrierRelease, StillAcquired, Release
    <3>2. time \in Nat /\ time > m.next /\ (m.next % Quantum = 0 => time % Quantum = 0)
      BY <2>3, <1>NextTime
    <3> HIDE DEF time
    <3>3. freed \in SUBSET AllTiles /\ freed \subseteq m.acquired
      BY <2>1
    <3>4. \A t \in m.acquired : t \notin freed => m.clock[t] >= time
      BY <2>1, <3>2, SMTT(60)
    <3>5. \A t \in freed : m.clock[t] < time
      OBVIOUS
    <3> HIDE DEF freed
    <3>6. a \in MasterTables
      <4>1. m.acquired \ freed \in SUBSET Tiles
        BY <2>1
      <4>2. [m EXCEPT !.next = time] \in MasterTables
        BY <3>2 DEF MasterTables
      <4>3. a = [[m EXCEPT !.next = time] EXCEPT !.acquired = m.acquired \ freed]
        OBVIOUS
      <4> QED  BY <4>1, <4>2, <4>3 DEF MasterTables
    <3>7. /\ a.waiter = m.waiter /\ a.clock = m.clock /\ a.mail = m.mail
          /\ a.acquired = m.acquired \ freed /\ a.next = time
      BY DEF MasterTables
    <3> HIDE DEF a
    <3>8. /\ n \in MasterTables
          /\ n.waiter = m.waiter /\ n.clock = m.clock
          /\ n.acquired = m.acquired \ freed /\ n.next = time
          /\ \A t \in AllTiles, k \in Kinds :
               n.mail[t][k] = IF t \in freed /\ k = "SYSTEM_RESPONSE" THEN Append(m.mail[t][k], Release)
                                                          ELSE m.mail[t][k]
      <4>1. "SYSTEM_RESPONSE" \in Kinds /\ Release \in Messages
        BY DEF Kinds, Messages, Msg, Release, Codes
      <4>2. Sent(a, n, freed, "SYSTEM_RESPONSE", Release)
        BY <3>1, <3>3, <3>6, <4>1, SendAllEffect
      <4> QED  BY <3>7, <4>2, SMTT(60) DEF Sent
    <3>9. m.acquired = Late(m) => n.acquired = Late(n)
      BY <2>1, <3>2, <3>4, <3>5, <3>8, SMTT(60) DEF Late
    <3>10. m.acquired \ n.acquired = freed
      BY <3>3, <3>8
    <3> QED  BY <2>1, <3>2, <3>5, <3>8, <3>9, <3>10, SMTT(60) DEF Quiet
  <2> QED  BY <2>2, <2>3
<1>1. SUFFICES ASSUME NatWellOrdered, NEW m \in MasterTables
               PROVE  Quiet(m, Signal(m))
  OBVIOUS
<1>2. Quiet(m, m)
  BY TableFields, SMTT(60) DEF Quiet
<1>3. Quiet(m, BarrierRelease(m))
  BY <1>1, <1>BarrierReleaseEffect
<1> QED  BY <1>2, <1>3 DEF Signal

\* A table that differs in what Quiet does not speak of.
LEMMA QuietSame ==
  ASSUME NEW m \in MasterTables, NEW n \in MasterTables,
         n.clock = m.clock, n.waiter = m.waiter, n.acquired = m.acquired, n.next = m.next,
         n.mail = m.mail
  PROVE  Quiet(m, n) /\ Late(n) = Late(m)
<1>1. n.next \in Nat
  BY TableFields
<1>2. Late(n) = Late(m)
  BY DEF Late
<1> QED  BY <1>1, <1>2, SMTT(60) DEF Quiet

\* Two quiet changes one after the other are one.
LEMMA QuietTrans ==
  ASSUME NEW m \in MasterTables, NEW n, NEW o, Quiet(m, n), Quiet(n, o)
  PROVE  Quiet(m, o)
<1>1. /\ n \in MasterTables /\ o \in MasterTables
      /\ m.next \in Nat /\ n.next \in Nat /\ o.next \in Nat
      /\ m.acquired \subseteq Tiles /\ m.clock \in [Tiles -> Nat]
  BY TableFields DEF Quiet
<1>2. /\ o.clock = m.clock /\ o.waiter = m.waiter
      /\ o.acquired \subseteq m.acquired
      /\ o.next >= m.next /\ (m.next % Quantum = 0 => o.next % Quantum = 0)
      /\ SkewScheme = "lax_barrier" /\ m.acquired = Late(m) => o.acquired = Late(o)
  BY <1>1, SMTT(60) DEF Quiet
<1>3. ASSUME NEW t \in AllTiles, NEW k \in Kinds
      PROVE  o.mail[t][k] = IF k = "SYSTEM_RESPONSE" /\ t \in m.acquired \ o.acquired
                            THEN Append(m.mail[t][k], Release) ELSE m.mail[t][k]
  <2>1. /\ n.mail[t][k] = IF k = "SYSTEM_RESPONSE" /\ t \in m.acquired \ n.acquired
                          THEN Append(m.mail[t][k], Release) ELSE m.mail[t][k]
        /\ o.mail[t][k] = IF k = "SYSTEM_RESPONSE" /\ t \in n.acquired \ o.acquired
                          THEN Append(n.mail[t][k], Release) ELSE n.mail[t][k]
        /\ o.acquired \subseteq n.acquired /\ n.acquired \subseteq m.acquired
    BY <1>3 DEF Quiet
  <2> QED  BY <2>1
<1>4. \A t \in m.acquired \ o.acquired : m.clock[t] < o.next
  <2>1. n.clock = m.clock /\ n.next <= o.next
        /\ (\A t \in m.acquired \ n.acquired : m.clock[t] < n.next)
        /\ (\A t \in n.acquired \ o.acquired : n.clock[t] < o.next)
    BY <1>1 DEF Quiet
  <2> QED  BY <1>1, <2>1, SMTT(60)
<1> QED  BY <1>1, <1>2, <1>3, <1>4 DEF Quiet

\* ThreadManager::stallThread: the thread is marked stalled and the clock
\* barrier signalled, which may let threads go; nothing else is sent.
LEMMA StallThreadEffect ==
  ASSUME NatWellOrdered, NEW m \in MasterTables, NEW t \in Tiles
  PROVE  Quiet(m, StallThread(m, t))
<1>1. CASE ~ IsCoreRunning(m, t)
  <2>1. StallThread(m, t) = Fail(m, "stall")
    BY <1>1 DEF StallThread
  <2> QED  BY <2>1, FailEffect DEF Failures
<1>2. CASE IsCoreRunning(m, t)
  <2> DEFINE a == [m EXCEPT !.status[t] = "STALLED", !.stalled = m.stalled \cup {t}]
             b == [m EXCEPT !.status = [m.status EXCEPT ![t] = "STALLED"]]
  <2>1. StallThread(m, t) = Signal(a)
    BY <1>2 DEF StallThread, StallThreadIndex
  <2>2. a \in MasterTables
    <3>1. [m.status EXCEPT ![t] = "STALLED"] \in [AllTiles -> Status]
          /\ m.stalled \cup {t} \in SUBSET Tiles
      BY TableFields, TilesInAll DEF Status
    <3>2. b \in MasterTables
      BY <3>1 DEF MasterTables
    <3>3. a = [b EXCEPT !.stalled = m.stalled \cup {t}]
      OBVIOUS
    <3> QED  BY <3>1, <3>2, <3>3 DEF MasterTables
  <2>3. /\ a.clock = m.clock /\ a.waiter = m.waiter /\ a.acquired = m.acquired /\ a.next = m.next
        /\ a.mail = m.mail
    BY DEF MasterTables
  <2> HIDE DEF a
  <2>4. Quiet(m, a)
    BY <2>2, <2>3, QuietSame
  <2>5. Quiet(a, Signal(a))
    BY <2>2, SignalEffect
  <2> QED  BY <2>1, <2>4, <2>5, QuietTrans
<1> QED  BY <1>1, <1>2

\* ThreadManager::resumeThread of a set of threads: they run again, nothing
\* is sent.
LEMMA ResumeThreadsEffect ==
  ASSUME NEW m \in MasterTables, NEW S \in SUBSET Tiles
  PROVE  Quiet(m, ResumeThreads(m, S))
<1>1. CASE ~ (S \subseteq m.stalled)
  <2>1. ResumeThreads(m, S) = Fail(m, "resume")
    BY <1>1 DEF ResumeThreads
  <2> QED  BY <2>1, FailEffect DEF Failures
<1>2. CASE S \subseteq m.stalled
  <2> DEFINE st == [t \in AllTiles |-> IF t \in S THEN "RUNNING" ELSE m.status[t]]
             b == [m EXCEPT !.status = st]
  <2>1. ResumeThreads(m, S) = b
    BY <1>2 DEF ResumeThreads
  <2>2. st \in [AllTiles -> Status]
    BY TableFields DEF Status
  <2> HIDE DEF st
  <2>3. b \in MasterTables
    BY <2>2 DEF MasterTables
  <2>4. /\ b.clock = m.clock /\ b.waiter = m.waiter /\ b.acquired = m.acquired /\ b.next = m.next
        /\ b.mail = m.mail
    BY DEF MasterTables
  <2> HIDE DEF b
  <2> QED  BY <2>1, <2>3, <2>4, QuietSame
<1> QED  BY <1>1, <1>2

-----------------------------------------------------------------------------
(* The clock barrier, exits and packets *)

\* LaxBarrierSyncServer::barrierWait: the thread is let go at once, or put in
\* the barrier, which is then signalled.
LEMMA BarrierWaitEffect ==
  ASSUME NEW m \in MasterTables, NEW t \in Tiles, NEW time \in Nat,
         NEW n, n = BarrierWait(m, t, time)
  PROVE  \/ /\ time < m.next
            /\ n = Send(m, t, "SYSTEM_RESPONSE", Release)
         \/ /\ time >= m.next
            /\ \E a \in MasterTables :
                 /\ a.waiter = m.waiter /\ a.next = m.next /\ a.mail = m.mail
                 /\ a.clock = [m.clock EXCEPT ![t] = time] /\ a.acquired = m.acquired \cup {t}
                 /\ n = Signal(a)
<1> DEFINE c == [m EXCEPT !.clock = [m.clock EXCEPT ![t] = time]]
           a == [c EXCEPT !.acquired = m.acquired \cup {t}]
<1>1. m.clock \in [Tiles -> Nat] /\ m.acquired \subseteq Tiles /\ m.next \in Nat
  BY TableFields
<1>2. [m.clock EXCEPT ![t] = time] \in [Tiles -> Nat] /\ m.acquired \cup {t} \in SUBSET Tiles
  BY <1>1
<1>3. c \in MasterTables
  BY <1>2 DEF MasterTables
<1>4. a \in MasterTables
  BY <1>2, <1>3 DEF MasterTables
<1>5. /\ a.waiter = m.waiter /\ a.next = m.next /\ a.mail = m.mail
      /\ a.clock = [m.clock EXCEPT ![t] = time] /\ a.acquired = m.acquired \cup {t}
  BY DEF MasterTables
<1>6. a = [m EXCEPT !.clock[t] = time, !.acquired = m.acquired \cup {t}]
  OBVIOUS
<1> HIDE DEF a
<1>7. \/ Early(m, time) /\ n = Send(m, t, "SYSTEM_RESPONSE", Release)
      \/ ~ Early(m, time) /\ n = Signal(a)
  BY <1>6 DEF BarrierWait, Release
<1>8. Early(m, time) <=> time < m.next
  BY DEF Early
<1> QED  BY <1>1, <1>4, <1>5, <1>7, <1>8, SMTT(60)

\* masterOnThreadExit: the thread is idle, the clock barrier is signalled,
\* and the thread is sent its answer.
LEMMA ThreadExitEffect ==
  \A m \in MasterTables : \A t \in Tiles : \A time \in Nat : \A n :
    /\ NatWellOrdered
    /\ (\A u \in AllTiles : m.waiter[u] = NoTile)
    /\ n = MasterOnThreadExit(m, t, time)
    =>
         \/ /\ ~ IsCoreRunning(m, t)
            /\ n = Fail(m, "exit")
         \/ /\ IsCoreRunning(m, t)
            /\ ThreadGone(m, n, t)
\* Taking a thread off the scheduler's queue leaves a table.
<1>QueuedTyped.
  ASSUME NEW m \in MasterTables, NEW q \in SUBSET Tiles
  PROVE  [m EXCEPT !.queued = q] \in MasterTables
  BY <1>QueuedTyped DEF MasterTables
<1>ThreadExitEffect.
  ASSUME NatWellOrdered, NEW m \in MasterTables, NEW t \in Tiles, NEW time \in Nat,
         \A u \in AllTiles : m.waiter[u] = NoTile,
         NEW n, n = MasterOnThreadExit(m, t, time)
  PROVE  \/ /\ ~ IsCoreRunning(m, t)
            /\ n = Fail(m, "exit")
         \/ /\ IsCoreRunning(m, t)
            /\ ThreadGone(m, n, t)
  <2> USE <1>ThreadExitEffect
  <2>1. CASE ~ IsCoreRunning(m, t)
    BY <2>1 DEF MasterOnThreadExit
  <2>2. CASE IsCoreRunning(m, t)
    <3> DEFINE st == [m.status EXCEPT ![t] = "IDLE"]
               co == [m.completed EXCEPT ![t] = time]
               b == [m EXCEPT !.status = st]
               c == [b EXCEPT !.completed = co]
               s == Signal(c)
               g == [s EXCEPT !.queued = s.queued \ {t}]
    <3>1. m.status \in [AllTiles -> Status] /\ m.completed \in [AllTiles -> Nat] /\ t \in AllTiles
      BY TableFields, TilesInAll DEF MasterTables
    <3>2. st \in [AllTiles -> Status] /\ co \in [AllTiles -> Nat]
      BY <3>1 DEF Status
    <3>3. b \in MasterTables
      <4> HIDE DEF st
      <4> QED  BY <3>2 DEF MasterTables
    <3>4. c \in MasterTables
      <4> HIDE DEF b, co
      <4> QED  BY <3>2, <3>3 DEF MasterTables
    <3>5. c = [m EXCEPT !.status[t] = "IDLE", !.completed[t] = time]
      OBVIOUS
    <3>6. /\ c.clock = m.clock /\ c.waiter = m.waiter /\ c.acquired = m.acquired /\ c.next = m.next
          /\ c.mail = m.mail
      BY DEF MasterTables
    <3> HIDE DEF c
    <3>7. Quiet(m, c)
      BY <3>4, <3>6, QuietSame
    <3>8. Quiet(c, s)
      BY <3>4, SignalEffect
    <3> HIDE DEF s
    <3>9. s \in MasterTables
      BY <3>8 DEF Quiet
    <3>10. g \in MasterTables
      <4>1. s.queued \ {t} \in SUBSET Tiles
        BY <3>9, TableFields
      <4> QED  BY <3>9, <4>1, <1>QueuedTyped
    <3>11. /\ g.clock = s.clock /\ g.waiter = s.waiter /\ g.acquired = s.acquired /\ g.next = s.next
           /\ g.mail = s.mail
      BY <3>9 DEF MasterTables
    <3>12. n = Send(g, t, "EXIT_REPLY", Msg("EXITED", 0))
      <4>1. t \notin SpawnerTiles
        BY SpawnerAssumption DEF SpawnerTiles, Procs
      <4>2. s.waiter[t] = NoTile
        BY <3>1, <3>7, <3>8 DEF Quiet
      <4>3. WakeUpWaiter(s, t, time) = s
        BY <4>2 DEF WakeUpWaiter
      <4>4. n = TerminateThreadSpawnerAck(SchedulerOnThreadExit(WakeUpWaiter(s, t, time), t), t)
        BY <2>2, <3>5 DEF MasterOnThreadExit, s
      <4>5. n = SchedulerOnThreadExit(s, t)
        BY <4>1, <4>3, <4>4 DEF TerminateThreadSpawnerAck
      <4> QED  BY <4>5 DEF SchedulerOnThreadExit
    <3> HIDE DEF g
    <3>13. Quiet(m, g)
      <4>1. Quiet(m, s)
        BY <3>7, <3>8, QuietTrans
      <4>2. Quiet(s, g)
        BY <3>9, <3>10, <3>11, QuietSame
      <4> QED  BY <4>1, <4>2, QuietTrans
    <3>14. ThreadGone(m, n, t)
      BY <3>10, <3>12, <3>13 DEF ThreadGone
    <3> QED  BY <2>2, <3>14
  <2> QED  BY <2>1, <2>2
<1> QED  BY <1>ThreadExitEffect

\* Taking a packet changes the mail it is taken from only.
LEMMA PopEffect ==
  ASSUME NEW m \in MasterTables, NEW t \in AllTiles, NEW kind \in Kinds, m.mail[t][kind] # <<>>,
         NEW n, n = Taken(m, t, kind)
  PROVE  /\ n \in MasterTables
         /\ n.waiter = m.waiter /\ n.clock = m.clock /\ n.acquired = m.acquired /\ n.next = m.next
         /\ n.mail[t][kind] = Tail(m.mail[t][kind])
         /\ \A k \in Kinds : k # kind => n.mail[t][k] = m.mail[t][k]
         /\ \A u \in AllTiles : u # t => n.mail[u] = m.mail[u]
<1> DEFINE box == [m.mail[t] EXCEPT ![kind] = Tail(m.mail[t][kind])]
           mail == [m.mail EXCEPT ![t] = box]
           o == [m EXCEPT !.mail = mail]
<1>1. n = o
  BY DEF Taken
<1>2. m.mail \in [AllTiles -> [Kinds -> Seq(Messages)]]
  BY TableFields
<1>3. /\ box \in [Kinds -> Seq(Messages)] /\ box[kind] = Tail(m.mail[t][kind])
      /\ \A k \in Kinds : k # kind => box[k] = m.mail[t][k]
  BY <1>2, SMTT(60)
<1> HIDE DEF box
<1>4. /\ mail \in [AllTiles -> [Kinds -> Seq(Messages)]] /\ mail[t] = box
      /\ \A u \in AllTiles : u # t => mail[u] = m.mail[u]
  BY <1>2, <1>3
<1> HIDE DEF mail
<1>5. o \in MasterTables
  BY <1>4 DEF MasterTables
<1>6. /\ o.waiter = m.waiter /\ o.clock = m.clock /\ o.acquired = m.acquired
      /\ o.next = m.next /\ o.mail = mail
  BY DEF MasterTables
<1> HIDE DEF o
<1> QED  BY <1>1, <1>3, <1>4, <1>5, <1>6

-----------------------------------------------------------------------------
(* Answers *)

\* The master's operations answer as Answers says.
LEMMA QuietAnswers ==
  ASSUME NEW m \in MasterTables, NEW n, Quiet(m, n)
  PROVE  Answers(m, n, <<>>)
<1>1. DOMAIN <<>> = {}
  BY SMTT(60)
<1> QED  BY <1>1 DEF Quiet, Answers

\* One packet each is sent to threads that are not answered yet.
LEMMA AnswersSendAll ==
  ASSUME NEW m \in MasterTables, NEW n, Quiet(m, n),
         NEW S \in SUBSET Tiles, NEW msg \in Messages,
         NEW o, o = SendAll(n, S, "RESPONSE", msg)
  PROVE  Answers(m, o, [x \in S |-> msg])
<1> DEFINE g == [x \in S |-> msg]
<1>1. n \in MasterTables /\ "RESPONSE" \in Kinds /\ S \in SUBSET AllTiles
  BY TilesInAll DEF Quiet, Kinds
<1>2. Sent(n, o, S, "RESPONSE", msg)
  BY <1>1, SendAllEffect
<1>3. DOMAIN g = S /\ \A x \in S : g[x] = msg
  OBVIOUS
<1> HIDE DEF g
<1>4. ASSUME NEW t \in AllTiles, NEW k \in Kinds
      PROVE  o.mail[t][k] = IF k = "SYSTEM_RESPONSE" /\ t \in m.acquired \ o.acquired
                            THEN Append(m.mail[t][k], Release)
                            ELSE IF k = "RESPONSE" /\ t \in DOMAIN g THEN Append(m.mail[t][k], g[t])
                            ELSE m.mail[t][k]
  <2>1. n.mail[t][k] = IF k = "SYSTEM_RESPONSE" /\ t \in m.acquired \ n.acquired
                       THEN Append(m.mail[t][k], Release) ELSE m.mail[t][k]
    BY <1>4 DEF Quiet
  <2>2. /\ o.mail[t][k] = IF t \in S /\ k = "RESPONSE" THEN Append(n.mail[t][k], msg) ELSE n.mail[t][k]
        /\ o.acquired = n.acquired
    BY <1>2, <1>4 DEF Sent
  <2>3. "RESPONSE" # "SYSTEM_RESPONSE"
    OBVIOUS
  <2>4. CASE t \in S /\ k = "RESPONSE"
    BY <1>3, <2>1, <2>2, <2>3, <2>4
  <2>5. CASE ~ (t \in S /\ k = "RESPONSE")
    BY <1>3, <2>1, <2>2, <2>5
  <2> QED  BY <2>4, <2>5
<1>5. SkewScheme = "lax_barrier" /\ m.acquired = Late(m) => o.acquired = Late(o)
  BY <1>2 DEF Quiet, Late, Sent
<1>6. Answers(m, o, g)
  BY <1>2, <1>4, <1>5 DEF Answers, Quiet, Sent
<1> QED  BY <1>6 DEF g

\* A thread is answered besides those that are.
LEMMA AnswersMore ==
  \A m \in MasterTables : \A n : \A f : \A u \in Tiles : \A msg \in Messages :
    /\ Answers(m, n, f)
    /\ u \notin DOMAIN f
    =>
         AnswersAlso(m, Send(n, u, "RESPONSE", msg), f, u, msg)
\* One packet more is sent to a thread that is not answered yet.
<1>AnswersSend.
  ASSUME NEW m \in MasterTables, NEW n, NEW f, Answers(m, n, f),
         NEW u \in Tiles, u \notin DOMAIN f, NEW msg \in Messages,
         NEW o, o = Send(n, u, "RESPONSE", msg)
  PROVE  Answers(m, o, [x \in DOMAIN f \cup {u} |-> IF x = u THEN msg ELSE f[x]])
  <2> USE <1>AnswersSend
  <2> DEFINE g == [x \in DOMAIN f \cup {u} |-> IF x = u THEN msg ELSE f[x]]
  <2>1. n \in MasterTables /\ "RESPONSE" \in Kinds /\ u \in AllTiles /\ "RESPONSE" # "SYSTEM_RESPONSE"
    BY TilesInAll DEF Answers, Kinds
  <2>2. /\ o \in MasterTables
        /\ o.waiter = n.waiter /\ o.clock = n.clock /\ o.acquired = n.acquired /\ o.next = n.next
        /\ \A t \in AllTiles, k \in Kinds :
             o.mail[t][k] = IF t = u /\ k = "RESPONSE" THEN Append(n.mail[t][k], msg)
                                                       ELSE n.mail[t][k]
    <3>1. Sent(n, o, {u}, "RESPONSE", msg)
      BY <2>1, SendEffect
    <3> QED  BY <3>1 DEF Sent
  <2>3. DOMAIN g = DOMAIN f \cup {u} /\ g[u] = msg /\ \A x \in DOMAIN f : g[x] = f[x]
    OBVIOUS
  <2> HIDE DEF g
  <2>4. ASSUME NEW t \in AllTiles, NEW k \in Kinds
        PROVE  o.mail[t][k] = IF k = "SYSTEM_RESPONSE" /\ t \in m.acquired \ o.acquired
                              THEN Append(m.mail[t][k], Release)
                              ELSE IF k = "RESPONSE" /\ t \in DOMAIN g THEN Append(m.mail[t][k], g[t])
                              ELSE m.mail[t][k]
    <3>1. n.mail[t][k] = IF k = "SYSTEM_RESPONSE" /\ t \in m.acquired \ n.acquired
                         THEN Append(m.mail[t][k], Release)
                         ELSE IF k = "RESPONSE" /\ t \in DOMAIN f THEN Append(m.mail[t][k], f[t])
                         ELSE m.mail[t][k]
      BY <2>4 DEF Answers
    <3>2. o.mail[t][k] = IF t = u /\ k = "RESPONSE" THEN Append(n.mail[t][k], msg) ELSE n.mail[t][k]
      BY <2>2, <2>4
    <3>3. CASE t = u /\ k = "RESPONSE"
      BY <2>1, <2>3, <3>1, <3>2, <3>3
    <3>4. CASE ~ (t = u /\ k = "RESPONSE")
      BY <2>2, <2>3, <3>1, <3>2, <3>4
    <3> QED  BY <3>3, <3>4
  <2>5. SkewScheme = "lax_barrier" /\ m.acquired = Late(m) => o.acquired = Late(o)
    BY <2>2 DEF Answers, Late
  <2>6. Answers(m, o, g)
    BY <2>2, <2>4, <2>5 DEF Answers
  <2> QED  BY <2>6 DEF g
<1>AnswersMore.
  ASSUME NEW m \in MasterTables, NEW n, NEW f, Answers(m, n, f),
         NEW u \in Tiles, u \notin DOMAIN f, NEW msg \in Messages
  PROVE  AnswersAlso(m, Send(n, u, "RESPONSE", msg), f, u, msg)
  <2> USE <1>AnswersMore
  <2> DEFINE g == [x \in DOMAIN f \cup {u} |-> IF x = u THEN msg ELSE f[x]]
             o == Send(n, u, "RESPONSE", msg)
  <2>1. Answers(m, o, g)
    BY <1>AnswersSend, SMTT(60)
  <2>2. DOMAIN g = DOMAIN f \cup {u} /\ g[u] = msg /\ \A x \in DOMAIN f : g[x] = f[x]
    OBVIOUS
  <2> HIDE DEF g, o
  <2>3. AnswersAlso(m, o, f, u, msg)
    BY <2>1, <2>2 DEF AnswersAlso
  <2> QED  BY <2>3 DEF o
<1> QED  BY <1>AnswersMore

\* A reply sent from a table that was changed quietly is the one answer.
LEMMA AnswersOne ==
  ASSUME NEW m \in MasterTables, NEW n, Quiet(m, n),
         NEW u \in Tiles, NEW msg \in Messages
  PROVE  AnswersWith(m, Send(n, u, "RESPONSE", msg), u, msg)
<1> DEFINE f == <<>>
           o == Send(n, u, "RESPONSE", msg)
<1>1. Answers(m, n, f)
  BY QuietAnswers
<1>2. DOMAIN f = {} /\ o = Send(n, u, "RESPONSE", msg)
  BY SMTT(60)
<1> HIDE DEF f, o
<1>3. u \notin DOMAIN f
  BY <1>2
<1>4. AnswersAlso(m, o, f, u, msg)
  BY <1>1, <1>3, AnswersMore DEF o
<1>5. AnswersWith(m, o, u, msg)
  BY <1>2, <1>4 DEF AnswersAlso, AnswersWith
<1> QED  BY <1>5 DEF o


-----------------------------------------------------------------------------
(* The steps of the threads *)

\* What a call releases, obtains and expects.
LEMMA CallOps ==
  ASSUME NEW c
  PROVE  /\ Released(c) = IF c.op = "MUTEX_UNLOCK" THEN {c.obj}
                          ELSE IF c.op = "COND_WAIT" THEN {c.mux} ELSE {}
         /\ Obtained(c) = IF c.op = "MUTEX_LOCK" THEN {c.obj}
                          ELSE IF c.op = "COND_WAIT" THEN {c.mux} ELSE {}
         /\ Expected(c) = IF Makes(c) THEN "INIT"
                          ELSE IF c.op \in {"MUTEX_LOCK", "COND_WAIT"} THEN "MUTEX_LOCK" ELSE c.op
BY DEF Released, Obtained, Expected, Makes

\* An object stays once it is made.
LEMMA ExistsGrows ==
  ASSUME DOMAIN mutexes \subseteq DOMAIN mutexes', DOMAIN conds \subseteq DOMAIN conds',
         DOMAIN barriers \subseteq DOMAIN barriers', NEW kind, NEW v, Exists(kind, v)
  PROVE  Exists(kind, v)'
BY DEF Exists

\* A thread that a step is not about: it may be let go of the clock barrier, and
\* queues are taken away from it only.
LEMMA OtherThread ==
  ASSUME NEW u \in Tiles, ms \in MasterTables, ThreadOK(u),
         SameThread(u), StaysPut(u), ObjectsStay, OwnsStill(u), Unanswered(u)
  PROVE  ThreadOK(u)'
<1>1. CallOf(u)' = CallOf(u)
  BY DEF SameThread, CallOf
<1>2. /\ Asked(u)' <=> Asked(u)
      /\ Kept(u)' => Kept(u)
      /\ AtMutex(u)' => AtMutex(u)
      /\ AtCond(u)' => AtCond(u)
      /\ InLoop(u)' => InLoop(u)
  BY DEF SameThread, StaysPut, Unanswered, Asked, Kept, AtMutex, AtCond, AtBarrier, InLoop
<1>3. ms'.mail[u] \in [Kinds -> Seq(Messages)] /\ ms.mail[u] \in [Kinds -> Seq(Messages)]
  BY TableFields, TilesInAll DEF Unanswered
<1>35. \A k \in Kinds :
         ms'.mail[u][k] = IF k = "SYSTEM_RESPONSE" /\ u \in ms.acquired \ ms'.acquired
                          THEN Append(ms.mail[u][k], Release) ELSE ms.mail[u][k]
  BY DEF Unanswered
<1>4. ASSUME NEW k \in Kinds
      PROVE  \/ /\ ms'.mail[u][k] = ms.mail[u][k]
                /\ Got(u, k)' <=> Got(u, k)
             \/ /\ k = "SYSTEM_RESPONSE" /\ u \in ms.acquired /\ u \notin ms'.acquired
                /\ ms'.mail[u][k] = <<Release>>
  <2>1. CASE k = "SYSTEM_RESPONSE" /\ u \in ms.acquired \ ms'.acquired
    <3>1. ms'.mail[u][k] = Append(ms.mail[u][k], Release)
      BY <1>35, <1>4, <2>1
    <3>2. ms.mail[u][k] = <<>>
      BY <1>4, <2>1 DEF ThreadOK, InOnePlace, Got, Kept
    <3> QED  BY <2>1, <3>1, <3>2, SMTT(60)
  <2>2. CASE ~ (k = "SYSTEM_RESPONSE" /\ u \in ms.acquired \ ms'.acquired)
    <3>1. ms'.mail[u][k] = ms.mail[u][k]
      BY <1>35, <1>4, <2>2
    <3> QED  BY <3>1 DEF Got
  <2> QED  BY <2>1, <2>2
<1>5. CASE u \in ms.acquired /\ u \notin ms'.acquired /\ ms'.mail[u]["SYSTEM_RESPONSE"] = <<Release>>
  <2>1. /\ mode[u] = "SYSTEM_RESPONSE" /\ ~ Asked(u) /\ \A k \in Kinds : ~ Got(u, k)
    BY <1>5 DEF ThreadOK, QueuesFit, InOnePlace, Kept
  <2>2. ~ Kept(u)'
    BY <1>5, <2>1 DEF ThreadOK, QueuesFit, StaysPut, Kept, AtMutex, AtCond, AtBarrier, InLoop, Calling
  <2>3. \A k \in Kinds : k # "SYSTEM_RESPONSE" => ms'.mail[u][k] = <<>>
    BY <1>4, <2>1 DEF Got
  <2>4. Len(<<Release>>) <= 1 /\ Len(<<>>) <= 1
    BY SMTT(60)
  <2>5. "RESPONSE" \in Kinds /\ "SYSTEM_RESPONSE" \in Kinds
    BY DEF Kinds
  <2>6. /\ \A k \in Kinds : Len(ms'.mail[u][k]) <= 1 /\ (Got(u, k)' => k = "SYSTEM_RESPONSE")
        /\ ~ Got(u, "RESPONSE")'
    <3>1. \A k \in Kinds : ms'.mail[u][k] = <<>> \/ (k = "SYSTEM_RESPONSE" /\ ms'.mail[u][k] = <<Release>>)
      BY <1>5, <2>3
    <3>2. ms'.mail[u]["RESPONSE"] = <<>>
      BY <2>3, <2>5
    <3> QED  BY <2>4, <3>1, <3>2 DEF Got
  <2>7. InOnePlace(u)'
    BY <1>2, <2>1, <2>2, <2>6 DEF ThreadOK, InOnePlace, SameThread, Kept
  <2>8. CallKnown(u)' /\ RequestFits(u)'
    BY <1>2, <2>1 DEF SameThread, CallKnown, RequestFits
  <2>9. QueuesFit(u)'
    BY <2>2 DEF QueuesFit, Kept, AtMutex, AtCond, AtBarrier, InLoop
  <2>10. AnswersFit(u)'
    BY <2>1, <2>6 DEF AnswersFit, SameThread
  <2>11. MutexesOwned(u)'
    BY <1>2, <2>1, <2>2, <2>6 DEF ThreadOK, MutexesOwned, SameThread, Owns, OwnsStill, ObjectsStay, Kept
  <2> QED  BY <2>7, <2>8, <2>9, <2>10, <2>11 DEF ThreadOK
<1>6. CASE \A k \in Kinds : ms'.mail[u][k] = ms.mail[u][k] /\ (Got(u, k)' <=> Got(u, k))
  <2>1. InOnePlace(u)'
    BY <1>2, <1>6 DEF ThreadOK, InOnePlace, SameThread, StaysPut
  <2>2. CallKnown(u)'
    BY <1>1, ExistsGrows DEF ThreadOK, CallKnown, SameThread, ObjectsStay
  <2>3. RequestFits(u)'
    BY <1>1, <1>2 DEF ThreadOK, RequestFits, SameThread
  <2>4. QueuesFit(u)'
    BY <1>1, SMTT(60) DEF ThreadOK, QueuesFit, SameThread, StaysPut, Calling, Unanswered
  <2>5. AnswersFit(u)'
    <3>1. "RESPONSE" \in Kinds
      BY DEF Kinds
    <3> QED  BY <1>1, <1>6, <3>1, ExistsGrows DEF ThreadOK, AnswersFit, SameThread, ObjectsStay
  <2>6. MutexesOwned(u)'
    <3>1. "RESPONSE" \in Kinds
      BY DEF Kinds
    <3>2. \A m : Owns(u, m) => Owns(u, m)'
      BY DEF Owns, OwnsStill, ObjectsStay
    <3>3. u \in waking'.woken => u \in waking.woken
      BY DEF StaysPut
    <3>4. Got(u, "RESPONSE")' <=> Got(u, "RESPONSE")
      BY <1>6, <3>1
    <3>5. MutexesOwned(u)
      BY DEF ThreadOK
    <3> QED  BY <1>1, <1>2, <3>2, <3>3, <3>4, <3>5 DEF MutexesOwned, SameThread
  <2> QED  BY <2>1, <2>2, <2>3, <2>4, <2>5, <2>6 DEF ThreadOK
<1> QED  BY <1>4, <1>5, <1>6

\* Every step of a thread keeps the invariant: it asks only when it is in no
\* queue and has no mail, it takes the one answer it waits for, and its clock
\* advances only while the clock barrier is not letting it go.
LEMMA ThreadSteps ==
  \A t \in Tiles : CallsInv /\ ThreadStep(t) => CallsInv' /\ (ClockInv => ClockInv')
\* The call that a thread is at.
<1>CallTyped.
  ASSUME TypeOK, NEW t \in Tiles, ~ Finished(t)
  PROVE  CallOf(t) \in Calls /\ pc[t] \in DOMAIN script[t]
  <2> USE <1>CallTyped
  <2>1. script[t] \in Seq(Calls) /\ pc[t] \in Nat \ {0} /\ pc[t] <= Len(script[t])
    BY ProgramsAssumption, SMTT(60) DEF TypeOK, Finished
  <2>2. pc[t] \in DOMAIN script[t]
    BY <2>1, SMTT(60)
  <2> QED  BY <2>1, <2>2, SMTT(60) DEF CallOf
\* A thread that runs or has ended is nowhere.
<1>IdleThread.
  ASSUME NEW t \in Tiles, ThreadOK(t), mode[t] \in {"RUN", "DONE"}
  PROVE  ~ Asked(t) /\ ~ Kept(t) /\ \A k \in Kinds : ~ Got(t, k)
  <2> USE <1>IdleThread
  <2>1. ~ Asked(t)
    BY DEF ThreadOK, RequestFits
  <2>2. \A k \in Kinds : ~ Got(t, k)
    BY DEF ThreadOK, AnswersFit, Kinds
  <2>3. ~ Kept(t)
    BY DEF ThreadOK, QueuesFit, Kept, AtMutex, AtCond, AtBarrier, InLoop, Calling
  <2> QED  BY <2>1, <2>2, <2>3
\* A thread that a step of another thread is not about.
<1>UntouchedThread.
  ASSUME NEW u \in Tiles, ThreadOK(u), SameThread(u), UNCHANGED server,
         ms'.mail[u] = ms.mail[u], ms'.acquired = ms.acquired, ms'.clock = ms.clock
  PROVE  ThreadOK(u)'
  <2> USE <1>UntouchedThread
  <2>1. CallOf(u)' = CallOf(u)
    BY DEF SameThread, CallOf
  <2>2. /\ Asked(u)' <=> Asked(u)
        /\ AtMutex(u)' <=> AtMutex(u)
        /\ AtCond(u)' <=> AtCond(u)
        /\ AtBarrier(u)' <=> AtBarrier(u)
        /\ InLoop(u)' <=> InLoop(u)
        /\ \A k \in Kinds : Got(u, k)' <=> Got(u, k)
    BY DEF SameThread, server, Asked, AtMutex, AtCond, AtBarrier, InLoop, Got
  <2>3. Kept(u)' <=> Kept(u)
    BY <2>2 DEF Kept, server
  <2>4. "RESPONSE" \in Kinds
    BY DEF Kinds
  <2>5. Got(u, "RESPONSE")' <=> Got(u, "RESPONSE")
    BY <2>2, <2>4
  <2>6. InOnePlace(u)'
    BY <2>2, <2>3 DEF ThreadOK, InOnePlace, SameThread, server
  <2>7. CallKnown(u)'
    BY <2>1 DEF ThreadOK, CallKnown, SameThread, server, Exists
  <2>8. RequestFits(u)'
    BY <2>1, <2>2 DEF ThreadOK, RequestFits, SameThread
  <2>9. QueuesFit(u)'
    BY <2>1, SMTT(60) DEF ThreadOK, QueuesFit, SameThread, server, Calling
  <2>10. AnswersFit(u)'
    BY <2>1, <2>2, <2>5 DEF ThreadOK, AnswersFit, SameThread, server, Exists
  <2>11. MutexesOwned(u)'
    <3>1. \A m : Owns(u, m)' <=> Owns(u, m)
      BY DEF Owns, server
    <3>2. waking' = waking
      BY DEF server
    <3> QED  BY <2>1, <2>2, <2>5, <3>1, <3>2 DEF ThreadOK, MutexesOwned, SameThread
  <2> QED  BY <2>6, <2>7, <2>8, <2>9, <2>10, <2>11 DEF ThreadOK
\* A thread that runs, or has ended, after a step.
<1>ThreadRuns.
  ASSUME NEW t \in Tiles, mode'[t] \in {"RUN", "DONE"},
         toMcp'[t] = <<>>, \A k \in Kinds : ms'.mail[t][k] = <<>>, ~ Kept(t)',
         \A m \in holding'[t] : Owns(t, m)'
  PROVE  ThreadOK(t)'
  <2> USE <1>ThreadRuns
  <2>1. ~ Asked(t)' /\ (\A k \in Kinds : ~ Got(t, k)') /\ "RESPONSE" \in Kinds
    BY DEF Asked, Got, Kinds
  <2>2. InOnePlace(t)'
    <3>1. Len(toMcp'[t]) <= 1 /\ \A k \in Kinds : Len(ms'.mail[t][k]) <= 1
      BY SMTT(60)
    <3> QED  BY <2>1, <3>1 DEF InOnePlace, Kept
  <2>3. CallKnown(t)' /\ RequestFits(t)'
    BY <2>1 DEF CallKnown, RequestFits
  <2>4. QueuesFit(t)'
    BY DEF QueuesFit, Kept, AtMutex, AtCond, AtBarrier, InLoop
  <2>5. AnswersFit(t)'
    BY <2>1 DEF AnswersFit
  <2>6. MutexesOwned(t)'
    BY <2>1 DEF MutexesOwned, Kept
  <2> QED  BY <2>2, <2>3, <2>4, <2>5, <2>6 DEF ThreadOK
\* A thread that has sent a request.
<1>ThreadAsks.
  ASSUME NEW t \in Tiles, NEW r, toMcp'[t] = <<r>>,
         \A k \in Kinds : ms'.mail[t][k] = <<>>, ~ Kept(t)',
         r.time = clk'[t],
         \/ /\ mode'[t] = "RESPONSE" /\ CallKnown(t)'
            /\ r.op = CallOf(t)'.op /\ r.obj = CallOf(t)'.obj /\ r.mux = CallOf(t)'.mux
            /\ \A m \in Released(CallOf(t))' : Owns(t, m)' /\ m \notin holding'[t]
         \/ mode'[t] = "SYSTEM_RESPONSE" /\ r.op = "CLOCK_SKEW"
         \/ mode'[t] = "EXIT_REPLY" /\ r.op = "EXIT",
         \A m \in holding'[t] : Owns(t, m)'
  PROVE  ThreadOK(t)'
  <2> USE <1>ThreadAsks
  <2>1. (\A k \in Kinds : ~ Got(t, k)') /\ "RESPONSE" \in Kinds
    BY DEF Got, Kinds
  <2>2. InOnePlace(t)'
    <3>1. Len(toMcp'[t]) <= 1 /\ \A k \in Kinds : Len(ms'.mail[t][k]) <= 1
      BY SMTT(60)
    <3> QED  BY <2>1, <3>1 DEF InOnePlace, Kept
  <2>3. CallKnown(t)'
    BY DEF CallKnown
  <2>4. RequestFits(t)'
    <3>1. Head(toMcp'[t]) = r
      BY SMTT(60)
    <3> QED  BY <3>1 DEF RequestFits
  <2>5. QueuesFit(t)'
    BY DEF QueuesFit, Kept, AtMutex, AtCond, AtBarrier, InLoop
  <2>6. AnswersFit(t)'
    BY <2>1 DEF AnswersFit
  <2>7. MutexesOwned(t)'
    BY <2>1 DEF MutexesOwned, Kept
  <2> QED  BY <2>2, <2>3, <2>4, <2>5, <2>6, <2>7 DEF ThreadOK
\* A thread's step that leaves the server and the packets alone.
<1>LocalStep.
  ASSUME CallsInv, NEW t \in Tiles, Instruction(t) \/ SetPredicate(t) \/ LeaveWait(t)
  PROVE  CallsInv'
  <2> USE <1>LocalStep
  <2>1. /\ mode[t] = "RUN" /\ mode' = mode /\ holding' = holding /\ toMcp' = toMcp /\ ms' = ms
        /\ script' = script /\ handles' = handles /\ nextSync' = nextSync /\ UNCHANGED server
        /\ \A u \in Tiles : u # t => clk'[u] = clk[u] /\ pc'[u] = pc[u]
    BY DEF Instruction, SetPredicate, LeaveWait, CallsInv, TypeOK
  <2>2. pc' \in [Tiles -> Nat \ {0}] /\ clk' \in [Tiles -> Nat] /\ flags' \subseteq Nat
    <3>1. pc \in [Tiles -> Nat \ {0}] /\ clk \in [Tiles -> Nat] /\ flags \subseteq Nat
          /\ Durations \subseteq Nat /\ script \in Programs
      BY DurationsAssumption DEF CallsInv, TypeOK
    <3>2. CASE Instruction(t)
      BY <3>1, <3>2, SMTT(60) DEF Instruction
    <3>3. CASE SetPredicate(t)
      <4>1. CallOf(t) \in Calls
        BY <3>3, <1>CallTyped DEF SetPredicate, CallsInv
      <4>2. CallOf(t).obj \in Nat
        BY <4>1 DEF Calls
      <4>3. flags' = flags \cup {CallOf(t).obj} /\ pc' = [pc EXCEPT ![t] = @ + 1] /\ clk' = clk
        BY <3>3 DEF SetPredicate, CallOf
      <4>4. pc' \in [Tiles -> Nat \ {0}]
        BY <3>1, <4>3, SMTT(60)
      <4> QED  BY <3>1, <4>2, <4>3, <4>4
    <3>4. CASE LeaveWait(t)
      BY <3>1, <3>4, SMTT(60) DEF LeaveWait
    <3> QED  BY <3>2, <3>3, <3>4
  <2>3. TypeOK'
    BY <2>1, <2>2 DEF CallsInv, TypeOK, server
  <2>4. ThreadOK(t)'
    <3>1. ~ Asked(t) /\ ~ Kept(t) /\ \A k \in Kinds : ~ Got(t, k)
      BY <2>1, <1>IdleThread DEF CallsInv
    <3>2. ~ Kept(t)'
      BY <2>1, <3>1 DEF Kept, AtMutex, AtCond, AtBarrier, InLoop, server
    <3>3. \A m \in holding'[t] : Owns(t, m)'
      BY <2>1 DEF CallsInv, ThreadOK, MutexesOwned, Owns, server
    <3>4. toMcp'[t] = <<>> /\ \A k \in Kinds : ms'.mail[t][k] = <<>>
      BY <2>1, <3>1 DEF Asked, Got
    <3> QED  BY <2>1, <3>2, <3>3, <3>4, <1>ThreadRuns
  <2>5. ASSUME NEW u \in Tiles, u # t
        PROVE  ThreadOK(u)'
    BY <2>1, <2>5, <1>UntouchedThread DEF CallsInv, SameThread
  <2> QED  BY <2>1, <2>3, <2>4, <2>5 DEF CallsInv, OncePerQueue, HandlesKnown, Exists, server
\* A thread that runs sends a request and waits for the answer.
<1>AskStep.
  ASSUME CallsInv, NEW t \in Tiles, mode[t] = "RUN",
         NEW op \in Ops \cup {"CLOCK_SKEW", "EXIT"}, NEW obj \in Nat, NEW mux \in Nat,
         Request(t, op, obj, mux),
         NEW md \in Modes, mode' = [mode EXCEPT ![t] = md],
         NEW R \in SUBSET Nat, holding' = [holding EXCEPT ![t] = @ \ R],
         \/ /\ md = "RESPONSE" /\ CallKnown(t)'
            /\ op = CallOf(t).op /\ obj = CallOf(t).obj /\ mux = CallOf(t).mux
            /\ R = Released(CallOf(t)) /\ R \subseteq holding[t]
         \/ md = "SYSTEM_RESPONSE" /\ op = "CLOCK_SKEW" /\ R = {}
         \/ md = "EXIT_REPLY" /\ op = "EXIT" /\ R = {},
         UNCHANGED <<script, pc, clk, nextSync, handles, flags, ms, server>>
  PROVE  CallsInv'
  <2> USE <1>AskStep
  <2> DEFINE r == [op |-> op, obj |-> obj, mux |-> mux, time |-> clk[t]]
  <2>1. ~ Asked(t) /\ ~ Kept(t) /\ \A k \in Kinds : ~ Got(t, k)
    BY <1>IdleThread DEF CallsInv
  <2>2. r \in Requests /\ r.op = op /\ r.obj = obj /\ r.mux = mux /\ r.time = clk[t]
    BY DEF Requests, CallsInv, TypeOK
  <2>3. /\ toMcp \in [Tiles -> Seq(Requests)] /\ toMcp[t] = <<>>
        /\ toMcp' = [toMcp EXCEPT ![t] = Append(@, r)]
    BY <2>1 DEF CallsInv, TypeOK, Asked, Request
  <2> HIDE DEF r
  <2>4. /\ toMcp' \in [Tiles -> Seq(Requests)] /\ toMcp'[t] = <<r>>
        /\ \A u \in Tiles : u # t => toMcp'[u] = toMcp[u]
    BY <2>2, <2>3, SMTT(60)
  <2>5. /\ mode' \in [Tiles -> Modes] /\ mode'[t] = md
        /\ holding' \in [Tiles -> SUBSET Nat] /\ holding'[t] = holding[t] \ R
        /\ \A u \in Tiles : u # t => mode'[u] = mode[u] /\ holding'[u] = holding[u]
    BY DEF CallsInv, TypeOK
  <2>6. TypeOK'
    BY <2>4, <2>5 DEF CallsInv, TypeOK, server
  <2>7. ThreadOK(t)'
    <3>1. ~ Kept(t)'
      BY <2>1 DEF Kept, AtMutex, AtCond, AtBarrier, InLoop, server
    <3>2. \A k \in Kinds : ms'.mail[t][k] = <<>>
      BY <2>1 DEF Got
    <3>3. \A m \in holding[t] : Owns(t, m)'
      BY DEF CallsInv, ThreadOK, MutexesOwned, Owns, server
    <3>4. \A m \in holding'[t] : Owns(t, m)'
      BY <2>5, <3>3
    <3>5. CallOf(t)' = CallOf(t) /\ Released(CallOf(t))' = Released(CallOf(t))
      BY DEF CallOf, Released
    <3>6. \/ /\ mode'[t] = "RESPONSE" /\ CallKnown(t)'
             /\ r.op = CallOf(t)'.op /\ r.obj = CallOf(t)'.obj /\ r.mux = CallOf(t)'.mux
             /\ \A m \in Released(CallOf(t))' : Owns(t, m)' /\ m \notin holding'[t]
          \/ mode'[t] = "SYSTEM_RESPONSE" /\ r.op = "CLOCK_SKEW"
          \/ mode'[t] = "EXIT_REPLY" /\ r.op = "EXIT"
      BY <2>2, <2>5, <3>3, <3>5
    <3>7. r.time = clk'[t]
      BY <2>2
    <3> QED  BY <2>4, <3>1, <3>2, <3>4, <3>6, <3>7, <1>ThreadAsks
  <2>8. ASSUME NEW u \in Tiles, u # t
        PROVE  ThreadOK(u)'
    BY <2>4, <2>5, <2>8, <1>UntouchedThread DEF CallsInv, SameThread
  <2> QED  BY <2>6, <2>7, <2>8 DEF CallsInv, OncePerQueue, HandlesKnown, Exists, server
\* LaxBarrierSyncClient::synchronize sends the thread's clock and waits.
<1>SynchronizeStep.
  ASSUME CallsInv, NEW t \in Tiles, Synchronize(t)
  PROVE  CallsInv'
  <2> USE <1>SynchronizeStep
  <2>1. holding' = [holding EXCEPT ![t] = @ \ {}]
    BY DEF Synchronize, CallsInv, TypeOK
  <2>2. /\ mode[t] = "RUN" /\ Request(t, "CLOCK_SKEW", 0, 0)
        /\ mode' = [mode EXCEPT ![t] = "SYSTEM_RESPONSE"]
        /\ UNCHANGED <<script, pc, clk, nextSync, handles, flags, ms, server>>
    BY DEF Synchronize
  <2>3. /\ "CLOCK_SKEW" \in Ops \cup {"CLOCK_SKEW", "EXIT"} /\ 0 \in Nat
        /\ "SYSTEM_RESPONSE" \in Modes /\ {} \in SUBSET Nat
    BY DEF Modes
  <2> QED  BY <2>1, <2>2, <2>3, <1>AskStep
\* ThreadManager::onThreadExit tells the MCP and waits.
<1>OnThreadExitStep.
  ASSUME CallsInv, NEW t \in Tiles, OnThreadExit(t)
  PROVE  CallsInv'
  <2> USE <1>OnThreadExitStep
  <2>1. holding' = [holding EXCEPT ![t] = @ \ {}]
    BY DEF OnThreadExit, CallsInv, TypeOK
  <2>2. /\ mode[t] = "RUN" /\ Request(t, "EXIT", 0, 0)
        /\ mode' = [mode EXCEPT ![t] = "EXIT_REPLY"]
        /\ UNCHANGED <<script, pc, clk, nextSync, handles, flags, ms, server>>
    BY DEF OnThreadExit
  <2>3. /\ "EXIT" \in Ops \cup {"CLOCK_SKEW", "EXIT"} /\ 0 \in Nat
        /\ "EXIT_REPLY" \in Modes /\ {} \in SUBSET Nat
    BY DEF Modes
  <2> QED  BY <2>1, <2>2, <2>3, <1>AskStep
\* A SyncClient call sends its request; a mutex that it gives up is no longer
\* held.
<1>CallStep.
  ASSUME CallsInv, NEW t \in Tiles, Call(t)
  PROVE  CallsInv'
  <2> USE <1>CallStep
  <2> DEFINE c == CallOf(t)
  <2>1. /\ mode[t] = "RUN" /\ ~ Finished(t) /\ Legal(t, c) /\ Request(t, c.op, c.obj, c.mux)
        /\ holding' = [holding EXCEPT ![t] = @ \ Released(c)]
        /\ mode' = [mode EXCEPT ![t] = "RESPONSE"]
        /\ UNCHANGED <<script, pc, clk, nextSync, handles, flags, ms, server>>
    BY DEF Call, CallOf
  <2>2. c \in Calls /\ pc[t] \in DOMAIN script[t]
    BY <2>1, <1>CallTyped DEF CallsInv
  <2>3. c.op \in Ops /\ c.obj \in Nat /\ c.mux \in Nat
    BY <2>1, <2>2 DEF Calls, Legal
  <2>4. /\ Makes(c) \/ <<ObjectKind(c.op), c.obj>> \in handles
        /\ c.op = "MUTEX_UNLOCK" => c.obj \in holding[t]
        /\ c.op = "COND_WAIT" => c.mux \in holding[t]
    BY <2>1 DEF Legal
  <2>5. Released(c) \subseteq holding[t] /\ Released(c) \in SUBSET Nat
    BY <2>3, <2>4, CallOps
  <2>6. CallKnown(t)'
    <3>1. CallOf(t)' = c
      BY <2>1 DEF CallOf
    <3> HIDE DEF c
    <3>2. Makes(c) \/ Exists(ObjectKind(c.op), c.obj)
      BY <2>4 DEF CallsInv, HandlesKnown
    <3>3. c.op = "COND_WAIT" => c.mux \in DOMAIN mutexes
      BY <2>4 DEF CallsInv, ThreadOK, MutexesOwned, Owns
    <3> QED  BY <2>1, <2>2, <2>3, <3>1, <3>2, <3>3 DEF CallKnown, Exists, server
  <2>7. "RESPONSE" \in Modes /\ c.op \in Ops \cup {"CLOCK_SKEW", "EXIT"}
    BY <2>3 DEF Modes
  <2> QED  BY <2>1, <2>3, <2>5, <2>6, <2>7, <1>AskStep
\* A thread takes the packet it waits for and goes on, or ends.
<1>ReturnStep.
  ASSUME CallsInv, NEW t \in Tiles, NEW kind \in Kinds, ms.mail[t][kind] # <<>>,
         ms' = Taken(ms, t, kind),
         NEW md \in {"RUN", "DONE"}, mode' = [mode EXCEPT ![t] = md],
         script' = script, toMcp' = toMcp, UNCHANGED server,
         pc' \in [Tiles -> Nat \ {0}], clk' \in [Tiles -> Nat], nextSync' \in [Tiles -> Nat],
         holding' \in [Tiles -> SUBSET Nat], flags' = flags,
         handles' \subseteq {"mutex", "cond", "barrier"} \X Nat,
         \A u \in Tiles : u # t => pc'[u] = pc[u] /\ clk'[u] = clk[u] /\ holding'[u] = holding[u],
         \A m \in holding'[t] : Owns(t, m),
         \A h \in handles' : Exists(h[1], h[2])
  PROVE  CallsInv'
  <2> USE <1>ReturnStep
  <2>1. ms \in MasterTables /\ t \in AllTiles /\ Tiles \subseteq AllTiles
    BY TilesInAll DEF CallsInv, TypeOK
  <2>2. /\ ms' \in MasterTables
        /\ ms'.waiter = ms.waiter /\ ms'.clock = ms.clock /\ ms'.acquired = ms.acquired
        /\ ms'.mail[t][kind] = Tail(ms.mail[t][kind])
        /\ \A k \in Kinds : k # kind => ms'.mail[t][k] = ms.mail[t][k]
        /\ \A u \in AllTiles : u # t => ms'.mail[u] = ms.mail[u]
    BY <2>1, PopEffect, SMTT(60)
  <2>3. /\ mode' \in [Tiles -> Modes] /\ mode'[t] = md
        /\ \A u \in Tiles : u # t => mode'[u] = mode[u]
    BY DEF CallsInv, TypeOK, Modes
  <2>4. TypeOK'
    BY <2>2, <2>3 DEF CallsInv, TypeOK, server
  <2>5. ThreadOK(t)'
    <3>1. Got(t, kind) /\ mode[t] = kind /\ ~ Asked(t) /\ ~ Kept(t) /\ Len(ms.mail[t][kind]) <= 1
      BY DEF CallsInv, ThreadOK, InOnePlace, AnswersFit, Got
    <3>2. \A k \in Kinds : k # kind => ms.mail[t][k] = <<>>
      BY <3>1, SMTT(60) DEF CallsInv, ThreadOK, AnswersFit, Got
    <3>3. Tail(ms.mail[t][kind]) = <<>>
      <4>1. ms.mail[t][kind] \in Seq(Messages)
        BY <2>1, TableFields, SMTT(60)
      <4> QED  BY <3>1, <4>1, TailOfOne
    <3>4. \A k \in Kinds : ms'.mail[t][k] = <<>>
      BY <2>2, <3>2, <3>3
    <3>5. ~ Kept(t)'
      BY <2>2, <3>1 DEF Kept, AtMutex, AtCond, AtBarrier, InLoop, server
    <3>6. toMcp'[t] = <<>>
      BY <3>1 DEF Asked
    <3>7. \A m \in holding'[t] : Owns(t, m)'
      BY DEF Owns, server
    <3> QED  BY <2>3, <3>4, <3>5, <3>6, <3>7, <1>ThreadRuns
  <2>6. ASSUME NEW u \in Tiles, u # t
        PROVE  ThreadOK(u)'
    BY <2>1, <2>2, <2>3, <2>6, <1>UntouchedThread, SMTT(60) DEF CallsInv, SameThread
  <2>7. HandlesKnown' /\ OncePerQueue'
    BY DEF CallsInv, OncePerQueue, HandlesKnown, Exists, server
  <2> QED  BY <2>2, <2>4, <2>5, <2>6, <2>7, SMTT(60) DEF CallsInv, server
\* synchronize returns once the MCP lets the thread go.
<1>SynchronizeReturnStep.
  ASSUME CallsInv, NEW t \in Tiles, SynchronizeReturn(t)
  PROVE  CallsInv'
  <2> USE <1>SynchronizeReturnStep
  <2>1. /\ ms.mail[t]["SYSTEM_RESPONSE"] # <<>>
        /\ ms' = Taken(ms, t, "SYSTEM_RESPONSE")
        /\ mode' = [mode EXCEPT ![t] = "RUN"]
        /\ script' = script /\ toMcp' = toMcp /\ UNCHANGED server
        /\ pc' = pc /\ clk' = clk /\ holding' = holding /\ flags' = flags /\ handles' = handles
        /\ nextSync' = [nextSync EXCEPT ![t] = (clk[t] \div Quantum) * Quantum + Quantum]
    BY DEF SynchronizeReturn, Taken
  <2>2. "SYSTEM_RESPONSE" \in Kinds /\ "RUN" \in {"RUN", "DONE"}
    BY DEF Kinds
  <2>3. nextSync' \in [Tiles -> Nat]
    <3>1. clk[t] \in Nat /\ Quantum \in Nat \ {0} /\ nextSync \in [Tiles -> Nat]
      BY QuantumAssumption DEF CallsInv, TypeOK
    <3>2. clk[t] \div Quantum \in Nat
      BY <3>1, SMTT(60)
    <3>3. (clk[t] \div Quantum) * Quantum + Quantum \in Nat
      BY <3>1, <3>2, SMTT(60)
    <3> QED  BY <2>1, <3>1, <3>3
  <2>4. /\ pc' \in [Tiles -> Nat \ {0}] /\ clk' \in [Tiles -> Nat]
        /\ holding' \in [Tiles -> SUBSET Nat] /\ handles' \subseteq {"mutex", "cond", "barrier"} \X Nat
        /\ \A u \in Tiles : u # t => pc'[u] = pc[u] /\ clk'[u] = clk[u] /\ holding'[u] = holding[u]
        /\ \A m \in holding'[t] : Owns(t, m)
        /\ \A h \in handles' : Exists(h[1], h[2])
    BY <2>1 DEF CallsInv, TypeOK, ThreadOK, MutexesOwned, HandlesKnown
  <2> QED  BY <2>1, <2>2, <2>3, <2>4, <1>ReturnStep
\* onThreadExit returns and the thread has ended.
<1>OnThreadExitReturnStep.
  ASSUME CallsInv, NEW t \in Tiles, OnThreadExitReturn(t)
  PROVE  CallsInv'
  <2> USE <1>OnThreadExitReturnStep
  <2>1. /\ ms.mail[t]["EXIT_REPLY"] # <<>>
        /\ ms' = Taken(ms, t, "EXIT_REPLY")
        /\ mode' = [mode EXCEPT ![t] = "DONE"]
        /\ script' = script /\ toMcp' = toMcp /\ UNCHANGED server
        /\ pc' = pc /\ clk' = clk /\ holding' = holding /\ flags' = flags /\ handles' = handles
        /\ nextSync' = nextSync
    BY DEF OnThreadExitReturn, Taken
  <2>2. "EXIT_REPLY" \in Kinds /\ "DONE" \in {"RUN", "DONE"}
    BY DEF Kinds
  <2>3. /\ pc' \in [Tiles -> Nat \ {0}] /\ clk' \in [Tiles -> Nat] /\ nextSync' \in [Tiles -> Nat]
        /\ holding' \in [Tiles -> SUBSET Nat] /\ handles' \subseteq {"mutex", "cond", "barrier"} \X Nat
        /\ \A u \in Tiles : u # t => pc'[u] = pc[u] /\ clk'[u] = clk[u] /\ holding'[u] = holding[u]
        /\ \A m \in holding'[t] : Owns(t, m)
        /\ \A h \in handles' : Exists(h[1], h[2])
    BY <2>1 DEF CallsInv, TypeOK, ThreadOK, MutexesOwned, HandlesKnown
  <2> QED  BY <2>1, <2>2, <2>3, <1>ReturnStep
\* A SyncClient call returns: its answer is the one it asserts, so that no
\* assert of the client fails, and the mutex it asked for is the thread's.
<1>CallReturnStep.
  ASSUME CallsInv, NEW t \in Tiles, Return(t)
  PROVE  CallsInv' /\ ms' = Taken(ms, t, "RESPONSE")
  <2> USE <1>CallReturnStep
  <2> DEFINE c == CallOf(t)
             reply == Head(ms.mail[t]["RESPONSE"])
             read == Taken(ms, t, "RESPONSE")
  <2>1. /\ mode[t] = "RESPONSE" /\ ms.mail[t]["RESPONSE"] # <<>>
        /\ ms' = IF reply.code = Expected(c) THEN read ELSE Fail(read, "answer")
        /\ clk' = [clk EXCEPT ![t] = IF Timed(c) /\ reply.value > @ THEN reply.value ELSE @]
        /\ holding' = [holding EXCEPT ![t] = @ \cup Obtained(c)]
        /\ handles' = handles \cup (IF Makes(c) THEN {<<ObjectKind(c.op), reply.value>>} ELSE {})
        /\ pc' = [pc EXCEPT ![t] = IF c.op = "COND_WAIT" THEN @ ELSE @ + 1]
        /\ mode' = [mode EXCEPT ![t] = "RUN"]
        /\ script' = script /\ nextSync' = nextSync /\ flags' = flags /\ toMcp' = toMcp
        /\ UNCHANGED server
    BY DEF Return, CallOf, Taken
  <2>2. /\ reply.code = Expected(c) /\ (Makes(c) => Exists(ObjectKind(c.op), reply.value))
        /\ \A m \in holding[t] \cup Obtained(c) : Owns(t, m)
    BY <2>1 DEF CallsInv, ThreadOK, AnswersFit, MutexesOwned, Got
  <2>3. pc[t] \in DOMAIN script[t] /\ c.op \in Ops
    BY <2>1 DEF CallsInv, ThreadOK, CallKnown
  <2>4. c \in Calls
    BY <2>3, ProgramsAssumption, SMTT(60) DEF CallsInv, TypeOK, CallOf
  <2>5. reply \in Messages /\ reply.value \in Nat
    <3>1. ms.mail[t]["RESPONSE"] \in Seq(Messages)
      BY TableFields, TilesInAll, SMTT(60) DEF CallsInv, TypeOK, Kinds
    <3>2. reply \in Messages
      BY <2>1, <3>1, SMTT(60)
    <3> QED  BY <3>2 DEF Messages
  <2>6. Obtained(c) \subseteq Nat
    BY <2>4, CallOps DEF Calls
  <2>7. ms' = read
    BY <2>1, <2>2
  <2>8. ObjectKind(c.op) \in {"mutex", "cond", "barrier"}
    BY DEF ObjectKind
  <2> HIDE DEF c, reply
  <2>9. /\ pc' \in [Tiles -> Nat \ {0}] /\ clk' \in [Tiles -> Nat] /\ nextSync' \in [Tiles -> Nat]
        /\ holding' \in [Tiles -> SUBSET Nat] /\ handles' \subseteq {"mutex", "cond", "barrier"} \X Nat
        /\ \A u \in Tiles : u # t => pc'[u] = pc[u] /\ clk'[u] = clk[u] /\ holding'[u] = holding[u]
        /\ holding'[t] = holding[t] \cup Obtained(c)
    BY <2>1, <2>5, <2>6, <2>8, SMTT(60) DEF CallsInv, TypeOK
  <2>10. \A m \in holding'[t] : Owns(t, m)
    BY <2>2, <2>9
  <2>11. \A h \in handles' : Exists(h[1], h[2])
    BY <2>1, <2>2, SMTT(60) DEF CallsInv, HandlesKnown
  <2>12. /\ "RESPONSE" \in Kinds /\ "RUN" \in {"RUN", "DONE"} /\ ms.mail[t]["RESPONSE"] # <<>>
         /\ mode' = [mode EXCEPT ![t] = "RUN"]
         /\ script' = script /\ toMcp' = toMcp /\ flags' = flags /\ UNCHANGED server
    BY <2>1 DEF Kinds
  <2>13. CallsInv'
    BY <2>7, <2>9, <2>10, <2>11, <2>12, <1>ReturnStep
  <2> QED  BY <2>7, <2>13
\* Every step of a thread keeps the invariant of the calls.
<1>ThreadCallsStep.
  ASSUME CallsInv, NEW t \in Tiles, ThreadStep(t)
  PROVE  CallsInv'
  <2> USE <1>ThreadCallsStep
  <2>1. \/ Instruction(t) \/ SetPredicate(t) \/ LeaveWait(t)
        \/ Synchronize(t) \/ SynchronizeReturn(t)
        \/ Call(t) \/ Return(t)
        \/ OnThreadExit(t) \/ OnThreadExitReturn(t)
    BY DEF ThreadStep
  <2>2. CASE Instruction(t) \/ SetPredicate(t) \/ LeaveWait(t)
    BY <2>2, <1>LocalStep
  <2>3. CASE Synchronize(t)
    BY <2>3, <1>SynchronizeStep
  <2>4. CASE SynchronizeReturn(t)
    BY <2>4, <1>SynchronizeReturnStep
  <2>5. CASE Call(t)
    BY <2>5, <1>CallStep
  <2>6. CASE Return(t)
    BY <2>6, <1>CallReturnStep
  <2>7. CASE OnThreadExit(t)
    BY <2>7, <1>OnThreadExitStep
  <2>8. CASE OnThreadExitReturn(t)
    BY <2>8, <1>OnThreadExitReturnStep
  <2> QED  BY <2>1, <2>2, <2>3, <2>4, <2>5, <2>6, <2>7, <2>8
\* Multiplication is monotone.
<1>Monotone.
  ASSUME NEW q \in Nat, NEW a \in Nat, NEW b \in Nat, a <= b
  PROVE  q * a <= q * b
  <2> USE <1>Monotone
  <2>1. PICK d \in Nat : b = a + d
    <3>1. b - a \in Nat /\ b = a + (b - a)
      BY SMTT(60)
    <3> QED  BY <3>1
  <2>2. q * b = q * a + q * d
    BY <2>1, SMTT(60)
  <2>3. q * d >= 0 /\ q * a \in Nat /\ q * d \in Nat
    BY SMTT(60)
  <2> QED  BY <2>2, <2>3, SMTT(60)
\* The first multiple after a time that is before another multiple.
<1>MultipleBefore.
  ASSUME NEW q \in Nat \ {0}, NEW x \in Nat, NEW y \in Nat, x < y, y % q = 0
  PROVE  (x \div q) * q + q <= y
  <2> USE <1>MultipleBefore
  <2>1. PICK c \in Nat, r \in Nat : x \div q = c /\ x = q * c + r
    <3>1. x \div q \in Nat /\ x % q \in Nat /\ x = q * (x \div q) + (x % q)
      BY SMTT(60)
    <3> QED  BY <3>1
  <2>2. PICK k \in Nat : y = q * k
    <3>1. y \div q \in Nat /\ y = q * (y \div q) + (y % q)
      BY SMTT(60)
    <3> QED  BY <3>1, SMTT(60)
  <2>3. c + 1 <= k
    <3>1. SUFFICES ASSUME k <= c PROVE FALSE
      BY SMTT(60)
    <3>2. q * k <= q * c
      BY <3>1, <1>Monotone
    <3> QED  BY <2>1, <2>2, <3>2, SMTT(60)
  <2>4. q * (c + 1) <= q * k
    BY <2>3, <1>Monotone, SMTT(60)
  <2>5. q * (c + 1) = c * q + q
    BY SMTT(60)
  <2> QED  BY <2>1, <2>2, <2>4, <2>5
\* A thread's step keeps the clock barrier's invariant when no thread is let
\* go or let on its way by it.
<1>ThreadClock.
  ASSUME CallsInv, ClockInv,
         ms'.next = ms.next, ms'.clock = ms.clock, ms'.acquired = ms.acquired,
         \A u \in Tiles : Got(u, "SYSTEM_RESPONSE")' => Got(u, "SYSTEM_RESPONSE") /\ clk'[u] = clk[u],
         \A u \in Tiles : nextSync'[u] = nextSync[u] \/ nextSync'[u] <= ms.next
  PROVE  ClockInv'
  BY <1>ThreadClock DEF ClockInv, AcquiredIsLate, Late, SkewBounded
\* Every step of a thread keeps the clock barrier's invariant: a thread's
\* clock advances only while it is not being let go, and synchronize sets its
\* next time to the first multiple of the quantum, which the MCP's barrier
\* time has reached.
<1>ThreadClockStep.
  ASSUME CallsInv, ClockInv, NEW t \in Tiles, ThreadStep(t)
  PROVE  ClockInv'
  <2> USE <1>ThreadClockStep
  <2>1. ms \in MasterTables /\ t \in AllTiles /\ clk \in [Tiles -> Nat]
    BY TilesInAll DEF CallsInv, TypeOK
  <2>2. Got(t, "SYSTEM_RESPONSE") => mode[t] = "SYSTEM_RESPONSE"
    BY DEF CallsInv, ThreadOK, AnswersFit, Kinds
  <2>3. CASE Instruction(t)
    <3>1. mode[t] = "RUN" /\ ms' = ms /\ nextSync' = nextSync /\ \A u \in Tiles : u # t => clk'[u] = clk[u]
      BY <2>1, <2>3 DEF Instruction
    <3> QED  BY <2>2, <3>1, <1>ThreadClock DEF Got
  <2>4. CASE Synchronize(t) \/ Call(t) \/ SetPredicate(t) \/ LeaveWait(t) \/ OnThreadExit(t)
    <3>1. ms' = ms /\ nextSync' = nextSync /\ clk' = clk
      BY <2>4 DEF Synchronize, Call, SetPredicate, LeaveWait, OnThreadExit
    <3> QED  BY <3>1, <1>ThreadClock DEF Got
  <2>5. ASSUME NEW kind \in Kinds, ms.mail[t][kind] # <<>>, ms' = Taken(ms, t, kind)
        PROVE  /\ ms'.next = ms.next /\ ms'.clock = ms.clock /\ ms'.acquired = ms.acquired
               /\ \A u \in Tiles : u # t => (Got(u, "SYSTEM_RESPONSE")' => Got(u, "SYSTEM_RESPONSE"))
               /\ kind # "SYSTEM_RESPONSE" => (Got(t, "SYSTEM_RESPONSE")' => Got(t, "SYSTEM_RESPONSE"))
    <3>1. /\ ms'.clock = ms.clock /\ ms'.acquired = ms.acquired /\ ms'.next = ms.next
          /\ \A k \in Kinds : k # kind => ms'.mail[t][k] = ms.mail[t][k]
          /\ \A u \in AllTiles : u # t => ms'.mail[u] = ms.mail[u]
      BY <2>1, <2>5, PopEffect, SMTT(60)
    <3> QED  BY <3>1, TilesInAll DEF Got, Kinds
  <2>6. CASE SynchronizeReturn(t)
    <3>1. /\ ms.mail[t]["SYSTEM_RESPONSE"] # <<>> /\ ms' = Taken(ms, t, "SYSTEM_RESPONSE") /\ clk' = clk
          /\ nextSync' = [nextSync EXCEPT ![t] = (clk[t] \div Quantum) * Quantum + Quantum]
      BY <2>6 DEF SynchronizeReturn, Taken
    <3>2. "SYSTEM_RESPONSE" \in Kinds /\ Got(t, "SYSTEM_RESPONSE")
      BY <3>1 DEF Kinds, Got
    <3>3. /\ ms'.next = ms.next /\ ms'.clock = ms.clock /\ ms'.acquired = ms.acquired
          /\ \A u \in Tiles : u # t => (Got(u, "SYSTEM_RESPONSE")' => Got(u, "SYSTEM_RESPONSE"))
      BY <2>5, <3>1, <3>2
    <3>4. (clk[t] \div Quantum) * Quantum + Quantum <= ms.next
      <4>1. clk[t] < ms.next /\ ms.next % Quantum = 0 /\ ms.next \in Nat /\ clk[t] \in Nat
        BY <2>1, <3>2, TableFields DEF ClockInv
      <4> QED  BY <4>1, QuantumAssumption, <1>MultipleBefore
    <3>5. \A u \in Tiles : nextSync'[u] = nextSync[u] \/ nextSync'[u] <= ms.next
      <4>1. PICK n : n = (clk[t] \div Quantum) * Quantum + Quantum
        OBVIOUS
      <4>2. nextSync \in [Tiles -> Nat] /\ nextSync' = [nextSync EXCEPT ![t] = n] /\ n <= ms.next
        BY <3>1, <3>4, <4>1 DEF CallsInv, TypeOK
      <4> QED  BY <4>2
    <3> QED  BY <3>1, <3>2, <3>3, <3>5, <1>ThreadClock
  <2>7. CASE Return(t)
    <3>1. ms' = Taken(ms, t, "RESPONSE")
      BY <2>7, <1>CallReturnStep
    <3>2. /\ mode[t] = "RESPONSE" /\ ms.mail[t]["RESPONSE"] # <<>> /\ nextSync' = nextSync
          /\ \A u \in Tiles : u # t => clk'[u] = clk[u]
      BY <2>1, <2>7 DEF Return
    <3>3. "RESPONSE" \in Kinds
      BY DEF Kinds
    <3>4. /\ ms'.next = ms.next /\ ms'.clock = ms.clock /\ ms'.acquired = ms.acquired
          /\ \A u \in Tiles : Got(u, "SYSTEM_RESPONSE")' => Got(u, "SYSTEM_RESPONSE")
      BY <2>5, <3>1, <3>2, <3>3
    <3> QED  BY <2>2, <3>2, <3>4, <1>ThreadClock
  <2>8. CASE OnThreadExitReturn(t)
    <3>1. /\ ms.mail[t]["EXIT_REPLY"] # <<>> /\ ms' = Taken(ms, t, "EXIT_REPLY") /\ clk' = clk
          /\ nextSync' = nextSync
      BY <2>8 DEF OnThreadExitReturn, Taken
    <3>2. "EXIT_REPLY" \in Kinds
      BY DEF Kinds
    <3>3. /\ ms'.next = ms.next /\ ms'.clock = ms.clock /\ ms'.acquired = ms.acquired
          /\ \A u \in Tiles : Got(u, "SYSTEM_RESPONSE")' => Got(u, "SYSTEM_RESPONSE")
      BY <2>5, <3>1, <3>2
    <3> QED  BY <3>1, <3>3, <1>ThreadClock
  <2> QED  BY <2>3, <2>4, <2>6, <2>7, <2>8 DEF ThreadStep
<1> QED  BY <1>ThreadCallsStep, <1>ThreadClockStep

-----------------------------------------------------------------------------
(* The MCP's handlers: the clock barrier and exits *)

\* The answer to a call is a message.
LEMMA ReplyIs ==
  ASSUME NEW code \in Codes, NEW value \in Nat
  PROVE  /\ Msg(code, value) \in Messages
         /\ Msg(code, value).code = code /\ Msg(code, value).value = value
BY DEF Msg, Messages

\* What the MCP may conclude from the packet it takes: it is the request of
\* the call its sender makes, and the sender is nowhere else.
LEMMA PacketTaken ==
  ASSUME CallsInv, NEW t \in Tiles, NEW r, TakesPacket(t, r)
  PROVE  /\ r \in Requests /\ r.time = clk[t]
         /\ toMcp' \in [Tiles -> Seq(Requests)] /\ toMcp'[t] = <<>>
         /\ \A u \in Tiles : u # t => toMcp'[u] = toMcp[u]
         /\ ~ Kept(t) /\ \A k \in Kinds : ~ Got(t, k)
         /\ r.op \in Ops =>
              /\ mode[t] = "RESPONSE" /\ CallOf(t).op = r.op
              /\ CallOf(t).obj = r.obj /\ CallOf(t).mux = r.mux
              /\ \A m \in Released(CallOf(t)) : Owns(t, m) /\ m \notin holding[t]
         /\ r.op = "CLOCK_SKEW" => mode[t] = "SYSTEM_RESPONSE"
         /\ r.op = "EXIT" => mode[t] = "EXIT_REPLY"
         /\ \A m \in holding[t] : Owns(t, m)
<1>1. Asked(t) /\ ThreadOK(t) /\ toMcp \in [Tiles -> Seq(Requests)]
  BY DEF CallsInv, TakesPacket, Asked, TypeOK
<1>2. Len(toMcp[t]) <= 1 /\ ~ Kept(t) /\ \A k \in Kinds : ~ Got(t, k)
  BY <1>1 DEF ThreadOK, InOnePlace
<1>3. toMcp[t] \in Seq(Requests) /\ toMcp[t] # <<>>
  BY <1>1 DEF Asked
<1>4. r \in Requests /\ Tail(toMcp[t]) = <<>>
  BY <1>2, <1>3, TailOfOne, RangeTail DEF TakesPacket
<1>5. /\ toMcp' \in [Tiles -> Seq(Requests)] /\ toMcp'[t] = <<>>
      /\ \A u \in Tiles : u # t => toMcp'[u] = toMcp[u]
  BY <1>1, <1>4, SMTT(60) DEF TakesPacket
<1>6. /\ r.time = clk[t]
      /\ \/ /\ mode[t] = "RESPONSE"
            /\ r.op = CallOf(t).op /\ r.obj = CallOf(t).obj /\ r.mux = CallOf(t).mux
         \/ mode[t] = "SYSTEM_RESPONSE" /\ r.op = "CLOCK_SKEW"
         \/ mode[t] = "EXIT_REPLY" /\ r.op = "EXIT"
  BY <1>1 DEF ThreadOK, RequestFits, TakesPacket
<1>7. r.op \in Ops => r.op # "CLOCK_SKEW" /\ r.op # "EXIT"
  BY DEF Ops
<1>8. mode[t] = "RESPONSE" => CallOf(t).op \in Ops
  BY <1>1 DEF ThreadOK, CallKnown
<1>9. /\ \A m \in holding[t] : Owns(t, m)
      /\ mode[t] = "RESPONSE" => \A m \in Released(CallOf(t)) : Owns(t, m) /\ m \notin holding[t]
  BY <1>1 DEF ThreadOK, MutexesOwned
<1> QED  BY <1>2, <1>4, <1>5, <1>6, <1>7, <1>8, <1>9

\* The clock barrier over a step of the MCP that answers threads.
LEMMA AnswersClock ==
  ASSUME CallsInv, ClockInv, NEW f, Answers(ms, ms', f), UNCHANGED clients
  PROVE  ClockInv'
<1>1. ms \in MasterTables /\ ms' \in MasterTables
  BY DEF CallsInv, TypeOK, Answers
<1>2. ms.next \in Nat /\ ms'.next \in Nat /\ ms'.next >= ms.next /\ ms'.next % Quantum = 0
  BY <1>1, TableFields DEF Answers, ClockInv
<1>3. AcquiredIsLate'
  BY DEF AcquiredIsLate, Answers, ClockInv
<1>4. ASSUME NEW t \in Tiles, Got(t, "SYSTEM_RESPONSE")'
      PROVE  clk'[t] < ms'.next
  <2>1. clk'[t] = clk[t] /\ clk[t] \in Nat
    BY DEF clients, CallsInv, TypeOK
  <2>2. CASE t \in ms.acquired \ ms'.acquired
    <3>1. ms.clock[t] < ms'.next /\ ms.clock[t] = clk[t]
      BY <2>2 DEF Answers, CallsInv, ThreadOK, QueuesFit
    <3> QED  BY <2>1, <3>1
  <2>3. CASE t \notin ms.acquired \ ms'.acquired
    <3>1. "SYSTEM_RESPONSE" \in Kinds /\ "SYSTEM_RESPONSE" # "RESPONSE" /\ t \in AllTiles
      BY TilesInAll DEF Kinds
    <3>2. ms'.mail[t]["SYSTEM_RESPONSE"] = ms.mail[t]["SYSTEM_RESPONSE"]
      BY <2>3, <3>1 DEF Answers
    <3>3. clk[t] < ms.next
      BY <1>4, <3>2 DEF Got, ClockInv
    <3> QED  BY <1>2, <2>1, <3>3, SMTT(60)
  <2> QED  BY <2>2, <2>3
<1>5. SkewBounded'
  <2>1. \A t \in Tiles : nextSync'[t] = nextSync[t] /\ nextSync[t] \in Nat /\ nextSync[t] <= ms.next
    BY DEF clients, CallsInv, TypeOK, ClockInv, SkewBounded
  <2> QED  BY <1>2, <2>1, SMTT(60) DEF SkewBounded
<1> QED  BY <1>2, <1>3, <1>4, <1>5 DEF ClockInv

\* A thread that a step sends no answer.
LEMMA AnswersUnanswered ==
  ASSUME NEW u \in Tiles, NEW f, Answers(ms, ms', f), u \notin DOMAIN f
  PROVE  Unanswered(u)
<1>1. ms' \in MasterTables /\ ms'.clock[u] = ms.clock[u] /\ (u \in ms'.acquired => u \in ms.acquired)
  BY DEF Answers
<1>2. \A k \in Kinds :
         ms'.mail[u][k] = IF k = "SYSTEM_RESPONSE" /\ u \in ms.acquired \ ms'.acquired
                          THEN Append(ms.mail[u][k], Release) ELSE ms.mail[u][k]
  BY TilesInAll DEF Answers
<1> QED  BY <1>1, <1>2 DEF Unanswered

\* LaxBarrierSyncServer::barrierWait and ThreadManager::masterOnThreadExit
\* keep the invariant: a late thread waits in the list until the barrier is
\* reached, an early one and one that exits are answered.
LEMMA MasterSteps ==
  \A t \in Tiles : \A r :
    NatWellOrdered /\ CallsInv /\ TakesPacket(t, r) /\ UNCHANGED server =>
      /\ r.op = "CLOCK_SKEW" /\ ms' = BarrierWait(ms, t, r.time) => CallsInv' /\ (ClockInv => ClockInv')
      /\ r.op = "EXIT" /\ ms' = MasterOnThreadExit(ms, t, r.time) => CallsInv' /\ (ClockInv => ClockInv')
\* A thread whose packet the MCP has taken and that is in no queue of the
\* server: it may be in the clock barrier's list, or be answered.
<1>MasterThread.
  ASSUME NEW t \in Tiles, ThreadOK(t), SameCall(t), UNCHANGED server,
         NEW kind \in {"SYSTEM_RESPONSE", "EXIT_REPLY"}, mode[t] = kind, ~ Kept(t), toMcp'[t] = <<>>,
         \A k \in Kinds : k # kind => ms'.mail[t][k] = <<>>,
         Len(ms'.mail[t][kind]) <= 1,
         t \in ms'.acquired => /\ kind = "SYSTEM_RESPONSE" /\ ms'.clock[t] = clk[t]
                               /\ ms'.mail[t][kind] = <<>>
  PROVE  ThreadOK(t)'
  <2> USE <1>MasterThread
  <2>1. mode'[t] = mode[t] /\ clk'[t] = clk[t] /\ holding'[t] = holding[t] /\ CallOf(t)' = CallOf(t)
    BY DEF SameCall, CallOf
  <2>2. mode'[t] # "RESPONSE" /\ "RESPONSE" \in Kinds /\ kind \in Kinds
    BY <2>1 DEF Kinds
  <2>3. /\ ~ AtMutex(t)' /\ ~ AtCond(t)' /\ ~ AtBarrier(t)' /\ ~ InLoop(t)'
        /\ t \notin waking'.woken /\ t # waking'.by
    BY DEF Kept, server, AtMutex, AtCond, AtBarrier, InLoop
  <2>4. \A k \in Kinds : Got(t, k)' => k = kind /\ t \notin ms'.acquired
    BY DEF Got
  <2>5. \A k \in Kinds : Len(ms'.mail[t][k]) <= 1
    <3>1. Len(<<>>) <= 1
      BY SMTT(60)
    <3> QED  BY <3>1
  <2>6. InOnePlace(t)'
    <3>1. \A k \in Kinds : Got(t, k)' => ~ Kept(t)'
      BY <2>3, <2>4 DEF Kept
    <3>2. ~ Asked(t)' /\ Len(toMcp'[t]) <= 1
      BY SMTT(60) DEF Asked
    <3> QED  BY <2>3, <2>5, <3>1, <3>2 DEF InOnePlace
  <2>7. CallKnown(t)' /\ RequestFits(t)'
    BY <2>2 DEF CallKnown, RequestFits, Asked
  <2>8. QueuesFit(t)'
    BY <2>1, <2>3 DEF QueuesFit, AtMutex, AtCond, AtBarrier, InLoop
  <2>9. ~ Got(t, "RESPONSE")'
    BY <2>2, <2>4
  <2>10. AnswersFit(t)'
    BY <2>1, <2>4, <2>9 DEF AnswersFit
  <2>11. MutexesOwned(t)'
    <3>1. \A m \in holding[t] : Owns(t, m)
      BY DEF ThreadOK, MutexesOwned
    <3>2. \A m \in holding'[t] : Owns(t, m)'
      BY <2>1, <3>1 DEF Owns, server
    <3> QED  BY <2>3, <2>9, <3>2 DEF MutexesOwned, Asked
  <2> QED  BY <2>6, <2>7, <2>8, <2>10, <2>11 DEF ThreadOK
\* A step of the MCP that changes its table of threads only.
<1>MasterStep.
  ASSUME CallsInv, NEW t \in Tiles, NEW r, TakesPacket(t, r), UNCHANGED server,
         ms' \in MasterTables, ms'.waiter = ms.waiter,
         ThreadOK(t)', \A u \in Tiles : u # t => Unanswered(u)
  PROVE  CallsInv'
  <2> USE <1>MasterStep
  <2>1. /\ toMcp' \in [Tiles -> Seq(Requests)] /\ \A u \in Tiles : u # t => toMcp'[u] = toMcp[u]
    BY PacketTaken
  <2>2. ms \in MasterTables /\ UNCHANGED clients /\ mutexes' = mutexes /\ conds' = conds /\ barriers' = barriers
        /\ waking' = waking
    BY DEF CallsInv, TypeOK, TakesPacket, server
  <2>3. TypeOK'
    BY <2>1, <2>2 DEF CallsInv, TypeOK, clients
  <2>4. OncePerQueue' /\ HandlesKnown' /\ (waking' # NotWaking => waking'.by \in Tiles)
    <3>1. ObjectsStay
      BY <2>2 DEF ObjectsStay
    <3>2. HandlesKnown'
      BY <2>2, <3>1, ExistsGrows DEF CallsInv, HandlesKnown, clients, ObjectsStay
    <3> QED  BY <2>2, <3>2 DEF CallsInv, OncePerQueue
  <2>5. ASSUME NEW u \in Tiles
        PROVE  ThreadOK(u)'
    <3>1. CASE u = t
      BY <3>1
    <3>2. CASE u # t
      <4>1. ThreadOK(u) /\ Unanswered(u)
        BY <3>2 DEF CallsInv
      <4>2. SameThread(u)
        BY <2>1, <2>2, <3>2 DEF SameThread, clients
      <4>3. StaysPut(u) /\ ObjectsStay /\ OwnsStill(u)
        BY <2>2 DEF StaysPut, ObjectsStay, OwnsStill
      <4> QED  BY <2>2, <4>1, <4>2, <4>3, OtherThread
    <3> QED  BY <3>1, <3>2
  <2> QED  BY <2>3, <2>4, <2>5 DEF CallsInv
\* The clock barrier over such a step.
<1>MasterClock.
  ASSUME CallsInv, ClockInv, UNCHANGED clients, ms' \in MasterTables,
         ms'.next >= ms.next, ms'.next % Quantum = 0, AcquiredIsLate',
         \A u \in Tiles : ms'.mail[u]["SYSTEM_RESPONSE"] = ms.mail[u]["SYSTEM_RESPONSE"] \/ clk[u] < ms'.next
  PROVE  ClockInv'
  <2> USE <1>MasterClock
  <2>1. ms.next \in Nat /\ ms'.next \in Nat
    BY TableFields DEF CallsInv, TypeOK
  <2>2. \A u \in Tiles : clk'[u] = clk[u] /\ clk[u] \in Nat /\ nextSync'[u] = nextSync[u] /\ nextSync[u] \in Nat
    BY DEF clients, CallsInv, TypeOK
  <2>3. \A u \in Tiles : Got(u, "SYSTEM_RESPONSE")' => clk'[u] < ms'.next
    BY <2>1, <2>2, SMTT(60) DEF Got, ClockInv
  <2>4. SkewBounded'
    BY <2>1, <2>2, SMTT(60) DEF SkewBounded, ClockInv
  <2> QED  BY <2>3, <2>4 DEF ClockInv
\* A request is refused: the server stops.
<1>FailedStep.
  ASSUME CallsInv, NEW t \in Tiles, NEW r, TakesPacket(t, r), UNCHANGED server,
         r.op \in {"CLOCK_SKEW", "EXIT"}, NEW what \in Failures, ms' = Fail(ms, what)
  PROVE  CallsInv' /\ (ClockInv => ClockInv')
  <2> USE <1>FailedStep
  <2>1. ms \in MasterTables /\ UNCHANGED clients
    BY DEF CallsInv, TypeOK, TakesPacket
  <2>2. Quiet(ms, ms')
    BY <2>1, FailEffect
  <2>3. PICK f : Answers(ms, ms', f) /\ DOMAIN f = {}
    <3>1. Answers(ms, ms', <<>>) /\ DOMAIN <<>> = {}
      BY <2>1, <2>2, QuietAnswers, SMTT(60)
    <3> QED  BY <3>1
  <2>4. \A u \in Tiles : Unanswered(u)
    BY <2>3, AnswersUnanswered
  <2>5. /\ ~ Kept(t) /\ (\A k \in Kinds : ~ Got(t, k)) /\ toMcp'[t] = <<>>
        /\ r.op = "CLOCK_SKEW" => mode[t] = "SYSTEM_RESPONSE"
        /\ r.op = "EXIT" => mode[t] = "EXIT_REPLY"
    BY PacketTaken
  <2>6. PICK kind \in {"SYSTEM_RESPONSE", "EXIT_REPLY"} : mode[t] = kind
    BY <2>5
  <2>7. t \notin ms'.acquired /\ \A k \in Kinds : ms'.mail[t][k] = <<>>
    BY <2>4, <2>5 DEF Unanswered, Kept, Got
  <2>8. ThreadOK(t)'
    <3>1. ThreadOK(t) /\ SameCall(t)
      BY <2>1 DEF CallsInv, SameCall, clients
    <3>2. Len(ms'.mail[t][kind]) <= 1
      <4>1. ms'.mail[t][kind] = <<>>
        BY <2>7 DEF Kinds
      <4> QED  BY <4>1, SMTT(60)
    <3> QED  BY <2>5, <2>6, <2>7, <3>1, <3>2, <1>MasterThread
  <2>9. ms' \in MasterTables /\ ms'.waiter = ms.waiter
    BY <2>2 DEF Quiet
  <2>10. CallsInv'
    BY <2>4, <2>8, <2>9, <1>MasterStep
  <2> QED  BY <2>1, <2>3, <2>10, AnswersClock
\* The MCP handles a thread's exit.
<1>ExitStep.
  ASSUME NatWellOrdered, CallsInv, NEW t \in Tiles, NEW r, TakesPacket(t, r), UNCHANGED server, r.op = "EXIT",
         ms' = MasterOnThreadExit(ms, t, r.time)
  PROVE  CallsInv' /\ (ClockInv => ClockInv')
  <2> USE <1>ExitStep
  <2>1. ms \in MasterTables /\ UNCHANGED clients /\ \A u \in AllTiles : ms.waiter[u] = NoTile
    BY DEF CallsInv, TypeOK, TakesPacket
  <2>2. /\ ~ Kept(t) /\ (\A k \in Kinds : ~ Got(t, k)) /\ toMcp'[t] = <<>> /\ r \in Requests
        /\ mode[t] = "EXIT_REPLY"
    BY PacketTaken
  <2>3. r.time \in Nat
    BY <2>2 DEF Requests
  <2>4. CASE ms' = Fail(ms, "exit")
    <3>1. r.op \in {"CLOCK_SKEW", "EXIT"} /\ "exit" \in Failures
      BY DEF Failures
    <3> QED  BY <2>4, <3>1, <1>FailedStep
  <2>5. ASSUME NEW g \in MasterTables, Quiet(ms, g), ms' = Send(g, t, "EXIT_REPLY", Msg("EXITED", 0))
        PROVE  CallsInv' /\ (ClockInv => ClockInv')
    <3>1. Msg("EXITED", 0) \in Messages /\ "EXIT_REPLY" \in Kinds /\ t \in AllTiles
      BY ReplyIs, TilesInAll DEF Codes, Kinds
    <3>2. /\ ms' \in MasterTables /\ ms'.waiter = g.waiter /\ ms'.clock = g.clock /\ ms'.acquired = g.acquired
          /\ ms'.next = g.next
          /\ \A u \in AllTiles, k \in Kinds :
               ms'.mail[u][k] = IF u = t /\ k = "EXIT_REPLY" THEN Append(g.mail[u][k], Msg("EXITED", 0))
                                                             ELSE g.mail[u][k]
      <4>1. Sent(g, ms', {t}, "EXIT_REPLY", Msg("EXITED", 0))
        BY <2>5, <3>1, SendEffect
      <4> QED  BY <4>1 DEF Sent
    <3>3. \A u \in AllTiles, k \in Kinds :
            g.mail[u][k] = IF k = "SYSTEM_RESPONSE" /\ u \in ms.acquired \ g.acquired
                           THEN Append(ms.mail[u][k], Release) ELSE ms.mail[u][k]
      BY <2>5 DEF Quiet
    <3>4. g.waiter = ms.waiter /\ g.clock = ms.clock /\ g.acquired \subseteq ms.acquired
      BY <2>5 DEF Quiet
    <3>5. \A u \in Tiles : u # t => Unanswered(u)
      BY <3>2, <3>3, <3>4, TilesInAll, SMTT(60) DEF Unanswered
    <3>6. t \notin ms.acquired /\ \A k \in Kinds : ms.mail[t][k] = <<>>
      BY <2>2 DEF Kept, Got
    <3>7. \A k \in Kinds : g.mail[t][k] = <<>>
      BY <3>1, <3>3, <3>6
    <3>8. \A k \in Kinds : k # "EXIT_REPLY" => ms'.mail[t][k] = <<>>
      BY <3>1, <3>2, <3>7
    <3>9. Len(ms'.mail[t]["EXIT_REPLY"]) <= 1
      <4>1. ms'.mail[t]["EXIT_REPLY"] = Append(<<>>, Msg("EXITED", 0))
        BY <3>1, <3>2, <3>7
      <4>2. PICK msg : msg = Msg("EXITED", 0)
        OBVIOUS
      <4>3. Len(Append(<<>>, msg)) <= 1
        BY SMTT(60)
      <4> QED  BY <4>1, <4>2, <4>3
    <3>10. ThreadOK(t)'
      <4>1. ThreadOK(t) /\ SameCall(t)
        BY <2>1 DEF CallsInv, SameCall, clients
      <4>2. "EXIT_REPLY" \in {"SYSTEM_RESPONSE", "EXIT_REPLY"} /\ t \notin ms'.acquired
        BY <3>2, <3>4, <3>6
      <4> QED  BY <2>2, <3>8, <3>9, <4>1, <4>2, <1>MasterThread
    <3>11. CallsInv'
      <4>1. ms'.waiter = ms.waiter
        BY <3>2, <3>4
      <4> QED  BY <3>2, <3>5, <3>10, <4>1, <1>MasterStep
    <3>12. ASSUME ClockInv PROVE ClockInv'
      <4>1. ms'.next >= ms.next /\ ms'.next % Quantum = 0
        BY <2>5, <3>2, <3>12 DEF Quiet, ClockInv
      <4>2. AcquiredIsLate'
        BY <2>5, <3>2, <3>12 DEF Quiet, ClockInv, AcquiredIsLate, Late
      <4>3. ASSUME NEW u \in Tiles
            PROVE  ms'.mail[u]["SYSTEM_RESPONSE"] = ms.mail[u]["SYSTEM_RESPONSE"] \/ clk[u] < ms'.next
        <5>1. CASE u \in ms.acquired \ g.acquired
          <6>1. ms.clock[u] < g.next
            BY <2>5, <5>1 DEF Quiet
          <6>2. ms.clock[u] = clk[u]
            BY <5>1 DEF CallsInv, ThreadOK, QueuesFit
          <6> QED  BY <3>2, <6>1, <6>2
        <5>2. CASE u \notin ms.acquired \ g.acquired
          BY <3>2, <3>3, <5>2, TilesInAll, SMTT(60) DEF Kinds
        <5> QED  BY <5>1, <5>2
      <4> QED  BY <2>1, <3>2, <3>12, <4>1, <4>2, <4>3, <1>MasterClock
    <3> QED  BY <3>11, <3>12
  <2>6. ms' = Fail(ms, "exit") \/ \E g \in MasterTables : Quiet(ms, g) /\ ms' = Send(g, t, "EXIT_REPLY", Msg("EXITED", 0))
    <3>1. ms' = Fail(ms, "exit") \/ ThreadGone(ms, ms', t)
      BY <2>1, <2>3, ThreadExitEffect, SMTT(60)
    <3> QED  BY <3>1 DEF ThreadGone
  <2> QED  BY <2>4, <2>5, <2>6
\* The thread is early and is let go at once.
<1>EarlyStep.
  ASSUME CallsInv, NEW t \in Tiles, NEW r, TakesPacket(t, r), UNCHANGED server, r.op = "CLOCK_SKEW",
         r.time < ms.next, ms' = Send(ms, t, "SYSTEM_RESPONSE", Release)
  PROVE  CallsInv' /\ (ClockInv => ClockInv')
  <2> USE <1>EarlyStep
  <2>1. ms \in MasterTables /\ UNCHANGED clients
    BY DEF CallsInv, TypeOK, TakesPacket
  <2>2. /\ ~ Kept(t) /\ (\A k \in Kinds : ~ Got(t, k)) /\ toMcp'[t] = <<>> /\ r.time = clk[t]
        /\ mode[t] = "SYSTEM_RESPONSE"
    BY PacketTaken
  <2>3. Release \in Messages /\ "SYSTEM_RESPONSE" \in Kinds /\ t \in AllTiles
    BY ReplyIs, TilesInAll DEF Release, Codes, Kinds
  <2>4. /\ ms' \in MasterTables /\ ms'.waiter = ms.waiter /\ ms'.clock = ms.clock /\ ms'.acquired = ms.acquired
        /\ ms'.next = ms.next
        /\ \A u \in AllTiles, k \in Kinds :
             ms'.mail[u][k] = IF u = t /\ k = "SYSTEM_RESPONSE" THEN Append(ms.mail[u][k], Release)
                                                                ELSE ms.mail[u][k]
    <3>1. Sent(ms, ms', {t}, "SYSTEM_RESPONSE", Release)
      BY <2>1, <2>3, SendEffect
    <3> QED  BY <3>1 DEF Sent
  <2>5. \A u \in Tiles : u # t => Unanswered(u)
    BY <2>4, TilesInAll DEF Unanswered
  <2>6. t \notin ms.acquired /\ \A k \in Kinds : ms.mail[t][k] = <<>>
    BY <2>2 DEF Kept, Got
  <2>7. \A k \in Kinds : k # "SYSTEM_RESPONSE" => ms'.mail[t][k] = <<>>
    BY <2>3, <2>4, <2>6
  <2>8. Len(ms'.mail[t]["SYSTEM_RESPONSE"]) <= 1
    <3>1. ms'.mail[t]["SYSTEM_RESPONSE"] = Append(<<>>, Release)
      BY <2>3, <2>4, <2>6
    <3>2. PICK msg : msg = Release
      OBVIOUS
    <3>3. Len(Append(<<>>, msg)) <= 1
      BY SMTT(60)
    <3> QED  BY <3>1, <3>2, <3>3
  <2>9. ThreadOK(t)'
    <3>1. ThreadOK(t) /\ SameCall(t)
      BY <2>1 DEF CallsInv, SameCall, clients
    <3>2. "SYSTEM_RESPONSE" \in {"SYSTEM_RESPONSE", "EXIT_REPLY"} /\ t \notin ms'.acquired
      BY <2>4, <2>6
    <3> QED  BY <2>2, <2>7, <2>8, <3>1, <3>2, <1>MasterThread
  <2>10. CallsInv'
    BY <2>4, <2>5, <2>9, <1>MasterStep
  <2>11. ASSUME ClockInv PROVE ClockInv'
    <3>1. ms.next \in Nat
      BY <2>1, TableFields
    <3>2. ms'.next >= ms.next /\ ms'.next % Quantum = 0
      BY <2>4, <2>11, <3>1, SMTT(60) DEF ClockInv
    <3>3. AcquiredIsLate'
      BY <2>4, <2>11 DEF ClockInv, AcquiredIsLate, Late
    <3>4. \A u \in Tiles : ms'.mail[u]["SYSTEM_RESPONSE"] = ms.mail[u]["SYSTEM_RESPONSE"] \/ clk[u] < ms'.next
      BY <2>2, <2>3, <2>4, TilesInAll
    <3> QED  BY <2>1, <2>4, <2>11, <3>2, <3>3, <3>4, <1>MasterClock
  <2> QED  BY <2>10, <2>11
\* The thread is late and waits in the list, from which it may be released.
<1>LateStep.
  ASSUME NatWellOrdered, CallsInv, NEW t \in Tiles, NEW r, TakesPacket(t, r), UNCHANGED server, r.op = "CLOCK_SKEW",
         r.time >= ms.next, NEW a \in MasterTables, a.waiter = ms.waiter, a.next = ms.next, a.mail = ms.mail,
         a.clock = [ms.clock EXCEPT ![t] = r.time], a.acquired = ms.acquired \cup {t},
         ms' = Signal(a)
  PROVE  CallsInv' /\ (ClockInv => ClockInv')
  <2> USE <1>LateStep
  <2>1. ms \in MasterTables /\ UNCHANGED clients
    BY DEF CallsInv, TypeOK, TakesPacket
  <2>2. /\ ~ Kept(t) /\ (\A k \in Kinds : ~ Got(t, k)) /\ toMcp'[t] = <<>> /\ r.time = clk[t]
        /\ mode[t] = "SYSTEM_RESPONSE"
    BY PacketTaken
  <2>3. "SYSTEM_RESPONSE" \in Kinds /\ t \in AllTiles
    BY TilesInAll DEF Kinds
  <2>4. Quiet(a, ms')
    BY SignalEffect
  <2>5. \A u \in AllTiles, k \in Kinds :
          ms'.mail[u][k] = IF k = "SYSTEM_RESPONSE" /\ u \in a.acquired \ ms'.acquired
                           THEN Append(ms.mail[u][k], Release) ELSE ms.mail[u][k]
    BY <2>4, SMTT(60) DEF Quiet
  <2>6. /\ ms' \in MasterTables /\ ms'.waiter = ms.waiter /\ ms'.clock = a.clock
        /\ ms'.acquired \subseteq a.acquired
    BY <2>4 DEF Quiet
  <2>7. ms.clock \in [Tiles -> Nat] /\ ms.next \in Nat
    BY <2>1, TableFields
  <2>8. ms'.clock[t] = r.time /\ \A u \in Tiles : u # t => ms'.clock[u] = ms.clock[u]
    BY <2>6, <2>7
  <2>9. \A u \in Tiles : u # t => Unanswered(u)
    <3>1. \A u \in Tiles : u # t =>
            (u \in a.acquired \ ms'.acquired <=> u \in ms.acquired \ ms'.acquired)
      OBVIOUS
    <3> QED  BY <2>5, <2>6, <2>8, <3>1, TilesInAll, SMTT(60) DEF Unanswered
  <2>10. \A k \in Kinds : ms.mail[t][k] = <<>>
    BY <2>2 DEF Got
  <2>11. \A k \in Kinds : k # "SYSTEM_RESPONSE" => ms'.mail[t][k] = <<>>
    BY <2>3, <2>5, <2>10
  <2>12. ThreadOK(t)'
    <3>1. ThreadOK(t) /\ SameCall(t)
      BY <2>1 DEF CallsInv, SameCall, clients
    <3>2. CASE t \in ms'.acquired
      <4>1. ms'.mail[t]["SYSTEM_RESPONSE"] = <<>>
        BY <2>3, <2>5, <2>10, <3>2
      <4>2. Len(ms'.mail[t]["SYSTEM_RESPONSE"]) <= 1
        BY <4>1, SMTT(60)
      <4>3. "SYSTEM_RESPONSE" \in {"SYSTEM_RESPONSE", "EXIT_REPLY"} /\ ms'.clock[t] = clk[t]
        BY <2>2, <2>8
      <4> QED  BY <2>2, <2>11, <3>1, <4>1, <4>2, <4>3, <1>MasterThread
    <3>3. CASE t \notin ms'.acquired
      <4>1. ms'.mail[t]["SYSTEM_RESPONSE"] = Append(<<>>, Release)
        <5>1. t \in a.acquired \ ms'.acquired
          BY <3>3
        <5> QED  BY <2>3, <2>5, <2>10, <5>1
      <4>2. Len(ms'.mail[t]["SYSTEM_RESPONSE"]) <= 1
        <5>1. PICK msg : msg = Release
          OBVIOUS
        <5>2. Len(Append(<<>>, msg)) <= 1
          BY SMTT(60)
        <5> QED  BY <4>1, <5>1, <5>2
      <4>3. "SYSTEM_RESPONSE" \in {"SYSTEM_RESPONSE", "EXIT_REPLY"}
        OBVIOUS
      <4> QED  BY <2>2, <2>11, <3>1, <3>3, <4>2, <4>3, <1>MasterThread
    <3> QED  BY <3>2, <3>3
  <2>13. CallsInv'
    BY <2>6, <2>9, <2>12, <1>MasterStep
  <2>14. ASSUME ClockInv PROVE ClockInv'
    <3>1. ms'.next >= ms.next /\ ms'.next % Quantum = 0
      BY <2>4, <2>14 DEF Quiet, ClockInv
    <3>2. SkewScheme = "lax_barrier" => a.acquired = Late(a)
      <4>1. \A u \in Tiles : a.clock[u] = IF u = t THEN r.time ELSE ms.clock[u]
        BY <2>7
      <4>2. Late(a) = Late(ms) \cup {t}
        BY <4>1 DEF Late
      <4> QED  BY <2>14, <4>2 DEF ClockInv, AcquiredIsLate
    <3>3. AcquiredIsLate'
      BY <2>4, <3>2 DEF AcquiredIsLate, Quiet, Late
    <3>4. ASSUME NEW u \in Tiles
          PROVE  ms'.mail[u]["SYSTEM_RESPONSE"] = ms.mail[u]["SYSTEM_RESPONSE"] \/ clk[u] < ms'.next
      <4>1. CASE u \in a.acquired \ ms'.acquired
        <5>1. a.clock[u] < ms'.next
          BY <2>4, <4>1 DEF Quiet
        <5>2. a.clock[u] = clk[u]
          <6>1. CASE u = t
            BY <2>2, <2>7, <6>1
          <6>2. CASE u # t
            <7>1. ms.clock[u] = clk[u]
              BY <4>1, <6>2 DEF CallsInv, ThreadOK, QueuesFit
            <7> QED  BY <2>7, <6>2, <7>1
          <6> QED  BY <6>1, <6>2
        <5> QED  BY <5>1, <5>2
      <4>2. CASE u \notin a.acquired \ ms'.acquired
        BY <2>3, <2>5, <4>2, TilesInAll, SMTT(60)
      <4> QED  BY <4>1, <4>2
    <3> QED  BY <2>1, <2>6, <2>14, <3>1, <3>3, <3>4, <1>MasterClock
  <2> QED  BY <2>13, <2>14
\* LaxBarrierSyncServer::barrierWait lets an early thread go at once and
\* keeps a late one until the barrier is reached.
<1>ClockSkewStep.
  ASSUME NatWellOrdered, CallsInv, NEW t \in Tiles, NEW r, TakesPacket(t, r), UNCHANGED server, r.op = "CLOCK_SKEW",
         ms' = BarrierWait(ms, t, r.time)
  PROVE  CallsInv' /\ (ClockInv => ClockInv')
  <2> USE <1>ClockSkewStep
  <2>1. ms \in MasterTables /\ r \in Requests
    BY PacketTaken DEF CallsInv, TypeOK
  <2>2. r.time \in Nat
    BY <2>1 DEF Requests
  <2>3. CASE r.time < ms.next /\ ms' = Send(ms, t, "SYSTEM_RESPONSE", Release)
    BY <2>3, <1>EarlyStep
  <2>4. CASE /\ r.time >= ms.next
             /\ \E a \in MasterTables :
                  /\ a.waiter = ms.waiter /\ a.next = ms.next /\ a.mail = ms.mail
                  /\ a.clock = [ms.clock EXCEPT ![t] = r.time] /\ a.acquired = ms.acquired \cup {t}
                  /\ ms' = Signal(a)
    BY <2>4, <1>LateStep
  <2> QED  BY <2>1, <2>2, <2>3, <2>4, BarrierWaitEffect, SMTT(60)
<1> QED  BY <1>ExitStep, <1>ClockSkewStep

-----------------------------------------------------------------------------
(* The MCP's handlers: what they do to a thread *)

\* A step of the MCP preserves the invariant when every thread is left alone,
\* answered with its call complete, or put in one queue.
LEMMA ServerStep ==
  \A f :
    /\ CallsInv
    /\ UNCHANGED clients
    /\ toMcp' \in [Tiles -> Seq(Requests)]
    /\ mutexes' \in Seq(Mutexes)
    /\ conds' \in Seq(Seq(CondWaiters))
    /\ barriers' \in Seq(Barriers)
    /\ waking' \in Wakings
    /\ (waking' # NotWaking => waking'.by \in Tiles)
    /\ OncePerQueue'
    /\ ObjectsStay
    /\ Answers(ms, ms', f)
    /\ (\A u \in Tiles : ThreadLeft(u, f) \/ ThreadAnswered(u, f) \/ ThreadQueued(u, f))
    =>
         CallsInv'
\* A thread that was waiting for its answer, or whose request was handled, is
\* answered.
<1>AnsweredThread.
  ASSUME NEW u \in Tiles, ms \in MasterTables, ThreadOK(u),
         mode[u] = "RESPONSE", \A k \in Kinds : ~ Got(u, k),
         SameCall(u), ObjectsStay, toMcp'[u] = <<>>, ~ Kept(u)',
         NEW f, Answers(ms, ms', f), u \in DOMAIN f,
         f[u].code = Expected(CallOf(u)),
         Makes(CallOf(u)) => Exists(ObjectKind(CallOf(u).op), f[u].value)',
         \A m \in holding[u] \cup Obtained(CallOf(u)) : Owns(u, m)'
  PROVE  ThreadOK(u)'
  <2> USE <1>AnsweredThread
  <2>1. CallOf(u)' = CallOf(u)
    BY DEF SameCall, CallOf
  <2>2. ~ Asked(u)'
    BY DEF Asked
  <2>3. "RESPONSE" \in Kinds /\ "RESPONSE" # "SYSTEM_RESPONSE" /\ u \notin ms.acquired
    BY DEF Kinds, ThreadOK, QueuesFit
  <2>4. \A k \in Kinds : ms.mail[u][k] = <<>>
    BY DEF Got
  <2>5. \A k \in Kinds : ms'.mail[u][k] = IF k = "RESPONSE" THEN Append(<<>>, f[u]) ELSE <<>>
    BY <2>3, <2>4, TilesInAll DEF Answers
  <2>6. Len(<<>>) <= 1 /\ Len(Append(<<>>, f[u])) <= 1 /\ Head(Append(<<>>, f[u])) = f[u]
    BY SMTT(60)
  <2>7. \A k \in Kinds : Len(ms'.mail[u][k]) <= 1 /\ (Got(u, k)' => k = "RESPONSE")
    BY <2>5, <2>6 DEF Got
  <2>8. Head(ms'.mail[u]["RESPONSE"]) = f[u]
    BY <2>3, <2>5, <2>6
  <2>9. Len(toMcp'[u]) <= 1
    BY SMTT(60)
  <2>10. InOnePlace(u)'
    BY <2>2, <2>7, <2>9 DEF InOnePlace, Kept
  <2>11. CallKnown(u)'
    BY <2>1, ExistsGrows DEF ThreadOK, CallKnown, SameCall, ObjectsStay
  <2>12. RequestFits(u)'
    BY <2>2 DEF RequestFits
  <2>13. QueuesFit(u)'
    BY DEF QueuesFit, Kept, AtMutex, AtCond, AtBarrier, InLoop
  <2>14. AnswersFit(u)'
    BY <2>1, <2>7, <2>8 DEF AnswersFit, SameCall
  <2>15. MutexesOwned(u)'
    BY <2>1, <2>2 DEF MutexesOwned, SameCall
  <2> QED  BY <2>10, <2>11, <2>12, <2>13, <2>14, <2>15 DEF ThreadOK
\* Such a thread is put in a queue, or in another one.
<1>QueuedThread.
  ASSUME NEW u \in Tiles, ms \in MasterTables, ThreadOK(u),
         mode[u] = "RESPONSE", \A k \in Kinds : ~ Got(u, k),
         SameCall(u), ObjectsStay, toMcp'[u] = <<>>,
         NEW f, Answers(ms, ms', f), u \notin DOMAIN f,
         QueuesFit(u)',
         AtMutex(u)' => ~ AtCond(u)' /\ ~ InLoop(u)' /\ u \notin waking'.woken,
         AtCond(u)' => ~ InLoop(u)' /\ u \notin waking'.woken,
         InLoop(u)' => u \notin waking'.woken,
         \A m \in holding[u] : Owns(u, m)',
         u \in waking'.woken => \A m \in Obtained(CallOf(u)) : Owns(u, m)'
  PROVE  ThreadOK(u)'
  <2> USE <1>QueuedThread
  <2>1. CallOf(u)' = CallOf(u)
    BY DEF SameCall, CallOf
  <2>2. ~ Asked(u)'
    BY DEF Asked
  <2>3. "RESPONSE" \in Kinds /\ "RESPONSE" # "SYSTEM_RESPONSE" /\ u \notin ms.acquired
    BY DEF Kinds, ThreadOK, QueuesFit
  <2>4. \A k \in Kinds : ms.mail[u][k] = <<>>
    BY DEF Got
  <2>5. \A k \in Kinds : ms'.mail[u][k] = <<>>
    BY <2>3, <2>4, TilesInAll DEF Answers
  <2>6. Len(<<>>) <= 1
    BY SMTT(60)
  <2>7. \A k \in Kinds : Len(ms'.mail[u][k]) <= 1 /\ ~ Got(u, k)'
    BY <2>5, <2>6 DEF Got
  <2>8. InOnePlace(u)'
    BY <2>2, <2>6, <2>7 DEF InOnePlace
  <2>9. CallKnown(u)'
    BY <2>1, ExistsGrows DEF ThreadOK, CallKnown, SameCall, ObjectsStay
  <2>10. RequestFits(u)'
    BY <2>2 DEF RequestFits
  <2>11. AnswersFit(u)'
    BY <2>3, <2>7 DEF AnswersFit
  <2>12. MutexesOwned(u)'
    BY <2>1, <2>2, <2>3, <2>7 DEF MutexesOwned, SameCall
  <2> QED  BY <2>8, <2>9, <2>10, <2>11, <2>12 DEF ThreadOK
<1>ServerStep.
  ASSUME CallsInv, UNCHANGED clients, toMcp' \in [Tiles -> Seq(Requests)],
         mutexes' \in Seq(Mutexes), conds' \in Seq(Seq(CondWaiters)), barriers' \in Seq(Barriers),
         waking' \in Wakings, waking' # NotWaking => waking'.by \in Tiles,
         OncePerQueue', ObjectsStay,
         NEW f, Answers(ms, ms', f),
         \A u \in Tiles : ThreadLeft(u, f) \/ ThreadAnswered(u, f) \/ ThreadQueued(u, f)
  PROVE  CallsInv'
  <2> USE <1>ServerStep
  <2>1. ms \in MasterTables /\ ms' \in MasterTables /\ ms'.waiter = ms.waiter
    BY DEF CallsInv, TypeOK, Answers
  <2>2. TypeOK'
    BY <2>1 DEF CallsInv, TypeOK, clients
  <2>3. HandlesKnown'
    BY ExistsGrows DEF CallsInv, HandlesKnown, clients, ObjectsStay
  <2>4. ASSUME NEW u \in Tiles
        PROVE  ThreadOK(u)'
    <3>1. ThreadOK(u) /\ SameCall(u)
      BY DEF CallsInv, SameCall, clients
    <3>2. CASE ThreadLeft(u, f)
      <4>1. Unanswered(u)
        BY <3>2, AnswersUnanswered DEF ThreadLeft
      <4>2. SameThread(u)
        BY <3>1, <3>2 DEF SameCall, SameThread, ThreadLeft
      <4> QED  BY <2>1, <3>1, <3>2, <4>1, <4>2, OtherThread DEF ThreadLeft
    <3>3. CASE ThreadAnswered(u, f)
      BY <2>1, <3>1, <3>3, <1>AnsweredThread DEF ThreadAnswered
    <3>4. CASE ThreadQueued(u, f)
      BY <2>1, <3>1, <3>4, <1>QueuedThread DEF ThreadQueued
    <3> QED  BY <3>2, <3>3, <3>4
  <2> QED  BY <2>1, <2>2, <2>3, <2>4 DEF CallsInv
<1> QED  BY <1>ServerStep
=============================================================================

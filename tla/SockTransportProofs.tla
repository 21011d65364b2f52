------------------------ MODULE SockTransportProofs ------------------------
(***************************************************************************)
(* FutexSemaphore loses no wake-up and implements Semaphore, for any       *)
(* finite set of waiting threads and any set of semaphores.  The           *)
(* semaphores of the socket transport count its buffer lists, for any      *)
(* number of processes and nodes and any workload: SockNode::recv never    *)
(* finds its list empty after it has waited.                               *)
(***************************************************************************)
EXTENDS SockTransport, FiniteSetTheorems, TLAPS

\* A leaf is for Zenon, or for the SMT solver where it says so.
USE ZenonT(60)

-----------------------------------------------------------------------------
(* The futex semaphore *)

\* The three conjuncts of SemInv for one semaphore.
Sound(s) ==
  /\ sem[s].numWaiting = Cardinality(Waiting(s))
  /\ sem[s].futx = 0 /\ Waiting(s) # {} => sem[s].count = 0
  /\ Asleep(s) # {} => sem[s].count <= Cardinality(Awake(s))

\* A thread that no set of waiters of s contains.
Absent(w, s) == at[w].on # s \/ at[w].pc \in {"out", "lock", "passed"}

\* The invariant of all semaphores is the invariant of each one.
LEMMA SemInvSound ==
  /\ SemInv <=> SemTypeOK /\ \A s \in Sems : Sound(s)
  /\ SemInv' <=> SemTypeOK' /\ \A s \in Sems : Sound(s)'
<1>1. SemInv <=> SemTypeOK /\ \A s \in Sems : Sound(s)
  BY DEF SemInv, Sound, WaitersCounted, SleepsAtZero, NoLostWakeup
<1>2. SemInv' <=> SemTypeOK' /\ \A s \in Sems : Sound(s)'
  BY DEF SemInv, Sound, WaitersCounted, SleepsAtZero, NoLostWakeup
<1> QED
  BY <1>1, <1>2

\* The sets of waiters are finite, so their cardinalities are natural numbers.
LEMMA WaitersFinite ==
  ASSUME NEW S \in SUBSET Waiters
  PROVE  IsFiniteSet(S) /\ Cardinality(S) \in Nat
  BY FS_Subset, FS_CardinalityType, WaitersAssumption

\* A step that leaves a semaphore and its waiters alone keeps its invariant.
LEMMA SoundKept ==
  ASSUME NEW s \in Sems, Sound(s), sem'[s] = sem[s],
         \A w \in Waiters : at'[w] = at[w] \/ (Absent(w, s) /\ Absent(w, s)')
  PROVE  Sound(s)'
<1>1. Waiting(s)' = Waiting(s)
  BY DEF Waiting, Absent
<1>2. Awake(s)' = Awake(s)
  BY DEF Awake, Absent
<1>3. Asleep(s)' = Asleep(s)
  BY DEF Asleep, Absent
<1> QED
  BY <1>1, <1>2, <1>3 DEF Sound

\* What one thread does to the sets of waiters of its own semaphore.
LEMMA OneThread ==
  ASSUME SemTypeOK, NEW w \in Waiters, NEW p \in Stages,
         at' = [at EXCEPT ![w].pc = p]
  PROVE  /\ at'[w].on = at[w].on /\ at'[w].pc = p
         /\ \A v \in Waiters : v # w => at'[v] = at[v]
         /\ SemTypeOK => at' \in [Waiters -> [pc : Stages, on : Sems]]
  BY DEF SemTypeOK

\* A thread that enters wait() is not yet one of the waiters.
LEMMA CallSound ==
  ASSUME SemInv, NEW w \in Waiters, NEW c \in Sems, Call(w, c)
  PROVE  SemInv'
<1>1. SemTypeOK /\ \A s \in Sems : Sound(s)
  BY SemInvSound
<1>2. SemTypeOK'
  BY <1>1 DEF SemTypeOK, Call, Stages
<1>3. \A s \in Sems, v \in Waiters : at'[v] = at[v] \/ (Absent(v, s) /\ Absent(v, s)')
  BY <1>1 DEF Call, Absent, SemTypeOK
<1>4. \A s \in Sems : Sound(s)'
  BY <1>1, <1>3, SoundKept DEF Call
<1> QED
  BY <1>2, <1>4, SemInvSound

\* wait() tests the counter: a signal is used up, or the thread will sleep.
LEMMA TestSound ==
  ASSUME SemInv, NEW w \in Waiters, Test(w)
  PROVE  SemInv'
<1>1. SemTypeOK /\ \A c \in Sems : Sound(c)
  BY SemInvSound
<1>0. PICK s \in Sems : s = at[w].on
  BY <1>1 DEF SemTypeOK
<1>2. /\ at[w].on = s /\ at[w].pc \in {"lock", "woken"}
      /\ sem[s] \in [count : Nat, numWaiting : Nat, futx : {0, 1}]
  BY <1>0, <1>1 DEF SemTypeOK, Test
<1>3. /\ Waiting(s) \in SUBSET Waiters /\ Awake(s) \in SUBSET Waiters
      /\ at[w].pc = "woken" => w \in Waiting(s) /\ w \in Awake(s)
      /\ at[w].pc = "lock" => w \notin Waiting(s) /\ w \notin Awake(s)
  BY <1>2 DEF Waiting, Awake
<1>4. /\ sem[s].numWaiting = Cardinality(Waiting(s))
      /\ at[w].pc = "woken" => Cardinality(Waiting(s)) >= 1
  <2>1. at[w].pc = "woken" => Cardinality(Waiting(s) \ {w}) = Cardinality(Waiting(s)) - 1
                             /\ Cardinality(Waiting(s) \ {w}) \in Nat
    BY <1>3, WaitersFinite, FS_RemoveElement
  <2> QED
    BY <1>1, <1>2, <1>3, <2>1, WaitersFinite, SMTT(60) DEF Sound
<1>5. CASE sem[s].count <= 0
  <2> DEFINE n == IF at[w].pc = "woken" THEN sem[s].numWaiting - 1 ELSE sem[s].numWaiting
  <2>1. /\ sem' = [sem EXCEPT ![s] = [count |-> sem[s].count, numWaiting |-> n + 1, futx |-> 0]]
        /\ at' = [at EXCEPT ![w].pc = "futex"]
    BY <1>2, <1>5 DEF Test
  <2>2. n \in Nat
    BY <1>2, <1>4, SMTT(60)
  <2>3. SemTypeOK'
    BY <1>1, <1>2, <2>1, <2>2, SMTT(60) DEF SemTypeOK, Stages
  <2>4. /\ sem'[s] = [count |-> sem[s].count, numWaiting |-> n + 1, futx |-> 0]
        /\ \A c \in Sems : c # s => sem'[c] = sem[c]
        /\ at'[w].on = s /\ at'[w].pc = "futex"
        /\ \A v \in Waiters : v # w => at'[v] = at[v]
    BY <1>1, <1>2, <2>1 DEF SemTypeOK
  <2>5. Waiting(s)' = Waiting(s) \cup {w}
    BY <1>2, <2>4 DEF Waiting
  <2>6. n + 1 = Cardinality(Waiting(s)')
    <3>1. CASE at[w].pc = "woken"
      BY <1>2, <1>3, <1>4, <2>5, <3>1
    <3>2. CASE at[w].pc = "lock"
      BY <1>3, <1>4, <2>5, <3>2, WaitersFinite, FS_AddElement, SMTT(60)
    <3> QED
      BY <1>2, <3>1, <3>2
  <2>7. Cardinality(Awake(s)') \in Nat
    <3>1. Awake(s)' \in SUBSET Waiters
      BY DEF Awake
    <3> QED
      BY <3>1, WaitersFinite
  <2>8. Sound(s)'
    <3>1. sem'[s].numWaiting = n + 1 /\ sem'[s].count = 0
      BY <1>2, <1>5, <2>4, SMTT(60)
    <3>2. sem'[s].count <= Cardinality(Awake(s)')
      BY <2>7, <3>1, SMTT(60)
    <3> HIDE DEF n
    <3> QED
      BY <2>6, <3>1, <3>2 DEF Sound
  <2>9. \A c \in Sems : c # s => Sound(c)'
    BY <1>1, <1>2, <2>4, SoundKept DEF Absent
  <2> QED
    BY <2>3, <2>8, <2>9, SemInvSound
<1>6. CASE ~(sem[s].count <= 0)
  <2> DEFINE n == IF at[w].pc = "woken" THEN sem[s].numWaiting - 1 ELSE sem[s].numWaiting
  <2>1. /\ sem' = [sem EXCEPT ![s] = [count |-> sem[s].count - 1, numWaiting |-> n, futx |-> sem[s].futx]]
        /\ at' = [at EXCEPT ![w].pc = "passed"]
    BY <1>2, <1>6 DEF Test
  <2>2. n \in Nat /\ sem[s].count - 1 \in Nat
    BY <1>2, <1>4, <1>6, SMTT(60)
  <2>3. SemTypeOK'
    BY <1>1, <1>2, <2>1, <2>2, SMTT(60) DEF SemTypeOK, Stages
  <2>4. /\ sem'[s] = [count |-> sem[s].count - 1, numWaiting |-> n, futx |-> sem[s].futx]
        /\ \A c \in Sems : c # s => sem'[c] = sem[c]
        /\ at'[w].on = s /\ at'[w].pc = "passed"
        /\ \A v \in Waiters : v # w => at'[v] = at[v]
    BY <1>1, <1>2, <2>1 DEF SemTypeOK
  <2>5. /\ Waiting(s)' = Waiting(s) \ {w} /\ Awake(s)' = Awake(s) \ {w}
        /\ Asleep(s)' = Asleep(s)
    BY <1>2, <2>4, SMTT(60) DEF Waiting, Awake, Asleep
  <2>6. /\ n = Cardinality(Waiting(s)')
        /\ Asleep(s) # {} => sem[s].count - 1 <= Cardinality(Awake(s)')
    <3>1. CASE at[w].pc = "woken"
      <4>1. /\ Cardinality(Waiting(s) \ {w}) = Cardinality(Waiting(s)) - 1
            /\ Cardinality(Awake(s) \ {w}) = Cardinality(Awake(s)) - 1
        BY <1>3, <3>1, WaitersFinite, FS_RemoveElement, SMTT(60)
      <4>2. Asleep(s) # {} => sem[s].count <= Cardinality(Awake(s))
        BY <1>1, <1>2 DEF Sound
      <4>3. Cardinality(Awake(s)) \in Nat
        BY <1>3, WaitersFinite
      <4> QED
        BY <1>2, <1>4, <2>5, <3>1, <4>1, <4>2, <4>3, SMTT(60)
    <3>2. CASE at[w].pc = "lock"
      <4>1. Waiting(s)' = Waiting(s) /\ Awake(s)' = Awake(s)
        BY <1>3, <2>5, <3>2
      <4>2. Asleep(s) # {} => sem[s].count <= Cardinality(Awake(s))
        BY <1>1, <1>2 DEF Sound
      <4>3. Cardinality(Awake(s)) \in Nat
        BY <1>3, WaitersFinite
      <4>4. n = sem[s].numWaiting
        BY <3>2
      <4>5. n = Cardinality(Waiting(s)')
        BY <1>4, <4>1, <4>4
      <4>6. Asleep(s) # {} => sem[s].count - 1 <= Cardinality(Awake(s))
        BY <1>2, <4>2, <4>3, SMTT(60)
      <4> QED
        BY <4>1, <4>5, <4>6
    <3> QED
      BY <1>2, <3>1, <3>2
  <2>7. sem[s].futx = 0 => Waiting(s)' = {}
    BY <1>1, <1>2, <1>6, <2>5, SMTT(60) DEF Sound
  <2>8. Sound(s)'
    <3>1. /\ sem'[s].numWaiting = n /\ sem'[s].count = sem[s].count - 1
          /\ sem'[s].futx = sem[s].futx
      BY <2>4, SMTT(60)
    <3> QED
      BY <2>5, <2>6, <2>7, <3>1 DEF Sound
  <2>9. \A c \in Sems : c # s => Sound(c)'
    BY <1>1, <1>2, <2>4, SoundKept DEF Absent
  <2> QED
    BY <2>3, <2>8, <2>9, SemInvSound
<1> QED
  BY <1>5, <1>6

\* Threads that only move within wait(), or leave it after they have passed.
LEMMA MoveSound ==
  ASSUME SemInv, NEW w \in Waiters, FutexWait(w) \/ Interrupted(w) \/ Return(w)
  PROVE  SemInv'
<1>1. SemTypeOK /\ \A c \in Sems : Sound(c)
  BY SemInvSound
<1>0. PICK s \in Sems : s = at[w].on
  BY <1>1 DEF SemTypeOK
<1>2. at[w].on = s /\ sem' = sem /\ sem[s].count \in Nat /\ sem[s].futx \in {0, 1}
  BY <1>0, <1>1 DEF SemTypeOK, FutexWait, Interrupted, Return
<1>3. PICK p \in Stages :
           /\ at' = [at EXCEPT ![w].pc = p]
           /\ \/ at[w].pc = "futex" /\ p = (IF sem[s].futx = 0 THEN "sleep" ELSE "woken")
              \/ at[w].pc = "sleep" /\ p = "woken"
              \/ at[w].pc = "passed" /\ p = "out"
  BY <1>2 DEF FutexWait, Interrupted, Return, Stages
<1>4. /\ at'[w].on = s /\ at'[w].pc = p
      /\ \A v \in Waiters : v # w => at'[v] = at[v]
  BY <1>1, <1>2, <1>3 DEF SemTypeOK
<1>5. SemTypeOK'
  BY <1>1, <1>2, <1>3 DEF SemTypeOK
<1>6. \A c \in Sems : c # s => Sound(c)'
  BY <1>1, <1>2, <1>4, SoundKept DEF Absent
<1>7. /\ Waiting(s)' = Waiting(s)
      /\ Awake(s) \subseteq Awake(s)' /\ Awake(s)' \in SUBSET Waiters
  BY <1>2, <1>3, <1>4, SMTT(60) DEF Waiting, Awake
<1>8. /\ Cardinality(Awake(s)) \in Nat /\ Cardinality(Awake(s)') \in Nat
      /\ Cardinality(Awake(s)) <= Cardinality(Awake(s)')
  <2>1. Awake(s) \in SUBSET Waiters
    BY DEF Awake
  <2> QED
    BY <1>7, <2>1, WaitersFinite, FS_Subset
<1>9. Asleep(s)' # {} => sem[s].count <= Cardinality(Awake(s)')
  <2>1. CASE Asleep(s) # {}
    <3>1. sem[s].count <= Cardinality(Awake(s))
      BY <1>1, <1>2, <2>1 DEF Sound
    <3> QED
      BY <1>2, <1>8, <3>1, SMTT(60)
  <2>2. CASE Asleep(s) = {} /\ Asleep(s)' # {}
    <3>1. at[w].pc = "futex" /\ sem[s].futx = 0
      BY <1>2, <1>3, <1>4, <2>2 DEF Asleep
    <3>2. w \in Waiting(s)
      BY <1>2, <3>1 DEF Waiting
    <3>3. sem[s].count = 0
      BY <1>1, <1>2, <3>1, <3>2 DEF Sound
    <3> QED
      BY <1>8, <3>3, SMTT(60)
  <2> QED
    BY <2>1, <2>2
<1>10. Sound(s)'
  <2>1. Sound(s)
    BY <1>1, <1>2
  <2> QED
    BY <1>2, <1>7, <1>9, <2>1 DEF Sound
<1> QED
  BY <1>5, <1>6, <1>10, SemInvSound

\* signal() adds one to the counter and wakes one thread, if one waits.
LEMMA SignalSound ==
  ASSUME SemInv, NEW s \in Sems, Signal(s)
  PROVE  SemInv'
<1>1. SemTypeOK /\ \A c \in Sems : Sound(c)
  BY SemInvSound
<1>2. sem[s] \in [count : Nat, numWaiting : Nat, futx : {0, 1}]
  BY <1>1 DEF SemTypeOK
<1>3. Waiting(s) \in SUBSET Waiters /\ Awake(s) \in SUBSET Waiters /\ Asleep(s) \subseteq Waiting(s)
  BY DEF Waiting, Awake, Asleep
<1>4. CASE sem[s].numWaiting > 0
  <2>0. sem[s].count + 1 \in Nat
    BY <1>2, SMTT(60)
  <2>1. /\ sem' = [sem EXCEPT ![s] = [count |-> sem[s].count + 1, numWaiting |-> sem[s].numWaiting, futx |-> 1]]
        /\ WakeOne(s)
    BY <1>4 DEF Signal
  <2>2. /\ sem'[s].count = sem[s].count + 1 /\ sem'[s].futx = 1
        /\ sem'[s].numWaiting = sem[s].numWaiting
        /\ \A c \in Sems : c # s => sem'[c] = sem[c]
        /\ sem' \in [Sems -> [count : Nat, numWaiting : Nat, futx : {0, 1}]]
    BY <1>1, <1>2, <2>0, <2>1 DEF SemTypeOK
  <2>3. CASE Asleep(s) = {} /\ at' = at
    <3>1. SemTypeOK'
      BY <1>1, <2>2, <2>3 DEF SemTypeOK
    <3>2. Waiting(s)' = Waiting(s) /\ Asleep(s)' = {}
      BY <2>3 DEF Waiting, Asleep
    <3>3. Sound(s)'
      <4>1. Sound(s) /\ sem'[s].futx # 0
        BY <1>1, <2>2, SMTT(60)
      <4> QED
        BY <2>2, <3>2, <4>1 DEF Sound
    <3>4. \A c \in Sems : c # s => Sound(c)'
      BY <1>1, <2>2, <2>3, SoundKept
    <3> QED
      BY <3>1, <3>3, <3>4, SemInvSound
  <2>4. ASSUME NEW w \in Asleep(s), at' = [at EXCEPT ![w].pc = "woken"]
        PROVE  SemInv'
    <3>1. w \in Waiters /\ at[w].on = s /\ at[w].pc = "sleep"
      BY DEF Asleep
    <3>2. /\ at'[w].on = s /\ at'[w].pc = "woken"
          /\ \A v \in Waiters : v # w => at'[v] = at[v]
      BY <1>1, <2>4, <3>1 DEF SemTypeOK
    <3>3. SemTypeOK'
      BY <1>1, <2>2, <2>4 DEF SemTypeOK, Stages
    <3>4. /\ Waiting(s)' = Waiting(s) /\ Awake(s)' \in SUBSET Waiters
          /\ Awake(s) \cup {w} \subseteq Awake(s)' /\ w \notin Awake(s)
      BY <2>2, <3>1, <3>2, SMTT(60) DEF Waiting, Awake
    <3>5. sem[s].count + 1 <= Cardinality(Awake(s)')
      <4>1. /\ Cardinality(Awake(s) \cup {w}) = Cardinality(Awake(s)) + 1
            /\ Cardinality(Awake(s)) \in Nat
        BY <1>3, <3>4, WaitersFinite, FS_AddElement
      <4>2. /\ Cardinality(Awake(s) \cup {w}) <= Cardinality(Awake(s)')
            /\ Cardinality(Awake(s)') \in Nat
        BY <3>4, WaitersFinite, FS_Subset
      <4>3. sem[s].count <= Cardinality(Awake(s))
        BY <1>1 DEF Sound
      <4> QED
        BY <1>2, <4>1, <4>2, <4>3, SMTT(60)
    <3>6. Sound(s)'
      <4>1. Sound(s) /\ sem'[s].futx # 0
        BY <1>1, <2>2, SMTT(60)
      <4> QED
        BY <2>2, <3>4, <3>5, <4>1 DEF Sound
    <3>7. \A c \in Sems : c # s => Sound(c)'
      BY <1>1, <2>2, <3>1, <3>2, SoundKept DEF Absent
    <3> QED
      BY <3>3, <3>6, <3>7, SemInvSound
  <2> QED
    BY <2>1, <2>3, <2>4 DEF WakeOne
<1>5. CASE ~(sem[s].numWaiting > 0)
  <2>1. sem' = [sem EXCEPT ![s].count = @ + 1] /\ at' = at
    BY <1>5 DEF Signal
  <2>2. SemTypeOK'
    BY <1>1, <2>1, SMTT(60) DEF SemTypeOK
  <2>3. /\ sem'[s].numWaiting = sem[s].numWaiting /\ sem[s].numWaiting = 0
        /\ \A c \in Sems : c # s => sem'[c] = sem[c]
    BY <1>1, <1>2, <1>5, <2>1, SMTT(60) DEF SemTypeOK
  <2>4. Waiting(s) = {}
    <3>1. Cardinality(Waiting(s)) = 0 /\ IsFiniteSet(Waiting(s))
      BY <1>1, <1>3, <2>3, WaitersFinite DEF Sound
    <3> QED
      BY <3>1, FS_EmptySet
  <2>5. Waiting(s)' = Waiting(s) /\ Asleep(s)' = {}
    BY <1>3, <2>1, <2>4 DEF Waiting, Asleep
  <2>6. Sound(s)'
    <3>1. Sound(s)
      BY <1>1
    <3> QED
      BY <2>3, <2>4, <2>5, <3>1 DEF Sound
  <2>7. \A c \in Sems : c # s => Sound(c)'
    BY <1>1, <2>1, <2>3, SoundKept
  <2> QED
    BY <2>2, <2>6, <2>7, SemInvSound
<1> QED
  BY <1>4, <1>5

\* The invariant holds of new semaphores.
LEMMA SemInitInv == SemInit => SemInv
<1> SUFFICES ASSUME SemInit PROVE SemInv
  OBVIOUS
<1>1. SemTypeOK
  BY DEF SemInit, SemTypeOK, NewSemaphore, Stages
<1>2. \A s \in Sems : Waiting(s) = {} /\ Asleep(s) = {}
  BY DEF SemInit, Waiting, Asleep
<1>3. \A s \in Sems : sem[s].numWaiting = 0
  BY DEF SemInit, NewSemaphore
<1> QED
  BY <1>1, <1>2, <1>3, FS_EmptySet DEF SemInv, WaitersCounted, SleepsAtZero, NoLostWakeup

\* Every step of wait() and signal() keeps the invariant.
LEMMA SemStepInv == SemInv /\ [SemNext]_semVars => SemInv'
<1> SUFFICES ASSUME SemInv, [SemNext]_semVars PROVE SemInv'
  OBVIOUS
<1>1. CASE UNCHANGED semVars
  <2>1. SemTypeOK'
    BY <1>1 DEF SemInv, SemTypeOK, semVars
  <2>2. \A s \in Sems : Sound(s)'
    BY <1>1, SemInvSound, SoundKept DEF semVars
  <2> QED
    BY <2>1, <2>2, SemInvSound
<1>2. CASE SemNext
  BY <1>2, CallSound, TestSound, MoveSound, SignalSound DEF SemNext
<1> QED
  BY <1>1, <1>2

\* The inductive invariant of Semaphore::wait and signal holds: the counter of
\* waiting threads is exact, nobody sleeps past a signal and no wake-up is lost.
THEOREM SemInvHolds == SemSpec => []SemInv
  BY SemInitInv, SemStepInv, PTL DEF SemSpec

\* The counters of a semaphore stay natural numbers: no wait() takes a signal
\* that is not there and no thread is counted out that was not counted in.
THEOREM SemTypeOKHolds == SemSpec => []SemTypeOK
<1>1. SemInv => SemTypeOK
  BY DEF SemInv
<1> QED
  BY <1>1, SemInvHolds, PTL

\* No wake-up of a semaphore is lost, whatever the threads that use it do.
THEOREM NoLostWakeupHolds == SemSpec => []NoLostWakeup
<1>1. SemInv => NoLostWakeup
  BY DEF SemInv
<1> QED
  BY <1>1, SemInvHolds, PTL

\* The state functions that Abstract is instantiated with.
Count == [s \in Sems |-> sem[s].count]
StageOf(pc) == CASE pc = "out" -> "out" [] pc = "passed" -> "passed" [] OTHER -> "in"
Stage == [w \in Waiters |-> StageOf(at[w].pc)]
On == [w \in Waiters |-> at[w].on]

\* A move of one thread that is still, or again, inside wait().
LEMMA InsideStutters ==
  ASSUME SemTypeOK, NEW w \in Waiters, NEW p \in {"lock", "futex", "sleep", "woken"},
         at[w].pc \notin {"out", "passed"}, at' = [at EXCEPT ![w].pc = p]
  PROVE  Stage' = Stage /\ On' = On
<1>1. /\ at'[w].on = at[w].on /\ at'[w].pc = p
      /\ \A v \in Waiters : v # w => at'[v] = at[v]
  BY DEF SemTypeOK
<1>2. \A v \in Waiters : StageOf(at'[v].pc) = StageOf(at[v].pc) /\ at'[v].on = at[v].on
  BY <1>1 DEF StageOf
<1> QED
  BY <1>2 DEF Stage, On

\* A test of the counter in wait() is the abstract Pass, or nothing.
LEMMA TestImplements ==
  ASSUME SemTypeOK, NEW w \in Waiters, Test(w)
  PROVE  Abstract!Pass(w) \/ (Count' = Count /\ Stage' = Stage /\ On' = On)
<1>0. PICK s \in Sems : s = at[w].on
  BY DEF SemTypeOK
<1>1. /\ at[w].on = s /\ at[w].pc \in {"lock", "woken"}
      /\ sem[s] \in [count : Nat, numWaiting : Nat, futx : {0, 1}]
  BY <1>0 DEF SemTypeOK, Test
<1>2. CASE sem[s].count <= 0
  <2>1. /\ at' = [at EXCEPT ![w].pc = "futex"]
        /\ \E n : sem' = [sem EXCEPT ![s] = [count |-> sem[s].count, numWaiting |-> n, futx |-> 0]]
    BY <1>1, <1>2 DEF Test
  <2>2. \A c \in Sems : sem'[c].count = sem[c].count
    BY <2>1, SMTT(60) DEF SemTypeOK
  <2>3. Count' = Count
    BY <2>2 DEF Count
  <2>4. at[w].pc \notin {"out", "passed"}
    BY <1>1
  <2> QED
    BY <2>1, <2>3, <2>4, InsideStutters
<1>3. CASE ~(sem[s].count <= 0)
  <2>1. /\ at' = [at EXCEPT ![w].pc = "passed"]
        /\ \E n : sem' = [sem EXCEPT ![s] = [count |-> sem[s].count - 1, numWaiting |-> n, futx |-> sem[s].futx]]
    BY <1>1, <1>3 DEF Test
  <2>2. /\ sem'[s].count = sem[s].count - 1
        /\ \A c \in Sems : c # s => sem'[c].count = sem[c].count
    BY <2>1, SMTT(60) DEF SemTypeOK
  <2>3. Count' = [Count EXCEPT ![s] = @ - 1] /\ Count[s] > 0
    <3>1. Count[s] = sem[s].count /\ sem[s].count > 0
      BY <1>1, <1>3, SMTT(60) DEF Count
    <3>2. \A c \in Sems : Count'[c] = [Count EXCEPT ![s] = @ - 1][c]
      BY <2>2 DEF Count
    <3> QED
      BY <3>1, <3>2 DEF Count
  <2>4. /\ at'[w].on = s /\ at'[w].pc = "passed"
        /\ \A v \in Waiters : v # w => at'[v] = at[v]
    BY <1>1, <2>1, SMTT(60) DEF SemTypeOK
  <2>5. Stage[w] = "in" /\ Stage' = [Stage EXCEPT ![w] = "passed"]
    BY <1>1, <2>4 DEF Stage, StageOf
  <2>6. On[w] = s /\ On' = On
    BY <1>1, <2>4 DEF On
  <2> QED
    BY <2>3, <2>5, <2>6 DEF Abstract!Pass, Count, Stage, StageOf, On
<1> QED
  BY <1>2, <1>3

\* signal() is the abstract Signal, whomever it wakes.
LEMMA SignalImplements ==
  ASSUME SemTypeOK, NEW s \in Sems, Signal(s)
  PROVE  Abstract!Signal(s)
<1>1. /\ sem'[s].count = sem[s].count + 1
      /\ \A c \in Sems : c # s => sem'[c].count = sem[c].count
  BY SMTT(60) DEF SemTypeOK, Signal
<1>2. Count' = [Count EXCEPT ![s] = @ + 1]
  BY <1>1 DEF Count
<1>3. Stage' = Stage /\ On' = On
  <2>1. CASE at' = at
    BY <2>1 DEF Stage, On
  <2>2. ASSUME NEW w \in Asleep(s), at' = [at EXCEPT ![w].pc = "woken"]
        PROVE  Stage' = Stage /\ On' = On
    <3>1. w \in Waiters /\ at[w].pc \notin {"out", "passed"}
      BY DEF Asleep
    <3> QED
      BY <2>2, <3>1, InsideStutters
  <2> QED
    BY <2>1, <2>2 DEF Signal, WakeOne
<1> QED
  BY <1>2, <1>3 DEF Abstract!Signal, Count, Stage, StageOf, On

\* The futex algorithm implements the counting semaphore: a test of the
\* counter that succeeds is the abstract Pass, one that fails and everything
\* that happens in the kernel are stuttering steps.
THEOREM Implements == SemSpec => CountingSemaphore
<1>1. SemInit => Abstract!Init
  BY SMTT(60) DEF SemInit, Abstract!Init, NewSemaphore
<1>2. SemTypeOK /\ [SemNext]_semVars => [Abstract!Next]_(Abstract!avars)
  <2> SUFFICES ASSUME SemTypeOK, [SemNext]_semVars
               PROVE  [Abstract!Next]_(Abstract!avars)
    OBVIOUS
  <2>1. ASSUME Count' = Count, Stage' = Stage, On' = On
        PROVE  UNCHANGED Abstract!avars
    BY <2>1 DEF Abstract!avars, Count, Stage, StageOf, On
  <2>2. CASE UNCHANGED semVars
    BY <2>2 DEF semVars, Abstract!avars
  <2>3. ASSUME NEW w \in Waiters, NEW s \in Sems, Call(w, s)
        PROVE  Abstract!Call(w, s)
    <3>1. /\ at[w].pc = "out" /\ at'[w].pc = "lock" /\ at'[w].on = s /\ sem' = sem
          /\ \A v \in Waiters : v # w => at'[v] = at[v]
      BY <2>3 DEF Call, SemTypeOK
    <3>2. Stage[w] = "out" /\ Stage' = [Stage EXCEPT ![w] = "in"]
      BY <3>1 DEF Stage, StageOf
    <3>3. On' = [On EXCEPT ![w] = s] /\ Count' = Count
      BY <3>1 DEF On, Count
    <3> QED
      BY <3>2, <3>3 DEF Abstract!Call, Count, Stage, StageOf, On
  <2>4. ASSUME NEW w \in Waiters, FutexWait(w) \/ Interrupted(w)
        PROVE  UNCHANGED Abstract!avars
    <3>1. PICK p \in {"lock", "futex", "sleep", "woken"} :
               at[w].pc \notin {"out", "passed"} /\ at' = [at EXCEPT ![w].pc = p] /\ sem' = sem
      BY <2>4 DEF FutexWait, Interrupted
    <3>2. Stage' = Stage /\ On' = On /\ Count' = Count
      BY <3>1, InsideStutters DEF Count
    <3> QED
      BY <2>1, <3>2
  <2>5. ASSUME NEW w \in Waiters, Return(w)
        PROVE  Abstract!Return(w)
    <3>1. /\ at[w].pc = "passed" /\ at'[w].pc = "out" /\ at'[w].on = at[w].on /\ sem' = sem
          /\ \A v \in Waiters : v # w => at'[v] = at[v]
      BY <2>5 DEF Return, SemTypeOK
    <3>2. Stage[w] = "passed" /\ Stage' = [Stage EXCEPT ![w] = "out"]
      BY <3>1 DEF Stage, StageOf
    <3>3. On' = On /\ Count' = Count
      BY <3>1 DEF On, Count
    <3> QED
      BY <3>2, <3>3 DEF Abstract!Return, Count, Stage, StageOf, On
  <2>6. ASSUME NEW w \in Waiters, Test(w)
        PROVE  [Abstract!Next]_(Abstract!avars)
    BY <2>1, <2>6, TestImplements DEF Abstract!Next
  <2>7. ASSUME NEW s \in Sems, Signal(s)
        PROVE  Abstract!Next
    BY <2>7, SignalImplements DEF Abstract!Next
  <2> QED
    BY <2>2, <2>3, <2>4, <2>5, <2>6, <2>7 DEF SemNext, Abstract!Next
<1>3. SemInv => SemTypeOK
  BY DEF SemInv
<1> QED
  BY <1>1, <1>2, <1>3, SemInvHolds, PTL DEF SemSpec, CountingSemaphore, Abstract!Spec

-----------------------------------------------------------------------------
(* The socket transport *)

\* The threads of the transport are different, and so are its semaphores.
LEMMA Distinct ==
  /\ \A n \in Nodes : Reader(n) \in Waiters /\ n \in Sems /\ n # NULL
  /\ \A p \in Procs : /\ Main(p) \in Waiters /\ BarrierSem(p) \in Sems
                      /\ BarrierSem(p) \notin Nodes /\ BarrierSem(p) # NULL
                      /\ TerminateTag(p) \notin Nodes /\ Update(p) \in Threads
                      /\ Main(p) \in Threads /\ RingNext(p) \in Procs
  /\ \A n \in Nodes, p \in Procs : Reader(n) # Main(p)
  /\ \A n, m \in Nodes : Reader(n) = Reader(m) => n = m
  /\ NULL \notin Nodes /\ Sems = AllSems /\ Waiters = AllWaiters /\ 0 \in Procs
<1>1. \A p \in Procs : RingNext(p) \in Procs /\ 0 \in Procs
  BY SockAssumption, SMTT(60) DEF RingNext, Procs
<1>2. 0 \in Procs
  BY SockAssumption, SMTT(60) DEF Procs
<1> QED
  BY <1>1, <1>2, SockAssumption
  DEF AllSems, AllWaiters, Threads, Reader, Main, Update, BarrierSem

\* The threads are finitely many, so the ones that owe a signal can be counted.
LEMMA ThreadsFinite == IsFiniteSet(Threads)
<1>1. IsFiniteSet(Procs)
  BY FS_Interval, SockAssumption, SMTT(60) DEF Procs
<1> DEFINE f == [p \in Procs |-> Update(p)]
<1>2. f \in Surjection(Procs, {Update(p) : p \in Procs})
  BY DEF Surjection
<1>3. IsFiniteSet({Update(p) : p \in Procs})
  BY <1>1, <1>2, FS_Surjection
<1> QED
  BY <1>3, WaitersAssumption, SockAssumption, FS_Union DEF Threads

\* Owing(s) is finite.
LEMMA OwingFinite ==
  ASSUME NEW s
  PROVE  /\ IsFiniteSet(Owing(s)) /\ Cardinality(Owing(s)) \in Nat
         /\ IsFiniteSet(Owing(s)') /\ Cardinality(Owing(s)') \in Nat
<1>1. Owing(s) \in SUBSET Threads /\ Owing(s)' \in SUBSET Threads
  BY DEF Owing
<1> QED
  BY <1>1, ThreadsFinite, FS_Subset, FS_CardinalityType

\* A thread that puts a buffer into a list, or takes a barrier packet, owes one
\* signal more; the other semaphores are owed what they were.
LEMMA OwingAdds ==
  ASSUME NEW th \in Threads, NEW s \in AllSems, owes \in [Threads -> AllSems \cup {NULL}],
         owes[th] = NULL, owes' = [owes EXCEPT ![th] = s]
  PROVE  /\ Cardinality(Owing(s)') = Cardinality(Owing(s)) + 1
         /\ \A r \in AllSems : r # s => Owing(r)' = Owing(r)
<1>1. NULL \notin AllSems
  BY SockAssumption
<1>2. Owing(s)' = Owing(s) \cup {th} /\ th \notin Owing(s)
  BY <1>1 DEF Owing
<1>3. \A r \in AllSems : r # s => Owing(r)' = Owing(r)
  BY <1>1 DEF Owing
<1> QED
  BY <1>2, <1>3, OwingFinite, FS_AddElement

\* SignalSem pays one signal.
LEMMA OwingPays ==
  ASSUME NEW th \in Threads, NEW s \in AllSems, owes \in [Threads -> AllSems \cup {NULL}],
         owes[th] = s, owes' = [owes EXCEPT ![th] = NULL]
  PROVE  /\ Cardinality(Owing(s)') = Cardinality(Owing(s)) - 1
         /\ \A r \in AllSems : r # s => Owing(r)' = Owing(r)
<1>1. NULL \notin AllSems
  BY SockAssumption
<1>2. Owing(s)' = Owing(s) \ {th} /\ th \in Owing(s)
  BY <1>1 DEF Owing
<1>3. \A r \in AllSems : r # s => Owing(r)' = Owing(r)
  BY <1>1 DEF Owing
<1> QED
  BY <1>2, <1>3, OwingFinite, FS_RemoveElement

\* The reader of a node, if it has been let in.
LetIn(n) == IF at[Reader(n)].pc = "passed" THEN 1 ELSE 0

\* ListCounted for one node.
Counted(n) == Len(list[n]) = sem[n].count + LetIn(n) + Cardinality(Owing(n))

\* Only its own reader waits on the semaphore of a node.
LEMMA PassedIsReader ==
  ASSUME OwnSemaphores, NEW n \in Nodes
  PROVE  Cardinality(Passed(n)) = LetIn(n)
<1>1. \A w \in Waiters : at[w].on = n => w = Reader(n)
  BY Distinct, SMTT(60) DEF OwnSemaphores, AllWaiters
<1>2. Passed(n) = IF at[Reader(n)].pc = "passed" THEN {Reader(n)} ELSE {}
  BY <1>1, Distinct DEF Passed, OwnSemaphores
<1> QED
  BY <1>2, FS_EmptySet, FS_Singleton DEF LetIn

\* With that, ListCounted is Counted of every node.
LEMMA ListCountedSplits == OwnSemaphores => (ListCounted <=> \A n \in Nodes : Counted(n))
  BY PassedIsReader DEF ListCounted, Counted

-----------------------------------------------------------------------------
\* Every step of the transport is a step of its semaphores, or leaves them alone.
LEMMA IsSemStep == SockTypeOK /\ [Next]_vars => [SemNext]_semVars
<1> SUFFICES ASSUME SockTypeOK, [Next]_vars PROVE [SemNext]_semVars
  OBVIOUS
<1> USE Distinct
<1>1. CASE UNCHANGED vars
  BY <1>1 DEF vars, semVars
<1>2. ASSUME NEW p \in Procs, UpdateStep(p) PROVE [SemNext]_semVars
  <2>1. ASSUME SignalSem(Update(p)) PROVE SemNext
    BY <2>1 DEF SignalSem, SemNext, SockTypeOK
  <2> QED
    BY <1>2, <2>1 DEF UpdateStep, UpdateBufferLists, UpdateExits, semVars
<1>3. ASSUME NEW p \in Procs, MainStep(p) PROVE [SemNext]_semVars
  <2>1. ASSUME SignalSem(Main(p)) PROVE SemNext
    BY <2>1 DEF SignalSem, SemNext, SockTypeOK
  <2>2. ASSUME SemStep(Main(p)) PROVE SemNext
    BY <2>2 DEF SemStep, SemNext
  <2>3. ASSUME BarrierEnters(p) PROVE [SemNext]_semVars
    BY <2>3 DEF BarrierEnters, SemNext, semVars
  <2>4. ASSUME BarrierForwards(p) \/ BarrierLeaves(p) PROVE SemNext
    BY <2>4 DEF BarrierForwards, BarrierLeaves, SemNext
  <2>5. ASSUME BarrierWaits(p) PROVE SemNext
    BY <2>5 DEF BarrierWaits, SemNext
  <2>6. ASSUME TerminateUpdateThread(p) \/ Terminated(p) PROVE UNCHANGED semVars
    BY <2>6 DEF TerminateUpdateThread, Terminated
  <2> QED
    BY <1>3, <2>1, <2>2, <2>3, <2>4, <2>5, <2>6 DEF MainStep
<1>4. ASSUME NEW p \in Procs, NEW n \in Nodes, Send(p, n) PROVE UNCHANGED semVars
  BY <1>4 DEF Send
<1>5. ASSUME NEW n \in Nodes, ReaderStep(n) PROVE SemNext
  BY <1>5 DEF ReaderStep, RecvWaits, RecvTakes, SemStep, SemNext
<1>6. ASSUME NEW w \in Waiters, SemInterrupted(w) PROVE SemNext
  BY <1>6 DEF SemInterrupted, SemNext
<1> QED
  BY <1>1, <1>2, <1>3, <1>4, <1>5, <1>6 DEF Next

\* A step within wait(), or a signal, leaves every thread at its semaphore.
LEMMA SemStepKeeps ==
  ASSUME SemTypeOK, NEW w \in Waiters, NEW s \in Sems,
         Test(w) \/ FutexWait(w) \/ Interrupted(w) \/ Return(w) \/ Signal(s)
  PROVE  \A v \in Waiters : at'[v].on = at[v].on
<1>1. CASE Test(w) \/ FutexWait(w) \/ Interrupted(w) \/ Return(w)
  <2>1. \E pc : at' = [at EXCEPT ![w].pc = pc]
    BY <1>1 DEF Test, FutexWait, Interrupted, Return
  <2> QED
    BY <2>1, SMTT(60) DEF SemTypeOK
<1>2. CASE Signal(s)
  BY <1>2, SMTT(60) DEF Signal, WakeOne, Asleep, SemTypeOK
<1> QED
  BY <1>1, <1>2

\* A semaphore's own counter moves by a signal or a test only.
LEMMA SignalCounts ==
  ASSUME SemTypeOK, NEW s \in Sems, Signal(s)
  PROVE  /\ sem'[s].count = sem[s].count + 1
         /\ \A r \in Sems : r # s => sem'[r] = sem[r]
         /\ \A v \in Waiters : at'[v].pc = "passed" <=> at[v].pc = "passed"
<1>1. \A v \in Waiters : at'[v].pc = "passed" <=> at[v].pc = "passed"
  BY DEF Signal, WakeOne, Asleep, SemTypeOK
<1> QED
  BY <1>1, SMTT(60) DEF Signal, SemTypeOK

\* wait() lets a thread in for one of the signals of its semaphore.
LEMMA TestCounts ==
  ASSUME SemTypeOK, NEW w \in Waiters, Test(w)
  PROVE  /\ \A r \in Sems : r # at[w].on => sem'[r] = sem[r]
         /\ \A v \in Waiters : v # w => at'[v] = at[v]
         /\ at[w].pc # "passed"
         /\ \/ at'[w].pc # "passed" /\ sem'[at[w].on].count = sem[at[w].on].count
            \/ at'[w].pc = "passed" /\ sem'[at[w].on].count = sem[at[w].on].count - 1
  BY SMTT(60) DEF Test, SemTypeOK

\* A thread waits on its own semaphore only.
LEMMA OwnKept == SemTypeOK /\ SockTypeOK /\ OwnSemaphores /\ [Next]_vars => OwnSemaphores'
<1> SUFFICES ASSUME SemTypeOK, SockTypeOK, OwnSemaphores, [Next]_vars PROVE OwnSemaphores'
  OBVIOUS
<1> USE Distinct
<1> DEFINE Same == \A v \in Waiters : at'[v].on = at[v].on
<1>1. ASSUME Same PROVE OwnSemaphores'
  BY <1>1 DEF OwnSemaphores
<1>2. ASSUME NEW w \in Waiters, Call(w, at[w].on) PROVE Same
  BY <1>2 DEF Call, SemTypeOK
<1>3. ASSUME NEW th \in Threads, SignalSem(th) PROVE Same
  <2>1. owes[th] \in Sems
    BY <1>3 DEF SignalSem, SockTypeOK
  <2>2. PICK n : n \in Waiters \/ Waiters = {}
    OBVIOUS
  <2> QED
    BY <1>3, <2>1, <2>2, SemStepKeeps DEF SignalSem
<1>4. ASSUME NEW w \in Waiters, Test(w) \/ FutexWait(w) \/ Interrupted(w) \/ Return(w) PROVE Same
  <2>1. at[w].on \in Sems
    BY DEF SemTypeOK
  <2> QED
    BY <1>4, <2>1, SemStepKeeps
<1>5. CASE UNCHANGED at
  BY <1>1, <1>5
<1>6. ASSUME NEW p \in Procs, UpdateStep(p) PROVE OwnSemaphores'
  BY <1>6, <1>1, <1>3, <1>5 DEF UpdateStep, UpdateBufferLists, UpdateExits, semVars
<1>7. ASSUME NEW p \in Procs, MainStep(p) PROVE OwnSemaphores'
  <2>1. at[Main(p)].on = BarrierSem(p)
    BY DEF OwnSemaphores
  <2>2. ASSUME BarrierEnters(p) PROVE OwnSemaphores'
    BY <2>1, <2>2, <1>1, <1>2, <1>5 DEF BarrierEnters, semVars
  <2>3. ASSUME BarrierWaits(p) PROVE OwnSemaphores'
    BY <2>1, <2>3, <1>1, <1>2 DEF BarrierWaits
  <2>4. ASSUME BarrierForwards(p) \/ BarrierLeaves(p) PROVE OwnSemaphores'
    BY <2>4, <1>1, <1>4 DEF BarrierForwards, BarrierLeaves
  <2>5. ASSUME TerminateUpdateThread(p) \/ Terminated(p) PROVE OwnSemaphores'
    BY <2>5, <1>5 DEF TerminateUpdateThread, Terminated, semVars
  <2>6. ASSUME SemStep(Main(p)) \/ SignalSem(Main(p)) PROVE OwnSemaphores'
    BY <2>6, <1>1, <1>3, <1>4 DEF SemStep
  <2> QED
    BY <1>7, <2>2, <2>3, <2>4, <2>5, <2>6 DEF MainStep
<1>8. ASSUME NEW p \in Procs, NEW n \in Nodes, Send(p, n) PROVE OwnSemaphores'
  BY <1>8, <1>5 DEF Send, semVars
<1>9. ASSUME NEW n \in Nodes, ReaderStep(n) PROVE OwnSemaphores'
  <2>1. at[Reader(n)].on = n
    BY DEF OwnSemaphores
  <2> QED
    BY <2>1, <1>9, <1>1, <1>2, <1>4 DEF ReaderStep, RecvWaits, RecvTakes, SemStep
<1>10. ASSUME NEW w \in Waiters, SemInterrupted(w) PROVE OwnSemaphores'
  BY <1>10, <1>1, <1>4 DEF SemInterrupted
<1> QED
  BY <1>5, <1>6, <1>7, <1>8, <1>9, <1>10 DEF Next, vars

\* A packet for process q appended to what a socket of q holds, or one taken
\* from it, leaves packets for q.
LEMMA ForProcKept ==
  ASSUME NEW q \in Procs, NEW pkts, ForProc(q, pkts)
  PROVE  /\ \A pkt \in Packets : pkt.tag \in TagsTo(q) => ForProc(q, Append(pkts, pkt))
         /\ pkts # << >> => /\ ForProc(q, Tail(pkts))
                            /\ Head(pkts) \in Packets /\ Head(pkts).tag \in TagsTo(q)
<1>1. ASSUME NEW pkt \in Packets, pkt.tag \in TagsTo(q)
      PROVE  ForProc(q, Append(pkts, pkt))
  <2>1. Append(pkts, pkt) \in Seq(Packets)
    BY SMTT(60) DEF ForProc
  <2>2. ASSUME NEW k \in DOMAIN Append(pkts, pkt) PROVE Append(pkts, pkt)[k].tag \in TagsTo(q)
    <3>1. (k \in DOMAIN pkts /\ Append(pkts, pkt)[k] = pkts[k]) \/ Append(pkts, pkt)[k] = pkt
      BY <2>2, SMTT(60) DEF ForProc
    <3> QED
      BY <3>1, <1>1 DEF ForProc
  <2> QED
    BY <2>1, <2>2 DEF ForProc
<1>2. ASSUME pkts # << >>
      PROVE  ForProc(q, Tail(pkts)) /\ Head(pkts) \in Packets /\ Head(pkts).tag \in TagsTo(q)
  <2>1. Tail(pkts) \in Seq(Packets) /\ 1 \in DOMAIN pkts /\ Head(pkts) = pkts[1]
    BY <1>2, SMTT(60) DEF ForProc
  <2>2. ASSUME NEW k \in DOMAIN Tail(pkts) PROVE Tail(pkts)[k].tag \in TagsTo(q)
    <3>1. k + 1 \in DOMAIN pkts /\ Tail(pkts)[k] = pkts[k + 1]
      BY <2>2, <1>2, SMTT(60) DEF ForProc
    <3> QED
      BY <3>1 DEF ForProc
  <2>3. pkts[1] \in Packets
    BY <2>1, SMTT(60) DEF ForProc
  <2> QED
    BY <2>1, <2>2, <2>3 DEF ForProc
<1> QED
  BY <1>1, <1>2

\* What the transport sends to process q is a packet for q.
LEMMA PacketOK ==
  ASSUME NEW p \in Procs, NEW q \in Procs, NEW tag \in TagsTo(q), NEW msg \in Nat \cup {NULL}
  PROVE  Packet(p, tag, msg) \in Packets /\ Packet(p, tag, msg).tag = tag
<1>1. tag \in UNION {TagsTo(i) : i \in Procs}
  OBVIOUS
<1> QED
  BY <1>1 DEF Packet, Packets

\* A step on one socket.
LEMMA SockOKKept ==
  ASSUME SockOK, NEW i \in Procs, NEW q \in Procs, NEW pkts, ForProc(q, pkts),
         sock' = [sock EXCEPT ![i][q] = pkts]
  PROVE  SockOK'
<1>1. pkts \in Seq(Packets)
  BY DEF ForProc
<1>2. sock' \in [Procs -> [Procs -> Seq(Packets)]]
  BY <1>1 DEF SockOK
<1>3. ASSUME NEW j \in Procs, NEW r \in Procs PROVE ForProc(r, sock'[j][r])
  <2>1. sock'[j][r] = IF j = i /\ r = q THEN pkts ELSE sock[j][r]
    BY DEF SockOK
  <2> QED
    BY <2>1 DEF SockOK
<1> QED
  BY <1>2, <1>3 DEF SockOK, ForProc

\* The record of a main thread keeps its type when one of its counters goes on.
LEMMA MainFields ==
  ASSUME NEW m \in Mains
  PROVE  /\ [m EXCEPT !.sent = @ + 1] \in Mains
         /\ \A pc \in MainPcs : /\ [m EXCEPT !.pc = pc] \in Mains
                               /\ [m EXCEPT !.pc = pc, !.entered = @ + 1] \in Mains
                               /\ [m EXCEPT !.pc = pc, !.left = @ + 1] \in Mains
<1>1. [m EXCEPT !.sent = @ + 1] \in Mains
  BY SMTT(60) DEF Mains
<1>2. ASSUME NEW pc \in MainPcs PROVE [m EXCEPT !.pc = pc] \in Mains
  BY DEF Mains
<1>3. ASSUME NEW pc \in MainPcs PROVE [m EXCEPT !.pc = pc, !.entered = @ + 1] \in Mains
  <2>1. ASSUME NEW x \in Mains PROVE [x EXCEPT !.entered = @ + 1] \in Mains
    BY SMTT(60) DEF Mains
  <2>2. [m EXCEPT !.pc = pc, !.entered = @ + 1] = [[m EXCEPT !.pc = pc] EXCEPT !.entered = @ + 1]
    BY DEF Mains
  <2> QED
    BY <1>2, <2>1, <2>2
<1>4. ASSUME NEW pc \in MainPcs PROVE [m EXCEPT !.pc = pc, !.left = @ + 1] \in Mains
  <2>1. ASSUME NEW x \in Mains PROVE [x EXCEPT !.left = @ + 1] \in Mains
    BY SMTT(60) DEF Mains
  <2>2. [m EXCEPT !.pc = pc, !.left = @ + 1] = [[m EXCEPT !.pc = pc] EXCEPT !.left = @ + 1]
    BY DEF Mains
  <2> QED
    BY <1>2, <2>1, <2>2
<1> QED
  BY <1>1, <1>2, <1>3, <1>4

\* The types are kept, provided that no reader is let in for an empty list.
LEMMA TypeKept ==
  ASSUME SockTypeOK, [Next]_vars,
         \A n \in Nodes : at[Reader(n)].pc = "passed" => list[n] # << >>
  PROVE  SockTypeOK'
<1> USE Distinct
<1> DEFINE Lists == list \in [Nodes -> Seq(Packets)]
           Owes == owes \in [Threads -> AllSems \cup {NULL}]
           MainOK == main \in [Procs -> Mains]
<1>0. SockOK /\ Lists /\ Owes /\ MainOK
  BY DEF SockTypeOK
<1>1. SockOK' /\ Lists' /\ Owes' /\ MainOK' => SockTypeOK'
  BY DEF SockTypeOK
<1>2. UNCHANGED sock => SockOK'
  BY <1>0 DEF SockOK, ForProc
<1>3. ASSUME NEW p \in Procs, NEW q \in Procs, NEW pkt \in Packets, pkt.tag \in TagsTo(q),
             sock' = [sock EXCEPT ![p][q] = Append(@, pkt)]
      PROVE  SockOK'
  <2>1. ForProc(q, Append(sock[p][q], pkt))
    BY <1>0, <1>3, ForProcKept DEF SockOK
  <2> QED
    BY <1>0, <1>3, <2>1, SockOKKept
<1>4. ASSUME NEW p \in Procs, NEW q \in Procs, NEW tag \in {BarrierSem(q), TerminateTag(q)},
             SendTag(p, q, tag)
      PROVE  SockOK' /\ Lists' /\ Owes'
  <2>1. Packet(p, tag, NULL) \in Packets /\ Packet(p, tag, NULL).tag \in TagsTo(q)
    BY PacketOK DEF TagsTo
  <2> QED
    BY <1>0, <1>3, <1>4, <2>1 DEF SendTag
<1>5. ASSUME NEW th \in Threads, NEW n \in Nodes, NEW pkt \in Packets, InsertInBufferList(th, n, pkt)
      PROVE  Lists' /\ Owes'
  <2>1. n \in AllSems
    OBVIOUS
  <2>2. Append(list[n], pkt) \in Seq(Packets)
    BY <1>0, SMTT(60)
  <2>3. Lists'
    BY <1>0, <1>5, <2>2 DEF InsertInBufferList
  <2>4. Owes'
    BY <1>0, <1>5, <2>1 DEF InsertInBufferList
  <2> QED
    BY <2>3, <2>4
<1>6. CASE UNCHANGED vars
  BY <1>0, <1>1, <1>2, <1>6 DEF vars
<1>7. ASSUME NEW p \in Procs, NEW i \in Procs, UpdateBufferLists(p, i) PROVE SockTypeOK'
  <2> DEFINE pkt == Head(sock[i][p])
  <2>1. sock[i][p] # << >> /\ sock' = [sock EXCEPT ![i][p] = Tail(@)] /\ UNCHANGED main
    BY <1>7 DEF UpdateBufferLists
  <2>2. ForProc(p, sock[i][p])
    BY <1>0 DEF SockOK
  <2>3. ForProc(p, Tail(sock[i][p])) /\ pkt \in Packets /\ pkt.tag \in TagsTo(p)
    BY <2>1, <2>2, ForProcKept
  <2>4. SockOK'
    BY <1>0, <2>1, <2>3, SockOKKept
  <2>5. Lists' /\ Owes'
    <3> HIDE DEF pkt
    <3>1. CASE pkt.tag = TerminateTag(p)
      BY <1>0, <1>7, <3>1 DEF UpdateBufferLists, pkt
    <3>2. CASE pkt.tag # TerminateTag(p) /\ pkt.tag = BarrierSem(p)
      <4>1. owes' = [owes EXCEPT ![Update(p)] = BarrierSem(p)] /\ UNCHANGED list
        BY <1>7, <3>2 DEF UpdateBufferLists, pkt
      <4> QED
        BY <1>0, <4>1
    <3>3. CASE pkt.tag # TerminateTag(p) /\ pkt.tag # BarrierSem(p)
      <4>1. pkt.tag \in Nodes /\ InsertInBufferList(Update(p), pkt.tag, pkt)
        BY <1>7, <2>3, <3>3 DEF UpdateBufferLists, pkt, TagsTo
      <4> QED
        BY <1>5, <2>3, <4>1
    <3> QED
      BY <3>1, <3>2, <3>3
  <2> QED
    BY <1>0, <1>1, <2>1, <2>4, <2>5
<1>8. ASSUME NEW th \in Threads, SignalSem(th) PROVE SockTypeOK'
  BY <1>0, <1>1, <1>2, <1>8 DEF SignalSem
<1>9. ASSUME UNCHANGED listVars, UNCHANGED main PROVE SockTypeOK'
  BY <1>0, <1>1, <1>2, <1>9 DEF listVars
<1>10. ASSUME NEW p \in Procs, NEW n \in Nodes, Send(p, n) PROVE SockTypeOK'
  <2> DEFINE pkt == Packet(p, n, main[p].sent + 1)
  <2>1. main[p].sent \in Nat /\ ProcOf[n] \in Procs
    BY <1>0, SockAssumption DEF Mains
  <2>2. pkt \in Packets /\ pkt.tag = n /\ n \in TagsTo(ProcOf[n])
    <3>1. n \in TagsTo(ProcOf[n])
      BY DEF TagsTo
    <3> QED
      BY <2>1, <3>1, PacketOK, SMTT(60)
  <2>3. MainOK'
    <3>1. main' = [main EXCEPT ![p].sent = @ + 1]
      BY <1>10 DEF Send
    <3>2. [main[p] EXCEPT !.sent = @ + 1] \in Mains
      BY <1>0, MainFields
    <3> QED
      BY <1>0, <3>1, <3>2
  <2> HIDE DEF pkt
  <2>4. CASE ProcOf[n] = p
    BY <1>0, <1>1, <1>2, <1>5, <1>10, <2>2, <2>3, <2>4 DEF Send, pkt
  <2>5. CASE ProcOf[n] # p
    <3>1. sock' = [sock EXCEPT ![p][ProcOf[n]] = Append(@, pkt)] /\ UNCHANGED <<list, owes>>
      BY <1>10, <2>5 DEF Send, pkt
    <3> QED
      BY <1>0, <1>1, <1>3, <2>1, <2>2, <2>3, <3>1
  <2> QED
    BY <2>4, <2>5
<1>11. ASSUME NEW n \in Nodes, RecvTakes(n) PROVE SockTypeOK'
  <2>1. list[n] # << >>
    BY <1>11 DEF RecvTakes, Return
  <2> QED
    BY <1>0, <1>1, <1>2, <1>11, <2>1, SMTT(60) DEF RecvTakes
<1>12. ASSUME NEW p \in Procs,
              BarrierEnters(p) \/ BarrierForwards(p) \/ BarrierWaits(p) \/ BarrierLeaves(p)
                \/ TerminateUpdateThread(p) \/ Terminated(p)
       PROVE  SockTypeOK'
  <2>1. MainOK'
    <3> DEFINE pcs == MainPcs
    <3>1. main[p] \in Mains
      BY <1>0
    <3>2. ASSUME NEW pc \in pcs
          PROVE  /\ [main[p] EXCEPT !.pc = pc] \in Mains
                 /\ [main[p] EXCEPT !.pc = pc, !.entered = @ + 1] \in Mains
                 /\ [main[p] EXCEPT !.pc = pc, !.left = @ + 1] \in Mains
      BY <3>1, MainFields
    <3>3. \E pc \in pcs : \/ main' = [main EXCEPT ![p].pc = pc]
                         \/ main' = [main EXCEPT ![p].pc = pc, ![p].entered = @ + 1]
                         \/ main' = [main EXCEPT ![p].pc = pc, ![p].left = @ + 1]
      BY <1>12 DEF BarrierEnters, BarrierForwards, BarrierWaits, BarrierLeaves,
                   TerminateUpdateThread, Terminated, MainPcs
    <3>4. \E m \in Mains : main' = [main EXCEPT ![p] = m]
      BY <1>0, <3>2, <3>3
    <3> QED
      BY <1>0, <3>4
  <2>2. UNCHANGED listVars \/ SendTag(p, RingNext(p), BarrierSem(RingNext(p)))
          \/ SendTag(p, p, TerminateTag(p))
    BY <1>12 DEF BarrierEnters, BarrierForwards, BarrierWaits, BarrierLeaves,
                 TerminateUpdateThread, Terminated
  <2>3. SockOK' /\ Lists' /\ Owes'
    BY <1>0, <1>2, <1>4, <2>2 DEF listVars
  <2> QED
    BY <1>1, <2>1, <2>3
<1> QED
  BY <1>6, <1>7, <1>8, <1>9, <1>10, <1>11, <1>12
  DEF Next, UpdateStep, MainStep, ReaderStep, UpdateExits, RecvWaits, SemStep, SemInterrupted

\* A step that changes nothing that Counted(n) speaks of keeps it.
LEMMA CountedSame ==
  ASSUME NEW n \in Nodes, Counted(n), list'[n] = list[n], sem'[n].count = sem[n].count,
         at'[Reader(n)].pc = "passed" <=> at[Reader(n)].pc = "passed", Owing(n)' = Owing(n)
  PROVE  Counted(n)'
<1>1. LetIn(n)' = LetIn(n)
  BY DEF LetIn
<1> QED
  BY <1>1 DEF Counted

\* What is added to the list is added to the counter, to the reader that is
\* let in or to the signals that are owed.
LEMMA CountedMoves ==
  ASSUME NEW n \in Nodes, Counted(n), sem[n].count \in Int, LetIn(n) \in Int,
         Cardinality(Owing(n)) \in Int,
         NEW c \in Int, NEW l \in Int, NEW o \in Int,
         sem'[n].count = sem[n].count + c, LetIn(n)' = LetIn(n) + l,
         Cardinality(Owing(n)') = Cardinality(Owing(n)) + o,
         Len(list'[n]) = Len(list[n]) + c + l + o
  PROVE  Counted(n)'
<1>1. Len(list[n]) = sem[n].count + LetIn(n) + Cardinality(Owing(n))
  BY DEF Counted
<1>2. \A x, y, z \in Int : x + y + z + c + l + o = (x + c) + (y + l) + (z + o)
  BY SMTT(60)
<1>3. Len(list[n]) + c + l + o
        = (sem[n].count + c) + (LetIn(n) + l) + (Cardinality(Owing(n)) + o)
  <2>1. sem[n].count + LetIn(n) + Cardinality(Owing(n)) + c + l + o
          = (sem[n].count + c) + (LetIn(n) + l) + (Cardinality(Owing(n)) + o)
    <3> DEFINE x == sem[n].count
               y == LetIn(n)
               z == Cardinality(Owing(n))
    <3>1. x \in Int /\ y \in Int /\ z \in Int
      OBVIOUS
    <3> HIDE DEF x, y, z
    <3>2. x + y + z + c + l + o = (x + c) + (y + l) + (z + o)
      BY <1>2, <3>1, SMTT(60)
    <3> QED
      BY <3>2 DEF x, y, z
  <2> QED
    BY <1>1, <2>1
<1>4. Len(list'[n]) = sem'[n].count + LetIn(n)' + Cardinality(Owing(n)')
  BY <1>3
<1> QED
  BY <1>4 DEF Counted

\* The semaphore of every list is kept in step with it.
LEMMA CountedKept ==
  ASSUME SemTypeOK, SockTypeOK, OwnSemaphores, \A n \in Nodes : Counted(n), [Next]_vars,
         NEW n \in Nodes
  PROVE  Counted(n)'
<1> USE Distinct
<1>0. /\ sem[n].count \in Nat /\ Cardinality(Owing(n)) \in Nat /\ list[n] \in Seq(Packets)
      /\ Counted(n) /\ owes \in [Threads -> AllSems \cup {NULL}] /\ at[Reader(n)].on = n
      /\ \A w \in Waiters : at[w].on \in Sems
  BY OwingFinite DEF SemTypeOK, SockTypeOK, OwnSemaphores
<1>1. UNCHANGED owes => Owing(n)' = Owing(n)
  BY DEF Owing
<1>2. ASSUME UNCHANGED <<list, owes>>, UNCHANGED semVars PROVE Counted(n)'
  BY <1>0, <1>1, <1>2, CountedSame DEF semVars
<1>3. ASSUME UNCHANGED <<list, owes, sem>>, NEW w \in Waiters, at[w].pc # "passed", at'[w].pc # "passed",
             \A v \in Waiters : v # w => at'[v] = at[v]
      PROVE  Counted(n)'
  BY <1>0, <1>1, <1>3, CountedSame
<1>4. ASSUME NEW th \in Threads, NEW m \in Nodes, NEW pkt \in Packets, owes[th] = NULL,
             InsertInBufferList(th, m, pkt), UNCHANGED semVars
      PROVE  Counted(n)'
  <2>1. owes' = [owes EXCEPT ![th] = m] /\ list' = [list EXCEPT ![m] = Append(@, pkt)]
    BY <1>4 DEF InsertInBufferList
  <2>2. CASE n # m
    <3>1. Owing(n)' = Owing(n)
      BY <1>0, <1>4, <2>1, <2>2, OwingAdds
    <3>2. list'[n] = list[n]
      BY <2>1, <2>2 DEF SockTypeOK
    <3> QED
      BY <1>0, <1>4, <3>1, <3>2, CountedSame DEF semVars
  <2>3. CASE n = m
    <3>1. Cardinality(Owing(n)') = Cardinality(Owing(n)) + 1
      BY <1>0, <1>4, <2>1, <2>3, OwingAdds
    <3>2. Len(list'[n]) = Len(list[n]) + 1
      BY <1>0, <2>1, <2>3, SMTT(60) DEF SockTypeOK
    <3>3. LetIn(n)' = LetIn(n) /\ sem'[n].count = sem[n].count /\ LetIn(n) \in {0, 1}
      BY <1>4 DEF LetIn, semVars
    <3>4. LetIn(n)' = LetIn(n) + 0 /\ LetIn(n) \in Int /\ sem'[n].count = sem[n].count + 0
      BY <1>0, <3>3, SMTT(60)
    <3>5. Len(list'[n]) = Len(list[n]) + 0 + 0 + 1
      BY <1>0, <3>2, SMTT(60)
    <3> QED
      BY <1>0, <3>1, <3>4, <3>5, CountedMoves, SMTT(60)
  <2> QED
    BY <2>2, <2>3
<1>5. ASSUME NEW th \in Threads, SignalSem(th) PROVE Counted(n)'
  <2> DEFINE s == owes[th]
  <2>1. s \in AllSems /\ Signal(s) /\ owes' = [owes EXCEPT ![th] = NULL] /\ UNCHANGED list
    BY <1>0, <1>5 DEF SignalSem
  <2>2. /\ sem'[s].count = sem[s].count + 1
        /\ \A r \in Sems : r # s => sem'[r] = sem[r]
        /\ at'[Reader(n)].pc = "passed" <=> at[Reader(n)].pc = "passed"
    BY <2>1, SignalCounts
  <2>3. CASE n # s
    <3>1. Owing(n)' = Owing(n)
      BY <1>0, <2>1, <2>3, OwingPays
    <3> QED
      BY <1>0, <2>1, <2>2, <2>3, <3>1, CountedSame
  <2>4. CASE n = s
    <3>1. Cardinality(Owing(n)') = Cardinality(Owing(n)) - 1
      BY <1>0, <2>1, <2>4, OwingPays
    <3>2. LetIn(n)' = LetIn(n) /\ LetIn(n) \in {0, 1}
      BY <2>2 DEF LetIn
    <3>3. Len(list'[n]) = Len(list[n]) + 1 + 0 + (-1)
      BY <1>0, <2>1, SMTT(60)
    <3>4. Cardinality(Owing(n)') = Cardinality(Owing(n)) + (-1) /\ sem'[n].count = sem[n].count + 1
      BY <1>0, <2>2, <2>4, <3>1
    <3>5. LetIn(n)' = LetIn(n) + 0 /\ LetIn(n) \in Int
      BY <3>2, SMTT(60)
    <3> QED
      BY <1>0, <3>3, <3>4, <3>5, CountedMoves, SMTT(60)
  <2> QED
    BY <2>3, <2>4
<1>6. ASSUME NEW w \in Waiters, Test(w), UNCHANGED <<list, owes>> PROVE Counted(n)'
  <2>1. /\ \A r \in Sems : r # at[w].on => sem'[r] = sem[r]
        /\ \A v \in Waiters : v # w => at'[v] = at[v]
        /\ at[w].pc # "passed"
        /\ \/ at'[w].pc # "passed" /\ sem'[at[w].on].count = sem[at[w].on].count
           \/ at'[w].pc = "passed" /\ sem'[at[w].on].count = sem[at[w].on].count - 1
    BY <1>6, TestCounts
  <2>2. CASE w = Reader(n)
    <3>1. LetIn(n) = 0 /\ UNCHANGED list /\ Cardinality(Owing(n)') = Cardinality(Owing(n)) + 0
      BY <1>0, <1>1, <1>6, <2>1, <2>2, SMTT(60) DEF LetIn
    <3>2. CASE at'[w].pc # "passed"
      <4>1. LetIn(n)' = LetIn(n) + 0 /\ sem'[n].count = sem[n].count + 0
        BY <1>0, <2>1, <2>2, <3>1, <3>2, SMTT(60) DEF LetIn
      <4>2. Len(list'[n]) = Len(list[n]) + 0 + 0 + 0
        BY <1>0, <3>1, SMTT(60)
      <4> QED
        BY <1>0, <3>1, <4>1, <4>2, CountedMoves, SMTT(60)
    <3>3. CASE at'[w].pc = "passed"
      <4>1. LetIn(n)' = LetIn(n) + 1 /\ sem'[n].count = sem[n].count + (-1)
        BY <1>0, <2>1, <2>2, <3>1, <3>3, SMTT(60) DEF LetIn
      <4>2. Len(list'[n]) = Len(list[n]) + (-1) + 1 + 0
        BY <1>0, <3>1, SMTT(60)
      <4> QED
        BY <1>0, <3>1, <4>1, <4>2, CountedMoves, SMTT(60)
    <3> QED
      BY <3>2, <3>3
  <2>3. CASE w # Reader(n)
    <3>1. at[w].on # n
      BY <2>3, SMTT(60) DEF OwnSemaphores, AllWaiters
    <3> QED
      BY <1>0, <1>1, <1>6, <2>1, <2>3, <3>1, CountedSame
  <2> QED
    BY <2>2, <2>3
<1>7. ASSUME NEW w \in Waiters, FutexWait(w) \/ Interrupted(w), UNCHANGED <<list, owes>>
      PROVE  Counted(n)'
  <2>1. /\ at[w].pc # "passed" /\ at'[w].pc # "passed" /\ UNCHANGED sem
        /\ \A v \in Waiters : v # w => at'[v] = at[v]
    BY <1>7, SMTT(60) DEF FutexWait, Interrupted, SemTypeOK
  <2> QED
    BY <1>3, <1>7, <2>1
<1>8. ASSUME NEW w \in Waiters, NEW s \in Sems, Call(w, s), UNCHANGED <<list, owes>>
      PROVE  Counted(n)'
  <2>1. /\ at[w].pc # "passed" /\ at'[w].pc # "passed" /\ UNCHANGED sem
        /\ \A v \in Waiters : v # w => at'[v] = at[v]
    BY <1>8 DEF Call, SemTypeOK
  <2> QED
    BY <1>3, <1>8, <2>1
<1>9. ASSUME NEW p \in Procs, Return(Main(p)), UNCHANGED <<list, owes>> PROVE Counted(n)'
  <2>1. UNCHANGED sem /\ at'[Reader(n)] = at[Reader(n)]
    BY <1>9 DEF Return, SemTypeOK
  <2> QED
    BY <1>0, <1>1, <1>9, <2>1, CountedSame
<1>10. ASSUME NEW m \in Nodes, RecvTakes(m) PROVE Counted(n)'
  <2>1. /\ at[Reader(m)].pc = "passed" /\ at'[Reader(m)].pc = "out" /\ UNCHANGED <<sem, owes>>
        /\ \A v \in Waiters : v # Reader(m) => at'[v] = at[v]
        /\ list' = [list EXCEPT ![m] = Tail(@)]
    BY <1>10, SMTT(60) DEF RecvTakes, Return, SemTypeOK
  <2>2. CASE n # m
    <3>1. list'[n] = list[n]
      BY <2>1, <2>2 DEF SockTypeOK
    <3> QED
      BY <1>0, <1>1, <2>1, <2>2, <3>1, CountedSame
  <2>3. CASE n = m
    <3>1. Len(list[n]) > 0
      BY <1>0, <2>1, <2>3, SMTT(60) DEF Counted, LetIn
    <3>2. Len(list'[n]) = Len(list[n]) - 1
      BY <1>0, <2>1, <2>3, <3>1, SMTT(60) DEF SockTypeOK
    <3> QED
      BY <1>0, <1>1, <2>1, <2>3, <3>2, SMTT(60) DEF Counted, LetIn
  <2> QED
    BY <2>2, <2>3
<1>11. ASSUME NEW p \in Procs, NEW i \in Procs, UpdateBufferLists(p, i) PROVE Counted(n)'
  <2> DEFINE pkt == Head(sock[i][p])
  <2>1. sock[i][p] # << >> /\ owes[Update(p)] = NULL /\ UNCHANGED semVars
    BY <1>11 DEF UpdateBufferLists
  <2>2. pkt \in Packets /\ pkt.tag \in TagsTo(p)
    BY <2>1, ForProcKept DEF SockTypeOK, SockOK
  <2> HIDE DEF pkt
  <2>3. CASE pkt.tag = TerminateTag(p)
    <3>1. UNCHANGED <<list, owes>>
      BY <1>11, <2>3, SMTT(60) DEF UpdateBufferLists, pkt, BarrierSem, TerminateTag
    <3> QED
      BY <1>2, <2>1, <3>1
  <2>4. CASE pkt.tag # TerminateTag(p) /\ pkt.tag = BarrierSem(p)
    <3>1. owes' = [owes EXCEPT ![Update(p)] = BarrierSem(p)] /\ UNCHANGED list
      BY <1>11, <2>4 DEF UpdateBufferLists, pkt
    <3>2. Owing(n)' = Owing(n)
      BY <1>0, <2>1, <3>1, OwingAdds
    <3> QED
      BY <1>0, <2>1, <3>1, <3>2, CountedSame DEF semVars
  <2>5. CASE pkt.tag # TerminateTag(p) /\ pkt.tag # BarrierSem(p)
    <3>1. pkt.tag \in Nodes /\ InsertInBufferList(Update(p), pkt.tag, pkt)
      BY <1>11, <2>2, <2>5 DEF UpdateBufferLists, pkt, TagsTo
    <3> QED
      BY <1>4, <2>1, <2>2, <3>1
  <2> QED
    BY <2>3, <2>4, <2>5
<1>12. ASSUME NEW p \in Procs, NEW m \in Nodes, Send(p, m) PROVE Counted(n)'
  <2> DEFINE pkt == Packet(p, m, main[p].sent + 1)
  <2>1. main[p].sent \in Nat
    BY DEF SockTypeOK, Mains
  <2>2. pkt \in Packets
    <3>1. m \in TagsTo(p)
      BY DEF TagsTo
    <3> QED
      BY <2>1, <3>1, PacketOK, SMTT(60)
  <2> HIDE DEF pkt
  <2>3. owes[Main(p)] = NULL /\ UNCHANGED semVars
    BY <1>12 DEF Send, AtMain
  <2>4. InsertInBufferList(Main(p), m, pkt) \/ UNCHANGED <<list, owes>>
    BY <1>12 DEF Send, pkt
  <2> QED
    BY <1>2, <1>4, <2>2, <2>3, <2>4
<1>13. ASSUME NEW p \in Procs,
              BarrierEnters(p) \/ BarrierForwards(p) \/ BarrierWaits(p) \/ BarrierLeaves(p)
                \/ TerminateUpdateThread(p) \/ Terminated(p)
       PROVE  Counted(n)'
  <2>1. UNCHANGED <<list, owes>>
    BY <1>13 DEF BarrierEnters, BarrierForwards, BarrierWaits, BarrierLeaves,
                 TerminateUpdateThread, Terminated, SendTag, listVars
  <2>2. UNCHANGED semVars \/ Call(Main(p), BarrierSem(p)) \/ Return(Main(p))
    BY <1>13 DEF BarrierEnters, BarrierForwards, BarrierWaits, BarrierLeaves,
                 TerminateUpdateThread, Terminated
  <2> QED
    BY <1>2, <1>8, <1>9, <2>1, <2>2
<1>14. ASSUME NEW w \in Waiters, SemStep(w) \/ SemInterrupted(w) PROVE Counted(n)'
  BY <1>6, <1>7, <1>14 DEF SemStep, SemInterrupted, listVars
<1>15. ASSUME NEW m \in Nodes, RecvWaits(m) PROVE Counted(n)'
  BY <1>8, <1>15 DEF RecvWaits, listVars
<1>16. CASE UNCHANGED vars
  BY <1>2, <1>16 DEF vars, semVars
<1>17. ASSUME NEW p \in Procs, UpdateExits(p) PROVE Counted(n)'
  BY <1>2, <1>17 DEF UpdateExits, listVars
<1> QED
  BY <1>5, <1>10, <1>11, <1>12, <1>13, <1>14, <1>15, <1>16, <1>17
  DEF Next, UpdateStep, MainStep, ReaderStep
-----------------------------------------------------------------------------
\* The inductive invariant of the socket transport: its semaphores are sound,
\* threads wait on their own ones, and each counts the buffers of its list.
THEOREM SockInvHolds == Spec => []SockInv
<1>1. Init => SockInv
  <2> SUFFICES ASSUME Init PROVE SockInv
    OBVIOUS
  <2>1. SemInv /\ SemInit
    BY SemInitInv DEF Init
  <2>2. OwnSemaphores
    BY DEF Init, OwnSemaphores
  <2>3. SockTypeOK
    <3>1. SockOK
      BY SMTT(60) DEF Init, SockOK, ForProc
    <3>2. main \in [Procs -> Mains]
      BY SockAssumption, SMTT(60) DEF Init, Mains, MainPcs
    <3> QED
      BY <3>1, <3>2, SMTT(60) DEF Init, SockTypeOK
  <2>4. ASSUME NEW n \in Nodes PROVE Counted(n)
    <3>1. Owing(n) = {} /\ Len(list[n]) = 0
      BY Distinct DEF Init, Owing
    <3>2. sem[n].count = 0 /\ LetIn(n) = 0
      BY <2>1, Distinct DEF SemInit, NewSemaphore, LetIn
    <3> QED
      BY <3>1, <3>2, FS_EmptySet, SMTT(60) DEF Counted
  <2> QED
    BY <2>1, <2>2, <2>3, <2>4, ListCountedSplits DEF SockInv
<1>2. SockInv /\ [Next]_vars => SockInv'
  <2> SUFFICES ASSUME SockInv, [Next]_vars PROVE SockInv'
    OBVIOUS
  <2>1. SemInv /\ SemTypeOK /\ SockTypeOK /\ OwnSemaphores /\ \A n \in Nodes : Counted(n)
    BY ListCountedSplits DEF SockInv, SemInv
  <2>2. SemInv'
    BY <2>1, IsSemStep, SemStepInv
  <2>3. OwnSemaphores'
    BY <2>1, OwnKept
  <2>4. ASSUME NEW n \in Nodes, at[Reader(n)].pc = "passed" PROVE list[n] # << >>
    <3>1. sem[n].count \in Nat /\ Cardinality(Owing(n)) \in Nat
      BY <2>1, Distinct, OwingFinite DEF SemTypeOK
    <3>2. LetIn(n) = 1
      BY <2>4 DEF LetIn
    <3>3. Len(list[n]) > 0
      BY <2>1, <3>1, <3>2, SMTT(60) DEF Counted
    <3> QED
      BY <3>3, SMTT(60)
  <2>5. SockTypeOK'
    BY <2>1, <2>4, TypeKept
  <2>6. \A n \in Nodes : Counted(n)'
    BY <2>1, CountedKept
  <2>7. (OwnSemaphores => (ListCounted <=> \A n \in Nodes : Counted(n)))'
    BY ListCountedSplits, PTL
  <2> QED
    BY <2>2, <2>3, <2>5, <2>6, <2>7 DEF SockInv
<1> QED
  BY <1>1, <1>2, PTL DEF Spec

\* The semaphore of a node counts the buffers of its list at every moment, so
\* SockNode::recv finds a buffer whenever it has waited.
THEOREM ListCountedHolds == Spec => []ListCounted
<1>1. SockInv => ListCounted
  BY DEF SockInv
<1> QED
  BY <1>1, SockInvHolds, PTL
=============================================================================

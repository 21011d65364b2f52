--------------------------- MODULE FutexSemaphore ---------------------------
(***************************************************************************)
(* misc/semaphore.cc: a counting semaphore made of a lock, a counter, the  *)
(* number of waiting threads and a futex word.  What runs under _lock is   *)
(* one step.  FUTEX_WAIT runs without the lock, so it is a step of its     *)
(* own: the kernel compares the word and sleeps in one step, and may       *)
(* return at any time (a signal to the thread).                            *)
(***************************************************************************)
EXTENDS Naturals, FiniteSets

CONSTANTS Sems,       \* the semaphores
          Waiters     \* the threads that call wait()

ASSUME WaitersAssumption == IsFiniteSet(Waiters)

VARIABLES sem,        \* _count, _numWaiting and _futx of every semaphore
          at          \* where a thread is in wait(), and of which semaphore

semVars == <<sem, at>>

\* "lock" is before the acquire of line 21, "woken" before that of line 32.
Stages == {"out", "lock", "futex", "sleep", "woken", "passed"}

SemTypeOK ==
  /\ sem \in [Sems -> [count : Nat, numWaiting : Nat, futx : {0, 1}]]
  /\ at \in [Waiters -> [pc : Stages, on : Sems]]

NewSemaphore == [count |-> 0, numWaiting |-> 0, futx |-> 0]

SemInit ==
  /\ sem = [s \in Sems |-> NewSemaphore]
  /\ at \in [Waiters -> [pc : {"out"}, on : Sems]]

Call(w, s) ==
  /\ at[w].pc = "out"
  /\ at' = [at EXCEPT ![w] = [pc |-> "lock", on |-> s]]
  /\ UNCHANGED sem

\* Mutant: _numWaiting is decremented on every turn.
Test_AlwaysLeaves(w) ==
  LET s == at[w].on
      n == sem[s].numWaiting - 1
  IN  /\ at[w].pc \in {"lock", "woken"}
      /\ IF sem[s].count <= 0
         THEN /\ sem' = [sem EXCEPT ![s] = [count |-> @.count, numWaiting |-> n + 1, futx |-> 0]]
              /\ at' = [at EXCEPT ![w].pc = "futex"]
         ELSE /\ sem' = [sem EXCEPT ![s] = [count |-> @.count - 1, numWaiting |-> n, futx |-> @.futx]]
              /\ at' = [at EXCEPT ![w].pc = "passed"]

\* The loop of wait(), from an acquire of _lock to its release: line 34 when
\* the thread comes back from the kernel, then the test of the counter.
Test(w) ==
  LET s == at[w].on
      n == IF at[w].pc = "woken" THEN sem[s].numWaiting - 1 ELSE sem[s].numWaiting
  IN  /\ at[w].pc \in {"lock", "woken"}
      /\ IF sem[s].count <= 0
         THEN /\ sem' = [sem EXCEPT ![s] = [count |-> @.count, numWaiting |-> n + 1, futx |-> 0]]
              /\ at' = [at EXCEPT ![w].pc = "futex"]
         ELSE /\ sem' = [sem EXCEPT ![s] = [count |-> @.count - 1, numWaiting |-> n, futx |-> @.futx]]
              /\ at' = [at EXCEPT ![w].pc = "passed"]

FutexWait(w) ==
  /\ at[w].pc = "futex"
  /\ at' = [at EXCEPT ![w].pc = IF sem[at[w].on].futx = 0 THEN "sleep" ELSE "woken"]
  /\ UNCHANGED sem

\* FUTEX_WAIT returns without a wake-up.
Interrupted(w) ==
  /\ at[w].pc = "sleep"
  /\ at' = [at EXCEPT ![w].pc = "woken"]
  /\ UNCHANGED sem

Return(w) ==
  /\ at[w].pc = "passed"
  /\ at' = [at EXCEPT ![w].pc = "out"]
  /\ UNCHANGED sem

Asleep(s) == {w \in Waiters : at[w].on = s /\ at[w].pc = "sleep"}

\* FUTEX_WAKE of one thread.
WakeOne(s) ==
  \/ /\ Asleep(s) = {}
     /\ UNCHANGED at
  \/ \E w \in Asleep(s) : at' = [at EXCEPT ![w].pc = "woken"]

\* Mutant: the word is left as it is.
Signal_OldWord(s) ==
  /\ sem' = [sem EXCEPT ![s].count = @ + 1]
  /\ IF sem[s].numWaiting > 0 THEN WakeOne(s) ELSE UNCHANGED at

Signal(s) ==
  IF sem[s].numWaiting > 0
  THEN /\ sem' = [sem EXCEPT ![s] = [count |-> @.count + 1, numWaiting |-> @.numWaiting, futx |-> 1]]
       /\ WakeOne(s)
  ELSE /\ sem' = [sem EXCEPT ![s].count = @ + 1]
       /\ UNCHANGED at

SemNext ==
  \/ \E w \in Waiters : Test(w) \/ FutexWait(w) \/ Interrupted(w) \/ Return(w)
  \/ \E w \in Waiters, s \in Sems : Call(w, s)
  \/ \E s \in Sems : Signal(s)

SemSpec == SemInit /\ [][SemNext]_semVars
-----------------------------------------------------------------------------
Waiting(s) == {w \in Waiters : at[w].on = s /\ at[w].pc \in {"futex", "sleep", "woken"}}

\* The threads that are about to test the counter again: back from the kernel,
\* or before a FUTEX_WAIT that will find the word changed.
Awake(s) == {w \in Waiters : /\ at[w].on = s
                             /\ \/ at[w].pc = "woken"
                                \/ at[w].pc = "futex" /\ sem[s].futx = 1}

\* No wake-up is lost: while a thread sleeps on a semaphore, there is a thread
\* that will test the counter again for every signal that is left in it.
\* Signal wakes one thread only, the word is reset by each thread that finds
\* the counter at zero, and a thread that arrives late may take the signal
\* meant for the woken one.  (In the transport's run a semaphore has one
\* waiter; that many wait on one is left to SockTransportProofs.)
NoLostWakeup ==
  \A s \in Sems : Asleep(s) # {} => sem[s].count <= Cardinality(Awake(s))

\* _numWaiting counts the threads between lines 25 and 34, so that signal()
\* leaves out the FUTEX_WAKE only when nobody needs it.
WaitersCounted ==
  \A s \in Sems : sem[s].numWaiting = Cardinality(Waiting(s))

\* The word is 0 with a thread waiting only if no signal is left: a
\* FUTEX_WAIT that sleeps has missed none.
SleepsAtZero ==
  \A s \in Sems : sem[s].futx = 0 /\ Waiting(s) # {} => sem[s].count = 0

\* The inductive invariant.
SemInv == SemTypeOK /\ WaitersCounted /\ SleepsAtZero /\ NoLostWakeup

\* The semaphore that the callers see.
Abstract == INSTANCE Semaphore
  WITH count <- [s \in Sems |-> sem[s].count],
       stage <- [w \in Waiters |-> CASE at[w].pc = "out"    -> "out"
                                     [] at[w].pc = "passed" -> "passed"
                                     [] OTHER               -> "in"],
       on    <- [w \in Waiters |-> at[w].on]

\* FutexSemaphore implements Semaphore.
CountingSemaphore == Abstract!Spec
=============================================================================

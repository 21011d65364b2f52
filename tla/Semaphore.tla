----------------------------- MODULE Semaphore -----------------------------
(***************************************************************************)
(* What a counting semaphore promises its callers (misc/semaphore.h):      *)
(* every signal() lets one wait() pass, and no wait() passes without one.  *)
(* FutexSemaphore is shown to implement it.                                *)
(***************************************************************************)
EXTENDS Naturals

CONSTANTS Sems,       \* the semaphores
          Waiters     \* the threads that call wait()

VARIABLES count,      \* signals that no wait has used yet
          stage,      \* where a thread is: outside, in wait(), or past it
          on          \* the semaphore it called wait() on

avars == <<count, stage, on>>

Init ==
  /\ count = [s \in Sems |-> 0]
  /\ stage = [w \in Waiters |-> "out"]
  /\ on \in [Waiters -> Sems]

Call(w, s) ==
  /\ stage[w] = "out"
  /\ stage' = [stage EXCEPT ![w] = "in"]
  /\ on' = [on EXCEPT ![w] = s]
  /\ UNCHANGED count

Pass(w) ==
  /\ stage[w] = "in" /\ count[on[w]] > 0
  /\ stage' = [stage EXCEPT ![w] = "passed"]
  /\ count' = [count EXCEPT ![on[w]] = @ - 1]
  /\ UNCHANGED on

Return(w) ==
  /\ stage[w] = "passed"
  /\ stage' = [stage EXCEPT ![w] = "out"]
  /\ UNCHANGED <<count, on>>

Signal(s) ==
  /\ count' = [count EXCEPT ![s] = @ + 1]
  /\ UNCHANGED <<stage, on>>

Next ==
  \/ \E w \in Waiters : Pass(w) \/ Return(w) \/ \E s \in Sems : Call(w, s)
  \/ \E s \in Sems : Signal(s)

Spec == Init /\ [][Next]_avars
=============================================================================

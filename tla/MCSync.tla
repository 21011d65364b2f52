------------------------------- MODULE MCSync -------------------------------
(***************************************************************************)
(* SyncServer for TLC: programs of two or three threads.                   *)
(***************************************************************************)
EXTENDS SyncInvariant

OneProcess == [p \in {0} |-> 1000]
OnProcess0 == [t \in Tiles |-> 0]

C(op, obj) == [op |-> op, obj |-> obj, mux |-> 0]
Make(kind) == C(kind, 0)
Lock1 == C("MUTEX_LOCK", 1)
Unlock1 == C("MUTEX_UNLOCK", 1)
Wait1 == [op |-> "COND_WAIT", obj |-> 1, mux |-> 1]
Barrier1 == C("BARRIER_WAIT", 1)

\* Every thread runs body after main has made the objects.
SameBody(made, body) == [t \in Tiles |-> IF t = 0 THEN made \o body ELSE body]

MutexPrograms == {SameBody(<<Make("MUTEX_INIT")>>, <<Lock1, Unlock1>>)}

\* All threads but the last wait; it signals each, or broadcasts, with the
\* mutex or after it has released it.
CondProgram(wakes) ==
  LET made == <<Make("MUTEX_INIT"), Make("COND_INIT")>>
      last == Max(Tiles)
  IN  [t \in Tiles |-> IF t = last THEN <<Lock1, C("SET", 1)>> \o wakes
                       ELSE (IF t = 0 THEN made ELSE <<>>) \o <<Lock1, Wait1, Unlock1>>]
Signal1 == C("COND_SIGNAL", 1)
Broadcast1 == C("COND_BROADCAST", 1)
CondPrograms ==
  {CondProgram(wakes) : wakes \in {<<Broadcast1, Unlock1>>, <<Signal1, Signal1, Unlock1>>,
                                    <<Unlock1, Broadcast1>>, <<Unlock1, Signal1, Signal1>>}}

BarrierPrograms ==
  {SameBody(<<C("BARRIER_INIT", Cardinality(Tiles))>>, <<Barrier1, Barrier1>>)}

AllPrograms == MutexPrograms \cup CondPrograms \cup BarrierPrograms

=============================================================================

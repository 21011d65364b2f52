---------------------------- MODULE MasterThreads ----------------------------
(***************************************************************************)
(* What the MCP (master control program) knows of the threads, and the     *)
(* operations of the thread manager, the thread scheduler and the          *)
(* lax-barrier clock-skew server on it.  The MCP is one thread that        *)
(* handles one message at a time; the operations are functions from a      *)
(* table ms to the table the code leaves, so that a handler is the         *)
(* composition of the calls it makes.                                      *)
(*                                                                         *)
(* A core runs one thread (max_threads_per_core is 1), so a thread is      *)
(* named by its tile and thread indices are left out.                      *)
(***************************************************************************)
EXTENDS Integers, Sequences, FiniteSets, FiniteSetsExt

CONSTANTS Tiles,         \* application tiles that run threads; 0 runs main
          SpawnerTile,   \* SpawnerTile[p]: tile of process p's thread spawner
          ProcOf,        \* ProcOf[t]: the process tile t is simulated by
          Quantum,       \* lax_barrier/quantum
          SkewScheme     \* clock_skew_management/scheme

Procs == DOMAIN SpawnerTile
SpawnerTiles == {SpawnerTile[p] : p \in Procs}
AllTiles == Tiles \cup SpawnerTiles

\* INVALID_TILE_ID
NoTile == -1

ASSUME TilesAssumption == Tiles \subseteq Nat /\ IsFiniteSet(Tiles) /\ 0 \in Tiles
ASSUME SpawnerAssumption ==
  /\ SpawnerTile \in [Procs -> Nat \ Tiles]
  /\ 0 \in Procs
  /\ \A p, q \in Procs : SpawnerTile[p] = SpawnerTile[q] => p = q
ASSUME ProcAssumption == ProcOf \in [Tiles -> Procs] /\ ProcOf[0] = 0
ASSUME QuantumAssumption == Quantum \in Nat \ {0}
ASSUME SkewSchemeAssumption == SkewScheme \in {"lax", "lax_barrier"}

Status == {"IDLE", "INITIALIZING", "RUNNING", "STALLED"}

\* Packet types the MCP sends to a tile; a tile receives by type.
Kinds == {"RESPONSE", "SYSTEM_RESPONSE", "SPAWN_REPLY", "JOIN_REPLY", "EXIT_REPLY"}
Codes == {"INIT", "MUTEX_LOCK", "MUTEX_UNLOCK", "COND_SIGNAL", "COND_BROADCAST",
          "BARRIER_WAIT", "BARRIER_RELEASE", "SPAWNED", "JOINED", "EXITED"}
Messages == [code : Codes, value : Nat]
Msg(code, value) == [code |-> code, value |-> value]

\* Messages to a process's LCP: a thread to spawn (its id), or one of the
\* thread spawner's control messages.
LcpMessages == [type : {"SPAWN", "QUIT_SPAWNER", "QUIT_SPAWNER_ACK"}, tid : Nat]

Failures == {"start", "stall", "resume", "exit", "release_loop", "no_core", "not_idle",
             "queue", "joiners", "mapped", "request", "answer", "owner", "count"}

MasterTables ==
  [status    : [AllTiles -> Status],   \* m_thread_state[t].status
   waiter    : [AllTiles -> Tiles \cup {NoTile}],    \* .waiter_core
   completed : [AllTiles -> Nat],      \* .completion_time
   stalled   : SUBSET Tiles,           \* m_last_stalled_thread[t] is valid
   queued    : SUBSET Tiles,           \* m_waiter_queue[t] is not empty
   tids      : Seq(Tiles),             \* m_tid_to_core_map
   clock     : [Tiles -> Nat],         \* m_local_clock_list
   acquired  : SUBSET Tiles,           \* m_barrier_acquire_list
   next      : Nat,                    \* m_next_barrier_time
   mail      : [AllTiles -> [Kinds -> Seq(Messages)]], \* packets to tiles
   lcp       : [Procs -> Seq(LcpMessages)],            \* packets to LCPs
   failed    : SUBSET Failures]        \* asserts that have failed

\* main runs on tile 0, the threads in spawned have been started.
InitialTable(spawned) ==
  [status    |-> [t \in AllTiles |->
                    IF t \in spawned \cup {0} \cup SpawnerTiles THEN "RUNNING" ELSE "IDLE"],
   waiter    |-> [t \in AllTiles |-> NoTile],
   completed |-> [t \in AllTiles |-> 0],
   stalled   |-> {},
   queued    |-> spawned,
   tids      |-> <<>>,
   clock     |-> [t \in Tiles |-> 0],
   acquired  |-> {},
   next      |-> Quantum,
   mail      |-> [t \in AllTiles |-> [k \in Kinds |-> <<>>]],
   lcp       |-> [p \in Procs |-> <<>>],
   failed    |-> {}]

Fail(ms, what) == [ms EXCEPT !.failed = @ \cup {what}]
Send(ms, t, kind, msg) == [ms EXCEPT !.mail[t][kind] = Append(@, msg)]
SendAll(ms, S, kind, msg) ==
  [ms EXCEPT !.mail = [t \in AllTiles |->
     IF t \in S THEN [ms.mail[t] EXCEPT ![kind] = Append(@, msg)] ELSE ms.mail[t]]]
SendLcp(ms, p, msg) == [ms EXCEPT !.lcp[p] = Append(@, msg)]

IsCoreRunning(ms, t) == ms.status[t] = "RUNNING"

-----------------------------------------------------------------------------
(* LaxBarrierSyncServer.  Its asserts that a late thread is running or      *)
(* initializing never fail: they compare isCoreInitializing's bool with    *)
(* INVALID_THREAD_ID, which is -1.                                         *)

\* The tiles whose clock has reached the barrier time.
Late(ms) == {t \in Tiles : ms.clock[t] >= ms.next}

IsBarrierReached_SomeLate(ms) == Late(ms) # {}
IsBarrierReached(ms) ==
  /\ \A t \in Tiles \ Late(ms) : ~ IsCoreRunning(ms, t)
  /\ Late(ms) # {}

\* The first barrier time that some waiting thread has not reached: the loop
\* adds the interval once at least, and until a thread can be resumed.
NextBarrierTime(ms) ==
  LET first == Min({ms.clock[t] : t \in ms.acquired})
  IN  ms.next + Quantum * (IF first < ms.next THEN 1 ELSE 1 + (first - ms.next) \div Quantum)

\* The tiles released by a barrier time, and the list that is left.
StillAcquired_All(ms, freed) == ms.acquired
StillAcquired(ms, freed) == ms.acquired \ freed

\* With no thread in the acquire list the loop never ends.
BarrierRelease(ms) ==
  LET time == NextBarrierTime(ms)
      freed == {t \in ms.acquired : ms.clock[t] < time}
  IN  IF ms.acquired = {} THEN Fail(ms, "release_loop")
      ELSE SendAll([ms EXCEPT !.next = time, !.acquired = StillAcquired(ms, freed)],
                   freed, "SYSTEM_RESPONSE", Msg("BARRIER_RELEASE", 0))

\* The clock-skew server exists under lax_barrier only.
Signal(ms) ==
  IF SkewScheme # "lax_barrier" THEN ms
  ELSE IF IsBarrierReached(ms) THEN BarrierRelease(ms) ELSE ms

\* The time has not reached the barrier: the thread may go on at once.
Early_AtBarrier(ms, time) == time <= ms.next
Early(ms, time) == time < ms.next

BarrierWait(ms, t, time) ==
  IF Early(ms, time) THEN Send(ms, t, "SYSTEM_RESPONSE", Msg("BARRIER_RELEASE", 0))
  ELSE Signal([ms EXCEPT !.clock[t] = time, !.acquired = @ \cup {t}])

-----------------------------------------------------------------------------
(* ThreadManager *)

StallThreadIndex_NoSignal(ms, t) ==
  [ms EXCEPT !.status[t] = "STALLED", !.stalled = @ \cup {t}]
\* stallThread(core_id, thread_index), and stallThread(core_id) for the
\* thread that is running on the core.
StallThreadIndex(ms, t) ==
  Signal([ms EXCEPT !.status[t] = "STALLED", !.stalled = @ \cup {t}])
StallThread(ms, t) ==
  IF IsCoreRunning(ms, t) THEN StallThreadIndex(ms, t) ELSE Fail(ms, "stall")

\* resumeThread(core_id), for each core of S: the thread last stalled on it.
ResumeThreads_Not(ms, S) == ms
ResumeThreads(ms, S) ==
  IF S \subseteq ms.stalled
  THEN [ms EXCEPT !.status = [t \in AllTiles |-> IF t \in S THEN "RUNNING" ELSE @[t]]]
  ELSE Fail(ms, "resume")
ResumeThread(ms, t) == ResumeThreads(ms, {t})

\* wakeUpWaiter: answer the thread joining t, if one is.
WakeUpWaiter(ms, t, time) ==
  LET w == ms.waiter[t]
  IN  IF w = NoTile
      THEN ms
      ELSE [Send(ms, w, "JOIN_REPLY", Msg("JOINED", time))
              EXCEPT !.status[w] = "RUNNING", !.waiter[t] = NoTile]

\* ThreadScheduler::masterOnThreadExit: no other thread waits for the core.
SchedulerOnThreadExit(ms, t) ==
  Send([ms EXCEPT !.queued = @ \ {t}], t, "EXIT_REPLY", Msg("EXITED", 0))

\* slaveTerminateThreadSpawnerAck
TerminateThreadSpawnerAck_EveryTile(ms, t) ==
  SendLcp(ms, 0, [type |-> "QUIT_SPAWNER_ACK", tid |-> 0])
TerminateThreadSpawnerAck(ms, t) ==
  IF t \in SpawnerTiles
  THEN SendLcp(ms, 0, [type |-> "QUIT_SPAWNER_ACK", tid |-> 0])
  ELSE ms

MasterOnThreadExit(ms, t, time) ==
  IF IsCoreRunning(ms, t)
  THEN LET gone == Signal([ms EXCEPT !.status[t] = "IDLE", !.completed[t] = time])
       IN  TerminateThreadSpawnerAck(
             SchedulerOnThreadExit(WakeUpWaiter(gone, t, time), t), t)
  ELSE Fail(ms, "exit")

=============================================================================

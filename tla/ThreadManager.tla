---------------------------- MODULE ThreadManager ----------------------------
(***************************************************************************)
(* The life of application threads in full mode: spawnThread, joinThread   *)
(* and onThreadExit of the threads, the handlers of the master's           *)
(* ThreadManager and ThreadScheduler, each process's LCP and its thread    *)
(* spawner, and the end of the thread spawners when main exits.            *)
(*                                                                         *)
(* A thread is named by its thread id: 0 is main, the others get theirs    *)
(* from the master (m_tid_counter).  The threads of the application do     *)
(* nothing but spawn, join and exit; Parents says which of them spawn.     *)
(***************************************************************************)
EXTENDS MasterThreads

CONSTANTS Parents,      \* the threads that spawn others
          MaxThreads    \* bound: threads that are spawned in all

Tids == 0 .. MaxThreads
NumTiles == Cardinality(Tiles)

ASSUME ThreadsAssumption ==
  MaxThreads \in Nat /\ Parents \subseteq Tids /\ Tiles = 0 .. NumTiles - 1

VARIABLES
  pc,          \* what thread k is doing
  children,    \* the threads that k has spawned and not joined
  joining,     \* the thread that k is joining, 0 for none
  joined,      \* the threads that have been joined
  mapped,      \* the tiles with m_initialized_threads set
  toMcp,       \* packets from a tile to the MCP
  ms,          \* the master's thread table
  spawner,     \* what the thread spawner of process p is doing
  list,        \* m_thread_spawn_list of process p; 0 is the request to quit
  sem,         \* m_thread_spawn_sem
  locked,      \* the processes whose m_thread_spawn_lock is held
  terminated   \* m_thread_spawners_terminated

threads == <<pc, children, joining, joined>>
slaves == <<spawner, list, sem, locked>>
vars == <<threads, mapped, toMcp, ms, slaves, terminated>>

PCs == {"none", "created", "started", "run", "spawning", "joining", "exiting", "terminating",
        "leaving", "done"}
Requests == [op : {"SPAWN", "JOIN", "START", "EXIT"}, arg : Int]

Init ==
  /\ pc = [k \in Tids |-> IF k = 0 THEN "run" ELSE "none"]
  /\ children = [k \in Tids |-> {}]
  /\ joining = [k \in Tids |-> 0]
  /\ joined = {}
  /\ mapped = {0} \cup SpawnerTiles
  /\ toMcp = [t \in AllTiles |-> <<>>]
  /\ ms = InitialTable({})
  /\ spawner = [p \in Procs |-> "wait"]
  /\ list = [p \in Procs |-> <<>>]
  /\ sem = [p \in Procs |-> 0]
  /\ locked = {}
  /\ terminated = 0

TileOf(k) == IF k = 0 THEN 0 ELSE ms.tids[k]
ProcOfThread(k) == ProcOf[TileOf(k)]
Becomes(k, state) == pc' = [pc EXCEPT ![k] = state]
Request(t, op, arg) == toMcp' = [toMcp EXCEPT ![t] = Append(@, [op |-> op, arg |-> arg])]

\* netRecvType: thread k takes the packet of this type from its tile's queue.
Receive(k, kind) ==
  /\ ms.mail[TileOf(k)][kind] # <<>>
  /\ ms' = [ms EXCEPT !.mail[TileOf(k)][kind] = Tail(@)]

-----------------------------------------------------------------------------
(* Application threads *)

\* The application knows of the threads it has spawned and not joined, and
\* has no more of them than there are tiles beside tile 0; it names a tile
\* only when it knows that the tile is free and no other spawn may take it.
Unjoined == UNION {children[k] : k \in Tids}
Spawning == {k \in Tids : pc[k] = "spawning"}
NamedInFlight ==
  \E t \in Tiles : \E i \in DOMAIN toMcp[t] : toMcp[t][i].op = "SPAWN" /\ toMcp[t][i].arg # NoTile
MaySpawn(k, dest) ==
  /\ k \in Parents /\ ~ NamedInFlight
  /\ Cardinality(Unjoined) + Cardinality(Spawning) < NumTiles - 1
  /\ Cardinality(Unjoined) + Cardinality(Spawning) + Cardinality(joined) < MaxThreads
  /\ dest # NoTile => Spawning = {} /\ \A j \in Unjoined : TileOf(j) # dest

SpawnThread(k, dest) ==
  /\ pc[k] = "run" /\ MaySpawn(k, dest)
  /\ Request(TileOf(k), "SPAWN", dest)
  /\ Becomes(k, "spawning")
  /\ UNCHANGED <<children, joining, joined, mapped, ms, slaves, terminated>>

SpawnThreadReturn(k) ==
  /\ pc[k] = "spawning"
  /\ Receive(k, "SPAWN_REPLY")
  /\ children' = [children EXCEPT ![k] = @ \cup {Head(ms.mail[TileOf(k)]["SPAWN_REPLY"]).value}]
  /\ Becomes(k, "run")
  /\ UNCHANGED <<joining, joined, mapped, toMcp, slaves, terminated>>

JoinThread(k, j) ==
  /\ pc[k] = "run" /\ j \in children[k]
  /\ Request(TileOf(k), "JOIN", j)
  /\ joining' = [joining EXCEPT ![k] = j]
  /\ Becomes(k, "joining")
  /\ UNCHANGED <<children, joined, mapped, ms, slaves, terminated>>

JoinThreadReturn(k) ==
  /\ pc[k] = "joining"
  /\ Receive(k, "JOIN_REPLY")
  /\ children' = [children EXCEPT ![k] = @ \ {joining[k]}]
  /\ joining' = [joining EXCEPT ![k] = 0]
  /\ joined' = joined \cup {joining[k]}
  /\ Becomes(k, "run")
  /\ UNCHANGED <<mapped, toMcp, slaves, terminated>>

\* onThreadStart, called from Pin's threadStartCallback with the request at
\* the front of the spawn list, which must be for the thread's own tile.
OnThreadStart(k) ==
  LET t == TileOf(k)
      queue == list[ProcOf[t]]
      asserts == (IF queue = <<>> \/ Head(queue) # k THEN {"request"} ELSE {}) \cup
                 (IF t \in mapped THEN {"mapped"} ELSE {})
  IN
  /\ pc[k] = "created"
  /\ IF asserts # {}
     THEN ms' = [ms EXCEPT !.failed = asserts] /\ UNCHANGED <<pc, mapped, toMcp>>
     ELSE /\ mapped' = mapped \cup {t}
          /\ Request(t, "START", k)
          /\ Becomes(k, "started")
          /\ UNCHANGED ms
  /\ UNCHANGED <<children, joining, joined, slaves, terminated>>

\* CarbonSpawnManagedThread's dequeueThreadSpawnReq, which releases the lock
\* that the spawner took.
DequeueThreadSpawnReq(k) ==
  LET p == ProcOfThread(k) IN
  /\ pc[k] = "started"
  /\ list' = [list EXCEPT ![p] = Tail(@)]
  /\ locked' = locked \ {p}
  /\ Becomes(k, "run")
  /\ UNCHANGED <<children, joining, joined, mapped, toMcp, ms, spawner, sem, terminated>>

\* A thread joins those it has spawned before it exits.
OnThreadExit(k) ==
  /\ pc[k] = "run" /\ children[k] = {}
  /\ Request(TileOf(k), "EXIT", k)
  /\ Becomes(k, "exiting")
  /\ UNCHANGED <<children, joining, joined, mapped, ms, slaves, terminated>>

\* The answer of the master; main then ends the thread spawners.
OnThreadExitReply(k) ==
  /\ pc[k] = "exiting"
  /\ ms.mail[TileOf(k)]["EXIT_REPLY"] # <<>>
  /\ LET taken == [ms EXCEPT !.mail[TileOf(k)]["EXIT_REPLY"] = Tail(@)]
         quit == [type |-> "QUIT_SPAWNER", tid |-> 0]
     IN  ms' = IF k = 0
               THEN [taken EXCEPT !.lcp = [p \in Procs |-> Append(@[p], quit)]]
               ELSE taken
  /\ Becomes(k, IF k = 0 THEN "terminating" ELSE "leaving")
  /\ UNCHANGED <<children, joining, joined, mapped, toMcp, slaves, terminated>>

\* The wait loop of terminateThreadSpawners sees its exit condition.
SpawnersTerminated ==
  /\ pc[0] = "terminating"
  /\ terminated = Cardinality(Procs) - 1
  /\ Becomes(0, "leaving")
  /\ UNCHANGED <<children, joining, joined, mapped, toMcp, ms, slaves, terminated>>

TerminateThread(k) ==
  /\ pc[k] = "leaving"
  /\ mapped' = mapped \ {TileOf(k)}
  /\ Becomes(k, "done")
  /\ UNCHANGED <<children, joining, joined, toMcp, ms, slaves, terminated>>

-----------------------------------------------------------------------------
(* The LCP and the thread spawner of process p *)

\* insertThreadSpawnRequest and the signal, for a thread or to quit.
InsertThreadSpawnRequest(p, k) ==
  /\ p \notin locked
  /\ list' = [list EXCEPT ![p] = Append(@, k)]
  /\ sem' = [sem EXCEPT ![p] = @ + 1]
  /\ UNCHANGED <<spawner, locked>>

LcpProcessPacket(p) ==
  /\ ms.lcp[p] # <<>>
  /\ LET m == Head(ms.lcp[p])
     IN  \/ m.type \in {"SPAWN", "QUIT_SPAWNER"}
            /\ InsertThreadSpawnRequest(p, m.tid)
            /\ UNCHANGED terminated
         \/ m.type = "QUIT_SPAWNER_ACK"
            /\ terminated' = terminated + 1
            /\ UNCHANGED slaves
  /\ ms' = [ms EXCEPT !.lcp[p] = Tail(@)]
  /\ UNCHANGED <<threads, mapped, toMcp>>

\* getThreadToSpawn: the request stays at the front of the list, and the lock
\* stays with the thread that is created for it.
TakesLock_Not(p) == locked
TakesLock(p) == locked \cup {p}
GetThreadToSpawn(p) ==
  /\ spawner[p] = "wait" /\ sem[p] > 0 /\ p \notin locked
  /\ sem' = [sem EXCEPT ![p] = @ - 1]
  /\ locked' = TakesLock(p)
  /\ IF Head(list[p]) = 0
     THEN spawner' = [spawner EXCEPT ![p] = "quit"] /\ UNCHANGED pc
     ELSE Becomes(Head(list[p]), "created") /\ UNCHANGED spawner
  /\ UNCHANGED <<children, joining, joined, mapped, toMcp, ms, list, terminated>>

\* onThreadExit of the spawner, which does not wait for the master's answer.
SpawnerExit(p) ==
  /\ spawner[p] = "quit"
  /\ Request(SpawnerTile[p], "EXIT", 0)
  /\ mapped' = mapped \ {SpawnerTile[p]}
  /\ spawner' = [spawner EXCEPT ![p] = "done"]
  /\ UNCHANGED <<threads, ms, list, sem, locked, terminated>>

-----------------------------------------------------------------------------
(* The master *)

\* The first idle tile after the requester's, never tile 0.
FreeTile(t) ==
  LET free == {i \in 1 .. NumTiles : (t + i) % NumTiles # 0 /\ ms.status[(t + i) % NumTiles] = "IDLE"}
  IN  IF free = {} THEN NoTile ELSE (t + Min(free)) % NumTiles

\* masterStartThread: the process of the tile is told to spawn the thread.
MasterStartThread(mt, k, d) == SendLcp(mt, ProcOf[d], [type |-> "SPAWN", tid |-> k])

\* masterScheduleThread: the destination has no thread, so it starts at once.
MasterScheduleThread(mt, k, d) ==
  CASE mt.status[d] # "IDLE" -> Fail(mt, "not_idle")
    [] mt.status[d] = "IDLE" /\ d \in mt.queued -> Fail(mt, "queue")
    [] OTHER -> MasterStartThread([mt EXCEPT !.queued = @ \cup {d}, !.status[d] = "INITIALIZING"], k, d)

\* masterSpawnThreadReply
SpawnReply_NotResumed(mt, t, k) == Send(mt, t, "SPAWN_REPLY", Msg("SPAWNED", k))
SpawnReply(mt, t, k) == Send(ResumeThread(mt, t), t, "SPAWN_REPLY", Msg("SPAWNED", k))

MasterSpawnThread(t, dest) ==
  LET d == IF dest = NoTile THEN FreeTile(t)
           ELSE IF ms.status[dest] = "IDLE" THEN dest ELSE NoTile
      stalled == StallThreadIndex(ms, t)
      k == Len(ms.tids) + 1
  IN  IF d = NoTile
      THEN Fail(stalled, "no_core")
      ELSE SpawnReply(MasterScheduleThread([stalled EXCEPT !.tids = Append(@, d)], k, d), t, k)

\* The thread being joined has left its tile.
HasExited_Always(mt, d) == TRUE
HasExited_Never(mt, d) == FALSE
HasExited(mt, d) == mt.status[d] = "IDLE"

\* masterJoinThread: by thread id, but the waiter is recorded for the tile.
MasterJoinThread(t, j) ==
  LET d == ms.tids[j]
      waiting == StallThread([ms EXCEPT !.waiter[d] = t], t)
  IN  CASE ms.waiter[d] # NoTile -> Fail(ms, "joiners")
        [] ms.waiter[d] = NoTile /\ waiting.failed = {} /\ HasExited(waiting, d) ->
             WakeUpWaiter(waiting, d, waiting.completed[d])
        [] OTHER -> waiting

MasterOnThreadStart(t) ==
  IF ms.status[t] = "INITIALIZING" THEN [ms EXCEPT !.status[t] = "RUNNING"] ELSE Fail(ms, "start")

\* MCP::processPacket
ProcessPacket(t) ==
  /\ toMcp[t] # <<>>
  /\ LET m == Head(toMcp[t])
     IN  \/ m.op = "SPAWN" /\ ms' = MasterSpawnThread(t, m.arg)
         \/ m.op = "JOIN" /\ ms' = MasterJoinThread(t, m.arg)
         \/ m.op = "START" /\ ms' = MasterOnThreadStart(t)
         \/ m.op = "EXIT" /\ ms' = MasterOnThreadExit(ms, t, 0)
  /\ toMcp' = [toMcp EXCEPT ![t] = Tail(@)]
  /\ UNCHANGED <<threads, mapped, slaves, terminated>>

-----------------------------------------------------------------------------
(* The specification *)

ThreadStep(k) ==
  /\ ms.failed = {}
  /\ \/ \E d \in {NoTile} \cup (Tiles \ {0}) : SpawnThread(k, d)
     \/ SpawnThreadReturn(k)
     \/ \E j \in Tids : JoinThread(k, j)
     \/ JoinThreadReturn(k)
     \/ OnThreadStart(k) \/ DequeueThreadSpawnReq(k)
     \/ OnThreadExit(k) \/ OnThreadExitReply(k)
     \/ k = 0 /\ SpawnersTerminated
     \/ TerminateThread(k)
ProcessStep(p) ==
  /\ ms.failed = {}
  /\ LcpProcessPacket(p) \/ GetThreadToSpawn(p) \/ SpawnerExit(p)
McpStep(t) == ms.failed = {} /\ ProcessPacket(t)

Next ==
  \/ \E k \in Tids : ThreadStep(k)
  \/ \E p \in Procs : ProcessStep(p)
  \/ \E t \in AllTiles : McpStep(t)

Spec == Init /\ [][Next]_vars

\* The host runs every thread, and the MCP takes every packet in the end.
Fairness ==
  /\ \A k \in Tids : WF_vars(ThreadStep(k))
  /\ \A p \in Procs : WF_vars(ms.failed = {} /\ LcpProcessPacket(p))
  /\ \A p \in Procs : WF_vars(ms.failed = {} /\ (GetThreadToSpawn(p) \/ SpawnerExit(p)))
  /\ \A t \in AllTiles : WF_vars(McpStep(t))

FairSpec == Spec /\ Fairness

-----------------------------------------------------------------------------
(* Properties *)

TypeOK ==
  /\ pc \in [Tids -> PCs]
  /\ children \in [Tids -> SUBSET Tids]
  /\ joining \in [Tids -> Tids]
  /\ joined \in SUBSET Tids
  /\ mapped \in SUBSET AllTiles
  /\ toMcp \in [AllTiles -> Seq(Requests)]
  /\ ms \in MasterTables
  /\ spawner \in [Procs -> {"wait", "quit", "done"}]
  /\ list \in [Procs -> Seq(Tids)]
  /\ sem \in [Procs -> Nat]
  /\ locked \in SUBSET Procs
  /\ terminated \in 0 .. Cardinality(Procs)

\* The asserts of spawn, start, join and exit hold on the master and on the
\* tiles, but for the two that the reuse of a tile breaks: the old thread has
\* not left it yet (initializeThread), or two threads join threads that ran on
\* it one after the other (masterJoinThread; that takes three tiles beside
\* main's).  In particular the master finds a free tile for every thread that
\* the application may spawn.
OnlyReuseFails == ms.failed \subseteq {"mapped", "joiners"}

\* joinThread returns only when the joined thread has exited and the master
\* has handled its exit, even when another thread runs on its tile by then.
JoinAfterExit ==
  \A j \in joined :
    \/ pc[j] \in {"leaving", "done"}
    \/ pc[j] = "exiting" /\ ms.mail[TileOf(j)]["EXIT_REPLY"] # <<>>

\* The thread that the spawner has created and that has not dequeued its
\* request yet holds the spawn lock, and the request at the front of the
\* list is its own: it is the only such thread of its process.
SpawnLockHandedOver ==
  \A k \in Tids : pc[k] \in {"created", "started"} =>
    LET p == ProcOfThread(k)
    IN  p \in locked /\ list[p] # <<>> /\ Head(list[p]) = k

\* The master holds a thread for RUNNING when it runs, and for STALLED when
\* it waits in a join, as soon as its packets have been handled.
StatusAgrees ==
  \A k \in {j \in Tids : pc[j] # "none"} :
    LET t == TileOf(k)
        waits == pc[k] = "joining" /\ ms.mail[t]["JOIN_REPLY"] = <<>>
    IN  ms.failed = {} /\ pc[k] \in {"run", "spawning", "joining"} /\ toMcp[t] = <<>> =>
          ms.status[t] = IF waits THEN "STALLED" ELSE "RUNNING"

\* Unless an assert stops it, the application ends: every thread that was
\* spawned runs, is joined and leaves its tile, main exits, and the thread
\* spawner of every process quits.
AllTerminate ==
  <>(\/ ms.failed # {}
     \/ /\ pc[0] \in {"terminating", "leaving", "done"}
        /\ \A k \in Tids \ {0} : pc[k] \in {"none", "done"}
        /\ \A p \in Procs : spawner[p] = "done")

\* "terminate thread locally so we are ready for new thread requests on that
\* tile" (onThreadExit), and initializeThread's assert that no thread is mapped
\* to the tile: a new thread finds the tile ready.
TileReady == "mapped" \notin ms.failed

\* "wait for all thread spawners to terminate" (terminateThreadSpawners): when
\* they have terminated, main goes on.
MainLeaves == pc[0] = "terminating" ~> pc[0] # "terminating"

=============================================================================

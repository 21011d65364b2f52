# Graphite: models, model checks and proofs

Graphite (`src/mit-carbon-Graphite-baecdec/`) simulates a multicore machine.  The
threads of an application run natively, under Pin, spread over one or more host
processes; each is bound to a simulated *tile*.  What they do natively is only their
computation: every memory access goes through simulated caches, every
synchronisation call through a central server, every spawn and join through a
master, and a clock-skew scheme keeps their simulated clocks together.  The
simulator is itself a distributed, multi-threaded program, and its hard part is what
this directory is about: handlers that run on different threads and processes and
talk by messages.

Paths below are relative to `src/mit-carbon-Graphite-baecdec/common/`.

## 1. The system

| Part | Where | What it does | State here |
|---|---|---|---|
| Application threads | `user/`, `../pin/` | execute the program, call the simulator | environment of all models |
| Core, memory manager | `tile/core/core.cc`, `tile/memory_subsystem/memory_manager.cc` | split accesses; hand the tile's memory lock between the application and the simulation thread | `MsiProtocol` |
| Private-L2 MSI protocol | `tile/memory_subsystem/pr_l1_pr_l2_dram_directory_msi/` | L1, L2 and directory controllers | `MsiProtocol` |
| Directory schemes | `tile/memory_subsystem/directory_schemes/` | sharers of a line, with few or many pointers | `DirectoryEntry` |
| Caches, directory cache, DRAM | `tile/memory_subsystem/cache/`, `dram_cntlr.cc` | sets, victims, contents | part of `MsiProtocol` |
| Shared-L2 MSI, MOSI | `tile/memory_subsystem/pr_l1_sh_l2_msi/`, `..._mosi/` | the other protocols | not modelled |
| MCP | `system/mcp.cc` | one thread; handles the messages of all tiles one by one | `SyncServer`, `ThreadManager`, `Simulator` |
| Synchronisation | `system/sync_server.cc`, `sync_client.cc` | mutexes, conditions, barriers of the application | `SyncServer` |
| Clock skew, lax barrier | `system/clock_skew_management_schemes/lax_barrier_*` | holds back the threads that are ahead | `MasterThreads`, `SyncServer` |
| Clock skew, lax P2P | `.../lax_p2p_sync_client.cc` | random pairs synchronise | not modelled |
| Thread manager, scheduler | `system/thread_manager.cc`, `thread_scheduler.cc` | spawn, start, join, exit, stall, resume | `MasterThreads`, `ThreadManager` |
| LCP, thread spawners | `system/lcp.cc`, `user/thread_support.cc` | each process's control thread and the thread that creates its threads | `ThreadManager`, `Simulator` |
| Tile manager | `system/tile_manager.cc` | binds threads to tiles | part of `ThreadManager` and `Simulator` |
| Start-up, shut-down | `system/simulator.cc`, `user/carbon_user.cc` | processes meet at start and end | `Simulator` |
| Simulation threads | `system/sim_thread.cc`, `sim_thread_manager.cc` | move the packets of a tile from the transport to its queue or handlers | `Simulator` |
| Network | `network/network.cc` | packets between tiles | `netRecv` in `Simulator`; FIFO channels elsewhere |
| Transport | `transport/socktransport.cc` | buffers between nodes, a barrier of the processes | `Transport`, `SockTransport` |
| Host primitives | `misc/semaphore.cc`, `cond.cc` | futex semaphore and condition | `Semaphore`, `FutexSemaphore`; the condition in `Simulator` |
| System calls | `system/syscall_server.cc`, ... | forwarded host calls; futex | not modelled |
| Core, network, queue, DRAM, energy models; statistics | | timing and energy arithmetic | not modelled |

How the modelled parts interact: an application thread that misses in its caches
waits for its tile's simulation thread, which exchanges packets with the simulation
threads of other tiles (`MsiProtocol`).  A thread that synchronises, spawns, joins or
exits sends a packet to the MCP and waits for its answer.  The MCP's handlers share
one table of threads: the sync server, the join and the spawn handlers stall and
resume threads in it, and every stall tells the clock barrier, which waits for
running threads only.  That table and the operations on it are `MasterThreads`, and
the two modules that extend it compose the handlers with the threads, the LCPs and
the spawners that send to them.

Below them all is the host layer, modelled as a chain.  A futex semaphore
(`FutexSemaphore`) implements a counting semaphore (`Semaphore`).  The socket transport
(`SockTransport`, which extends `FutexSemaphore`) implements FIFO channels and a
barrier (`Transport`).  The threads of every process, from the start of the MCP to the
end of `~Simulator`, run on those channels (`Simulator`, which extends `Transport`).
Each link is checked by itself: all three in one state space are out of TLC's reach.

## 2. Modules

| Module | Models | Lines of state |
|---|---|---|
| `DirectoryEntry` | the five sharer schemes, as operators on an entry | none (pure) |
| `MsiProtocol` | the protocol, one action per handler | `app`, `l1`, `l2`, `outst`, `chan`, `dirSet`, `dirRepl`, `reqs`, `busy`, `dram` |
| `MCMsi` | constants for TLC | |
| `MsiInvariant` | the two inductive invariants, `TypeInvariant` and `Coherent` | |
| `MsiTypeProofs` | proof of `TypeInvariant` | |
| `MsiCoherenceProofs` | proof of `Coherent` and of `SingleWriter` | |
| `MasterThreads` | the MCP's thread table, thread manager, scheduler and clock-barrier operations | none (operators on a table) |
| `SyncServer` | sync clients and server, clock-skew clients, thread exit | `script` ... `waking` |
| `MCSync` | programs and constants for TLC | |
| `SyncInvariant` | the inductive invariant of `SyncServer`, `CallsInv` and `ClockInv` | |
| `SyncSteps` | what a step can do to the table, a thread and a queue: the vocabulary of the proofs | |
| `SyncServerSteps`, `SyncServerObjects`, `SyncServerProofs` | proof that it is one, and the theorems | |
| `ThreadManager` | thread lives: threads, master, LCPs, spawners | `pc` ... `terminated` |
| `MCThreads` | constants for TLC | |
| `Semaphore` | what a counting semaphore promises | `count`, `stage`, `on` |
| `FutexSemaphore` | `misc/semaphore.cc` | `sem`, `at` |
| `Transport` | what the transport promises | `chan`, `entered`, `left` |
| `SockTransport` | buffer lists, update threads, ring barrier | `sock`, `list`, `owes`, `updating`, `main`, and the semaphores |
| `SockTransportProofs` | the invariant of the semaphores, that they implement `Semaphore`, and that the semaphore of a node counts its buffer list | |
| `Simulator` | main, thread spawner, MCP, LCP and simulation threads until their end | `main`, `spawner`, `terminated`, `lcp`, `mcp`, `finished`, `procsDone`, `sim`, `inbox`, and the channels |
| `SimulatorInvariant`, `SimulatorProofs` | its inductive invariant, and the proofs | |
| `MCSockTransport`, `MCSimulator` | constants for TLC | |

### DirectoryEntry

`addSharer`, `removeSharer`, `getNumSharers`, `getSharersList` of `full_map`,
`limited_broadcast`, `limited_no_broadcast`, `ackwise` and `limitless`.  An entry is
a state, an owner, a set of named sharers, a count of unnamed ones (`extra`, ackwise)
and an overflow flag.  The asserts of the classes are operators of their own
(`AddSharerAssert`, `RemoveSharerAssert`) that the protocol evaluates.

### MsiProtocol

Every tile has two threads: the application thread, which runs
`L1CacheCntlr::processMemOpFromCore`, and the simulation thread, which runs
`handleMsgFromNetwork`.  Both hold the tile's memory lock, so a handler is one
step; they interleave only where the lock is given up.

* `app[t].pc` is where the application thread is: `idle`; `wait`, in
  `waitForSimThread` after a miss (the lock is free for the simulation thread);
  `woken`, signalled by the simulation thread, which itself waits until the access
  has been retried; `locked`, between the LOCK and the UNLOCK access of an atomic
  instruction, with the lock kept.
* `L1Hit`, `L2Hit`, `Miss`, `Retry`, `Unlock` are the paths of
  `processMemOpFromCore`; `HandleL1Req`, `HandleRep`, `HandleInvReq`,
  `HandleFlushReq`, `HandleWbReq` those of the L2 controller; `HandleL2Req`,
  `HandleInvRep`, `HandleFlushRep`, `HandleWbRep` the entries of the directory
  controller; `Allocate`, `ProcessExReq`, `ProcessShReq`, `ProcessNullify` the request
  processing they call.
* A directory handler that completes a request goes on with the next one in the
  queue of the line.  `busy[h]` is the call still to be made; while it is set no other
  step of tile `h` is possible, which is what the lock gives.
* Evictions and inclusion: inserting a line in the L2 evicts one (nondeterministic
  victim), invalidates its L1 copy and sends INV_REP or FLUSH_REP; inserting in an L1
  clears the `loc` of the line that L1 evicts.
* An assert that fails is recorded in `failed`, and nothing happens any more.
* `mem` is a history variable: what any tile stored last.

Abstractions: a line's contents are one value; a cache is one set of `L1Ways`,
`L2Ways` lines, a directory one set of `DirWays` entries per home, since only lines of
the same set interact; times, energy, statistics and miss types are left out.
`replaceDirectoryEntry` puts a still cached entry into the replaced list, as in the
code, where it stays until the last copy is back (`ProcessNullify`).

### MasterThreads

The table `ms` has, per tile, the status, the join waiter, the completion time, the
stalled mark, the scheduler's queue; the map from thread id to tile; the clock
barrier's clocks, acquire list and next time; the packets on their way from the MCP,
and the asserts that failed.  Operators: `StallThread`, `ResumeThreads`,
`WakeUpWaiter`, `MasterOnThreadExit`; `BarrierWait`, `Signal`, `IsBarrierReached`,
`BarrierRelease`.  A core runs one thread (`max_threads_per_core` is 1, the only value the
thread start path is used with), so a thread is named by its tile here.

Three asserts of the clock-barrier server (lines 64, 107 and 143: the thread "is not running
or initializing") are left out of the operators because they cannot fail: they compare
`isCoreInitializing`, which returns a `bool`, with `INVALID_THREAD_ID`, which is -1.  What
they mean to say is part of the property `StatusFits`.

### SyncServer

The threads run the calls of a program (`script`, from the constant `Programs`), spend
simulated time between them (`Instruction`), synchronise their clock before an
instruction when it is due, block in `netRecv` until the answer, and exit.  The server side
has one action per handler.  `condBroadcast` loops over the waiters and sends as it
goes, so it is several steps (`WakeNext`, `WakeDone`) during which threads run but the MCP
handles nothing else.  `SimBarrier::wait` indexes a `vector<bool>` that is as long as the
number of waiters by tile number: beyond the words the vector owns the bit read is any
(`BeyondResumed`).

### ThreadManager

Full mode.  A thread is named by its thread id; its life is *created* by the spawner,
*started* (`onThreadStart` in Pin's thread-start callback, which looks at the front
of the spawn list without taking it), *run* (after `dequeueThreadSpawnReq`, which also
releases the spawn lock that the spawner took), *spawning*, *joining*, *exiting*
(waiting for the master's answer), *leaving* (before `terminateThread`) and *done*.
Main passes through *terminating*, the polling loop of `terminateThreadSpawners`.  The
threads spawn, join those they spawned, and exit; `MaySpawn` is what a sane
application respects: no more live threads than tiles.

### Semaphore and FutexSemaphore

`at[w]` is where a thread is in `wait()`: before the acquire of line 21 (`lock`), before
FUTEX_WAIT (`futex`), in the kernel (`sleep`), before the acquire of line 32 (`woken`),
past the loop (`passed`).  What runs under `_lock` is one step (`Test`, `Signal`).
FUTEX_WAIT compares the word and sleeps in one step, and may return without a wake-up
(`Interrupted`).  `Semaphore::broadcast` has no caller and is left out.

### Transport and SockTransport

`Transport` has a FIFO channel per sending process and receiving node, `query`, which may
miss what is still on its way from another process, and a barrier nobody leaves
before all have entered it.

In `SockTransport` each node has a reader that calls `recv` again and again, each
process an update thread that moves packets from the sockets to the buffer lists, and a
main thread that sends, passes barriers and runs `~SockTransport`.  Putting a buffer in a
list and signalling its semaphore are two steps (`owes` is the signal still to come),
and so are passing the semaphore and taking the buffer.  The refinement mapping makes a
channel of what the list and the socket hold of a sender.  A socket is a FIFO of
packets, a packet is written in one step, and the update thread may find any non-empty
socket next.  As in `~Simulator`, a process sends only to itself after the first
barrier, and nothing after the last (the exit of process 0's thread spawner, which may come
that late and goes to its own process, is left out here).

### Simulator

The main thread of process 0 makes requests of the MCP and waits in `netRecv` for the
answers, exits (`onThreadExit`) and calls `terminateThreadSpawners`.  That sends
QUIT_THREAD_SPAWNER to every LCP, which signals the spawner of its process; the spawner
sends THREAD_EXIT to the MCP without waiting for an answer; the MCP sends the spawner's tile a
reply that nobody takes and process 0's LCP an acknowledgement, which that LCP counts in
`terminated`.  Main polls until the count is exactly `ProcessCount - 1`, although
`ProcessCount` acknowledgements come: one spawner may still be anywhere on this way when main
goes on, and main hangs if the count has passed that value.

Then `~Simulator` runs: `broadcastFinish`, which waits for the FINISHED acknowledgements of
the other processes, `endMCP`, `LCP::finish`, a barrier, `quitSimThreads`, a barrier, the
deletes.  In the other processes the main thread is the spawner; when it has left its loop it
waits for `m_finished` before it runs `~Simulator` too.  The MCP starts with `initializeCommId`,
which asks every LCP and waits for all replies.  `netRecv` scans the queue of its tile under
`_netQueueLock` and resets the futex word before it gives the lock up; the simulation thread
queues a packet under that lock but broadcasts after it.

The loops that send one message to every process, or to every tile of one, are one step.  The
threads that main has spawned are gone, since main has joined them (`ThreadManager`).  What a
simulation thread, or the spawner of process 0, does after its process has deleted the
objects it uses is not followed.

## 3. Model checks

Twelve runs; the five marked *violation* show places where the code does not do what an
assert or a comment of its own says.

| Run | Instance | Checks | Distinct states |
|---|---|---|---|
| `msi_share` | 3 tiles, 1 line, loads and atomic updates, fair | `TypeOK` `NoAssertFails` `SingleWriter` `RequestAnsweredOnce` `MissServed` | 7,029 |
| `msi_replace` | 2 tiles, 3 lines (one fetched, one loaded, one stored) in 2 directory ways, `limited_no_broadcast` with 1 sharer | `NoAssertFails` `ReplacedNotShadowed` `ReadsLatest` `Coherent` | 227,199 |
| `msi_ackwise` | 2 tiles, 2 lines (one stored to and atomically updated), 1-way L1, 2-way L2, `ackwise` with 1 pointer: broadcasts | `NoAssertFails` `L1DInclusion` `ReadsLatest` `SingleWriter` `AtomicUpdate` | 276,067 |
| `msi_allocate` | *violation*: 2 tiles, 2 lines, 1 directory way | `ReplacementCandidateFound` | |
| `msi_icache` | *violation*: 1 tile fetches and loads 2 lines | `EvictedL1LineInL2` | |
| `sync_programs` | 3 threads; a mutex, a condition signalled or broadcast with or without the mutex, or two barrier rounds; clock barrier, fair | `TypeOK` `NoAssertFails` `MutualExclusion` `StatusFits` `AcquiredIsLate` `SkewBounded` `QuantumBarrier` `BarrierSeparates` `BarrierAdvancesClock` `AllFinish` | 209,641 |
| `sync_resume` | *violation*: a barrier of tiles 0 and 64 | `BarrierResumesAll` | |
| `threads_lives` | main and its first child spawn 3 threads on 2 tiles of 2 processes, fair | `TypeOK` `OnlyReuseFails` `JoinAfterExit` `SpawnLockHandedOver` `StatusAgrees` `AllTerminate` | 27,289 |
| `threads_respawn` | *violation*: a second thread on the tile of the first | `TileReady` | |
| `threads_terminate` | *violation*: the spawners of 2 processes end | `MainLeaves` | |
| `transport_send` | 2 processes, 1 node; three workloads of sends and barriers, fair | `SemTypeOK` `NoLostWakeup` `ListCounted` `KeepsPromise` `Delivered` `AllExit` | 86,912 |
| `simulator_finish` | 2 processes, 4 tiles (main's, two spawners', the MCP's), one request, fair | `WokenForPacket` `MCPQuitsLast` `QuietWhenDeleted` `AllDone` | 134,273 |

Why the bounds are enough for the cases that matter:

* *MSI.*  Two tiles are enough for a call-back to cross an eviction or an upgrade, and for
  a broadcast that reaches a tile that is no sharer any more; three (`msi_share`) for a queue
  at the directory with a sharer to invalidate.  One way in a cache makes every second access an
  eviction.  Three lines for two directory ways make replacement of a cached line
  happen while requests for it are on their way.  One word of two values tells a stale copy
  from the last store.  `MaxInFlight` bounds the packets of a channel in the two runs whose
  scheme broadcasts or evicts sharers: a broadcast INV_REQ is not answered by
  tiles without the line, so nothing in the code limits how many wait at a slow tile.
  All lines have the same home, so the home's own tile is a client of its directory too.
* *Sync.*  Three threads: one may hold, one wait and one signal.  The programs are those
  of `MCSync`: two threads contending for a mutex while the third uses it, two waiters and a
  signaller or broadcaster, two rounds of a barrier.  `MaxTime` bounds simulated time
  at one quantum, which is enough for threads to be held back and released by the
  clock barrier.
* *Threads.*  Two tiles beside main's and three threads: a tile is used again, threads are
  started on both processes, and a child spawns while main does.
* *Transport.*  Two processes are a ring with a first and a last member.  The workloads
  (`Loads`): both processes send to one node, over the socket and directly; one
  sends twice; one sends to itself between two barriers.  Three or more processes, whose ring has
  inner members, and two readers of a node are not covered.  Each semaphore has one waiting
  thread here, so for a semaphore with several `NoLostWakeup` rests on its proof alone.
* *Simulator.*  Two processes, of which one has the MCP: main's request and exit, the exits and
  acknowledgements of two spawners, the replies to `initializeCommId` and the messages of the
  end all cross, and main goes on at the first of two acknowledgements.

Larger instances.  The listed runs are sized to finish in a minute or two each.  Some questions
share a run, and for that some bounds are smaller than they could be.  These instances
were run once, by changing the constants, and TLC found no error:

| Instance | Distinct states |
|---|---|
| `sync_programs` with `MaxTime = 4`, two quanta | 690,412 |
| `msi_ackwise` with 3 tiles, 1 line, 1-way L2, 1 directory way | 357,857 |
| `msi_replace` with `full_map`, 2 sharers, no bound on the channels | 294,769 |
| `msi_ackwise` with `limited_no_broadcast`, checking `Coherent` in place of `SingleWriter` | 42,574 |

Deadlock is checked in the MSI runs (the application always has a next access).  In
the other runs it is not: programs and processes end.  That nothing waits that should
not is what `AllFinish`, `AllTerminate`, `AllExit` and `AllDone` say.

### Fairness

* MSI: weak fairness for a thread that is woken or is within an atomic instruction, and for
  a directory handler to return: the host schedules its threads, and these steps stay possible
  until taken.  Strong fairness for receiving a packet: the simulation thread and the
  application thread of a tile compete for one lock, so that handling a packet is possible
  again and again but not always; a lock that is fair to two threads is assumed, as the
  simulator needs one.  Nothing is assumed of a thread's *first* step of an access.
* Sync and threads: weak fairness for every thread, LCP and spawner (host
  scheduling), and for the MCP taking the packets of every tile (`netRecv` takes
  packets from all senders in turn).
* Transport and simulator: weak fairness for every thread (host scheduling): update threads,
  readers, main threads, LCPs, the MCP, simulation threads.  A main thread need not send, and
  FUTEX_WAIT need not return by itself.

### What the violations show

* `msi_allocate`: `processDirectoryEntryAllocationReq` asserts that some entry of a
  full set has no queued request.  As many tiles with a pending request in one set as it
  has ways break it.
* `msi_icache`: a line read through both L1 caches is recorded in the L2 for the L1-D only.
  When the L2 loses it, the L1-I copy stays; its own eviction later asserts that the L2 has
  the line.
* `sync_resume`: `resumed_tiles` has a bit per waiter and is indexed by tile.  A thread
  may be answered without being resumed, so that the master takes it for stalled.
* `threads_respawn`: the master frees a tile before the exiting thread has left it
  locally; a thread spawned in between fails `initializeThread`'s assert.
* `threads_terminate`: main polls for *exactly* `ProcessCount - 1` acknowledgements
  of spawners while `ProcessCount` come; if the poll misses that value main never ends.
  `AllDone` of `simulator_finish` therefore has this hang as its one exception.

A sixth one has no run of its own: `masterJoinThread` records the waiter for the tile, so
joins of two threads that ran on one tile one after the other may meet and fail its
assert.  `OnlyReuseFails` allows it (it happens with three tiles beside main's).

Nor has a seventh: `quitSimThreads` logs "All threads have exited." but only sends the quit
messages.  In `Simulator` a process may be done while its simulation threads still run;
`~SimThreadManager` warns of it.  And an eighth: "wait for all thread spawners to terminate"
(`thread_manager.cc`, line 543) is not what the poll of `threads_terminate` does even when it
ends.  `MCPQuitsLast` and `QuietWhenDeleted` bound what may be left: the exit of one spawner
when the MCP quits, and at the deletes the simulation threads and the spawner of process 0.

## 4. Proofs

All proofs are checked by TLAPS.  Those about `MsiProtocol` hold for every number of tiles,
lines, values and ways and for every directory scheme, under the assumptions named in the modules: the sets are
finite where their cardinality is taken, `NULL` is no line and no value, `Home` maps lines
to tiles, the program does not store into its code, and `limited_broadcast` is not used with
this protocol (start-up refuses it).

### MsiProtocol

* `MsiTypeProofs!TypeCorrect`: `Spec => []TypeOK`, the property `TypeOK` of
  `msi_share`.
* It rests on `TypeInvariantHolds`: `TypeInvariant == TypeOK /\ Routed /\
  ProcessingQueued` (`MsiInvariant`) is inductive.  `TypeOK` alone is not: a directory
  handler that goes on to a queued request takes the head of the queue of the line, which is
  a request only if the queue is not empty (`ProcessingQueued`), and that its queue is the
  one of this home's line follows from where packets travel (`Routed`: an L2's packets go to
  the line's home, a directory's come from it).
* The module goes from the operators (entries; `Put`, `PutAll` and `Drop` on the channels and
  where packets travel; caches) over the application thread's and the L2 controller's steps
  to the directory's.

* `MsiCoherenceProofs!SingleWriterHolds`: `Spec => [](NamesAllSharers /\ NoAssertFails =>
  SingleWriter)`, the property `SingleWriter` of `msi_share`.  It has two hypotheses.
  `NamesAllSharers`: the scheme is `full_map`, `limited_no_broadcast` or `limitless`; under
  `ackwise` an entry only counts some sharers, and the argument below, which follows each
  copy by name, does not apply (`msi_ackwise` checks that scheme on its instance).
  `NoAssertFails`: no assert of the controllers has failed so far.  The program stops at a
  failing assert, so this says that a run that goes on is coherent; that asserts
  do not fail is a property of its own, checked by the runs and false in general
  (`msi_allocate`, `msi_icache`).
* It rests on `CoherentHolds`: `Spec => []Coherent`, checked on `msi_replace` too.
  `SingleWriter` speaks of the L2 caches only and is not inductive: a second writable copy
  may be in a packet.  `Coherent` therefore follows every *copy* of a line: valid in an L2,
  in an EX_REP or SH_REP on its way there, or in an INV_REP or FLUSH_REP on its way back.
  A tile has at most one (`OneCopy`), and is then a sharer of the line's entry
  (`KnownCopy`); a dirty copy makes the entry MODIFIED; a MODIFIED entry has one sharer at
  most (`SoundEntry`).  A WB_REP is no copy, but shows that the entry is still MODIFIED and
  its sharer no longer dirty.  `ReplacedNotShadowed` is needed as well: the entry a handler
  finds must be the one the copies were recorded in, also while the line's entry is being
  replaced.
* The module first says what a step on one channel and one L2 line does to the copies
  (kept, given up, written back, inserted, returned, granted), then goes through
  the application's and the L2 controller's steps, the directory's sets and its handlers.
  The asserts are used where
  the code relies on them: for a reply from a tile that must be a sharer, for a call-back
  that must find the state it was sent for, and when a sharer is added.

### SyncServer

For every set of tiles, every program and every quantum, both clock-skew schemes.

* `SyncServerProofs!MutexesExclude`: `Spec => []MutualExclusion`; `AcquireListExact`: `Spec =>
  []AcquiredIsLate`; `SkewIsBounded`: `Spec => []SkewBounded`; `Typed`: `Spec => []TypeOK`.
  All four are properties of `sync_programs`.
* They rest on `InvariantHolds`: `Spec => [](CallsInv /\ ClockInv)` (`SyncInvariant`).
  `MutualExclusion` speaks of the threads' view of who holds a mutex, and the server hands a
  mutex over long before the thread hears of it.  `CallsInv` therefore follows every call:
  a thread that has called is a packet to the MCP, an entry of one queue of the server
  (of a mutex, a condition, a barrier, the loop of a broadcast, the clock barrier) or an
  answer in its mail, and there once (`InOnePlace`); what is found there fits the call it is
  making (`RequestFits`, `QueuesFit`, `AnswersFit`); and a mutex that a thread holds, has asked
  to release or has been given is owned by it at the server (`MutexesOwned`).  `ClockInv` adds
  that a thread let go of the clock barrier has not reached it.
* The argument goes by what a step does to a thread: it is left alone, answered with its
  call complete, or moved to one queue (`SyncSteps`).  That `barrierRelease`'s loop ends
  needs that a non-empty set of naturals has a least element, which follows from the
  library's well-founded induction (`LeastNat`).
* TLC finds no violation of `CallsInv /\ ClockInv` on the instance of `sync_programs`.
* Only model-checked: `NoAssertFails`, `StatusFits`, `QuantumBarrier`,
  `BarrierSeparates`, `BarrierAdvancesClock`.  The first three need an invariant that ties the
  status in the master's table to the queues, the last two one about the rounds of a barrier.

### Semaphores and transport

* `SockTransportProofs!NoLostWakeupHolds`: `SemSpec => []NoLostWakeup`, the property
  `NoLostWakeup` of `transport_send`, for any semaphores and any finite set of threads
  (`WaitersAssumption`: `_numWaiting` counts them).  It rests on `SemInvHolds`.
  `NoLostWakeup` alone is not inductive: `signal()` leaves out the FUTEX_WAKE when
  `_numWaiting` is 0, so that count must be exact (`WaitersCounted`), and a thread about to
  sleep must not find the word 0 with a signal left (`SleepsAtZero`).
* `SockTransportProofs!SemTypeOKHolds`: `SemSpec => []SemTypeOK`, from the same invariant: the
  two counters never go below zero.
* `SockTransportProofs!Implements`: `SemSpec => CountingSemaphore`, the refinement of
  `Semaphore`.  A test of the counter that succeeds is `Pass`; one that fails, and what happens
  in the kernel, are stuttering steps.  It is proved only, in no run.

* `SockTransportProofs!ListCountedHolds`: `Spec => []ListCounted`, the property `ListCounted` of
  `transport_send`, for any number of processes and nodes and any workload
  (`SockAssumption`: every node belongs to a process, and node numbers differ from the tags the
  transport uses itself).  So `recv` never takes from an empty list after `wait()`, whoever
  sends meanwhile.  The inductive invariant is `SockInv`.  It adds to `ListCounted` that a
  thread waits on its own semaphore only (else another thread could use up the signal of a
  buffer), that a socket holds only packets for the process at its end (else `updateBufferLists`
  would take another process's barrier packet for a buffer), and `SemInv`: every step of the transport is a step of
  its semaphores or leaves them alone, so the lemma `SemStepInv` about the
  semaphores carries it over.  TLC also finds no violation of `SockInv` on the instance of `transport_send`.

* Only model-checked: the refinement of `Transport` (`KeepsPromise`).  A channel is mapped to
  what `SelectSeq` finds in a list and a socket; what that recursive operator returns for every
  sequence is an induction over data.

### Simulator

For any number of processes, tiles and requests.

* `SimulatorProofs!NoPacketMissed`: `Spec => []WokenForPacket`.  A thread in `netRecv` that
  sleeps, or is about to with the futex word reset, has no packet it wants in its queue unless
  the simulation thread is between queueing one and its broadcast.  It is inductive with the types
  of the queues.
* `SimulatorProofs!MCPOutlivesRequests`: `Spec => []MCPQuitsLast`.  When the MCP leaves its loop,
  main has had all its answers and waits for none, and at most one spawner's exit is not
  handled.  It rests on `HostInvHolds`: `Spec => []HostInv` (`SimulatorInvariant`).
  `MCPQuitsLast` alone is not inductive: what is left when the MCP quits depends on who sent
  MCP_QUIT, and when.  `HostInv` follows three things.  Main's request, or its exit, and the
  answer are one token, in one place and there once, which keeps main waiting.  So is the end of
  each spawner: told to quit, exit sent, queued, being served, acknowledged, counted; hence the
  count `terminated` is at most the number of spawners that have come all the way, and main goes
  on only when all but one have.  And everything that leads to the end of the MCP, the FINISHED and
  MCP_QUIT packets, the LCPs that handle them, the main threads past their polls, comes after
  that.
* TLC finds no violation of `HostInv` on the instance of `simulator_finish`.
* Only model-checked: `QuietWhenDeleted`.  It needs the replies to `initializeCommId` and the
  FINISHED acknowledgements to be counted over all processes.

### What is only model-checked

All other properties.  In `MsiProtocol` the others of the three passing runs: that the asserts
hold is false in general (`msi_allocate`, `msi_icache`); `ReadsLatest` and `AtomicUpdate` need the
values in the packets followed as well; `RequestAnsweredOnce` and `L1DInclusion` need invariants of
their own about the queues of requests and the L1 caches.  In `ThreadManager` all.  Liveness (`MissServed`, `AllFinish`, `AllTerminate`, `Delivered`, `AllExit`,
`AllDone`) is beyond the prover.

## 5. Not modelled

* Timing, energy and statistics: arithmetic of one thread, or reporting.
* The shared-L2 MSI protocol, which `carbon_sim.cfg` selects, and MOSI: each is as large as
  the protocol modelled here and shares only the directory entries with it.
* Lax P2P: random pairs and wall-clock sleeps; what it promises needs real time.
* Accesses that straddle lines; routing, forwarding and queueing in the networks.
* The set-up of the sockets, the bytes of a packet and checksums.  `barrier()` writes to a socket
  without the lock that `send` takes; that one small write is not split is the host's.
* Simulation threads, and the spawner of process 0, after their process has deleted its objects.
* A condition variable with two waiters; `netRecv` has one per tile here.
* `smtransport.cc` and `Semaphore::broadcast`, which nothing uses.
* System calls; lite mode; thread yielding and migration (`ThreadScheduler::create` fixes scheme
  `none`); several threads per core; performance counters.

`PROJECT.json` lists all components with the reason.

## 6. What could come next

1. `MsiProtocol`: from `Coherent`, that the asserts of the L2 controller and of the
   directory's reply handlers cannot fail; then `ReadsLatest`.
2. `SyncServer`: from `CallsInv`, that a thread is STALLED in the master's table exactly while
   it is in a queue, and with that the asserts; `Simulator`: `QuietWhenDeleted`.
3. The shared-L2 protocol, then MOSI, both against an abstract memory of one value per line.
4. Pure algorithms: the free-interval lists of the history queue models, LRU order, access
   splitting, against reference definitions.

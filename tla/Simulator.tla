----------------------------- MODULE Simulator -----------------------------
(***************************************************************************)
(* The host processes of a simulation until their end: the main thread of  *)
(* each process (system/simulator.cc, user/carbon_user.cc), its thread     *)
(* spawner (thread_manager.cc, user/thread_support.cc), its LCP thread     *)
(* (lcp.cc), the MCP thread (mcp.cc, tile_manager.cc), one simulation      *)
(* thread per tile (sim_thread.cc, sim_thread_manager.cc) that moves       *)
(* packets from the transport to the queue of the tile, and netRecv        *)
(* (network/network.cc) with its condition variable (misc/cond.cc), which  *)
(* takes them from there.  The threads that main has spawned are gone,     *)
(* main has joined them (ThreadManager).                                   *)
(***************************************************************************)
EXTENDS Transport, Functions

CONSTANTS Tiles,
          MCPTile,      \* getMCPTileNum
          MainTile,     \* the tile of the application's main thread
          SpawnerTile,  \* getThreadSpawnerTileNum
          Requests,     \* how many requests main makes of the MCP before its exit
          NULL

Tile(t) == <<"tile", t>>
Global(p) == <<"global", p>>
AllNodes == {Tile(t) : t \in Tiles} \cup {Global(p) : p \in Procs}
Home(t) == ProcOf[Tile(t)]
LocalTiles(p) == {t \in Tiles : Home(t) = p}
SpawnerTiles == {SpawnerTile[p] : p \in Procs}

ASSUME TileAssumption ==
  /\ Nodes = AllNodes /\ \A p \in Procs : ProcOf[Global(p)] = p
  /\ MCPTile \in Tiles /\ MainTile \in Tiles \ {MCPTile}
  /\ Home(MCPTile) = 0 /\ Home(MainTile) = 0
  /\ SpawnerTile \in [Procs -> Tiles \ {MCPTile, MainTile}]
  /\ \A p \in Procs : Home(SpawnerTile[p]) = p
  /\ Requests \in Nat

VARIABLES main,       \* the next step of the main thread of a process, and how
                      \* many requests it has left
          spawner,    \* whether a thread spawner waits on m_thread_spawn_sem,
                      \* has been told to quit, or has
          terminated, \* m_thread_spawners_terminated of process 0
          lcp,        \* what the LCP thread does
          mcp,        \* the next step of the MCP thread, and the LCPs that
                      \* initializeCommId has asked and not heard from
          finished,   \* Simulator::m_finished
          procsDone,  \* m_num_procs_finished of process 0
          sim,        \* the next step of a simulation thread, and its flag cont
          inbox       \* _netQueue of a tile, the word of _netQueueCond, where
                      \* the thread that calls netRecv is and what it got

lcpVars == <<lcp, terminated, finished, procsDone>>
hostVars == <<main, spawner, mcp, lcpVars>>
tileVars == <<sim, inbox>>
vars == <<transportVars, hostVars, tileVars>>

Init ==
  /\ TransportInit
  /\ main = [p \in Procs |-> [pc |-> IF p = 0 THEN "app" ELSE "spawner",
                              requests |-> IF p = 0 THEN Requests ELSE 0]]
  /\ spawner = [p \in Procs |-> "wait"]
  /\ terminated = 0
  /\ lcp = [p \in Procs |-> "recv"]
  /\ mcp = [pc |-> "start", asked |-> 0]
  /\ finished = [p \in Procs |-> FALSE]
  /\ procsDone = 0
  /\ sim = [t \in Tiles |-> [pc |-> "recv", cont |-> TRUE]]
  /\ inbox = [t \in Tiles |-> [queue |-> << >>, futx |-> 0, rx |-> "out", got |-> NULL]]

\* Messages to an LCP, to the MCP, to main or a spawner and to simulation
\* threads.  The tile is that of the thread a request, or an ack, is about.
MessageTypes ==
  {"COMM_ID_UPDATE", "QUIT_SPAWNER", "QUIT_SPAWNER_ACK", "FINISHED", "FINISHED_ACK", "LCP_QUIT",
   "COMM_ID_REPLY", "MCP_REQUEST", "THREAD_EXIT", "MCP_QUIT",
   "MCP_RESPONSE", "EXIT_REPLY", "TERMINATE_THREADS"}
AllMessages == [type : MessageTypes, tile : Tiles \cup {NULL}]
Message(type) == [type |-> type, tile |-> NULL]
About(t, type) == [type |-> type, tile |-> t]

SpawnerExit(p) == About(SpawnerTile[p], "THREAD_EXIT")

\* Process p sends out[n] to every node n that out has a message for.
SendAll(p, out) ==
  /\ chan' = [chan EXCEPT ![p] = [n \in Nodes |->
                IF n \in DOMAIN out THEN Append(@[n], out[n]) ELSE @[n]]]
  /\ UNCHANGED <<entered, left>>
-----------------------------------------------------------------------------
(* Simulation threads.  One that still runs when its process has deleted   *)
(* the tiles and the transport is not followed any further.  The callbacks *)
(* at its start and its exit only count, for the log and a warning.        *)

AtSim(t, pc) == sim[t].pc = pc /\ main[Home(t)].pc # "done"

\* netPullFromTransport up to its broadcast.  The callback of
\* SIM_THREAD_TERMINATE_THREADS runs at once; every other packet of this
\* model has none and is for netRecv.
SimPulls(t, p) ==
  LET msg == Head(chan[p][Tile(t)])
  IN  /\ AtSim(t, "recv")
      /\ Recv(p, Tile(t))
      /\ \/ /\ msg.type = "TERMINATE_THREADS"
            /\ sim' = [sim EXCEPT ![t] = [pc |-> "query", cont |-> FALSE]]
            /\ UNCHANGED inbox
         \/ /\ msg.type # "TERMINATE_THREADS"
            /\ inbox' = [inbox EXCEPT ![t].queue = Append(@, msg)]
            /\ sim' = [sim EXCEPT ![t].pc = "broadcast"]
      /\ UNCHANGED hostVars

\* Mutant: broadcast wakes the sleepers only.
SimBroadcasts_NoWord(t) ==
  /\ AtSim(t, "broadcast")
  /\ inbox' = [inbox EXCEPT ![t].rx = IF @ = "sleep" THEN "scan" ELSE @]
  /\ sim' = [sim EXCEPT ![t].pc = IF sim[t].cont THEN "recv" ELSE "query"]
  /\ UNCHANGED <<transportVars, hostVars>>

\* ConditionVariable::broadcast, after _netQueueLock has been released.  While
\* cont holds the loops go on, whatever query() says.
SimBroadcasts(t) ==
  /\ AtSim(t, "broadcast")
  /\ inbox' = [inbox EXCEPT ![t].futx = 1, ![t].rx = IF @ = "sleep" THEN "scan" ELSE @]
  /\ sim' = [sim EXCEPT ![t].pc = IF sim[t].cont THEN "recv" ELSE "query"]
  /\ UNCHANGED <<transportVars, hostVars>>

\* The loop conditions when cont is false: query() decides.
SimQueries(t) ==
  /\ AtSim(t, "query")
  /\ \E more \in Query(Tile(t)) : sim' = [sim EXCEPT ![t].pc = IF more THEN "recv" ELSE "done"]
  /\ UNCHANGED <<transportVars, hostVars, inbox>>
-----------------------------------------------------------------------------
(* Network::netRecv with ConditionVariable::wait.                          *)

\* What the thread on tile t receives.
Matches(t, msg) ==
  \/ t = MainTile /\ main[0].pc = "await" /\ msg.type = "MCP_RESPONSE"
  \/ t = MainTile /\ main[0].pc = "exit" /\ msg.type = "EXIT_REPLY"
  \/ t = MCPTile /\ mcp.pc = "commId" /\ msg.type = "COMM_ID_REPLY"
  \/ t = MCPTile /\ mcp.pc # "commId" /\ msg.type \in {"MCP_REQUEST", "THREAD_EXIT", "MCP_QUIT"}

Hits(t) == {i \in DOMAIN inbox[t].queue : Matches(t, inbox[t].queue[i])}

\* The queue without its i-th packet.
Erase(queue, i) == [j \in 1 .. Len(queue) - 1 |-> queue[IF j < i THEN j ELSE j + 1]]

\* _netQueueLock is held from the scan to the reset of the futex word.
NetRecvScans(t) ==
  /\ inbox[t].rx = "scan"
  /\ \/ /\ Hits(t) = {}
        /\ inbox' = [inbox EXCEPT ![t].futx = 0, ![t].rx = "futex"]
     \/ \E i \in Hits(t) :
          /\ \A j \in Hits(t) : i <= j
          /\ inbox' = [inbox EXCEPT ![t].queue = Erase(@, i), ![t].rx = "got",
                                    ![t].got = inbox[t].queue[i]]
  /\ UNCHANGED <<transportVars, hostVars, sim>>

FutexWait(t) ==
  /\ inbox[t].rx = "futex"
  /\ inbox' = [inbox EXCEPT ![t].rx = IF inbox[t].futx = 0 THEN "sleep" ELSE "scan"]
  /\ UNCHANGED <<transportVars, hostVars, sim>>

\* FUTEX_WAIT returns without a wake-up.
Interrupted(t) ==
  /\ inbox[t].rx = "sleep"
  /\ inbox' = [inbox EXCEPT ![t].rx = "scan"]
  /\ UNCHANGED <<transportVars, hostVars, sim>>

\* A thread takes what netRecv returned; it calls it again, or not.
Took(t, rx) == [inbox EXCEPT ![t].rx = rx, ![t].got = NULL]
-----------------------------------------------------------------------------
(* The MCP thread.                                                         *)

\* initializeCommId asks the LCP of every process ...
MCPAsks ==
  /\ mcp.pc = "start"
  /\ Send(0, Global(mcp.asked), Message("COMM_ID_UPDATE"))
  /\ mcp' = [pc |-> IF mcp.asked + 1 = NumProcs THEN "commId" ELSE "start", asked |-> mcp.asked + 1]
  /\ inbox' = IF mcp.asked + 1 = NumProcs THEN Took(MCPTile, "scan") ELSE inbox
  /\ UNCHANGED <<main, spawner, lcpVars, sim>>

\* ... and waits for as many replies.
MCPHears ==
  /\ mcp.pc = "commId" /\ inbox[MCPTile].rx = "got"
  /\ mcp' = [pc |-> IF mcp.asked = 1 THEN "serve" ELSE "commId", asked |-> mcp.asked - 1]
  /\ inbox' = Took(MCPTile, "scan")
  /\ UNCHANGED <<transportVars, main, spawner, lcpVars, sim>>

\* What masterOnThreadExit sends: a reply to the tile, which only main takes,
\* and for a spawner the ack to the LCP of process 0.
ExitMessages(t) ==
  [n \in {Tile(t)} \cup (IF t \in SpawnerTiles THEN {Global(0)} ELSE {}) |->
     IF n = Tile(t) THEN Message("EXIT_REPLY") ELSE About(t, "QUIT_SPAWNER_ACK")]

\* processPacket: a request is answered, MCP_MESSAGE_QUIT ends the loop.
MCPServes ==
  LET msg == inbox[MCPTile].got
  IN  /\ mcp.pc = "serve" /\ inbox[MCPTile].rx = "got"
      /\ \/ /\ msg.type = "MCP_REQUEST"
            /\ Send(0, Tile(msg.tile), Message("MCP_RESPONSE"))
            /\ inbox' = Took(MCPTile, "scan")
            /\ UNCHANGED mcp
         \/ /\ msg.type = "THREAD_EXIT"
            /\ SendAll(0, ExitMessages(msg.tile))
            /\ inbox' = Took(MCPTile, "scan")
            /\ UNCHANGED mcp
         \/ /\ msg.type = "MCP_QUIT"
            /\ mcp' = [mcp EXCEPT !.pc = "done"]
            /\ inbox' = Took(MCPTile, "out")
            /\ UNCHANGED transportVars
      /\ UNCHANGED <<main, spawner, lcpVars, sim>>
-----------------------------------------------------------------------------
(* The LCP thread.                                                         *)

\* Mutant: updateCommId does not reply.
LCPCommId_NoReply(p) ==
  /\ lcp[p] = "COMM_ID_UPDATE"
  /\ lcp' = [lcp EXCEPT ![p] = "recv"]
  /\ UNCHANGED <<transportVars, main, spawner, mcp, terminated, finished, procsDone, tileVars>>

\* updateCommId.
LCPCommId(p) ==
  /\ lcp[p] = "COMM_ID_UPDATE"
  /\ Send(p, Tile(MCPTile), Message("COMM_ID_REPLY"))
  /\ lcp' = [lcp EXCEPT ![p] = "recv"]
  /\ UNCHANGED <<main, spawner, mcp, terminated, finished, procsDone, tileVars>>

\* handleFinish: the ack, then m_finished.
LCPFinishes(p) ==
  /\ \/ /\ lcp[p] = "FINISHED"
        /\ Send(p, Global(0), Message("FINISHED_ACK"))
        /\ lcp' = [lcp EXCEPT ![p] = "acked"]
        /\ UNCHANGED finished
     \/ /\ lcp[p] = "acked"
        /\ finished' = [finished EXCEPT ![p] = TRUE]
        /\ lcp' = [lcp EXCEPT ![p] = "recv"]
        /\ UNCHANGED transportVars
  /\ UNCHANGED <<main, spawner, mcp, terminated, procsDone, tileVars>>

\* processPacket.  What a message makes the LCP do is a step of its own where
\* it sends; slaveTerminateThreadSpawner, updateTerminateThreadSpawner,
\* deallocateProcess and LCP_MESSAGE_QUIT are done with the message.
LCPProcesses(p, q) ==
  LET type == Head(chan[q][Global(p)]).type
  IN  /\ lcp[p] = "recv"
      /\ Recv(q, Global(p))
      /\ lcp' = [lcp EXCEPT ![p] = CASE type \in {"COMM_ID_UPDATE", "FINISHED"} -> type
                                     [] type = "LCP_QUIT" -> "done"
                                     [] OTHER -> "recv"]
      /\ spawner' = IF type = "QUIT_SPAWNER" THEN [spawner EXCEPT ![p] = "quit"] ELSE spawner
      /\ terminated' = IF type = "QUIT_SPAWNER_ACK" THEN terminated + 1 ELSE terminated
      /\ procsDone' = IF type = "FINISHED_ACK" THEN procsDone + 1 ELSE procsDone
      /\ UNCHANGED <<main, mcp, finished, tileVars>>
-----------------------------------------------------------------------------
(* The thread spawner, which in a process other than 0 is the main thread. *)

\* It takes the null request, leaves its loop and does not wait for the
\* reply to its exit.  That of process 0 is not followed beyond the deletes.
SpawnerExits(p) ==
  /\ spawner[p] = "quit" /\ main[p].pc # "done"
  /\ Send(p, Tile(MCPTile), SpawnerExit(p))
  /\ spawner' = [spawner EXCEPT ![p] = "done"]
  /\ UNCHANGED <<main, mcp, lcpVars, tileVars>>
-----------------------------------------------------------------------------
(* The main thread.  That of process 0 asks the MCP and waits for answers, *)
(* exits and ends the spawners; then ~Simulator runs, in every process.    *)

Goes(p, pc) == main' = [main EXCEPT ![p].pc = pc]

MainRequests ==
  /\ main[0].pc = "app" /\ main[0].requests > 0
  /\ Send(0, Tile(MCPTile), About(MainTile, "MCP_REQUEST"))
  /\ inbox' = Took(MainTile, "scan")
  /\ main' = [main EXCEPT ![0].pc = "await", ![0].requests = @ - 1]
  /\ UNCHANGED <<spawner, mcp, lcpVars, sim>>

MainAnswered ==
  /\ main[0].pc = "await" /\ inbox[MainTile].rx = "got"
  /\ inbox' = Took(MainTile, "out")
  /\ Goes(0, "app")
  /\ UNCHANGED <<transportVars, spawner, mcp, lcpVars, sim>>

\* ThreadManager::onThreadExit up to the reply.
MainExits ==
  /\ main[0].pc = "app" /\ main[0].requests = 0
  /\ Send(0, Tile(MCPTile), About(MainTile, "THREAD_EXIT"))
  /\ inbox' = Took(MainTile, "scan")
  /\ Goes(0, "exit")
  /\ UNCHANGED <<spawner, mcp, lcpVars, sim>>

\* Mutant: main does not wait for the spawners.
TerminateThreadSpawners_NoWait ==
  /\ main[0].pc = "exit" /\ inbox[MainTile].rx = "got"
  /\ inbox' = Took(MainTile, "out")
  /\ SendAll(0, [n \in {Global(q) : q \in Procs} |-> Message("QUIT_SPAWNER")])
  /\ Goes(0, "finish")
  /\ UNCHANGED <<spawner, mcp, lcpVars, sim>>

TerminateThreadSpawners ==
  /\ main[0].pc = "exit" /\ inbox[MainTile].rx = "got"
  /\ inbox' = Took(MainTile, "out")
  /\ SendAll(0, [n \in {Global(q) : q \in Procs} |-> Message("QUIT_SPAWNER")])
  /\ Goes(0, "spawners")
  /\ UNCHANGED <<spawner, mcp, lcpVars, sim>>

BroadcastFinish ==
  /\ main[0].pc = "finish"
  /\ procsDone' = 1
  /\ SendAll(0, [n \in {Global(q) : q \in Procs \ {0}} |-> Message("FINISHED")])
  /\ Goes(0, "acks")
  /\ UNCHANGED <<spawner, mcp, lcp, terminated, finished, tileVars>>

\* The loops in which the main thread yields until another thread is done.
\* The first leaves at one ack fewer than there are spawners, and only then.
MainSpins(p) ==
  /\ \/ /\ main[p].pc = "spawners" /\ terminated = NumProcs - 1
        /\ Goes(p, "finish")
     \/ /\ main[p].pc = "spawner" /\ spawner[p] = "done" /\ finished[p]
        /\ Goes(p, "endMCP")
     \/ /\ main[p].pc = "acks" /\ procsDone >= NumProcs
        /\ Goes(p, "endMCP")
     \/ /\ main[p].pc = "mcpWait" /\ mcp.pc = "done"
        /\ Goes(p, "endLCP")
     \/ /\ main[p].pc = "lcpWait" /\ lcp[p] = "done"
        /\ Goes(p, "barrier")
  /\ UNCHANGED <<transportVars, spawner, mcp, lcpVars, tileVars>>

\* endMCP and MCP::finish.
EndMCP(p) ==
  /\ main[p].pc = "endMCP"
  /\ \/ /\ Home(MCPTile) = p
        /\ Send(p, Tile(MCPTile), Message("MCP_QUIT"))
        /\ Goes(p, "mcpWait")
     \/ /\ Home(MCPTile) # p
        /\ Goes(p, "endLCP")
        /\ UNCHANGED transportVars
  /\ UNCHANGED <<spawner, mcp, lcpVars, tileVars>>

\* Mutant: LCP::finish does not wait for the LCP.
EndLCP_NoWait(p) ==
  /\ main[p].pc = "endLCP"
  /\ Send(p, Global(p), Message("LCP_QUIT"))
  /\ Goes(p, "barrier")
  /\ UNCHANGED <<spawner, mcp, lcpVars, tileVars>>

\* LCP::finish.
EndLCP(p) ==
  /\ main[p].pc = "endLCP"
  /\ Send(p, Global(p), Message("LCP_QUIT"))
  /\ Goes(p, "lcpWait")
  /\ UNCHANGED <<spawner, mcp, lcpVars, tileVars>>

\* The barriers before and after quitSimThreads.
MainEnters(p) ==
  /\ main[p].pc = "barrier"
  /\ Enter(p)
  /\ Goes(p, "inBarrier")
  /\ UNCHANGED <<spawner, mcp, lcpVars, tileVars>>

MainLeaves(p) ==
  /\ main[p].pc = "inBarrier"
  /\ Leave(p)
  /\ Goes(p, IF left[p] = 0 THEN "quit" ELSE "delete")
  /\ UNCHANGED <<spawner, mcp, lcpVars, tileVars>>

QuitSimThreads(p) ==
  /\ main[p].pc = "quit"
  /\ SendAll(p, [n \in {Tile(t) : t \in LocalTiles(p)} |-> Message("TERMINATE_THREADS")])
  /\ Goes(p, "barrier")
  /\ UNCHANGED <<spawner, mcp, lcpVars, tileVars>>

\* The deletes of ~Simulator.
Deletes(p) ==
  /\ main[p].pc = "delete"
  /\ Goes(p, "done")
  /\ UNCHANGED <<transportVars, spawner, mcp, lcpVars, tileVars>>
-----------------------------------------------------------------------------
SimStep(t) ==
  \/ SimBroadcasts(t) \/ SimQueries(t)
  \/ \E p \in Procs : SimPulls(t, p)
NetRecvStep(t) == NetRecvScans(t) \/ FutexWait(t)
MCPStep == MCPAsks \/ MCPHears \/ MCPServes \/ NetRecvStep(MCPTile)
LCPStep(p) == LCPCommId(p) \/ LCPFinishes(p) \/ \E q \in Procs : LCPProcesses(p, q)
AppStep == MainRequests \/ MainAnswered \/ MainExits \/ TerminateThreadSpawners \/ BroadcastFinish
MainStep(p) ==
  \/ MainSpins(p) \/ EndMCP(p) \/ EndLCP(p)
  \/ MainEnters(p) \/ MainLeaves(p) \/ QuitSimThreads(p) \/ Deletes(p)
  \/ p = 0 /\ (AppStep \/ NetRecvStep(MainTile))

Next ==
  \/ \E t \in Tiles : SimStep(t) \/ Interrupted(t)
  \/ \E p \in Procs : LCPStep(p) \/ SpawnerExits(p) \/ MainStep(p)
  \/ MCPStep

\* The host runs every thread, and recv() serves every sender.
Fairness ==
  /\ \A t \in Tiles : WF_vars(SimStep(t))
  /\ \A p \in Procs : WF_vars(LCPStep(p)) /\ WF_vars(SpawnerExits(p)) /\ WF_vars(MainStep(p))
  /\ WF_vars(MCPStep)

Spec == Init /\ [][Next]_vars
FairSpec == Spec /\ Fairness
-----------------------------------------------------------------------------
\* netRecv misses no packet: if it sleeps, or is about to, while a packet it
\* wants is in the queue, the simulation thread has still to broadcast.  The
\* packet is queued under _netQueueLock, the broadcast and FUTEX_WAIT are not.
WokenForPacket ==
  \A t \in Tiles :
    (inbox[t].rx = "sleep" \/ (inbox[t].rx = "futex" /\ inbox[t].futx = 0)) /\ Hits(t) # {}
      => sim[t].pc = "broadcast"

InFlight == UNION {Range(chan[p][n]) : p \in Procs, n \in Nodes}

\* The MCP has handled the exit of thread spawner p.
ExitHandled(p) ==
  /\ spawner[p] = "done"
  /\ SpawnerExit(p) \notin InFlight \cup Range(inbox[MCPTile].queue)
  /\ ~ (inbox[MCPTile].rx = "got" /\ inbox[MCPTile].got = SpawnerExit(p))

\* Of the thread spawners at most one has an exit that the MCP, when it leaves
\* its loop, has not handled, be it unsent, under way or queued; and nobody
\* waits for an answer.
MCPQuitsLast ==
  mcp.pc = "done" =>
    /\ main[0].requests = 0 /\ main[0].pc \notin {"await", "exit"}
    /\ Cardinality({p \in Procs : ~ ExitHandled(p)}) <= 1

\* When a process deletes the transport and its tiles, the MCP and the LCPs of
\* all processes have ended, and of the thread spawners only that of process
\* 0 may be left.  No message to an LCP and no answer that somebody waits for
\* is lost: what is under way is for simulation threads, a reply to a spawner,
\* or the exit of a spawner.
QuietWhenDeleted ==
  (\E p \in Procs : main[p].pc \in {"delete", "done"}) =>
    /\ mcp.pc = "done" /\ \A p \in Procs : lcp[p] = "done"
    /\ \A p \in Procs \ {0} : spawner[p] = "done"
    /\ \A p \in Procs, n \in Nodes : \A msg \in Range(chan[p][n]) :
         \/ msg.type = "TERMINATE_THREADS"
         \/ msg.type = "EXIT_REPLY" /\ n \in {Tile(t) : t \in SpawnerTiles}
         \/ msg.type = "THREAD_EXIT" /\ msg.tile \in SpawnerTiles

\* Every process gets through ~Simulator, unless main has missed the one count
\* of acks at which terminateThreadSpawners returns.
AllDone ==
  <>(\/ \A p \in Procs : main[p].pc = "done"
     \/ main[0].pc = "spawners" /\ terminated > NumProcs - 1)
=============================================================================

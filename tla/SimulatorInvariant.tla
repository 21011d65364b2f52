------------------------ MODULE SimulatorInvariant ------------------------
(***************************************************************************)
(* The inductive invariants of Simulator.  What ends a thread spawner, its *)
(* exit and the ack for it are one token, which is in one place at a time, *)
(* so that each spawner is counted once; everything that ends the MCP      *)
(* comes after main has counted all spawners but one.                      *)
(***************************************************************************)
EXTENDS Simulator

MainPCs == {"app", "await", "exit", "spawners", "finish", "spawner", "acks", "endMCP", "mcpWait",
            "endLCP", "lcpWait", "barrier", "inBarrier", "quit", "delete", "done"}

MainRec == [pc : MainPCs, requests : Nat]
SimRec == [pc : {"recv", "broadcast", "query", "done"}, cont : BOOLEAN]
InboxRec == [queue : Seq(AllMessages), futx : {0, 1},
             rx : {"out", "scan", "futex", "sleep", "got"}, got : AllMessages \cup {NULL}]

\* The types of the channels, the threads and the tiles' queues.
TypeOK ==
  /\ chan \in [Procs -> [Nodes -> Seq(AllMessages)]]
  /\ main \in [Procs -> MainRec]
  /\ spawner \in [Procs -> {"wait", "quit", "done"}]
  /\ terminated \in Nat
  /\ mcp \in [pc : {"start", "commId", "serve", "done"}, asked : Int]
  /\ sim \in [Tiles -> SimRec]
  /\ inbox \in [Tiles -> InboxRec]

-----------------------------------------------------------------------------
(* The end of a thread spawner *)

\* Main has not called terminateThreadSpawners, ...
Early == main[0].pc \in {"app", "await", "exit"}
\* ... has not returned from it, has not told the MCP to quit.
Counting == Early \/ main[0].pc = "spawners"
Ending == ~ (Counting \/ main[0].pc \in {"finish", "acks", "endMCP", "spawner"})

Quit == Message("QUIT_SPAWNER")
Ack(p) == About(SpawnerTile[p], "QUIT_SPAWNER_ACK")

\* Where the token can be, and that it is in one of these places, and there
\* once.
Once(s, msg) == \A i, j \in DOMAIN s : s[i] = msg /\ s[j] = msg => i = j
ToLCP(p) == chan[0][Global(p)]
ToMCP(p) == chan[p][Tile(MCPTile)]
Returned(t, msg) == inbox[t].rx = "got" /\ inbox[t].got = msg

Asked(p) == Quit \in Range(ToLCP(p))
Sent(p) == SpawnerExit(p) \in Range(ToMCP(p))
Queued(p) == SpawnerExit(p) \in Range(inbox[MCPTile].queue)
Served(p) == Returned(MCPTile, SpawnerExit(p))
Acked(p) == Ack(p) \in Range(ToLCP(0))

InOnePlace(p) ==
  /\ Once(ToLCP(p), Quit)
  /\ Once(ToMCP(p), SpawnerExit(p)) /\ Once(inbox[MCPTile].queue, SpawnerExit(p))
  /\ Once(ToLCP(0), Ack(p))
  /\ Sent(p) => ~ (Queued(p) \/ Served(p) \/ Acked(p))
  /\ Queued(p) => ~ (Served(p) \/ Acked(p))
  /\ Served(p) => ~ Acked(p)

\* A spawner whose exit or ack is under way is done; it has been told to quit
\* only when main ends the spawners, and only once.
SpawnerOK(p) ==
  /\ InOnePlace(p)
  /\ Sent(p) \/ Queued(p) \/ Served(p) \/ Acked(p) => spawner[p] = "done"
  /\ Asked(p) => spawner[p] = "wait"
  /\ Early => spawner[p] = "wait" /\ ~ Asked(p)

\* The spawners that updateTerminateThreadSpawner has counted, or whose token
\* is lost: no fewer than main knows of.
Counted == {p \in Procs : spawner[p] = "done" /\ ~ (Sent(p) \/ Queued(p) \/ Served(p) \/ Acked(p))}

CountOK ==
  /\ terminated <= Cardinality(Counted)
  /\ ~ Counting => terminated >= NumProcs - 1

-----------------------------------------------------------------------------
(* The packets and the end of the MCP *)

\* What process p can have under way to node n, and what can be queued.
Queueable(msg) ==
  /\ msg.type \in {"MCP_REQUEST", "THREAD_EXIT"} => msg.tile \in Tiles
  /\ msg.type = "MCP_QUIT" => Ending
Sendable(p, n, msg) ==
  /\ Queueable(msg)
  /\ msg.type = "QUIT_SPAWNER" => p = 0 /\ msg = Quit
  /\ msg.type = "QUIT_SPAWNER_ACK" => p = 0 /\ n = Global(0) /\ msg.tile \in SpawnerTiles
  /\ msg.type = "THREAD_EXIT" => p = Home(msg.tile) /\ n = Tile(MCPTile)

PacketsOK ==
  /\ \A p \in Procs, n \in Nodes : \A msg \in Range(chan[p][n]) : Sendable(p, n, msg)
  /\ \A t \in Tiles : \A msg \in Range(inbox[t].queue) : Queueable(msg)
  /\ \A t \in Tiles : inbox[t].rx = "got" => inbox[t].got \in AllMessages /\ Queueable(inbox[t].got)

EndsLate ==
  /\ mcp.pc = "done" => Ending
  /\ main[0].pc \notin {"app", "await"} => main[0].requests = 0

\* The inductive invariant of the host threads.
HostInv ==
  /\ TypeOK /\ PacketsOK /\ EndsLate /\ CountOK
  /\ \A p \in Procs : SpawnerOK(p)

-----------------------------------------------------------------------------
(* What a step can do to the packets *)

\* Sequence r has no more of msg than s.
Kept(s, r, msg) == (msg \in Range(r) => msg \in Range(s)) /\ (Once(s, msg) => Once(r, msg))

\* Each channel stays as it is, loses its head or gains a message of M.
Flows(M) ==
  /\ chan' \in [Procs -> [Nodes -> Seq(AllMessages)]]
  /\ \A p \in Procs, n \in Nodes :
       \/ chan'[p][n] = chan[p][n]
       \/ chan[p][n] # <<>> /\ chan'[p][n] = Tail(chan[p][n])
       \/ \E msg \in M : chan'[p][n] = Append(chan[p][n], msg)

\* Messages that are no token and that any process may send to any node.
PlainTypes ==
  MessageTypes \ {"QUIT_SPAWNER", "QUIT_SPAWNER_ACK", "THREAD_EXIT", "MCP_REQUEST", "MCP_QUIT"}
NoToken(m) == m # Quit /\ \A p \in Procs : m # SpawnerExit(p) /\ m # Ack(p)

\* Main does not go back, counts the spawners and has its answers.
MainMoves ==
  /\ Early' => Early
  /\ Ending => Ending'
  /\ ~ Counting' => ~ Counting \/ terminated >= NumProcs - 1
  /\ main'[0].pc \notin {"app", "await"} => main'[0].requests = 0

\* No tile gets a packet.
InboxesRest ==
  \A t \in Tiles :
    /\ inbox'[t].queue = inbox[t].queue
    /\ inbox'[t].rx = "got" => inbox[t].rx = "got" /\ inbox'[t].got = inbox[t].got

\* The thread of tile t that calls netRecv has to be woken.
Asleep(t) == inbox[t].rx = "sleep" \/ (inbox[t].rx = "futex" /\ inbox[t].futx = 0)
=============================================================================

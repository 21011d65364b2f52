---------------------------- MODULE MCSimulator ----------------------------
(***************************************************************************)
(* Simulator for TLC: two processes.  Tile 2, the thread spawner's, is on  *)
(* process 1; main, the other spawner and the MCP are on process 0.        *)
(***************************************************************************)
EXTENDS SimulatorInvariant

Homes == [n \in Nodes |-> IF n \in {Tile(2), Global(1)} THEN 1 ELSE 0]
Spawners == [p \in Procs |-> p + 1]
=============================================================================

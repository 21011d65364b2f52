----------------------------- MODULE MCThreads -----------------------------
(***************************************************************************)
(* ThreadManager for TLC: two processes; tile 2 is on the second one.       *)
(***************************************************************************)
EXTENDS ThreadManager

TwoSpawners == [p \in {0, 1} |-> 1000 + p]
Tile2OnProcess1 == [t \in Tiles |-> IF t = 2 THEN 1 ELSE 0]

=============================================================================

----------------------------- MODULE Transport -----------------------------
(***************************************************************************)
(* What the transport (transport/transport.h) promises the rest of the     *)
(* simulator.  A node is a tile or the global node of a host process.      *)
(* What the threads of one process send to a node arrives once and in the  *)
(* order in which it was sent; barrier() holds a process back until every  *)
(* process has called it.  SockTransport is shown to implement this, and   *)
(* Simulator is built on it.                                               *)
(***************************************************************************)
EXTENDS Integers, Sequences, FiniteSets

CONSTANTS NumProcs,   \* the number of host processes
          Nodes,      \* the tiles, and the global node of each process
          ProcOf,     \* the process of a node
          Msgs        \* what is sent

ASSUME ProcAssumption == NumProcs \in Nat \ {0} /\ ProcOf \in [Nodes -> 0..NumProcs - 1]

Procs == 0..NumProcs - 1

VARIABLES chan,       \* chan[p][n]: what p has sent to n and n has not received
          entered,    \* how often a process has called barrier() ...
          left        \* ... and returned from it

transportVars == <<chan, entered, left>>

TransportInit ==
  /\ chan = [p \in Procs |-> [n \in Nodes |-> << >>]]
  /\ entered = [p \in Procs |-> 0]
  /\ left = [p \in Procs |-> 0]

Send(p, n, m) ==
  /\ chan' = [chan EXCEPT ![p][n] = Append(@, m)]
  /\ UNCHANGED <<entered, left>>

\* n receives the first message of process p.
Recv(p, n) ==
  /\ chan[p][n] # << >>
  /\ chan' = [chan EXCEPT ![p][n] = Tail(@)]
  /\ UNCHANGED <<entered, left>>

\* What query() may return: a message of the node's own process is seen, one
\* of another process may still be on its way.
Query(n) == {b \in BOOLEAN : IF b THEN \E p \in Procs : chan[p][n] # << >>
                                  ELSE chan[ProcOf[n]][n] = << >>}

Enter(p) ==
  /\ entered[p] = left[p]
  /\ entered' = [entered EXCEPT ![p] = @ + 1]
  /\ UNCHANGED <<chan, left>>

Leave(p) ==
  /\ left[p] < entered[p] /\ \A q \in Procs : entered[q] > left[p]
  /\ left' = [left EXCEPT ![p] = @ + 1]
  /\ UNCHANGED <<chan, entered>>

TransportNext ==
  \E p \in Procs :
    \/ Enter(p) \/ Leave(p)
    \/ \E n \in Nodes : Recv(p, n) \/ \E m \in Msgs : Send(p, n, m)

TransportSpec == TransportInit /\ [][TransportNext]_transportVars
=============================================================================

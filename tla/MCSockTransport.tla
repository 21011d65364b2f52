-------------------------- MODULE MCSockTransport --------------------------
(***************************************************************************)
(* SockTransport for TLC: two processes and one node, on process 0.        *)
(***************************************************************************)
EXTENDS SockTransport, TLC

OneNode == {<<"tile", 0>>}
OnProcess0 == [n \in Nodes |-> 0]

\* Both processes send to the node; process 1 sends twice; process 0 also sends
\* between two barriers.
Loads == {[sends |-> (0 :> 1 @@ 1 :> 1), barriers |-> 1],
          [sends |-> (0 :> 0 @@ 1 :> 2), barriers |-> 1],
          [sends |-> (0 :> 1 @@ 1 :> 0), barriers |-> 2]}
=============================================================================

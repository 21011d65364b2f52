------------------------------- MODULE MCMsi -------------------------------
(***************************************************************************)
(* MsiProtocol for TLC: up to three tiles, up to three lines, all with      *)
(* their home on tile t1.                                                  *)
(***************************************************************************)
EXTENDS MsiInvariant

CONSTANTS t1,             \* the home of all lines
          MaxInFlight     \* bound on the packets from one tile to another

AllHomeT1 == [a \in Addrs |-> t1]

\* Invalidations broadcast to tiles that are no sharers are not answered, so
\* they may pile up at a slow tile without limit.
InFlightBounded == \A s, d \in Tiles : Len(chan[s][d]) <= MaxInFlight
=============================================================================

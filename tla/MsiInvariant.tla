---------------------------- MODULE MsiInvariant ----------------------------
(***************************************************************************)
(* The inductive invariants behind the theorems about MsiProtocol.          *)
(***************************************************************************)
EXTENDS MsiProtocol

\* Where packets travel: an L2's to the home of the line, a directory's from
\* it, and an L1's request within its tile (sendMsg calls of the controllers).
RoutedMsg(m, s, d) == /\ m.from = "L2_CACHE" => d = Home[m.addr]
                      /\ m.from = "DRAM_DIRECTORY" => s = Home[m.addr]
RoutedIn(ch) == \A s, d \in Tiles : \A i \in 1..Len(ch[s][d]) : RoutedMsg(ch[s][d][i], s, d)
Routed == RoutedIn(chan)

\* While no assert has failed, the simulation thread of tile h processes a
\* line of its own, for a request that is in the queue of the line.
ProcessingQueued ==
  failed = {} =>
    \A h \in Tiles : LET a == busy[h].addr IN a # NULL => Home[a] = h /\ reqs[a] # << >>

TypeInvariant == TypeOK /\ Routed /\ ProcessingQueued

-----------------------------------------------------------------------------
(* Coherence *)

\* Packets of a class K in a channel: one at least, one at most.
Has(ch, s, d, K) == \E i \in 1..Len(ch[s][d]) : ch[s][d][i] \in K
Once(ch, s, d, K) ==
  \A i, j \in 1..Len(ch[s][d]) : ch[s][d][i] \in K /\ ch[s][d][j] \in K => i = j

\* The packets of the given types that are about line a.
Packets(types, a) == {m \in Msgs : m.type \in types /\ m.addr = a}
Replies(a) == Packets({"EX_REP", "SH_REP"}, a)
Returns(a) == Packets({"INV_REP", "FLUSH_REP"}, a)
ExReps(a) == Packets({"EX_REP"}, a)
FlushReps(a) == Packets({"FLUSH_REP"}, a)
WbReps(a) == Packets({"WB_REP"}, a)

\* A copy of line a that is tile t's: in its L2, on its way to it from the
\* directory, or given up and on its way back.
Valid(t, a) == l2[t][a].cstate # "INVALID"
Coming(t, a) == Has(chan, Home[a], t, Replies(a))
Going(t, a) == Has(chan, t, Home[a], Returns(a))

\* The copy is one that may be, or has been, written.
Dirty(t, a) == \/ l2[t][a].cstate = "MODIFIED"
               \/ Has(chan, Home[a], t, ExReps(a))
               \/ Has(chan, t, Home[a], FlushReps(a))

\* The tile has been asked for the data, and has made its copy SHARED.
WrittenBack(t, a) == Has(chan, t, Home[a], WbReps(a))

\* The entry of the line, wherever the directory keeps it.
DirEntry(a) == IF dirSet[a] # NoEntry THEN dirSet[a] ELSE dirRepl[a]

\* A tile has one copy of a line at most.
OneCopy(t, a) ==
  /\ ~(Valid(t, a) /\ Coming(t, a))
  /\ ~(Valid(t, a) /\ Going(t, a))
  /\ ~(Coming(t, a) /\ Going(t, a))
  /\ Once(chan, Home[a], t, Replies(a))
  /\ Once(chan, t, Home[a], Returns(a))
  /\ Once(chan, t, Home[a], WbReps(a))

\* The directory knows of the copy, and whether it is dirty.
KnownCopy(t, a) ==
  LET e == DirEntry(a)
  IN  /\ Valid(t, a) \/ Coming(t, a) \/ Going(t, a) => t \in e.sharers
      /\ Dirty(t, a) => e.dstate = "MODIFIED"
      /\ WrittenBack(t, a) => e.dstate = "MODIFIED" /\ t \in e.sharers /\ ~Dirty(t, a)

\* What an entry says of its sharers.
SoundEntry(e) ==
  /\ e.dstate \in {"NONE", "UNCACHED"} => e.sharers = {}
  /\ e.dstate = "MODIFIED" => \A s, t \in e.sharers : s = t
  /\ Scheme = "limited_no_broadcast" => e.overflow = FALSE

\* The schemes that name every sharer of a line (ackwise counts some of them).
NamesAllSharers == Scheme \in {"full_map", "limited_no_broadcast", "limitless"}

LineCoherent(a) == /\ SoundEntry(DirEntry(a))
                   /\ \A t \in Tiles : OneCopy(t, a) /\ KnownCopy(t, a)

\* While no assert has failed, the directory knows every copy of a line, and
\* gives out a dirty one only when there is no other: the inductive form of
\* SingleWriter.
Coherent ==
  NamesAllSharers /\ failed = {} =>
    /\ ReplacedNotShadowed
    /\ \A a \in Addrs : LineCoherent(a)
=============================================================================

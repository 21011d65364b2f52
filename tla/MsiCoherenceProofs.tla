---------------------------- MODULE MsiCoherenceProofs ----------------------------
(***************************************************************************)
(* Under the directory schemes that name every sharer, and as long as no   *)
(* assert fails, a line that a tile may write has no other copy.           *)
(***************************************************************************)
EXTENDS MsiTypeProofs

\* A leaf is for Zenon, or for the SMT solver where it says so.
USE ZenonT(60)

-----------------------------------------------------------------------------
(* How sending and receiving packets, and writing a directory entry,       *)
(* change what the coherence invariant speaks of                           *)

\* Which classes of packets a channel has after a packet was sent (sendMsg).
LEMMA PutView ==
  ASSUME NEW ch \in ChanType, NEW s \in Tiles, NEW d, NEW m \in Msgs,
         NEW s2 \in Tiles, NEW d2 \in Tiles, NEW K
  PROVE  LET new == s2 = s /\ d2 = d /\ m \in K
             r == Put(ch, s, d, m)
         IN  /\ Has(r, s2, d2, K) <=> Has(ch, s2, d2, K) \/ new
             /\ Once(ch, s2, d2, K) /\ ~(new /\ Has(ch, s2, d2, K)) => Once(r, s2, d2, K)
<1> DEFINE q == ch[s2][d2]
           r == Put(ch, s, d, m)[s2][d2]
<1>1. q \in Seq(Msgs) /\ Len(q) \in Nat
  BY SMTT(60) DEF ChanType
<1>2. CASE s2 = s /\ d2 = d
  <2>1. Len(r) = Len(q) + 1 /\ r[Len(q) + 1] = m /\ \A i \in 1..Len(q) : r[i] = q[i]
    BY <1>2, PutContents, SMTT(60)
  <2> HIDE DEF r, q
  <2>2. (\E i \in 1..Len(r) : r[i] \in K) <=> (\E i \in 1..Len(q) : q[i] \in K) \/ m \in K
    BY <1>1, <2>1, SMTT(60)
  <2>3. /\ \A i, j \in 1..Len(q) : q[i] \in K /\ q[j] \in K => i = j
        /\ ~(m \in K /\ \E i \in 1..Len(q) : q[i] \in K)
        => \A i, j \in 1..Len(r) : r[i] \in K /\ r[j] \in K => i = j
    BY <1>1, <2>1, SMTT(60)
  <2> QED
    BY <1>2, <2>2, <2>3 DEF Has, Once, r, q
<1>3. CASE s2 # s \/ d2 # d
  <2>1. r = q
    BY <1>3, PutContents, SMTT(60)
  <2> QED
    BY <1>3, <2>1 DEF Has, Once
<1> QED
  BY <1>2, <1>3

\* The same for a packet sent to several tiles (broadcastMsg).
LEMMA PutAllView ==
  ASSUME NEW ch \in ChanType, NEW s \in Tiles, NEW D, NEW m \in Msgs,
         NEW s2 \in Tiles, NEW d2 \in Tiles, NEW K, m \notin K
  PROVE  LET r == PutAll(ch, s, D, m)
         IN  /\ Has(r, s2, d2, K) <=> Has(ch, s2, d2, K)
             /\ Once(ch, s2, d2, K) => Once(r, s2, d2, K)
<1> DEFINE q == ch[s2][d2]
           r == PutAll(ch, s, D, m)[s2][d2]
<1>1. q \in Seq(Msgs) /\ Len(q) \in Nat
  BY SMTT(60) DEF ChanType
<1>2. CASE s2 = s /\ d2 \in D
  <2>1. Len(r) = Len(q) + 1 /\ r[Len(q) + 1] = m /\ \A i \in 1..Len(q) : r[i] = q[i]
    BY <1>2, PutAllContents, SMTT(60)
  <2> HIDE DEF r, q
  <2>2. (\E i \in 1..Len(r) : r[i] \in K) <=> (\E i \in 1..Len(q) : q[i] \in K)
    BY <1>1, <2>1, SMTT(60)
  <2>3. (\A i, j \in 1..Len(q) : q[i] \in K /\ q[j] \in K => i = j)
        => \A i, j \in 1..Len(r) : r[i] \in K /\ r[j] \in K => i = j
    BY <1>1, <2>1, SMTT(60)
  <2> QED
    BY <1>2, <2>2, <2>3 DEF Has, Once, r, q
<1>3. CASE s2 # s \/ d2 \notin D
  <2>1. r = q
    BY <1>3, PutAllContents, SMTT(60)
  <2> QED
    BY <1>3, <2>1 DEF Has, Once
<1> QED
  BY <1>2, <1>3

\* Which classes of packets a channel has after its oldest one was received
\* (netPullFromTransport).
LEMMA DropView ==
  ASSUME NEW ch \in ChanType, NEW s \in Tiles, NEW d \in Tiles, ch[s][d] # << >>,
         NEW s2 \in Tiles, NEW d2 \in Tiles, NEW K
  PROVE  LET old == s2 = s /\ d2 = d /\ Head(ch[s][d]) \in K
             r == Drop(ch, s, d)
         IN  /\ Has(ch, s2, d2, K) <=> Has(r, s2, d2, K) \/ old
             /\ Once(ch, s2, d2, K) => Once(r, s2, d2, K) /\ ~(old /\ Has(r, s2, d2, K))
<1> DEFINE q == ch[s2][d2]
           r == Drop(ch, s, d)[s2][d2]
<1>1. q \in Seq(Msgs) /\ Len(q) \in Nat
  BY SMTT(60) DEF ChanType
<1>2. CASE s2 = s /\ d2 = d
  <2>1. Len(r) = Len(q) - 1 /\ \A i \in 1..Len(r) : r[i] = q[i + 1]
    BY <1>2, DropContents, SMTT(60)
  <2>2. Head(q) = q[1] /\ Len(q) >= 1
    BY <1>1, <1>2, SMTT(60)
  <2> HIDE DEF r, q
  <2>3. (\E i \in 1..Len(q) : q[i] \in K) <=> (\E i \in 1..Len(r) : r[i] \in K) \/ Head(q) \in K
    <3>1. ASSUME NEW i \in 1..Len(q), q[i] \in K, Head(q) \notin K
          PROVE  \E k \in 1..Len(r) : r[k] \in K
      <4>1. i - 1 \in 1..Len(r) /\ r[i - 1] = q[(i - 1) + 1] /\ (i - 1) + 1 = i
        BY <1>1, <2>1, <2>2, <3>1, SMTT(60)
      <4> QED
        BY <3>1, <4>1
    <3>2. ASSUME NEW k \in 1..Len(r), r[k] \in K
          PROVE  \E i \in 1..Len(q) : q[i] \in K
      <4>1. k + 1 \in 1..Len(q) /\ r[k] = q[k + 1]
        BY <1>1, <2>1, SMTT(60)
      <4> QED
        BY <3>2, <4>1
    <3>3. Head(q) \in K => \E i \in 1..Len(q) : q[i] \in K
      BY <1>1, <2>2, SMTT(60)
    <3> QED
      BY <3>1, <3>2, <3>3
  <2>4. ASSUME \A i, j \in 1..Len(q) : q[i] \in K /\ q[j] \in K => i = j
        PROVE  /\ \A i, j \in 1..Len(r) : r[i] \in K /\ r[j] \in K => i = j
               /\ ~(Head(q) \in K /\ \E i \in 1..Len(r) : r[i] \in K)
    <3>1. \A k \in 1..Len(r) : k + 1 \in 1..Len(q) /\ r[k] = q[k + 1]
      BY <1>1, <2>1, SMTT(60)
    <3>2. ASSUME NEW i \in 1..Len(r), NEW j \in 1..Len(r), r[i] \in K, r[j] \in K
          PROVE  i = j
      <4>1. i + 1 = j + 1
        BY <2>4, <3>1, <3>2
      <4> QED
        BY <1>1, <2>1, <4>1, SMTT(60)
    <3>3. ASSUME NEW i \in 1..Len(r), r[i] \in K, Head(q) \in K
          PROVE  FALSE
      <4>1. 1 \in 1..Len(q)
        BY <1>1, <2>2, SMTT(60)
      <4>2. i + 1 = 1
        BY <2>2, <2>4, <3>1, <3>3, <4>1
      <4> QED
        BY <1>1, <2>1, <4>2, SMTT(60)
    <3> QED
      BY <3>2, <3>3
  <2> QED
    BY <1>2, <2>3, <2>4 DEF Has, Once, r, q
<1>3. CASE s2 # s \/ d2 # d
  <2>1. r = q
    BY <1>3, DropContents, SMTT(60)
  <2> QED
    BY <1>3, <2>1 DEF Has, Once
<1> QED
  BY <1>2, <1>3

-----------------------------------------------------------------------------
(* Packets seen from one line *)

\* The classes of packets that coherence of line b is about.
Views(b) == {Replies(b), Returns(b), ExReps(b), FlushReps(b), WbReps(b)}

\* Between channels ch and ch2: nothing changes for line b; packet m is added
\* to the packets from s to d; it is taken from them.
Same(ch, ch2, b) ==
  \A x, y \in Tiles, K \in Views(b) :
    (Has(ch2, x, y, K) <=> Has(ch, x, y, K)) /\ (Once(ch, x, y, K) => Once(ch2, x, y, K))
Gains(ch, ch2, s, d, m, b) ==
  \A x, y \in Tiles, K \in Views(b) :
    LET new == x = s /\ y = d /\ m \in K
    IN  /\ Has(ch2, x, y, K) <=> Has(ch, x, y, K) \/ new
        /\ Once(ch, x, y, K) /\ ~(new /\ Has(ch, x, y, K)) => Once(ch2, x, y, K)
Loses(ch, ch2, s, d, m, b) ==
  \A x, y \in Tiles, K \in Views(b) :
    LET old == x = s /\ y = d /\ m \in K
    IN  /\ Has(ch, x, y, K) <=> Has(ch2, x, y, K) \/ old
        /\ Once(ch, x, y, K) => Once(ch2, x, y, K) /\ ~(old /\ Has(ch2, x, y, K))

Silent(m, b) == m.addr # b \/ m.type \in {"EX_REQ", "SH_REQ", "INV_REQ", "FLUSH_REQ", "WB_REQ"}

\* The class of a packet follows from its type.
LEMMA ClassOfPacket ==
  ASSUME NEW m \in Msgs, NEW b
  PROVE  /\ Silent(m, b) => \A K \in Views(b) : m \notin K
         /\ m.addr = b => /\ m \in Replies(b) <=> m.type \in {"EX_REP", "SH_REP"}
                          /\ m \in Returns(b) <=> m.type \in {"INV_REP", "FLUSH_REP"}
                          /\ m \in ExReps(b) <=> m.type = "EX_REP"
                          /\ m \in FlushReps(b) <=> m.type = "FLUSH_REP"
                          /\ m \in WbReps(b) <=> m.type = "WB_REP"
BY DEF Silent, Views, Replies, Returns, ExReps, FlushReps, WbReps, Packets

\* Sending and receiving, seen from line b.
LEMMA ChannelViews ==
  ASSUME NEW ch \in ChanType, NEW s \in Tiles, NEW b
  PROVE  /\ \A d : \A m \in Msgs : Gains(ch, Put(ch, s, d, m), s, d, m, b)
         /\ \A d : \A m \in Msgs : Silent(m, b) => Same(ch, Put(ch, s, d, m), b)
         /\ \A D : \A m \in Msgs : Silent(m, b) => Same(ch, PutAll(ch, s, D, m), b)
         /\ \A d \in Tiles : ch[s][d] # << >> => Loses(ch, Drop(ch, s, d), s, d, Head(ch[s][d]), b)
         /\ \A d \in Tiles : ch[s][d] # << >> /\ Silent(Head(ch[s][d]), b)
              => Same(ch, Drop(ch, s, d), b)
<1>1. ASSUME NEW d, NEW m \in Msgs
      PROVE  Gains(ch, Put(ch, s, d, m), s, d, m, b)
  BY PutView DEF Gains
<1>2. ASSUME NEW d, NEW m \in Msgs, Silent(m, b)
      PROVE  Same(ch, Put(ch, s, d, m), b)
  BY <1>1, <1>2, ClassOfPacket DEF Gains, Same
<1>3. ASSUME NEW D, NEW m \in Msgs, Silent(m, b)
      PROVE  Same(ch, PutAll(ch, s, D, m), b)
  BY <1>3, PutAllView, ClassOfPacket DEF Same
<1>4. ASSUME NEW d \in Tiles, ch[s][d] # << >>
      PROVE  Loses(ch, Drop(ch, s, d), s, d, Head(ch[s][d]), b)
  BY <1>4, DropView DEF Loses
<1>5. ASSUME NEW d \in Tiles, ch[s][d] # << >>, Silent(Head(ch[s][d]), b)
      PROVE  Same(ch, Drop(ch, s, d), b)
  <2>1. Head(ch[s][d]) \in Msgs
    BY <1>5, SMTT(60) DEF ChanType
  <2> QED
    BY <1>4, <1>5, <2>1, ClassOfPacket DEF Loses, Same
<1> QED
  BY <1>1, <1>2, <1>3, <1>4, <1>5

\* Changes that do not concern the line before or after one that does.
LEMMA ComposeViews ==
  ASSUME NEW c1, NEW c2, NEW c3, NEW s, NEW d, NEW m, NEW b
  PROVE  /\ Same(c1, c2, b) /\ Same(c2, c3, b) => Same(c1, c3, b)
         /\ Same(c1, c2, b) /\ Gains(c2, c3, s, d, m, b) => Gains(c1, c3, s, d, m, b)
         /\ Gains(c1, c2, s, d, m, b) /\ Same(c2, c3, b) => Gains(c1, c3, s, d, m, b)
         /\ Loses(c1, c2, s, d, m, b) /\ Same(c2, c3, b) => Loses(c1, c3, s, d, m, b)
<1>1. Same(c1, c2, b) /\ Same(c2, c3, b) => Same(c1, c3, b)
  BY DEF Same
<1>2. Same(c1, c2, b) /\ Gains(c2, c3, s, d, m, b) => Gains(c1, c3, s, d, m, b)
  BY DEF Same, Gains
<1>3. Gains(c1, c2, s, d, m, b) /\ Same(c2, c3, b) => Gains(c1, c3, s, d, m, b)
  BY DEF Same, Gains
<1>4. Loses(c1, c2, s, d, m, b) /\ Same(c2, c3, b) => Loses(c1, c3, s, d, m, b)
  BY DEF Same, Loses
<1> QED
  BY <1>1, <1>2, <1>3, <1>4

-----------------------------------------------------------------------------
(* What can happen to a line *)

\* The parts of the state that coherence of line b depends on.
SameCopies(b) == \A u \in Tiles : l2'[u][b].cstate = l2[u][b].cstate
OtherCopies(t, b) == \A u \in Tiles : u # t => l2'[u][b].cstate = l2[u][b].cstate

\* A dirty reply is a reply, a flush a return of the copy.
LEMMA DirtyPackets ==
  ASSUME NEW ch, NEW s, NEW d, NEW b
  PROVE  /\ Has(ch, s, d, ExReps(b)) => Has(ch, s, d, Replies(b))
         /\ Has(ch, s, d, FlushReps(b)) => Has(ch, s, d, Returns(b))
BY DEF Has, ExReps, FlushReps, Replies, Returns, Packets

\* Nothing happens to the line.
LEMMA LineKept ==
  ASSUME NEW b \in Addrs, LineCoherent(b), Same(chan, chan', b), SameCopies(b),
         DirEntry(b)' = DirEntry(b)
  PROVE  LineCoherent(b)'
<1>1. SoundEntry(DirEntry(b))'
  BY DEF LineCoherent, SoundEntry
<1>2. ASSUME NEW u \in Tiles
      PROVE  OneCopy(u, b)' /\ KnownCopy(u, b)'
  <2>1. Home[b] \in Tiles /\ OneCopy(u, b) /\ KnownCopy(u, b) /\ l2'[u][b].cstate = l2[u][b].cstate
    BY HomeAssumption DEF LineCoherent, SameCopies
  <2>2. \A K \in Views(b) :
          /\ Has(chan', Home[b], u, K) <=> Has(chan, Home[b], u, K)
          /\ Has(chan', u, Home[b], K) <=> Has(chan, u, Home[b], K)
          /\ Once(chan, Home[b], u, K) => Once(chan', Home[b], u, K)
          /\ Once(chan, u, Home[b], K) => Once(chan', u, Home[b], K)
    BY <2>1 DEF Same
  <2> QED
    BY <2>1, <2>2
    DEF OneCopy, KnownCopy, Valid, Coming, Going, Dirty, WrittenBack, Views
<1> QED
  BY <1>1, <1>2 DEF LineCoherent

\* Nothing changes for the packets of class K from s to d.
Kept(s, d, K) == /\ Has(chan', s, d, K) <=> Has(chan, s, d, K)
                 /\ Once(chan, s, d, K) => Once(chan', s, d, K)

\* Tile t gives its copy up (invalidateL2CacheLine, then INV_REP or FLUSH_REP).
LEMMA LineGivenUp ==
  ASSUME NEW t \in Tiles, NEW a \in Addrs, NEW m \in Msgs, m.addr = a, LineCoherent(a),
         Gains(chan, chan', t, Home[a], m, a),
         OtherCopies(t, a), l2'[t][a].cstate = "INVALID",
         \/ m.type = "INV_REP" /\ l2[t][a].cstate = "SHARED"
         \/ m.type = "FLUSH_REP" /\ l2[t][a].cstate = "MODIFIED",
         DirEntry(a)' = DirEntry(a)
  PROVE  LineCoherent(a)'
<1>1. SoundEntry(DirEntry(a))'
  BY DEF LineCoherent, SoundEntry
<1>2. /\ m \notin Replies(a) /\ m \notin ExReps(a) /\ m \notin WbReps(a) /\ m \in Returns(a)
      /\ m \in FlushReps(a) <=> l2[t][a].cstate = "MODIFIED"
  BY ClassOfPacket
<1>3. ASSUME NEW u \in Tiles
      PROVE  OneCopy(u, a)' /\ KnownCopy(u, a)'
  <2>1. Home[a] \in Tiles /\ OneCopy(u, a) /\ KnownCopy(u, a)
    BY HomeAssumption DEF LineCoherent
  <2>2. Kept(Home[a], u, Replies(a)) /\ Kept(Home[a], u, ExReps(a))
    BY <1>2, <2>1 DEF Gains, Views, Kept
  <2>3. Kept(u, Home[a], WbReps(a))
    BY <1>2, <2>1 DEF Gains, Views, Kept
  <2>4. CASE u = t
    <3>1. /\ Has(chan', u, Home[a], Returns(a))
          /\ Has(chan', u, Home[a], FlushReps(a)) <=>
               Has(chan, u, Home[a], FlushReps(a)) \/ l2[t][a].cstate = "MODIFIED"
          /\ Once(chan, u, Home[a], Returns(a)) /\ ~Has(chan, u, Home[a], Returns(a))
               => Once(chan', u, Home[a], Returns(a))
      BY <1>2, <2>1, <2>4 DEF Gains, Views, Kept
    <3> QED
      BY <2>1, <2>2, <2>3, <2>4, <3>1
      DEF Kept, OneCopy, KnownCopy, Valid, Coming, Going, Dirty, WrittenBack
  <2>5. CASE u # t
    <3>1. /\ Kept(u, Home[a], Returns(a)) /\ Kept(u, Home[a], FlushReps(a))
          /\ l2'[u][a].cstate = l2[u][a].cstate
      BY <2>1, <2>5 DEF Gains, Views, Kept, OtherCopies
    <3> QED
      BY <2>1, <2>2, <2>3, <3>1
      DEF Kept, OneCopy, KnownCopy, Valid, Coming, Going, Dirty, WrittenBack
  <2> QED
    BY <2>4, <2>5
<1> QED
  BY <1>1, <1>3 DEF LineCoherent

\* Tile t keeps its copy as a SHARED one and writes the data back (WB_REP).
LEMMA LineWrittenBack ==
  ASSUME NEW t \in Tiles, NEW a \in Addrs, NEW m \in Msgs, m.addr = a, LineCoherent(a),
         Gains(chan, chan', t, Home[a], m, a),
         OtherCopies(t, a), l2[t][a].cstate = "MODIFIED", l2'[t][a].cstate = "SHARED",
         m.type = "WB_REP", DirEntry(a)' = DirEntry(a)
  PROVE  LineCoherent(a)'
<1>1. SoundEntry(DirEntry(a))'
  BY DEF LineCoherent, SoundEntry
<1>2. /\ m \notin Replies(a) /\ m \notin ExReps(a) /\ m \in WbReps(a)
      /\ m \notin Returns(a) /\ m \notin FlushReps(a)
  BY ClassOfPacket
<1>3. ASSUME NEW u \in Tiles
      PROVE  OneCopy(u, a)' /\ KnownCopy(u, a)'
  <2>1. Home[a] \in Tiles /\ OneCopy(u, a) /\ KnownCopy(u, a)
    BY HomeAssumption DEF LineCoherent
  <2>2. Kept(Home[a], u, Replies(a)) /\ Kept(Home[a], u, ExReps(a))
    BY <1>2, <2>1 DEF Gains, Views, Kept
  <2>3. Kept(u, Home[a], Returns(a)) /\ Kept(u, Home[a], FlushReps(a))
    BY <1>2, <2>1 DEF Gains, Views, Kept
  <2>4. CASE u = t
    <3>1. Once(chan, u, Home[a], WbReps(a)) /\ ~Has(chan, u, Home[a], WbReps(a))
               => Once(chan', u, Home[a], WbReps(a))
      BY <1>2, <2>1, <2>4 DEF Gains, Views, Kept
    <3>2. ~Has(chan, Home[a], u, ExReps(a)) /\ ~Has(chan, u, Home[a], FlushReps(a))
      BY <2>1, <2>4, DirtyPackets DEF Kept, OneCopy, Valid, Coming, Going
    <3> QED
      BY <2>1, <2>2, <2>3, <2>4, <3>1, <3>2
      DEF Kept, OneCopy, KnownCopy, Valid, Coming, Going, Dirty, WrittenBack
  <2>5. CASE u # t
    <3>1. Kept(u, Home[a], WbReps(a))
          /\ l2'[u][a].cstate = l2[u][a].cstate
      BY <2>1, <2>5 DEF Gains, Views, Kept, OtherCopies
    <3> QED
      BY <2>1, <2>2, <2>3, <3>1
      DEF Kept, OneCopy, KnownCopy, Valid, Coming, Going, Dirty, WrittenBack
  <2> QED
    BY <2>4, <2>5
<1> QED
  BY <1>1, <1>3 DEF LineCoherent

\* A dirty copy is a copy.
LEMMA DirtyIsCopy ==
  ASSUME NEW t \in Tiles, NEW a \in Addrs, Dirty(t, a)
  PROVE  Valid(t, a) \/ Coming(t, a) \/ Going(t, a)
BY DirtyPackets DEF Dirty, Valid, Coming, Going

\* Tile t receives the copy that was on its way (EX_REP or SH_REP).
LEMMA LineInserted ==
  ASSUME NEW t \in Tiles, NEW a \in Addrs, NEW m \in Msgs, m.addr = a, LineCoherent(a),
         Loses(chan, chan', Home[a], t, m, a),
         OtherCopies(t, a), m.type \in {"EX_REP", "SH_REP"},
         l2'[t][a].cstate = (IF m.type = "EX_REP" THEN "MODIFIED" ELSE "SHARED"),
         Has(chan, Home[a], t, Replies(a)), DirEntry(a)' = DirEntry(a)
  PROVE  LineCoherent(a)'
<1>1. SoundEntry(DirEntry(a))'
  BY DEF LineCoherent, SoundEntry
<1>2. /\ m \in Replies(a) /\ m \notin WbReps(a) /\ m \notin Returns(a) /\ m \notin FlushReps(a)
      /\ m \in ExReps(a) <=> m.type = "EX_REP"
  BY ClassOfPacket
<1>3. ASSUME NEW u \in Tiles
      PROVE  OneCopy(u, a)' /\ KnownCopy(u, a)'
  <2>1. Home[a] \in Tiles /\ OneCopy(u, a) /\ KnownCopy(u, a)
    BY HomeAssumption DEF LineCoherent
  <2>2. Kept(u, Home[a], Returns(a)) /\ Kept(u, Home[a], FlushReps(a)) /\ Kept(u, Home[a], WbReps(a))
    BY <1>2, <2>1 DEF Loses, Views, Kept
  <2>3. CASE u = t
    <3>1. /\ Once(chan, Home[a], u, Replies(a)) => Once(chan', Home[a], u, Replies(a))
                                               /\ ~Has(chan', Home[a], u, Replies(a))
          /\ Has(chan, Home[a], u, ExReps(a)) <=>
               Has(chan', Home[a], u, ExReps(a)) \/ m.type = "EX_REP"
      BY <1>2, <2>1, <2>3 DEF Loses, Views, Kept
    <3>2. ~Has(chan', Home[a], u, ExReps(a))
      BY <2>1, <3>1, DirtyPackets DEF Kept, OneCopy
    <3> QED
      BY <2>1, <2>2, <2>3, <3>1, <3>2
      DEF Kept, OneCopy, KnownCopy, Valid, Coming, Going, Dirty, WrittenBack
  <2>4. CASE u # t
    <3>1. /\ Kept(Home[a], u, Replies(a)) /\ Kept(Home[a], u, ExReps(a))
          /\ l2'[u][a].cstate = l2[u][a].cstate
      BY <2>1, <2>4 DEF Loses, Views, Kept, OtherCopies
    <3> QED
      BY <2>1, <2>2, <3>1
      DEF Kept, OneCopy, KnownCopy, Valid, Coming, Going, Dirty, WrittenBack
  <2> QED
    BY <2>3, <2>4
<1> QED
  BY <1>1, <1>3 DEF LineCoherent

\* The directory takes back the copy of tile s (INV_REP or FLUSH_REP).
LEMMA LineReturned ==
  ASSUME NEW s \in Tiles, NEW a \in Addrs, NEW m \in Msgs, m.addr = a, LineCoherent(a),
         Loses(chan, chan', s, Home[a], m, a), Has(chan, s, Home[a], Returns(a)),
         m.type = "FLUSH_REP" => Has(chan, s, Home[a], FlushReps(a)),
         SameCopies(a), m.type \in {"INV_REP", "FLUSH_REP"},
         NEW e, e = DirEntry(a), NEW f, DirEntry(a)' = f,
         f.sharers = e.sharers \ {s}, f.overflow = e.overflow,
         \/ f.dstate = e.dstate /\ f.sharers # {}
         \/ f.dstate = "UNCACHED" /\ f.sharers = {},
         e.dstate = "MODIFIED" => m.type = "FLUSH_REP"
  PROVE  LineCoherent(a)'
<1>1. SoundEntry(DirEntry(a))'
  <2>1. SoundEntry(e)
    BY DEF LineCoherent
  <2>2. SoundEntry(f)
    BY <2>1 DEF SoundEntry
  <2> QED
    BY <2>2 DEF SoundEntry
<1>2. /\ m \notin Replies(a) /\ m \notin ExReps(a) /\ m \notin WbReps(a) /\ m \in Returns(a)
  BY ClassOfPacket
<1>3. s \in e.sharers /\ (e.dstate = "MODIFIED" => \A u \in e.sharers : u = s)
  BY DEF LineCoherent, KnownCopy, Going, SoundEntry
<1>4. e.dstate = "MODIFIED" => Dirty(s, a)
  BY DEF Dirty
<1>5. ASSUME NEW u \in Tiles
      PROVE  OneCopy(u, a)' /\ KnownCopy(u, a)'
  <2>1. /\ Home[a] \in Tiles /\ OneCopy(u, a) /\ KnownCopy(u, a)
        /\ l2'[u][a].cstate = l2[u][a].cstate
    BY HomeAssumption DEF LineCoherent, SameCopies
  <2>2. Kept(Home[a], u, Replies(a)) /\ Kept(Home[a], u, ExReps(a))
    BY <1>2, <2>1 DEF Loses, Views, Kept
  <2>3. Kept(u, Home[a], WbReps(a))
    BY <1>2, <2>1 DEF Loses, Views, Kept
  <2>4. ~WrittenBack(u, a)
    BY <1>3, <1>4, <2>1 DEF KnownCopy
  <2>5. CASE u = s
    <3>1. /\ Once(chan, u, Home[a], Returns(a)) => Once(chan', u, Home[a], Returns(a))
                                               /\ ~Has(chan', u, Home[a], Returns(a))
      BY <1>2, <2>1, <2>5 DEF Loses, Views, Kept
    <3>2. /\ ~Valid(u, a) /\ ~Coming(u, a) /\ Once(chan', u, Home[a], Returns(a))
          /\ ~Has(chan', u, Home[a], Returns(a)) /\ ~Has(chan', u, Home[a], FlushReps(a))
      BY <2>1, <2>5, <3>1, DirtyPackets DEF Kept, OneCopy, Going
    <3>3. ~Has(chan, Home[a], u, ExReps(a))
      BY <3>2, DirtyPackets DEF Coming
    <3> QED
      BY <2>1, <2>2, <2>3, <2>4, <3>2, <3>3
      DEF Kept, OneCopy, KnownCopy, Valid, Coming, Going, Dirty, WrittenBack
  <2>6. CASE u # s
    <3>1. Kept(u, Home[a], Returns(a)) /\ Kept(u, Home[a], FlushReps(a))
      BY <2>1, <2>6 DEF Loses, Views, Kept
    <3>2. ~Dirty(u, a)
      BY <1>3, <2>1, <2>6, DirtyIsCopy DEF KnownCopy
    <3>3. u \in e.sharers => u \in f.sharers
      BY <2>6
    <3>4. ~Dirty(u, a)' /\ ~WrittenBack(u, a)'
      BY <2>1, <2>2, <2>3, <2>4, <3>1, <3>2
      DEF Kept, Dirty, WrittenBack
    <3>5. (Valid(u, a) <=> Valid(u, a)') /\ (Coming(u, a) <=> Coming(u, a)') /\ (Going(u, a) <=> Going(u, a)')
      BY <2>1, <2>2, <3>1 DEF Kept, Valid, Coming, Going
    <3>6. OneCopy(u, a)'
      BY <2>1, <2>2, <2>3, <3>1, <3>5 DEF Kept, OneCopy
    <3> QED
      BY <2>1, <3>3, <3>4, <3>5, <3>6 DEF KnownCopy
  <2> QED
    BY <2>5, <2>6
<1> QED
  BY <1>1, <1>5 DEF LineCoherent

\* The directory takes in the data tile s has written back (WB_REP).
LEMMA LineCleaned ==
  ASSUME NEW s \in Tiles, NEW a \in Addrs, NEW m \in Msgs, m.addr = a, LineCoherent(a),
         Loses(chan, chan', s, Home[a], m, a), Has(chan, s, Home[a], WbReps(a)),
         SameCopies(a), m.type = "WB_REP",
         NEW e, e = DirEntry(a), NEW f, DirEntry(a)' = f,
         f.sharers = e.sharers, f.overflow = e.overflow, f.dstate = "SHARED"
  PROVE  LineCoherent(a)'
<1>1. SoundEntry(DirEntry(a))'
  <2>1. SoundEntry(e)
    BY DEF LineCoherent
  <2>2. SoundEntry(f)
    BY <2>1 DEF SoundEntry
  <2> QED
    BY <2>2 DEF SoundEntry
<1>2. /\ m \notin Replies(a) /\ m \notin ExReps(a) /\ m \in WbReps(a)
      /\ m \notin Returns(a) /\ m \notin FlushReps(a)
  BY ClassOfPacket
<1>3. e.dstate = "MODIFIED" /\ ~Dirty(s, a) /\ \A u \in e.sharers : u = s
  BY DEF LineCoherent, KnownCopy, WrittenBack, SoundEntry
<1>4. ASSUME NEW u \in Tiles
      PROVE  OneCopy(u, a)' /\ KnownCopy(u, a)'
  <2>1. /\ Home[a] \in Tiles /\ OneCopy(u, a) /\ KnownCopy(u, a)
        /\ l2'[u][a].cstate = l2[u][a].cstate
    BY HomeAssumption DEF LineCoherent, SameCopies
  <2>2. Kept(Home[a], u, Replies(a)) /\ Kept(Home[a], u, ExReps(a))
    BY <1>2, <2>1 DEF Loses, Views, Kept
  <2>3. Kept(u, Home[a], Returns(a)) /\ Kept(u, Home[a], FlushReps(a))
    BY <1>2, <2>1 DEF Loses, Views, Kept
  <2>4. Once(chan', u, Home[a], WbReps(a))
    BY <2>1 DEF Loses, Views, Kept, OneCopy
  <2>5. ~Dirty(u, a)
    BY <1>3, <2>1, DirtyIsCopy DEF KnownCopy
  <2>6. ~Has(chan', u, Home[a], WbReps(a))
    <3>1. CASE u = s
      BY <1>2, <2>1, <3>1 DEF Loses, Views, Kept, OneCopy
    <3>2. CASE u # s
      <4>1. ~Has(chan, u, Home[a], WbReps(a))
        BY <1>3, <2>1, <3>2 DEF KnownCopy, WrittenBack
      <4> QED
        BY <2>1, <4>1 DEF Loses, Views, Kept
    <3> QED
      BY <3>1, <3>2
  <2>7. ~Dirty(u, a)' /\ ~WrittenBack(u, a)'
    BY <2>1, <2>2, <2>3, <2>5, <2>6 DEF Kept, Dirty, WrittenBack
  <2>8. (Valid(u, a) <=> Valid(u, a)') /\ (Coming(u, a) <=> Coming(u, a)') /\ (Going(u, a) <=> Going(u, a)')
    BY <2>1, <2>2, <2>3 DEF Kept, Valid, Coming, Going
  <2>9. OneCopy(u, a)'
    BY <2>1, <2>2, <2>3, <2>4, <2>8 DEF Kept, OneCopy
  <2> QED
    BY <2>1, <2>7, <2>8, <2>9 DEF KnownCopy
<1> QED
  BY <1>1, <1>4 DEF LineCoherent

\* The directory gives tile t a copy (EX_REP or SH_REP).
LEMMA LineGranted ==
  ASSUME NEW t \in Tiles, NEW a \in Addrs, NEW m \in Msgs, m.addr = a, LineCoherent(a),
         Gains(chan, chan', Home[a], t, m, a), SameCopies(a),
         NEW e, e = DirEntry(a), NEW f, DirEntry(a)' = f,
         t \notin e.sharers, f.sharers = e.sharers \cup {t},
         Scheme = "limited_no_broadcast" => f.overflow = FALSE,
         \/ m.type = "EX_REP" /\ f.dstate = "MODIFIED" /\ e.sharers = {}
         \/ m.type = "SH_REP" /\ f.dstate = "SHARED" /\ e.dstate # "MODIFIED"
  PROVE  LineCoherent(a)'
<1>1. SoundEntry(DirEntry(a))'
  <2>1. SoundEntry(f)
    BY DEF SoundEntry
  <2> QED
    BY <2>1 DEF SoundEntry
<1>2. /\ m \in Replies(a) /\ m \notin WbReps(a) /\ m \notin Returns(a) /\ m \notin FlushReps(a)
      /\ m \in ExReps(a) <=> m.type = "EX_REP"
  BY ClassOfPacket
<1>3. ASSUME NEW u \in Tiles
      PROVE  OneCopy(u, a)' /\ KnownCopy(u, a)'
  <2>1. /\ Home[a] \in Tiles /\ OneCopy(u, a) /\ KnownCopy(u, a)
        /\ l2'[u][a].cstate = l2[u][a].cstate
    BY HomeAssumption DEF LineCoherent, SameCopies
  <2>2. Kept(u, Home[a], Returns(a)) /\ Kept(u, Home[a], FlushReps(a)) /\ Kept(u, Home[a], WbReps(a))
    BY <1>2, <2>1 DEF Gains, Views, Kept
  <2>3. ~Dirty(u, a) /\ ~WrittenBack(u, a)
    BY <2>1, DirtyIsCopy DEF KnownCopy
  <2>4. CASE u = t
    <3>1. ~Valid(u, a) /\ ~Coming(u, a) /\ ~Going(u, a)
      BY <2>1, <2>4 DEF KnownCopy
    <3>2. /\ Once(chan, Home[a], u, Replies(a)) /\ ~Has(chan, Home[a], u, Replies(a))
               => Once(chan', Home[a], u, Replies(a))
          /\ Has(chan', Home[a], u, ExReps(a)) <=>
               Has(chan, Home[a], u, ExReps(a)) \/ m.type = "EX_REP"
      BY <1>2, <2>1, <2>4 DEF Gains, Views, Kept
    <3>3. OneCopy(u, a)'
      BY <2>1, <2>2, <3>1, <3>2 DEF Kept, OneCopy, Valid, Coming, Going
    <3>4. ~WrittenBack(u, a)' /\ (Dirty(u, a)' => f.dstate = "MODIFIED")
      BY <2>1, <2>2, <2>3, <3>2 DEF Kept, Dirty, WrittenBack
    <3> QED
      BY <2>4, <3>3, <3>4 DEF KnownCopy
  <2>5. CASE u # t
    <3>1. Kept(Home[a], u, Replies(a)) /\ Kept(Home[a], u, ExReps(a))
      BY <2>1, <2>5 DEF Gains, Views, Kept
    <3>2. ~Dirty(u, a)' /\ ~WrittenBack(u, a)'
      BY <2>1, <2>2, <2>3, <3>1 DEF Kept, Dirty, WrittenBack
    <3>3. (Valid(u, a) <=> Valid(u, a)') /\ (Coming(u, a) <=> Coming(u, a)') /\ (Going(u, a) <=> Going(u, a)')
      BY <2>1, <2>2, <3>1 DEF Kept, Valid, Coming, Going
    <3>4. OneCopy(u, a)'
      BY <2>1, <2>2, <3>1, <3>3 DEF Kept, OneCopy
    <3> QED
      BY <2>1, <3>2, <3>3, <3>4 DEF KnownCopy
  <2> QED
    BY <2>4, <2>5
<1> QED
  BY <1>1, <1>3 DEF LineCoherent

\* The directory forgets, or starts, an entry that names no sharer.
LEMMA LineUnshared ==
  ASSUME NEW a \in Addrs, LineCoherent(a), Same(chan, chan', a), SameCopies(a),
         DirEntry(a).sharers = {}, DirEntry(a)' \in {NoEntry, NewEntry}
  PROVE  LineCoherent(a)'
<1>1. DirEntry(a)'.sharers = {} /\ DirEntry(a)'.overflow = FALSE /\ DirEntry(a)'.dstate # "MODIFIED"
  BY SMTT(60) DEF NoEntry, NewEntry
<1>2. SoundEntry(DirEntry(a))'
  BY <1>1 DEF SoundEntry
<1>3. ASSUME NEW u \in Tiles
      PROVE  OneCopy(u, a)' /\ KnownCopy(u, a)'
  <2>1. /\ Home[a] \in Tiles /\ OneCopy(u, a) /\ KnownCopy(u, a)
        /\ l2'[u][a].cstate = l2[u][a].cstate
    BY HomeAssumption DEF LineCoherent, SameCopies
  <2>2. \A K \in Views(a) :
          /\ Has(chan', Home[a], u, K) <=> Has(chan, Home[a], u, K)
          /\ Has(chan', u, Home[a], K) <=> Has(chan, u, Home[a], K)
          /\ Once(chan, Home[a], u, K) => Once(chan', Home[a], u, K)
          /\ Once(chan, u, Home[a], K) => Once(chan', u, Home[a], K)
    BY <2>1 DEF Same
  <2>3. ~Valid(u, a) /\ ~Coming(u, a) /\ ~Going(u, a) /\ ~Dirty(u, a) /\ ~WrittenBack(u, a)
    BY <2>1, DirtyIsCopy DEF KnownCopy
  <2>4. /\ ~Valid(u, a)' /\ ~Coming(u, a)' /\ ~Going(u, a)' /\ ~Dirty(u, a)' /\ ~WrittenBack(u, a)'
    BY <2>1, <2>2, <2>3
    DEF Valid, Coming, Going, Dirty, WrittenBack, Views
  <2>5. OneCopy(u, a)'
    BY <2>1, <2>2, <2>4 DEF OneCopy, Views
  <2> QED
    BY <2>4, <2>5 DEF KnownCopy
<1> QED
  BY <1>2, <1>3 DEF LineCoherent

-----------------------------------------------------------------------------
(* The directory cache *)

\* An entry is never taken for a missing one.
LEMMA EntryIsPresent ==
  /\ \A f \in Entries : f # NoEntry
  /\ NoEntry.sharers = {} /\ NewEntry.sharers = {} /\ NewEntry # NoEntry
  /\ NewEntry.dstate = "UNCACHED" /\ NewEntry.overflow = FALSE
<1>1. NoEntry.dstate = "NONE" /\ NoEntry.sharers = {}
  BY DEF NoEntry, NewEntry
<1>2. NewEntry.sharers = {} /\ NewEntry.dstate = "UNCACHED" /\ NewEntry.overflow = FALSE
  BY DEF NewEntry
<1>3. \A f \in Entries : f.dstate # "NONE"
  BY DEF Entries, DStates
<1> QED
  BY <1>1, <1>2, <1>3

\* Handlers that do not touch the directory cache.
LEMMA DirectoryKept ==
  ASSUME UNCHANGED <<dirSet, dirRepl>>
  PROVE  /\ ReplacedNotShadowed => ReplacedNotShadowed'
         /\ \A b \in Addrs : DirEntry(b)' = DirEntry(b)
<1>1. \A b \in Addrs : DirEntry(b)' = DirEntry(b)
  BY DEF DirEntry
<1>2. \A h : SetLines(h)' = SetLines(h)
  BY DEF SetLines
<1>3. ReplacedNotShadowed => ReplacedNotShadowed'
  BY <1>2 DEF ReplacedNotShadowed, InSet
<1> QED
  BY <1>1, <1>3

\* getDirectoryEntry finds the line's entry, or starts one.
LEMMA EntryView ==
  ASSUME ReplacedNotShadowed, NEW a \in Addrs
  PROVE  Entry(a) = DirEntry(a) \/ (Entry(a) = NewEntry /\ DirEntry(a) = NoEntry)
BY DEF ReplacedNotShadowed, Entry, DirEntry, InSet

LEMMA SetLinesFinite ==
  ASSUME NEW h
  PROVE  IsFiniteSet(SetLines(h)) /\ Cardinality(SetLines(h)) \in Nat
<1>1. SetLines(h) \subseteq Addrs
  BY DEF SetLines
<1> QED
  BY <1>1, AddrsAssumption, FS_Subset, FS_CardinalityType

\* Writing the entry found back.
LEMMA SetEntryView ==
  ASSUME TypeOK, ReplacedNotShadowed, NEW a \in Addrs, NEW f \in Entries, SetEntry(a, f)
  PROVE  /\ DirEntry(a)' = f
         /\ \A b \in Addrs : b # a => DirEntry(b)' = DirEntry(b)
         /\ ReplacedNotShadowed'
<1>1. f # NoEntry
  BY EntryIsPresent
<1>2. dirSet \in [Addrs -> EntryType] /\ dirRepl \in [Addrs -> EntryType]
  BY DEF TypeOK, EntryType
<1>3. CASE InSet(a)
  <2>1. dirSet' = [dirSet EXCEPT ![a] = f] /\ dirRepl' = dirRepl /\ dirRepl[a] = NoEntry
    BY <1>3 DEF SetEntry, ReplacedNotShadowed
  <2>2. /\ DirEntry(a)' = f
        /\ \A b \in Addrs : b # a => DirEntry(b)' = DirEntry(b)
    BY <1>1, <1>2, <2>1 DEF DirEntry
  <2>3. ASSUME NEW b \in Addrs, dirRepl'[b] # NoEntry
        PROVE  ~InSet(b)'
    <3>1. b # a /\ dirSet'[b] = dirSet[b] /\ ~InSet(b)
      BY <1>2, <2>1, <2>3 DEF ReplacedNotShadowed
    <3>2. SetLines(Home[b]) \subseteq SetLines(Home[b])'
      BY <1>1, <1>2, <2>1 DEF SetLines
    <3>3. IsFiniteSet(SetLines(Home[b])')
      <4>1. SetLines(Home[b])' \subseteq Addrs
        BY DEF SetLines
      <4> QED
        BY <4>1, AddrsAssumption, FS_Subset
    <3>4. /\ Cardinality(SetLines(Home[b])) <= Cardinality(SetLines(Home[b])')
          /\ Cardinality(SetLines(Home[b])') \in Nat
      BY <3>2, <3>3, FS_Subset, FS_CardinalityType
    <3>5. Cardinality(SetLines(Home[b])) \in Nat /\ DirWays \in Nat
      BY SetLinesFinite, WaysAssumption
    <3> QED
      BY <3>1, <3>4, <3>5, SMTT(60) DEF InSet
  <2> QED
    BY <2>2, <2>3 DEF ReplacedNotShadowed
<1>4. CASE ~InSet(a)
  <2>1. dirSet' = dirSet /\ dirRepl' = [dirRepl EXCEPT ![a] = f] /\ dirSet[a] = NoEntry
    BY <1>4 DEF SetEntry, InSet
  <2>2. /\ DirEntry(a)' = f
        /\ \A b \in Addrs : b # a => DirEntry(b)' = DirEntry(b)
    BY <1>1, <1>2, <2>1 DEF DirEntry
  <2>3. \A b \in Addrs : SetLines(Home[b])' = SetLines(Home[b])
    BY <2>1 DEF SetLines
  <2>4. ASSUME NEW b \in Addrs, dirRepl'[b] # NoEntry
        PROVE  ~InSet(b)'
    <3>1. ~InSet(b)
      BY <1>2, <1>4, <2>1, <2>4 DEF ReplacedNotShadowed
    <3> QED
      BY <2>1, <2>3, <3>1 DEF InSet
  <2> QED
    BY <2>2, <2>4 DEF ReplacedNotShadowed
<1> QED
  BY <1>3, <1>4

\* replaceDirectoryEntry: a takes the way of b, whose entry is kept in the
\* replaced list if there are copies.
LEMMA AllocateView ==
  ASSUME TypeOK, ReplacedNotShadowed, NEW h \in Tiles, NEW a \in Addrs, Home[a] = h,
         NEW b \in Addrs, Allocate(h, a, b)
  PROVE  /\ a # b /\ DirEntry(a) = NoEntry /\ DirEntry(a)' = NewEntry
         /\ DirEntry(b) \in Entries
         /\ IF DirEntry(b).dstate = "UNCACHED" THEN DirEntry(b)' = NoEntry ELSE DirEntry(b)' = DirEntry(b)
         /\ \A c \in Addrs : c # a /\ c # b => DirEntry(c)' = DirEntry(c)
         /\ ReplacedNotShadowed'
<1>1. dirSet \in [Addrs -> EntryType] /\ dirRepl \in [Addrs -> EntryType]
  BY DEF TypeOK, EntryType
<1>2. /\ Entry(a) = NoEntry /\ Home[b] = h /\ dirSet[b] # NoEntry
      /\ dirSet' = [dirSet EXCEPT ![a] = NewEntry, ![b] = NoEntry]
      /\ dirRepl' = IF dirSet[b].dstate # "UNCACHED" THEN [dirRepl EXCEPT ![b] = dirSet[b]] ELSE dirRepl
  BY DEF Allocate, Candidates, SetLines, ReplaceEntry
<1>3. ~InSet(a) /\ dirSet[a] = NoEntry /\ dirRepl[a] = NoEntry
  BY <1>2, EntryIsPresent DEF Entry, InSet
<1>4. a # b /\ dirRepl[b] = NoEntry /\ dirSet[b] \in Entries
  BY <1>1, <1>2, <1>3 DEF ReplacedNotShadowed, InSet, EntryType
<1>5. dirSet'[a] = NewEntry /\ dirSet'[b] = NoEntry /\ \A c \in Addrs : c # a /\ c # b => dirSet'[c] = dirSet[c]
  BY <1>1, <1>2, <1>4
<1>6. /\ dirRepl'[b] = (IF dirSet[b].dstate # "UNCACHED" THEN dirSet[b] ELSE NoEntry)
      /\ \A c \in Addrs : c # b => dirRepl'[c] = dirRepl[c]
  BY <1>1, <1>2, <1>4
<1>7. /\ DirEntry(a) = NoEntry /\ DirEntry(a)' = NewEntry /\ DirEntry(b) \in Entries
      /\ IF DirEntry(b).dstate = "UNCACHED" THEN DirEntry(b)' = NoEntry ELSE DirEntry(b)' = DirEntry(b)
      /\ \A c \in Addrs : c # a /\ c # b => DirEntry(c)' = DirEntry(c)
  BY <1>2, <1>3, <1>4, <1>5, <1>6, EntryIsPresent DEF DirEntry
<1>8. Cardinality(SetLines(h)') = Cardinality(SetLines(h))
  <2> DEFINE S == SetLines(h)
  <2>1. IsFiniteSet(S) /\ Cardinality(S) \in Nat /\ b \in S /\ a \notin S
    BY <1>2, <1>3, SetLinesFinite DEF SetLines
  <2>2. SetLines(h)' = (S \ {b}) \cup {a}
    BY <1>2, <1>3, <1>4, <1>5, EntryIsPresent DEF SetLines
  <2> HIDE DEF S
  <2>3. IsFiniteSet(S \ {b}) /\ Cardinality(S \ {b}) = Cardinality(S) - 1
    BY <2>1, FS_RemoveElement
  <2>4. Cardinality((S \ {b}) \cup {a}) = Cardinality(S \ {b}) + 1
    BY <2>1, <2>3, FS_AddElement
  <2> QED
    BY <2>1, <2>2, <2>3, <2>4, SMTT(60) DEF S
<1>9. \A c \in Addrs : Home[c] # h => SetLines(Home[c])' = SetLines(Home[c])
  BY <1>2, <1>5 DEF SetLines
<1>10. ASSUME NEW c \in Addrs, dirRepl'[c] # NoEntry
       PROVE  ~InSet(c)'
  <2>1. CASE c = b
    BY <1>2, <1>3, <1>5, <1>8, <2>1 DEF InSet
  <2>2. CASE c # b
    <3>1. c # a /\ ~InSet(c) /\ dirSet'[c] = dirSet[c]
      BY <1>3, <1>5, <1>6, <1>10, <2>2 DEF ReplacedNotShadowed
    <3> QED
      BY <1>8, <1>9, <3>1 DEF InSet
  <2> QED
    BY <2>1, <2>2
<1> QED
  BY <1>4, <1>7, <1>10 DEF ReplacedNotShadowed

-----------------------------------------------------------------------------
(* The application thread and the L2 cache controller *)

\* A step that concerns no line.
LEMMA AllKept ==
  ASSUME Coherent, failed = {}, UNCHANGED <<dirSet, dirRepl>>,
         \A b \in Addrs : Same(chan, chan', b) /\ SameCopies(b)
  PROVE  Coherent'
<1>1. SUFFICES ASSUME NamesAllSharers
               PROVE  ReplacedNotShadowed' /\ \A a \in Addrs : LineCoherent(a)'
  BY DEF Coherent
<1>2. ReplacedNotShadowed /\ \A a \in Addrs : LineCoherent(a)
  BY <1>1 DEF Coherent
<1> QED
  BY <1>2, DirectoryKept, LineKept

LEMMA SameItself ==
  ASSUME NEW ch, NEW b
  PROVE  Same(ch, ch, b)
BY DEF Same

\* accessCache writes data but leaves the state of every line alone.
LEMMA AccessKept ==
  ASSUME TypeOK, NEW t \in Tiles, NEW c, NEW lk, NEW op, NEW a \in Addrs, NEW v,
         NEW x1, NEW x2 \in L2Type, AccessCache(t, c, lk, op, a, v, x1, x2),
         \A b \in Addrs : x2[b].cstate = l2[t][b].cstate
  PROVE  \A b \in Addrs : SameCopies(b)
<1>1. l2' = [l2 EXCEPT ![t] = IF op = "WRITE" THEN WriteL2(x2, a, v) ELSE x2]
  BY DEF AccessCache
<1>2. \A b \in Addrs : WriteL2(x2, a, v)[b].cstate = x2[b].cstate
  BY DEF WriteL2, L2Type, L2Lines
<1>3. l2 \in [Tiles -> L2Type]
  BY DEF TypeOK, L2Type
<1>4. l2'[t] = (IF op = "WRITE" THEN WriteL2(x2, a, v) ELSE x2) /\ \A u \in Tiles : u # t => l2'[u] = l2[u]
  BY <1>1, <1>3
<1> QED
  BY <1>2, <1>4 DEF SameCopies

LEMMA AppStepCoherent ==
  ASSUME TypeInvariant, Coherent, NEW t \in Tiles, AppStep(t)
  PROVE  Coherent'
<1>0. failed = {}
  BY DEF AppStep, L1Hit, L2Hit, Miss, Retry, Unlock, Unlocked
<1>1. /\ TypeOK /\ chan \in ChanType /\ l1[t] \in L1Type /\ l2[t] \in L2Type
      /\ UNCHANGED <<dirSet, dirRepl>>
  <2>1. UNCHANGED <<dirSet, dirRepl>>
    BY DEF AppStep, L1Hit, L2Hit, Miss, Retry, Unlock
  <2> QED
    BY <2>1 DEF TypeInvariant, TypeOK, ChanType, L1Type, L2Type
<1>2. ASSUME NEW x \in Accesses
      PROVE  x[1] \in Components /\ x[4] \in Addrs /\ x[3] \in MemOps
  BY SMTT(60) DEF Accesses, Addrs, Components, MemOps
<1>3. ASSUME UNCHANGED chan, \A b \in Addrs : SameCopies(b)
      PROVE  Coherent'
  <2>1. \A b \in Addrs : Same(chan, chan', b)
    BY <1>3, SameItself
  <2> QED
    BY <1>0, <1>1, <1>3, <2>1, AllKept
<1>4. ASSUME NEW x \in Accesses, L1Hit(t, x[1], x[2], x[3], x[4], x[5])
      PROVE  Coherent'
  <2>1. AccessCache(t, x[1], x[2], x[3], x[4], x[5], l1[t], l2[t]) /\ UNCHANGED chan
    BY <1>4 DEF L1Hit
  <2> QED
    BY <1>1, <1>2, <1>3, <2>1, AccessKept
<1>5. ASSUME NEW x \in Accesses, L2Hit(t, x[1], x[2], x[3], x[4], x[5])
      PROVE  Coherent'
  <2> DEFINE c == x[1]
             a == x[4]
             line == [cstate |-> l2[t][a].cstate, data |-> l2[t][a].data]
             l2w(w) == [ClearCachedLoc(l2[t], c, w) EXCEPT
                          ![a].loc = IF l2[t][a].loc = NULL THEN c ELSE "L1_DCACHE"]
  <2>1. PICK w : AccessCache(t, c, x[2], x[3], a, x[5],
                             InsertInL1(InvalidateL1(l1[t], c, a), c, a, line, w), l2w(w))
    BY <1>5 DEF L2Hit
  <2>2. ClearCachedLoc(l2[t], c, w) \in L2Type
    BY <1>1, <1>2, CachesTyped
  <2>3. \A b \in Addrs : ClearCachedLoc(l2[t], c, w)[b].cstate = l2[t][b].cstate
    BY <1>1 DEF ClearCachedLoc, L2Type, L2Lines
  <2>4. l2w(w) \in L2Type
    BY <1>2, <2>2, SMTT(60) DEF L2Type, L2Lines, Components
  <2>5. \A b \in Addrs : l2w(w)[b].cstate = l2[t][b].cstate
    BY <1>2, <2>2, <2>3 DEF L2Type, L2Lines
  <2>6. UNCHANGED chan
    BY <1>5 DEF L2Hit
  <2> HIDE DEF l2w
  <2> QED
    BY <1>1, <1>2, <1>3, <2>1, <2>4, <2>5, <2>6, AccessKept
<1>6. ASSUME NEW x \in Accesses, Miss(t, x[1], x[2], x[3], x[4], x[5])
      PROVE  Coherent'
  <2> DEFINE m == Msg(IF x[3] = "READ" THEN "SH_REQ" ELSE "EX_REQ", x[1], x[4], NULL)
  <2>1. m \in Msgs /\ m.type \in {"SH_REQ", "EX_REQ"}
    BY <1>2 DEF Msg, Msgs, MsgTypes, Senders, Data
  <2>2. chan' = Put(chan, t, t, m) /\ UNCHANGED l2
    BY <1>6 DEF Miss
  <2> HIDE DEF m
  <2>3. \A b \in Addrs : Silent(m, b)
    BY <2>1 DEF Silent
  <2>4. \A b \in Addrs : Same(chan, chan', b) /\ SameCopies(b)
    BY <1>1, <2>1, <2>2, <2>3, ChannelViews DEF SameCopies
  <2> QED
    BY <1>0, <1>1, <2>4, AllKept
<1>7. ASSUME Retry(t)
      PROVE  Coherent'
  <2>1. /\ app[t].pc = "woken" /\ UNCHANGED chan
        /\ AccessCache(t, app[t].comp, app[t].lock, app[t].op, app[t].addr, app[t].val, l1[t], l2[t])
    BY <1>7 DEF Retry
  <2>2. app[t].addr \in Addrs
    BY <1>1, <2>1 DEF TypeOK, AppStates
  <2> QED
    BY <1>1, <1>3, <2>1, <2>2, AccessKept
<1>8. ASSUME NEW v \in Values, Unlock(t, v)
      PROVE  Coherent'
  <2>1. /\ app[t].pc = "locked" /\ UNCHANGED chan
        /\ AccessCache(t, "L1_DCACHE", "UNLOCK", "WRITE", app[t].addr, v, l1[t], l2[t])
    BY <1>8 DEF Unlock
  <2>2. app[t].addr \in Addrs
    BY <1>1, <2>1 DEF TypeOK, AppStates
  <2> QED
    BY <1>1, <1>3, <2>1, <2>2, AccessKept
<1> QED
  BY <1>4, <1>5, <1>6, <1>7, <1>8 DEF AppStep

\* The packet at the head of a channel, and what taking it off does.
LEMMA Received ==
  ASSUME TypeInvariant, NEW s \in Tiles, NEW d \in Tiles, chan[s][d] # << >>
  PROVE  \E m \in Msgs :
           /\ m = Head(chan[s][d]) /\ m.addr \in Addrs /\ m.data \in Data /\ RoutedMsg(m, s, d)
           /\ Drop(chan, s, d) \in ChanType
           /\ \A b \in Addrs : /\ Loses(chan, Drop(chan, s, d), s, d, m, b)
                               /\ Silent(m, b) => Same(chan, Drop(chan, s, d), b)
           /\ \A K : m \in K => Has(chan, s, d, K)
<1> DEFINE m == Head(chan[s][d])
<1>1. chan \in ChanType /\ TypeOK /\ RoutedIn(chan)
  BY DEF TypeInvariant, TypeOK, ChanType, Routed
<1>2. m \in Msgs /\ m = chan[s][d][1] /\ 1 \in 1..Len(chan[s][d])
  BY <1>1, HeadTyped
<1>3. m.addr \in Addrs /\ m.data \in Data /\ RoutedMsg(m, s, d)
  BY <1>1, <1>2 DEF Msgs, RoutedIn
<1>4. \A K : m \in K => Has(chan, s, d, K)
  BY <1>2 DEF Has
<1>5. /\ Drop(chan, s, d) \in ChanType
      /\ \A b \in Addrs : /\ Loses(chan, Drop(chan, s, d), s, d, m, b)
                          /\ Silent(m, b) => Same(chan, Drop(chan, s, d), b)
  BY <1>1, ChannelsTyped, ChannelViews
<1> HIDE DEF m
<1> QED
  BY <1>2, <1>3, <1>4, <1>5 DEF m

\* An answer sent after a packet that concerns no line was taken off.
LEMMA Answered ==
  ASSUME NEW ch1, NEW ch2 \in ChanType, \A b \in Addrs : Same(ch1, ch2, b),
         NEW s \in Tiles, NEW d, NEW r \in Msgs, NEW ch3, ch3 = Put(ch2, s, d, r)
  PROVE  /\ Gains(ch1, ch3, s, d, r, r.addr)
         /\ \A b \in Addrs : Silent(r, b) => Same(ch1, ch3, b)
         /\ ch3 \in ChanType
<1>1. /\ \A b : Gains(ch2, ch3, s, d, r, b)
      /\ \A b : Silent(r, b) => Same(ch2, ch3, b)
  BY ChannelViews
<1>2. r.addr \in Addrs
  BY DEF Msgs
<1>3. Gains(ch1, ch3, s, d, r, r.addr)
  BY <1>1, <1>2, ComposeViews
<1>4. \A b \in Addrs : Silent(r, b) => Same(ch1, ch3, b)
  BY <1>1, ComposeViews
<1> QED
  BY <1>3, <1>4, ChannelsTyped

\* Tile t gives up its copy of line a, and nothing else.
LEMMA GiveUp ==
  ASSUME TypeOK, Coherent, failed = {}, UNCHANGED <<dirSet, dirRepl>>,
         NEW t \in Tiles, NEW a \in Addrs, NEW r \in Msgs, r.addr = a,
         Gains(chan, chan', t, Home[a], r, a),
         \A b \in Addrs : b # a => Same(chan, chan', b),
         l2' = [l2 EXCEPT ![t][a] = InvalidL2],
         \/ r.type = "INV_REP" /\ l2[t][a].cstate = "SHARED"
         \/ r.type = "FLUSH_REP" /\ l2[t][a].cstate = "MODIFIED"
  PROVE  Coherent'
<1>1. SUFFICES ASSUME NamesAllSharers
               PROVE  ReplacedNotShadowed' /\ \A b \in Addrs : LineCoherent(b)'
  BY DEF Coherent
<1>2. ReplacedNotShadowed /\ \A b \in Addrs : LineCoherent(b)
  BY <1>1 DEF Coherent
<1>3. /\ \A b \in Addrs : b # a => SameCopies(b)
      /\ OtherCopies(t, a) /\ l2'[t][a].cstate = "INVALID"
  BY DEF TypeOK, SameCopies, OtherCopies, InvalidL2
<1>4. LineCoherent(a)'
  BY <1>2, <1>3, DirectoryKept, LineGivenUp
<1>5. \A b \in Addrs : b # a => LineCoherent(b)'
  BY <1>2, <1>3, DirectoryKept, LineKept
<1> QED
  BY <1>2, <1>4, <1>5, DirectoryKept

LEMMA HandleL1ReqCoherent ==
  ASSUME TypeInvariant, Coherent, NEW t \in Tiles, HandleL1Req(t)
  PROVE  Coherent'
<1>0. failed = {} /\ chan[t][t] # << >> /\ UNCHANGED <<dirSet, dirRepl>> /\ TypeOK
  BY DEF HandleL1Req, Arrived, SimReady, Unlocked, TypeInvariant
<1>1. PICK m \in Msgs :
           /\ m = Head(chan[t][t]) /\ m.addr \in Addrs
           /\ Drop(chan, t, t) \in ChanType
           /\ \A b \in Addrs : Silent(m, b) => Same(chan, Drop(chan, t, t), b)
  BY <1>0, Received
<1> DEFINE a == m.addr
           ch == Drop(chan, t, t)
           inv == Msg("INV_REP", "L2_CACHE", a, NULL)
           req == Msg(m.type, "L2_CACHE", a, NULL)
<1>2. m.type \in {"EX_REQ", "SH_REQ"}
  BY <1>1 DEF HandleL1Req, Arrived
<1>3. ch \in ChanType /\ \A b \in Addrs : Same(chan, ch, b)
  BY <1>1, <1>2 DEF Silent
<1>4. /\ inv \in Msgs /\ inv.addr = a /\ inv.type = "INV_REP"
      /\ req \in Msgs /\ \A b \in Addrs : Silent(req, b)
  BY <1>1, <1>2 DEF Msg, Msgs, MsgTypes, Senders, Data, Silent
<1>5. CASE m.type = "EX_REQ" /\ l2[t][a].cstate = "SHARED"
  <2> DEFINE given == Put(ch, t, Home[a], inv)
  <2>1. l2' = [l2 EXCEPT ![t][a] = InvalidL2] /\ chan' = Put(given, t, Home[a], req)
    BY <1>1, <1>5 DEF HandleL1Req
  <2>2. Silent(inv, a) \in BOOLEAN /\ \A b \in Addrs : b # a => Silent(inv, b)
    BY <1>4 DEF Silent
  <2> HIDE DEF inv, req, ch, a
  <2>3. /\ Gains(chan, given, t, Home[a], inv, a) /\ given \in ChanType
        /\ \A b \in Addrs : b # a => Same(chan, given, b)
    BY <1>3, <1>4, <2>2, Answered
  <2>4. \A b \in Addrs : Same(given, chan', b)
    BY <1>4, <2>1, <2>3, ChannelViews
  <2>5. Gains(chan, chan', t, Home[a], inv, a) /\ \A b \in Addrs : b # a => Same(chan, chan', b)
    <3>1. a \in Addrs
      BY <1>1 DEF a
    <3> QED
      BY <2>3, <2>4, <3>1, ComposeViews
  <2> QED
    BY <1>0, <1>1, <1>4, <1>5, <2>1, <2>5, GiveUp DEF a
<1>6. CASE ~(m.type = "EX_REQ" /\ l2[t][a].cstate = "SHARED")
  <2>1. l2' = l2 /\ chan' = Put(ch, t, Home[a], req)
    BY <1>1, <1>6 DEF HandleL1Req
  <2> HIDE DEF inv, req, ch, a
  <2>2. \A b \in Addrs : Same(chan, chan', b)
    BY <1>3, <1>4, <2>1, Answered
  <2> QED
    BY <1>0, <2>1, <2>2, AllKept DEF SameCopies
<1> QED
  BY <1>5, <1>6

\* processInvReq/FlushReq/WbReqFromDramDirectory
LEMMA CallbacksCoherent ==
  ASSUME TypeInvariant, Coherent, NEW s \in Tiles, NEW t \in Tiles,
         HandleInvReq(s, t) \/ HandleFlushReq(s, t) \/ HandleWbReq(s, t)
  PROVE  Coherent'
<1>0. failed = {} /\ chan[s][t] # << >> /\ UNCHANGED <<dirSet, dirRepl>> /\ TypeOK
  BY DEF HandleInvReq, HandleFlushReq, HandleWbReq, Arrived, SimReady, Unlocked, TypeInvariant
<1>1. PICK m \in Msgs :
           /\ m = Head(chan[s][t]) /\ m.addr \in Addrs /\ RoutedMsg(m, s, t)
           /\ Drop(chan, s, t) \in ChanType
           /\ \A b \in Addrs : Silent(m, b) => Same(chan, Drop(chan, s, t), b)
  BY <1>0, Received
<1> DEFINE a == m.addr
           ch == Drop(chan, s, t)
           line == l2[t][a]
<1>2. m.type \in {"INV_REQ", "FLUSH_REQ", "WB_REQ"} /\ m.from = "DRAM_DIRECTORY"
  BY <1>1 DEF HandleInvReq, HandleFlushReq, HandleWbReq, Arrived
<1>3. s = Home[a]
  BY <1>1, <1>2 DEF RoutedMsg
<1>4. ch \in ChanType /\ \A b \in Addrs : Same(chan, ch, b)
  BY <1>1, <1>2 DEF Silent
<1>5. a \in Addrs /\ line \in L2Lines
  BY <1>0, <1>1, ZenonT(200) DEF TypeOK
<1>6. SUFFICES ASSUME failed' = {}
               PROVE  Coherent'
  BY DEF Coherent
<1>7. CASE NotHeld(line)
  <2>1. chan' = ch /\ UNCHANGED l2
    BY <1>1, <1>7 DEF HandleInvReq, HandleFlushReq, HandleWbReq
  <2> HIDE DEF ch
  <2> QED
    BY <1>0, <1>4, <2>1, AllKept DEF SameCopies
<1>8. ASSUME ~NotHeld(line), NEW r \in Msgs, r.addr = a, NEW d, d = s, chan' = Put(ch, t, d, r),
             l2' = [l2 EXCEPT ![t][a] = InvalidL2],
             \/ r.type = "INV_REP" /\ line.cstate = "SHARED"
             \/ r.type = "FLUSH_REP" /\ line.cstate = "MODIFIED"
      PROVE  Coherent'
  <2>1. \A b \in Addrs : b # a => Silent(r, b)
    BY <1>8 DEF Silent
  <2> HIDE DEF ch
  <2>2. Gains(chan, chan', t, s, r, a) /\ \A b \in Addrs : b # a => Same(chan, chan', b)
    BY <1>4, <1>8, <2>1, Answered
  <2> QED
    BY <1>0, <1>3, <1>5, <1>8, <2>2, GiveUp
<1>9. CASE HandleInvReq(s, t) /\ ~NotHeld(line)
  <2>1. /\ line.cstate = "SHARED" /\ l2' = [l2 EXCEPT ![t][a] = InvalidL2]
        /\ chan' = Put(ch, t, s, Msg("INV_REP", "L2_CACHE", a, NULL))
    BY <1>1, <1>6, <1>9 DEF HandleInvReq, Fails
  <2>2. /\ Msg("INV_REP", "L2_CACHE", a, NULL) \in Msgs
        /\ Msg("INV_REP", "L2_CACHE", a, NULL).type = "INV_REP"
        /\ Msg("INV_REP", "L2_CACHE", a, NULL).addr = a
    BY <1>5 DEF Msg, Msgs, MsgTypes, Senders, Data
  <2> QED
    BY <1>8, <1>9, <2>1, <2>2
<1>10. CASE HandleFlushReq(s, t) /\ ~NotHeld(line)
  <2>1. /\ line.cstate = "MODIFIED" /\ l2' = [l2 EXCEPT ![t][a] = InvalidL2]
        /\ chan' = Put(ch, t, s, Msg("FLUSH_REP", "L2_CACHE", a, line.data))
    BY <1>1, <1>6, <1>10 DEF HandleFlushReq, Fails
  <2>2. /\ Msg("FLUSH_REP", "L2_CACHE", a, line.data) \in Msgs
        /\ Msg("FLUSH_REP", "L2_CACHE", a, line.data).type = "FLUSH_REP"
        /\ Msg("FLUSH_REP", "L2_CACHE", a, line.data).addr = a
    BY <1>5 DEF Msg, Msgs, MsgTypes, Senders, Data, L2Lines
  <2> QED
    BY <1>8, <1>10, <2>1, <2>2
<1>11. CASE HandleWbReq(s, t) /\ ~NotHeld(line)
  <2> DEFINE r == Msg("WB_REP", "L2_CACHE", a, line.data)
  <2>1. /\ line.cstate = "MODIFIED" /\ l2' = [l2 EXCEPT ![t][a].cstate = "SHARED"]
        /\ chan' = Put(ch, t, s, r)
    BY <1>1, <1>6, <1>11 DEF HandleWbReq, Fails
  <2>2. r \in Msgs /\ r.type = "WB_REP" /\ r.addr = a
    BY <1>5 DEF Msg, Msgs, MsgTypes, Senders, Data, L2Lines
  <2>3. \A b \in Addrs : b # a => Silent(r, b)
    BY <2>2 DEF Silent
  <2> HIDE DEF ch, r
  <2>4. Gains(chan, chan', t, s, r, a) /\ \A b \in Addrs : b # a => Same(chan, chan', b)
    BY <1>4, <2>1, <2>2, <2>3, Answered
  <2>5. /\ \A b \in Addrs : b # a => SameCopies(b)
        /\ OtherCopies(t, a) /\ l2'[t][a].cstate = "SHARED"
    <3>1. l2 \in [Tiles -> L2Type]
      BY <1>0 DEF TypeOK, L2Type
    <3>2. l2'[t] = [l2[t] EXCEPT ![a].cstate = "SHARED"] /\ \A u \in Tiles : u # t => l2'[u] = l2[u]
      BY <2>1, <3>1
    <3>3. /\ \A b \in Addrs : b # a => [l2[t] EXCEPT ![a].cstate = "SHARED"][b] = l2[t][b]
          /\ [l2[t] EXCEPT ![a].cstate = "SHARED"][a].cstate = "SHARED"
      BY <1>5, <3>1 DEF L2Type, L2Lines
    <3> QED
      BY <3>2, <3>3 DEF SameCopies, OtherCopies
  <2>6. SUFFICES ASSUME NamesAllSharers
                 PROVE  ReplacedNotShadowed' /\ \A b \in Addrs : LineCoherent(b)'
    BY DEF Coherent
  <2>7. ReplacedNotShadowed /\ \A b \in Addrs : LineCoherent(b)
    BY <1>0, <2>6 DEF Coherent
  <2>8. LineCoherent(a)'
    BY <1>0, <1>3, <1>5, <2>1, <2>2, <2>4, <2>5, <2>7, DirectoryKept, LineWrittenBack
  <2>9. \A b \in Addrs : b # a => LineCoherent(b)'
    BY <1>0, <2>4, <2>5, <2>7, DirectoryKept, LineKept
  <2> QED
    BY <1>0, <2>7, <2>8, <2>9, DirectoryKept
<1> QED
  BY <1>7, <1>9, <1>10, <1>11

\* processExRep/ShRepFromDramDirectory
LEMMA HandleRepCoherent ==
  ASSUME TypeInvariant, Coherent, NEW s \in Tiles, NEW t \in Tiles, HandleRep(s, t)
  PROVE  Coherent'
<1>0. failed = {} /\ chan[s][t] # << >> /\ UNCHANGED <<dirSet, dirRepl>> /\ TypeOK
  BY DEF HandleRep, Arrived, SimReady, Unlocked, TypeInvariant
<1>1. PICK m \in Msgs :
           /\ m = Head(chan[s][t]) /\ m.addr \in Addrs /\ m.data \in Data /\ RoutedMsg(m, s, t)
           /\ Drop(chan, s, t) \in ChanType
           /\ \A b \in Addrs : /\ Loses(chan, Drop(chan, s, t), s, t, m, b)
                               /\ Silent(m, b) => Same(chan, Drop(chan, s, t), b)
           /\ \A K : m \in K => Has(chan, s, t, K)
  BY <1>0, Received
<1> DEFINE a == m.addr
           ch == Drop(chan, s, t)
           c == outst[t].comp
           st == IF m.type = "EX_REP" THEN "MODIFIED" ELSE "SHARED"
           l2v(v) == [b \in Addrs |-> IF b = a THEN [cstate |-> st, data |-> m.data, loc |-> c]
                                      ELSE IF b = v THEN InvalidL2 ELSE l2[t][b]]
           back(v) == IF l2[t][v].cstate = "MODIFIED"
                      THEN Msg("FLUSH_REP", "L2_CACHE", v, l2[t][v].data)
                      ELSE Msg("INV_REP", "L2_CACHE", v, NULL)
<1>2. m.type \in {"EX_REP", "SH_REP"} /\ m.from = "DRAM_DIRECTORY" /\ s = Home[a]
  <2>1. m.type \in {"EX_REP", "SH_REP"} /\ m.from = "DRAM_DIRECTORY"
    BY <1>1 DEF HandleRep, Arrived
  <2> QED
    BY <1>1, <2>1 DEF RoutedMsg
<1>3. PICK v \in Victims(l2[t], L2Ways) : \E w :
        /\ l2' = [l2 EXCEPT ![t] = ClearCachedLoc(l2v(v), c, w)]
        /\ chan' = IF v = NULL THEN ch ELSE Put(ch, t, Home[v], back(v))
  <2> DEFINE Taken(x) ==
        \E v \in Victims(l2[t], L2Ways) : \E w :
          /\ l2' = [l2 EXCEPT ![t] = ClearCachedLoc(
                      [b \in Addrs |->
                         IF b = x.addr
                         THEN [cstate |-> IF x.type = "EX_REP" THEN "MODIFIED" ELSE "SHARED",
                               data |-> x.data, loc |-> c]
                         ELSE IF b = v THEN InvalidL2 ELSE l2[t][b]], c, w)]
          /\ chan' = CASE v = NULL -> ch
                       [] v # NULL /\ l2[t][v].cstate = "MODIFIED" ->
                            Put(ch, t, Home[v], Msg("FLUSH_REP", "L2_CACHE", v, l2[t][v].data))
                       [] OTHER -> Put(ch, t, Home[v], Msg("INV_REP", "L2_CACHE", v, NULL))
  <2>1. Taken(Head(chan[s][t]))
    BY DEF HandleRep
  <2> HIDE DEF Taken
  <2>2. Taken(m)
    BY <1>1, <2>1
  <2>3. PICK v \in Victims(l2[t], L2Ways) : \E w :
          /\ l2' = [l2 EXCEPT ![t] = ClearCachedLoc(l2v(v), c, w)]
          /\ chan' = CASE v = NULL -> ch
                       [] v # NULL /\ l2[t][v].cstate = "MODIFIED" ->
                            Put(ch, t, Home[v], Msg("FLUSH_REP", "L2_CACHE", v, l2[t][v].data))
                       [] OTHER -> Put(ch, t, Home[v], Msg("INV_REP", "L2_CACHE", v, NULL))
    BY <2>2 DEF Taken
  <2>4. chan' = IF v = NULL THEN ch ELSE Put(ch, t, Home[v], back(v))
    <3> HIDE DEF ch
    <3> QED
      BY <2>3
  <2> QED
    BY <2>3, <2>4
<1>4. PICK w : l2' = [l2 EXCEPT ![t] = ClearCachedLoc(l2v(v), c, w)]
  BY <1>3
<1>5. a \in Addrs /\ c \in Components /\ l2 \in [Tiles -> L2Type]
  BY <1>0, <1>1 DEF TypeOK, L2Type
<1>6. l2v(v) \in L2Type
  BY <1>1, <1>5 DEF L2Type, L2Lines, InvalidL2, CStates, Data
<1>7. v # NULL => v \in Addrs /\ l2[t][v].cstate # "INVALID"
  BY DEF Victims
<1>8. \A b \in Addrs : ClearCachedLoc(l2v(v), c, w)[b].cstate = l2v(v)[b].cstate
  <2> HIDE DEF l2v
  <2> QED
    BY <1>6 DEF ClearCachedLoc, L2Type, L2Lines
<1>9. l2'[t] = ClearCachedLoc(l2v(v), c, w) /\ \A u \in Tiles : u # t => l2'[u] = l2[u]
  BY <1>4, <1>5
<1>10. SUFFICES ASSUME NamesAllSharers
                PROVE  ReplacedNotShadowed' /\ \A b \in Addrs : LineCoherent(b)'
  BY DEF Coherent
<1>11. ReplacedNotShadowed /\ \A b \in Addrs : LineCoherent(b)
  BY <1>0, <1>10 DEF Coherent
<1>12. Has(chan, Home[a], t, Replies(a))
  <2>1. m \in Replies(a)
    BY <1>2, ClassOfPacket
  <2> QED
    BY <1>1, <1>2, <2>1
<1>13. l2[t][a].cstate = "INVALID"
  BY <1>5, <1>11, <1>12 DEF LineCoherent, OneCopy, Valid, Coming
<1>14. v # a
  BY <1>5, <1>7, <1>13, AddrsAssumption
<1>15. /\ l2'[t][a].cstate = st /\ OtherCopies(t, a)
       /\ \A b \in Addrs : b # a /\ b # v => SameCopies(b)
       /\ v # NULL => l2'[t][v].cstate = "INVALID" /\ OtherCopies(t, v)
  <2>1. /\ l2v(v)[a].cstate = st
        /\ \A b \in Addrs : b # a /\ b # v => l2v(v)[b].cstate = l2[t][b].cstate
        /\ v # NULL => l2v(v)[v].cstate = "INVALID"
    BY <1>5, <1>7, <1>14 DEF InvalidL2
  <2> HIDE DEF l2v, st
  <2> QED
    BY <1>5, <1>7, <1>8, <1>9, <2>1 DEF SameCopies, OtherCopies
<1>16. \A b \in Addrs : b # a => Same(chan, ch, b)
  BY <1>1 DEF Silent
<1>17. \A b \in Addrs : DirEntry(b)' = DirEntry(b)
  BY <1>0, DirectoryKept
<1>18. CASE v = NULL
  <2>1. chan' = ch
    BY <1>3, <1>18
  <2>2. LineCoherent(a)'
    <3>1. Loses(chan, chan', Home[a], t, m, a)
      BY <1>1, <1>2, <1>5, <2>1
    <3> QED
      BY <1>2, <1>5, <1>11, <1>12, <1>15, <1>17, <3>1, LineInserted
  <2>3. \A b \in Addrs : b # a => LineCoherent(b)'
    <3>1. \A b \in Addrs : b # v
      BY <1>18, AddrsAssumption
    <3> QED
      BY <1>11, <1>15, <1>16, <1>17, <2>1, <3>1, LineKept
  <2> QED
    BY <1>0, <1>11, <2>2, <2>3, DirectoryKept
<1>19. CASE v # NULL
  <2> DEFINE r == back(v)
  <2>1. chan' = Put(ch, t, Home[v], r) /\ v \in Addrs
    BY <1>3, <1>7, <1>19
  <2>2. l2[t][v] \in L2Lines
    BY <1>5, <2>1 DEF L2Type
  <2>3. /\ r \in Msgs /\ r.addr = v
        /\ \/ r.type = "INV_REP" /\ l2[t][v].cstate = "SHARED"
           \/ r.type = "FLUSH_REP" /\ l2[t][v].cstate = "MODIFIED"
    BY <1>7, <1>19, <2>1, <2>2 DEF Msg, Msgs, MsgTypes, Senders, Data, L2Lines, CStates
  <2>4. \A b \in Addrs : b # v => Silent(r, b)
    BY <2>3 DEF Silent
  <2> HIDE DEF r, ch
  <2>5. /\ Gains(ch, chan', t, Home[v], r, v)
        /\ \A b \in Addrs : b # v => Same(ch, chan', b)
    BY <1>1, <2>1, <2>3, <2>4, ChannelViews DEF ch
  <2>6. Gains(chan, chan', t, Home[v], r, v)
    BY <1>14, <1>16, <2>1, <2>5, ComposeViews
  <2>7. Loses(chan, chan', Home[a], t, m, a)
    <3>1. Loses(chan, ch, Home[a], t, m, a) /\ Same(ch, chan', a)
      BY <1>1, <1>2, <1>5, <1>14, <2>5 DEF ch
    <3> QED
      BY <3>1, ComposeViews
  <2>8. \A b \in Addrs : b # a /\ b # v => Same(chan, chan', b)
    BY <1>16, <2>5, ComposeViews
  <2>9. LineCoherent(a)'
    BY <1>2, <1>5, <1>11, <1>12, <1>15, <1>17, <2>7, LineInserted
  <2>10. LineCoherent(v)'
    BY <1>11, <1>15, <1>17, <1>19, <2>1, <2>3, <2>6, LineGivenUp
  <2>11. \A b \in Addrs : b # a /\ b # v => LineCoherent(b)'
    BY <1>11, <1>15, <1>17, <2>8, LineKept
  <2> QED
    BY <1>0, <1>11, <2>9, <2>10, <2>11, DirectoryKept
<1> QED
  BY <1>18, <1>19

-----------------------------------------------------------------------------
(* The steps of the DRAM directory controller keep every line coherent, and *)
(* with that so does the protocol: a written line has a single copy         *)

\* Under these schemes addSharer and removeSharer are set operations.
LEMMA SharersNamed ==
  ASSUME NamesAllSharers, NEW e \in Entries, NEW t \in Tiles
  PROVE  /\ AddSharer(e, t).sharers = e.sharers \cup {t} /\ AddSharer(e, t) \in Entries
         /\ Scheme = "limited_no_broadcast" => AddSharer(e, t).overflow = e.overflow
         /\ RemoveSharer(e, t) = [e EXCEPT !.sharers = e.sharers \ {t}]
         /\ RemoveSharer(e, t) \in Entries
         /\ NumSharers(RemoveSharer(e, t)) = 0 <=> e.sharers \ {t} = {}
<1>1. e.sharers \in SUBSET Tiles /\ IsFiniteSet(e.sharers \ {t})
  <2>1. e.sharers \in SUBSET Tiles
    BY DEF Entries
  <2> QED
    BY <2>1, TilesFiniteAssumption, FS_Subset
<1>2. AddSharer(e, t).sharers = e.sharers \cup {t}
  BY DEF NamesAllSharers, AddSharer, Entries
<1>3. Scheme = "limited_no_broadcast" => AddSharer(e, t).overflow = e.overflow
  BY DEF AddSharer, Entries
<1>4. RemoveSharer(e, t) = [e EXCEPT !.sharers = e.sharers \ {t}]
  BY DEF NamesAllSharers, RemoveSharer
<1>5. NumSharers(RemoveSharer(e, t)) = Cardinality(e.sharers \ {t})
  BY <1>4 DEF NamesAllSharers, NumSharers, Entries
<1>6. Cardinality(e.sharers \ {t}) = 0 <=> e.sharers \ {t} = {}
  BY <1>1, FS_EmptySet
<1> QED
  BY <1>2, <1>3, <1>4, <1>5, <1>6, EntryOperatorsTyped

\* A directory step concerns one line.
LEMMA OneLineCoherent ==
  ASSUME TypeOK, Coherent, failed = {}, NEW a \in Addrs, NEW f \in Entries, SetEntry(a, f),
         UNCHANGED l2, \A b \in Addrs : b # a => Same(chan, chan', b),
         NamesAllSharers => LineCoherent(a)'
  PROVE  Coherent'
<1>1. SUFFICES ASSUME NamesAllSharers
               PROVE  ReplacedNotShadowed' /\ \A b \in Addrs : LineCoherent(b)'
  BY DEF Coherent
<1>2. ReplacedNotShadowed /\ \A b \in Addrs : LineCoherent(b) /\ SameCopies(b)
  BY <1>1 DEF Coherent, SameCopies
<1>3. \A b \in Addrs : b # a => LineCoherent(b)'
  BY <1>2, SetEntryView, LineKept
<1> QED
  BY <1>1, <1>2, <1>3, SetEntryView

\* handleMsgFromL2Cache
LEMMA DirectoryHandlersCoherent ==
  ASSUME TypeInvariant, Coherent, NEW s \in Tiles, NEW h \in Tiles,
         \/ HandleL2Req(s, h)
         \/ HandleInvRep(s, h)
         \/ HandleFlushRep(s, h)
         \/ HandleWbRep(s, h)
  PROVE  Coherent'
<1>0. /\ failed = {} /\ chan[s][h] # << >> /\ TypeOK /\ UNCHANGED l2 /\ chan' = Drop(chan, s, h)
      /\ Head(chan[s][h]).from = "L2_CACHE"
  BY
  DEF HandleL2Req, HandleInvRep, HandleFlushRep, HandleWbRep, Arrived, SimReady, Unlocked, TypeInvariant
<1>1. PICK m \in Msgs :
           /\ m = Head(chan[s][h]) /\ m.addr \in Addrs /\ m.data \in Data /\ RoutedMsg(m, s, h)
           /\ Drop(chan, s, h) \in ChanType
           /\ \A b \in Addrs : /\ Loses(chan, Drop(chan, s, h), s, h, m, b)
                               /\ Silent(m, b) => Same(chan, Drop(chan, s, h), b)
           /\ \A K : m \in K => Has(chan, s, h, K)
  BY <1>0, Received
<1>2. PICK a \in Addrs : a = m.addr
  BY <1>1
<1>3. h = Home[a] /\ Loses(chan, chan', s, Home[a], m, a) /\ \A K : m \in K => Has(chan, s, Home[a], K)
  BY <1>0, <1>1, <1>2 DEF RoutedMsg
<1>4. /\ \A b \in Addrs : b # a => Same(chan, chan', b)
      /\ \A b \in Addrs : Silent(m, b) => Same(chan, chan', b)
  BY <1>0, <1>1, <1>2 DEF Silent
<1>5. SUFFICES ASSUME failed' = {}, NamesAllSharers
               PROVE  Coherent'
  BY DEF Coherent
<1>6. ReplacedNotShadowed /\ LineCoherent(a) /\ SameCopies(a)
  BY <1>0, <1>5 DEF Coherent, SameCopies
<1>7. ASSUME HandleL2Req(s, h)
      PROVE  Coherent'
  <2>1. m.type \in {"EX_REQ", "SH_REQ"} /\ UNCHANGED <<dirSet, dirRepl>>
    BY <1>1, <1>7 DEF HandleL2Req, Arrived
  <2>2. \A b \in Addrs : Same(chan, chan', b) /\ SameCopies(b)
    BY <1>0, <1>4, <2>1 DEF Silent, SameCopies
  <2> QED
    BY <1>0, <2>1, <2>2, AllKept
<1>8. PICK e \in EntryType : e = DirEntry(a)
  BY <1>0 DEF TypeOK, DirEntry, EntryType
<1>9. ASSUME s \in e.sharers
      PROVE  Entry(a) = e /\ e \in Entries
  <2>1. e # NoEntry
    BY <1>9, EntryIsPresent
  <2> QED
    BY <1>6, <1>8, <2>1, EntryView DEF EntryType
<1>10. ASSUME m.type \in {"INV_REP", "FLUSH_REP"}
       PROVE  s \in e.sharers
  <2>1. Has(chan, s, Home[a], Returns(a))
    BY <1>2, <1>3, <1>10, ClassOfPacket
  <2> QED
    BY <1>6, <1>8, <2>1 DEF LineCoherent, KnownCopy, Going
<1>11. ASSUME HandleInvRep(s, h)
       PROVE  Coherent'
  <2>1. m.type = "INV_REP"
    BY <1>1, <1>11 DEF HandleInvRep, Arrived
  <2>2. s \in e.sharers /\ Entry(a) = e /\ e \in Entries
    BY <1>9, <1>10, <2>1
  <2> DEFINE f == Invalidated(e, s)
  <2>3. SetEntry(a, f) /\ e.dstate = "SHARED"
    <3>1. SetEntry(a, Invalidated(Entry(a), s)) /\ Entry(a).dstate = "SHARED"
      <4> DEFINE Done(x) == SetEntry(x, Invalidated(Entry(x), s)) /\ Entry(x).dstate = "SHARED"
      <4>1. Done(Head(chan[s][h]).addr)
        BY <1>5, <1>11 DEF HandleInvRep, Fails
      <4> HIDE DEF Done
      <4>2. Done(a)
        BY <1>1, <1>2, <4>1
      <4> QED
        BY <4>2 DEF Done
    <3> QED
      BY <2>2, <3>1
  <2>4. /\ f \in Entries /\ f.sharers = e.sharers \ {s} /\ f.overflow = e.overflow
        /\ \/ f.dstate = e.dstate /\ f.sharers # {}
           \/ f.dstate = "UNCACHED" /\ f.sharers = {}
    <3> DEFINE r == RemoveSharer(e, s)
    <3>1. /\ r \in Entries /\ r.sharers = e.sharers \ {s} /\ r.overflow = e.overflow
          /\ r.dstate = e.dstate /\ (NumSharers(r) = 0 <=> e.sharers \ {s} = {})
      BY <1>5, <2>2, SharersNamed, SMTT(60) DEF Entries
    <3>2. f = [r EXCEPT !.dstate = IF NumSharers(r) = 0 THEN "UNCACHED" ELSE r.dstate]
      BY DEF Invalidated
    <3> HIDE DEF r, f
    <3>3. /\ f \in Entries /\ f.sharers = r.sharers /\ f.overflow = r.overflow
          /\ f.dstate = IF NumSharers(r) = 0 THEN "UNCACHED" ELSE r.dstate
      <4>1. (IF NumSharers(r) = 0 THEN "UNCACHED" ELSE r.dstate) \in DStates
        BY <3>1 DEF Entries, DStates
      <4> QED
        BY <3>1, <3>2, <4>1 DEF Entries
    <3> QED
      BY <3>1, <3>3
  <2> HIDE DEF f
  <2>5. DirEntry(a)' = f
    BY <1>0, <1>6, <2>3, <2>4, SetEntryView
  <2>6. Has(chan, s, Home[a], Returns(a))
    BY <1>2, <1>3, <2>1, ClassOfPacket
  <2>7. LineCoherent(a)'
    BY <1>2, <1>3, <1>6, <1>8, <2>1, <2>3, <2>4, <2>5, <2>6, LineReturned, ZenonT(200)
  <2> QED
    BY <1>0, <1>4, <2>3, <2>4, <2>7, OneLineCoherent
<1>12. ASSUME HandleFlushRep(s, h)
       PROVE  Coherent'
  <2>1. m.type = "FLUSH_REP"
    BY <1>1, <1>12 DEF HandleFlushRep, Arrived
  <2>2. s \in e.sharers /\ Entry(a) = e /\ e \in Entries
    BY <1>9, <1>10, <2>1
  <2> DEFINE f == [RemoveSharer(e, s) EXCEPT !.owner = NULL, !.dstate = "UNCACHED"]
  <2>3. SetEntry(a, f)
    <3> DEFINE Done(x) ==
          SetEntry(x, [RemoveSharer(Entry(x), s) EXCEPT !.owner = NULL, !.dstate = "UNCACHED"])
    <3>1. Done(Head(chan[s][h]).addr)
      BY <1>12 DEF HandleFlushRep
    <3> HIDE DEF Done
    <3>2. Done(a)
      BY <1>1, <1>2, <3>1
    <3> QED
      BY <2>2, <3>2 DEF Done
  <2>4. Has(chan, s, Home[a], Returns(a)) /\ Has(chan, s, Home[a], FlushReps(a))
    BY <1>2, <1>3, <2>1, ClassOfPacket
  <2>5. e.dstate = "MODIFIED" /\ e.sharers \ {s} = {}
    <3>1. e.dstate = "MODIFIED"
      BY <1>6, <1>8, <2>4 DEF LineCoherent, KnownCopy, Dirty
    <3> QED
      BY <1>6, <1>8, <2>2, <3>1, SMTT(60) DEF LineCoherent, SoundEntry
  <2>6. f \in Entries /\ f.sharers = {} /\ f.overflow = e.overflow /\ f.dstate = "UNCACHED"
    <3> DEFINE r == RemoveSharer(e, s)
    <3>1. r \in Entries /\ r.sharers = {} /\ r.overflow = e.overflow
      BY <1>5, <2>2, <2>5, SharersNamed, SMTT(60) DEF Entries
    <3> HIDE DEF r
    <3>2. /\ [r EXCEPT !.owner = NULL, !.dstate = "UNCACHED"] \in Entries
          /\ [r EXCEPT !.owner = NULL, !.dstate = "UNCACHED"].sharers = {}
          /\ [r EXCEPT !.owner = NULL, !.dstate = "UNCACHED"].overflow = e.overflow
          /\ [r EXCEPT !.owner = NULL, !.dstate = "UNCACHED"].dstate = "UNCACHED"
      BY <3>1 DEF Entries, DStates
    <3> QED
      BY <3>2 DEF r
  <2> HIDE DEF f
  <2>7. DirEntry(a)' = f
    BY <1>0, <1>6, <2>3, <2>6, SetEntryView
  <2>8. LineCoherent(a)'
    BY <1>2, <1>3, <1>6, <1>8, <2>1, <2>4, <2>5, <2>6, <2>7, LineReturned, SMTT(60)
  <2> QED
    BY <1>0, <1>4, <2>3, <2>6, <2>8, OneLineCoherent
<1>13. ASSUME HandleWbRep(s, h)
       PROVE  Coherent'
  <2>1. m.type = "WB_REP"
    BY <1>1, <1>13 DEF HandleWbRep, Arrived
  <2>2. Has(chan, s, Home[a], WbReps(a))
    BY <1>2, <1>3, <2>1, ClassOfPacket
  <2>3. s \in e.sharers
    BY <1>6, <1>8, <2>2 DEF LineCoherent, KnownCopy, WrittenBack
  <2>4. Entry(a) = e /\ e \in Entries
    BY <1>9, <2>3
  <2> DEFINE f == [e EXCEPT !.owner = NULL, !.dstate = "SHARED"]
  <2>5. SetEntry(a, f)
    <3> DEFINE Done(x) == SetEntry(x, [Entry(x) EXCEPT !.owner = NULL, !.dstate = "SHARED"])
    <3>1. Done(Head(chan[s][h]).addr)
      BY <1>13 DEF HandleWbRep
    <3> HIDE DEF Done
    <3>2. Done(a)
      BY <1>1, <1>2, <3>1
    <3> QED
      BY <2>4, <3>2 DEF Done
  <2>6. f \in Entries /\ f.sharers = e.sharers /\ f.overflow = e.overflow /\ f.dstate = "SHARED"
    BY <2>4 DEF Entries, DStates
  <2> HIDE DEF f
  <2>7. DirEntry(a)' = f
    BY <1>0, <1>6, <2>5, <2>6, SetEntryView
  <2>8. LineCoherent(a)'
    BY <1>2, <1>3, <1>6, <1>8, <2>1, <2>2, <2>6, <2>7, LineCleaned
  <2> QED
    BY <1>0, <1>4, <2>5, <2>6, <2>8, OneLineCoherent
<1> QED
  BY <1>7, <1>11, <1>12, <1>13

\* Requests of the directory to the tiles concern no copy.
LEMMA RequestsSilent ==
  ASSUME TypeOK, NEW h \in Tiles, NEW a \in Addrs, NEW type \in {"INV_REQ", "FLUSH_REQ", "WB_REQ"},
         NEW b \in Addrs
  PROVE  /\ \A d : Same(chan, Put(chan, h, d, Msg(type, "DRAM_DIRECTORY", a, NULL)), b)
         /\ \A D : Same(chan, PutAll(chan, h, D, Msg(type, "DRAM_DIRECTORY", a, NULL)), b)
<1> DEFINE m == Msg(type, "DRAM_DIRECTORY", a, NULL)
<1>1. chan \in ChanType
  BY DEF TypeOK, ChanType
<1>2. m \in Msgs /\ Silent(m, b)
  BY DEF Msg, Msgs, MsgTypes, Senders, Data, Silent
<1> HIDE DEF m
<1>3. /\ \A d : Same(chan, Put(chan, h, d, m), b)
      /\ \A D : Same(chan, PutAll(chan, h, D, m), b)
  BY <1>1, <1>2, ChannelViews
<1> QED
  BY <1>3 DEF m

\* retrieveDataAndSendToL2Cache, once the requester has been added as a sharer.
LEMMA GrantCoherent ==
  ASSUME TypeInvariant, Coherent, failed = {}, NamesAllSharers,
         NEW h \in Tiles, NEW a \in Addrs, Home[a] = h, NEW t \in Tiles, NEW e, e = Entry(a),
         e # NoEntry, t \notin e.sharers, UNCHANGED l2, NEW type, SendData(type, h, t, a, busy[h].data),
         NEW f \in Entries, SetEntry(a, f), f.sharers = e.sharers \cup {t},
         Scheme = "limited_no_broadcast" => f.overflow = e.overflow,
         \/ type = "EX_REP" /\ f.dstate = "MODIFIED" /\ e.dstate = "UNCACHED"
         \/ type = "SH_REP" /\ f.dstate = "SHARED" /\ e.dstate # "MODIFIED"
  PROVE  Coherent'
<1>1. TypeOK /\ chan \in ChanType /\ ReplacedNotShadowed /\ LineCoherent(a) /\ SameCopies(a)
  BY DEF TypeInvariant, TypeOK, ChanType, Coherent, SameCopies
<1>2. PICK x \in Data : chan' = Put(chan, h, t, Msg(type, "DRAM_DIRECTORY", a, x))
  <2>1. busy[h].data \in Data /\ DramData(a) \in Data
    BY <1>1, ValuesAssumption DEF TypeOK, DramData, Data
  <2> QED
    BY <2>1 DEF SendData
<1> DEFINE m == Msg(type, "DRAM_DIRECTORY", a, x)
<1>3. m \in Msgs /\ m.addr = a /\ m.type = type /\ \A b \in Addrs : b # a => Silent(m, b)
  BY DEF Msg, Msgs, MsgTypes, Senders, Silent
<1> HIDE DEF m
<1>4. Gains(chan, chan', Home[a], t, m, a) /\ \A b \in Addrs : b # a => Same(chan, chan', b)
  BY <1>1, <1>2, <1>3, ChannelViews DEF m
<1>5. PICK g : g = DirEntry(a)
  OBVIOUS
<1>6. /\ g.sharers = e.sharers /\ SoundEntry(g)
      /\ e = g \/ (e = NewEntry /\ g = NoEntry)
  BY <1>1, <1>5, EntryView, EntryIsPresent DEF LineCoherent
<1>7. /\ e.dstate = "UNCACHED" => g.sharers = {}
      /\ e.dstate # "MODIFIED" => g.dstate # "MODIFIED"
      /\ Scheme = "limited_no_broadcast" => e.overflow = FALSE
  BY <1>6, EntryIsPresent DEF SoundEntry, NoEntry, NewEntry
<1>8. DirEntry(a)' = f
  BY <1>1, SetEntryView
<1>9. LineCoherent(a)'
  <2>1. /\ t \notin g.sharers /\ f.sharers = g.sharers \cup {t}
        /\ Scheme = "limited_no_broadcast" => f.overflow = FALSE
        /\ \/ m.type = "EX_REP" /\ f.dstate = "MODIFIED" /\ g.sharers = {}
           \/ m.type = "SH_REP" /\ f.dstate = "SHARED" /\ g.dstate # "MODIFIED"
    BY <1>3, <1>6, <1>7
  <2> QED
    BY <1>1, <1>3, <1>4, <1>5, <1>8, <2>1, LineGranted, ZenonT(200)
<1> QED
  BY <1>1, <1>4, <1>9, OneLineCoherent

\* The directory controller serves the front request of a line.
LEMMA DirStepCoherent ==
  ASSUME TypeInvariant, Coherent, NEW h \in Tiles, DirStep(h)
  PROVE  Coherent'
<1>1. PICK a \in Addrs : \/ \E b \in Addrs : Allocate(h, a, b)
                         \/ AllocateFails(h, a)
                         \/ ProcessExReq(h, a)
                         \/ ProcessShReq(h, a)
                         \/ ProcessNullify(h, a)
  BY DEF DirStep
<1>2. /\ failed = {} /\ busy[h].addr = a /\ UNCHANGED l2 /\ TypeOK
  BY <1>1
  DEF Allocate, AllocateFails, ProcessExReq, ProcessShReq, ProcessNullify, Processing, TypeInvariant
<1>3. Home[a] = h /\ reqs[a] # << >>
  BY <1>2, AddrsAssumption DEF TypeInvariant, ProcessingQueued
<1>4. PICK t \in Tiles : t = Front(a).requester
  <2>1. reqs[a] \in Seq(Reqs)
    BY <1>2 DEF TypeOK
  <2>2. Head(reqs[a]) \in Reqs
    BY <1>3, <2>1, SMTT(60)
  <2> QED
    BY <2>2 DEF Front, Reqs
<1>5. PICK e \in EntryType : e = Entry(a)
  BY <1>2, LookupTyped
<1>6. SUFFICES ASSUME failed' = {}, NamesAllSharers
               PROVE  Coherent'
  BY DEF Coherent
<1>7. ReplacedNotShadowed /\ \A b \in Addrs : LineCoherent(b) /\ SameCopies(b)
  BY <1>2, <1>6 DEF Coherent, SameCopies
<1>8. ASSUME UNCHANGED <<dirSet, dirRepl>>, NEW d, NEW D,
             NEW type \in {"INV_REQ", "FLUSH_REQ", "WB_REQ"},
             \/ chan' = Put(chan, h, d, Msg(type, "DRAM_DIRECTORY", a, NULL))
             \/ chan' = PutAll(chan, h, D, Msg(type, "DRAM_DIRECTORY", a, NULL))
      PROVE  Coherent'
  <2>1. \A b \in Addrs : Same(chan, chan', b)
    BY <1>2, <1>8, RequestsSilent
  <2> QED
    BY <1>2, <1>7, <1>8, <2>1, AllKept
<1>9. ASSUME ProcessExReq(h, a)
      PROVE  Coherent'
  <2>1. e \in Entries
    BY <1>5, <1>9 DEF ProcessExReq, EntryType
  <2>2. CASE e.dstate = "MODIFIED"
    <3>1. /\ chan' = Put(chan, h, e.owner, Msg("FLUSH_REQ", "DRAM_DIRECTORY", a, NULL))
          /\ UNCHANGED <<dirSet, dirRepl>>
      BY <1>5, <1>9, <2>2 DEF ProcessExReq
    <3> QED
      BY <1>8, <3>1
  <2>3. CASE e.dstate = "SHARED"
    <3>1. /\ chan' = PutAll(chan, h, InvTargets(e), Msg("INV_REQ", "DRAM_DIRECTORY", a, NULL))
          /\ UNCHANGED <<dirSet, dirRepl>>
      BY <1>5, <1>9, <2>3 DEF ProcessExReq
    <3> QED
      BY <1>8, <3>1
  <2>4. CASE e.dstate = "UNCACHED"
    <3> DEFINE f == [AddSharer(e, t) EXCEPT !.owner = t, !.dstate = "MODIFIED"]
    <3>1. SetEntry(a, f) /\ SendData("EX_REP", h, t, a, busy[h].data)
      BY <1>4, <1>5, <1>9, <2>4 DEF ProcessExReq
    <3>2. e.sharers = {}
      BY <1>5, <1>7, <2>4, EntryView, EntryIsPresent DEF LineCoherent, SoundEntry
    <3>3. /\ f \in Entries /\ f.sharers = e.sharers \cup {t} /\ f.dstate = "MODIFIED"
          /\ Scheme = "limited_no_broadcast" => f.overflow = e.overflow
      <4> DEFINE r == AddSharer(e, t)
      <4>1. /\ r \in Entries /\ r.sharers = e.sharers \cup {t}
            /\ Scheme = "limited_no_broadcast" => r.overflow = e.overflow
        BY <1>6, <2>1, SharersNamed
      <4> HIDE DEF r
      <4>2. /\ [r EXCEPT !.owner = t, !.dstate = "MODIFIED"] \in Entries
            /\ [r EXCEPT !.owner = t, !.dstate = "MODIFIED"].sharers = r.sharers
            /\ [r EXCEPT !.owner = t, !.dstate = "MODIFIED"].overflow = r.overflow
            /\ [r EXCEPT !.owner = t, !.dstate = "MODIFIED"].dstate = "MODIFIED"
        BY <4>1 DEF Entries, DStates
      <4> QED
        BY <4>1, <4>2 DEF r
    <3> HIDE DEF f
    <3>4. e # NoEntry /\ t \notin e.sharers
      BY <2>1, <3>2, EntryIsPresent
    <3> QED
      BY <1>2, <1>3, <1>5, <1>6, <2>4, <3>1, <3>3, <3>4, GrantCoherent
  <2> QED
    BY <2>1, <2>2, <2>3, <2>4 DEF Entries, DStates
<1>10. ASSUME ProcessShReq(h, a)
       PROVE  Coherent'
  <2>1. e \in Entries
    BY <1>5, <1>10 DEF ProcessShReq, EntryType
  <2>2. CASE e.dstate = "MODIFIED"
    <3>1. /\ chan' = Put(chan, h, e.owner, Msg("WB_REQ", "DRAM_DIRECTORY", a, NULL))
          /\ UNCHANGED <<dirSet, dirRepl>>
      BY <1>5, <1>10, <2>2 DEF ProcessShReq
    <3> QED
      BY <1>8, <3>1
  <2>3. CASE e.dstate = "SHARED" /\ ~AddSharerSucceeds(e)
    <3>1. /\ \E u \in e.sharers :
               chan' = Put(chan, h, u, Msg("INV_REQ", "DRAM_DIRECTORY", a, NULL))
          /\ UNCHANGED <<dirSet, dirRepl>>
      BY <1>5, <1>10, <2>3 DEF ProcessShReq
    <3> QED
      BY <1>8, <3>1
  <2>4. CASE e.dstate = "UNCACHED" \/ (e.dstate = "SHARED" /\ AddSharerSucceeds(e))
    <3> DEFINE f == [AddSharer(e, t) EXCEPT !.dstate = "SHARED"]
    <3>1. SetEntry(a, f) /\ SendData("SH_REP", h, t, a, busy[h].data) /\ AddSharerAssert(e, t)
      BY <1>4, <1>5, <1>6, <1>10, <2>4 DEF ProcessShReq, Fails
    <3>2. Scheme = "limited_no_broadcast" => e.overflow = FALSE
      BY <1>5, <1>7, EntryView, EntryIsPresent DEF LineCoherent, SoundEntry
    <3>3. t \notin e.sharers
      BY <1>6, <3>1, <3>2 DEF AddSharerAssert, NamesAllSharers
    <3>4. /\ f \in Entries /\ f.sharers = e.sharers \cup {t} /\ f.dstate = "SHARED"
          /\ Scheme = "limited_no_broadcast" => f.overflow = e.overflow
      <4> DEFINE r == AddSharer(e, t)
      <4>1. /\ r \in Entries /\ r.sharers = e.sharers \cup {t}
            /\ Scheme = "limited_no_broadcast" => r.overflow = e.overflow
        BY <1>6, <2>1, SharersNamed
      <4> HIDE DEF r
      <4>2. /\ [r EXCEPT !.dstate = "SHARED"] \in Entries
            /\ [r EXCEPT !.dstate = "SHARED"].sharers = r.sharers
            /\ [r EXCEPT !.dstate = "SHARED"].overflow = r.overflow
            /\ [r EXCEPT !.dstate = "SHARED"].dstate = "SHARED"
        BY <4>1 DEF Entries, DStates
      <4> QED
        BY <4>1, <4>2 DEF r
    <3> HIDE DEF f
    <3>5. e # NoEntry /\ e.dstate # "MODIFIED"
      BY <2>1, <2>4, EntryIsPresent
    <3> QED
      BY <1>2, <1>3, <1>5, <1>6, <3>1, <3>3, <3>4, <3>5, GrantCoherent
  <2> QED
    BY <2>1, <2>2, <2>3, <2>4 DEF Entries, DStates
<1>11. ASSUME ProcessNullify(h, a)
       PROVE  Coherent'
  <2>1. /\ Entry(a).dstate \in {"NONE", "UNCACHED"} /\ dirRepl[a] # NoEntry
        /\ dirRepl' = [dirRepl EXCEPT ![a] = NoEntry] /\ UNCHANGED <<dirSet, chan>>
    BY <1>6, <1>11 DEF ProcessNullify, Fails
  <2>2. ~InSet(a) /\ dirSet[a] = NoEntry /\ DirEntry(a) = dirRepl[a] /\ Entry(a) = dirRepl[a]
    BY <1>7, <2>1 DEF ReplacedNotShadowed, InSet, DirEntry, Entry
  <2>3. DirEntry(a).sharers = {}
    BY <1>7, <2>1, <2>2 DEF LineCoherent, SoundEntry
  <2>4. \A b \in Addrs : dirRepl'[b] = IF b = a THEN NoEntry ELSE dirRepl[b]
    BY <1>2, <2>1 DEF TypeOK
  <2>5. DirEntry(a)' = NoEntry /\ \A b \in Addrs : b # a => DirEntry(b)' = DirEntry(b)
    BY <2>1, <2>2, <2>4 DEF DirEntry
  <2>6. ReplacedNotShadowed'
    <3>1. \A b \in Addrs : SetLines(Home[b])' = SetLines(Home[b])
      BY <2>1 DEF SetLines
    <3> QED
      BY <1>7, <2>1, <2>4, <3>1 DEF ReplacedNotShadowed, InSet
  <2>7. \A b \in Addrs : Same(chan, chan', b)
    BY <2>1, SameItself
  <2>8. LineCoherent(a)'
    BY <1>7, <2>3, <2>5, <2>7, LineUnshared
  <2>9. \A b \in Addrs : b # a => LineCoherent(b)'
    BY <1>7, <2>5, <2>7, LineKept
  <2> QED
    BY <2>6, <2>8, <2>9 DEF Coherent
<1>12. ASSUME NEW b \in Addrs, Allocate(h, a, b)
       PROVE  Coherent'
  <2>1. /\ a # b /\ DirEntry(a) = NoEntry /\ DirEntry(a)' = NewEntry
        /\ DirEntry(b) \in Entries
        /\ IF DirEntry(b).dstate = "UNCACHED" THEN DirEntry(b)' = NoEntry ELSE DirEntry(b)' = DirEntry(b)
        /\ \A c \in Addrs : c # a /\ c # b => DirEntry(c)' = DirEntry(c)
        /\ ReplacedNotShadowed'
    BY <1>2, <1>3, <1>7, <1>12, AllocateView, ZenonT(200)
  <2>2. \A c \in Addrs : Same(chan, chan', c)
    <3>1. \/ chan' = chan
          \/ chan' = Put(chan, h, dirSet[b].owner, Msg("FLUSH_REQ", "DRAM_DIRECTORY", b, NULL))
          \/ chan' = PutAll(chan, h, InvTargets(dirSet[b]), Msg("INV_REQ", "DRAM_DIRECTORY", b, NULL))
      BY <1>12 DEF Allocate
    <3> QED
      BY <1>2, <3>1, RequestsSilent, SameItself
  <2>3. LineCoherent(a)'
    BY <1>7, <2>1, <2>2, EntryIsPresent, LineUnshared
  <2>4. LineCoherent(b)'
    <3>1. CASE DirEntry(b).dstate = "UNCACHED"
      <4>1. DirEntry(b).sharers = {} /\ DirEntry(b)' = NoEntry
        BY <1>7, <2>1, <3>1 DEF LineCoherent, SoundEntry
      <4> QED
        BY <1>7, <2>2, <4>1, LineUnshared
    <3>2. CASE DirEntry(b).dstate # "UNCACHED"
      BY <1>7, <2>1, <2>2, <3>2, LineKept
    <3> QED
      BY <3>1, <3>2
  <2>5. \A c \in Addrs : c # a /\ c # b => LineCoherent(c)'
    BY <1>7, <2>1, <2>2, LineKept
  <2> QED
    BY <2>1, <2>3, <2>4, <2>5 DEF Coherent
<1>13. ASSUME AllocateFails(h, a)
       PROVE  Coherent'
  BY <1>6, <1>13 DEF AllocateFails
<1> QED
  BY <1>1, <1>9, <1>10, <1>11, <1>12, <1>13

-----------------------------------------------------------------------------
(* The protocol *)

\* The inductive invariant behind SingleWriter: through evictions, call-backs
\* and replacements of directory entries, the sharers the directory has
\* recorded for a line include every tile that has a copy of it, in its L2 or
\* in a packet to or from it, and a written copy is the only one.
THEOREM CoherentHolds == Spec => []Coherent
<1>1. Init => Coherent
  <2> SUFFICES ASSUME Init PROVE Coherent
    OBVIOUS
  <2>1. ReplacedNotShadowed
    BY DEF Init, ReplacedNotShadowed
  <2>2. ASSUME NEW a \in Addrs
        PROVE  LineCoherent(a)
    <3>1. DirEntry(a) = NoEntry
      BY <2>2 DEF Init, DirEntry
    <3>2. SoundEntry(DirEntry(a))
      BY <3>1 DEF SoundEntry, NoEntry, NewEntry
    <3>3. ASSUME NEW t \in Tiles
          PROVE  OneCopy(t, a) /\ KnownCopy(t, a)
      <4>1. l2[t][a].cstate = "INVALID" /\ Home[a] \in Tiles
        BY HomeAssumption DEF Init, InvalidL2
      <4>2. \A x, y \in Tiles : \A K : ~Has(chan, x, y, K) /\ Once(chan, x, y, K)
        BY SMTT(60) DEF Init, Has, Once
      <4>3. ~Valid(t, a) /\ ~Coming(t, a) /\ ~Going(t, a) /\ ~Dirty(t, a) /\ ~WrittenBack(t, a)
        BY <4>1, <4>2 DEF Valid, Coming, Going, Dirty, WrittenBack
      <4> QED
        BY <4>1, <4>2, <4>3 DEF OneCopy, KnownCopy
    <3> QED
      BY <3>2, <3>3 DEF LineCoherent
  <2> QED
    BY <2>1, <2>2 DEF Coherent
<1>2. TypeInvariant /\ Coherent /\ [Next]_vars => Coherent'
  <2> SUFFICES ASSUME TypeInvariant, Coherent, [Next]_vars
               PROVE  Coherent'
    OBVIOUS
  <2>1. CASE UNCHANGED vars
    <3>1. SUFFICES ASSUME failed = {}, NamesAllSharers
                   PROVE  Coherent'
      BY <2>1 DEF Coherent, vars
    <3>2. \A b \in Addrs : Same(chan, chan', b) /\ SameCopies(b)
      BY <2>1, SameItself DEF vars, SameCopies
    <3> QED
      BY <2>1, <3>1, <3>2, AllKept DEF vars
  <2>2. ASSUME NEW t \in Tiles, AppStep(t)
        PROVE  Coherent'
    BY <2>2, AppStepCoherent
  <2>3. ASSUME NEW s \in Tiles, NEW d \in Tiles, Receive(s, d)
        PROVE  Coherent'
    BY <2>3, HandleL1ReqCoherent, HandleRepCoherent, CallbacksCoherent, DirectoryHandlersCoherent
    DEF Receive
  <2>4. ASSUME NEW h \in Tiles, DirStep(h)
        PROVE  Coherent'
    BY <2>4, DirStepCoherent
  <2> QED
    BY <2>1, <2>2, <2>3, <2>4 DEF Next
<1> QED
  BY <1>1, <1>2, TypeInvariantHolds, PTL DEF Spec

\* For every number of tiles and lines and every cache and directory size:
\* under a scheme that names every sharer, and as long as no assert has
\* failed, a line that one tile may write is in no other tile's L2.
THEOREM SingleWriterHolds == Spec => [](NamesAllSharers /\ NoAssertFails => SingleWriter)
<1>1. Coherent => (NamesAllSharers /\ NoAssertFails => SingleWriter)
  <2> SUFFICES ASSUME Coherent, NamesAllSharers, NoAssertFails,
                      NEW a \in Addrs, NEW s \in Tiles, NEW t \in Tiles,
                      l2[t][a].cstate = "MODIFIED", s # t
               PROVE  l2[s][a].cstate = "INVALID"
    BY DEF SingleWriter
  <2>1. LineCoherent(a)
    BY DEF Coherent, NoAssertFails
  <2>2. t \in DirEntry(a).sharers /\ DirEntry(a).dstate = "MODIFIED"
    BY <2>1 DEF LineCoherent, KnownCopy, Valid, Dirty
  <2>3. Valid(s, a) => s \in DirEntry(a).sharers
    BY <2>1 DEF LineCoherent, KnownCopy
  <2> QED
    BY <2>1, <2>2, <2>3 DEF LineCoherent, SoundEntry, Valid
<1> QED
  BY <1>1, CoherentHolds, PTL
=============================================================================

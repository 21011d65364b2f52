---------------------------- MODULE MsiTypeProofs ----------------------------
(***************************************************************************)
(* MsiProtocol keeps its state well formed: TypeOK, for every number of    *)
(* tiles, lines and ways and every directory scheme.                       *)
(***************************************************************************)
EXTENDS MsiInvariant, FiniteSetTheorems, TLAPS

\* A leaf is for Zenon, or for the SMT solver where it says so.
USE ZenonT(60)

-----------------------------------------------------------------------------
(* What the operators build: entries, lines, packets and the channels that *)
(* carry them stay well formed.                                            *)

\* A fresh directory entry, and what adding or removing a sharer leaves, is a
\* directory entry (DirectoryEntry::create, addSharer, removeSharer).
LEMMA EntryOperatorsTyped ==
  /\ NewEntry \in Entries
  /\ \A e \in Entries, t \in Tiles :
       /\ AddSharer(e, t) \in Entries
       /\ RemoveSharer(e, t) \in Entries
<1>1. NewEntry \in Entries
  BY SMTT(60) DEF NewEntry, Entries, DStates
<1>2. Cardinality(Tiles) \in Int
  BY TilesFiniteAssumption, FS_CardinalityType, SMTT(60)
<1>3. ASSUME NEW e \in Entries, NEW o \in BOOLEAN, NEW n \in Int, NEW S \in SUBSET Tiles
      PROVE  /\ [e EXCEPT !.sharers = S] \in Entries
             /\ [e EXCEPT !.sharers = S, !.overflow = o] \in Entries
             /\ [e EXCEPT !.overflow = o, !.extra = n] \in Entries
             /\ [e EXCEPT !.extra = n, !.overflow = o] \in Entries
  BY DEF Entries
<1>4. ASSUME NEW e \in Entries, NEW t \in Tiles
      PROVE  AddSharer(e, t) \in Entries
  <2>1. e.sharers \cup {t} \in SUBSET Tiles /\ e.extra + 1 \in Int
    BY SMTT(60) DEF Entries
  <2>2. Overflowing(e) \in BOOLEAN
    BY DEF Overflowing
  <2> QED
    BY <1>2, <1>3, <2>1, <2>2 DEF AddSharer
<1>5. ASSUME NEW e \in Entries, NEW t \in Tiles
      PROVE  RemoveSharer(e, t) \in Entries
  <2>1. e.sharers \ {t} \in SUBSET Tiles /\ e.extra - 1 \in Int
    BY SMTT(60) DEF Entries
  <2>2. (e.extra # 1) \in BOOLEAN
    OBVIOUS
  <2> QED
    BY <1>3, <2>1, <2>2 DEF RemoveSharer
<1> QED
  BY <1>1, <1>4, <1>5

ChanType == [Tiles -> [Tiles -> Seq(Msgs)]]
L1Type == [Components -> [Addrs -> L1Lines]]
L2Type == [Addrs -> L2Lines]
EntryType == Entries \cup {NoEntry}

\* Sending and receiving packets keeps the channels well formed (sendMsg,
\* broadcastMsg, netPullFromTransport).
LEMMA ChannelsTyped ==
  /\ \A ch \in ChanType, s \in Tiles, m \in Msgs : \A d : Put(ch, s, d, m) \in ChanType
  /\ \A ch \in ChanType, s \in Tiles, m \in Msgs : \A D : PutAll(ch, s, D, m) \in ChanType
  /\ \A ch \in ChanType, s, d \in Tiles : ch[s][d] # << >> => Drop(ch, s, d) \in ChanType
<1>1. ASSUME NEW ch \in ChanType, NEW s \in Tiles, NEW d, NEW m \in Msgs
      PROVE  Put(ch, s, d, m) \in ChanType
  <2>1. CASE d \in Tiles
    BY <2>1, SMTT(60) DEF Put, ChanType
  <2>2. CASE d \notin Tiles
    BY <2>2 DEF Put, ChanType
  <2> QED
    BY <2>1, <2>2
<1>2. ASSUME NEW ch \in ChanType, NEW s \in Tiles, NEW D, NEW m \in Msgs
      PROVE  PutAll(ch, s, D, m) \in ChanType
  BY SMTT(60) DEF PutAll, ChanType
<1>3. ASSUME NEW ch \in ChanType, NEW s \in Tiles, NEW d \in Tiles, ch[s][d] # << >>
      PROVE  Drop(ch, s, d) \in ChanType
  BY <1>3, SMTT(60) DEF Drop, ChanType
<1> QED
  BY <1>1, <1>2, <1>3

\* What is in a channel after a packet has been sent or received.
LEMMA PutContents ==
  ASSUME NEW ch \in ChanType, NEW s \in Tiles, NEW d, NEW m \in Msgs,
         NEW s2 \in Tiles, NEW d2 \in Tiles
  PROVE  LET q == ch[s2][d2]
             r == Put(ch, s, d, m)[s2][d2]
         IN  /\ s2 = s /\ d2 = d => Len(r) = Len(q) + 1 /\ r[Len(q) + 1] = m
             /\ s2 # s \/ d2 # d => r = q
             /\ \A i \in 1..Len(q) : r[i] = q[i]
<1>1. ch[s2][d2] \in Seq(Msgs) /\ DOMAIN ch = Tiles /\ DOMAIN ch[s] = Tiles
  BY DEF ChanType
<1>2. CASE s2 = s /\ d2 = d
  <2>1. Put(ch, s, d, m)[s2][d2] = Append(ch[s2][d2], m)
    BY <1>1, <1>2 DEF Put
  <2> QED
    BY <1>1, <1>2, <2>1, SMTT(60)
<1>3. CASE s2 # s \/ d2 # d
  <2>1. Put(ch, s, d, m)[s2][d2] = ch[s2][d2]
    BY <1>1, <1>3 DEF Put
  <2> QED
    BY <1>3, <2>1
<1> QED
  BY <1>2, <1>3

LEMMA PutAllContents ==
  ASSUME NEW ch \in ChanType, NEW s \in Tiles, NEW D, NEW m \in Msgs,
         NEW s2 \in Tiles, NEW d2 \in Tiles
  PROVE  LET q == ch[s2][d2]
             r == PutAll(ch, s, D, m)[s2][d2]
         IN  /\ s2 = s /\ d2 \in D => Len(r) = Len(q) + 1 /\ r[Len(q) + 1] = m
             /\ s2 # s \/ d2 \notin D => r = q
             /\ \A i \in 1..Len(q) : r[i] = q[i]
<1>1. ch[s2][d2] \in Seq(Msgs) /\ DOMAIN ch = Tiles /\ DOMAIN ch[s] = Tiles
  BY DEF ChanType
<1>2. CASE s2 = s /\ d2 \in D
  <2>1. PutAll(ch, s, D, m)[s2][d2] = Append(ch[s2][d2], m)
    BY <1>1, <1>2 DEF PutAll
  <2> QED
    BY <1>1, <1>2, <2>1, SMTT(60)
<1>3. CASE s2 # s \/ d2 \notin D
  <2>1. PutAll(ch, s, D, m)[s2][d2] = ch[s2][d2]
    BY <1>1, <1>3 DEF PutAll
  <2> QED
    BY <1>3, <2>1
<1> QED
  BY <1>2, <1>3

LEMMA DropContents ==
  ASSUME NEW ch \in ChanType, NEW s \in Tiles, NEW d \in Tiles, ch[s][d] # << >>,
         NEW s2 \in Tiles, NEW d2 \in Tiles
  PROVE  LET q == ch[s2][d2]
             r == Drop(ch, s, d)[s2][d2]
         IN  /\ s2 = s /\ d2 = d => /\ Len(r) = Len(q) - 1
                                    /\ \A i \in 1..Len(r) : r[i] = q[i + 1]
             /\ s2 # s \/ d2 # d => r = q
<1>1. ch[s2][d2] \in Seq(Msgs) /\ DOMAIN ch = Tiles /\ DOMAIN ch[s] = Tiles
  BY DEF ChanType
<1>2. CASE s2 = s /\ d2 = d
  <2>1. Drop(ch, s, d)[s2][d2] = Tail(ch[s2][d2])
    BY <1>1, <1>2 DEF Drop
  <2> QED
    BY <1>1, <1>2, <2>1, SMTT(60)
<1>3. CASE s2 # s \/ d2 # d
  <2>1. Drop(ch, s, d)[s2][d2] = ch[s2][d2]
    BY <1>1, <1>3 DEF Drop
  <2> QED
    BY <1>3, <2>1
<1> QED
  BY <1>2, <1>3

\* So does the construction of a packet (ShmemMsg).
LEMMA MsgTyped ==
  \A type \in MsgTypes, from \in Senders, a \in Addrs, d \in Data : Msg(type, from, a, d) \in Msgs
BY DEF Msg, Msgs

\* The cache operations keep the caches well formed.
LEMMA CachesTyped ==
  ASSUME NEW x1 \in L1Type, NEW x2 \in L2Type, NEW c \in Components, NEW a \in Addrs
  PROVE  /\ \A loc \in Components \cup {NULL} : InvalidateL1(x1, loc, a) \in L1Type
         /\ \A w : ClearCachedLoc(x2, c, w) \in L2Type
         /\ \A w, line : line \in L1Lines => InsertInL1(x1, c, a, line, w) \in L1Type
         /\ \A v \in Data : WriteL2(x2, a, v) \in L2Type
         /\ \A v \in Data : [x1 EXCEPT ![c][a].data = v] \in L1Type
<1>1. InvalidL1 \in L1Lines /\ InvalidL1.cstate = "INVALID" /\ NULL \in Data
  BY DEF InvalidL1, L1Lines, CStates, Data
<1>2. ASSUME NEW loc \in Components \cup {NULL}
      PROVE  InvalidateL1(x1, loc, a) \in L1Type
  BY <1>1 DEF InvalidateL1, L1Type
<1>3. ASSUME NEW w
      PROVE  ClearCachedLoc(x2, c, w) \in L2Type
  BY DEF ClearCachedLoc, L2Type, L2Lines
<1>4. ASSUME NEW w, NEW line \in L1Lines
      PROVE  InsertInL1(x1, c, a, line, w) \in L1Type
  BY <1>1 DEF InsertInL1, L1Type
<1>5. ASSUME NEW v \in Data
      PROVE  WriteL2(x2, a, v) \in L2Type /\ [x1 EXCEPT ![c][a].data = v] \in L1Type
  <2>1. [x2[a] EXCEPT !.data = v] \in L2Lines
    BY DEF L2Type, L2Lines
  <2>2. [x1[c][a] EXCEPT !.data = v] \in L1Lines
    BY SMTT(60) DEF L1Type, L1Lines
  <2>3. WriteL2(x2, a, v) \in L2Type
    BY <2>1 DEF WriteL2, L2Type
  <2>4. [x1 EXCEPT ![c][a].data = v] \in L1Type
    BY <2>2 DEF L1Type
  <2> QED
    BY <2>3, <2>4
<1> QED
  BY <1>2, <1>3, <1>4, <1>5

\* Looking up and writing back a directory entry (DirectoryCache).
LEMMA LookupTyped ==
  ASSUME TypeOK, NEW a \in Addrs
  PROVE  /\ Entry(a) \in EntryType
         /\ \A e \in Entries : SetEntry(a, e) =>
              dirSet' \in [Addrs -> EntryType] /\ dirRepl' \in [Addrs -> EntryType]
<1>1. Entry(a) \in EntryType
  BY EntryOperatorsTyped DEF TypeOK, Entry, EntryType
<1>2. ASSUME NEW e \in Entries, SetEntry(a, e)
      PROVE  dirSet' \in [Addrs -> EntryType] /\ dirRepl' \in [Addrs -> EntryType]
  BY <1>2 DEF TypeOK, SetEntry, EntryType
<1> QED
  BY <1>1, <1>2

\* accessCache keeps the caches and the application thread well formed.
LEMMA AccessTyped ==
  ASSUME TypeOK, NEW t \in Tiles, NEW c \in Components, NEW lk, NEW op, NEW a \in Addrs,
         NEW v \in Data, op = "WRITE" => v # NULL,
         NEW x1 \in L1Type, NEW x2 \in L2Type, AccessCache(t, c, lk, op, a, v, x1, x2)
  PROVE  /\ l1' \in [Tiles -> L1Type] /\ l2' \in [Tiles -> L2Type]
         /\ mem' \in [Addrs -> Values] /\ app' \in [Tiles -> AppStates]
<1>1. Idle \in AppStates /\ [Idle EXCEPT !.pc = "locked", !.addr = a] \in AppStates
  BY AddrsAssumption DEF Idle, AppStates, Components, MemOps, Data
<1>2. app' \in [Tiles -> AppStates]
  BY <1>1 DEF AccessCache, TypeOK
<1>3. mem' \in [Addrs -> Values]
  BY DEF AccessCache, TypeOK, Data
<1>4. l1' \in [Tiles -> L1Type]
  BY CachesTyped DEF AccessCache, TypeOK, L1Type
<1>5. l2' \in [Tiles -> L2Type]
  BY CachesTyped DEF AccessCache, TypeOK, L2Type
<1> QED
  BY <1>2, <1>3, <1>4, <1>5

\* Packets sent to where they belong keep the channels well routed.
LEMMA ChannelsRouted ==
  ASSUME NEW ch \in ChanType, RoutedIn(ch), NEW s \in Tiles
  PROVE  /\ \A d, m : m \in Msgs /\ RoutedMsg(m, s, d) => RoutedIn(Put(ch, s, d, m))
         /\ \A D, m : m \in Msgs /\ (\A d \in Tiles : RoutedMsg(m, s, d)) => RoutedIn(PutAll(ch, s, D, m))
         /\ \A d \in Tiles : ch[s][d] # << >> => RoutedIn(Drop(ch, s, d))
<1>0. \A s2, d2 \in Tiles : ch[s2][d2] \in Seq(Msgs)
  BY DEF ChanType
<1>1. ASSUME NEW d, NEW m \in Msgs, RoutedMsg(m, s, d)
      PROVE  RoutedIn(Put(ch, s, d, m))
  <2>1. SUFFICES ASSUME NEW s2 \in Tiles, NEW d2 \in Tiles,
                        NEW i \in 1..Len(Put(ch, s, d, m)[s2][d2])
                 PROVE  RoutedMsg(Put(ch, s, d, m)[s2][d2][i], s2, d2)
    BY DEF RoutedIn
  <2>2. CASE i \in 1..Len(ch[s2][d2])
    BY <2>2, PutContents, SMTT(60) DEF RoutedIn
  <2>3. CASE i \notin 1..Len(ch[s2][d2])
    <3>1. s2 = s /\ d2 = d
      BY <2>3, PutContents, SMTT(60)
    <3>2. Len(Put(ch, s, d, m)[s2][d2]) = Len(ch[s2][d2]) + 1 /\ Len(ch[s2][d2]) \in Nat
      BY <1>0, <3>1, PutContents, SMTT(60)
    <3>3. i = Len(ch[s2][d2]) + 1
      BY <2>3, <3>2, SMTT(60)
    <3> QED
      BY <3>1, <3>3, <1>1, PutContents, SMTT(60)
  <2> QED
    BY <2>2, <2>3
<1>2. ASSUME NEW D, NEW m \in Msgs, \A d \in Tiles : RoutedMsg(m, s, d)
      PROVE  RoutedIn(PutAll(ch, s, D, m))
  <2>1. SUFFICES ASSUME NEW s2 \in Tiles, NEW d2 \in Tiles,
                        NEW i \in 1..Len(PutAll(ch, s, D, m)[s2][d2])
                 PROVE  RoutedMsg(PutAll(ch, s, D, m)[s2][d2][i], s2, d2)
    BY DEF RoutedIn
  <2>2. CASE i \in 1..Len(ch[s2][d2])
    BY <2>2, PutAllContents, SMTT(60) DEF RoutedIn
  <2>3. CASE i \notin 1..Len(ch[s2][d2])
    <3>1. s2 = s /\ d2 \in D
      BY <2>3, PutAllContents, SMTT(60)
    <3>2. Len(PutAll(ch, s, D, m)[s2][d2]) = Len(ch[s2][d2]) + 1 /\ Len(ch[s2][d2]) \in Nat
      BY <1>0, <3>1, PutAllContents, SMTT(60)
    <3>3. i = Len(ch[s2][d2]) + 1
      BY <2>3, <3>2, SMTT(60)
    <3> QED
      BY <3>1, <3>3, <1>2, PutAllContents, SMTT(60)
  <2> QED
    BY <2>2, <2>3
<1>3. ASSUME NEW d \in Tiles, ch[s][d] # << >>
      PROVE  RoutedIn(Drop(ch, s, d))
  <2>1. SUFFICES ASSUME NEW s2 \in Tiles, NEW d2 \in Tiles,
                        NEW i \in 1..Len(Drop(ch, s, d)[s2][d2])
                 PROVE  RoutedMsg(Drop(ch, s, d)[s2][d2][i], s2, d2)
    BY DEF RoutedIn
  <2>2. CASE s2 = s /\ d2 = d
    <3>1. i + 1 \in 1..Len(ch[s2][d2]) /\ Drop(ch, s, d)[s2][d2][i] = ch[s2][d2][i + 1]
      BY <1>0, <1>3, <2>2, DropContents, SMTT(60)
    <3> QED
      BY <3>1 DEF RoutedIn
  <2>3. CASE s2 # s \/ d2 # d
    BY <1>3, <2>3, DropContents, SMTT(60) DEF RoutedIn
  <2> QED
    BY <2>2, <2>3
<1> QED
  BY <1>1, <1>2, <1>3

\* The packet at the head of a channel.
LEMMA HeadTyped ==
  ASSUME TypeOK, NEW s \in Tiles, NEW d \in Tiles, chan[s][d] # << >>
  PROVE  /\ Head(chan[s][d]) \in Msgs
         /\ Head(chan[s][d]) = chan[s][d][1] /\ 1 \in 1..Len(chan[s][d])
BY SMTT(60) DEF TypeOK

-----------------------------------------------------------------------------
(* The steps of the application threads and of the L2 cache controllers    *)

\* The application thread's steps.
LEMMA AppStepTyped ==
  ASSUME TypeInvariant, NEW t \in Tiles, AppStep(t)
  PROVE  TypeInvariant'
<1> USE DEF ChanType
<1>0. failed = {}
  BY DEF AppStep, L1Hit, L2Hit, Miss, Retry, Unlock, Unlocked
<1>1. /\ TypeOK /\ Routed /\ chan \in ChanType
      /\ \A h \in Tiles : LET a == busy[h].addr IN a # NULL => Home[a] = h /\ reqs[a] # << >>
  BY <1>0 DEF TypeInvariant, TypeOK, ProcessingQueued
<1>2. l1[t] \in L1Type /\ l2[t] \in L2Type
  BY <1>1 DEF TypeOK, L1Type, L2Type
<1>3. ASSUME NEW x \in Accesses
      PROVE  /\ x[1] \in Components /\ x[2] \in {"NONE", "LOCK"} /\ x[3] \in MemOps
             /\ x[4] \in Addrs /\ x[5] \in Data /\ (x[3] = "WRITE" => x[5] # NULL)
  BY ValuesAssumption, SMTT(60) DEF Accesses, Components, MemOps, Addrs, Data
<1>4. ASSUME NEW x \in Accesses, L1Hit(t, x[1], x[2], x[3], x[4], x[5])
      PROVE  TypeInvariant'
  <2>1. AccessCache(t, x[1], x[2], x[3], x[4], x[5], l1[t], l2[t])
    BY <1>4 DEF L1Hit
  <2>2. /\ l1' \in [Tiles -> L1Type] /\ l2' \in [Tiles -> L2Type]
        /\ mem' \in [Addrs -> Values] /\ app' \in [Tiles -> AppStates]
    BY <1>1, <1>2, <1>3, <2>1, AccessTyped
  <2> QED
    BY <1>1, <1>4, <2>2 DEF L1Hit, TypeInvariant, TypeOK, L1Type, L2Type, Routed, ProcessingQueued
<1>5. ASSUME NEW x \in Accesses, L2Hit(t, x[1], x[2], x[3], x[4], x[5])
      PROVE  TypeInvariant'
  <2> DEFINE c == x[1]
             a == x[4]
             l1i == InvalidateL1(l1[t], c, a)
             line == [cstate |-> l2[t][a].cstate, data |-> l2[t][a].data]
             l2w(w) == [ClearCachedLoc(l2[t], c, w) EXCEPT
                          ![a].loc = IF l2[t][a].loc = NULL THEN c ELSE "L1_DCACHE"]
  <2>1. PICK w : AccessCache(t, c, x[2], x[3], a, x[5], InsertInL1(l1i, c, a, line, w), l2w(w))
    BY <1>5 DEF L2Hit
  <2>2. l1i \in L1Type /\ line \in L1Lines
    BY <1>2, <1>3, CachesTyped DEF L2Type, L2Lines, L1Lines
  <2>3. InsertInL1(l1i, c, a, line, w) \in L1Type
    BY <1>2, <1>3, <2>2, CachesTyped
  <2>4. ClearCachedLoc(l2[t], c, w) \in L2Type
    BY <1>2, <1>3, CachesTyped
  <2>5. l2w(w) \in L2Type
    BY <1>3, <2>4, SMTT(60) DEF L2Type, L2Lines, Components
  <2>6. /\ l1' \in [Tiles -> L1Type] /\ l2' \in [Tiles -> L2Type]
        /\ mem' \in [Addrs -> Values] /\ app' \in [Tiles -> AppStates]
    BY <1>1, <1>3, <2>1, <2>3, <2>5, AccessTyped
  <2> QED
    BY <1>1, <1>5, <2>6 DEF L2Hit, TypeInvariant, TypeOK, L1Type, L2Type, Routed, ProcessingQueued
<1>6. ASSUME NEW x \in Accesses, Miss(t, x[1], x[2], x[3], x[4], x[5])
      PROVE  TypeInvariant'
  <2> DEFINE m == Msg(IF x[3] = "READ" THEN "SH_REQ" ELSE "EX_REQ", x[1], x[4], NULL)
  <2>1. m \in Msgs /\ m.from = x[1]
    BY <1>3 DEF Msg, Msgs, MsgTypes, Senders, Data
  <2>2. RoutedMsg(m, t, t)
    BY <1>3, <2>1 DEF RoutedMsg, Components
  <2>3. chan' = Put(chan, t, t, m)
    BY <1>6 DEF Miss
  <2>4. chan' \in ChanType /\ RoutedIn(chan')
    <3> HIDE DEF m
    <3> QED
      BY <1>1, <2>1, <2>2, <2>3, ChannelsTyped, ChannelsRouted DEF Routed
  <2>5. l1' \in [Tiles -> L1Type]
    BY <1>1, <1>2, <1>3, <1>6, CachesTyped DEF Miss, TypeOK, L1Type
  <2>6. app' \in [Tiles -> AppStates]
    BY <1>1, <1>3, <1>6, AddrsAssumption DEF Miss, TypeOK, AppStates
  <2> QED
    BY <1>1, <1>6, <2>4, <2>5, <2>6 DEF Miss, TypeInvariant, TypeOK, L1Type, Routed, ProcessingQueued
<1>7. ASSUME Retry(t)
      PROVE  TypeInvariant'
  <2>1. /\ app[t].comp \in Components /\ app[t].addr \in Addrs /\ app[t].val \in Data
        /\ app[t].op = "WRITE" => app[t].val # NULL
    BY <1>1, <1>7 DEF Retry, TypeOK, AppStates
  <2>2. AccessCache(t, app[t].comp, app[t].lock, app[t].op, app[t].addr, app[t].val, l1[t], l2[t])
    BY <1>7 DEF Retry
  <2>3. /\ l1' \in [Tiles -> L1Type] /\ l2' \in [Tiles -> L2Type]
        /\ mem' \in [Addrs -> Values] /\ app' \in [Tiles -> AppStates]
    BY <1>1, <1>2, <2>1, <2>2, AccessTyped
  <2> QED
    BY <1>1, <1>7, <2>3 DEF Retry, TypeInvariant, TypeOK, L1Type, L2Type, Routed, ProcessingQueued
<1>8. ASSUME NEW v \in Values, Unlock(t, v)
      PROVE  TypeInvariant'
  <2>1. app[t].addr \in Addrs /\ v \in Data /\ v # NULL /\ "L1_DCACHE" \in Components
    BY <1>1, <1>8, ValuesAssumption DEF Unlock, TypeOK, AppStates, Data, Components
  <2>2. AccessCache(t, "L1_DCACHE", "UNLOCK", "WRITE", app[t].addr, v, l1[t], l2[t])
    BY <1>8 DEF Unlock
  <2>3. /\ l1' \in [Tiles -> L1Type] /\ l2' \in [Tiles -> L2Type]
        /\ mem' \in [Addrs -> Values] /\ app' \in [Tiles -> AppStates]
    BY <1>1, <1>2, <2>1, <2>2, AccessTyped
  <2> QED
    BY <1>1, <1>8, <2>3 DEF Unlock, TypeInvariant, TypeOK, L1Type, L2Type, Routed, ProcessingQueued
<1> QED
  BY <1>4, <1>5, <1>6, <1>7, <1>8 DEF AppStep

\* The L2 cache controller's handlers.
LEMMA L2HandlersTyped ==
  ASSUME TypeInvariant, NEW s \in Tiles, NEW t \in Tiles,
         \/ s = t /\ HandleL1Req(t)
         \/ HandleRep(s, t)
         \/ HandleInvReq(s, t)
         \/ HandleFlushReq(s, t)
         \/ HandleWbReq(s, t)
  PROVE  TypeInvariant'
<1> DEFINE m == Head(chan[s][t])
           a == m.addr
           ch == Drop(chan, s, t)
           line == l2[t][a]
<1>0. failed = {}
  BY DEF HandleL1Req, HandleRep, HandleInvReq, HandleFlushReq, HandleWbReq, Arrived, SimReady, Unlocked
<1>1. /\ TypeOK /\ Routed /\ chan \in ChanType
      /\ \A h \in Tiles : LET b == busy[h].addr IN b # NULL => Home[b] = h /\ reqs[b] # << >>
  BY <1>0 DEF TypeInvariant, TypeOK, ChanType, ProcessingQueued
<1>2. chan[s][t] # << >>
  BY DEF HandleL1Req, HandleRep, HandleInvReq, HandleFlushReq, HandleWbReq, Arrived
<1>3. m \in Msgs /\ a \in Addrs /\ m.data \in Data /\ RoutedMsg(m, s, t)
  BY <1>1, <1>2, HeadTyped DEF Msgs, Routed, RoutedIn
<1>4. ch \in ChanType /\ RoutedIn(ch)
  BY <1>1, <1>2, ChannelsTyped, ChannelsRouted DEF Routed
<1>5. l1[t] \in L1Type /\ l2[t] \in L2Type /\ line \in L2Lines /\ outst[t].comp \in Components
  BY <1>1, <1>3, SMTT(60) DEF TypeOK, L1Type, L2Type
<1>6. ASSUME NEW type \in MsgTypes, NEW b \in Addrs, NEW d \in Data,
             NEW c2 \in ChanType, RoutedIn(c2)
      PROVE  /\ Put(c2, t, Home[b], Msg(type, "L2_CACHE", b, d)) \in ChanType
             /\ RoutedIn(Put(c2, t, Home[b], Msg(type, "L2_CACHE", b, d)))
  <2>1. Msg(type, "L2_CACHE", b, d) \in Msgs
    BY MsgTyped DEF Senders
  <2>2. RoutedMsg(Msg(type, "L2_CACHE", b, d), t, Home[b])
    BY DEF RoutedMsg, Msg
  <2> QED
    BY <1>6, <2>1, <2>2, ChannelsTyped, ChannelsRouted
<1>7. NULL \in Data /\ InvalidL2 \in L2Lines /\ {"INV_REP", "FLUSH_REP", "WB_REP", "EX_REQ", "SH_REQ"} \subseteq MsgTypes
  BY DEF Data, InvalidL2, L2Lines, CStates, MsgTypes
<1> HIDE DEF m, a, ch, line
<1>8. ASSUME s = t, HandleL1Req(t)
      PROVE  TypeInvariant'
  <2> DEFINE upgrade == m.type = "EX_REQ" /\ l2[t][a].cstate = "SHARED"
             given == IF upgrade THEN Put(ch, t, Home[a], Msg("INV_REP", "L2_CACHE", a, NULL)) ELSE ch
  <2>1. /\ m.type \in MsgTypes /\ m.from \in Components
        /\ outst' = [outst EXCEPT ![t] = Outstanding(m)]
        /\ l2' = IF upgrade THEN [l2 EXCEPT ![t][a] = InvalidL2] ELSE l2
        /\ chan' = Put(given, t, Home[a], Msg(m.type, "L2_CACHE", a, NULL))
        /\ UNCHANGED <<app, l1, dirSet, dirRepl, reqs, busy, dram, mem>>
    BY <1>8, <1>7 DEF HandleL1Req, Arrived, m, a, ch
  <2>2. given \in ChanType /\ RoutedIn(given)
    BY <1>3, <1>4, <1>6, <1>7
  <2>3. chan' \in ChanType /\ RoutedIn(chan')
    <3> HIDE DEF given
    <3> QED
      BY <2>1, <2>2, <1>3, <1>6, <1>7
  <2>4. outst' \in [Tiles -> [addr : Addrs \cup {NULL}, comp : Components]]
    BY <1>1, <1>3, <2>1 DEF Outstanding, TypeOK, a
  <2>5. l2' \in [Tiles -> L2Type]
    BY <1>1, <1>3, <1>7, <2>1 DEF TypeOK, L2Type
  <2> QED
    BY <1>1, <2>1, <2>3, <2>4, <2>5
    DEF TypeInvariant, TypeOK, ChanType, L2Type, Routed, ProcessingQueued
<1>9. ASSUME HandleRep(s, t)
      PROVE  TypeInvariant'
  <2> DEFINE c == outst[t].comp
             st == IF m.type = "EX_REP" THEN "MODIFIED" ELSE "SHARED"
             new == [cstate |-> st, data |-> m.data]
             l1v(v) == IF v = NULL THEN l1[t] ELSE InvalidateL1(l1[t], l2[t][v].loc, v)
             l2v(v) == [b \in Addrs |-> IF b = a THEN [cstate |-> st, data |-> m.data, loc |-> c]
                                        ELSE IF b = v THEN InvalidL2 ELSE l2[t][b]]
  <2>1. PICK v, w :
          /\ v \in Victims(l2[t], L2Ways)
          /\ l1' = [l1 EXCEPT ![t] = InsertInL1(l1v(v), c, a, new, w)]
          /\ l2' = [l2 EXCEPT ![t] = ClearCachedLoc(l2v(v), c, w)]
          /\ chan' = CASE v = NULL -> ch
                       [] v # NULL /\ l2[t][v].cstate = "MODIFIED" ->
                            Put(ch, t, Home[v], Msg("FLUSH_REP", "L2_CACHE", v, l2[t][v].data))
                       [] OTHER ->
                            Put(ch, t, Home[v], Msg("INV_REP", "L2_CACHE", v, NULL))
    BY <1>9 DEF HandleRep, m, a, ch
  <2>2. /\ outst' = [outst EXCEPT ![t] = Cleared(@)]
        /\ app' = [app EXCEPT ![t].pc = IF @ = "wait" THEN "woken" ELSE @]
        /\ UNCHANGED <<dirSet, dirRepl, reqs, busy, dram, mem>>
    BY <1>9 DEF HandleRep
  <2>3. v = NULL \/ (v \in Addrs /\ v # NULL /\ l2[t][v] \in L2Lines)
    BY <1>5, <2>1, AddrsAssumption DEF Victims, L2Type
  <2>4. new \in L1Lines /\ l1v(v) \in L1Type /\ l2v(v) \in L2Type
    <3>1. new \in L1Lines /\ [cstate |-> st, data |-> m.data, loc |-> c] \in L2Lines
      BY <1>3, <1>5 DEF L1Lines, L2Lines, CStates
    <3>2. l1v(v) \in L1Type
      BY <1>5, <2>3, CachesTyped DEF L2Lines
    <3>3. l2v(v) \in L2Type
      BY <1>5, <1>7, <3>1 DEF L2Type
    <3> QED
      BY <3>1, <3>2, <3>3
  <2>5. InsertInL1(l1v(v), c, a, new, w) \in L1Type /\ ClearCachedLoc(l2v(v), c, w) \in L2Type
    <3> HIDE DEF l1v, l2v, new, c
    <3> QED
      BY <1>3, <1>5, <2>4, CachesTyped DEF c
  <2>6. l1' \in [Tiles -> L1Type] /\ l2' \in [Tiles -> L2Type]
    <3> HIDE DEF l1v, l2v, new, c
    <3> QED
      BY <1>1, <2>1, <2>5 DEF TypeOK, L1Type, L2Type
  <2>7. chan' \in ChanType /\ RoutedIn(chan')
    <3>1. CASE v = NULL
      BY <1>4, <2>1, <3>1
    <3>2. CASE v # NULL /\ l2[t][v].cstate = "MODIFIED"
      <4>1. chan' = Put(ch, t, Home[v], Msg("FLUSH_REP", "L2_CACHE", v, l2[t][v].data))
        BY <2>1, <3>2
      <4> QED
        BY <1>4, <1>6, <1>7, <2>3, <3>2, <4>1 DEF L2Lines
    <3>3. CASE v # NULL /\ l2[t][v].cstate # "MODIFIED"
      <4>1. chan' = Put(ch, t, Home[v], Msg("INV_REP", "L2_CACHE", v, NULL))
        BY <2>1, <3>3
      <4> QED
        BY <1>4, <1>6, <1>7, <2>3, <3>3, <4>1
    <3> QED
      BY <3>1, <3>2, <3>3
  <2>8. outst' \in [Tiles -> [addr : Addrs \cup {NULL}, comp : Components]]
    <3>1. outst[t] \in [addr : Addrs \cup {NULL}, comp : Components]
      BY <1>1 DEF TypeOK
    <3>2. Cleared(outst[t]) \in [addr : Addrs \cup {NULL}, comp : Components]
      BY <3>1 DEF Cleared
    <3> QED
      BY <1>1, <2>2, <3>2 DEF TypeOK
  <2>9. app' \in [Tiles -> AppStates]
    <3>1. app[t] \in AppStates
      BY <1>1 DEF TypeOK
    <3>2. app[t].pc = "wait" => [app[t] EXCEPT !.pc = "woken"] \in AppStates
      BY <3>1 DEF AppStates
    <3>3. [app[t] EXCEPT !.pc = app[t].pc] = app[t]
      BY <3>1 DEF AppStates
    <3> QED
      BY <1>1, <2>2, <3>1, <3>2, <3>3 DEF TypeOK
  <2> QED
    BY <1>1, <2>2, <2>6, <2>7, <2>8, <2>9
    DEF TypeInvariant, TypeOK, ChanType, L1Type, L2Type, Routed, ProcessingQueued
<1>10. ASSUME \/ HandleInvReq(s, t)
              \/ HandleFlushReq(s, t)
              \/ HandleWbReq(s, t)
       PROVE  TypeInvariant'
  <2>1. s = Home[a]
    BY <1>3, <1>10 DEF RoutedMsg, HandleInvReq, HandleFlushReq, HandleWbReq, Arrived, m, a
  <2>2. UNCHANGED <<app, outst, dirSet, dirRepl, reqs, busy, dram, mem>>
    BY <1>10 DEF HandleInvReq, HandleFlushReq, HandleWbReq
  <2>3. chan' = ch \/ \E type \in {"INV_REP", "FLUSH_REP", "WB_REP"}, d \in Data :
                        chan' = Put(ch, t, s, Msg(type, "L2_CACHE", a, d))
    <3>1. line.data \in Data
      BY <1>5 DEF L2Lines
    <3>2. chan' \in {ch, Put(ch, t, s, Msg("INV_REP", "L2_CACHE", a, NULL)),
                     Put(ch, t, s, Msg("FLUSH_REP", "L2_CACHE", a, line.data)),
                     Put(ch, t, s, Msg("WB_REP", "L2_CACHE", a, line.data))}
      <4>1. CASE HandleInvReq(s, t)
        BY <4>1 DEF HandleInvReq, m, a, ch, line
      <4>2. CASE HandleFlushReq(s, t)
        BY <4>2 DEF HandleFlushReq, m, a, ch, line
      <4>3. CASE HandleWbReq(s, t)
        BY <4>3 DEF HandleWbReq, m, a, ch, line
      <4> QED
        BY <1>10, <4>1, <4>2, <4>3
    <3> QED
      BY <1>7, <3>1, <3>2
  <2>4. chan' \in ChanType /\ RoutedIn(chan')
    BY <1>3, <1>4, <1>6, <1>7, <2>1, <2>3
  <2>5. l1' \in [Tiles -> L1Type]
    <3>1. l1' = l1 \/ l1' = [l1 EXCEPT ![t] = InvalidateL1(@, line.loc, a)]
                   \/ (line.loc # NULL /\ l1' = [l1 EXCEPT ![t][line.loc][a].cstate = "SHARED"])
      <4>0. a = Head(chan[s][t]).addr /\ line = l2[t][Head(chan[s][t]).addr]
        BY DEF m, a, line
      <4>1. CASE HandleInvReq(s, t)
        <5>1. l1' = l1 \/ l1' = [l1 EXCEPT ![t] = InvalidateL1(l1[t], l2[t][Head(chan[s][t]).addr].loc,
                                                                 Head(chan[s][t]).addr)]
          BY <4>1 DEF HandleInvReq
        <5> QED
          BY <4>0, <5>1
      <4>2. CASE HandleFlushReq(s, t)
        <5>1. l1' = l1 \/ l1' = [l1 EXCEPT ![t] = InvalidateL1(l1[t], l2[t][Head(chan[s][t]).addr].loc,
                                                                 Head(chan[s][t]).addr)]
          BY <4>2 DEF HandleFlushReq
        <5> QED
          BY <4>0, <5>1
      <4>3. CASE HandleWbReq(s, t)
        <5>1. \/ l1' = l1
              \/ /\ l2[t][Head(chan[s][t]).addr].loc # NULL
                 /\ l1' = [l1 EXCEPT ![t][l2[t][Head(chan[s][t]).addr].loc][Head(chan[s][t]).addr].cstate = "SHARED"]
          BY <4>3 DEF HandleWbReq
        <5> QED
          BY <4>0, <5>1
      <4> QED
        BY <1>10, <4>1, <4>2, <4>3
    <3>2. line.loc \in Components \cup {NULL}
      BY <1>5 DEF L2Lines
    <3>3. CASE l1' = l1
      BY <1>1, <3>3 DEF TypeOK, L1Type
    <3>4. CASE l1' = [l1 EXCEPT ![t] = InvalidateL1(@, line.loc, a)]
      <4>1. InvalidateL1(l1[t], line.loc, a) \in L1Type
        BY <1>3, <1>5, <3>2, CachesTyped
      <4> QED
        BY <1>1, <3>4, <4>1 DEF TypeOK, L1Type
    <3>5. CASE line.loc # NULL /\ l1' = [l1 EXCEPT ![t][line.loc][a].cstate = "SHARED"]
      <4>1. line.loc \in Components
        BY <3>2, <3>5
      <4>2. [l1[t][line.loc][a] EXCEPT !.cstate = "SHARED"] \in L1Lines
        BY <1>3, <1>5, <4>1, SMTT(60) DEF L1Type, L1Lines, CStates
      <4>3. [l1[t] EXCEPT ![line.loc][a].cstate = "SHARED"] \in L1Type
        BY <1>5, <4>2 DEF L1Type
      <4> QED
        BY <1>1, <3>5, <4>3 DEF TypeOK, L1Type
    <3> QED
      BY <3>1, <3>3, <3>4, <3>5
  <2>6. l2' \in [Tiles -> L2Type]
    <3>1. l2' = l2 \/ l2' = [l2 EXCEPT ![t][a] = InvalidL2]
                   \/ l2' = [l2 EXCEPT ![t][a].cstate = "SHARED"]
      BY <1>10 DEF HandleInvReq, HandleFlushReq, HandleWbReq, m, a
    <3>2. [l2[t][a] EXCEPT !.cstate = "SHARED"] \in L2Lines
      BY <1>3, <1>5 DEF L2Type, L2Lines, CStates
    <3>3. l2 \in [Tiles -> L2Type]
      BY <1>1 DEF TypeOK, L2Type
    <3>4. CASE l2' = [l2 EXCEPT ![t][a] = InvalidL2]
      BY <1>3, <1>7, <3>3, <3>4 DEF L2Type
    <3>5. CASE l2' = [l2 EXCEPT ![t][a].cstate = "SHARED"]
      BY <1>3, <3>2, <3>3, <3>5 DEF L2Type
    <3> QED
      BY <3>1, <3>3, <3>4, <3>5
  <2> QED
    BY <1>1, <2>2, <2>4, <2>5, <2>6
    DEF TypeInvariant, TypeOK, ChanType, L1Type, L2Type, Routed, ProcessingQueued
<1> QED
  BY <1>8, <1>9, <1>10

-----------------------------------------------------------------------------
(* The steps of the DRAM directory controllers, and the theorem            *)

\* The directory controller's handlers.
LEMMA DirectoryHandlersTyped ==
  ASSUME TypeInvariant, NEW s \in Tiles, NEW h \in Tiles,
         \/ HandleL2Req(s, h)
         \/ HandleInvRep(s, h)
         \/ HandleFlushRep(s, h)
         \/ HandleWbRep(s, h)
  PROVE  TypeInvariant'
<1> DEFINE m == Head(chan[s][h])
           a == m.addr
           e == Entry(a)
<1>0. failed = {}
  BY DEF HandleL2Req, HandleInvRep, HandleFlushRep, HandleWbRep, Arrived, SimReady, Unlocked
<1>1. /\ TypeOK /\ Routed /\ chan \in ChanType
      /\ \A g \in Tiles : LET b == busy[g].addr IN b # NULL => Home[b] = g /\ reqs[b] # << >>
  BY <1>0 DEF TypeInvariant, TypeOK, ChanType, ProcessingQueued
<1>2. /\ chan[s][h] # << >> /\ m.from = "L2_CACHE" /\ chan' = Drop(chan, s, h)
      /\ UNCHANGED <<app, l1, l2, outst, mem>>
  BY DEF HandleL2Req, HandleInvRep, HandleFlushRep, HandleWbRep, Arrived
<1>3. m \in Msgs /\ a \in Addrs /\ m.data \in Data /\ Home[a] = h
  <2>1. m \in Msgs /\ m = chan[s][h][1] /\ 1 \in 1..Len(chan[s][h])
    BY <1>1, <1>2, HeadTyped
  <2>2. RoutedMsg(m, s, h)
    BY <1>1, <2>1 DEF Routed, RoutedIn
  <2> QED
    BY <1>2, <2>1, <2>2 DEF Msgs, RoutedMsg
<1>4. chan' \in ChanType /\ RoutedIn(chan')
  BY <1>1, <1>2, ChannelsTyped, ChannelsRouted DEF Routed
<1>5. e \in EntryType
  BY <1>1, <1>3, LookupTyped
<1>6. NULL \in Data /\ Addrs \subseteq Addrs \cup {NULL}
  BY DEF Data
<1> HIDE DEF m, a, e
<1>7. ASSUME HandleL2Req(s, h)
      PROVE  TypeInvariant'
  <2>1. /\ m.type \in {"EX_REQ", "SH_REQ"}
        /\ reqs' = [reqs EXCEPT ![a] = Append(@, [type |-> m.type, requester |-> s])]
        /\ IF reqs[a] = << >> THEN busy' = [busy EXCEPT ![h] = Call(a, NULL)] ELSE busy' = busy
        /\ UNCHANGED <<dirSet, dirRepl, dram>>
    BY <1>7 DEF HandleL2Req, Arrived, Process, m, a
  <2>2. [type |-> m.type, requester |-> s] \in Reqs
    BY <2>1 DEF Reqs
  <2>3. reqs' \in [Addrs -> Seq(Reqs)]
    <3>1. Append(reqs[a], [type |-> m.type, requester |-> s]) \in Seq(Reqs)
      BY <1>1, <1>3, <2>2, SMTT(60) DEF TypeOK
    <3> QED
      BY <1>1, <1>3, <2>1, <3>1 DEF TypeOK
  <2>4. busy' \in [Tiles -> [addr : Addrs \cup {NULL}, data : Data]]
    <3>1. Call(a, NULL) \in [addr : Addrs \cup {NULL}, data : Data]
      BY <1>3, <1>6 DEF Call
    <3> QED
      BY <1>1, <2>1, <3>1 DEF TypeOK
  <2>5. ProcessingQueued'
    <3>1. SUFFICES ASSUME NEW g \in Tiles, busy'[g].addr # NULL
                   PROVE  Home[busy'[g].addr] = g /\ reqs'[busy'[g].addr] # << >>
      BY DEF ProcessingQueued
    <3>2. reqs'[a] # << >>
      BY <1>1, <1>3, <2>1, <2>2, SMTT(60) DEF TypeOK
    <3>3. CASE busy'[g] = busy[g]
      <4>1. Home[busy[g].addr] = g /\ reqs[busy[g].addr] # << >>
        BY <1>1, <3>1, <3>3
      <4> QED
        <5>1. busy[g].addr \in Addrs
          BY <1>1, <3>1, <3>3, SMTT(60) DEF TypeOK
        <5>2. busy[g].addr # a => reqs'[busy[g].addr] = reqs[busy[g].addr]
          BY <1>1, <2>1, <5>1 DEF TypeOK
        <5> QED
          BY <3>2, <3>3, <4>1, <5>2
    <3>4. CASE busy'[g] # busy[g]
      <4>1. g = h /\ busy'[g] = Call(a, NULL)
        BY <1>1, <2>1, <3>4 DEF TypeOK
      <4> QED
        BY <1>3, <3>2, <4>1, SMTT(60) DEF Call
    <3> QED
      BY <3>3, <3>4
  <2> QED
    BY <1>1, <1>2, <1>4, <2>1, <2>3, <2>4, <2>5
    DEF TypeInvariant, TypeOK, ChanType, Routed
<1>8. ASSUME NEW f \in Entries, NEW d \in Data,
             SetEntry(a, f), UNCHANGED reqs,
             dram' = dram \/ dram' = [dram EXCEPT ![a] = m.data],
             busy' = busy \/ Process(h, a, d),
             busy' = busy \/ reqs[a] # << >> \/ failed' # {}
      PROVE  TypeInvariant'
  <2>1. dirSet' \in [Addrs -> EntryType] /\ dirRepl' \in [Addrs -> EntryType]
    BY <1>1, <1>3, <1>8, LookupTyped
  <2>2. dram' \in [Addrs -> Data]
    BY <1>1, <1>3, <1>8 DEF TypeOK
  <2>3. busy' \in [Tiles -> [addr : Addrs \cup {NULL}, data : Data]]
    <3>1. Call(a, d) \in [addr : Addrs \cup {NULL}, data : Data]
      BY <1>3, <1>8 DEF Call
    <3> QED
      BY <1>1, <1>8, <3>1 DEF TypeOK, Process
  <2>4. ProcessingQueued'
    <3>1. SUFFICES ASSUME NEW g \in Tiles, busy'[g].addr # NULL, failed' = {}
                   PROVE  Home[busy'[g].addr] = g /\ reqs[busy'[g].addr] # << >>
      BY <1>8 DEF ProcessingQueued
    <3>2. CASE busy'[g] = busy[g]
      BY <1>1, <3>1, <3>2
    <3>3. CASE busy'[g] # busy[g]
      <4>1. busy' # busy
        BY <3>3
      <4>2. Process(h, a, d) /\ reqs[a] # << >>
        BY <1>8, <3>1, <4>1
      <4>3. busy \in [Tiles -> [addr : Addrs \cup {NULL}, data : Data]]
        BY <1>1 DEF TypeOK
      <4>4. g = h /\ busy'[g] = Call(a, d)
        BY <3>3, <4>2, <4>3 DEF Process
      <4> QED
        BY <1>3, <4>2, <4>4, SMTT(60) DEF Call
    <3> QED
      BY <3>2, <3>3
  <2> QED
    BY <1>1, <1>2, <1>4, <1>8, <2>1, <2>2, <2>3, <2>4
    DEF TypeInvariant, TypeOK, ChanType, EntryType, Routed
<1>9. /\ Invalidated(e, s) \in Entries
      /\ [RemoveSharer(e, s) EXCEPT !.owner = NULL, !.dstate = "UNCACHED"] \in Entries
      /\ [e EXCEPT !.owner = NULL, !.dstate = "SHARED"] \in Entries
  <2> DEFINE Raw == [dstate : DStates \cup {"NONE"}, owner : Tiles \cup {NULL},
                     sharers : SUBSET Tiles, overflow : BOOLEAN, extra : Int]
             r == RemoveSharer(e, s)
  <2>1. e \in Raw
    <3>1. \A f \in Entries : f \in Raw /\ [f EXCEPT !.dstate = "NONE"] \in Raw
      BY DEF Entries
    <3> QED
      BY <1>5, <3>1, EntryOperatorsTyped DEF EntryType, NoEntry
  <2>2. r \in Raw /\ r.dstate = e.dstate
    <3>1. e.sharers \ {s} \in SUBSET Tiles /\ e.extra - 1 \in Int /\ (e.extra # 1) \in BOOLEAN
      BY <2>1, SMTT(60)
    <3>2. ASSUME NEW S \in SUBSET Tiles, NEW n \in Int, NEW o \in BOOLEAN
          PROVE  /\ [e EXCEPT !.sharers = S] \in Raw /\ [e EXCEPT !.sharers = S].dstate = e.dstate
                 /\ [e EXCEPT !.extra = n, !.overflow = o] \in Raw
                 /\ [e EXCEPT !.extra = n, !.overflow = o].dstate = e.dstate
      BY <2>1
    <3> QED
      BY <3>1, <3>2 DEF RemoveSharer
  <2>3. ASSUME NEW f \in Raw
        PROVE  /\ [f EXCEPT !.dstate = "UNCACHED"] \in Entries
               /\ [f EXCEPT !.owner = NULL, !.dstate = "UNCACHED"] \in Entries
               /\ [f EXCEPT !.owner = NULL, !.dstate = "SHARED"] \in Entries
               /\ f.dstate \in DStates => [f EXCEPT !.dstate = f.dstate] \in Entries
    BY DEF Entries, DStates
  <2>4. e.dstate \in DStates \/ NumSharers(r) = 0
    <3>1. CASE e = NoEntry
      <4>1. ~e.overflow /\ e.sharers = {} /\ e.extra = 0
        BY <3>1 DEF NoEntry, NewEntry
      <4>2. r.sharers = {} /\ r.extra = 0 /\ ~r.overflow
        BY <2>1, <4>1 DEF RemoveSharer
      <4>3. Cardinality({}) = 0
        BY FS_EmptySet
      <4> QED
        BY <4>2, <4>3, SMTT(60) DEF NumSharers
    <3> QED
      BY <1>5, <3>1 DEF EntryType, Entries
  <2>5. Invalidated(e, s) = [r EXCEPT !.dstate = IF NumSharers(r) = 0 THEN "UNCACHED" ELSE r.dstate]
    BY DEF Invalidated
  <2> HIDE DEF r
  <2>6. Invalidated(e, s) \in Entries
    BY <2>2, <2>3, <2>4, <2>5
  <2> QED
    BY <2>1, <2>2, <2>3, <2>6 DEF r
<1>10. ASSUME HandleInvRep(s, h)
       PROVE  TypeInvariant'
  <2>1. /\ SetEntry(a, Invalidated(e, s)) /\ UNCHANGED <<reqs, dram>>
        /\ busy' = busy \/ (reqs[a] # << >> /\ Process(h, a, NULL))
    BY <1>10 DEF HandleInvRep, m, a, e
  <2> QED
    BY <1>6, <1>8, <1>9, <2>1
<1>11. ASSUME HandleFlushRep(s, h)
       PROVE  TypeInvariant'
  <2> DEFINE d == IF Front(a).type = "NULLIFY_REQ" THEN NULL ELSE m.data
  <2>1. /\ SetEntry(a, [RemoveSharer(e, s) EXCEPT !.owner = NULL, !.dstate = "UNCACHED"])
        /\ UNCHANGED reqs
        /\ dram' = dram \/ dram' = [dram EXCEPT ![a] = m.data]
        /\ busy' = busy \/ (reqs[a] # << >> /\ Process(h, a, d))
    BY <1>11 DEF HandleFlushRep, m, a, e
  <2>2. d \in Data
    BY <1>3, <1>6
  <2> HIDE DEF d
  <2> QED
    BY <1>8, <1>9, <2>1, <2>2
<1>12. ASSUME HandleWbRep(s, h)
       PROVE  TypeInvariant'
  <2>1. /\ SetEntry(a, [e EXCEPT !.owner = NULL, !.dstate = "SHARED"])
        /\ UNCHANGED reqs
        /\ dram' = [dram EXCEPT ![a] = m.data]
        /\ Process(h, a, m.data)
    BY <1>12 DEF HandleWbRep, m, a, e
  <2>2. reqs[a] # << >> \/ failed' # {}
    BY <1>12 DEF HandleWbRep, Fails, m, a
  <2> QED
    BY <1>3, <1>8, <1>9, <2>1, <2>2
<1> QED
  BY <1>7, <1>10, <1>11, <1>12

\* processNextReqFromL2Cache takes the front request off its queue and goes on
\* with the next one, if any.
LEMMA ProcessNextTyped ==
  ASSUME TypeInvariant, failed = {}, NEW h \in Tiles, NEW a \in Addrs,
         busy[h].addr = a, ProcessNext(h, a)
  PROVE  /\ reqs' \in [Addrs -> Seq(Reqs)]
         /\ busy' \in [Tiles -> [addr : Addrs \cup {NULL}, data : Data]]
         /\ ProcessingQueued'
<1>1. /\ reqs \in [Addrs -> Seq(Reqs)]
      /\ busy \in [Tiles -> [addr : Addrs \cup {NULL}, data : Data]]
      /\ \A g \in Tiles : LET b == busy[g].addr IN b # NULL => Home[b] = g /\ reqs[b] # << >>
  BY DEF TypeInvariant, TypeOK, ProcessingQueued
<1>2. Home[a] = h /\ reqs[a] # << >> /\ a # NULL
  BY <1>1, AddrsAssumption
<1>3. Tail(reqs[a]) \in Seq(Reqs) /\ Len(Tail(reqs[a])) = Len(reqs[a]) - 1
  BY <1>1, <1>2, SMTT(60)
<1>4. Call(a, NULL) \in [addr : Addrs \cup {NULL}, data : Data]
  BY DEF Call, Data
<1>5. NotBusy \in [addr : Addrs \cup {NULL}, data : Data]
  BY DEF NotBusy, Data
<1>6. reqs' = [reqs EXCEPT ![a] = Tail(reqs[a])]
  BY DEF ProcessNext
<1>7. busy' = [busy EXCEPT ![h] = IF Len(reqs[a]) > 1 THEN Call(a, NULL) ELSE NotBusy]
  BY DEF ProcessNext
<1>8. ProcessingQueued'
  <2>1. SUFFICES ASSUME NEW g \in Tiles, busy'[g].addr # NULL
                 PROVE  Home[busy'[g].addr] = g /\ reqs'[busy'[g].addr] # << >>
    BY DEF ProcessingQueued
  <2>2. CASE g # h
    <3>1. busy'[g] = busy[g] /\ Home[busy[g].addr] = g /\ reqs[busy[g].addr] # << >>
      BY <1>1, <1>7, <2>1, <2>2
    <3>2. busy[g].addr \in Addrs /\ busy[g].addr # a
      BY <1>1, <1>2, <2>1, <2>2, <3>1, SMTT(60)
    <3> QED
      BY <1>1, <1>6, <3>1, <3>2
  <2>3. CASE g = h
    <3>1. Len(reqs[a]) > 1 /\ busy'[g] = Call(a, NULL)
      BY <1>1, <1>7, <2>1, <2>3 DEF NotBusy
    <3>2. reqs'[a] = Tail(reqs[a]) /\ Len(reqs[a]) \in Nat
      BY <1>1, <1>6, SMTT(60)
    <3>3. reqs'[a] # << >>
      <4>1. Len(Tail(reqs[a])) # 0
        <5>1. ASSUME NEW n, NEW k \in Nat, k > 1, n = k - 1 PROVE n # 0
          BY <5>1, SMTT(60)
        <5> QED
          BY <1>3, <3>1, <3>2, <5>1
      <4>2. Len(<< >>) = 0
        OBVIOUS
      <4> QED
        BY <3>2, <4>1, <4>2
    <3> QED
      BY <1>2, <2>3, <3>1, <3>3, SMTT(60) DEF Call
  <2> QED
    BY <2>2, <2>3
<1> QED
  BY <1>1, <1>3, <1>4, <1>5, <1>6, <1>7, <1>8

\* The directory controller serves the front request of a line.
LEMMA DirStepTyped ==
  ASSUME TypeInvariant, NEW h \in Tiles, DirStep(h)
  PROVE  TypeInvariant'
<1>1. PICK a \in Addrs : \/ \E b \in Addrs : Allocate(h, a, b)
                         \/ AllocateFails(h, a)
                         \/ ProcessExReq(h, a)
                         \/ ProcessShReq(h, a)
                         \/ ProcessNullify(h, a)
  BY DEF DirStep
<1> DEFINE e == Entry(a)
           t == Front(a).requester
<1>2. failed = {} /\ busy[h].addr = a
  BY <1>1 DEF Allocate, AllocateFails, ProcessExReq, ProcessShReq, ProcessNullify, Processing
<1>3. /\ TypeOK /\ Routed /\ chan \in ChanType /\ RoutedIn(chan)
      /\ \A g \in Tiles : LET b == busy[g].addr IN b # NULL => Home[b] = g /\ reqs[b] # << >>
  BY <1>2 DEF TypeInvariant, TypeOK, ChanType, Routed, ProcessingQueued
<1>4. Home[a] = h /\ reqs[a] # << >>
  BY <1>2, <1>3, AddrsAssumption
<1>5. Front(a) \in Reqs /\ t \in Tiles
  <2>1. reqs[a] \in Seq(Reqs)
    BY <1>3 DEF TypeOK
  <2> QED
    <3>1. Head(reqs[a]) \in Reqs
      BY <1>4, <2>1, SMTT(60)
    <3> QED
      BY <3>1 DEF Front, Reqs
<1>6. e \in EntryType
  BY <1>3, LookupTyped
<1>7. UNCHANGED <<app, l1, l2, outst, mem>>
  BY <1>1 DEF Allocate, AllocateFails, ProcessExReq, ProcessShReq, ProcessNullify
<1>8. ASSUME NEW type \in MsgTypes, NEW b \in Addrs, Home[b] = h, NEW d \in Data, NEW D, NEW u
      PROVE  /\ Put(chan, h, u, Msg(type, "DRAM_DIRECTORY", b, d)) \in ChanType
             /\ RoutedIn(Put(chan, h, u, Msg(type, "DRAM_DIRECTORY", b, d)))
             /\ PutAll(chan, h, D, Msg(type, "DRAM_DIRECTORY", b, d)) \in ChanType
             /\ RoutedIn(PutAll(chan, h, D, Msg(type, "DRAM_DIRECTORY", b, d)))
  <2>1. Msg(type, "DRAM_DIRECTORY", b, d) \in Msgs
    BY MsgTyped DEF Senders
  <2>2. \A u2 : RoutedMsg(Msg(type, "DRAM_DIRECTORY", b, d), h, u2)
    BY <1>8 DEF RoutedMsg, Msg
  <2> QED
    BY <1>3, <2>1, <2>2, ChannelsTyped, ChannelsRouted
<1>9. NULL \in Data /\ {"FLUSH_REQ", "WB_REQ", "INV_REQ", "EX_REP", "SH_REP"} \subseteq MsgTypes
  BY DEF Data, MsgTypes
<1>10. NotBusy \in [addr : Addrs \cup {NULL}, data : Data]
  BY <1>9 DEF NotBusy
<1> HIDE DEF e, t
<1>11. ASSUME chan' \in ChanType, RoutedIn(chan'), 
              busy' = [busy EXCEPT ![h] = NotBusy], UNCHANGED <<dirSet, dirRepl, reqs, dram>>
       PROVE  TypeInvariant'
  <2>1. busy' \in [Tiles -> [addr : Addrs \cup {NULL}, data : Data]]
    BY <1>3, <1>10, <1>11 DEF TypeOK
  <2>2. ProcessingQueued'
    <3>1. \A g \in Tiles : busy'[g] = busy[g] \/ busy'[g] = NotBusy
      BY <1>3, <1>11 DEF TypeOK
    <3> QED
      <4>1. \A g \in Tiles : busy'[g].addr # NULL => busy'[g] = busy[g]
        BY <3>1, SMTT(60) DEF NotBusy
      <4> QED
        BY <1>3, <1>11, <4>1 DEF ProcessingQueued
  <2> QED
    BY <1>3, <1>7, <1>11, <2>1, <2>2 DEF TypeInvariant, TypeOK, ChanType, Routed
<1>12. ASSUME NEW type \in {"EX_REP", "SH_REP"}, NEW f \in Entries,
              SetEntry(a, f), SendData(type, h, t, a, busy[h].data), ProcessNext(h, a)
       PROVE  TypeInvariant'
  <2>1. /\ reqs' \in [Addrs -> Seq(Reqs)]
        /\ busy' \in [Tiles -> [addr : Addrs \cup {NULL}, data : Data]]
        /\ ProcessingQueued'
    BY <1>2, <1>12, ProcessNextTyped
  <2>2. dirSet' \in [Addrs -> EntryType] /\ dirRepl' \in [Addrs -> EntryType]
    BY <1>3, <1>12, LookupTyped
  <2>3. busy[h].data \in Data /\ DramData(a) \in Data
    BY <1>3, ValuesAssumption DEF TypeOK, DramData, Data
  <2>4. dram' \in [Addrs -> Data]
    BY <1>3, <1>12, <2>3 DEF TypeOK, SendData
  <2>5. chan' \in ChanType /\ RoutedIn(chan')
    <3> DEFINE x == IF busy[h].data # NULL THEN busy[h].data ELSE DramData(a)
    <3>1. x \in Data /\ chan' = Put(chan, h, t, Msg(type, "DRAM_DIRECTORY", a, x)) /\ type \in MsgTypes
      BY <1>9, <1>12, <2>3 DEF SendData
    <3> HIDE DEF x
    <3> QED
      BY <1>4, <1>8, <3>1
  <2> QED
    BY <1>3, <1>7, <2>1, <2>2, <2>4, <2>5 DEF TypeInvariant, TypeOK, ChanType, EntryType, Routed
<1>13. ASSUME ProcessExReq(h, a)
       PROVE  TypeInvariant'
  <2>1. e \in Entries
    BY <1>6, <1>13 DEF ProcessExReq, EntryType, e
  <2>2. CASE e.dstate = "MODIFIED"
    <3>1. /\ chan' = Put(chan, h, e.owner, Msg("FLUSH_REQ", "DRAM_DIRECTORY", a, NULL))
          /\ busy' = [busy EXCEPT ![h] = NotBusy] /\ UNCHANGED <<dirSet, dirRepl, reqs, dram>>
      BY <1>13, <2>2 DEF ProcessExReq, e
    <3> QED
      BY <1>4, <1>8, <1>9, <1>11, <3>1
  <2>3. CASE e.dstate = "SHARED"
    <3>1. /\ chan' = PutAll(chan, h, InvTargets(e), Msg("INV_REQ", "DRAM_DIRECTORY", a, NULL))
          /\ busy' = [busy EXCEPT ![h] = NotBusy] /\ UNCHANGED <<dirSet, dirRepl, reqs, dram>>
      BY <1>13, <2>3 DEF ProcessExReq, e
    <3> QED
      BY <1>4, <1>8, <1>9, <1>11, <3>1
  <2>4. CASE e.dstate = "UNCACHED"
    <3> DEFINE f == [AddSharer(e, t) EXCEPT !.owner = t, !.dstate = "MODIFIED"]
    <3>1. SetEntry(a, f) /\ SendData("EX_REP", h, t, a, busy[h].data) /\ ProcessNext(h, a)
      BY <1>13, <2>4 DEF ProcessExReq, e, t
    <3>2. AddSharer(e, t) \in Entries
      BY <1>5, <2>1, EntryOperatorsTyped
    <3>3. f \in Entries
      BY <1>5, <3>2 DEF Entries, DStates
    <3> HIDE DEF f
    <3> QED
      BY <1>12, <3>1, <3>3
  <2> QED
    BY <2>1, <2>2, <2>3, <2>4 DEF Entries, DStates
<1>14. ASSUME ProcessShReq(h, a)
       PROVE  TypeInvariant'
  <2>1. e \in Entries
    BY <1>6, <1>14 DEF ProcessShReq, EntryType, e
  <2>2. CASE e.dstate = "MODIFIED"
    <3>1. /\ chan' = Put(chan, h, e.owner, Msg("WB_REQ", "DRAM_DIRECTORY", a, NULL))
          /\ busy' = [busy EXCEPT ![h] = NotBusy] /\ UNCHANGED <<dirSet, dirRepl, reqs, dram>>
      BY <1>14, <2>2 DEF ProcessShReq, e
    <3> QED
      BY <1>4, <1>8, <1>9, <1>11, <3>1
  <2>3. CASE e.dstate = "SHARED" /\ ~AddSharerSucceeds(e)
    <3>1. /\ \E s \in e.sharers :
               chan' = Put(chan, h, s, Msg("INV_REQ", "DRAM_DIRECTORY", a, NULL))
          /\ busy' = [busy EXCEPT ![h] = NotBusy] /\ UNCHANGED <<dirSet, dirRepl, reqs, dram>>
      BY <1>14, <2>3 DEF ProcessShReq, e
    <3> QED
      BY <1>4, <1>8, <1>9, <1>11, <3>1
  <2>4. CASE e.dstate = "UNCACHED" \/ (e.dstate = "SHARED" /\ AddSharerSucceeds(e))
    <3> DEFINE f == [AddSharer(e, t) EXCEPT !.dstate = "SHARED"]
    <3>1. SetEntry(a, f) /\ SendData("SH_REP", h, t, a, busy[h].data) /\ ProcessNext(h, a)
      BY <1>14, <2>4 DEF ProcessShReq, e, t
    <3>2. AddSharer(e, t) \in Entries
      BY <1>5, <2>1, EntryOperatorsTyped
    <3>3. f \in Entries
      BY <3>2 DEF Entries, DStates
    <3> HIDE DEF f
    <3> QED
      BY <1>12, <3>1, <3>3
  <2> QED
    BY <2>1, <2>2, <2>3, <2>4 DEF Entries, DStates
<1>15. ASSUME ProcessNullify(h, a)
       PROVE  TypeInvariant'
  <2>1. /\ reqs' \in [Addrs -> Seq(Reqs)]
        /\ busy' \in [Tiles -> [addr : Addrs \cup {NULL}, data : Data]]
        /\ ProcessingQueued'
    BY <1>2, <1>15, ProcessNextTyped DEF ProcessNullify
  <2>2. dirRepl' \in [Addrs -> EntryType]
    BY <1>3, <1>15 DEF ProcessNullify, TypeOK, EntryType
  <2> QED
    BY <1>3, <1>7, <1>15, <2>1, <2>2
    DEF TypeInvariant, TypeOK, ChanType, EntryType, Routed, RoutedIn, ProcessNullify
<1>16. ASSUME NEW b \in Addrs, Allocate(h, a, b)
       PROVE  TypeInvariant'
  <2> DEFINE f == dirSet[b]
             nullify == [type |-> "NULLIFY_REQ", requester |-> Front(a).requester]
  <2>1. Home[b] = h /\ f \in Entries
    BY <1>3, <1>16 DEF Allocate, Candidates, SetLines, TypeOK
  <2>2. dirSet' \in [Addrs -> EntryType]
    <3>1. dirSet' = [dirSet EXCEPT ![a] = NewEntry, ![b] = NoEntry]
      BY <1>16 DEF Allocate, ReplaceEntry
    <3> QED
      BY <1>3, <3>1, EntryOperatorsTyped DEF TypeOK, EntryType
  <2>3. dirRepl' \in [Addrs -> EntryType]
    BY <1>3, <1>16, <2>1 DEF Allocate, TypeOK, EntryType
  <2>4. reqs' = reqs \/ reqs' = [reqs EXCEPT ![b] = <<nullify>>]
    BY <1>16 DEF Allocate
  <2>5. <<nullify>> \in Seq(Reqs) /\ <<nullify>> # << >>
    BY <1>5, SMTT(60) DEF Reqs, t
  <2> HIDE DEF nullify
  <2>6. reqs' \in [Addrs -> Seq(Reqs)]
    BY <1>3, <2>4, <2>5 DEF TypeOK
  <2>7. ProcessingQueued'
    <3>1. UNCHANGED busy
      BY <1>16 DEF Allocate
    <3>2. \A c \in Addrs : reqs[c] # << >> => reqs'[c] # << >>
      BY <1>3, <2>4, <2>5 DEF TypeOK
    <3> QED
      BY <1>3, <3>1, <3>2 DEF ProcessingQueued, TypeOK
  <2>8. chan' \in ChanType /\ RoutedIn(chan')
    <3>1. \/ chan' = chan
          \/ chan' = Put(chan, h, f.owner, Msg("FLUSH_REQ", "DRAM_DIRECTORY", b, NULL))
          \/ chan' = PutAll(chan, h, InvTargets(f), Msg("INV_REQ", "DRAM_DIRECTORY", b, NULL))
      BY <1>16, <2>1 DEF Allocate, Entries, DStates
    <3>2. /\ Put(chan, h, f.owner, Msg("FLUSH_REQ", "DRAM_DIRECTORY", b, NULL)) \in ChanType
          /\ RoutedIn(Put(chan, h, f.owner, Msg("FLUSH_REQ", "DRAM_DIRECTORY", b, NULL)))
      BY <1>8, <1>9, <2>1
    <3>3. /\ PutAll(chan, h, InvTargets(f), Msg("INV_REQ", "DRAM_DIRECTORY", b, NULL)) \in ChanType
          /\ RoutedIn(PutAll(chan, h, InvTargets(f), Msg("INV_REQ", "DRAM_DIRECTORY", b, NULL)))
      BY <1>8, <1>9, <2>1
    <3> QED
      BY <1>3, <3>1, <3>2, <3>3
  <2> QED
    BY <1>3, <1>7, <1>16, <2>2, <2>3, <2>6, <2>7, <2>8
    DEF TypeInvariant, TypeOK, ChanType, EntryType, Routed, Allocate
<1>17. ASSUME AllocateFails(h, a)
       PROVE  TypeInvariant'
  BY <1>3, <1>17 DEF AllocateFails, TypeInvariant, TypeOK, Routed, RoutedIn, ProcessingQueued
<1> QED
  BY <1>1, <1>13, <1>14, <1>15, <1>16, <1>17

\* The inductive invariant of the cache and directory state.
THEOREM TypeInvariantHolds == Spec => []TypeInvariant
<1>1. Init => TypeInvariant
  <2> SUFFICES ASSUME Init PROVE TypeInvariant
    OBVIOUS
  <2>1. app \in [Tiles -> AppStates]
    BY DEF Init, Idle, AppStates, Components, MemOps, Data
  <2>2. l1 \in [Tiles -> L1Type] /\ l2 \in [Tiles -> L2Type]
    BY DEF Init, InvalidL1, InvalidL2, L1Type, L2Type, L1Lines, L2Lines, CStates, Data
  <2>3. dirSet \in [Addrs -> EntryType] /\ dirRepl \in [Addrs -> EntryType]
    BY DEF Init, EntryType
  <2>4. /\ chan \in ChanType /\ Routed
    BY SMTT(60) DEF Init, ChanType, Routed, RoutedIn
  <2>5. /\ outst \in [Tiles -> [addr : Addrs \cup {NULL}, comp : Components]]
        /\ busy \in [Tiles -> [addr : Addrs \cup {NULL}, data : Data]]
        /\ reqs \in [Addrs -> Seq(Reqs)] /\ dram \in [Addrs -> Data] /\ mem \in [Addrs -> Values]
    BY ValuesAssumption, SMTT(60) DEF Init, NotBusy, Components, Data
  <2>6. ProcessingQueued
    BY DEF Init, NotBusy, ProcessingQueued
  <2> QED
    BY <2>1, <2>2, <2>3, <2>4, <2>5, <2>6
    DEF TypeInvariant, TypeOK, ChanType, L1Type, L2Type, EntryType
<1>2. TypeInvariant /\ [Next]_vars => TypeInvariant'
  <2> SUFFICES ASSUME TypeInvariant, [Next]_vars
               PROVE  TypeInvariant'
    OBVIOUS
  <2>1. CASE UNCHANGED vars
    BY <2>1 DEF vars, TypeInvariant, TypeOK, Routed, RoutedIn, ProcessingQueued
  <2>2. ASSUME NEW t \in Tiles, AppStep(t)
        PROVE  TypeInvariant'
    BY <2>2, AppStepTyped
  <2>3. ASSUME NEW s \in Tiles, NEW d \in Tiles, Receive(s, d)
        PROVE  TypeInvariant'
    BY <2>3, L2HandlersTyped, DirectoryHandlersTyped DEF Receive
  <2>4. ASSUME NEW h \in Tiles, DirStep(h)
        PROVE  TypeInvariant'
    BY <2>4, DirStepTyped
  <2> QED
    BY <2>1, <2>2, <2>3, <2>4 DEF Next
<1> QED
  BY <1>1, <1>2, PTL DEF Spec

\* Whatever the interleaving of accesses, messages and replacements, the state
\* of the caches, the directory, the channels and DRAM is well formed.
THEOREM TypeCorrect == Spec => []TypeOK
<1>1. TypeInvariant => TypeOK
  BY DEF TypeInvariant
<1> QED
  BY <1>1, TypeInvariantHolds, PTL

=============================================================================

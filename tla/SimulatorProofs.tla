-------------------------- MODULE SimulatorProofs --------------------------
(***************************************************************************)
(* Proofs about Simulator, for any number of processes, tiles and          *)
(* requests: netRecv misses no packet, and when the MCP leaves its loop    *)
(* the exit of at most one thread spawner is not handled.                  *)
(***************************************************************************)
EXTENDS SimulatorInvariant, FiniteSetTheorems, TLAPS

\* A leaf is for Zenon, or for the SMT solver where it says so.
USE ZenonT(60)

-----------------------------------------------------------------------------
(* Queues *)

\* A message that joins a queue is in it, and twice only if it was there.
LEMMA AppendOnce ==
  ASSUME NEW S, NEW s \in Seq(S), NEW x \in S
  PROVE  /\ Append(s, x) \in Seq(S)
         /\ Range(Append(s, x)) = Range(s) \cup {x}
         /\ \A m : Once(s, m) /\ (x = m => m \notin Range(s)) => Once(Append(s, x), m)
<1>1. /\ Append(s, x) \in Seq(S) /\ DOMAIN s = 1 .. Len(s) /\ Len(s) \in Nat
      /\ DOMAIN Append(s, x) = 1 .. Len(s) + 1
      /\ Append(s, x)[Len(s) + 1] = x /\ \A i \in 1 .. Len(s) : Append(s, x)[i] = s[i]
  BY SMTT(60)
<1>2. \A i \in 1 .. Len(s) + 1 : i \in 1 .. Len(s) \/ i = Len(s) + 1
  BY <1>1, SMTT(60)
<1>3. Len(s) + 1 \in 1 .. Len(s) + 1 /\ 1 .. Len(s) \subseteq 1 .. Len(s) + 1
  BY <1>1, SMTT(60)
<1>4. Range(Append(s, x)) = Range(s) \cup {x}
  <2>1. ASSUME NEW y \in Range(Append(s, x)) PROVE y \in Range(s) \cup {x}
    BY <1>1, <1>2, <2>1 DEF Range
  <2>2. ASSUME NEW y \in Range(s) PROVE y \in Range(Append(s, x))
    <3>1. PICK i \in 1 .. Len(s) : y = s[i]
      BY <1>1, <2>2 DEF Range
    <3>2. i \in DOMAIN Append(s, x) /\ Append(s, x)[i] = y
      BY <1>1, <1>3, <3>1
    <3> QED  BY <3>2 DEF Range
  <2>3. x \in Range(Append(s, x))
    BY <1>1, <1>3 DEF Range
  <2> QED  BY <2>1, <2>2, <2>3
<1>5. ASSUME NEW m, Once(s, m), x = m => m \notin Range(s)
      PROVE  Once(Append(s, x), m)
  <2>1. \A i \in 1 .. Len(s) : s[i] \in Range(s)
    BY <1>1 DEF Range
  <2> QED  BY <1>1, <1>2, <1>5, <2>1 DEF Once
<1> QED  BY <1>1, <1>4, <1>5

\* What leaves a queue at any place; r is the rest.
LEMMA RestOnce ==
  ASSUME NEW S, NEW s \in Seq(S), NEW i \in DOMAIN s, NEW r \in Seq(S),
         NEW at, at \in [DOMAIN r -> DOMAIN s],
         \A j \in DOMAIN r : r[j] = s[at[j]] /\ at[j] # i,
         \A j, k \in DOMAIN r : at[j] = at[k] => j = k
  PROVE  /\ s[i] \in Range(s) /\ Range(r) \subseteq Range(s)
         /\ \A m : Once(s, m) => Once(r, m) /\ (s[i] = m => m \notin Range(r))
<1>1. s[i] \in Range(s)
  BY DEF Range
<1>2. ASSUME NEW y \in Range(r)
      PROVE  y \in Range(s) /\ \E j \in DOMAIN r : at[j] \in DOMAIN s /\ at[j] # i /\ s[at[j]] = y
  <2>1. PICK j \in DOMAIN r : y = r[j]
    BY <1>2 DEF Range
  <2>2. at[j] \in DOMAIN s /\ at[j] # i /\ s[at[j]] = y
    BY <2>1
  <2> QED  BY <2>2 DEF Range
<1>3. ASSUME NEW m, Once(s, m)
      PROVE  Once(r, m) /\ (s[i] = m => m \notin Range(r))
  <2>1. ASSUME NEW j \in DOMAIN r, NEW k \in DOMAIN r, r[j] = m, r[k] = m
        PROVE  j = k
    <3>1. at[j] \in DOMAIN s /\ at[k] \in DOMAIN s /\ s[at[j]] = m /\ s[at[k]] = m
      BY <2>1
    <3>2. at[j] = at[k]
      BY <1>3, <3>1 DEF Once
    <3> QED  BY <3>2
  <2>2. ASSUME s[i] = m, m \in Range(r)
        PROVE  FALSE
    BY <1>2, <1>3, <2>2 DEF Once
  <2> QED  BY <2>1, <2>2 DEF Once
<1> QED  BY <1>1, <1>2, <1>3

LEMMA TailOnce ==
  ASSUME NEW S, NEW s \in Seq(S), s # <<>>
  PROVE  /\ Tail(s) \in Seq(S) /\ Head(s) \in S
         /\ Head(s) \in Range(s) /\ Range(Tail(s)) \subseteq Range(s)
         /\ \A m : Once(s, m) => Once(Tail(s), m) /\ (Head(s) = m => m \notin Range(Tail(s)))
<1> DEFINE r == Tail(s)
           at == [j \in DOMAIN r |-> j + 1]
<1>1. PICK i \in DOMAIN s : i = 1
  BY SMTT(60)
<1>2. /\ r \in Seq(S) /\ Head(s) \in S /\ Head(s) = s[i]
      /\ \A j \in DOMAIN r : j + 1 \in DOMAIN s /\ r[j] = s[j + 1] /\ j + 1 # i
      /\ \A j, k \in DOMAIN r : j + 1 = k + 1 => j = k
  BY <1>1, SMTT(60)
<1> HIDE DEF r
<1>3. /\ at \in [DOMAIN r -> DOMAIN s]
      /\ \A j \in DOMAIN r : r[j] = s[at[j]] /\ at[j] # i
      /\ \A j, k \in DOMAIN r : at[j] = at[k] => j = k
  BY <1>2
<1> HIDE DEF at
<1>4. /\ s[i] \in Range(s) /\ Range(r) \subseteq Range(s)
      /\ \A m : Once(s, m) => Once(r, m) /\ (s[i] = m => m \notin Range(r))
  BY <1>2, <1>3, RestOnce, SMTT(60)
<1> QED  BY <1>2, <1>4 DEF r

LEMMA EraseOnce ==
  ASSUME NEW S, NEW s \in Seq(S), NEW i \in DOMAIN s
  PROVE  /\ Erase(s, i) \in Seq(S)
         /\ s[i] \in Range(s) /\ Range(Erase(s, i)) \subseteq Range(s)
         /\ \A m : Once(s, m) => Once(Erase(s, i), m) /\ (s[i] = m => m \notin Range(Erase(s, i)))
<1> DEFINE r == Erase(s, i)
           at == [j \in DOMAIN r |-> IF j < i THEN j ELSE j + 1]
<1>1. i \in 1 .. Len(s) /\ Len(s) \in Nat /\ DOMAIN s = 1 .. Len(s)
  BY SMTT(60)
<1>2. r \in Seq(S) /\ DOMAIN r = 1 .. Len(s) - 1
  BY <1>1, SMTT(60) DEF Erase
<1>3. \A j \in 1 .. Len(s) - 1 : r[j] = s[IF j < i THEN j ELSE j + 1]
  BY DEF Erase
<1> HIDE DEF r
<1>4. /\ at \in [DOMAIN r -> DOMAIN s]
      /\ \A j \in DOMAIN r : r[j] = s[at[j]] /\ at[j] # i
      /\ \A j, k \in DOMAIN r : at[j] = at[k] => j = k
  BY <1>1, <1>2, <1>3, SMTT(60)
<1> HIDE DEF at
<1>5. /\ s[i] \in Range(s) /\ Range(r) \subseteq Range(s)
      /\ \A m : Once(s, m) => Once(r, m) /\ (s[i] = m => m \notin Range(r))
  <2>1. r \in Seq(S)
    BY <1>2
  <2> QED  BY <1>4, <2>1, RestOnce, SMTT(60)
<1> QED  BY <1>2, <1>5 DEF r

\* A sequence that gains other messages, or loses some, keeps a message.
LEMMA KeptByChange ==
  ASSUME NEW S, NEW s \in Seq(S), NEW m
  PROVE  /\ \A x \in S : x # m => Kept(s, Append(s, x), m)
         /\ s # <<>> => Kept(s, Tail(s), m)
         /\ \A i \in DOMAIN s : Kept(s, Erase(s, i), m)
<1>1. ASSUME NEW x \in S, x # m
      PROVE  Kept(s, Append(s, x), m)
  <2>1. Range(Append(s, x)) = Range(s) \cup {x}
    BY AppendOnce
  <2>2. Once(s, m) => Once(Append(s, x), m)
    BY <1>1, AppendOnce
  <2> QED  BY <1>1, <2>1, <2>2 DEF Kept
<1>2. ASSUME s # <<>>
      PROVE  Kept(s, Tail(s), m)
  BY <1>2, TailOnce DEF Kept
<1>3. ASSUME NEW i \in DOMAIN s
      PROVE  Kept(s, Erase(s, i), m)
  BY EraseOnce DEF Kept
<1> QED  BY <1>1, <1>2, <1>3

-----------------------------------------------------------------------------
(* Nodes and channels *)

LEMMA Places ==
  /\ 0 \in Procs /\ MCPTile \in Tiles /\ MainTile \in Tiles /\ MainTile # MCPTile
  /\ Home(MCPTile) = 0 /\ MainTile \notin SpawnerTiles
  /\ \A p \in Procs : Global(p) \in Nodes /\ SpawnerTile[p] \in Tiles /\ Home(SpawnerTile[p]) = p
  /\ \A t \in Tiles : Tile(t) \in Nodes /\ Home(t) \in Procs
<1>1. 0 \in Procs
  BY ProcAssumption, SMTT(60) DEF Procs
<1>2. \A t \in Tiles : Tile(t) \in Nodes
  BY TileAssumption DEF AllNodes
<1>3. \A t \in Tiles : Home(t) \in Procs
  BY <1>2, ProcAssumption DEF Home, Procs
<1>4. \A p \in Procs : Global(p) \in Nodes
  BY TileAssumption DEF AllNodes
<1>5. \A p \in Procs : SpawnerTile[p] \in Tiles /\ SpawnerTile[p] # MainTile /\ Home(SpawnerTile[p]) = p
  BY TileAssumption
<1>6. MainTile \notin SpawnerTiles
  BY <1>5 DEF SpawnerTiles
<1>7. /\ MCPTile \in Tiles /\ MainTile \in Tiles /\ MainTile # MCPTile /\ Home(MCPTile) = 0
  BY TileAssumption
<1> QED  BY <1>1, <1>2, <1>3, <1>4, <1>5, <1>6, <1>7

\* Tiles and processes are different nodes.
LEMMA NodesDiffer ==
  /\ \A t, p : Tile(t) # Global(p)
  /\ \A t, u : Tile(t) = Tile(u) => t = u
  /\ \A p, q : Global(p) = Global(q) => p = q
  BY SMTT(60) DEF Tile, Global

LEMMA Messages ==
  /\ \A type \in MessageTypes : Message(type) \in AllMessages /\ Message(type).type = type
  /\ \A t \in Tiles, type \in MessageTypes :
        About(t, type) \in AllMessages /\ About(t, type).type = type /\ About(t, type).tile = t
<1>1. \A type \in MessageTypes : Message(type) \in AllMessages /\ Message(type).type = type
  BY DEF Message, AllMessages
<1>2. \A t \in Tiles, type \in MessageTypes :
        About(t, type) \in AllMessages /\ About(t, type).type = type /\ About(t, type).tile = t
  BY DEF About, AllMessages
<1> QED  BY <1>1, <1>2

LEMMA Tokens ==
  /\ Quit \in AllMessages /\ Quit.type = "QUIT_SPAWNER"
  /\ \A p \in Procs :
        /\ SpawnerExit(p) \in AllMessages /\ SpawnerExit(p).type = "THREAD_EXIT"
        /\ SpawnerExit(p).tile = SpawnerTile[p]
        /\ Ack(p) \in AllMessages /\ Ack(p).type = "QUIT_SPAWNER_ACK" /\ Ack(p).tile = SpawnerTile[p]
  /\ \A p, q \in Procs : (SpawnerExit(p) = SpawnerExit(q) => p = q) /\ (Ack(p) = Ack(q) => p = q)
  /\ \A p, q \in Procs : SpawnerTile[p] = SpawnerTile[q] => p = q
<1>1. /\ "QUIT_SPAWNER" \in MessageTypes /\ "THREAD_EXIT" \in MessageTypes
      /\ "QUIT_SPAWNER_ACK" \in MessageTypes
  BY DEF MessageTypes
<1>2. Quit \in AllMessages /\ Quit.type = "QUIT_SPAWNER"
  BY <1>1, Messages DEF Quit
<1>3. ASSUME NEW p \in Procs
      PROVE  /\ SpawnerExit(p) \in AllMessages /\ SpawnerExit(p).type = "THREAD_EXIT"
             /\ SpawnerExit(p).tile = SpawnerTile[p]
             /\ Ack(p) \in AllMessages /\ Ack(p).type = "QUIT_SPAWNER_ACK" /\ Ack(p).tile = SpawnerTile[p]
  BY <1>1, Messages, Places DEF SpawnerExit, Ack
<1>4. \A p, q \in Procs : SpawnerTile[p] = SpawnerTile[q] => p = q
  BY Places
<1>5. \A p, q \in Procs : (SpawnerExit(p) = SpawnerExit(q) => p = q) /\ (Ack(p) = Ack(q) => p = q)
  <2>1. ASSUME NEW p \in Procs, NEW q \in Procs, SpawnerExit(p) = SpawnerExit(q)
        PROVE  p = q
    <3>1. SpawnerTile[p] = SpawnerTile[q]
      BY <1>3, <2>1
    <3> QED  BY <1>4, <3>1
  <2>2. ASSUME NEW p \in Procs, NEW q \in Procs, Ack(p) = Ack(q)
        PROVE  p = q
    <3>1. SpawnerTile[p] = SpawnerTile[q]
      BY <1>3, <2>2
    <3> QED  BY <1>4, <3>1
  <2> QED  BY <2>1, <2>2
<1> QED  BY <1>2, <1>3, <1>4, <1>5

LEMMA PlainMessages ==
  ASSUME NEW m, m.type \in PlainTypes
  PROVE  NoToken(m) /\ \A p, n : Sendable(p, n, m)'
<1>1. m.type \notin {"QUIT_SPAWNER", "QUIT_SPAWNER_ACK", "THREAD_EXIT", "MCP_REQUEST", "MCP_QUIT"}
  BY DEF PlainTypes
<1>2. NoToken(m)
  BY <1>1, Tokens DEF NoToken
<1>3. \A p, n : Sendable(p, n, m)'
  BY <1>1 DEF Sendable, Queueable
<1> QED  BY <1>2, <1>3

LEMMA ChanType ==
  ASSUME TypeOK, NEW p \in Procs, NEW n \in Nodes
  PROVE  chan[p][n] \in Seq(AllMessages)
<1>1. chan \in [Procs -> [Nodes -> Seq(AllMessages)]]
  BY DEF TypeOK
<1>2. chan[p] \in [Nodes -> Seq(AllMessages)]
  BY <1>1
<1> QED  BY <1>2

\* Transport's Send and Recv, channel by channel.
LEMMA SendEffect ==
  ASSUME TypeOK, NEW p \in Procs, NEW n, NEW msg \in AllMessages, Send(p, n, msg)
  PROVE  /\ chan' \in [Procs -> [Nodes -> Seq(AllMessages)]]
         /\ n \in Nodes => chan'[p][n] = Append(chan[p][n], msg)
         /\ \A q \in Procs, k \in Nodes : q # p \/ k # n => chan'[q][k] = chan[q][k]
<1>1. chan \in [Procs -> [Nodes -> Seq(AllMessages)]]
  BY DEF TypeOK
<1> DEFINE v == Append(chan[p][n], msg)
<1>2. chan' = [chan EXCEPT ![p][n] = v]
  BY DEF Send
<1>3. n \in Nodes => v \in Seq(AllMessages)
  BY ChanType, AppendOnce
<1>4. v = Append(chan[p][n], msg)
  OBVIOUS
<1> HIDE DEF v
<1>5. /\ chan' \in [Procs -> [Nodes -> Seq(AllMessages)]]
      /\ n \in Nodes => chan'[p][n] = v
      /\ \A q \in Procs, k \in Nodes : q # p \/ k # n => chan'[q][k] = chan[q][k]
  <2> DEFINE row == [chan[p] EXCEPT ![n] = v]
  <2>1. chan' = [chan EXCEPT ![p] = row]
    BY <1>2
  <2>2. chan[p] \in [Nodes -> Seq(AllMessages)]
    BY <1>1
  <2>3. /\ row \in [Nodes -> Seq(AllMessages)]
        /\ n \in Nodes => row[n] = v
        /\ \A k \in Nodes : k # n => row[k] = chan[p][k]
    BY <1>3, <2>2
  <2> HIDE DEF row
  <2> QED  BY <1>1, <2>1, <2>3
<1> QED  BY <1>4, <1>5

LEMMA RecvEffect ==
  ASSUME TypeOK, NEW p \in Procs, NEW n \in Nodes, Recv(p, n)
  PROVE  /\ chan' \in [Procs -> [Nodes -> Seq(AllMessages)]]
         /\ chan[p][n] \in Seq(AllMessages) /\ chan[p][n] # <<>>
         /\ chan'[p][n] = Tail(chan[p][n])
         /\ \A q \in Procs, k \in Nodes : q # p \/ k # n => chan'[q][k] = chan[q][k]
<1>1. chan \in [Procs -> [Nodes -> Seq(AllMessages)]]
  BY DEF TypeOK
<1> DEFINE v == Tail(chan[p][n])
<1>2. chan' = [chan EXCEPT ![p][n] = v] /\ chan[p][n] # <<>>
  BY DEF Recv
<1>3. chan[p][n] \in Seq(AllMessages) /\ v \in Seq(AllMessages)
  BY <1>2, ChanType, TailOnce
<1>4. v = Tail(chan[p][n])
  OBVIOUS
<1> HIDE DEF v
<1>5. /\ chan' \in [Procs -> [Nodes -> Seq(AllMessages)]]
      /\ chan'[p][n] = v
      /\ \A q \in Procs, k \in Nodes : q # p \/ k # n => chan'[q][k] = chan[q][k]
  BY <1>1, <1>2, <1>3, SMTT(60)
<1> QED  BY <1>2, <1>3, <1>4, <1>5

LEMMA SendFlows ==
  ASSUME TypeOK, NEW p \in Procs, NEW n, NEW msg \in AllMessages, Send(p, n, msg)
  PROVE  Flows({msg})
<1>1. ASSUME NEW q \in Procs, NEW k \in Nodes
      PROVE  chan'[q][k] = chan[q][k] \/ chan'[q][k] = Append(chan[q][k], msg)
  <2>1. CASE q = p /\ k = n
    BY <2>1, SendEffect
  <2>2. CASE q # p \/ k # n
    BY <2>2, SendEffect, SMTT(60)
  <2> QED  BY <2>1, <2>2
<1> QED  BY <1>1, SendEffect DEF Flows

LEMMA RecvFlows ==
  ASSUME TypeOK, NEW p \in Procs, NEW n \in Nodes, Recv(p, n)
  PROVE  Flows({})
<1>1. ASSUME NEW q \in Procs, NEW k \in Nodes
      PROVE  \/ chan'[q][k] = chan[q][k]
             \/ chan[q][k] # <<>> /\ chan'[q][k] = Tail(chan[q][k])
  <2>1. CASE q = p /\ k = n
    BY <2>1, RecvEffect
  <2>2. CASE q # p \/ k # n
    BY <2>2, RecvEffect
  <2> QED  BY <2>1, <2>2
<1> QED  BY <1>1, RecvEffect DEF Flows

LEMMA SendAllEffect ==
  ASSUME TypeOK, NEW p \in Procs, NEW out, NEW M \in SUBSET AllMessages,
         \A n \in DOMAIN out : out[n] \in M, SendAll(p, out)
  PROVE  /\ chan' \in [Procs -> [Nodes -> Seq(AllMessages)]]
         /\ \A n \in Nodes : n \in DOMAIN out => chan'[p][n] = Append(chan[p][n], out[n])
         /\ \A q \in Procs, n \in Nodes : q # p \/ n \notin DOMAIN out => chan'[q][n] = chan[q][n]
         /\ Flows(M)
<1> DEFINE row == [n \in Nodes |-> IF n \in DOMAIN out THEN Append(chan[p][n], out[n]) ELSE chan[p][n]]
<1>1. chan \in [Procs -> [Nodes -> Seq(AllMessages)]]
  BY DEF TypeOK
<1>2. chan' = [chan EXCEPT ![p] = row]
  BY DEF SendAll
<1>3. ASSUME NEW n \in Nodes
      PROVE  row[n] \in Seq(AllMessages)
  <2>1. chan[p][n] \in Seq(AllMessages)
    BY ChanType
  <2>2. n \in DOMAIN out => Append(chan[p][n], out[n]) \in Seq(AllMessages)
    BY <2>1, AppendOnce
  <2> QED  BY <2>1, <2>2
<1>4. /\ row \in [Nodes -> Seq(AllMessages)]
      /\ \A n \in Nodes : n \in DOMAIN out => row[n] = Append(chan[p][n], out[n])
      /\ \A n \in Nodes : n \notin DOMAIN out => row[n] = chan[p][n]
  BY <1>3
<1> HIDE DEF row
<1>5. /\ chan' \in [Procs -> [Nodes -> Seq(AllMessages)]] /\ chan'[p] = row
      /\ \A q \in Procs : q # p => chan'[q] = chan[q]
  BY <1>1, <1>2, <1>4
<1>6. ASSUME NEW q \in Procs, NEW n \in Nodes
      PROVE  \/ chan'[q][n] = chan[q][n]
             \/ \E m \in M : chan'[q][n] = Append(chan[q][n], m)
  BY <1>4, <1>5
<1>7. Flows(M)
  BY <1>5, <1>6 DEF Flows
<1> QED  BY <1>4, <1>5, <1>7

LEMMA QuietFlows ==
  ASSUME TypeOK, UNCHANGED chan
  PROVE  Flows({})
  BY DEF TypeOK, Flows

LEMMA FlowsKept ==
  ASSUME TypeOK, NEW M \in SUBSET AllMessages, Flows(M), NEW p \in Procs, NEW n \in Nodes
  PROVE  /\ \A m \in Range(chan'[p][n]) : m \in Range(chan[p][n]) \/ m \in M
         /\ \A m : m \notin M => Kept(chan[p][n], chan'[p][n], m)
<1>1. chan[p][n] \in Seq(AllMessages)
  BY ChanType
<1>2. CASE chan'[p][n] = chan[p][n]
  BY <1>2 DEF Kept
<1>3. CASE \E msg \in M : chan'[p][n] = Append(chan[p][n], msg)
  <2>1. PICK msg \in M : chan'[p][n] = Append(chan[p][n], msg)
    BY <1>3
  <2>2. msg \in AllMessages
    OBVIOUS
  <2>3. Range(chan'[p][n]) = Range(chan[p][n]) \cup {msg}
    BY <1>1, <2>1, <2>2, AppendOnce
  <2>4. \A m : m \notin M => Kept(chan[p][n], chan'[p][n], m)
    BY <1>1, <2>1, <2>2, KeptByChange
  <2> QED  BY <2>3, <2>4
<1>4. CASE chan[p][n] # <<>> /\ chan'[p][n] = Tail(chan[p][n])
  <2>1. Range(chan'[p][n]) \subseteq Range(chan[p][n])
    BY <1>1, <1>4, TailOnce
  <2>2. \A m : Kept(chan[p][n], chan'[p][n], m)
    BY <1>1, <1>4, KeptByChange
  <2> QED  BY <2>1, <2>2
<1> QED  BY <1>2, <1>3, <1>4 DEF Flows

LEMMA QuietKept ==
  ASSUME TypeOK, Flows({}), NEW p \in Procs, NEW n \in Nodes
  PROVE  Range(chan'[p][n]) \subseteq Range(chan[p][n]) /\ \A m : Kept(chan[p][n], chan'[p][n], m)
<1>1. {} \in SUBSET AllMessages
  OBVIOUS
<1>2. /\ \A m \in Range(chan'[p][n]) : m \in Range(chan[p][n]) \/ m \in {}
      /\ \A m : m \notin {} => Kept(chan[p][n], chan'[p][n], m)
  BY <1>1, FlowsKept
<1> QED  BY <1>2

-----------------------------------------------------------------------------
(* What the parts of the invariant rest on *)

\* Packets come from where PacketsOK already holds.
LEMMA PacketsKept ==
  ASSUME PacketsOK, Ending => Ending',
         \A p \in Procs, n \in Nodes : \A msg \in Range(chan'[p][n]) :
            msg \in Range(chan[p][n]) \/ Sendable(p, n, msg)',
         \A t \in Tiles : \A msg \in Range(inbox'[t].queue) :
            \/ msg \in Range(inbox[t].queue)
            \/ \E p \in Procs, n \in Nodes : msg \in Range(chan[p][n]),
         \A t \in Tiles : inbox'[t].rx = "got" =>
            \/ inbox[t].rx = "got" /\ inbox'[t].got = inbox[t].got
            \/ inbox'[t].got \in Range(inbox[t].queue) /\ inbox'[t].got \in AllMessages
  PROVE  PacketsOK'
<1>1. ASSUME NEW msg, Queueable(msg)
      PROVE  Queueable(msg)'
  BY <1>1 DEF Queueable
<1>2. ASSUME NEW p \in Procs, NEW n \in Nodes, NEW msg, Sendable(p, n, msg)
      PROVE  Sendable(p, n, msg)' /\ Queueable(msg)'
  BY <1>1, <1>2 DEF Sendable, Quit, Home
<1>3. ASSUME NEW p \in Procs, NEW n \in Nodes, NEW msg \in Range(chan'[p][n])
      PROVE  Sendable(p, n, msg)'
  BY <1>2, <1>3 DEF PacketsOK
<1>4. ASSUME NEW t \in Tiles, NEW msg \in Range(inbox'[t].queue)
      PROVE  Queueable(msg)'
  <2>1. CASE msg \in Range(inbox[t].queue)
    BY <1>1, <2>1 DEF PacketsOK
  <2>2. CASE \E p \in Procs, n \in Nodes : msg \in Range(chan[p][n])
    BY <1>2, <2>2 DEF PacketsOK
  <2> QED  BY <1>4, <2>1, <2>2
<1>5. ASSUME NEW t \in Tiles, inbox'[t].rx = "got"
      PROVE  inbox'[t].got \in AllMessages /\ Queueable(inbox[t].got)'
  BY <1>1, <1>5 DEF PacketsOK
<1> QED  BY <1>3, <1>4, <1>5 DEF PacketsOK

\* The token of a spawner stays where it is, or gets lost.
LEMMA SpawnerKept ==
  ASSUME NEW p \in Procs, SpawnerOK(p), spawner'[p] = spawner[p], Early' => Early,
         Kept(ToLCP(p), ToLCP(p)', Quit),
         Kept(ToMCP(p), ToMCP(p)', SpawnerExit(p)),
         Kept(inbox[MCPTile].queue, inbox'[MCPTile].queue, SpawnerExit(p)),
         Kept(ToLCP(0), ToLCP(0)', Ack(p)), Served(p)' => Served(p)
  PROVE  SpawnerOK(p)' /\ (p \in Counted => p \in Counted')
<1>1. (Asked(p)' => Asked(p)) /\ (Once(ToLCP(p), Quit) => Once(ToLCP(p), Quit)')
  BY DEF Kept, Asked, Quit, Once, Message
<1>2. /\ Sent(p)' => Sent(p)
      /\ Once(ToMCP(p), SpawnerExit(p)) => Once(ToMCP(p), SpawnerExit(p))'
  BY DEF Kept, Sent, SpawnerExit, Once, About
<1>3. /\ Queued(p)' => Queued(p)
      /\ Once(inbox[MCPTile].queue, SpawnerExit(p)) => Once(inbox[MCPTile].queue, SpawnerExit(p))'
  BY DEF Kept, Queued, SpawnerExit, Once, About
<1>4. (Acked(p)' => Acked(p)) /\ (Once(ToLCP(0), Ack(p)) => Once(ToLCP(0), Ack(p))')
  BY DEF Kept, Acked, Ack, Once, About
<1>5. InOnePlace(p)'
  BY <1>1, <1>2, <1>3, <1>4 DEF SpawnerOK, InOnePlace
<1>6. SpawnerOK(p)'
  BY <1>1, <1>2, <1>3, <1>4, <1>5 DEF SpawnerOK
<1>7. p \in Counted => p \in Counted'
  BY <1>2, <1>3, <1>4 DEF Counted
<1> QED  BY <1>6, <1>7

\* The spawners counted are finitely many, and more are no fewer.
LEMMA CountGrows ==
  /\ NumProcs \in Nat /\ IsFiniteSet(Procs) /\ Cardinality(Procs) = NumProcs
  /\ Cardinality(Counted) \in Nat /\ Cardinality(Counted') \in Nat
  /\ (\A p \in Procs : p \in Counted => p \in Counted') => Cardinality(Counted) <= Cardinality(Counted')
  /\ \A q \in Procs :
        q \notin Counted /\ q \in Counted' /\ (\A p \in Procs : p \in Counted => p \in Counted')
           => Cardinality(Counted) + 1 <= Cardinality(Counted')
<1>1. NumProcs \in Nat /\ IsFiniteSet(Procs) /\ Cardinality(Procs) = NumProcs
  <2>1. NumProcs \in Nat \ {0}
    BY ProcAssumption
  <2>2. 0 \in Int /\ NumProcs - 1 \in Int
    BY <2>1, SMTT(60)
  <2>3. IsFiniteSet(0 .. NumProcs - 1)
        /\ Cardinality(0 .. NumProcs - 1) = IF 0 > NumProcs - 1 THEN 0 ELSE NumProcs - 1 - 0 + 1
    BY <2>2, FS_Interval, SMTT(60)
  <2> QED  BY <2>1, <2>3, SMTT(60) DEF Procs
<1>2. Counted \subseteq Procs /\ Counted' \subseteq Procs
  BY DEF Counted
<1>3. IsFiniteSet(Counted) /\ IsFiniteSet(Counted')
  BY <1>1, <1>2, FS_Subset
<1>4. Cardinality(Counted) \in Nat /\ Cardinality(Counted') \in Nat
  BY <1>3, FS_CardinalityType
<1>5. ASSUME \A p \in Procs : p \in Counted => p \in Counted'
      PROVE  Counted \subseteq Counted' /\ Cardinality(Counted) <= Cardinality(Counted')
  <2>1. Counted \subseteq Counted'
    BY <1>2, <1>5
  <2>2. Cardinality(Counted) <= Cardinality(Counted')
    BY <1>3, <2>1, FS_Subset
  <2> QED  BY <2>1, <2>2
<1>6. ASSUME NEW q \in Procs, q \notin Counted, q \in Counted',
             \A p \in Procs : p \in Counted => p \in Counted'
      PROVE  Cardinality(Counted) + 1 <= Cardinality(Counted')
  <2>1. Counted \cup {q} \subseteq Counted'
    BY <1>5, <1>6
  <2>2. Cardinality(Counted \cup {q}) = Cardinality(Counted) + 1
    BY <1>3, <1>6, FS_AddElement
  <2>3. Cardinality(Counted \cup {q}) <= Cardinality(Counted')
    BY <1>3, <2>1, FS_Subset
  <2> QED  BY <2>2, <2>3
<1> QED  BY <1>1, <1>4, <1>5, <1>6

\* A step that counts no spawner.
LEMMA CountedStep ==
  ASSUME HostInv, TypeOK', PacketsOK', MainMoves, mcp'.pc = "done" => Ending', terminated' = terminated,
         \A p \in Procs : SpawnerOK(p)' /\ (p \in Counted => p \in Counted')
  PROVE  HostInv'
<1>1. terminated \in Nat /\ CountOK
  BY DEF HostInv, TypeOK
<1>2. /\ Cardinality(Counted) \in Nat /\ Cardinality(Counted') \in Nat
      /\ Cardinality(Counted) <= Cardinality(Counted')
  BY CountGrows
<1>3. terminated <= Cardinality(Counted')
  BY <1>1, <1>2, SMTT(60) DEF CountOK
<1>4. ~ Counting' => terminated >= NumProcs - 1
  BY <1>1 DEF CountOK, MainMoves
<1>5. CountOK'
  BY <1>3, <1>4 DEF CountOK
<1>6. EndsLate'
  BY DEF EndsLate, MainMoves
<1> QED  BY <1>5, <1>6 DEF HostInv

\* A spawner whose token no message of the step is.
LEMMA OthersKept ==
  ASSUME HostInv, NEW p \in Procs, spawner'[p] = spawner[p], Early' => Early,
         NEW M \in SUBSET AllMessages, Flows(M),
         Quit \notin M, SpawnerExit(p) \notin M, Ack(p) \notin M,
         Kept(inbox[MCPTile].queue, inbox'[MCPTile].queue, SpawnerExit(p)), Served(p)' => Served(p)
  PROVE  SpawnerOK(p)' /\ (p \in Counted => p \in Counted')
<1>1. /\ 0 \in Procs /\ Tile(MCPTile) \in Nodes /\ Global(p) \in Nodes /\ Global(0) \in Nodes
      /\ TypeOK /\ SpawnerOK(p)
  BY Places DEF HostInv
<1>2. Kept(ToLCP(p), ToLCP(p)', Quit) /\ Kept(ToLCP(0), ToLCP(0)', Ack(p))
  BY <1>1, FlowsKept DEF ToLCP, Global
<1>3. Kept(ToMCP(p), ToMCP(p)', SpawnerExit(p))
  BY <1>1, FlowsKept DEF ToMCP, Tile
<1> QED  BY <1>1, <1>2, <1>3, SpawnerKept

\* A step that moves no token.
LEMMA SteadyStep ==
  ASSUME HostInv, TypeOK', MainMoves, mcp'.pc = "done" => Ending', UNCHANGED <<spawner, terminated>>,
         InboxesRest, NEW M \in SUBSET AllMessages, Flows(M), \A m \in M : NoToken(m),
         \A p \in Procs, n \in Nodes : \A m \in Range(chan'[p][n]) :
            m \in Range(chan[p][n]) \/ Sendable(p, n, m)'
  PROVE  HostInv'
<1>1. TypeOK /\ PacketsOK /\ \A p \in Procs : SpawnerOK(p)
  BY DEF HostInv
<1>2. PacketsOK'
  <2>1. \A t \in Tiles : inbox'[t].queue = inbox[t].queue
    BY DEF InboxesRest
  <2>2. \A t \in Tiles : inbox'[t].rx = "got" => inbox[t].rx = "got" /\ inbox'[t].got = inbox[t].got
    BY DEF InboxesRest
  <2>3. Ending => Ending'
    BY DEF MainMoves
  <2> QED  BY <1>1, <2>1, <2>2, <2>3, PacketsKept
<1>3. ASSUME NEW p \in Procs
      PROVE  SpawnerOK(p)' /\ (p \in Counted => p \in Counted')
  <2>1. MCPTile \in Tiles
    BY Places
  <2>2. Quit \notin M /\ SpawnerExit(p) \notin M /\ Ack(p) \notin M
    BY DEF NoToken
  <2>3. Kept(inbox[MCPTile].queue, inbox'[MCPTile].queue, SpawnerExit(p))
    BY <2>1 DEF Kept, InboxesRest
  <2>4. Served(p)' => Served(p)
    BY <2>1 DEF InboxesRest, Served, Returned, SpawnerExit, About
  <2>5. Early' => Early
    BY DEF MainMoves
  <2> QED  BY <2>2, <2>3, <2>4, <2>5, OthersKept
<1> QED  BY <1>2, <1>3, CountedStep

\* One that sends what may be sent to any node.
LEMMA PlainStep ==
  ASSUME HostInv, TypeOK', MainMoves, mcp'.pc = "done" => Ending', UNCHANGED <<spawner, terminated>>,
         InboxesRest, NEW M \in SUBSET AllMessages, Flows(M),
         \A m \in M : NoToken(m) /\ \A p, n : Sendable(p, n, m)'
  PROVE  HostInv'
<1>1. TypeOK
  BY DEF HostInv
<1>2. ASSUME NEW p \in Procs, NEW n \in Nodes, NEW m \in Range(chan'[p][n])
      PROVE  m \in Range(chan[p][n]) \/ Sendable(p, n, m)'
  BY <1>1, <1>2, FlowsKept
<1> QED  BY <1>2, SteadyStep

\* One of another thread than main.
LEMMA MainRests ==
  ASSUME HostInv, UNCHANGED main
  PROVE  MainMoves /\ (Ending => Ending')
  BY DEF HostInv, EndsLate, MainMoves, Early, Counting, Ending

LEMMA RestsStep ==
  ASSUME HostInv, TypeOK', UNCHANGED <<main, spawner, terminated>>, mcp'.pc = "done" => Ending,
         InboxesRest, NEW M \in SUBSET AllMessages, Flows(M), \A m \in M : m.type \in PlainTypes
  PROVE  HostInv'
<1>1. MainMoves /\ (mcp'.pc = "done" => Ending')
  BY MainRests
<1>2. \A m \in M : NoToken(m) /\ \A p, n : Sendable(p, n, m)'
  BY PlainMessages
<1> QED  BY <1>1, <1>2, PlainStep

\* netRecv sets out, waits or is done.
LEMMA InboxEffect ==
  ASSUME TypeOK, NEW t \in Tiles, NEW r \in InboxRec, inbox' = [inbox EXCEPT ![t] = r],
         r.queue = inbox[t].queue, r.rx = "got" => inbox[t].rx = "got" /\ r.got = inbox[t].got
  PROVE  InboxesRest /\ inbox' \in [Tiles -> InboxRec]
<1>1. inbox \in [Tiles -> InboxRec]
  BY DEF TypeOK
<1>2. inbox'[t] = r /\ \A u \in Tiles : u # t => inbox'[u] = inbox[u]
  BY <1>1
<1> QED  BY <1>1, <1>2 DEF InboxesRest

LEMMA TookEffect ==
  ASSUME TypeOK, NEW t \in Tiles, NEW rx \in {"out", "scan"}, inbox' = Took(t, rx)
  PROVE  InboxesRest /\ inbox' \in [Tiles -> InboxRec] /\ inbox'[t].rx = rx
<1> DEFINE r == [inbox[t] EXCEPT !.rx = rx, !.got = NULL]
<1>1. inbox \in [Tiles -> InboxRec] /\ inbox[t] \in InboxRec
  BY DEF TypeOK
<1>2. inbox' = [inbox EXCEPT ![t] = r]
  BY <1>1 DEF Took
<1>3. r \in InboxRec /\ r.queue = inbox[t].queue /\ r.rx # "got" /\ r.rx = rx
  BY <1>1 DEF InboxRec
<1> HIDE DEF r
<1>4. inbox'[t] = r
  BY <1>1, <1>2
<1> QED  BY <1>2, <1>3, <1>4, InboxEffect

-----------------------------------------------------------------------------
(* The main thread *)

LEMMA GoesEffect ==
  ASSUME TypeOK, NEW p \in Procs, NEW pc \in MainPCs, Goes(p, pc)
  PROVE  /\ main' \in [Procs -> MainRec]
         /\ main'[p].pc = pc /\ main'[p].requests = main[p].requests
         /\ \A q \in Procs \ {p} : main'[q] = main[q]
<1>1. main \in [Procs -> MainRec]
  BY DEF TypeOK
<1> DEFINE r == [main[p] EXCEPT !.pc = pc]
<1>2. main' = [main EXCEPT ![p] = r]
  BY DEF Goes
<1>3. r \in MainRec /\ r.pc = pc /\ r.requests = main[p].requests
  BY <1>1 DEF MainRec
<1> HIDE DEF r
<1> QED  BY <1>1, <1>2, <1>3

\* In ~Simulator.
LEMMA LateMoves ==
  ASSUME HostInv, NEW p \in Procs, main[p].pc \notin {"app", "await", "exit", "spawners"},
         NEW pc \in {"acks", "endMCP", "mcpWait", "endLCP", "lcpWait", "barrier", "inBarrier", "quit",
                     "delete", "done"},
         Goes(p, pc), pc = "endMCP" => main[p].pc \in {"spawner", "acks"},
         pc = "acks" => main[p].pc = "finish"
  PROVE  MainMoves /\ main' \in [Procs -> MainRec] /\ main'[p].pc = pc
<1>1. TypeOK /\ EndsLate /\ 0 \in Procs
  BY Places DEF HostInv
<1>2. pc \in MainPCs
  BY DEF MainPCs
<1>3. /\ main' \in [Procs -> MainRec]
      /\ main'[p].pc = pc /\ main'[p].requests = main[p].requests
      /\ \A q \in Procs \ {p} : main'[q] = main[q]
  BY <1>1, <1>2, GoesEffect
<1>4. CASE p = 0
  <2>1. ~ Early' /\ ~ Counting /\ main'[0].requests = 0
    BY <1>1, <1>3, <1>4 DEF EndsLate, Early, Counting
  <2>2. Ending => Ending'
    BY <1>3, <1>4 DEF Ending, Counting, Early
  <2> QED  BY <1>3, <2>1, <2>2 DEF MainMoves
<1>5. CASE p # 0
  <2>1. main'[0] = main[0]
    BY <1>1, <1>3, <1>5
  <2> QED  BY <1>1, <1>3, <2>1 DEF MainMoves, EndsLate, Early, Counting, Ending
<1> QED  BY <1>4, <1>5

LEMMA LateStep ==
  ASSUME HostInv, NEW p \in Procs, main[p].pc \notin {"app", "await", "exit", "spawners"},
         NEW pc \in {"acks", "endMCP", "mcpWait", "endLCP", "lcpWait", "barrier", "inBarrier", "quit",
                     "delete", "done"},
         Goes(p, pc), pc = "endMCP" => main[p].pc \in {"spawner", "acks"},
         pc = "acks" => main[p].pc = "finish",
         UNCHANGED <<spawner, terminated, mcp, tileVars>>, NEW M \in SUBSET AllMessages, Flows(M),
         \A m \in M : m.type \in PlainTypes \/ (m.type = "MCP_QUIT" /\ p = 0 /\ pc = "mcpWait")
  PROVE  HostInv'
<1>1. TypeOK /\ EndsLate
  BY DEF HostInv
<1>2. MainMoves /\ main' \in [Procs -> MainRec] /\ main'[p].pc = pc
  BY LateMoves
<1>3. TypeOK'
  BY <1>1, <1>2 DEF TypeOK, Flows, tileVars
<1>4. InboxesRest
  BY DEF tileVars, InboxesRest
<1>5. mcp'.pc = "done" => Ending'
  BY <1>1, <1>2 DEF EndsLate, MainMoves
<1>6. ASSUME NEW m \in M
      PROVE  NoToken(m) /\ \A q, n : Sendable(q, n, m)'
  <2>1. CASE m.type \in PlainTypes
    BY <2>1, PlainMessages
  <2>2. CASE m.type = "MCP_QUIT" /\ p = 0 /\ pc = "mcpWait"
    <3>1. NoToken(m)
      BY <2>2, Tokens DEF NoToken
    <3>2. Ending'
      BY <1>2, <2>2 DEF Ending, Counting, Early
    <3> QED  BY <2>2, <3>1, <3>2 DEF Sendable, Queueable
  <2> QED  BY <2>1, <2>2
<1> QED  BY <1>2, <1>3, <1>4, <1>5, <1>6, PlainStep

\* What the steps of ~Simulator and the LCP send.
LEMMA PlainSends ==
  ASSUME NEW type \in {"COMM_ID_UPDATE", "FINISHED", "FINISHED_ACK", "LCP_QUIT", "COMM_ID_REPLY",
                       "MCP_RESPONSE", "EXIT_REPLY", "TERMINATE_THREADS"}
  PROVE  Message(type) \in AllMessages /\ Message(type).type \in PlainTypes
<1>1. type \in PlainTypes /\ type \in MessageTypes
  BY DEF PlainTypes, MessageTypes
<1> QED  BY <1>1, Messages

LEMMA SendAllPlain ==
  ASSUME TypeOK, NEW p \in Procs, NEW N, NEW type \in {"FINISHED", "TERMINATE_THREADS"},
         SendAll(p, [n \in N |-> Message(type)])
  PROVE  \E M \in SUBSET AllMessages : Flows(M) /\ \A m \in M : m.type \in PlainTypes
<1> DEFINE out == [n \in N |-> Message(type)]
           M == {Message(type)}
<1>1. Message(type) \in AllMessages /\ Message(type).type \in PlainTypes
  BY PlainSends
<1>2. M \in SUBSET AllMessages /\ (\A m \in M : m.type \in PlainTypes) /\ \A n \in DOMAIN out : out[n] \in M
  BY <1>1
<1>3. SendAll(p, out)
  OBVIOUS
<1> HIDE DEF out, M
<1>4. Flows(M)
  BY <1>2, <1>3, SendAllEffect
<1> QED  BY <1>2, <1>4

\* The steps of ~Simulator.
LEMMA MainEndsStep ==
  ASSUME HostInv, NEW p \in Procs,
         (MainSpins(p) /\ main[p].pc # "spawners") \/ EndMCP(p) \/ EndLCP(p) \/ MainEnters(p)
           \/ MainLeaves(p) \/ QuitSimThreads(p) \/ Deletes(p) \/ (p = 0 /\ BroadcastFinish)
  PROVE  HostInv'
<1>1. TypeOK
  BY DEF HostInv
<1>2. UNCHANGED chan => Flows({})
  BY <1>1, QuietFlows
<1>3. {} \in SUBSET AllMessages /\ \A m \in {} : m.type \in PlainTypes
  OBVIOUS
<1>4. CASE MainSpins(p) /\ main[p].pc # "spawners"
  <2>1. PICK pc \in {"endMCP", "endLCP", "barrier"} :
          /\ Goes(p, pc) /\ main[p].pc \notin {"app", "await", "exit", "spawners"}
          /\ pc = "endMCP" => main[p].pc \in {"spawner", "acks"}
    <3>1. main[p].pc \in {"spawner", "acks", "mcpWait", "lcpWait"}
      BY <1>4 DEF MainSpins
    <3>2. \E pc \in {"endMCP", "endLCP", "barrier"} :
            Goes(p, pc) /\ (pc = "endMCP" => main[p].pc \in {"spawner", "acks"})
      BY <1>4 DEF MainSpins
    <3> QED  BY <3>1, <3>2
  <2>2. UNCHANGED <<spawner, terminated, mcp, tileVars>> /\ UNCHANGED chan
    BY <1>4 DEF MainSpins, transportVars, lcpVars
  <2> QED  BY <1>2, <1>3, <2>1, <2>2, LateStep
<1>5. CASE EndMCP(p)
  <2>1. main[p].pc = "endMCP" /\ UNCHANGED <<spawner, terminated, mcp, tileVars>>
    BY <1>5 DEF EndMCP, lcpVars
  <2>2. CASE Home(MCPTile) = p /\ Send(p, Tile(MCPTile), Message("MCP_QUIT")) /\ Goes(p, "mcpWait")
    <3>1. Message("MCP_QUIT") \in AllMessages /\ Message("MCP_QUIT").type = "MCP_QUIT"
      BY Messages DEF MessageTypes
    <3>2. Flows({Message("MCP_QUIT")})
      BY <1>1, <2>2, <3>1, SendFlows
    <3>3. p = 0
      BY <2>2, Places
    <3>4. /\ {Message("MCP_QUIT")} \in SUBSET AllMessages
          /\ \A m \in {Message("MCP_QUIT")} : m.type = "MCP_QUIT"
      BY <3>1
    <3> QED  BY <2>1, <2>2, <3>2, <3>3, <3>4, LateStep
  <2>3. CASE Goes(p, "endLCP") /\ UNCHANGED transportVars
    <3>1. Flows({})
      BY <1>2, <2>3 DEF transportVars
    <3> QED  BY <1>3, <2>1, <2>3, <3>1, LateStep
  <2> QED  BY <1>5, <2>2, <2>3 DEF EndMCP
<1>6. CASE EndLCP(p)
  <2>1. /\ main[p].pc = "endLCP" /\ Goes(p, "lcpWait")
        /\ UNCHANGED <<spawner, terminated, mcp, tileVars>>
    BY <1>6 DEF EndLCP, lcpVars
  <2>2. Message("LCP_QUIT") \in AllMessages /\ Message("LCP_QUIT").type \in PlainTypes
    BY PlainSends
  <2>3. Flows({Message("LCP_QUIT")})
    BY <1>1, <1>6, <2>2, SendFlows DEF EndLCP
  <2>4. /\ {Message("LCP_QUIT")} \in SUBSET AllMessages
        /\ \A m \in {Message("LCP_QUIT")} : m.type \in PlainTypes
    BY <2>2
  <2> QED  BY <2>1, <2>3, <2>4, LateStep
<1>7. CASE MainEnters(p) \/ MainLeaves(p) \/ Deletes(p)
  <2>1. PICK pc \in {"inBarrier", "quit", "delete", "done"} : Goes(p, pc)
    BY <1>7 DEF MainEnters, MainLeaves, Deletes
  <2>2. /\ main[p].pc \notin {"app", "await", "exit", "spawners"}
        /\ UNCHANGED <<spawner, terminated, mcp, tileVars>> /\ UNCHANGED chan
    BY <1>7 DEF MainEnters, MainLeaves, Deletes, Enter, Leave, transportVars, lcpVars
  <2> QED  BY <1>2, <1>3, <2>1, <2>2, LateStep
<1>8. CASE QuitSimThreads(p)
  <2>1. /\ main[p].pc = "quit" /\ Goes(p, "barrier")
        /\ UNCHANGED <<spawner, terminated, mcp, tileVars>>
    BY <1>8 DEF QuitSimThreads, lcpVars
  <2>2. PICK M \in SUBSET AllMessages : Flows(M) /\ \A m \in M : m.type \in PlainTypes
    BY <1>1, <1>8, SendAllPlain DEF QuitSimThreads
  <2> QED  BY <2>1, <2>2, LateStep
<1>9. CASE p = 0 /\ BroadcastFinish
  <2>1. /\ main[p].pc = "finish" /\ Goes(p, "acks")
        /\ UNCHANGED <<spawner, terminated, mcp, tileVars>>
    BY <1>9 DEF BroadcastFinish
  <2>2. PICK M \in SUBSET AllMessages : Flows(M) /\ \A m \in M : m.type \in PlainTypes
    BY <1>1, <1>9, SendAllPlain DEF BroadcastFinish
  <2> QED  BY <2>1, <2>2, LateStep
<1> QED  BY <1>4, <1>5, <1>6, <1>7, <1>8, <1>9

\* terminateThreadSpawners returns.
LEMMA CountsStep ==
  ASSUME HostInv, NEW p \in Procs, MainSpins(p), main[p].pc = "spawners"
  PROVE  HostInv'
<1>1. TypeOK /\ EndsLate /\ 0 \in Procs /\ NumProcs \in Nat
  BY Places, CountGrows DEF HostInv
<1>2. terminated = NumProcs - 1 /\ Goes(p, "finish") /\ UNCHANGED <<chan, spawner, terminated, mcp, tileVars>>
  BY DEF MainSpins, transportVars, lcpVars
<1>3. "finish" \in MainPCs
  BY DEF MainPCs
<1>4. /\ main' \in [Procs -> MainRec]
      /\ main'[p].pc = "finish" /\ main'[p].requests = main[p].requests
      /\ \A q \in Procs \ {p} : main'[q] = main[q]
  BY <1>1, <1>2, <1>3, GoesEffect
<1>5. terminated >= NumProcs - 1
  BY <1>1, <1>2, SMTT(60)
<1>6. MainMoves
  <2>1. CASE p = 0
    BY <1>1, <1>4, <1>5, <2>1 DEF MainMoves, EndsLate, Early, Counting, Ending
  <2>2. CASE p # 0
    <3>1. main'[0] = main[0]
      BY <1>1, <1>4, <2>2
    <3> QED  BY <1>1, <3>1 DEF MainMoves, EndsLate, Early, Counting, Ending
  <2> QED  BY <2>1, <2>2
<1>7. Flows({}) /\ InboxesRest
  BY <1>1, <1>2, QuietFlows DEF InboxesRest, tileVars
<1>8. TypeOK' /\ (mcp'.pc = "done" => Ending')
  BY <1>1, <1>2, <1>4, <1>6 DEF TypeOK, EndsLate, MainMoves, tileVars
<1>9. {} \in SUBSET AllMessages /\ \A m \in {} : NoToken(m) /\ \A q, n : Sendable(q, n, m)'
  OBVIOUS
<1> QED  BY <1>2, <1>6, <1>7, <1>8, <1>9, PlainStep

\* Main asks the MCP, is answered, exits.
LEMMA AsksStep ==
  ASSUME HostInv, MainRequests \/ MainAnswered \/ MainExits
  PROVE  HostInv'
<1>1. TypeOK /\ EndsLate /\ 0 \in Procs /\ MainTile \in Tiles /\ Tile(MCPTile) \in Nodes
  BY Places DEF HostInv
<1>2. UNCHANGED <<spawner, terminated, mcp, sim>> /\ ~ Ending /\ ~ (mcp.pc = "done")
  BY <1>1 DEF MainRequests, MainAnswered, MainExits, lcpVars, Ending, Counting, Early, EndsLate
<1>3. InboxesRest /\ inbox' \in [Tiles -> InboxRec]
  <2>1. PICK rx \in {"out", "scan"} : inbox' = Took(MainTile, rx)
    BY DEF MainRequests, MainAnswered, MainExits
  <2> QED  BY <1>1, <2>1, TookEffect
<1>4. ASSUME main' \in [Procs -> MainRec], MainMoves, NEW M \in SUBSET AllMessages, Flows(M),
             \A m \in M : NoToken(m),
             \A p \in Procs, n \in Nodes : \A m \in Range(chan'[p][n]) :
                m \in Range(chan[p][n]) \/ Sendable(p, n, m)'
      PROVE  HostInv'
  <2>1. TypeOK'
    BY <1>1, <1>2, <1>3, <1>4 DEF TypeOK, Flows
  <2> QED  BY <1>2, <1>3, <1>4, <2>1, SteadyStep
<1>5. CASE MainRequests
  <2> DEFINE r == [main[0] EXCEPT !.pc = "await", !.requests = @ - 1]
             msg == About(MainTile, "MCP_REQUEST")
  <2>1. main \in [Procs -> MainRec] /\ main[0] \in MainRec
    BY <1>1 DEF TypeOK
  <2>2. main' = [main EXCEPT ![0] = r] /\ main[0].pc = "app" /\ main[0].requests > 0
    BY <1>5, <2>1 DEF MainRequests
  <2>3. main[0].requests - 1 \in Nat
    <3>1. main[0].requests \in Nat
      BY <2>1 DEF MainRec
    <3> QED  BY <2>2, <3>1, SMTT(60)
  <2>4. r \in MainRec /\ r.pc = "await"
    BY <2>1, <2>3 DEF MainRec, MainPCs
  <2> HIDE DEF r
  <2>5. main' \in [Procs -> MainRec] /\ main'[0].pc = "await"
    BY <1>1, <2>1, <2>2, <2>4
  <2>6. MainMoves
    BY <1>2, <2>2, <2>5 DEF MainMoves, Early, Counting
  <2>7. msg \in AllMessages /\ msg.type = "MCP_REQUEST" /\ msg.tile \in Tiles
    BY <1>1, Messages DEF MessageTypes
  <2>8. Flows({msg})
    BY <1>1, <1>5, <2>7, SendFlows DEF MainRequests
  <2> HIDE DEF msg
  <2>9. NoToken(msg) /\ \A p, n : Sendable(p, n, msg)'
    BY <2>7, Tokens DEF NoToken, Sendable, Queueable
  <2>10. ASSUME NEW p \in Procs, NEW n \in Nodes, NEW m \in Range(chan'[p][n])
         PROVE  m \in Range(chan[p][n]) \/ Sendable(p, n, m)'
    <3>1. {msg} \in SUBSET AllMessages
      BY <2>7
    <3>2. m \in Range(chan[p][n]) \/ m \in {msg}
      BY <1>1, <2>8, <2>10, <3>1, FlowsKept
    <3> QED  BY <2>9, <3>2
  <2> QED  BY <1>4, <2>5, <2>6, <2>7, <2>8, <2>9, <2>10
<1>6. CASE MainAnswered
  <2>1. main[0].pc = "await" /\ Goes(0, "app") /\ UNCHANGED chan /\ "app" \in MainPCs
    BY <1>6 DEF MainAnswered, transportVars, MainPCs
  <2>2. main' \in [Procs -> MainRec] /\ main'[0].pc = "app"
    BY <1>1, <2>1, GoesEffect
  <2>3. MainMoves
    BY <1>2, <2>1, <2>2 DEF MainMoves, Early, Counting
  <2>4. Flows({})
    BY <1>1, <2>1, QuietFlows
  <2>5. \A p \in Procs, n \in Nodes : \A m \in Range(chan'[p][n]) : m \in Range(chan[p][n])
    BY <2>1
  <2> QED  BY <1>4, <2>2, <2>3, <2>4, <2>5
<1>7. CASE MainExits
  <2> DEFINE msg == About(MainTile, "THREAD_EXIT")
  <2>1. main[0].pc = "app" /\ main[0].requests = 0 /\ Goes(0, "exit") /\ "exit" \in MainPCs
    BY <1>7 DEF MainExits, MainPCs
  <2>2. main' \in [Procs -> MainRec] /\ main'[0].pc = "exit" /\ main'[0].requests = 0
    BY <1>1, <2>1, GoesEffect
  <2>3. MainMoves
    BY <1>2, <2>1, <2>2 DEF MainMoves, Early, Counting
  <2>4. msg \in AllMessages /\ msg.type = "THREAD_EXIT" /\ msg.tile = MainTile
    BY <1>1, Messages DEF MessageTypes
  <2>5. Flows({msg})
    BY <1>1, <1>7, <2>4, SendFlows DEF MainExits
  <2>6. Send(0, Tile(MCPTile), msg)
    BY <1>7 DEF MainExits
  <2> HIDE DEF msg
  <2>7. NoToken(msg)
    <3>1. \A p \in Procs : SpawnerTile[p] # MainTile
      BY Places DEF SpawnerTiles
    <3> QED  BY <2>4, <3>1, Tokens DEF NoToken
  <2>8. ASSUME NEW p \in Procs, NEW n \in Nodes, NEW m \in Range(chan'[p][n])
        PROVE  m \in Range(chan[p][n]) \/ Sendable(p, n, m)'
    <3>1. CASE p = 0 /\ n = Tile(MCPTile)
      <4>1. {msg} \in SUBSET AllMessages
        BY <2>4
      <4>2. m \in Range(chan[p][n]) \/ m \in {msg}
        BY <1>1, <2>5, <2>8, <4>1, FlowsKept
      <4>3. Sendable(p, n, msg)'
        <5>1. Home(MainTile) = 0
          BY TileAssumption
        <5> QED  BY <1>1, <2>4, <3>1, <5>1 DEF Sendable, Queueable, Home, Tile
      <4> QED  BY <4>2, <4>3
    <3>2. CASE p # 0 \/ n # Tile(MCPTile)
      <4>1. chan'[p][n] = chan[p][n]
        BY <1>1, <2>4, <2>6, <3>2, SendEffect
      <4> QED  BY <2>8, <4>1
    <3> QED  BY <3>1, <3>2
  <2> QED  BY <1>4, <2>2, <2>3, <2>4, <2>5, <2>7, <2>8
<1> QED  BY <1>5, <1>6, <1>7

\* terminateThreadSpawners tells every spawner to quit.
LEMMA TerminateStep ==
  ASSUME HostInv, TerminateThreadSpawners
  PROVE  HostInv'
<1> DEFINE out == [n \in {Global(q) : q \in Procs} |-> Message("QUIT_SPAWNER")]
<1>1. /\ TypeOK /\ EndsLate /\ PacketsOK /\ 0 \in Procs /\ MainTile \in Tiles /\ MCPTile \in Tiles
      /\ Tile(MCPTile) \in Nodes /\ Global(0) \in Nodes
  BY Places DEF HostInv
<1>2. /\ UNCHANGED <<spawner, terminated, mcp, sim>> /\ main[0].pc = "exit"
      /\ Goes(0, "spawners") /\ inbox' = Took(MainTile, "out") /\ SendAll(0, out)
  BY DEF TerminateThreadSpawners, lcpVars
<1>3. InboxesRest /\ inbox' \in [Tiles -> InboxRec]
  BY <1>1, <1>2, TookEffect
<1>4. main' \in [Procs -> MainRec] /\ main'[0].pc = "spawners" /\ main'[0].requests = main[0].requests
  <2>1. "spawners" \in MainPCs
    BY DEF MainPCs
  <2> QED  BY <1>1, <1>2, <2>1, GoesEffect
<1>5. Early /\ ~ Early' /\ Counting' /\ ~ Ending /\ mcp'.pc # "done"
  BY <1>1, <1>2, <1>4 DEF Early, Counting, Ending, EndsLate
<1>6. MainMoves
  BY <1>1, <1>2, <1>4, <1>5 DEF MainMoves, EndsLate
<1>7. {Quit} \in SUBSET AllMessages /\ \A n \in DOMAIN out : out[n] = Quit
  BY Tokens DEF Quit
<1>8. /\ \A t : Tile(t) \notin DOMAIN out
      /\ \A p \in Procs : Global(p) \in DOMAIN out
  BY NodesDiffer
<1> HIDE DEF out
<1>9. /\ chan' \in [Procs -> [Nodes -> Seq(AllMessages)]] /\ Flows({Quit})
      /\ \A n \in Nodes : n \in DOMAIN out => chan'[0][n] = Append(chan[0][n], Quit)
      /\ \A q \in Procs, n \in Nodes : q # 0 \/ n \notin DOMAIN out => chan'[q][n] = chan[q][n]
  <2>1. \A n \in DOMAIN out : out[n] \in {Quit}
    BY <1>7
  <2>2. /\ chan' \in [Procs -> [Nodes -> Seq(AllMessages)]] /\ Flows({Quit})
        /\ \A n \in Nodes : n \in DOMAIN out => chan'[0][n] = Append(chan[0][n], out[n])
        /\ \A q \in Procs, n \in Nodes : q # 0 \/ n \notin DOMAIN out => chan'[q][n] = chan[q][n]
    BY <1>1, <1>2, <1>7, <2>1, SendAllEffect
  <2> QED  BY <1>7, <2>2
<1>10. TypeOK'
  BY <1>1, <1>2, <1>3, <1>4, <1>9 DEF TypeOK
<1>11. ASSUME NEW p \in Procs, NEW n \in Nodes, NEW m \in Range(chan'[p][n])
       PROVE  m \in Range(chan[p][n]) \/ Sendable(p, n, m)'
  <2>1. CASE p = 0
    <3>1. m \in Range(chan[p][n]) \/ m = Quit
      BY <1>1, <1>7, <1>9, <1>11, FlowsKept
    <3>2. Sendable(p, n, Quit)'
      BY <2>1, Tokens DEF Sendable, Queueable, Quit
    <3> QED  BY <3>1, <3>2
  <2>2. CASE p # 0
    BY <1>9, <1>11, <2>2
  <2> QED  BY <2>1, <2>2
<1>12. PacketsOK'
  <2>1. \A t \in Tiles : inbox'[t].queue = inbox[t].queue
    BY <1>3 DEF InboxesRest
  <2>2. \A t \in Tiles : inbox'[t].rx = "got" => inbox[t].rx = "got" /\ inbox'[t].got = inbox[t].got
    BY <1>3 DEF InboxesRest
  <2> QED  BY <1>1, <1>5, <1>11, <2>1, <2>2, PacketsKept
<1>13. ASSUME NEW p \in Procs
       PROVE  SpawnerOK(p)' /\ (p \in Counted => p \in Counted')
  <2>1. SpawnerOK(p) /\ spawner[p] = "wait" /\ ~ Asked(p) /\ Global(p) \in Nodes
    BY <1>5, Places DEF HostInv, SpawnerOK
  <2>2. ~ Sent(p) /\ ~ Queued(p) /\ ~ Served(p) /\ ~ Acked(p) /\ spawner'[p] = "wait" /\ InOnePlace(p)
    BY <1>2, <2>1 DEF SpawnerOK
  <2>3. ToLCP(p) \in Seq(AllMessages) /\ ToLCP(p)' = Append(ToLCP(p), Quit)
    BY <1>1, <1>8, <1>9, <2>1, ChanType DEF ToLCP, Global
  <2>4. Once(ToLCP(p), Quit)'
    <3>1. Quit \in AllMessages
      BY <1>7
    <3>2. Once(ToLCP(p), Quit) /\ Quit \notin Range(ToLCP(p))
      BY <2>1, <2>2 DEF Asked, InOnePlace
    <3>3. Once(Append(ToLCP(p), Quit), Quit)
      BY <2>3, <3>1, <3>2, AppendOnce
    <3> QED  BY <2>3, <3>3 DEF Once, Quit, Message
  <2>5. Kept(ToLCP(0), ToLCP(0)', Ack(p))
    <3>1. Ack(p) \notin {Quit}
      BY Tokens
    <3> QED  BY <1>1, <1>7, <1>9, <3>1, FlowsKept DEF ToLCP, Global
  <2>6. ToMCP(p)' = ToMCP(p) /\ inbox'[MCPTile].queue = inbox[MCPTile].queue
    BY <1>1, <1>3, <1>8, <1>9 DEF ToMCP, Tile, InboxesRest
  <2>7. ~ Served(p)'
    BY <1>1, <1>3, <2>2 DEF Served, Returned, InboxesRest, SpawnerExit, About
  <2>8. ~ Sent(p)' /\ ~ Queued(p)' /\ ~ Acked(p)'
    BY <2>2, <2>5, <2>6 DEF Sent, Queued, Acked, Kept, SpawnerExit, About, Ack
  <2>9. Once(ToMCP(p), SpawnerExit(p))' /\ Once(inbox[MCPTile].queue, SpawnerExit(p))' /\ Once(ToLCP(0), Ack(p))'
    BY <2>2, <2>5, <2>6 DEF InOnePlace, Kept, Once, SpawnerExit, About, Ack
  <2>10. InOnePlace(p)'
    BY <2>4, <2>7, <2>8, <2>9 DEF InOnePlace
  <2> QED  BY <1>5, <2>1, <2>2, <2>7, <2>8, <2>10 DEF SpawnerOK, Counted
<1> QED  BY <1>2, <1>5, <1>6, <1>10, <1>12, <1>13, CountedStep

-----------------------------------------------------------------------------
(* The thread spawners and the LCP *)

LEMMA SpawnerExitsStep ==
  ASSUME HostInv, NEW s \in Procs, SpawnerExits(s)
  PROVE  HostInv'
<1> DEFINE msg == SpawnerExit(s)
<1>1. /\ TypeOK /\ EndsLate /\ PacketsOK /\ 0 \in Procs /\ MCPTile \in Tiles
      /\ Tile(MCPTile) \in Nodes /\ Global(0) \in Nodes /\ Global(s) \in Nodes /\ SpawnerOK(s)
      /\ spawner \in [Procs -> {"wait", "quit", "done"}]
  BY Places DEF HostInv, TypeOK
<1>2. /\ UNCHANGED <<main, terminated, mcp, sim, inbox>> /\ spawner[s] = "quit"
      /\ spawner' = [spawner EXCEPT ![s] = "done"] /\ Send(s, Tile(MCPTile), msg)
  BY DEF SpawnerExits, lcpVars, tileVars
<1>3. MainMoves /\ (mcp'.pc = "done" => Ending') /\ (Ending => Ending')
  BY <1>1, <1>2, MainRests DEF EndsLate
<1>4. msg \in AllMessages /\ {msg} \in SUBSET AllMessages
  BY Tokens
<1>5. /\ chan' \in [Procs -> [Nodes -> Seq(AllMessages)]] /\ Flows({msg})
      /\ chan'[s][Tile(MCPTile)] = Append(chan[s][Tile(MCPTile)], msg)
      /\ \A q \in Procs, n \in Nodes : q # s \/ n # Tile(MCPTile) => chan'[q][n] = chan[q][n]
  <2>1. Flows({msg})
    BY <1>1, <1>2, <1>4, SendFlows
  <2> HIDE DEF msg
  <2> QED  BY <1>1, <1>2, <1>4, <2>1, SendEffect, SMTT(60)
<1>6. spawner' \in [Procs -> {"wait", "quit", "done"}] /\ spawner'[s] = "done"
      /\ \A p \in Procs : p # s => spawner'[p] = spawner[p]
  BY <1>1, <1>2
<1>7. TypeOK'
  BY <1>1, <1>2, <1>5, <1>6 DEF TypeOK
<1>8. ASSUME NEW p \in Procs, NEW n \in Nodes, NEW m \in Range(chan'[p][n])
      PROVE  m \in Range(chan[p][n]) \/ Sendable(p, n, m)'
  <2>1. CASE p = s /\ n = Tile(MCPTile)
    <3>1. m \in Range(chan[p][n]) \/ m \in {msg}
      BY <1>1, <1>4, <1>5, <1>8, FlowsKept
    <3>2. msg.type = "THREAD_EXIT" /\ msg.tile = SpawnerTile[s] /\ SpawnerTile[s] \in Tiles /\ Home(SpawnerTile[s]) = s
      BY Tokens, Places
    <3> HIDE DEF msg
    <3>3. Sendable(p, n, msg)'
      BY <2>1, <3>2 DEF Sendable, Queueable, Home, Tile
    <3> QED  BY <3>1, <3>3
  <2>2. CASE p # s \/ n # Tile(MCPTile)
    <3>1. chan'[p][n] = chan[p][n]
      BY <1>5, <2>2
    <3> QED  BY <1>8, <3>1
  <2> QED  BY <2>1, <2>2
<1>9. PacketsOK'
  <2>1. \A t \in Tiles : inbox'[t].queue = inbox[t].queue /\ inbox'[t].rx = inbox[t].rx /\ inbox'[t].got = inbox[t].got
    BY <1>2
  <2> QED  BY <1>1, <1>3, <1>8, <2>1, PacketsKept
<1>10. SpawnerOK(s)' /\ s \notin Counted
  <2>1. ~ Asked(s) /\ ~ Sent(s) /\ ~ Queued(s) /\ ~ Served(s) /\ ~ Acked(s) /\ ~ Early /\ InOnePlace(s)
    BY <1>1, <1>2 DEF SpawnerOK
  <2>2. ToLCP(s)' = ToLCP(s) /\ ToLCP(0)' = ToLCP(0)
    <3>1. chan'[0][Global(s)] = chan[0][Global(s)] /\ chan'[0][Global(0)] = chan[0][Global(0)]
      <4>1. Global(s) # Tile(MCPTile) /\ Global(0) # Tile(MCPTile)
        BY NodesDiffer
      <4> QED  BY <1>1, <1>5, <4>1
    <3> QED  BY <3>1 DEF ToLCP, Global
  <2>3. ToMCP(s) \in Seq(AllMessages) /\ ToMCP(s)' = Append(ToMCP(s), SpawnerExit(s))
    BY <1>1, <1>5, ChanType DEF ToMCP, Tile
  <2>4. Once(ToMCP(s), SpawnerExit(s))'
    <3>1. Once(ToMCP(s), SpawnerExit(s)) /\ SpawnerExit(s) \notin Range(ToMCP(s))
      BY <2>1 DEF Sent, InOnePlace
    <3>2. Once(Append(ToMCP(s), SpawnerExit(s)), SpawnerExit(s))
      BY <1>4, <2>3, <3>1, AppendOnce
    <3> QED  BY <2>3, <3>2 DEF Once, SpawnerExit, About
  <2>5. ~ Asked(s)' /\ ~ Queued(s)' /\ ~ Served(s)' /\ ~ Acked(s)' /\ ~ Early'
    BY <1>2, <2>1, <2>2 DEF Asked, Queued, Served, Returned, Acked, Early, Quit, Message, SpawnerExit, About, Ack
  <2>6. Once(ToLCP(s), Quit)' /\ Once(inbox[MCPTile].queue, SpawnerExit(s))' /\ Once(ToLCP(0), Ack(s))'
    BY <1>2, <2>1, <2>2 DEF InOnePlace, Once, Quit, Message, SpawnerExit, About, Ack
  <2>7. InOnePlace(s)'
    BY <2>4, <2>5, <2>6 DEF InOnePlace
  <2> QED  BY <1>2, <1>6, <2>5, <2>7 DEF SpawnerOK, Counted
<1>11. ASSUME NEW p \in Procs, p # s
       PROVE  SpawnerOK(p)' /\ (p \in Counted => p \in Counted')
  <2>1. Quit \notin {msg} /\ SpawnerExit(p) \notin {msg} /\ Ack(p) \notin {msg}
    BY <1>11, Tokens
  <2>2. Kept(inbox[MCPTile].queue, inbox'[MCPTile].queue, SpawnerExit(p)) /\ (Served(p)' => Served(p))
    BY <1>2 DEF Kept, Served, Returned, SpawnerExit, About
  <2>3. spawner'[p] = spawner[p] /\ (Early' => Early)
    BY <1>3, <1>6, <1>11 DEF MainMoves
  <2> QED  BY <1>4, <1>5, <2>1, <2>2, <2>3, OthersKept
<1>12. \A p \in Procs : SpawnerOK(p)' /\ (p \in Counted => p \in Counted')
  BY <1>10, <1>11
<1> QED  BY <1>2, <1>3, <1>7, <1>9, <1>12, CountedStep

\* updateCommId and handleFinish.
LEMMA LCPRepliesStep ==
  ASSUME HostInv, NEW p \in Procs, LCPCommId(p) \/ LCPFinishes(p)
  PROVE  HostInv'
<1>1. TypeOK /\ EndsLate
  BY DEF HostInv
<1>2. UNCHANGED <<main, spawner, terminated, mcp, tileVars>>
  BY DEF LCPCommId, LCPFinishes
<1>3. InboxesRest
  BY <1>2 DEF InboxesRest, tileVars
<1>4. ASSUME NEW M \in SUBSET AllMessages, Flows(M), \A m \in M : m.type \in PlainTypes
      PROVE  HostInv'
  <2>1. TypeOK'
    BY <1>1, <1>2, <1>4 DEF TypeOK, Flows, tileVars
  <2> QED  BY <1>1, <1>2, <1>3, <1>4, <2>1, RestsStep DEF EndsLate
<1>5. CASE UNCHANGED chan
  <2>1. Flows({})
    BY <1>1, <1>5, QuietFlows
  <2> QED  BY <1>4, <2>1
<1>6. CASE \E type \in {"COMM_ID_REPLY", "FINISHED_ACK"} : \E n : Send(p, n, Message(type))
  <2>0. PICK type \in {"COMM_ID_REPLY", "FINISHED_ACK"} : \E n : Send(p, n, Message(type))
    BY <1>6
  <2>1. PICK n : Send(p, n, Message(type))
    BY <2>0
  <2>2. Message(type) \in AllMessages /\ Message(type).type \in PlainTypes
    BY PlainSends
  <2>3. Flows({Message(type)})
    BY <1>1, <2>1, <2>2, SendFlows
  <2>4. {Message(type)} \in SUBSET AllMessages /\ \A m \in {Message(type)} : m.type \in PlainTypes
    BY <2>2
  <2> QED  BY <1>4, <2>3, <2>4
<1> QED  BY <1>5, <1>6 DEF LCPCommId, LCPFinishes, transportVars

\* LCP::processPacket.
LEMMA LCPProcessesStep ==
  ASSUME HostInv, NEW p \in Procs, NEW from \in Procs, LCPProcesses(p, from)
  PROVE  HostInv'
<1> DEFINE msg == Head(chan[from][Global(p)])
<1>1. /\ TypeOK /\ EndsLate /\ PacketsOK /\ CountOK /\ 0 \in Procs /\ MCPTile \in Tiles
      /\ Tile(MCPTile) \in Nodes /\ Global(0) \in Nodes /\ Global(p) \in Nodes
      /\ spawner \in [Procs -> {"wait", "quit", "done"}] /\ terminated \in Nat
  BY Places DEF HostInv, TypeOK
<1>2. UNCHANGED <<main, mcp, tileVars>> /\ Recv(from, Global(p))
  BY DEF LCPProcesses
<1>3. /\ Flows({}) /\ chan[from][Global(p)] \in Seq(AllMessages) /\ chan[from][Global(p)] # <<>>
      /\ chan'[from][Global(p)] = Tail(chan[from][Global(p)])
      /\ \A q \in Procs, n \in Nodes : q # from \/ n # Global(p) => chan'[q][n] = chan[q][n]
  BY <1>1, <1>2, RecvFlows, RecvEffect
<1>4. /\ msg \in AllMessages /\ msg \in Range(chan[from][Global(p)])
      /\ \A m : Once(chan[from][Global(p)], m) => (msg = m => m \notin Range(chan'[from][Global(p)]))
  BY <1>3, TailOnce
<1>5. Sendable(from, Global(p), msg)
  BY <1>1, <1>4 DEF PacketsOK
<1>6. /\ spawner' = IF msg.type = "QUIT_SPAWNER" THEN [spawner EXCEPT ![p] = "quit"] ELSE spawner
      /\ terminated' = IF msg.type = "QUIT_SPAWNER_ACK" THEN terminated + 1 ELSE terminated
  BY DEF LCPProcesses
<1> HIDE DEF msg
<1>7. InboxesRest
  BY <1>2 DEF InboxesRest, tileVars
<1>8. {} \in SUBSET AllMessages
  OBVIOUS
<1>9. MainMoves /\ (mcp'.pc = "done" => Ending') /\ (Ending => Ending') /\ (Early' <=> Early)
  BY <1>1, <1>2, MainRests DEF EndsLate, Early
<1>10. PacketsOK'
  <2>1. \A t \in Tiles : inbox'[t].queue = inbox[t].queue /\ inbox'[t].rx = inbox[t].rx /\ inbox'[t].got = inbox[t].got
    BY <1>2 DEF tileVars
  <2>2. \A q \in Procs, n \in Nodes : \A m \in Range(chan'[q][n]) : m \in Range(chan[q][n])
    BY <1>1, <1>3, QuietKept
  <2> QED  BY <1>1, <1>9, <2>1, <2>2, PacketsKept
<1>11. terminated' \in Nat /\ spawner' \in [Procs -> {"wait", "quit", "done"}]
  <2>1. terminated + 1 \in Nat
    BY <1>1, SMTT(60)
  <2> QED  BY <1>1, <1>6, <2>1
<1>12. TypeOK'
  BY <1>1, <1>2, <1>3, <1>11 DEF TypeOK, Flows, tileVars
<1>13. ASSUME NEW q \in Procs, spawner'[q] = spawner[q]
       PROVE  SpawnerOK(q)' /\ (q \in Counted => q \in Counted')
  <2>1. Kept(inbox[MCPTile].queue, inbox'[MCPTile].queue, SpawnerExit(q)) /\ (Served(q)' => Served(q))
    BY <1>2 DEF Kept, Served, Returned, SpawnerExit, About, tileVars
  <2> QED  BY <1>3, <1>8, <1>9, <1>13, <2>1, OthersKept
<1>14. CASE msg.type \notin {"QUIT_SPAWNER", "QUIT_SPAWNER_ACK"}
  <2>1. spawner' = spawner /\ terminated' = terminated
    BY <1>6, <1>14
  <2>2. \A q \in Procs : SpawnerOK(q)' /\ (q \in Counted => q \in Counted')
    BY <1>13, <2>1
  <2> QED  BY <1>9, <1>10, <1>12, <2>1, <2>2, CountedStep
<1>15. CASE msg.type = "QUIT_SPAWNER"
  <2>1. from = 0 /\ msg = Quit
    BY <1>5, <1>15 DEF Sendable
  <2>2. /\ terminated' = terminated /\ spawner'[p] = "quit"
        /\ \A q \in Procs : q # p => spawner'[q] = spawner[q]
    BY <1>1, <1>6, <1>15
  <2>3. SpawnerOK(p) /\ Asked(p)
    BY <1>4, <2>1 DEF Asked, ToLCP, HostInv
  <2>4. /\ spawner[p] = "wait" /\ ~ Sent(p) /\ ~ Queued(p) /\ ~ Served(p) /\ ~ Acked(p) /\ ~ Early
        /\ InOnePlace(p) /\ Once(chan[0][Global(p)], Quit)
    BY <2>3 DEF SpawnerOK, InOnePlace, ToLCP
  <2>5. Quit \notin Range(chan'[0][Global(p)])
    BY <1>4, <2>1, <2>4
  <2>6. ~ Asked(p)' /\ Once(ToLCP(p), Quit)'
    <3>1. Kept(chan[0][Global(p)], chan'[0][Global(p)], Quit)
      BY <1>1, <1>3, QuietKept
    <3>2. Once(chan'[0][Global(p)], Quit)
      BY <2>4, <3>1 DEF Kept
    <3> QED  BY <2>5, <3>2 DEF Asked, ToLCP, Global, Quit, Message, Once
  <2>7. Kept(ToLCP(0), ToLCP(0)', Ack(p)) /\ Kept(ToMCP(p), ToMCP(p)', SpawnerExit(p))
    BY <1>1, <1>3, QuietKept DEF ToLCP, ToMCP, Global, Tile
  <2>8. /\ ~ Sent(p)' /\ ~ Queued(p)' /\ ~ Served(p)' /\ ~ Acked(p)'
    BY <1>2, <2>4, <2>7
      DEF Sent, Queued, Served, Returned, Acked, Kept, SpawnerExit, About, Ack, tileVars
  <2>9. Once(ToMCP(p), SpawnerExit(p))' /\ Once(inbox[MCPTile].queue, SpawnerExit(p))' /\ Once(ToLCP(0), Ack(p))'
    BY <1>2, <2>4, <2>7 DEF InOnePlace, Kept, Once, SpawnerExit, About, Ack, tileVars
  <2>10. InOnePlace(p)'
    BY <2>6, <2>8, <2>9 DEF InOnePlace
  <2>11. SpawnerOK(p)' /\ p \notin Counted
    BY <1>9, <2>4, <2>6, <2>8, <2>10 DEF SpawnerOK, Counted
  <2>12. \A q \in Procs : SpawnerOK(q)' /\ (q \in Counted => q \in Counted')
    BY <1>13, <2>2, <2>11
  <2> QED  BY <1>9, <1>10, <1>12, <2>2, <2>12, CountedStep
<1>16. CASE msg.type = "QUIT_SPAWNER_ACK"
  <2>1. PICK s \in Procs : msg.tile = SpawnerTile[s]
    BY <1>5, <1>16 DEF Sendable, SpawnerTiles
  <2>2. msg = Ack(s)
    BY <1>4, <1>16, <2>1 DEF AllMessages, Ack, About
  <2>3. from = 0 /\ p = 0
    BY <1>5, <1>16, NodesDiffer DEF Sendable
  <2>4. spawner' = spawner /\ terminated' = terminated + 1
    BY <1>6, <1>16
  <2>5. \A q \in Procs : SpawnerOK(q)' /\ (q \in Counted => q \in Counted')
    BY <1>13, <2>4
  <2>6. SpawnerOK(s) /\ Acked(s)
    BY <1>4, <2>2, <2>3 DEF Acked, ToLCP, HostInv
  <2>7. /\ spawner[s] = "done" /\ ~ Sent(s) /\ ~ Queued(s) /\ ~ Served(s)
        /\ Once(chan[0][Global(0)], Ack(s))
    BY <2>6 DEF SpawnerOK, InOnePlace, ToLCP
  <2>8. ~ Acked(s)'
    <3>1. Ack(s) \notin Range(chan'[0][Global(0)])
      BY <1>4, <2>2, <2>3, <2>7
    <3> QED  BY <3>1 DEF Acked, ToLCP, Global, Ack, About
  <2>9. ~ Sent(s)' /\ ~ Queued(s)' /\ ~ Served(s)'
    <3>1. Kept(ToMCP(s), ToMCP(s)', SpawnerExit(s))
      BY <1>1, <1>3, QuietKept DEF ToMCP, Tile
    <3> QED  BY <1>2, <2>7, <3>1
          DEF Sent, Queued, Served, Returned, Kept, SpawnerExit, About, tileVars
  <2>10. s \notin Counted /\ s \in Counted'
    BY <2>4, <2>6, <2>7, <2>8, <2>9 DEF Counted
  <2>11. Cardinality(Counted) + 1 <= Cardinality(Counted')
         /\ Cardinality(Counted) \in Nat /\ Cardinality(Counted') \in Nat /\ NumProcs \in Nat
    BY <2>5, <2>10, CountGrows
  <2>12. terminated' <= Cardinality(Counted')
    BY <1>1, <2>4, <2>11, SMTT(60) DEF CountOK
  <2>13. ~ Counting' => terminated' >= NumProcs - 1
    <3>1. ~ Counting' => terminated >= NumProcs - 1
      BY <1>1, <1>9 DEF MainMoves, CountOK
    <3>2. terminated >= NumProcs - 1 => terminated' >= NumProcs - 1
      BY <1>1, <2>4, <2>11, SMTT(60)
    <3> QED  BY <3>1, <3>2
  <2>14. CountOK'
    BY <2>12, <2>13 DEF CountOK
  <2>15. EndsLate'
    BY <1>9 DEF EndsLate, MainMoves
  <2> QED  BY <1>10, <1>12, <2>5, <2>14, <2>15 DEF HostInv
<1> QED  BY <1>14, <1>15, <1>16

-----------------------------------------------------------------------------
(* The simulation threads, the MCP and netRecv, where no token moves *)

\* SimThread, but for the packets it pulls.
LEMMA SimRestStep ==
  ASSUME HostInv, NEW t \in Tiles, SimBroadcasts(t) \/ SimQueries(t)
  PROVE  HostInv'
<1>1. TypeOK /\ EndsLate
  BY DEF HostInv
<1>2. UNCHANGED <<chan, main, spawner, terminated, mcp>>
  BY DEF SimBroadcasts, SimQueries, hostVars, lcpVars, transportVars
<1>3. Flows({})
  BY <1>1, <1>2, QuietFlows
<1>4. sim' \in [Tiles -> SimRec]
  <2>1. PICK pc \in {"recv", "query", "done"} : sim' = [sim EXCEPT ![t].pc = pc]
    BY DEF SimBroadcasts, SimQueries
  <2>2. sim \in [Tiles -> SimRec]
    BY <1>1 DEF TypeOK
  <2> QED  BY <2>1, <2>2 DEF SimRec
<1>5. /\ InboxesRest
      /\ inbox' \in [Tiles -> InboxRec]
  <2>1. inbox \in [Tiles -> InboxRec]
    BY <1>1 DEF TypeOK
  <2>2. CASE UNCHANGED inbox
    BY <2>1, <2>2 DEF InboxesRest
  <2>3. CASE SimBroadcasts(t)
    <3> DEFINE r == [inbox[t] EXCEPT !.futx = 1, !.rx = IF @ = "sleep" THEN "scan" ELSE @]
    <3>1. inbox' = [inbox EXCEPT ![t] = r]
      BY <2>1, <2>3 DEF SimBroadcasts
    <3>2. /\ r \in InboxRec /\ r.queue = inbox[t].queue
          /\ r.rx = "got" => inbox[t].rx = "got" /\ r.got = inbox[t].got
      <4>1. inbox[t] \in InboxRec
        BY <2>1
      <4> QED  BY <4>1 DEF InboxRec
    <3> HIDE DEF r
    <3> QED  BY <1>1, <3>1, <3>2, InboxEffect
  <2> QED  BY <2>2, <2>3 DEF SimQueries
<1>6. TypeOK'
  BY <1>1, <1>2, <1>4, <1>5 DEF TypeOK
<1>7. {} \in SUBSET AllMessages /\ \A m \in {} : m.type \in PlainTypes
  OBVIOUS
<1> QED  BY <1>1, <1>2, <1>3, <1>5, <1>6, <1>7, RestsStep DEF EndsLate

LEMMA WaitStep ==
  ASSUME HostInv, NEW t \in Tiles,
         FutexWait(t) \/ Interrupted(t) \/ (NetRecvScans(t) /\ Hits(t) = {})
  PROVE  HostInv'
<1>1. TypeOK /\ EndsLate /\ inbox \in [Tiles -> InboxRec] /\ inbox[t] \in InboxRec
  BY DEF HostInv, TypeOK
<1>2. UNCHANGED <<chan, main, spawner, terminated, mcp, sim>>
  BY DEF FutexWait, Interrupted, NetRecvScans, hostVars, lcpVars, transportVars
<1>3. \E r \in InboxRec : inbox' = [inbox EXCEPT ![t] = r] /\ r.queue = inbox[t].queue /\ r.rx # "got"
  <2>1. CASE FutexWait(t)
    <3> DEFINE r == [inbox[t] EXCEPT !.rx = IF inbox[t].futx = 0 THEN "sleep" ELSE "scan"]
    <3>1. inbox' = [inbox EXCEPT ![t] = r]
      BY <1>1, <2>1 DEF FutexWait
    <3>2. r \in InboxRec /\ r.queue = inbox[t].queue /\ r.rx # "got"
      BY <1>1 DEF InboxRec
    <3> QED  BY <3>1, <3>2
  <2>2. CASE Interrupted(t)
    <3> DEFINE r == [inbox[t] EXCEPT !.rx = "scan"]
    <3>1. inbox' = [inbox EXCEPT ![t] = r]
      BY <1>1, <2>2 DEF Interrupted
    <3>2. r \in InboxRec /\ r.queue = inbox[t].queue /\ r.rx # "got"
      BY <1>1 DEF InboxRec
    <3> QED  BY <3>1, <3>2
  <2>3. CASE NetRecvScans(t) /\ Hits(t) = {}
    <3> DEFINE r == [inbox[t] EXCEPT !.futx = 0, !.rx = "futex"]
    <3>1. inbox' = [inbox EXCEPT ![t] = r]
      BY <1>1, <2>3 DEF NetRecvScans
    <3>2. r \in InboxRec /\ r.queue = inbox[t].queue /\ r.rx # "got"
      BY <1>1 DEF InboxRec
    <3> QED  BY <3>1, <3>2
  <2> QED  BY <2>1, <2>2, <2>3
<1>4. InboxesRest /\ inbox' \in [Tiles -> InboxRec]
  BY <1>1, <1>3, InboxEffect
<1>5. Flows({})
  BY <1>1, <1>2, QuietFlows
<1>6. TypeOK'
  BY <1>1, <1>2, <1>4 DEF TypeOK
<1>7. {} \in SUBSET AllMessages /\ \A m \in {} : m.type \in PlainTypes
  OBVIOUS
<1> QED  BY <1>1, <1>2, <1>4, <1>5, <1>6, <1>7, RestsStep DEF EndsLate

\* The MCP, but for the exit of a spawner.
LEMMA MCPRestStep ==
  ASSUME HostInv,
         MCPAsks \/ MCPHears \/ (MCPServes /\ ~ \E s \in Procs : inbox[MCPTile].got = SpawnerExit(s))
  PROVE  HostInv'
<1>1. /\ TypeOK /\ EndsLate /\ PacketsOK /\ 0 \in Procs /\ MCPTile \in Tiles
      /\ inbox \in [Tiles -> InboxRec] /\ mcp \in [pc : {"start", "commId", "serve", "done"}, asked : Int]
  BY Places DEF HostInv, TypeOK
<1>2. UNCHANGED <<main, spawner, terminated, sim>>
  BY DEF MCPAsks, MCPHears, MCPServes, lcpVars
<1>3. InboxesRest /\ inbox' \in [Tiles -> InboxRec]
  <2>1. CASE UNCHANGED inbox
    BY <1>1, <2>1 DEF InboxesRest
  <2>2. CASE \E rx \in {"out", "scan"} : inbox' = Took(MCPTile, rx)
    BY <1>1, <2>2, TookEffect
  <2> QED  BY <2>1, <2>2 DEF MCPAsks, MCPHears, MCPServes
<1>4. ASSUME NEW M \in SUBSET AllMessages, Flows(M), \A m \in M : m.type \in PlainTypes,
             mcp' \in [pc : {"start", "commId", "serve", "done"}, asked : Int],
             mcp'.pc = "done" => Ending
      PROVE  HostInv'
  <2>1. TypeOK'
    BY <1>1, <1>2, <1>3, <1>4 DEF TypeOK, Flows
  <2> QED  BY <1>2, <1>3, <1>4, <2>1, RestsStep
<1>5. ASSUME UNCHANGED chan
      PROVE  Flows({})
  BY <1>1, <1>5, QuietFlows
<1>6. ASSUME NEW type \in {"COMM_ID_UPDATE", "MCP_RESPONSE"}, NEW n, Send(0, n, Message(type))
      PROVE  /\ {Message(type)} \in SUBSET AllMessages /\ Flows({Message(type)})
             /\ \A m \in {Message(type)} : m.type \in PlainTypes
  <2>1. Message(type) \in AllMessages /\ Message(type).type \in PlainTypes
    BY PlainSends
  <2>2. Flows({Message(type)})
    BY <1>1, <1>6, <2>1, SendFlows
  <2> QED  BY <2>1, <2>2
<1>7. mcp.asked + 1 \in Int /\ mcp.asked - 1 \in Int
  BY <1>1, SMTT(60)
<1>8. CASE MCPAsks
  <2>1. mcp' \in [pc : {"start", "commId", "serve", "done"}, asked : Int] /\ mcp'.pc # "done"
    <3>1. PICK pc \in {"start", "commId"} : mcp' = [pc |-> pc, asked |-> mcp.asked + 1]
      BY <1>8 DEF MCPAsks
    <3> QED  BY <1>7, <3>1
  <2>2. Send(0, Global(mcp.asked), Message("COMM_ID_UPDATE"))
    BY <1>8 DEF MCPAsks
  <2> QED  BY <1>4, <1>6, <2>1, <2>2
<1>9. CASE MCPHears
  <2>1. mcp' \in [pc : {"start", "commId", "serve", "done"}, asked : Int] /\ mcp'.pc # "done"
    <3>1. PICK pc \in {"serve", "commId"} : mcp' = [pc |-> pc, asked |-> mcp.asked - 1]
      BY <1>9 DEF MCPHears
    <3> QED  BY <1>7, <3>1
  <2>2. Flows({})
    BY <1>5, <1>9 DEF MCPHears, transportVars
  <2> QED  BY <1>4, <2>1, <2>2
<1>10. CASE MCPServes /\ ~ \E s \in Procs : inbox[MCPTile].got = SpawnerExit(s)
  <2> DEFINE msg == inbox[MCPTile].got
  <2>1. mcp.pc = "serve" /\ msg \in AllMessages /\ Queueable(msg)
    BY <1>1, <1>10 DEF MCPServes, PacketsOK
  <2>2. CASE Send(0, Tile(msg.tile), Message("MCP_RESPONSE")) /\ UNCHANGED mcp
    BY <1>1, <1>4, <1>6, <2>1, <2>2
  <2>3. CASE msg.type = "THREAD_EXIT" /\ SendAll(0, ExitMessages(msg.tile)) /\ UNCHANGED mcp
    <3> DEFINE out == ExitMessages(msg.tile)
    <3>1. msg.tile \notin SpawnerTiles
      <4>1. ASSUME NEW s \in Procs, msg.tile = SpawnerTile[s]
            PROVE  msg = SpawnerExit(s)
        BY <2>1, <2>3, <4>1 DEF AllMessages, SpawnerExit, About
      <4> QED  BY <1>10, <4>1 DEF SpawnerTiles
    <3>2. Message("EXIT_REPLY") \in AllMessages /\ Message("EXIT_REPLY").type \in PlainTypes
      BY PlainSends
    <3>3. \A n \in DOMAIN out : out[n] \in {Message("EXIT_REPLY")}
      BY <3>1 DEF ExitMessages
    <3>4. {Message("EXIT_REPLY")} \in SUBSET AllMessages /\ SendAll(0, out)
      BY <2>3, <3>2
    <3> HIDE DEF out
    <3>5. Flows({Message("EXIT_REPLY")})
      BY <1>1, <3>3, <3>4, SendAllEffect
    <3>6. \A m \in {Message("EXIT_REPLY")} : m.type \in PlainTypes
      BY <3>2
    <3> QED  BY <1>1, <1>4, <2>1, <2>3, <3>4, <3>5, <3>6
  <2>4. CASE msg.type = "MCP_QUIT" /\ mcp' = [mcp EXCEPT !.pc = "done"] /\ UNCHANGED transportVars
    <3>1. Flows({})
      BY <1>5, <2>4 DEF transportVars
    <3>2. mcp' \in [pc : {"start", "commId", "serve", "done"}, asked : Int] /\ Ending
      BY <1>1, <2>1, <2>4 DEF Queueable
    <3> QED  BY <1>4, <3>1, <3>2
  <2> QED  BY <1>10, <2>2, <2>3, <2>4 DEF MCPServes
<1> QED  BY <1>8, <1>9, <1>10

-----------------------------------------------------------------------------
(* The exit of a spawner on its way *)

\* masterOnThreadExit acknowledges a spawner.
LEMMA ServeStep ==
  ASSUME HostInv, MCPServes, NEW s \in Procs, inbox[MCPTile].got = SpawnerExit(s)
  PROVE  HostInv'
<1> DEFINE out == ExitMessages(SpawnerTile[s])
           M == {Message("EXIT_REPLY"), Ack(s)}
<1>1. /\ TypeOK /\ EndsLate /\ PacketsOK /\ 0 \in Procs /\ MCPTile \in Tiles
      /\ Tile(MCPTile) \in Nodes /\ Global(0) \in Nodes /\ Global(s) \in Nodes /\ SpawnerOK(s)
  BY Places DEF HostInv, TypeOK
<1>2. SpawnerExit(s).type = "THREAD_EXIT" /\ SpawnerExit(s).tile = SpawnerTile[s]
  BY Tokens
<1>3. /\ UNCHANGED <<main, spawner, terminated, sim, mcp>> /\ SendAll(0, out)
      /\ inbox[MCPTile].rx = "got" /\ inbox' = Took(MCPTile, "scan")
  BY <1>2 DEF MCPServes, lcpVars
<1>4. InboxesRest /\ inbox' \in [Tiles -> InboxRec] /\ inbox'[MCPTile].rx = "scan"
  BY <1>1, <1>3, TookEffect
<1>5. MainMoves /\ (mcp'.pc = "done" => Ending') /\ (Ending => Ending') /\ (Early' <=> Early)
  BY <1>1, <1>3, MainRests DEF EndsLate, Early
<1>6. /\ Message("EXIT_REPLY") \in AllMessages /\ Message("EXIT_REPLY").type \in PlainTypes
      /\ NoToken(Message("EXIT_REPLY"))
  BY PlainSends, PlainMessages
<1>7. Ack(s) \in AllMessages
  BY Tokens
<1>8. /\ DOMAIN out = {Tile(SpawnerTile[s]), Global(0)} /\ out[Global(0)] = Ack(s)
      /\ out[Tile(SpawnerTile[s])] = Message("EXIT_REPLY")
  <2>1. SpawnerTile[s] \in SpawnerTiles
    BY DEF SpawnerTiles
  <2>2. Global(0) # Tile(SpawnerTile[s])
    BY NodesDiffer
  <2> QED  BY <2>1, <2>2 DEF ExitMessages, Ack
<1>9. M \in SUBSET AllMessages /\ \A n \in DOMAIN out : out[n] \in M
  <2> HIDE DEF out
  <2> QED  BY <1>6, <1>7, <1>8
<1> HIDE DEF out, M
<1>10. /\ chan' \in [Procs -> [Nodes -> Seq(AllMessages)]] /\ Flows(M)
       /\ \A n \in Nodes : n \in DOMAIN out => chan'[0][n] = Append(chan[0][n], out[n])
       /\ \A q \in Procs, n \in Nodes : q # 0 \/ n \notin DOMAIN out => chan'[q][n] = chan[q][n]
  BY <1>1, <1>3, <1>9, SendAllEffect
<1>11. TypeOK'
  BY <1>1, <1>3, <1>4, <1>10 DEF TypeOK
<1>12. ASSUME NEW p \in Procs, NEW n \in Nodes, NEW m \in Range(chan'[p][n])
       PROVE  m \in Range(chan[p][n]) \/ Sendable(p, n, m)'
  <2>1. CASE p = 0 /\ n \in DOMAIN out
    <3>1. chan[p][n] \in Seq(AllMessages) /\ chan'[p][n] = Append(chan[p][n], out[n]) /\ out[n] \in AllMessages
      BY <1>1, <1>9, <1>10, <2>1, ChanType
    <3>2. m \in Range(chan[p][n]) \/ m = out[n]
      <4>1. PICK q \in Seq(AllMessages), x \in AllMessages : q = chan[p][n] /\ x = out[n]
        BY <3>1
      <4>2. Range(Append(q, x)) = Range(q) \cup {x}
        BY AppendOnce
      <4> QED  BY <1>12, <3>1, <4>1, <4>2
    <3>3. CASE n = Global(0)
      <4>1. /\ Ack(s).type = "QUIT_SPAWNER_ACK" /\ Ack(s).tile = SpawnerTile[s]
            /\ SpawnerTile[s] \in SpawnerTiles
        BY Tokens DEF SpawnerTiles
      <4>2. Sendable(p, n, Ack(s))'
        BY <2>1, <3>3, <4>1 DEF Sendable, Queueable, SpawnerTiles, Global
      <4> QED  BY <1>8, <3>2, <3>3, <4>2
    <3>4. CASE n # Global(0)
      <4>1. out[n] = Message("EXIT_REPLY")
        BY <1>8, <2>1, <3>4
      <4> QED  BY <1>6, <3>2, <4>1, PlainMessages
    <3> QED  BY <3>3, <3>4
  <2>2. CASE p # 0 \/ n \notin DOMAIN out
    <3>1. chan'[p][n] = chan[p][n]
      BY <1>10, <2>2
    <3> QED  BY <1>12, <3>1
  <2> QED  BY <2>1, <2>2
<1>13. PacketsOK'
  <2>1. \A t \in Tiles : inbox'[t].queue = inbox[t].queue
    BY <1>4 DEF InboxesRest
  <2>2. \A t \in Tiles : inbox'[t].rx = "got" => inbox[t].rx = "got" /\ inbox'[t].got = inbox[t].got
    BY <1>4 DEF InboxesRest
  <2> QED  BY <1>1, <1>5, <1>12, <2>1, <2>2, PacketsKept
<1>14. SpawnerOK(s)' /\ s \notin Counted
  <2>1. Served(s)
    BY <1>3 DEF Served, Returned
  <2>2. /\ spawner[s] = "done" /\ InOnePlace(s) /\ ~ Sent(s) /\ ~ Queued(s) /\ ~ Acked(s)
        /\ ~ Early /\ ~ Asked(s)
    BY <1>1, <2>1 DEF SpawnerOK, InOnePlace
  <2>3. ~ Served(s)'
    BY <1>4 DEF Served, Returned
  <2>4. Kept(ToLCP(s), ToLCP(s)', Quit) /\ Kept(ToMCP(s), ToMCP(s)', SpawnerExit(s))
    <3>1. Quit \notin M /\ SpawnerExit(s) \notin M
      BY <1>6, Tokens DEF M, NoToken
    <3> QED  BY <1>1, <1>9, <1>10, <3>1, FlowsKept DEF ToLCP, ToMCP, Global, Tile
  <2>5. /\ ~ Asked(s)' /\ ~ Sent(s)'
        /\ Once(ToLCP(s), Quit)' /\ Once(ToMCP(s), SpawnerExit(s))'
    BY <2>2, <2>4 DEF Asked, Sent, Kept, InOnePlace, Once, Quit, Message, SpawnerExit, About
  <2>6. ~ Queued(s)' /\ Once(inbox[MCPTile].queue, SpawnerExit(s))'
    BY <1>1, <1>4, <2>2 DEF Queued, InboxesRest, InOnePlace, Once, SpawnerExit, About
  <2>7. Once(ToLCP(0), Ack(s))'
    <3>1. ToLCP(0) \in Seq(AllMessages) /\ ToLCP(0)' = Append(ToLCP(0), Ack(s))
      BY <1>1, <1>8, <1>10, ChanType DEF ToLCP, Global
    <3>2. Once(ToLCP(0), Ack(s)) /\ Ack(s) \notin Range(ToLCP(0))
      BY <2>2 DEF Acked, InOnePlace
    <3>3. Once(Append(ToLCP(0), Ack(s)), Ack(s))
      BY <1>7, <3>1, <3>2, AppendOnce
    <3> QED  BY <3>1, <3>3 DEF Once, Ack, About
  <2>8. InOnePlace(s)'
    BY <2>3, <2>5, <2>6, <2>7 DEF InOnePlace
  <2>9. spawner'[s] = "done" /\ ~ Early'
    BY <1>3, <1>5, <2>2
  <2> QED  BY <2>1, <2>5, <2>8, <2>9 DEF SpawnerOK, Counted
<1>15. ASSUME NEW p \in Procs, p # s
       PROVE  SpawnerOK(p)' /\ (p \in Counted => p \in Counted')
  <2>1. Quit \notin M /\ SpawnerExit(p) \notin M /\ Ack(p) \notin M
    BY <1>6, <1>15, Tokens DEF M, NoToken
  <2>2. Kept(inbox[MCPTile].queue, inbox'[MCPTile].queue, SpawnerExit(p)) /\ (Served(p)' => Served(p))
    BY <1>1, <1>4 DEF Kept, Served, Returned, InboxesRest
  <2>3. spawner'[p] = spawner[p] /\ (Early' => Early)
    BY <1>3, <1>5
  <2> QED  BY <1>9, <1>10, <2>1, <2>2, <2>3, OthersKept
<1>16. \A p \in Procs : SpawnerOK(p)' /\ (p \in Counted => p \in Counted')
  BY <1>14, <1>15
<1> QED  BY <1>3, <1>5, <1>11, <1>13, <1>16, CountedStep

\* Scans that return a packet.
LEMMA HitStep ==
  ASSUME HostInv, NEW t \in Tiles, NetRecvScans(t), Hits(t) # {}
  PROVE  HostInv'
<1>0. PICK i \in Hits(t) : inbox' = [inbox EXCEPT ![t].queue = Erase(@, i), ![t].rx = "got",
                                                 ![t].got = inbox[t].queue[i]]
  BY DEF NetRecvScans
<1> DEFINE msg == inbox[t].queue[i]
           rest == Erase(inbox[t].queue, i)
           r == [inbox[t] EXCEPT !.queue = rest, !.rx = "got", !.got = msg]
<1>1. /\ TypeOK /\ EndsLate /\ PacketsOK /\ inbox \in [Tiles -> InboxRec] /\ inbox[t] \in InboxRec
      /\ MCPTile \in Tiles
  BY Places DEF HostInv, TypeOK
<1>2. UNCHANGED <<chan, main, spawner, terminated, mcp, sim>>
  BY DEF NetRecvScans, hostVars, lcpVars, transportVars
<1>3. inbox' = [inbox EXCEPT ![t] = r]
  BY <1>0, <1>1
<1>4. i \in DOMAIN inbox[t].queue /\ inbox[t].queue \in Seq(AllMessages)
  BY <1>1 DEF Hits, InboxRec
<1>5. /\ rest \in Seq(AllMessages) /\ msg \in Range(inbox[t].queue) /\ msg \in AllMessages
      /\ Range(rest) \subseteq Range(inbox[t].queue)
      /\ \A m : Once(inbox[t].queue, m) => Once(rest, m) /\ (msg = m => m \notin Range(rest))
  <2>1. msg \in AllMessages
    BY <1>4, SMTT(60)
  <2> QED  BY <1>4, <2>1, EraseOnce
<1>6. \A m : Kept(inbox[t].queue, rest, m)
  BY <1>5 DEF Kept
<1> HIDE DEF msg, rest
<1>7. r \in InboxRec /\ r.queue = rest /\ r.rx = "got" /\ r.got = msg
  BY <1>1, <1>5 DEF InboxRec
<1> HIDE DEF r
<1>8. /\ inbox' \in [Tiles -> InboxRec] /\ \A u \in Tiles : u # t => inbox'[u] = inbox[u]
      /\ inbox'[t].queue = rest /\ inbox'[t].rx = "got" /\ inbox'[t].got = msg
  BY <1>1, <1>3, <1>7
<1>9. TypeOK'
  BY <1>1, <1>2, <1>8 DEF TypeOK
<1>10. MainMoves /\ (mcp'.pc = "done" => Ending') /\ (Ending => Ending') /\ (Early' <=> Early)
  BY <1>1, <1>2, MainRests DEF EndsLate, Early
<1>11. PacketsOK'
  <2>1. \A p \in Procs, n \in Nodes : \A m \in Range(chan'[p][n]) : m \in Range(chan[p][n])
    BY <1>2
  <2>2. \A u \in Tiles : \A m \in Range(inbox'[u].queue) : m \in Range(inbox[u].queue)
    BY <1>5, <1>8
  <2>3. \A u \in Tiles : inbox'[u].rx = "got" =>
            \/ inbox[u].rx = "got" /\ inbox'[u].got = inbox[u].got
            \/ inbox'[u].got \in Range(inbox[u].queue) /\ inbox'[u].got \in AllMessages
    BY <1>5, <1>8
  <2> QED  BY <1>1, <1>10, <2>1, <2>2, <2>3, PacketsKept
<1>12. ASSUME NEW p \in Procs
       PROVE  SpawnerOK(p)' /\ (p \in Counted => p \in Counted')
  <2>1. SpawnerOK(p) /\ ToLCP(p)' = ToLCP(p) /\ ToLCP(0)' = ToLCP(0) /\ ToMCP(p)' = ToMCP(p) /\ spawner'[p] = spawner[p]
    BY <1>2 DEF HostInv, ToLCP, ToMCP, Global, Tile
  <2>2. CASE t = MCPTile /\ msg = SpawnerExit(p)
    <3>1. Queued(p)
      BY <1>5, <2>2 DEF Queued
    <3>2. /\ InOnePlace(p) /\ ~ Sent(p) /\ ~ Served(p) /\ ~ Acked(p) /\ spawner[p] = "done"
          /\ ~ Early /\ ~ Asked(p)
      BY <2>1, <3>1 DEF SpawnerOK, InOnePlace
    <3>3. ~ Queued(p)' /\ Once(inbox[MCPTile].queue, SpawnerExit(p))'
      <4>1. Once(inbox[MCPTile].queue, SpawnerExit(p))
        BY <3>2 DEF InOnePlace
      <4>2. Once(rest, SpawnerExit(p)) /\ SpawnerExit(p) \notin Range(rest)
        BY <1>5, <2>2, <4>1
      <4> QED  BY <1>8, <2>2, <4>2 DEF Queued, Once, SpawnerExit, About
    <3>4. ~ Asked(p)' /\ ~ Sent(p)' /\ ~ Acked(p)' /\ ~ Early'
      BY <1>10, <2>1, <3>2 DEF Asked, Sent, Acked, Quit, Message, SpawnerExit, About, Ack
    <3>5. Once(ToLCP(p), Quit)' /\ Once(ToMCP(p), SpawnerExit(p))' /\ Once(ToLCP(0), Ack(p))'
      BY <2>1, <3>2 DEF InOnePlace, Once, Quit, Message, SpawnerExit, About, Ack
    <3>6. InOnePlace(p)'
      BY <3>3, <3>4, <3>5 DEF InOnePlace
    <3> QED  BY <2>1, <3>1, <3>2, <3>4, <3>6 DEF SpawnerOK, Counted
  <2>3. CASE ~ (t = MCPTile /\ msg = SpawnerExit(p))
    <3>1. Kept(inbox[MCPTile].queue, inbox'[MCPTile].queue, SpawnerExit(p)) /\ (Served(p)' => Served(p))
      <4>1. CASE t = MCPTile
        BY <1>6, <1>8, <2>3, <4>1 DEF Served, Returned, SpawnerExit, About
      <4>2. CASE t # MCPTile
        BY <1>1, <1>8, <4>2 DEF Kept, Served, Returned, SpawnerExit, About
      <4> QED  BY <4>1, <4>2
    <3>2. /\ Kept(ToLCP(p), ToLCP(p)', Quit) /\ Kept(ToLCP(0), ToLCP(0)', Ack(p))
          /\ Kept(ToMCP(p), ToMCP(p)', SpawnerExit(p))
      BY <2>1 DEF Kept
    <3> QED  BY <1>10, <2>1, <3>1, <3>2, SpawnerKept
  <2> QED  BY <2>2, <2>3
<1> QED  BY <1>2, <1>9, <1>10, <1>11, <1>12, CountedStep

\* netPullFromTransport.
LEMMA PullStep ==
  ASSUME HostInv, NEW t \in Tiles, NEW from \in Procs, SimPulls(t, from)
  PROVE  HostInv'
<1> DEFINE msg == Head(chan[from][Tile(t)])
           more == Append(inbox[t].queue, msg)
           r == [inbox[t] EXCEPT !.queue = more]
<1>1. /\ TypeOK /\ EndsLate /\ PacketsOK /\ inbox \in [Tiles -> InboxRec] /\ inbox[t] \in InboxRec
      /\ sim \in [Tiles -> SimRec] /\ MCPTile \in Tiles
  BY Places DEF HostInv, TypeOK
<1>2. UNCHANGED <<main, spawner, terminated, mcp>> /\ Recv(from, Tile(t)) /\ Tile(t) \in Nodes
  BY Places DEF SimPulls, hostVars, lcpVars
<1>3. /\ Flows({}) /\ chan[from][Tile(t)] \in Seq(AllMessages) /\ chan[from][Tile(t)] # <<>>
      /\ chan'[from][Tile(t)] = Tail(chan[from][Tile(t)])
  BY <1>1, <1>2, RecvFlows, RecvEffect
<1>4. /\ msg \in AllMessages /\ msg \in Range(chan[from][Tile(t)])
      /\ \A m : Once(chan[from][Tile(t)], m) => (msg = m => m \notin Range(chan'[from][Tile(t)]))
  BY <1>3, TailOnce
<1>5. {} \in SUBSET AllMessages /\ \A m \in {} : m.type \in PlainTypes
  OBVIOUS
<1>6. CASE msg.type = "TERMINATE_THREADS"
  <2>1. UNCHANGED inbox /\ sim' = [sim EXCEPT ![t] = [pc |-> "query", cont |-> FALSE]]
    BY <1>6 DEF SimPulls
  <2>2. sim' \in [Tiles -> SimRec]
    BY <1>1, <2>1 DEF SimRec
  <2>3. TypeOK'
    BY <1>1, <1>2, <1>3, <2>1, <2>2 DEF TypeOK, Flows
  <2>4. InboxesRest
    BY <2>1 DEF InboxesRest
  <2> QED  BY <1>1, <1>2, <1>3, <1>5, <2>3, <2>4, RestsStep DEF EndsLate
<1>7. CASE msg.type # "TERMINATE_THREADS"
  <2>1. inbox' = [inbox EXCEPT ![t] = r] /\ sim' = [sim EXCEPT ![t].pc = "broadcast"]
    BY <1>1, <1>7 DEF SimPulls
  <2>2. sim' \in [Tiles -> SimRec]
    BY <1>1, <2>1 DEF SimRec
  <2>3. /\ inbox[t].queue \in Seq(AllMessages) /\ more \in Seq(AllMessages)
        /\ Range(more) = Range(inbox[t].queue) \cup {msg}
        /\ \A m : Once(inbox[t].queue, m) /\ (msg = m => m \notin Range(inbox[t].queue)) => Once(more, m)
        /\ \A m : m # msg => Kept(inbox[t].queue, more, m)
    <3>1. inbox[t].queue \in Seq(AllMessages)
      BY <1>1 DEF InboxRec
    <3> HIDE DEF msg
    <3>2. /\ more \in Seq(AllMessages) /\ Range(more) = Range(inbox[t].queue) \cup {msg}
          /\ \A m : Once(inbox[t].queue, m) /\ (msg = m => m \notin Range(inbox[t].queue)) => Once(more, m)
      BY <1>4, <3>1, AppendOnce
    <3>3. \A m : m # msg => Kept(inbox[t].queue, more, m)
      BY <1>4, <3>1, KeptByChange
    <3> QED  BY <3>1, <3>2, <3>3
  <2> HIDE DEF msg, more
  <2>4. r \in InboxRec /\ r.queue = more /\ r.rx = inbox[t].rx /\ r.got = inbox[t].got
    BY <1>1, <2>3 DEF InboxRec
  <2> HIDE DEF r
  <2>5. /\ inbox' \in [Tiles -> InboxRec] /\ inbox'[t].queue = more
        /\ \A u \in Tiles : u # t => inbox'[u].queue = inbox[u].queue
        /\ \A u \in Tiles : inbox'[u].rx = inbox[u].rx /\ inbox'[u].got = inbox[u].got
    BY <1>1, <2>1, <2>4
  <2>6. TypeOK'
    BY <1>1, <1>2, <1>3, <2>2, <2>5 DEF TypeOK, Flows
  <2>7. MainMoves /\ (mcp'.pc = "done" => Ending') /\ (Ending => Ending') /\ (Early' <=> Early)
    BY <1>1, <1>2, MainRests DEF EndsLate, Early
  <2>8. PacketsOK'
    <3>1. \A p \in Procs, n \in Nodes : \A m \in Range(chan'[p][n]) : m \in Range(chan[p][n])
      BY <1>1, <1>3, QuietKept
    <3>2. \A u \in Tiles : \A m \in Range(inbox'[u].queue) :
             \/ m \in Range(inbox[u].queue)
             \/ \E p \in Procs, n \in Nodes : m \in Range(chan[p][n])
      BY <1>2, <1>4, <2>3, <2>5
    <3> QED  BY <1>1, <2>5, <2>7, <3>1, <3>2, PacketsKept
  <2>9. Sendable(from, Tile(t), msg)
    BY <1>1, <1>2, <1>4 DEF PacketsOK
  <2>10. ASSUME NEW p \in Procs
         PROVE  SpawnerOK(p)' /\ (p \in Counted => p \in Counted')
    <3>1. SpawnerOK(p) /\ (Served(p)' <=> Served(p)) /\ spawner'[p] = spawner[p]
      BY <1>1, <1>2, <2>5 DEF HostInv, Served, Returned, SpawnerExit, About
    <3>2. CASE t = MCPTile /\ msg = SpawnerExit(p)
      <4>1. from = p
        <5>1. msg.type = "THREAD_EXIT" /\ msg.tile = SpawnerTile[p] /\ Home(SpawnerTile[p]) = p
          BY <3>2, Tokens, Places
        <5> QED  BY <2>9, <5>1 DEF Sendable
      <4>2. Sent(p)
        BY <1>4, <3>2, <4>1 DEF Sent, ToMCP
      <4>3. /\ InOnePlace(p) /\ ~ Queued(p) /\ ~ Served(p) /\ ~ Acked(p) /\ spawner[p] = "done"
            /\ ~ Early /\ ~ Asked(p) /\ Once(chan[p][Tile(MCPTile)], SpawnerExit(p))
        BY <3>1, <4>2 DEF SpawnerOK, InOnePlace, ToMCP
      <4>4. ~ Sent(p)'
        <5>1. SpawnerExit(p) \notin Range(chan'[p][Tile(MCPTile)])
          BY <1>4, <3>2, <4>1, <4>3
        <5> QED  BY <5>1 DEF Sent, ToMCP, Tile, SpawnerExit, About
      <4>5. Once(inbox[MCPTile].queue, SpawnerExit(p))'
        <5>1. Once(inbox[MCPTile].queue, SpawnerExit(p)) /\ SpawnerExit(p) \notin Range(inbox[MCPTile].queue)
          BY <4>3 DEF InOnePlace, Queued
        <5>2. Once(more, SpawnerExit(p))
          BY <2>3, <3>2, <5>1
        <5> QED  BY <2>5, <3>2, <5>2 DEF Once, SpawnerExit, About
      <4>6. /\ Kept(ToMCP(p), ToMCP(p)', SpawnerExit(p)) /\ Kept(ToLCP(p), ToLCP(p)', Quit)
            /\ Kept(ToLCP(0), ToLCP(0)', Ack(p))
        <5>1. 0 \in Procs /\ Global(0) \in Nodes /\ Global(p) \in Nodes /\ Tile(MCPTile) \in Nodes
          BY Places
        <5> QED  BY <1>1, <1>3, <5>1, QuietKept DEF ToMCP, ToLCP, Global, Tile
      <4>7. ~ Asked(p)' /\ ~ Acked(p)'
        BY <4>3, <4>6 DEF Kept, Asked, Acked, Quit, Message, Ack, About
      <4>8. Once(ToLCP(p), Quit)' /\ Once(ToMCP(p), SpawnerExit(p))' /\ Once(ToLCP(0), Ack(p))'
        BY <4>3, <4>6 DEF Kept, InOnePlace, Once, Quit, Message, SpawnerExit, About, Ack
      <4>9. InOnePlace(p)'
        BY <3>1, <4>3, <4>4, <4>5, <4>7, <4>8 DEF InOnePlace
      <4> QED  BY <2>7, <3>1, <4>2, <4>3, <4>7, <4>9 DEF SpawnerOK, Counted
    <3>3. CASE ~ (t = MCPTile /\ msg = SpawnerExit(p))
      <4>1. Kept(inbox[MCPTile].queue, inbox'[MCPTile].queue, SpawnerExit(p))
        <5>1. CASE t = MCPTile
          BY <2>3, <2>5, <3>3, <5>1
        <5>2. CASE t # MCPTile
          BY <1>1, <2>5, <5>2 DEF Kept
        <5> QED  BY <5>1, <5>2
      <4> QED  BY <1>3, <1>5, <2>7, <3>1, <4>1, OthersKept
    <3> QED  BY <3>2, <3>3
  <2> QED  BY <1>2, <2>6, <2>7, <2>8, <2>10, CountedStep
<1> QED  BY <1>6, <1>7

-----------------------------------------------------------------------------
(* All steps *)

LEMMA HostInitial == Init => HostInv
<1> SUFFICES ASSUME Init PROVE HostInv
  OBVIOUS
<1>1. /\ 0 \in Procs /\ main[0].pc = "app" /\ mcp.pc = "start" /\ terminated = 0
      /\ \A p \in Procs : spawner[p] = "wait"
      /\ \A p \in Procs, n \in Nodes : chan[p][n] = <<>>
      /\ \A t \in Tiles : inbox[t].queue = <<>> /\ inbox[t].rx = "out"
  BY Places DEF Init, TransportInit
<1>2. TypeOK
  <2>1. <<>> \in Seq(AllMessages)
    BY SMTT(60)
  <2>2. chan \in [Procs -> [Nodes -> Seq(AllMessages)]]
    BY <2>1 DEF Init, TransportInit
  <2>3. main \in [Procs -> MainRec]
    <3>1. Requests \in Nat /\ 0 \in Nat
      BY TileAssumption, SMTT(60)
    <3> QED  BY <3>1 DEF Init, MainRec, MainPCs
  <2>4. inbox \in [Tiles -> InboxRec]
    BY <2>1, SMTT(60) DEF Init, InboxRec
  <2>5. sim \in [Tiles -> SimRec]
    BY DEF Init, SimRec
  <2>6. mcp \in [pc : {"start", "commId", "serve", "done"}, asked : Int] /\ terminated \in Nat
    BY SMTT(60) DEF Init
  <2>7. spawner \in [Procs -> {"wait", "quit", "done"}]
    BY DEF Init
  <2> QED  BY <2>2, <2>3, <2>4, <2>5, <2>6, <2>7 DEF TypeOK
<1>3. Range(<<>>) = {} /\ \A m : Once(<<>>, m)
  <2>1. DOMAIN <<>> = {}
    BY SMTT(60)
  <2> QED  BY <2>1 DEF Range, Once
<1>4. PacketsOK
  BY <1>1, <1>3 DEF PacketsOK
<1>5. EndsLate
  BY <1>1 DEF EndsLate
<1>6. CountOK
  <2>1. Cardinality(Counted) \in Nat
    BY CountGrows
  <2>2. terminated <= Cardinality(Counted)
    BY <1>1, <2>1, SMTT(60)
  <2> QED  BY <1>1, <2>2 DEF CountOK, Counting, Early
<1>7. ASSUME NEW p \in Procs
      PROVE  SpawnerOK(p)
  <2>1. /\ ToMCP(p) = <<>> /\ ToLCP(p) = <<>> /\ ToLCP(0) = <<>> /\ inbox[MCPTile].queue = <<>>
        /\ ~ Served(p) /\ spawner[p] = "wait"
    BY <1>1, Places DEF ToMCP, ToLCP, Served, Returned
  <2> QED  BY <1>3, <2>1 DEF SpawnerOK, InOnePlace, Asked, Sent, Queued, Acked
<1> QED  BY <1>2, <1>4, <1>5, <1>6, <1>7 DEF HostInv

LEMMA HostStep == HostInv /\ [Next]_vars => HostInv'
<1> SUFFICES ASSUME HostInv, [Next]_vars PROVE HostInv'
  OBVIOUS
<1>1. ASSUME NEW t \in Tiles, SimStep(t) \/ Interrupted(t) \/ NetRecvStep(t)
      PROVE  HostInv'
  <2>1. CASE \E p \in Procs : SimPulls(t, p)
    BY <2>1, PullStep
  <2>2. CASE SimBroadcasts(t) \/ SimQueries(t)
    BY <2>2, SimRestStep
  <2>3. CASE FutexWait(t) \/ Interrupted(t)
    BY <2>3, WaitStep
  <2>4. CASE NetRecvScans(t)
    BY <2>4, WaitStep, HitStep
  <2> QED  BY <1>1, <2>1, <2>2, <2>3, <2>4 DEF SimStep, NetRecvStep
<1>2. ASSUME NEW p \in Procs, LCPStep(p) \/ SpawnerExits(p)
      PROVE  HostInv'
  BY <1>2, LCPProcessesStep, LCPRepliesStep, SpawnerExitsStep DEF LCPStep
<1>3. ASSUME NEW p \in Procs, MainStep(p)
      PROVE  HostInv'
  <2>1. CASE NetRecvStep(MainTile)
    BY <1>1, <2>1, Places
  <2>2. CASE MainRequests \/ MainAnswered \/ MainExits
    BY <2>2, AsksStep
  <2>3. CASE TerminateThreadSpawners
    BY <2>3, TerminateStep
  <2>4. CASE p = 0 /\ BroadcastFinish
    BY <2>4, MainEndsStep
  <2>5. CASE MainSpins(p)
    BY <2>5, CountsStep, MainEndsStep
  <2>6. CASE EndMCP(p) \/ EndLCP(p) \/ MainEnters(p) \/ MainLeaves(p) \/ QuitSimThreads(p) \/ Deletes(p)
    BY <2>6, MainEndsStep
  <2> QED  BY <1>3, <2>1, <2>2, <2>3, <2>4, <2>5, <2>6 DEF MainStep, AppStep
<1>4. ASSUME MCPStep
      PROVE  HostInv'
  <2>1. CASE NetRecvStep(MCPTile)
    BY <1>1, <2>1, Places
  <2> QED  BY <1>4, <2>1, MCPRestStep, ServeStep DEF MCPStep
<1>5. CASE UNCHANGED vars
  <2>1. UNCHANGED <<chan, main, spawner, terminated, mcp, sim, inbox>>
    BY <1>5 DEF vars, transportVars, hostVars, lcpVars, tileVars
  <2>2. TypeOK /\ EndsLate
    BY DEF HostInv
  <2>3. TypeOK' /\ InboxesRest
    BY <2>1, <2>2 DEF TypeOK, InboxesRest
  <2>4. Flows({})
    BY <2>1, <2>2, QuietFlows
  <2>5. {} \in SUBSET AllMessages /\ \A m \in {} : m.type \in PlainTypes
    OBVIOUS
  <2> QED  BY <2>1, <2>2, <2>3, <2>4, <2>5, RestsStep DEF EndsLate
<1> QED  BY <1>1, <1>2, <1>3, <1>4, <1>5 DEF Next

\* In every reachable state the token of a spawner is in one place, main has
\* counted no more spawners than have ended, and what ends the MCP follows
\* terminateThreadSpawners.
THEOREM HostInvHolds == Spec => []HostInv
  BY HostInitial, HostStep, PTL DEF Spec

\* When the MCP thread leaves its loop, main has had all its answers, and the
\* exits of all thread spawners but at most one have been handled, with any
\* number of processes, tiles and requests: terminateThreadSpawners returns
\* at ProcessCount - 1 acks, and each comes from another spawner.
THEOREM MCPOutlivesRequests == Spec => []MCPQuitsLast
<1>1. ASSUME HostInv, mcp.pc = "done"
      PROVE  /\ main[0].requests = 0 /\ main[0].pc \notin {"await", "exit"}
             /\ Cardinality({p \in Procs : ~ ExitHandled(p)}) <= 1
  <2> DEFINE Open == {p \in Procs : ~ ExitHandled(p)}
  <2>1. /\ PacketsOK /\ Ending /\ ~ Counting /\ main[0].requests = 0
        /\ main[0].pc \notin {"app", "await", "exit"}
    BY <1>1 DEF HostInv, EndsLate, Ending, Counting, Early
  <2>2. ASSUME NEW p \in Procs, p \in Counted
        PROVE  ExitHandled(p)
    <3>1. SpawnerExit(p) \notin InFlight
      <4>1. SUFFICES ASSUME NEW q \in Procs, NEW n \in Nodes, SpawnerExit(p) \in Range(chan[q][n])
                     PROVE  FALSE
        BY SMTT(60) DEF InFlight
      <4>2. Sendable(q, n, SpawnerExit(p))
        BY <2>1, <4>1 DEF PacketsOK
      <4>3. /\ SpawnerExit(p).type = "THREAD_EXIT" /\ SpawnerExit(p).tile = SpawnerTile[p]
            /\ Home(SpawnerTile[p]) = p
        BY Tokens, Places
      <4>4. q = p /\ n = Tile(MCPTile)
        BY <4>2, <4>3 DEF Sendable
      <4> QED  BY <2>2, <4>1, <4>4 DEF Counted, Sent, ToMCP
    <3> QED  BY <2>2, <3>1 DEF ExitHandled, Counted, Queued, Served, Returned
  <2>3. Open \subseteq Procs \ Counted
    BY <2>2
  <2>4. /\ terminated \in Nat /\ terminated <= Cardinality(Counted) /\ terminated >= NumProcs - 1
        /\ Cardinality(Counted) \in Nat
        /\ NumProcs \in Nat /\ IsFiniteSet(Procs) /\ Cardinality(Procs) = NumProcs
    BY <1>1, <2>1, CountGrows DEF HostInv, TypeOK, CountOK
  <2>5. Counted \subseteq Procs
    BY DEF Counted
  <2>6. Cardinality(Procs \ Counted) = NumProcs - Cardinality(Counted) /\ IsFiniteSet(Procs \ Counted)
    <3>1. Procs \cap Counted = Counted /\ IsFiniteSet(Counted)
      BY <2>4, <2>5, FS_Subset
    <3> QED  BY <2>4, <3>1, FS_Difference
  <2> HIDE DEF Open
  <2>7. Cardinality(Open) <= Cardinality(Procs \ Counted) /\ Cardinality(Open) \in Nat
    <3>1. IsFiniteSet(Open) /\ Cardinality(Open) <= Cardinality(Procs \ Counted)
      BY <2>3, <2>6, FS_Subset
    <3> QED  BY <3>1, FS_CardinalityType
  <2>8. Cardinality(Open) <= 1
    BY <2>4, <2>6, <2>7, SMTT(60)
  <2> QED  BY <2>1, <2>8 DEF Open
<1>2. HostInv => MCPQuitsLast
  BY <1>1 DEF MCPQuitsLast
<1> QED  BY <1>2, HostInvHolds, PTL

-----------------------------------------------------------------------------
(* The wake-up of netRecv *)

LEMMA WokenInitial == Init => WokenForPacket
<1> SUFFICES ASSUME Init PROVE WokenForPacket
  OBVIOUS
<1>1. \A t \in Tiles : inbox[t].rx = "out"
  BY DEF Init
<1>2. \A t \in Tiles : inbox[t].rx # "sleep" /\ inbox[t].rx # "futex"
  BY <1>1
<1> QED  BY <1>2 DEF WokenForPacket

\* A tile that a step leaves alone, or that is not asleep after it.
LEMMA WokenKept ==
  ASSUME WokenForPacket,
         \A t \in Tiles :
           \/ ~ Asleep(t)'
           \/ sim'[t].pc = "broadcast"
           \/ /\ inbox'[t] = inbox[t] /\ \A m : Matches(t, m)' => Matches(t, m)
              /\ sim[t].pc = "broadcast" => sim'[t].pc = "broadcast"
  PROVE  WokenForPacket'
<1>1. ASSUME NEW t \in Tiles, Asleep(t)', Hits(t)' # {}
      PROVE  sim'[t].pc = "broadcast"
  <2>1. CASE /\ inbox'[t] = inbox[t] /\ \A m : Matches(t, m)' => Matches(t, m)
             /\ sim[t].pc = "broadcast" => sim'[t].pc = "broadcast"
    <3>1. Hits(t)' \subseteq Hits(t) /\ Asleep(t)
      BY <1>1, <2>1 DEF Hits, Asleep
    <3>2. Hits(t) # {}
      BY <1>1, <3>1
    <3> QED  BY <1>1, <2>1, <3>1, <3>2 DEF WokenForPacket, Asleep
  <2> QED  BY <1>1, <2>1
<1> QED  BY <1>1 DEF WokenForPacket, Asleep

\* What netRecv looks for changes with main and the MCP only.
LEMMA MatchesKept ==
  ASSUME NEW t, mcp'.pc = mcp.pc \/ t # MCPTile,
         main'[0].pc = main[0].pc \/ main'[0].pc \notin {"await", "exit"} \/ t # MainTile
  PROVE  \A m : Matches(t, m)' => Matches(t, m)
  BY DEF Matches

\* Steps outside netRecv and the broadcast.
LEMMA WokenRest ==
  ASSUME WokenForPacket, UNCHANGED <<mcp, inbox>>,
         main'[0].pc = main[0].pc \/ main'[0].pc \notin {"await", "exit"},
         \A t \in Tiles : sim[t].pc = "broadcast" => sim'[t].pc = "broadcast"
  PROVE  WokenForPacket'
<1>1. \A t : \A m : Matches(t, m)' => Matches(t, m)
  BY MatchesKept
<1> QED  BY <1>1, WokenKept

\* netRecv is called, or has returned.
LEMMA WokenTook ==
  ASSUME WokenForPacket, TypeOK, NEW t \in Tiles, NEW rx \in {"out", "scan"}, inbox' = Took(t, rx),
         mcp' = mcp \/ t = MCPTile, main' = main \/ t = MainTile, UNCHANGED sim
  PROVE  WokenForPacket'
<1>1. inbox \in [Tiles -> InboxRec] /\ inbox[t] \in InboxRec
  BY DEF TypeOK
<1>2. inbox'[t].rx = rx /\ \A u \in Tiles : u # t => inbox'[u] = inbox[u]
  BY <1>1 DEF Took, InboxRec
<1>3. ~ Asleep(t)'
  BY <1>2 DEF Asleep
<1>4. \A u : u # t => \A m : Matches(u, m)' => Matches(u, m)
  BY MatchesKept
<1> QED  BY <1>2, <1>3, <1>4, WokenKept

LEMMA WokenSim ==
  ASSUME WokenForPacket, TypeOK, NEW t \in Tiles, SimStep(t)
  PROVE  WokenForPacket'
<1>1. /\ inbox \in [Tiles -> InboxRec] /\ inbox[t] \in InboxRec
      /\ sim \in [Tiles -> SimRec] /\ sim[t] \in SimRec
  BY DEF TypeOK
<1>8. UNCHANGED <<main, mcp>>
  BY DEF SimStep, SimPulls, SimBroadcasts, SimQueries, hostVars
<1>9. \A u : \A m : Matches(u, m)' => Matches(u, m)
  BY <1>8, MatchesKept
<1>2. CASE SimQueries(t)
  <2>1. UNCHANGED inbox /\ sim[t].pc # "broadcast"
    BY <1>2 DEF SimQueries, AtSim
  <2>2. PICK pc : sim' = [sim EXCEPT ![t].pc = pc]
    BY <1>2 DEF SimQueries
  <2>3. \A u \in Tiles : u # t => sim'[u] = sim[u]
    BY <1>1, <2>2
  <2> QED  BY <1>8, <2>1, <2>3, WokenRest
<1>3. CASE SimBroadcasts(t)
  <2> DEFINE r == [inbox[t] EXCEPT !.futx = 1, !.rx = IF @ = "sleep" THEN "scan" ELSE @]
  <2>1. inbox' = [inbox EXCEPT ![t] = r] /\ \E pc : sim' = [sim EXCEPT ![t].pc = pc]
    BY <1>1, <1>3 DEF SimBroadcasts
  <2>2. r.futx # 0 /\ r.rx # "sleep"
    <3>1. r.futx = 1 /\ r.rx # "sleep"
      BY <1>1 DEF InboxRec
    <3> QED  BY <3>1, SMTT(60)
  <2> HIDE DEF r
  <2>3. inbox'[t] = r /\ \A u \in Tiles : u # t => inbox'[u] = inbox[u] /\ sim'[u] = sim[u]
    BY <1>1, <2>1
  <2>4. ~ Asleep(t)'
    BY <2>2, <2>3 DEF Asleep
  <2> QED  BY <1>9, <2>3, <2>4, WokenKept
<1>4. ASSUME NEW p \in Procs, SimPulls(t, p)
      PROVE  WokenForPacket'
  <2>1. sim[t].pc = "recv"
    BY <1>4 DEF SimPulls, AtSim
  <2>2. CASE UNCHANGED inbox /\ sim' = [sim EXCEPT ![t] = [pc |-> "query", cont |-> FALSE]]
    BY <1>8, <1>1, <2>1, <2>2, WokenRest
  <2>3. CASE /\ inbox' = [inbox EXCEPT ![t].queue = Append(@, Head(chan[p][Tile(t)]))]
             /\ sim' = [sim EXCEPT ![t].pc = "broadcast"]
    <3>1. /\ sim'[t].pc = "broadcast"
          /\ \A u \in Tiles : u # t => inbox'[u] = inbox[u] /\ sim'[u] = sim[u]
      BY <1>1, <2>3 DEF SimRec
    <3> QED  BY <1>9, <3>1, WokenKept
  <2> QED  BY <1>4, <2>2, <2>3 DEF SimPulls
<1> QED  BY <1>2, <1>3, <1>4 DEF SimStep

LEMMA WokenNetRecv ==
  ASSUME WokenForPacket, TypeOK, NEW t \in Tiles, NetRecvStep(t) \/ Interrupted(t)
  PROVE  WokenForPacket'
<1>1. inbox \in [Tiles -> InboxRec] /\ inbox[t] \in InboxRec
  BY DEF TypeOK
<1>2. UNCHANGED <<sim, mcp, main>>
  BY DEF NetRecvStep, NetRecvScans, FutexWait, Interrupted, hostVars
<1>3. \A u : \A m : Matches(u, m)' <=> Matches(u, m)
  BY <1>2 DEF Matches
<1>4. CASE Interrupted(t)
  <2>1. inbox'[t].rx = "scan" /\ \A u \in Tiles : u # t => inbox'[u] = inbox[u]
    BY <1>1, <1>4 DEF Interrupted, InboxRec
  <2>2. ~ Asleep(t)'
    BY <2>1 DEF Asleep
  <2> QED  BY <1>2, <1>3, <2>1, <2>2, WokenKept
<1>5. ASSUME NEW r \in InboxRec, inbox' = [inbox EXCEPT ![t] = r], r.queue = inbox[t].queue,
             Hits(t) = {} \/ Asleep(t)
      PROVE  WokenForPacket'
  <2>1. inbox'[t] = r /\ \A u \in Tiles : u # t => inbox'[u] = inbox[u]
    BY <1>1, <1>5
  <2>2. Hits(t)' = Hits(t)
    BY <1>3, <1>5, <2>1 DEF Hits
  <2>3. Hits(t)' # {} => sim'[t].pc = "broadcast"
    BY <1>2, <1>5, <2>2 DEF WokenForPacket, Asleep
  <2>4. ASSUME NEW u \in Tiles, u # t, Asleep(u)', Hits(u)' # {}
        PROVE  sim'[u].pc = "broadcast"
    <3>1. Hits(u)' = Hits(u) /\ Asleep(u)
      BY <1>3, <2>1, <2>4 DEF Hits, Asleep
    <3> QED  BY <1>2, <2>4, <3>1 DEF WokenForPacket, Asleep
  <2> QED  BY <2>3, <2>4 DEF WokenForPacket, Asleep
<1>6. CASE FutexWait(t) /\ inbox[t].futx = 0
  <2> DEFINE r == [inbox[t] EXCEPT !.rx = "sleep"]
  <2>1. inbox' = [inbox EXCEPT ![t] = r] /\ Asleep(t)
    BY <1>1, <1>6 DEF FutexWait, Asleep
  <2>2. r \in InboxRec /\ r.queue = inbox[t].queue
    BY <1>1 DEF InboxRec
  <2> HIDE DEF r
  <2> QED  BY <1>5, <2>1, <2>2
<1>7. CASE FutexWait(t) /\ inbox[t].futx # 0
  <2>1. inbox'[t].rx = "scan" /\ \A u \in Tiles : u # t => inbox'[u] = inbox[u]
    BY <1>1, <1>7 DEF FutexWait, InboxRec
  <2>2. ~ Asleep(t)'
    BY <2>1 DEF Asleep
  <2> QED  BY <1>2, <1>3, <2>1, <2>2, WokenKept
<1>8. CASE NetRecvScans(t) /\ Hits(t) = {}
  <2> DEFINE r == [inbox[t] EXCEPT !.futx = 0, !.rx = "futex"]
  <2>1. inbox' = [inbox EXCEPT ![t] = r]
    BY <1>1, <1>8 DEF NetRecvScans
  <2>2. r \in InboxRec /\ r.queue = inbox[t].queue
    BY <1>1 DEF InboxRec
  <2> HIDE DEF r
  <2> QED  BY <1>5, <1>8, <2>1, <2>2
<1>9. CASE NetRecvScans(t) /\ Hits(t) # {}
  <2>1. PICK q, m : inbox' = [inbox EXCEPT ![t].queue = q, ![t].rx = "got", ![t].got = m]
    BY <1>9 DEF NetRecvScans
  <2>2. inbox'[t].rx = "got" /\ \A u \in Tiles : u # t => inbox'[u] = inbox[u]
    BY <1>1, <2>1 DEF InboxRec
  <2>3. ~ Asleep(t)'
    BY <2>2 DEF Asleep
  <2> QED  BY <1>2, <1>3, <2>2, <2>3, WokenKept
<1> QED  BY <1>4, <1>6, <1>7, <1>8, <1>9 DEF NetRecvStep

LEMMA WokenStep == HostInv /\ WokenForPacket /\ [Next]_vars => WokenForPacket'
<1> SUFFICES ASSUME HostInv, WokenForPacket, [Next]_vars PROVE WokenForPacket'
  OBVIOUS
<1>1. TypeOK /\ MCPTile \in Tiles
  BY Places DEF HostInv
<1>2. ASSUME NEW t \in Tiles, SimStep(t) \/ Interrupted(t)
      PROVE  WokenForPacket'
  BY <1>1, <1>2, WokenSim, WokenNetRecv
<1>3. ASSUME NEW p \in Procs, LCPStep(p) \/ SpawnerExits(p)
      PROVE  WokenForPacket'
  <2>1. UNCHANGED <<main, mcp, inbox, sim>>
    BY <1>3 DEF LCPStep, LCPProcesses, LCPCommId, LCPFinishes, SpawnerExits, tileVars
  <2> QED  BY <2>1, WokenRest
<1>4. ASSUME NEW p \in Procs, MainStep(p)
      PROVE  WokenForPacket'
  <2>1. MainTile \in Tiles /\ MainTile # MCPTile /\ 0 \in Procs /\ main \in [Procs -> MainRec]
    BY <1>1, Places DEF TypeOK
  <2>2. CASE MainRequests \/ MainAnswered \/ MainExits \/ TerminateThreadSpawners
    <3>1. UNCHANGED <<mcp, sim>> /\ (inbox' = Took(MainTile, "scan") \/ inbox' = Took(MainTile, "out"))
      BY <2>2 DEF MainRequests, MainAnswered, MainExits, TerminateThreadSpawners
    <3> QED  BY <1>1, <2>1, <3>1, WokenTook
  <2>3. CASE NetRecvStep(MainTile)
    BY <1>1, <2>1, <2>3, WokenNetRecv
  <2>4. ASSUME NEW q \in Procs, NEW pc \in MainPCs \ {"app", "await", "exit"}, Goes(q, pc),
               UNCHANGED <<mcp, tileVars>>
        PROVE  WokenForPacket'
    <3>1. /\ main'[q].pc = pc
          /\ \A k \in Procs \ {q} : main'[k] = main[k]
      BY <1>1, <2>4, GoesEffect
    <3>2. main'[0].pc = main[0].pc \/ main'[0].pc \notin {"await", "exit"}
      BY <2>1, <3>1
    <3> QED  BY <2>4, <3>2, WokenRest DEF tileVars
  <2>5. CASE MainSpins(p) \/ EndMCP(p) \/ EndLCP(p) \/ MainEnters(p) \/ MainLeaves(p)
               \/ QuitSimThreads(p) \/ Deletes(p)
    <3>1. UNCHANGED <<mcp, tileVars>>
      BY <2>5 DEF MainSpins, EndMCP, EndLCP, MainEnters, MainLeaves, QuitSimThreads, Deletes
    <3>2. PICK pc \in {"finish", "endMCP", "mcpWait", "endLCP", "lcpWait", "barrier", "inBarrier", "quit",
                       "delete", "done"} : Goes(p, pc)
      BY <2>5 DEF MainSpins, EndMCP, EndLCP, MainEnters, MainLeaves, QuitSimThreads, Deletes
    <3>3. pc \in MainPCs \ {"app", "await", "exit"}
      BY DEF MainPCs
    <3> QED  BY <2>4, <3>1, <3>2, <3>3
  <2>6. CASE BroadcastFinish
    <3>1. Goes(0, "acks") /\ UNCHANGED <<mcp, tileVars>> /\ "acks" \in MainPCs \ {"app", "await", "exit"}
      BY <2>6 DEF BroadcastFinish, MainPCs
    <3> QED  BY <2>1, <2>4, <3>1
  <2> QED  BY <1>4, <2>2, <2>3, <2>5, <2>6 DEF MainStep, AppStep
<1>5. ASSUME MCPStep
      PROVE  WokenForPacket'
  <2>1. CASE NetRecvStep(MCPTile)
    BY <1>1, <2>1, WokenNetRecv
  <2>2. CASE inbox' = Took(MCPTile, "scan") /\ UNCHANGED <<main, sim>>
    BY <1>1, <2>2, WokenTook
  <2>3. CASE inbox' = Took(MCPTile, "out") /\ UNCHANGED <<main, sim>>
    BY <1>1, <2>3, WokenTook
  <2>4. CASE MCPAsks /\ mcp.asked + 1 # NumProcs
    <3>1. UNCHANGED <<main, sim, inbox>> /\ mcp'.pc = mcp.pc
      BY <2>4 DEF MCPAsks
    <3>2. \A t : \A m : Matches(t, m)' => Matches(t, m)
      BY <3>1, MatchesKept
    <3> QED  BY <3>1, <3>2, WokenKept
  <2>5. MCPAsks \/ MCPHears \/ MCPServes => UNCHANGED <<main, sim>>
    BY DEF MCPAsks, MCPHears, MCPServes
  <2>6. MCPAsks /\ mcp.asked + 1 = NumProcs => inbox' = Took(MCPTile, "scan")
    BY DEF MCPAsks
  <2>7. MCPHears \/ MCPServes => inbox' = Took(MCPTile, "scan") \/ inbox' = Took(MCPTile, "out")
    BY DEF MCPHears, MCPServes
  <2> QED  BY <1>5, <2>1, <2>2, <2>3, <2>4, <2>5, <2>6, <2>7 DEF MCPStep
<1>6. CASE UNCHANGED vars
  <2>1. UNCHANGED <<main, mcp, inbox, sim>>
    BY <1>6 DEF vars, hostVars, tileVars
  <2> QED  BY <2>1, WokenRest
<1> QED  BY <1>2, <1>3, <1>4, <1>5, <1>6 DEF Next

\* No packet is missed between netRecv's scan of _netQueue and FUTEX_WAIT, on
\* any number of tiles and with interrupted waits.
THEOREM NoPacketMissed == Spec => []WokenForPacket
  BY WokenInitial, WokenStep, HostInvHolds, PTL DEF Spec
=============================================================================

----------------------------- MODULE MsiProtocol -----------------------------
(***************************************************************************)
(* The private-L1 private-L2 DRAM-directory MSI protocol of                *)
(* pr_l1_pr_l2_dram_directory_msi/: on every tile an application thread    *)
(* that accesses memory through an L1-I or L1-D cache and an inclusive     *)
(* private L2, a simulation thread that handles the packets arriving at    *)
(* the tile, and, for the lines whose home the tile is, a directory        *)
(* controller with its directory cache and DRAM.                           *)
(*                                                                         *)
(* Both threads of a tile hold its memory lock while they work, so a       *)
(* handler is one step.  A directory handler may go on to process queued   *)
(* requests of the same line; busy[h] is then the call still to be made    *)
(* by tile h's simulation thread, which holds the lock until it has        *)
(* returned: nothing else happens on tile h before.                        *)
(***************************************************************************)
EXTENDS DirectoryEntry, Sequences

CONSTANTS FetchAddrs,     \* lines the program fetches instructions from
          LoadAddrs,      \* lines it loads from
          StoreAddrs,     \* lines it stores to
          AtomicAddrs,    \* lines it updates atomically
          Home,           \* getHome: the tile whose directory owns a line
          Values,         \* contents of a line
          Zero,           \* the contents DRAM gives a line on first use
          L1Ways, L2Ways, \* lines a cache set holds (all lines share a set)
          DirWays         \* entries of the directory set at each home

Addrs == FetchAddrs \cup LoadAddrs \cup StoreAddrs \cup AtomicAddrs

ASSUME AddrsAssumption == IsFiniteSet(Addrs) /\ NULL \notin Addrs
\* The program does not modify its own code.
ASSUME CodeAssumption == FetchAddrs \cap (StoreAddrs \cup AtomicAddrs) = {}
ASSUME HomeAssumption == Home \in [Addrs -> Tiles]
ASSUME ValuesAssumption == Zero \in Values /\ NULL \notin Values
\* limited_broadcast is refused at start-up.
ASSUME MsiSchemeAssumption == Scheme # "limited_broadcast"
ASSUME WaysAssumption == {L1Ways, L2Ways, DirWays} \subseteq Nat \ {0}

VARIABLES
  app,      \* application thread: the access it is in, and where
  l1,       \* l1[t][c][a]: line a in the L1 cache c of tile t
  l2,       \* l2[t][a]: line a in tile t's L2, loc being the present bit
  outst,    \* _outstanding_shmem_msg of each L2 controller
  chan,     \* chan[s][d]: packets sent by tile s to tile d, in order
  dirSet,   \* directory entries in the directory set of the home
  dirRepl,  \* _replaced_directory_entry_list of the home
  reqs,     \* _dram_directory_req_queue, per line
  busy,     \* the request processing call each home is in
  dram,     \* _data_map of the home's DRAM; NULL before first use
  mem,      \* history: the value last written to the line by any core
  failed    \* the asserts that have failed; the program has stopped if any

vars == <<app, l1, l2, outst, chan, dirSet, dirRepl, reqs, busy, dram, mem, failed>>

Components == {"L1_ICACHE", "L1_DCACHE"}
CStates == {"INVALID", "SHARED", "MODIFIED"}
MemOps == {"READ", "READ_EX", "WRITE"}
Data == Values \cup {NULL}

L1Lines == [cstate : CStates, data : Data]
L2Lines == [cstate : CStates, data : Data, loc : Components \cup {NULL}]
InvalidL1 == [cstate |-> "INVALID", data |-> NULL]
InvalidL2 == [cstate |-> "INVALID", data |-> NULL, loc |-> NULL]

\* The application thread is running ("idle"), waits on _app_thread_sem for
\* a miss ("wait"), has been signalled while the simulation thread waits on
\* _sim_thread_sem ("woken"), or keeps the lock between the LOCK and the
\* UNLOCK access of an atomic instruction ("locked").
AppStates ==
  {r \in [pc : {"idle", "wait", "woken", "locked"}, comp : Components,
          op : MemOps, lock : {"NONE", "LOCK"}, addr : Addrs \cup {NULL}, val : Data] :
     /\ r.pc # "idle" => r.addr # NULL
     /\ r.op = "WRITE" => r.val # NULL}
Idle == [pc |-> "idle", comp |-> "L1_DCACHE", op |-> "READ", lock |-> "NONE",
         addr |-> NULL, val |-> NULL]

MsgTypes == {"EX_REQ", "SH_REQ", "INV_REQ", "FLUSH_REQ", "WB_REQ",
             "EX_REP", "SH_REP", "INV_REP", "FLUSH_REP", "WB_REP"}
Senders == Components \cup {"L2_CACHE", "DRAM_DIRECTORY"}
Msgs == [type : MsgTypes, from : Senders, addr : Addrs, data : Data]
Msg(type, from, a, d) == [type |-> type, from |-> from, addr |-> a, data |-> d]

Reqs == [type : {"EX_REQ", "SH_REQ", "NULLIFY_REQ"}, requester : Tiles]

NoEntry == [NewEntry EXCEPT !.dstate = "NONE"]
NotBusy == [addr |-> NULL, data |-> NULL]
Call(a, d) == [addr |-> a, data |-> d]

Init ==
  /\ app = [t \in Tiles |-> Idle]
  /\ l1 = [t \in Tiles |-> [c \in Components |-> [a \in Addrs |-> InvalidL1]]]
  /\ l2 = [t \in Tiles |-> [a \in Addrs |-> InvalidL2]]
  /\ outst = [t \in Tiles |-> [addr |-> NULL, comp |-> "L1_DCACHE"]]
  /\ chan = [s \in Tiles |-> [d \in Tiles |-> << >>]]
  /\ dirSet = [a \in Addrs |-> NoEntry]
  /\ dirRepl = [a \in Addrs |-> NoEntry]
  /\ reqs = [a \in Addrs |-> << >>]
  /\ busy = [t \in Tiles |-> NotBusy]
  /\ dram = [a \in Addrs |-> NULL]
  /\ mem = [a \in Addrs |-> Zero]
  /\ failed = {}

-----------------------------------------------------------------------------
(* Helpers *)

\* Packets: receive the oldest of chan[s][d]; send one; send to many.
Drop(ch, s, d) == [ch EXCEPT ![s][d] = Tail(@)]
Put(ch, s, d, m) == [ch EXCEPT ![s][d] = Append(@, m)]
PutAll(ch, s, D, m) ==
    [ch EXCEPT ![s] = [d \in Tiles |-> IF d \in D THEN Append(@[d], m) ELSE @[d]]]

\* An assert whose condition does not hold stops the program.
Fails(label, condition) == IF condition THEN {} ELSE {label}

\* operationPermissibleinL1Cache, operationPermissibleinL2Cache
Permissible(op, cstate) == IF op = "READ" THEN cstate # "INVALID" ELSE cstate = "MODIFIED"

\* The line a cache evicts to insert another one, NULL for none: the
\* replacement policy may pick an invalid way (LRU) or not (round robin).
Victims(lines, ways) ==
    LET valid == {a \in Addrs : lines[a].cstate # "INVALID"}
    IN  valid \cup (IF Cardinality(valid) < ways THEN {NULL} ELSE {})

\* L1CacheCntlr::invalidateCacheLine, for the location the L2 recorded.
InvalidateL1_Not(l1t, loc, a) == l1t
InvalidateL1(l1t, loc, a) ==
    IF loc = NULL THEN l1t ELSE [l1t EXCEPT ![loc][a] = InvalidL1]

\* The L2 tags after L1 cache c evicts w: the present bit is cleared.
ClearCachedLoc_Not(l2t, c, w) == l2t
ClearCachedLoc(l2t, c, w) ==
    IF w = NULL THEN l2t ELSE [l2t EXCEPT ![w].loc = IF @ = c THEN NULL ELSE @]
L1EvictionAssert(l2t, c, w) == w = NULL \/ l2t[w].cstate # "INVALID"
L1EvictionLocAssert(l2t, c, w) == w = NULL \/ l2t[w].loc = c \/ c = "L1_ICACHE"

\* insertCacheLineInL1: the line replaces victim w.
InsertInL1(l1t, c, a, line, w) ==
    [l1t EXCEPT ![c] = [b \in Addrs |-> IF b = a THEN line
                                        ELSE IF b = w THEN InvalidL1 ELSE @[b]]]

\* Neither thread of the tile holds its lock.
Unlocked_InAtomic(t) == failed = {} /\ busy[t].addr = NULL
Unlocked(t) == /\ failed = {}
               /\ busy[t].addr = NULL
               /\ app[t].pc # "locked"

\* The simulation thread is at netPullFromTransport and can take the lock.
SimReady(t) == Unlocked(t) /\ app[t].pc # "woken"

\* The oldest packet from s to d is of this type and from this component.
Arrived(s, d, types, froms) ==
    /\ SimReady(d)
    /\ chan[s][d] # << >>
    /\ Head(chan[s][d]).type \in types
    /\ Head(chan[s][d]).from \in froms

-----------------------------------------------------------------------------
(* The application thread: processMemOpFromCore *)

\* accessCache on the tile's caches l1t and l2t: a store writes through.
WriteL2_Not(l2t, a, v) == l2t
WriteL2(l2t, a, v) == [l2t EXCEPT ![a].data = v]
AccessCache(t, c, lk, op, a, v, l1t, l2t) ==
  LET store == op = "WRITE"
  IN  /\ l1' = [l1 EXCEPT ![t] = IF store THEN [l1t EXCEPT ![c][a].data = v] ELSE l1t]
      /\ l2' = [l2 EXCEPT ![t] = IF store THEN WriteL2(l2t, a, v) ELSE l2t]
      /\ mem' = IF store THEN [mem EXCEPT ![a] = v] ELSE mem
      /\ app' = [app EXCEPT ![t] = IF lk = "LOCK" THEN [Idle EXCEPT !.pc = "locked", !.addr = a]
                                                  ELSE Idle]

\* The accesses a core makes: instruction fetches, loads, stores and the
\* LOCK READ_EX that starts an atomic instruction.
Accesses ==
  {<<"L1_ICACHE", "NONE", "READ", a, NULL>> : a \in FetchAddrs} \cup
  {<<"L1_DCACHE", "NONE", "READ", a, NULL>> : a \in LoadAddrs} \cup
  {<<"L1_DCACHE", "NONE", "WRITE", a, v>> : a \in StoreAddrs, v \in Values} \cup
  {<<"L1_DCACHE", "LOCK", "READ_EX", a, NULL>> : a \in AtomicAddrs}

\* The access hits in the L1 cache.
L1Hit(t, c, lk, op, a, v) ==
  /\ app[t].pc = "idle" /\ Unlocked(t)
  /\ Permissible(op, l1[t][c][a].cstate)
  /\ AccessCache(t, c, lk, op, a, v, l1[t], l2[t])
  /\ failed' = Fails("l2_holds_written_line", op = "WRITE" => l2[t][a].cstate # "INVALID")
  /\ UNCHANGED <<outst, chan, dirSet, dirRepl, reqs, busy, dram>>

\* It misses in the L1 but hits in the L2, which refills the L1
\* (processShmemRequestFromL1Cache).
L2Hit(t, c, lk, op, a, v) ==
  /\ app[t].pc = "idle" /\ Unlocked(t)
  /\ ~Permissible(op, l1[t][c][a].cstate)
  /\ Permissible(op, l2[t][a].cstate)
  /\ LET l1i == InvalidateL1(l1[t], c, a)
         line == [cstate |-> l2[t][a].cstate, data |-> l2[t][a].data]
         loc == l2[t][a].loc
     IN  \E w \in Victims(l1i[c], L1Ways) :
           /\ AccessCache(t, c, lk, op, a, v, InsertInL1(l1i, c, a, line, w),
                [ClearCachedLoc(l2[t], c, w) EXCEPT
                    ![a].loc = IF loc = NULL THEN c ELSE "L1_DCACHE"])
           /\ failed' = Fails("l2_holds_evicted_l1_line", L1EvictionAssert(l2[t], c, w)) \cup
                        Fails("l1d_eviction_recorded", L1EvictionLocAssert(l2[t], c, w)) \cup
                        Fails("other_l1_holds_line", loc # c) \cup
                        Fails("line_in_both_l1s_shared", loc # NULL => line.cstate = "SHARED")
  /\ UNCHANGED <<outst, chan, dirSet, dirRepl, reqs, busy, dram>>

\* It misses in both: a request goes to the simulation thread, for which the
\* application thread waits (waitForSimThread).
Miss(t, c, lk, op, a, v) ==
  /\ app[t].pc = "idle" /\ Unlocked(t)
  /\ ~Permissible(op, l1[t][c][a].cstate)
  /\ ~Permissible(op, l2[t][a].cstate)
  /\ l1' = [l1 EXCEPT ![t] = InvalidateL1(@, c, a)]
  /\ chan' = Put(chan, t, t, Msg(IF op = "READ" THEN "SH_REQ" ELSE "EX_REQ", c, a, NULL))
  /\ app' = [app EXCEPT ![t] = [pc |-> "wait", comp |-> c, op |-> op, lock |-> lk,
                                addr |-> a, val |-> v]]
  /\ UNCHANGED <<l2, outst, dirSet, dirRepl, reqs, busy, dram, mem, failed>>

\* Access number 2, after the reply: wakeUpSimThread, then the access, which
\* must now hit in the L1.
Retry(t) ==
  LET r == app[t] IN
  /\ r.pc = "woken" /\ Unlocked(t)
  /\ failed' = Fails("second_access_hits", Permissible(r.op, l1[t][r.comp][r.addr].cstate)) \cup
               Fails("l2_holds_written_line", r.op = "WRITE" => l2[t][r.addr].cstate # "INVALID")
  /\ AccessCache(t, r.comp, r.lock, r.op, r.addr, r.val, l1[t], l2[t])
  /\ UNCHANGED <<outst, chan, dirSet, dirRepl, reqs, busy, dram>>

\* The UNLOCK WRITE that ends an atomic instruction; the lock, kept since the
\* LOCK access, is released.
Unlock(t, v) ==
  LET a == app[t].addr IN
  /\ app[t].pc = "locked" /\ failed = {}
  /\ failed' = Fails("unlock_hits_l1", Permissible("WRITE", l1[t]["L1_DCACHE"][a].cstate)) \cup
               Fails("l2_holds_written_line", l2[t][a].cstate # "INVALID")
  /\ AccessCache(t, "L1_DCACHE", "UNLOCK", "WRITE", a, v, l1[t], l2[t])
  /\ UNCHANGED <<outst, chan, dirSet, dirRepl, reqs, busy, dram>>

-----------------------------------------------------------------------------
(* The simulation thread: the L2 cache controller *)

\* What is remembered of a request until its reply: the line, and the L1
\* cache that asked for it.
Outstanding_ForgetsL1(m) == [addr |-> m.addr, comp |-> "L2_CACHE"]
Outstanding(m) == [addr |-> m.addr, comp |-> m.from]
Cleared_Not(o) == o
Cleared(o) == [o EXCEPT !.addr = NULL]

\* handleMsgFromL1Cache: a SHARED line is given up before EX_REQ is sent.
HandleL1Req(t) ==
  /\ Arrived(t, t, {"EX_REQ", "SH_REQ"}, Components)
  /\ LET m == Head(chan[t][t])
         h == Home[m.addr]
         ch == Drop(chan, t, t)
         upgrade == m.type = "EX_REQ" /\ l2[t][m.addr].cstate = "SHARED"
         given == IF upgrade THEN Put(ch, t, h, Msg("INV_REP", "L2_CACHE", m.addr, NULL)) ELSE ch
     IN  /\ failed' = Fails("one_outstanding", outst[t].addr = NULL) \cup
                      Fails("not_modified", m.type = "EX_REQ" => l2[t][m.addr].cstate # "MODIFIED")
         /\ outst' = [outst EXCEPT ![t] = Outstanding(m)]
         /\ l2' = IF upgrade THEN [l2 EXCEPT ![t][m.addr] = InvalidL2] ELSE l2
         /\ chan' = Put(given, t, h, Msg(m.type, "L2_CACHE", m.addr, NULL))
  /\ UNCHANGED <<app, l1, dirSet, dirRepl, reqs, busy, dram, mem>>

\* processExRep/ShRepFromDramDirectory: the line is inserted in the L2, whose
\* victim is sent back to its home, and in the L1; then the application
\* thread is woken and the simulation thread waits for it.
HandleRep(s, t) ==
  /\ Arrived(s, t, {"EX_REP", "SH_REP"}, {"DRAM_DIRECTORY"})
  /\ LET m == Head(chan[s][t])
         a == m.addr
         c == outst[t].comp
         st == IF m.type = "EX_REP" THEN "MODIFIED" ELSE "SHARED"
     IN  \E v \in Victims(l2[t], L2Ways) :
         LET l1v == IF v = NULL THEN l1[t] ELSE InvalidateL1(l1[t], l2[t][v].loc, v)
             l2v == [b \in Addrs |-> IF b = a THEN [cstate |-> st, data |-> m.data, loc |-> c]
                                     ELSE IF b = v THEN InvalidL2 ELSE l2[t][b]]
             ch == Drop(chan, s, t)
         IN  \E w \in Victims(l1v[c], L1Ways) :
               /\ l1' = [l1 EXCEPT ![t] = InsertInL1(l1v, c, a, [cstate |-> st, data |-> m.data], w)]
               /\ l2' = [l2 EXCEPT ![t] = ClearCachedLoc(l2v, c, w)]
               /\ chan' = CASE v = NULL -> ch
                            [] v # NULL /\ l2[t][v].cstate = "MODIFIED" ->
                                 Put(ch, t, Home[v], Msg("FLUSH_REP", "L2_CACHE", v, l2[t][v].data))
                            [] OTHER ->
                                 Put(ch, t, Home[v], Msg("INV_REP", "L2_CACHE", v, NULL))
               /\ failed' = Fails("reply_is_outstanding", outst[t].addr = a) \cup
                            Fails("app_waits", app[t].pc = "wait") \cup
                            Fails("l2_holds_evicted_l1_line", L1EvictionAssert(l2v, c, w)) \cup
                            Fails("l1d_eviction_recorded", L1EvictionLocAssert(l2v, c, w))
  /\ outst' = [outst EXCEPT ![t] = Cleared(@)]
  /\ app' = [app EXCEPT ![t].pc = IF @ = "wait" THEN "woken" ELSE @]
  /\ UNCHANGED <<dirSet, dirRepl, reqs, busy, dram, mem>>

\* A call-back of a line the L2 does not hold (any more) is ignored.
NotHeld_Never(line) == FALSE
NotHeld(line) == line.cstate = "INVALID"

\* processInvReqFromDramDirectory
HandleInvReq(s, t) ==
  /\ Arrived(s, t, {"INV_REQ"}, {"DRAM_DIRECTORY"})
  /\ LET a == Head(chan[s][t]).addr
         line == l2[t][a]
         ch == Drop(chan, s, t)
     IN  IF NotHeld(line)
         THEN chan' = ch /\ UNCHANGED <<l1, l2, failed>>
         ELSE /\ failed' = Fails("inv_of_shared", line.cstate = "SHARED")
              /\ l1' = [l1 EXCEPT ![t] = InvalidateL1(@, line.loc, a)]
              /\ l2' = [l2 EXCEPT ![t][a] = InvalidL2]
              /\ chan' = Put(ch, t, s, Msg("INV_REP", "L2_CACHE", a, NULL))
  /\ UNCHANGED <<app, outst, dirSet, dirRepl, reqs, busy, dram, mem>>

\* processFlushReqFromDramDirectory
HandleFlushReq(s, t) ==
  /\ Arrived(s, t, {"FLUSH_REQ"}, {"DRAM_DIRECTORY"})
  /\ LET a == Head(chan[s][t]).addr
         line == l2[t][a]
         ch == Drop(chan, s, t)
     IN  IF NotHeld(line)
         THEN chan' = ch /\ UNCHANGED <<l1, l2, failed>>
         ELSE /\ failed' = Fails("flush_of_modified", line.cstate = "MODIFIED")
              /\ l1' = [l1 EXCEPT ![t] = InvalidateL1(@, line.loc, a)]
              /\ l2' = [l2 EXCEPT ![t][a] = InvalidL2]
              /\ chan' = Put(ch, t, s, Msg("FLUSH_REP", "L2_CACHE", a, line.data))
  /\ UNCHANGED <<app, outst, dirSet, dirRepl, reqs, busy, dram, mem>>

\* processWbReqFromDramDirectory: the line is kept, SHARED.
HandleWbReq(s, t) ==
  /\ Arrived(s, t, {"WB_REQ"}, {"DRAM_DIRECTORY"})
  /\ LET a == Head(chan[s][t]).addr
         line == l2[t][a]
         ch == Drop(chan, s, t)
     IN  IF NotHeld(line)
         THEN chan' = ch /\ UNCHANGED <<l1, l2, failed>>
         ELSE /\ failed' = Fails("wb_of_modified", line.cstate = "MODIFIED") \cup
                           Fails("l1_line_valid", line.loc # NULL => l1[t][line.loc][a].cstate # "INVALID")
              /\ l1' = IF line.loc = NULL THEN l1
                       ELSE [l1 EXCEPT ![t][line.loc][a].cstate = "SHARED"]
              /\ l2' = [l2 EXCEPT ![t][a].cstate = "SHARED"]
              /\ chan' = Put(ch, t, s, Msg("WB_REP", "L2_CACHE", a, line.data))
  /\ UNCHANGED <<app, outst, dirSet, dirRepl, reqs, busy, dram, mem>>

-----------------------------------------------------------------------------
(* The simulation thread: the DRAM directory controller *)

\* DirectoryCache::getDirectoryEntry: an entry of the set, else a free way of
\* it, else a replaced entry, else NULL.  A way, once used, is never freed.
SetLines(h) == {b \in Addrs : Home[b] = h /\ dirSet[b] # NoEntry}
InSet(a) == dirSet[a] # NoEntry \/ Cardinality(SetLines(Home[a])) < DirWays
Entry(a) == CASE dirSet[a] # NoEntry -> dirSet[a]
              [] InSet(a) /\ dirSet[a] = NoEntry -> NewEntry
              [] OTHER -> dirRepl[a]
SetEntry(a, e) ==
  /\ dirSet' = IF InSet(a) THEN [dirSet EXCEPT ![a] = e] ELSE dirSet
  /\ dirRepl' = IF InSet(a) THEN dirRepl ELSE [dirRepl EXCEPT ![a] = e]

\* The request of line a that is being served, and the tile it is for.
Front(a) == Head(reqs[a])

\* A call of the processing function of the front request, to be made next.
Process(h, a, d) == busy' = [busy EXCEPT ![h] = Call(a, d)]

\* processNextReqFromL2Cache: the front request is done.
ProcessNext_Stops(h, a) ==
  /\ reqs' = [reqs EXCEPT ![a] = Tail(@)]
  /\ busy' = [busy EXCEPT ![h] = NotBusy]
ProcessNext(h, a) ==
  /\ reqs' = [reqs EXCEPT ![a] = Tail(@)]
  /\ busy' = [busy EXCEPT ![h] = IF Len(reqs[a]) > 1 THEN Call(a, NULL) ELSE NotBusy]
NextReqAssert(a) == Len(reqs[a]) > 1 => reqs[a][2].type # "NULLIFY_REQ"

\* retrieveDataAndSendToL2Cache: the data at hand, else DRAM's, which is
\* zeroed on first use.
DramData(a) == IF dram[a] = NULL THEN Zero ELSE dram[a]
SendData(type, h, t, a, d) ==
  /\ chan' = Put(chan, h, t, Msg(type, "DRAM_DIRECTORY", a, IF d # NULL THEN d ELSE DramData(a)))
  /\ dram' = IF d # NULL THEN dram ELSE [dram EXCEPT ![a] = DramData(a)]

\* handleMsgFromL2Cache, EX_REQ and SH_REQ: the request is queued, and
\* processed if it is the only one.
HandleL2Req(s, h) ==
  /\ Arrived(s, h, {"EX_REQ", "SH_REQ"}, {"L2_CACHE"})
  /\ LET m == Head(chan[s][h])
     IN  /\ reqs' = [reqs EXCEPT ![m.addr] = Append(@, [type |-> m.type, requester |-> s])]
         /\ IF reqs[m.addr] = << >> THEN Process(h, m.addr, NULL) ELSE UNCHANGED busy
  /\ chan' = Drop(chan, s, h)
  /\ UNCHANGED <<app, l1, l2, outst, dirSet, dirRepl, dram, mem, failed>>

\* The entry once sharer s has given up its copy.
Invalidated_FirstReply(e, s) == [RemoveSharer(e, s) EXCEPT !.dstate = "UNCACHED"]
Invalidated_ForgetsOthers(e, s) == NewEntry
Invalidated(e, s) ==
  LET r == RemoveSharer(e, s)
  IN  [r EXCEPT !.dstate = IF NumSharers(r) = 0 THEN "UNCACHED" ELSE @]

\* processInvRepFromL2Cache: a request waiting for invalidations goes on when
\* the last one is in, a read as soon as there may be room for its sharer.
HandleInvRep(s, h) ==
  /\ Arrived(s, h, {"INV_REP"}, {"L2_CACHE"})
  /\ LET a == Head(chan[s][h]).addr
         e == Entry(a)
         f == Invalidated(e, s)
     IN  /\ failed' = Fails("entry_found", e # NoEntry) \cup
                      Fails("inv_rep_when_shared", e.dstate = "SHARED") \cup
                      Fails("sharer_known", RemoveSharerAssert(e, s))
         /\ SetEntry(a, f)
         /\ IF reqs[a] # << >> /\ (Front(a).type = "SH_REQ" \/ f.dstate = "UNCACHED")
            THEN Process(h, a, NULL)
            ELSE UNCHANGED busy
  /\ chan' = Drop(chan, s, h)
  /\ UNCHANGED <<app, l1, l2, outst, reqs, dram, mem>>

\* Flushed data goes to DRAM, unless an EX_REQ waits for it.
FlushToDram_OnlyForRead(a) == reqs[a] = << >> \/ Front(a).type = "SH_REQ"
FlushToDram(a) == reqs[a] = << >> \/ Front(a).type # "EX_REQ"

\* processFlushRepFromL2Cache
HandleFlushRep(s, h) ==
  /\ Arrived(s, h, {"FLUSH_REP"}, {"L2_CACHE"})
  /\ LET m == Head(chan[s][h])
         a == m.addr
         e == Entry(a)
         toDram == FlushToDram(a)
     IN  /\ failed' = Fails("entry_found", e # NoEntry) \cup
                      Fails("flush_rep_when_modified", e.dstate = "MODIFIED") \cup
                      Fails("sharer_known", RemoveSharerAssert(e, s)) \cup
                      Fails("dram_line_exists", toDram => dram[a] # NULL)
         /\ SetEntry(a, [RemoveSharer(e, s) EXCEPT !.owner = NULL, !.dstate = "UNCACHED"])
         /\ dram' = IF toDram THEN [dram EXCEPT ![a] = m.data] ELSE dram
         /\ IF reqs[a] = << >> THEN UNCHANGED busy
            ELSE Process(h, a, IF Front(a).type = "NULLIFY_REQ" THEN NULL ELSE m.data)
  /\ chan' = Drop(chan, s, h)
  /\ UNCHANGED <<app, l1, l2, outst, reqs, mem>>

\* processWbRepFromL2Cache
HandleWbRep(s, h) ==
  /\ Arrived(s, h, {"WB_REP"}, {"L2_CACHE"})
  /\ LET m == Head(chan[s][h])
         a == m.addr
         e == Entry(a)
     IN  /\ failed' = Fails("entry_found", e # NoEntry) \cup
                      Fails("wb_rep_when_modified", e.dstate = "MODIFIED") \cup
                      Fails("sharer_known", s \in e.sharers) \cup
                      Fails("read_waits_for_wb", reqs[a] # << >> /\ Front(a).type = "SH_REQ") \cup
                      Fails("dram_line_exists", dram[a] # NULL)
         /\ SetEntry(a, [e EXCEPT !.owner = NULL, !.dstate = "SHARED"])
         /\ dram' = [dram EXCEPT ![a] = m.data]
         /\ Process(h, a, m.data)
  /\ chan' = Drop(chan, s, h)
  /\ UNCHANGED <<app, l1, l2, outst, reqs, mem>>

\* The front request of line a is about to be processed, with data d.
Processing(h, a, types) ==
  /\ failed = {} /\ busy[h].addr = a /\ Front(a).type \in types

\* processDirectoryEntryAllocationReq, entered when there is no entry: one of
\* the set without queued requests, and among those with the fewest sharers,
\* is replaced, and its copies are called back for a NULLIFY_REQ
\* (processNullifyReq).
Candidates(h) ==
  LET free == {b \in SetLines(h) : reqs[b] = << >>}
  IN  {b \in free : \A c \in free : NumSharers(dirSet[b]) <= NumSharers(dirSet[c])}
ReplaceEntry_LeavesFree(a, b) == [dirSet EXCEPT ![b] = NoEntry]
ReplaceEntry(a, b) == [dirSet EXCEPT ![a] = NewEntry, ![b] = NoEntry]
Allocate(h, a, b) ==
  /\ Processing(h, a, {"EX_REQ", "SH_REQ"})
  /\ Entry(a) = NoEntry
  /\ b \in Candidates(h)
  /\ LET e == dirSet[b]
         cached == e.dstate # "UNCACHED"
     IN  /\ dirSet' = ReplaceEntry(a, b)
         /\ dirRepl' = IF cached THEN [dirRepl EXCEPT ![b] = e] ELSE dirRepl
         /\ reqs' = IF cached
                    THEN [reqs EXCEPT ![b] = <<[type |-> "NULLIFY_REQ",
                                                requester |-> Front(a).requester]>>]
                    ELSE reqs
         /\ chan' = CASE e.dstate = "MODIFIED" ->
                           Put(chan, h, e.owner, Msg("FLUSH_REQ", "DRAM_DIRECTORY", b, NULL))
                      [] e.dstate = "SHARED" ->
                           PutAll(chan, h, InvTargets(e), Msg("INV_REQ", "DRAM_DIRECTORY", b, NULL))
                      [] OTHER -> chan
  /\ UNCHANGED <<app, l1, l2, outst, busy, dram, mem, failed>>

\* The same, when every entry of the set has queued requests.
AllocateFails(h, a) ==
  /\ Processing(h, a, {"EX_REQ", "SH_REQ"})
  /\ Entry(a) = NoEntry
  /\ Candidates(h) = {}
  /\ failed' = {"replacement_candidate_found"}
  /\ UNCHANGED <<app, l1, l2, outst, chan, dirSet, dirRepl, reqs, busy, dram, mem>>

\* processExReqFromL2Cache
ProcessExReq(h, a) ==
  LET e == Entry(a)
      d == busy[h].data
      t == Front(a).requester
      wait == busy' = [busy EXCEPT ![h] = NotBusy] /\ UNCHANGED <<dirSet, dirRepl, reqs, dram>>
  IN
  /\ Processing(h, a, {"EX_REQ"})
  /\ e # NoEntry
  /\ \/ /\ e.dstate = "MODIFIED"
        /\ failed' = Fails("no_data_at_hand", d = NULL)
        /\ chan' = Put(chan, h, e.owner, Msg("FLUSH_REQ", "DRAM_DIRECTORY", a, NULL))
        /\ wait
     \/ /\ e.dstate = "SHARED"
        /\ failed' = Fails("no_data_at_hand", d = NULL)
        /\ chan' = PutAll(chan, h, InvTargets(e), Msg("INV_REQ", "DRAM_DIRECTORY", a, NULL))
        /\ wait
     \/ /\ e.dstate = "UNCACHED"
        /\ failed' = Fails("sharer_not_yet_known", AddSharerAssert(e, t)) \cup
                     Fails("sharer_added", AddSharerSucceeds(e)) \cup
                     Fails("owner_is_sharer", t \in AddSharer(e, t).sharers) \cup
                     Fails("next_not_nullify", NextReqAssert(a))
        /\ SetEntry(a, [AddSharer(e, t) EXCEPT !.owner = t, !.dstate = "MODIFIED"])
        /\ SendData("EX_REP", h, t, a, d)
        /\ ProcessNext(h, a)
  /\ UNCHANGED <<app, l1, l2, outst, mem>>

\* processShReqFromL2Cache
ProcessShReq(h, a) ==
  LET e == Entry(a)
      d == busy[h].data
      t == Front(a).requester
      wait == busy' = [busy EXCEPT ![h] = NotBusy] /\ UNCHANGED <<dirSet, dirRepl, reqs, dram>>
  IN
  /\ Processing(h, a, {"SH_REQ"})
  /\ e # NoEntry
  /\ \/ /\ e.dstate = "MODIFIED"
        /\ failed' = Fails("no_data_at_hand", d = NULL)
        /\ chan' = Put(chan, h, e.owner, Msg("WB_REQ", "DRAM_DIRECTORY", a, NULL))
        /\ wait
     \/ /\ e.dstate = "SHARED" /\ ~AddSharerSucceeds(e)
        /\ failed' = Fails("sharer_not_yet_known", AddSharerAssert(e, t))
        /\ \E s \in e.sharers :
             chan' = Put(chan, h, s, Msg("INV_REQ", "DRAM_DIRECTORY", a, NULL))
        /\ wait
     \/ /\ \/ e.dstate = "UNCACHED"
           \/ e.dstate = "SHARED" /\ AddSharerSucceeds(e)
        /\ failed' = Fails("sharer_not_yet_known", AddSharerAssert(e, t)) \cup
                     Fails("sharer_added", AddSharerSucceeds(e)) \cup
                     Fails("next_not_nullify", NextReqAssert(a))
        /\ SetEntry(a, [AddSharer(e, t) EXCEPT !.dstate = "SHARED"])
        /\ SendData("SH_REP", h, t, a, d)
        /\ ProcessNext(h, a)
  /\ UNCHANGED <<app, l1, l2, outst, mem>>

\* processNullifyReq, once the copies have been called back and the entry is
\* UNCACHED: the replaced entry is deleted.
ProcessNullify(h, a) ==
  /\ Processing(h, a, {"NULLIFY_REQ"})
  /\ Entry(a).dstate \in {"NONE", "UNCACHED"}
  /\ failed' = Fails("nullified_entry_found", Entry(a) # NoEntry) \cup
               Fails("nullified_entry_replaced", dirRepl[a] # NoEntry) \cup
               Fails("next_not_nullify", NextReqAssert(a))
  /\ dirRepl' = [dirRepl EXCEPT ![a] = NoEntry]
  /\ ProcessNext(h, a)
  /\ UNCHANGED <<app, l1, l2, outst, chan, dirSet, dram, mem>>

-----------------------------------------------------------------------------
(* The specification *)

AppStep(t) ==
  \/ \E x \in Accesses : L1Hit(t, x[1], x[2], x[3], x[4], x[5])
  \/ \E x \in Accesses : L2Hit(t, x[1], x[2], x[3], x[4], x[5])
  \/ \E x \in Accesses : Miss(t, x[1], x[2], x[3], x[4], x[5])
  \/ Retry(t)
  \/ \E v \in Values : Unlock(t, v)

\* handleMsgFromNetwork: the packet at the head of the channel from s to d.
Receive(s, d) ==
  \/ s = d /\ HandleL1Req(d)
  \/ HandleRep(s, d)
  \/ HandleInvReq(s, d)
  \/ HandleFlushReq(s, d)
  \/ HandleWbReq(s, d)
  \/ HandleL2Req(s, d)
  \/ HandleInvRep(s, d)
  \/ HandleFlushRep(s, d)
  \/ HandleWbRep(s, d)

DirStep(h) ==
  \E a \in Addrs :
    \/ \E b \in Addrs : IF Candidates(h) = {} THEN AllocateFails(h, a) ELSE Allocate(h, a, b)
    \/ ProcessExReq(h, a)
    \/ ProcessShReq(h, a)
    \/ ProcessNullify(h, a)

Next ==
  \/ \E t \in Tiles : AppStep(t)
  \/ \E s, d \in Tiles : Receive(s, d)
  \/ \E h \in Tiles : DirStep(h)

Spec == Init /\ [][Next]_vars

\* Both threads keep running: an application thread that was woken or that is
\* in an atomic instruction goes on, a directory handler returns, and the
\* simulation thread, which competes with the application thread for the
\* tile's lock, is not locked out forever.
Fairness ==
  /\ \A t \in Tiles : WF_vars(Retry(t) \/ (\E v \in Values : Unlock(t, v)) \/ DirStep(t))
  /\ \A s, d \in Tiles : SF_vars(Receive(s, d))

FairSpec == Spec /\ Fairness

-----------------------------------------------------------------------------
(* Properties *)

TypeOK ==
  /\ app \in [Tiles -> AppStates]
  /\ l1 \in [Tiles -> [Components -> [Addrs -> L1Lines]]]
  /\ l2 \in [Tiles -> [Addrs -> L2Lines]]
  /\ outst \in [Tiles -> [addr : Addrs \cup {NULL}, comp : Components]]
  /\ chan \in [Tiles -> [Tiles -> Seq(Msgs)]]
  /\ dirSet \in [Addrs -> Entries \cup {NoEntry}]
  /\ dirRepl \in [Addrs -> Entries \cup {NoEntry}]
  /\ reqs \in [Addrs -> Seq(Reqs)]
  /\ busy \in [Tiles -> [addr : Addrs \cup {NULL}, data : Data]]
  /\ dram \in [Addrs -> Data]
  /\ mem \in [Addrs -> Values]

\* No assert or LOG_ASSERT_ERROR of the cache and directory controllers fails,
\* whatever the interleaving of requests, replies, evictions and callbacks.
NoAssertFails == failed = {}

\* At most one tile may write a line, and then no other tile may read it.
SingleWriter ==
  \A a \in Addrs : \A s, t \in Tiles :
    l2[t][a].cstate = "MODIFIED" /\ s # t => l2[s][a].cstate = "INVALID"

\* Every copy that a load may be served from, in an L1-D, an L2 or on its way
\* to one, is what was last stored to the line by any tile.
ReadsLatest ==
  \A t \in Tiles, a \in Addrs :
    /\ l2[t][a].cstate # "INVALID" => l2[t][a].data = mem[a]
    /\ l1[t]["L1_DCACHE"][a].cstate # "INVALID" => l1[t]["L1_DCACHE"][a].data = mem[a]
    /\ \A s \in Tiles : \A i \in DOMAIN chan[s][t] :
         LET m == chan[s][t][i]
         IN  m.addr = a /\ m.type \in {"EX_REP", "SH_REP"} => m.data = mem[a]

\* The L2 is inclusive of the L1-D: a line valid in the L1-D is valid in the
\* L2 with the same state, and the L2 records where it is.
L1DInclusion ==
  \A t \in Tiles, a \in Addrs :
    LET line == l1[t]["L1_DCACHE"][a]
    IN  line.cstate # "INVALID" => /\ l2[t][a].cstate = line.cstate
                                   /\ l2[t][a].loc = "L1_DCACHE"

\* From the LOCK to the UNLOCK access of an atomic instruction (the memory
\* manager's lock is kept in between) the tile keeps the line MODIFIED, with
\* the value last stored by any tile: no other store comes between the two.
AtomicUpdate ==
  \A t \in Tiles : app[t].pc = "locked" =>
    LET line == l1[t]["L1_DCACHE"][app[t].addr]
    IN  line.cstate = "MODIFIED" /\ line.data = mem[app[t].addr]

\* An entry in the replaced list is never hidden by a free way of its set, and
\* no line has both an entry in the set and a replaced one.
ReplacedNotShadowed ==
  \A a \in Addrs : dirRepl[a] # NoEntry => ~InSet(a)

\* "Cant find a directory entry to be replaced with a non-zero request list":
\* the assert of processDirectoryEntryAllocationReq, dram_directory_cntlr.cc.
ReplacementCandidateFound == "replacement_candidate_found" \notin failed

\* A line that an L1 evicts is in the L2, where its present bit is to be
\* cleared: the assert of Cache::setCacheLineInfo, which insertCacheLineInL1
\* calls.
EvictedL1LineInL2 == "l2_holds_evicted_l1_line" \notin failed

\* The directory answers every request once: of the request an L2 has
\* outstanding there is exactly one trace, the message, its place in the
\* queue of the line, or the reply, and there is none of any other.
RequestAnsweredOnce ==
  \A t \in Tiles, a \in Addrs :
    LET queued == {i \in DOMAIN reqs[a] : reqs[a][i].type # "NULLIFY_REQ" /\ reqs[a][i].requester = t}
        sent == {i \in DOMAIN chan[t][Home[a]] :
                   LET m == chan[t][Home[a]][i]
                   IN  m.from = "L2_CACHE" /\ m.type \in {"EX_REQ", "SH_REQ"} /\ m.addr = a}
        replied == {i \in DOMAIN chan[Home[a]][t] :
                      LET m == chan[Home[a]][t][i]
                      IN  m.type \in {"EX_REP", "SH_REP"} /\ m.addr = a}
    IN  Cardinality(queued) + Cardinality(sent) + Cardinality(replied)
          = IF outst[t].addr = a THEN 1 ELSE 0

\* Every miss is eventually served.
MissServed == \A t \in Tiles : app[t].pc = "wait" ~> app[t].pc # "wait"

=============================================================================

--------------------------- MODULE SockTransport ---------------------------
(***************************************************************************)
(* transport/socktransport.cc: how a message gets from a thread of one     *)
(* host process to the thread that reads a node.  The messages of a node   *)
(* wait in a buffer list that a semaphore counts.  A sender in the same    *)
(* process puts a message straight into the list; one in another process   *)
(* writes it to a socket, which the update thread of the destination       *)
(* empties.  The main thread of each process stands for the senders; it    *)
(* also calls barrier() and then deletes the transport.                    *)
(***************************************************************************)
EXTENDS FutexSemaphore, Integers, Sequences

CONSTANTS NumProcs,   \* m_num_procs
          Nodes,      \* the tiles, and the global node of each process
          ProcOf,     \* the process of a node
          Workloads,  \* how many messages each process sends, and how many
                      \* barriers they pass
          MaxSends,
          NULL

Procs == 0..NumProcs - 1
BarrierSem(p) == <<"barrier", p>>
TerminateTag(p) == <<"terminate", p>>

\* The threads: one reader per node, and per process the update thread and
\* the main thread.
Reader(n) == <<"reader", n>>
Update(p) == <<"update", p>>
Main(p) == <<"main", p>>

AllSems == Nodes \cup {BarrierSem(p) : p \in Procs}
AllWaiters == {Reader(n) : n \in Nodes} \cup {Main(p) : p \in Procs}
Threads == AllWaiters \cup {Update(p) : p \in Procs}

\* A node belongs to a process, the semaphores and the threads that wait are the
\* ones above, and no node is mistaken for a tag of the transport's own.
ASSUME SockAssumption ==
  /\ NumProcs \in Nat \ {0} /\ ProcOf \in [Nodes -> Procs]
  /\ Workloads \subseteq [sends : [Procs -> Nat], barriers : Nat]
  /\ Sems = AllSems /\ Waiters = AllWaiters /\ NULL \notin AllSems
  /\ \A p \in Procs : BarrierSem(p) \notin Nodes /\ TerminateTag(p) \notin Nodes

VARIABLES sock,       \* sock[p][q]: what p has sent to q and q has not received
          list,       \* m_buffer_lists
          owes,       \* the semaphore a thread is about to signal, or NULL
          updating,   \* m_update_thread_state
          main        \* where the main thread is, how much it sends and has
                      \* sent, and the barriers it passes, has entered and left

listVars == <<sock, list, owes>>
vars == <<sem, at, sock, list, owes, updating, main>>

Init ==
  /\ SemInit
  /\ \A n \in Nodes : at[Reader(n)].on = n
  /\ \A p \in Procs : at[Main(p)].on = BarrierSem(p)
  /\ sock = [p \in Procs |-> [q \in Procs |-> << >>]]
  /\ list = [n \in Nodes |-> << >>]
  /\ owes = [th \in Threads |-> NULL]
  /\ updating = [p \in Procs |-> "RUNNING"]
  /\ \E load \in Workloads : main = [p \in Procs |->
        [pc |-> "run", sends |-> load.sends[p], sent |-> 0,
         barriers |-> load.barriers, entered |-> 0, left |-> 0]]

Packet(p, tag, msg) == [from |-> p, tag |-> tag, msg |-> msg]

\* Mutants: the buffer is put in front of the others; only the first buffer of
\* a list is signalled.
InsertInBufferList_Front(th, n, pkt) ==
  /\ list' = [list EXCEPT ![n] = <<pkt>> \o @]
  /\ owes' = [owes EXCEPT ![th] = n]
InsertInBufferList_SignalsFirst(th, n, pkt) ==
  /\ list' = [list EXCEPT ![n] = Append(@, pkt)]
  /\ owes' = [owes EXCEPT ![th] = IF list[n] = << >> THEN n ELSE NULL]

\* insertInBufferList up to the release of the list's lock.
InsertInBufferList(th, n, pkt) ==
  /\ list' = [list EXCEPT ![n] = Append(@, pkt)]
  /\ owes' = [owes EXCEPT ![th] = n]

\* The end of insertInBufferList, or the signal of BARRIER_TAG.
SignalSem(th) ==
  /\ owes[th] # NULL
  /\ Signal(owes[th])
  /\ owes' = [owes EXCEPT ![th] = NULL]
  /\ UNCHANGED <<sock, list, updating, main>>

\* What barrier() and terminateUpdateThread() write: a packet without a node.
SendTag(p, q, tag) ==
  /\ sock' = [sock EXCEPT ![p][q] = Append(@, Packet(p, tag, NULL))]
  /\ UNCHANGED <<list, owes>>
-----------------------------------------------------------------------------
(* The update thread.                                                      *)

\* One turn of the inner loop of updateBufferLists that finds a packet in the
\* socket of process i.  Packets take any time to arrive, so any socket may be
\* the next that is not empty.  A packet that is received is seen by no other
\* thread before it is in its list.
UpdateBufferLists(p, i) ==
  LET th == Update(p)
      pkt == Head(sock[i][p])
  IN  /\ updating[p] = "RUNNING" /\ owes[th] = NULL
      /\ sock[i][p] # << >>
      /\ sock' = [sock EXCEPT ![i][p] = Tail(@)]
      /\ CASE pkt.tag = TerminateTag(p) ->
                updating' = [updating EXCEPT ![p] = "EXITING"] /\ UNCHANGED <<list, owes>>
           [] pkt.tag = BarrierSem(p) ->
                owes' = [owes EXCEPT ![th] = BarrierSem(p)] /\ UNCHANGED <<list, updating>>
           [] OTHER -> InsertInBufferList(th, pkt.tag, pkt) /\ UNCHANGED updating
      /\ UNCHANGED <<semVars, main>>

\* updateThreadFunc leaves its loop.
UpdateExits(p) ==
  /\ updating[p] = "EXITING"
  /\ updating' = [updating EXCEPT ![p] = "EXITED"]
  /\ UNCHANGED <<semVars, listVars, main>>
-----------------------------------------------------------------------------
(* SockNode::recv, called again and again by the reader of a node.         *)

RecvWaits(n) ==
  /\ Call(Reader(n), n)
  /\ UNCHANGED <<listVars, updating, main>>

\* Mutant: front() without pop_front().
RecvTakes_Stays(n) ==
  /\ Return(Reader(n))
  /\ UNCHANGED <<list, sock, owes, updating, main>>

RecvTakes(n) ==
  /\ Return(Reader(n))
  /\ list' = [list EXCEPT ![n] = Tail(@)]
  /\ UNCHANGED <<sock, owes, updating, main>>
-----------------------------------------------------------------------------
(* The main thread.                                                        *)

AtMain(p, pc) == main[p].pc = pc /\ owes[Main(p)] = NULL

\* SockNode::send.  After a barrier a process sends to itself only, as
\* quitSimThreads does, and after the last one nothing.
Send(p, n) ==
  LET pkt == Packet(p, n, main[p].sent + 1)
  IN  /\ AtMain(p, "run") /\ main[p].sent < main[p].sends
      /\ main[p].left < main[p].barriers /\ (main[p].left = 0 \/ ProcOf[n] = p)
      /\ main' = [main EXCEPT ![p].sent = @ + 1]
      /\ \/ /\ ProcOf[n] = p
            /\ InsertInBufferList(Main(p), n, pkt)
            /\ UNCHANGED sock
         \/ /\ ProcOf[n] # p
            /\ sock' = [sock EXCEPT ![p][ProcOf[n]] = Append(@, pkt)]
            /\ UNCHANGED <<list, owes>>
      /\ UNCHANGED <<semVars, updating>>

RingNext(p) == (p + 1) % NumProcs

\* barrier(): two trips around the ring of processes.  Process 0 starts the
\* first one without a wait, the last process ends the second.
BarrierEnters(p) ==
  /\ AtMain(p, "run") /\ main[p].entered < main[p].barriers
  /\ \/ /\ p = 0
        /\ SendTag(p, RingNext(p), BarrierSem(RingNext(p)))
        /\ main' = [main EXCEPT ![p].pc = "sent", ![p].entered = @ + 1]
        /\ UNCHANGED semVars
     \/ /\ p # 0
        /\ Call(Main(p), BarrierSem(p))
        /\ main' = [main EXCEPT ![p].pc = "first", ![p].entered = @ + 1]
        /\ UNCHANGED listVars
  /\ UNCHANGED updating

BarrierForwards(p) ==
  /\ AtMain(p, "first")
  /\ Return(Main(p))
  /\ SendTag(p, RingNext(p), BarrierSem(RingNext(p)))
  /\ main' = [main EXCEPT ![p].pc = "sent"]
  /\ UNCHANGED updating

BarrierWaits(p) ==
  /\ AtMain(p, "sent")
  /\ Call(Main(p), BarrierSem(p))
  /\ main' = [main EXCEPT ![p].pc = "second"]
  /\ UNCHANGED <<listVars, updating>>

\* Mutant: process 0 ends the second trip.
BarrierLeaves_FirstEnds(p) ==
  /\ AtMain(p, "second")
  /\ Return(Main(p))
  /\ IF p # 0
     THEN SendTag(p, RingNext(p), BarrierSem(RingNext(p)))
     ELSE UNCHANGED listVars
  /\ main' = [main EXCEPT ![p].pc = "run", ![p].left = @ + 1]
  /\ UNCHANGED updating

BarrierLeaves(p) ==
  /\ AtMain(p, "second")
  /\ Return(Main(p))
  /\ IF p # NumProcs - 1
     THEN SendTag(p, RingNext(p), BarrierSem(RingNext(p)))
     ELSE UNCHANGED listVars
  /\ main' = [main EXCEPT ![p].pc = "run", ![p].left = @ + 1]
  /\ UNCHANGED updating

\* ~SockTransport.
TerminateUpdateThread(p) ==
  /\ AtMain(p, "run") /\ main[p].left = main[p].barriers
  /\ SendTag(p, p, TerminateTag(p))
  /\ main' = [main EXCEPT ![p].pc = "terminate"]
  /\ UNCHANGED <<semVars, updating>>

Terminated(p) ==
  /\ AtMain(p, "terminate") /\ updating[p] = "EXITED"
  /\ main' = [main EXCEPT ![p].pc = "exit"]
  /\ UNCHANGED <<semVars, listVars, updating>>
-----------------------------------------------------------------------------
SemStep(w) ==
  /\ Test(w) \/ FutexWait(w)
  /\ UNCHANGED <<listVars, updating, main>>

SemInterrupted(w) ==
  /\ Interrupted(w)
  /\ UNCHANGED <<listVars, updating, main>>

UpdateStep(p) ==
  \/ \E i \in Procs : UpdateBufferLists(p, i)
  \/ UpdateExits(p) \/ SignalSem(Update(p))
ReaderStep(n) == RecvWaits(n) \/ RecvTakes(n) \/ SemStep(Reader(n))
MainStep(p) ==
  \/ BarrierEnters(p) \/ BarrierForwards(p) \/ BarrierWaits(p) \/ BarrierLeaves(p)
  \/ TerminateUpdateThread(p) \/ Terminated(p)
  \/ SemStep(Main(p)) \/ SignalSem(Main(p))

Next ==
  \/ \E p \in Procs : UpdateStep(p) \/ MainStep(p) \/ \E n \in Nodes : Send(p, n)
  \/ \E n \in Nodes : ReaderStep(n)
  \/ \E w \in Waiters : SemInterrupted(w)

\* The host runs every thread.
Fairness ==
  /\ \A p \in Procs : WF_vars(UpdateStep(p)) /\ WF_vars(MainStep(p))
  /\ \A n \in Nodes : WF_vars(ReaderStep(n))

Spec == Init /\ [][Next]_vars
FairSpec == Spec /\ Fairness
-----------------------------------------------------------------------------
Owing(s) == {th \in Threads : owes[th] = s}
Passed(s) == {w \in Waiters : at[w].on = s /\ at[w].pc = "passed"}

\* The semaphore of a node counts the buffers of its list, less those whose
\* signal is still to come and those that a reader has been let in for.  So
\* "Buffer list empty after waiting on semaphore." is never reported, and no
\* buffer is left in a list that no signal tells of.
ListCounted ==
  \A n \in Nodes :
    Len(list[n]) = sem[n].count + Cardinality(Passed(n)) + Cardinality(Owing(n))

\* What makes ListCounted inductive: a thread waits on its own semaphore only,
\* so that the reader of a node is the only one let in for its buffers, and a
\* socket of process p holds packets for p's lists, barrier and update thread.
TagsTo(p) == Nodes \cup {BarrierSem(p), TerminateTag(p)}
Packets == [from : Procs, tag : UNION {TagsTo(p) : p \in Procs}, msg : Nat \cup {NULL}]

MainPcs == {"run", "first", "sent", "second", "terminate", "exit"}
Mains == [pc : MainPcs, sends : Nat, sent : Nat, barriers : Nat, entered : Nat, left : Nat]

ForProc(p, pkts) == pkts \in Seq(Packets) /\ \A k \in DOMAIN pkts : pkts[k].tag \in TagsTo(p)

SockOK ==
  /\ sock \in [Procs -> [Procs -> Seq(Packets)]]
  /\ \A i, p \in Procs : ForProc(p, sock[i][p])

SockTypeOK ==
  /\ SockOK
  /\ list \in [Nodes -> Seq(Packets)]
  /\ owes \in [Threads -> AllSems \cup {NULL}]
  /\ main \in [Procs -> Mains]

OwnSemaphores ==
  /\ \A n \in Nodes : at[Reader(n)].on = n
  /\ \A p \in Procs : at[Main(p)].on = BarrierSem(p)

SockInv == SemInv /\ SockTypeOK /\ OwnSemaphores /\ ListCounted

\* The transport that the rest of the simulator sees.
Of(p, n, pkts) == SelectSeq(pkts, LAMBDA pkt : pkt.from = p /\ pkt.tag = n)
InTransit(p, n) == Of(p, n, list[n]) \o Of(p, n, sock[p][ProcOf[n]])

Promised == INSTANCE Transport
  WITH Msgs <- {Packet(p, n, i) : p \in Procs, n \in Nodes, i \in 1..MaxSends},
       chan <- [p \in Procs |-> [n \in Nodes |-> InTransit(p, n)]],
       entered <- [p \in Procs |-> main[p].entered],
       left <- [p \in Procs |-> main[p].left]

\* SockTransport implements Transport: messages of one process to one node are
\* neither lost, repeated nor reordered, whichever way they go, and nobody
\* leaves a barrier before all have entered it.
KeepsPromise == Promised!TransportSpec

\* Every buffer that is put into a list is received: the semaphore lets the
\* reader in as often as there are buffers.
Delivered == \A n \in Nodes : list[n] # << >> ~> list[n] = << >>

\* Every process gets through its barriers and ends its update thread.
AllExit == <>(\A p \in Procs : main[p].pc = "exit")
=============================================================================

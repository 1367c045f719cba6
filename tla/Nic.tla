--------------------------------- MODULE Nic ---------------------------------
(* The way of packets between the protocols and the wire: the e1000 driver   *)
(* (e1000.c), the transmit batches of netif.c, and the input queues of       *)
(* netisr.c and netqueue.c.  The kernel runs with interrupts off, so a CPU   *)
(* does one job after the other: a system call that sends, with or without   *)
(* the net lock, an interrupt, or a poll of the interfaces.  Transmitting    *)
(* takes no lock: frames are pushed on a list with compare-and-exchange, and *)
(* whoever gets tx_busy moves all of them to the ring.  The card works on    *)
(* its rings meanwhile.                                                      *)
EXTENDS Integers, Sequences, SequencesExt, FiniteSets

CONSTANTS
  Procs,        \* the CPUs
  IrqCpu,       \* the CPU with the card's interrupt
  NTx, NRx,     \* E1000_NUM_TX_DESC, E1000_NUM_RX_DESC
  MaxParts,     \* buffers that a frame has at most
  TxBatch,      \* E1000_TX_BATCH
  NqLen,        \* length of a netisr queue
  NicCases      \* the jobs of each CPU, the packets that arrive

NicJobs == [op : {"call", "fast", "poll", "tick"}, frames : Seq({"wire"})]
NicCaseType == [jobs : [Procs -> Seq(NicJobs)], packets : Nat, echo : SUBSET Nat, bad : Nat]
ASSUME NicAssumption ==
  /\ IsFiniteSet(Procs) /\ 0 \notin Procs
  /\ NTx \in Nat /\ NTx > 1 /\ NRx \in Nat /\ NRx > 1
  /\ TxBatch \in Nat \ {0} /\ MaxParts \in Nat \ {0} /\ NqLen \in Nat
  /\ NicCases \subseteq NicCaseType

VARIABLES
  cpus,     \* what each CPU does
  netlock,  \* its owner, 0: free
  tx,       \* tx_pending (newest first), its count, tx_busy, the ring (dd, addr: the frame a
            \* descriptor still unsent points at, negative in all but its last), tx_netbufs, tx_cur, tx_clean, tx_tail
  rx,       \* the receive ring: status and contents, rx_cur, tail, rx_lock, interrupt cause
  nq,       \* the netisr queue
  refs,     \* refcount of the interface
  nicLog,   \* frames pushed and alive, frames on the wire, packets handed to a protocol
  nicCase
nicVars == <<cpus, netlock, tx, rx, nq, refs, nicLog, nicCase>>

CpuIdle == [pc |-> "idle", after |-> "fin", todo |-> <<>>, fret |-> "fin", tret |-> "poll", list |-> <<>>, depth |-> 0, bell |-> FALSE, last |-> -1]
NicInit(cases) ==
  /\ nicCase \in cases
  /\ cpus = [c \in Procs |-> CpuIdle] /\ netlock = 0
  /\ tx = [pending |-> <<>>, count |-> 0, busy |-> 0, dd |-> [i \in 0..(NTx - 1) |-> TRUE], nb |-> [i \in 0..(NTx - 1) |-> 0],
           addr |-> [i \in 0..(NTx - 1) |-> 0], cur |-> 0, clean |-> 0, tail |-> 0, head |-> 0]
  /\ rx = [dd |-> [i \in 0..(NRx - 1) |-> FALSE], pkt |-> [i \in 0..(NRx - 1) |-> 0], cur |-> 0, head |-> 0, tail |-> NRx - 1, lock |-> 0, icr |-> FALSE]
  /\ nq = <<>> /\ refs = 1
  /\ nicLog = [pushed |-> 0, live |-> {}, wire |-> <<>>, handed |-> <<>>, arrived |-> 0]

Goto(c, pc) == cpus' = [cpus EXCEPT ![c].pc = pc]

-----------------------------------------------------------------------------
(* Transmission *)

(* Frame f has this many buffers, a descriptor each. *)
Parts(f) == 1 + ((f - 1) % MaxParts)
Oldest(stack) == Reverse(stack)

(* e1000_transmit: push the frame; ring the bell later if a batch is open. *)
netif_tx_defer(c) == cpus[c].depth > 0
e1000_transmit(c) ==
  /\ cpus[c].pc = "tx" /\ cpus[c].todo # <<>>
  /\ LET f == nicLog.pushed + 1
         rings == tx.count + 1 >= TxBatch \/ ~netif_tx_defer(c)
         next == [cpus[c] EXCEPT !.todo = Tail(@), !.fret = "tx"]
     IN /\ tx' = [tx EXCEPT !.pending = <<f>> \o @, !.count = @ + 1]
        /\ nicLog' = [nicLog EXCEPT !.pushed = f, !.live = @ \cup {f}]
        /\ cpus' = [cpus EXCEPT ![c] = IF rings THEN [next EXCEPT !.pc = "f1"] ELSE [next EXCEPT !.bell = TRUE]]
        /\ refs' = IF ~rings /\ ~cpus[c].bell THEN refs + 1 ELSE refs
  /\ UNCHANGED <<netlock, rx, nq, nicCase>>
TxDone(c) ==
  /\ cpus[c].pc = "tx" /\ cpus[c].todo = <<>> /\ Goto(c, cpus[c].tret)
  /\ UNCHANGED <<netlock, tx, rx, nq, refs, nicLog, nicCase>>

(* e1000_tx_flush: leave if there is nothing, or somebody else is at it. *)
FlushStarts(c) ==
  /\ cpus[c].pc = "f1" /\ Goto(c, IF tx.pending = <<>> THEN cpus[c].fret ELSE "f2")
  /\ UNCHANGED <<netlock, tx, rx, nq, refs, nicLog, nicCase>>
FlushClaims(c) ==
  /\ cpus[c].pc = "f2"
  /\ Goto(c, IF tx.busy # 0 THEN cpus[c].fret ELSE "f3")
  /\ tx' = [tx EXCEPT !.busy = IF @ = 0 THEN c ELSE @]
  /\ UNCHANGED <<netlock, rx, nq, refs, nicLog, nicCase>>

e1000_tx_free(T) == (NTx - 1) - ((T.cur + NTx - T.clean) % NTx)
Sent(T, i) == T.dd[i]
(* How many descriptors the loop goes past: up to tx_cur or to one not sent. *)
Finished(T) ==
  LET used == (T.cur + NTx - T.clean) % NTx
  IN CHOOSE n \in 0..used : /\ \A k \in 0..(n - 1) : Sent(T, (T.clean + k) % NTx)
                            /\ n = used \/ ~Sent(T, (T.clean + n) % NTx)
(* The ring and the frames still allocated, after these are taken back. *)
e1000_reclaim_tx(T, live) ==
  LET n == Finished(T)  done == {(T.clean + k) % NTx : k \in 0..(n - 1)}
  IN [t |-> [T EXCEPT !.clean = (T.clean + n) % NTx, !.nb = [i \in 0..(NTx - 1) |-> IF i \in done THEN 0 ELSE T.nb[i]]],
      live |-> live \ {T.nb[i] : i \in done}]
e1000_tx_ring_doorbell(T) == [T EXCEPT !.tail = T.cur]

FlushTakes(c) ==
  /\ cpus[c].pc = "f3"
  /\ LET T == [tx EXCEPT !.pending = <<>>, !.count = @ - Len(tx.pending)]
         r == e1000_reclaim_tx(T, nicLog.live)
     IN tx' = r.t /\ nicLog' = [nicLog EXCEPT !.live = r.live]
  /\ cpus' = [cpus EXCEPT ![c].pc = "f4", ![c].list = Oldest(tx.pending)]
  /\ UNCHANGED <<netlock, rx, nq, refs, nicCase>>
(* The descriptors of a frame, filled from tx_cur on. *)
Filled(T, f) ==
  LET n == Parts(f)
      slots == {(T.cur + i) % NTx : i \in 0..(n - 1)}
      last == (T.cur + n - 1) % NTx
  IN [T EXCEPT !.dd = [i \in 0..(NTx - 1) |-> IF i \in slots THEN FALSE ELSE T.dd[i]],
               !.nb = [i \in 0..(NTx - 1) |-> IF i = last THEN f ELSE IF i \in slots THEN 0 ELSE T.nb[i]],
               !.addr = [i \in 0..(NTx - 1) |-> IF i = last THEN f ELSE IF i \in slots THEN -f ELSE T.addr[i]],
               !.cur = (T.cur + n) % NTx]
(* One frame to the ring.  With few descriptors free, what is there is sent  *)
(* and reclaimed first; a frame that does not fit is dropped.                *)
e1000_tx_enqueue(c) ==
  /\ cpus[c].pc = "f4" /\ cpus[c].list # <<>>
  /\ LET f == Head(cpus[c].list)
         r == IF e1000_tx_free(tx) < TxBatch THEN e1000_reclaim_tx(e1000_tx_ring_doorbell(tx), nicLog.live)
              ELSE [t |-> tx, live |-> nicLog.live]
         T == Filled(r.t, f)
         unsent == (T.cur + NTx - T.tail) % NTx
     IN IF Parts(f) > e1000_tx_free(r.t)
        THEN tx' = r.t /\ nicLog' = [nicLog EXCEPT !.live = r.live \ {f}]
        ELSE tx' = (IF unsent >= TxBatch THEN e1000_tx_ring_doorbell(T) ELSE T) /\ nicLog' = [nicLog EXCEPT !.live = r.live]
  /\ cpus' = [cpus EXCEPT ![c].list = Tail(@)]
  /\ UNCHANGED <<netlock, rx, nq, refs, nicCase>>
FlushRings(c) ==
  /\ cpus[c].pc = "f4" /\ cpus[c].list = <<>>
  /\ tx' = e1000_tx_ring_doorbell(tx) /\ Goto(c, "f5")
  /\ UNCHANGED <<netlock, rx, nq, refs, nicLog, nicCase>>
(* Faulty variant: what came in while the ring was busy is not looked at. *)
LeavesAtOnce(c) == cpus[c].fret
LooksAgain(c) == "f1"
FlushReleases(c) ==
  /\ cpus[c].pc = "f5" /\ tx' = [tx EXCEPT !.busy = 0] /\ Goto(c, LooksAgain(c))
  /\ UNCHANGED <<netlock, rx, nq, refs, nicLog, nicCase>>
(* e1000_tx_try_reclaim, on the way of a poll; somebody at the ring is left alone. *)
ReclaimClaims(c) ==
  /\ cpus[c].pc = "reclaim"
  /\ tx' = [tx EXCEPT !.busy = IF @ = 0 THEN c ELSE @]
  /\ cpus' = [cpus EXCEPT ![c].pc = IF tx.busy = 0 THEN "reclaim2" ELSE "f1", ![c].fret = "exit"]
  /\ UNCHANGED <<netlock, rx, nq, refs, nicLog, nicCase>>
e1000_tx_try_reclaim(c) ==
  /\ cpus[c].pc = "reclaim2"
  /\ LET r == e1000_reclaim_tx(tx, nicLog.live)
     IN tx' = [r.t EXCEPT !.busy = 0] /\ nicLog' = [nicLog EXCEPT !.live = r.live]
  /\ Goto(c, "f1")
  /\ UNCHANGED <<netlock, rx, nq, refs, nicCase>>

(* net_lock_exit and netif_tx_batch_end: the last one out rings the bells. *)
net_lock_exit(c) ==
  /\ cpus[c].pc = "exit" /\ netlock' = 0
  /\ cpus' = [cpus EXCEPT ![c].pc = "bell", ![c].depth = @ - 1]
  /\ UNCHANGED <<tx, rx, nq, refs, nicLog, nicCase>>
netif_tx_flush(c) ==
  /\ cpus[c].pc = "bell"
  /\ cpus' = [cpus EXCEPT ![c].pc = IF cpus[c].bell THEN "f1" ELSE "fin", ![c].fret = "rung", ![c].bell = FALSE]
  /\ UNCHANGED <<netlock, tx, rx, nq, refs, nicLog, nicCase>>
BellRung(c) ==
  /\ cpus[c].pc = "rung" /\ refs' = refs - 1 /\ cpus' = [cpus EXCEPT ![c].pc = "fin", ![c].fret = "fin"]
  /\ UNCHANGED <<netlock, tx, rx, nq, nicLog, nicCase>>

-----------------------------------------------------------------------------
(* Reception *)

netqueue_enqueue(q) == Len(q) < NqLen
TakesRef(n) == n
(* netisr_queue: the packet keeps a reference to its interface. *)
netisr_queue(p) ==
  IF netqueue_enqueue(nq) THEN nq' = Append(nq, p) /\ refs' = refs + TakesRef(1) ELSE UNCHANGED <<nq, refs>>

RxLocks(c) ==
  /\ cpus[c].pc = "rx1" /\ rx.lock = 0 /\ rx' = [rx EXCEPT !.lock = c]
  /\ cpus' = [cpus EXCEPT ![c].pc = "rx2", ![c].last = -1]
  /\ UNCHANGED <<netlock, tx, nq, refs, nicLog, nicCase>>
Clears(d, i) == [d EXCEPT ![i] = FALSE]
(* One turn of e1000_handle_receive; eth_input passes the packet on unless it is damaged. *)
e1000_handle_receive(c) ==
  /\ cpus[c].pc = "rx2" /\ rx.dd[rx.cur]
  /\ LET p == rx.pkt[rx.cur]
     IN IF nicCase.bad = p THEN UNCHANGED <<nq, refs>> ELSE netisr_queue(p)
  /\ rx' = [rx EXCEPT !.dd = Clears(@, rx.cur), !.cur = (@ + 1) % NRx]
  /\ cpus' = [cpus EXCEPT ![c].last = rx.cur]
  /\ UNCHANGED <<netlock, tx, nicLog, nicCase>>
RxUnlocks(c) ==
  /\ cpus[c].pc = "rx2" /\ ~rx.dd[rx.cur]
  /\ rx' = [rx EXCEPT !.lock = 0, !.tail = IF cpus[c].last >= 0 THEN cpus[c].last ELSE @]
  /\ Goto(c, cpus[c].after)
  /\ UNCHANGED <<netlock, tx, nq, refs, nicLog, nicCase>>

(* netisr_poll: with a long queue the CPU waits for the net lock, otherwise  *)
(* it leaves the packets to somebody else when the lock is taken.            *)
netisr_backlogged == Len(nq) >= NqLen \div 2
netisr_poll(c) ==
  /\ cpus[c].pc = "poll"
  /\ \/ /\ netlock = c \/ nq = <<>> \/ (netlock # 0 /\ ~netisr_backlogged)
        /\ Goto(c, IF netlock = c THEN "drain" ELSE "fin") /\ UNCHANGED netlock
     \/ /\ nq # <<>> /\ netlock = 0
        /\ netlock' = c /\ cpus' = [cpus EXCEPT ![c].pc = "drain", ![c].depth = @ + 1]
  /\ UNCHANGED <<tx, rx, nq, refs, nicLog, nicCase>>
(* netisr_drain: the handler may answer with a frame. *)
netisr_drain(c) ==
  /\ cpus[c].pc = "drain"
  /\ IF nq = <<>> THEN Goto(c, "exit") /\ UNCHANGED <<nq, refs, nicLog>>
     ELSE /\ nq' = Tail(nq) /\ refs' = IF Head(nq) \in nicCase.echo THEN refs ELSE refs - 1
          /\ nicLog' = [nicLog EXCEPT !.handed = Append(@, Head(nq))]
          /\ cpus' = IF Head(nq) \in nicCase.echo THEN [cpus EXCEPT ![c].pc = "tx", ![c].todo = <<"wire">>, ![c].tret = "rele"] ELSE cpus
  /\ UNCHANGED <<netlock, tx, rx, nicCase>>
netif_rele(c) ==
  /\ cpus[c].pc = "rele" /\ refs' = refs - 1 /\ Goto(c, "drain")
  /\ UNCHANGED <<netlock, tx, rx, nq, nicLog, nicCase>>

-----------------------------------------------------------------------------
(* The jobs of a CPU *)

Starts(c) ==
  /\ cpus[c].pc = "idle" /\ nicCase.jobs[c] # <<>>
  /\ LET j == Head(nicCase.jobs[c])
     IN cpus' = [cpus EXCEPT ![c] =
          CASE j.op = "call" -> [CpuIdle EXCEPT !.pc = "lock", !.after = "tx", !.todo = j.frames]
            [] j.op = "fast" -> [CpuIdle EXCEPT !.pc = "tx", !.todo = j.frames]
            [] j.op = "poll" -> [CpuIdle EXCEPT !.pc = "lock", !.after = "rx1"]
            [] j.op = "tick" -> [CpuIdle EXCEPT !.pc = "poll"]]
  /\ nicCase' = [nicCase EXCEPT !.jobs[c] = Tail(@)]
  /\ UNCHANGED <<netlock, tx, rx, nq, refs, nicLog>>
net_lock_enter(c) ==
  /\ cpus[c].pc = "lock" /\ netlock = 0 /\ netlock' = c
  /\ cpus' = [cpus EXCEPT ![c].pc = cpus[c].after, ![c].depth = @ + 1, ![c].after = IF cpus[c].after = "rx1" THEN "reclaim" ELSE @]
  /\ UNCHANGED <<tx, rx, nq, refs, nicLog, nicCase>>
e1000_interrupt(c) ==
  /\ c = IrqCpu /\ cpus[c].pc = "idle" /\ rx.icr
  /\ rx' = [rx EXCEPT !.icr = FALSE]
  /\ cpus' = [cpus EXCEPT ![c] = [CpuIdle EXCEPT !.pc = "rx1", !.after = "poll"]]
  /\ UNCHANGED <<netlock, tx, nq, refs, nicLog, nicCase>>
Finishes(c) ==
  /\ cpus[c].pc = "fin" /\ cpus' = [cpus EXCEPT ![c] = CpuIdle]
  /\ UNCHANGED <<netlock, tx, rx, nq, refs, nicLog, nicCase>>

(* The card sends the next descriptor it was told of, and stores packets     *)
(* that arrive as long as it has descriptors.                                *)
CardSends ==
  /\ tx.head # tx.tail
  /\ tx' = [tx EXCEPT !.dd[tx.head] = TRUE, !.addr[tx.head] = 0, !.head = (@ + 1) % NTx]
  /\ nicLog' = [nicLog EXCEPT !.wire = IF tx.addr[tx.head] > 0 THEN Append(@, tx.addr[tx.head]) ELSE @]
  /\ UNCHANGED <<cpus, netlock, rx, nq, refs, nicCase>>
CardReceives ==
  /\ nicLog.arrived < nicCase.packets
  /\ nicLog' = [nicLog EXCEPT !.arrived = @ + 1]
  /\ rx' = IF rx.head = rx.tail THEN [rx EXCEPT !.icr = TRUE]
           ELSE [rx EXCEPT !.icr = TRUE, !.dd[rx.head] = TRUE, !.pkt[rx.head] = nicLog.arrived + 1, !.head = (@ + 1) % NRx]
  /\ UNCHANGED <<cpus, netlock, tx, nq, refs, nicCase>>

NicNext ==
  \/ CardSends \/ CardReceives
  \/ \E c \in Procs :
       \/ Starts(c) \/ net_lock_enter(c) \/ e1000_interrupt(c) \/ Finishes(c)
       \/ e1000_transmit(c) \/ TxDone(c) \/ FlushStarts(c) \/ FlushClaims(c) \/ FlushTakes(c) \/ e1000_tx_enqueue(c)
       \/ FlushRings(c) \/ FlushReleases(c) \/ ReclaimClaims(c) \/ e1000_tx_try_reclaim(c) \/ net_lock_exit(c) \/ netif_tx_flush(c) \/ BellRung(c)
       \/ RxLocks(c) \/ e1000_handle_receive(c) \/ RxUnlocks(c) \/ netisr_poll(c) \/ netisr_drain(c) \/ netif_rele(c)

NicSpec == NicInit(NicCases) /\ [][NicNext]_nicVars

-----------------------------------------------------------------------------
(* Type correctness; the queue keeps its limit. *)
NicTypeOK ==
  /\ Len(nq) <= NqLen /\ refs \in Nat \ {0} /\ netlock \in Procs \cup {0}
  /\ tx.count = Len(tx.pending) /\ {tx.cur, tx.clean, tx.tail, tx.head} \subseteq 0..(NTx - 1)
  /\ \A c \in Procs : cpus[c].depth \in 0..1 /\ (netlock = c => cpus[c].depth = 1)

(* Frames leave in the order in which they were handed to the driver, from   *)
(* whatever CPU, each at most once (e1000_tx_flush).                         *)
TxOrder == \A i, j \in DOMAIN nicLog.wire : i < j => nicLog.wire[i] < nicLog.wire[j]

(* A frame is not freed while it waits or the card may still read it         *)
(* (e1000_reclaim_tx, e1000_tx_enqueue).                                     *)
TxLive ==
  {IF tx.addr[i] < 0 THEN -tx.addr[i] ELSE tx.addr[i] : i \in 0..(NTx - 1)} \cup Range(tx.pending) \cup UNION {Range(cpus[c].list) : c \in Procs} \subseteq nicLog.live \cup {0}

(* When no CPU is at work, no frame is left behind: none waits on the list   *)
(* for a flush that nobody will do, none is in the ring unknown to the card, *)
(* and no bell is left to ring (e1000_tx_flush, netif_tx_batch_end).         *)
NothingStuck ==
  (\A c \in Procs : cpus[c].pc = "idle") => /\ tx.pending = <<>> /\ tx.busy = 0 /\ tx.tail = tx.cur
                                            /\ netlock = 0 /\ \A c \in Procs : ~cpus[c].bell

(* Packets reach the protocol in the order of arrival and none twice         *)
(* (e1000_handle_receive, netqueue_dequeue).                                 *)
RxOrder ==
  LET seen == nicLog.handed \o nq IN \A i, j \in DOMAIN seen : i < j => seen[i] < seen[j]

Handling(c) == netlock = c /\ cpus[c].tret = "rele" /\ cpus[c].pc \in {"tx", "f1", "f2", "f3", "f4", "f5", "rele"}
Ringing(c) == cpus[c].bell \/ (cpus[c].fret = "rung" /\ cpus[c].pc # "fin")
(* A reference is held for each queued packet and each bell, and no other    *)
(* (netisr_queue, netif_tx_defer, netif_rele).                               *)
RefsBalanced == refs = 1 + Len(nq) + Cardinality({c \in Procs : Ringing(c)}) + Cardinality({c \in Procs : Handling(c)})

(* The network card and its queues (e1000.c, netif.c, netisr.c): frames      *)
(* leave in order and are not freed too early, none is left behind when the  *)
(* CPUs are done, packets are handed over in order, references balance.      *)
NicSound == NicTypeOK /\ TxOrder /\ TxLive /\ NothingStuck /\ RxOrder /\ RefsBalanced
=============================================================================

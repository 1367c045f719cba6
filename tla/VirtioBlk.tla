------------------------------ MODULE VirtioBlk ------------------------------
(* The virtio disk driver (virtio_blk.c).  A thread keeps the kernel lock    *)
(* while it puts a request on the ring and looks for answers, and gives it   *)
(* up where it sleeps; the interrupt handler and the poke callout take it.   *)
(* The device works on the ring meanwhile, in any order.  A sector is the    *)
(* unit of data, and no two threads use the same sector: the buffer cache    *)
(* above keeps a block to one of them.                                       *)
EXTENDS Integers, Sequences, SequencesExt, FiniteSets

CONSTANTS
  QSize,        \* descriptors of the ring
  Inflight,     \* VBLK_MAX_INFLIGHT
  MaxSegs,      \* d->max_segs
  NSectors,     \* d->sectors
  VbCases       \* who calls what, and which faults happen

ASSUME VbAssumption == QSize >= MaxSegs + 2 /\ Inflight \in Nat \ {0} /\ MaxSegs \in Nat \ {0}

Descs == 0..(QSize - 1)
VbSlots == 0..(Inflight - 1)
VbThreads == {1, 2, 3}
Sectors == 0..(NSectors - 1)

VARIABLES
  ring,     \* free_head, num_free, the descriptors, owner[], avail and used entries not yet seen
  reqs,     \* reqs[], with the header and status the device reads and writes
  vt,       \* the threads
  klock,    \* the thread with the kernel lock, 0: none
  media,    \* the sectors: in the device, and on its medium
  isr,      \* the interrupt is raised
  pages,    \* the page each thread's buffer is in: mapped, its shared_refs, freed; held: it was mapped when pinned
  vbCase
vbVars == <<ring, reqs, vt, klock, media, isr, pages, vbCase>>

NoDesc == QSize
vblk_setup_queue ==
  [free_head |-> 0, num_free |-> QSize, desc |-> [i \in Descs |-> [next |-> i + 1, more |-> FALSE, what |-> "none"]],
   owner |-> [i \in Descs |-> -1], avail |-> {}, used |-> <<>>]
NoReq == [in_use |-> FALSE, done |-> FALSE, by |-> 0, segs |-> 0, hdr |-> [type |-> "none", sec |-> 0, val |-> 0], status |-> 255, poke |-> FALSE]
OwnPage == [mapped |-> TRUE, refs |-> 0, freed |-> FALSE, held |-> FALSE]
VtIdle == [pc |-> "idle", todo |-> <<>>, slot |-> -1, data |-> 0, res |-> 0, op |-> "none"]
VbInit(cases) ==
  /\ vbCase \in cases
  /\ ring = vblk_setup_queue
  /\ reqs = [s \in VbSlots |-> NoReq] /\ vt = [t \in VbThreads |-> VtIdle] /\ klock = 0
  /\ media = [dev |-> [s \in Sectors |-> 0], safe |-> [s \in Sectors |-> 0]]
  /\ isr = FALSE /\ pages = [t \in VbThreads |-> OwnPage]

-----------------------------------------------------------------------------
(* The ring *)

RECURSIVE Chain(_, _)
Chain(R, head) == IF R.desc[head].more THEN <<head>> \o Chain(R, R.desc[head].next) ELSE <<head>>
RECURSIVE FreeList(_, _)
FreeList(R, n) == IF n = 0 THEN <<>> ELSE
  LET rest == FreeList(R, n - 1)
      last == IF rest = <<>> THEN R.free_head ELSE IF rest[n - 1] = NoDesc THEN NoDesc ELSE R.desc[rest[n - 1]].next
  IN Append(rest, last)

(* The chain goes back to the free list, its head first. *)
free_chain_locked(R, head) ==
  FoldLeft(LAMBDA r, i : [r EXCEPT !.desc[i].next = r.free_head, !.free_head = i, !.num_free = @ + 1], R, Chain(R, head))
take_desc_locked(R, what, more) ==
  LET i == R.free_head
  IN [R EXCEPT !.free_head = R.desc[i].next, !.num_free = @ - 1, !.desc[i] = [next |-> R.desc[i].next, more |-> more, what |-> what]]

(* Threads that sleep until a slot is free, and the one that waits for a slot's answer, go on. *)
WakesFree(T) == [t \in VbThreads |-> IF T[t].pc = "nofree" THEN [T[t] EXCEPT !.pc = "start"] ELSE T[t]]
WakesOwner(T, s) == [t \in VbThreads |-> IF T[t].pc = "sleep" /\ T[t].slot = s THEN [T[t] EXCEPT !.pc = "woken"] ELSE T[t]]

(* reap_locked on the state S: all answers in the used ring. *)
reap_locked(S) ==
  FoldLeft(LAMBDA s, head :
    LET slot == s.ring.owner[head]
    IN IF slot < 0 THEN s
       ELSE [ring |-> free_chain_locked([s.ring EXCEPT !.owner[head] = -1], head), reqs |-> [s.reqs EXCEPT ![slot].done = TRUE],
             vt |-> WakesFree(WakesOwner(s.vt, slot))],
    [S EXCEPT !.ring.used = <<>>], S.ring.used)
Now == [ring |-> ring, reqs |-> reqs, vt |-> vt]

take_slot_locked(S, ndesc) ==
  LET free == {s \in VbSlots : ~S.reqs[s].in_use} IN IF S.ring.num_free < ndesc \/ free = {} THEN -1 ELSE Min(free)

-----------------------------------------------------------------------------
(* vblk_rw: the requests of a call.  An unaligned write reads the sector and *)
(* writes it back with its own half changed; a long one is cut at max_bytes. *)

Sleeps == vbCase.sleeps
vblk_rw(c) ==
  IF c.op = "flush" THEN <<[type |-> "flush", sec |-> 0, val |-> 0, segs |-> 0]>>
  ELSE IF c.sec + c.len > NSectors THEN <<>>
  ELSE LET part == [i \in 1..c.len |-> [type |-> IF c.op = "write" THEN "out" ELSE "in", sec |-> c.sec + i - 1, val |-> c.val, segs |-> c.segs]]
       IN IF c.op = "unaligned" THEN part \o [i \in 1..c.len |-> [part[i] EXCEPT !.type = "out"]] ELSE part

vblk_bdev(t) ==
  /\ klock = 0 /\ vt[t].pc = "idle" /\ vbCase.calls[t] # <<>>
  /\ vbCase' = [vbCase EXCEPT !.calls[t] = Tail(@)]
  /\ LET c == Head(vbCase.calls[t])
         refused == c.op # "flush" /\ (c.sec + c.len > NSectors \/ (vbCase.ro /\ c.op # "read"))
     IN vt' = [vt EXCEPT ![t] = IF refused THEN [VtIdle EXCEPT !.res = -1] ELSE [VtIdle EXCEPT !.pc = "start", !.op = c.op, !.todo = vblk_rw(c)]]
  /\ pages' = [pages EXCEPT ![t] = OwnPage]
  /\ UNCHANGED <<ring, reqs, klock, media, isr>>

(* free_physical_page: a shared page loses a reference, another is free. *)
free_physical_page(p) == IF p.refs > 0 THEN [p EXCEPT !.refs = @ - 1] ELSE [p EXCEPT !.freed = TRUE]
(* dma_pin: the page of the buffer is shared while the device has it. *)
dma_pin(p, pin) == IF pin THEN [p EXCEPT !.refs = @ + 1] ELSE free_physical_page(p)
Pins(t, type, pin) ==
  pages' = IF Sleeps /\ type # "flush"
           THEN [pages EXCEPT ![t] = [dma_pin(@, pin) EXCEPT !.held = pin /\ pages[t].mapped]]
           ELSE pages

Builds(R, s, r) ==
  LET body == FoldLeft(LAMBDA x, i : take_desc_locked(x, "seg", TRUE), take_desc_locked(R, "hdr", TRUE), [i \in 1..r.segs |-> i])
      all == take_desc_locked(body, "status", FALSE)
  IN [all EXCEPT !.owner[R.free_head] = s, !.avail = @ \cup {R.free_head}]

(* vblk_request up to the translation of the buffer.  With no slot or too    *)
(* few descriptors, and no answer to reap, the thread sleeps.                *)
vblk_request(t) ==
  /\ klock = 0 /\ vt[t].pc = "start"
  /\ \E S \in {IF take_slot_locked(Now, MaxSegs + 2) < 0 THEN reap_locked(Now) ELSE Now} :
     \E slot \in {take_slot_locked(S, MaxSegs + 2)} :
       LET r == Head(vt[t].todo)  data == r.type # "flush"
       IN \/ /\ slot < 0
             /\ ring' = S.ring /\ reqs' = S.reqs
             /\ vt' = IF ring.used # <<>> \/ ~Sleeps THEN S.vt ELSE [S.vt EXCEPT ![t].pc = "nofree"]
             /\ UNCHANGED <<klock, vbCase>>
          \/ /\ slot >= 0 /\ (data => pages[t].mapped)
             /\ ring' = S.ring /\ reqs' = [S.reqs EXCEPT ![slot] = [NoReq EXCEPT !.in_use = TRUE, !.by = t, !.segs = r.segs]]
             /\ vt' = [S.vt EXCEPT ![t].pc = "mapped", ![t].slot = slot] /\ klock' = t
             /\ UNCHANGED vbCase
          \/ \* dma_map_load fails
             /\ slot >= 0 /\ data /\ (vbCase.faults > 0 \/ ~pages[t].mapped)
             /\ vbCase' = IF pages[t].mapped THEN [vbCase EXCEPT !.faults = @ - 1] ELSE vbCase
             /\ ring' = S.ring /\ reqs' = S.reqs
             /\ vt' = [WakesFree(S.vt) EXCEPT ![t] = [VtIdle EXCEPT !.res = -1]]
             /\ UNCHANGED klock
  /\ UNCHANGED <<media, isr, pages>>
(* The rest of it up to the notification of the device: pin, header, chain. *)
SendsChain(t) ==
  /\ klock = t /\ vt[t].pc = "mapped"
  /\ LET r == Head(vt[t].todo)  slot == vt[t].slot
         val == IF vt[t].op = "unaligned" /\ r.type = "out" THEN vt[t].data + r.val ELSE r.val
     IN /\ ring' = Builds(ring, slot, r)
        /\ reqs' = [reqs EXCEPT ![slot].hdr = [type |-> r.type, sec |-> r.sec, val |-> val]]
        /\ Pins(t, r.type, TRUE)
  /\ vt' = [vt EXCEPT ![t].pc = "check"]
  /\ UNCHANGED <<klock, media, isr, vbCase>>

Succeeded(r) == r.status = 0
(* After the wait loop: the answer is taken and the slot is free again. *)
Completes(S, t) ==
  LET s == vt[t].slot  r == S.reqs[s]  ok == Succeeded(r)  rest == Tail(vt[t].todo)
      data == IF ok /\ r.hdr.type = "in" THEN r.hdr.val ELSE vt[t].data
  IN /\ ring' = S.ring /\ reqs' = [S.reqs EXCEPT ![s] = NoReq]
     /\ Pins(t, r.hdr.type, FALSE)
     /\ vt' = [WakesFree(S.vt) EXCEPT ![t] =
                 IF ~ok THEN [VtIdle EXCEPT !.res = -1]
                 ELSE IF rest = <<>> THEN [VtIdle EXCEPT !.op = vt[t].op, !.data = data]
                 ELSE [vt[t] EXCEPT !.pc = "start", !.todo = rest, !.slot = -1, !.data = data]]
     /\ klock' = 0 /\ UNCHANGED <<media, isr, vbCase>>

(* One turn of the wait loop. *)
WaitsOnce(t) ==
  /\ \/ vt[t].pc = "check" /\ klock = t
     \/ vt[t].pc = "woken" /\ klock = 0
  /\ \E S \in {reap_locked(Now)} :
       LET s == vt[t].slot
       IN IF S.reqs[s].done THEN Completes(S, t)
          ELSE /\ ring' = S.ring
               /\ reqs' = IF Sleeps THEN [S.reqs EXCEPT ![s].poke = TRUE] ELSE S.reqs
               /\ vt' = IF Sleeps THEN [S.vt EXCEPT ![t].pc = "sleep"] ELSE S.vt
               /\ klock' = (IF Sleeps THEN 0 ELSE klock) /\ UNCHANGED <<media, isr, pages, vbCase>>

Serves(S) == ring' = S.ring /\ reqs' = S.reqs /\ vt' = S.vt
vblk_irq ==
  /\ isr /\ klock = 0 /\ isr' = FALSE
  /\ Serves(reap_locked(Now)) /\ UNCHANGED <<klock, media, pages, vbCase>>
(* The callout of a request; it is not set again. *)
vblk_poke(s) ==
  /\ klock = 0 /\ reqs[s].poke
  /\ \E S \in {reap_locked(Now)} :
       LET done == {x \in VbSlots : S.reqs[x].in_use /\ S.reqs[x].done}
       IN /\ ring' = S.ring /\ reqs' = [S.reqs EXCEPT ![s].poke = FALSE]
          /\ vt' = [t \in VbThreads |-> IF S.vt[t].pc = "sleep" /\ S.vt[t].slot \in done THEN [S.vt[t] EXCEPT !.pc = "woken"] ELSE S.vt[t]]
  /\ UNCHANGED <<klock, media, isr, pages, vbCase>>
(* process_sleep_timeout ends for a thread without a slot. *)
FreeTimeout(t) ==
  /\ klock = 0 /\ vt[t].pc = "nofree" /\ vt' = [vt EXCEPT ![t].pc = "start"]
  /\ UNCHANGED <<ring, reqs, klock, media, isr, pages, vbCase>>

-----------------------------------------------------------------------------
(* The device takes a chain it was given, reads the header, moves the data,  *)
(* writes the status and puts the chain into the used ring.                  *)
Device(head) ==
  /\ head \in ring.avail
  /\ ring' = [ring EXCEPT !.avail = @ \ {head}, !.used = Append(@, head)]
  /\ isr' = vbCase.irq
  /\ \E ok \in {TRUE} \cup (IF vbCase.errors > 0 THEN {FALSE} ELSE {}) :
       LET s == ring.owner[head]  x == reqs[s].hdr
       IN /\ reqs' = [reqs EXCEPT ![s].status = IF ok THEN 0 ELSE 1, ![s].hdr.val = IF ok /\ x.type = "in" THEN media.dev[x.sec] ELSE x.val]
          /\ media' = IF ~ok THEN media ELSE CASE x.type = "out" -> [media EXCEPT !.dev[x.sec] = x.val]
                                               [] x.type = "flush" -> [media EXCEPT !.safe = media.dev]
                                               [] OTHER -> media
          /\ vbCase' = IF ok THEN vbCase ELSE [vbCase EXCEPT !.errors = @ - 1]
  /\ UNCHANGED <<vt, klock, pages>>
(* Another thread of the process unmaps the page of the buffer; munmap does  *)
(* not take the kernel lock.  An unaligned call has a buffer of the driver.  *)
Unmaps(t) ==
  /\ vbCase.unmaps[t] > 0 /\ pages[t].mapped /\ vt[t].pc # "idle" /\ vt[t].op # "unaligned"
  /\ pages' = [pages EXCEPT ![t] = [free_physical_page(@) EXCEPT !.mapped = FALSE]]
  /\ vbCase' = [vbCase EXCEPT !.unmaps[t] = @ - 1]
  /\ UNCHANGED <<ring, reqs, vt, klock, media, isr>>

VbNext ==
  \/ vblk_irq
  \/ \E t \in VbThreads : vblk_bdev(t) \/ vblk_request(t) \/ SendsChain(t) \/ WaitsOnce(t) \/ FreeTimeout(t) \/ Unmaps(t)
  \/ \E s \in VbSlots : vblk_poke(s)
  \/ \E head \in Descs : Device(head)

-----------------------------------------------------------------------------
(* Type correctness. *)
VbTypeOK ==
  /\ ring.num_free \in 0..QSize /\ ring.avail \subseteq Descs /\ Len(ring.used) <= QSize
  /\ \A t \in VbThreads : vt[t].pc \in {"idle", "start", "nofree", "mapped", "check", "sleep", "woken"} /\ vt[t].slot \in -1..(Inflight - 1)
  /\ klock \in VbThreads \cup {0} /\ \A t \in VbThreads : pages[t].refs \in 0..1

(* Every descriptor is on the free list or in the chain of exactly one       *)
(* request, whatever order answers, errors and reaping threads come in: two  *)
(* requests never share a descriptor and none is lost                        *)
(* (take_desc_locked, free_chain_locked).                                    *)
RingSound ==
  LET heads == {i \in Descs : ring.owner[i] >= 0}
      free == FreeList(ring, ring.num_free)
      inChains == FoldSet(LAMBDA i, q : q \o Chain(ring, i), <<>>, heads)
  IN /\ IsInjective(free \o inChains) /\ Range(free \o inChains) = Descs
     /\ \A i \in heads : ring.desc[i].what = "hdr" /\ Len(Chain(ring, i)) = reqs[ring.owner[i]].segs + 2

(* A call that reports success did its work: what is written is in the       *)
(* device, what is read is what the device holds, and after a flush all that *)
(* this thread wrote is on the medium (vblk_request, vblk_rw).               *)
Truthful ==
  [][\A t \in VbThreads :
       vt[t].pc # "idle" /\ vt'[t].pc = "idle" /\ vt'[t].res = 0
       => LET r == reqs[vt[t].slot].hdr
          IN /\ r.type = "in" => vt'[t].data = media.dev[r.sec]
             /\ r.type = "out" => media.dev[r.sec] = r.val
             /\ r.type = "flush" => \A s \in vbCase.own[t] : media.safe[s] = media.dev[s]]_vbVars

(* The page of a buffer is not given back to the allocator while the device  *)
(* may still use it, if it was mapped when it was pinned (dma_pin).  One that *)
(* is unmapped between its translation and the pin is free all the same.     *)
PinnedForDevice ==
  \A head \in ring.avail :
    LET r == reqs[ring.owner[head]]
    IN Sleeps /\ r.hdr.type # "flush" /\ pages[r.by].held => ~pages[r.by].freed

(* A thread that sleeps for an answer that has come is about to be woken: the*)
(* interrupt is raised, or its poke callout runs (reap_locked, vblk_irq).    *)
AnswerHeard ==
  klock = 0 => \A t \in VbThreads :
    vt[t].pc = "sleep" => /\ ~reqs[vt[t].slot].done
                          /\ (\E i \in Range(ring.used) : ring.owner[i] = vt[t].slot) => isr \/ reqs[vt[t].slot].poke
=============================================================================

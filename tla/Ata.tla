--------------------------------- MODULE Ata ---------------------------------
(* The ATA driver (ata.c): one channel with two disks, disk d used by thread *)
(* d.  A thread owns the channel for a whole call, keeps the kernel lock     *)
(* while it programs the controller and gives it up where it sleeps: for the *)
(* channel, and for the interrupt of a DMA transfer, which a callout of 30   *)
(* seconds bounds.  The interrupt handler and the callout take the lock.     *)
(* The controller moves the data meanwhile.                                  *)
EXTENDS Integers, Sequences, FiniteSets

CONSTANTS
  AtaRetries,   \* ATA_RETRIES
  NLba,         \* sectors of a disk; beyond them ata_issue refuses
  AtaCases      \* who calls what, and which faults happen

ASSUME AtaAssumption == AtaRetries \in Nat /\ NLba \in Nat \ {0}

AtaThreads == {1, 2, 3}
DiskOf(t) == IF t = 3 THEN 1 ELSE t
Lbas == 0..(NLba - 1)

VARIABLES
  chan,     \* struct ata_channel
  bus,      \* the controller: the command it works on, its status bits, the interrupt line
  at,       \* the threads
  plat,     \* the sectors of the two disks, two halves each
  atPages,  \* the page of each thread's buffer: mapped, its shared_refs, freed; held: it was mapped when pinned
  bounce,   \* dev->bounce of each disk
  wrote,    \* what callers were told is on the disks; -1: a write is under way, or failed
  atCase
ataVars == <<chan, bus, at, plat, atPages, bounce, wrote, atCase>>

NoCmd == [by |-> 0, write |-> FALSE, lba |-> 0, val |-> <<0, 0>>, started |-> FALSE]
AtPage == [mapped |-> TRUE, refs |-> 0, freed |-> FALSE, held |-> FALSE]
AtIdle == [pc |-> "idle", op |-> "none", lba |-> 0, left |-> 0, val |-> 0, half |-> 1, step |-> "none", attempt |-> 0, buf |-> <<0, 0>>, res |-> 0]
AtaInit(cases) ==
  /\ atCase \in cases
  /\ chan = [owned |-> FALSE, irq_wait |-> FALSE, irq_done |-> FALSE, timed_out |-> FALSE, bm_err |-> FALSE, timer |-> FALSE]
  /\ bus = [cmd |-> NoCmd, irq |-> FALSE, err |-> FALSE, line |-> FALSE]
  /\ at = [t \in AtaThreads |-> AtIdle]
  /\ plat = [d \in {1, 2} |-> [l \in Lbas |-> <<0, 0>>]]
  /\ atPages = [t \in AtaThreads |-> AtPage] /\ wrote = plat /\ bounce = [d \in {1, 2} |-> <<0, 0>>]

ata_can_sleep == atCase.sleeps
ata_supports_lba48 == atCase.lba48

-----------------------------------------------------------------------------
(* The channel *)

ata_channel_acquire(t) ==
  /\ at[t].pc = "acquire"
  /\ IF chan.owned /\ ata_can_sleep
     THEN at' = [at EXCEPT ![t].pc = "own"] /\ chan' = chan
     ELSE at' = [at EXCEPT ![t].pc = "go"] /\ chan' = [chan EXCEPT !.owned = TRUE]
  /\ UNCHANGED <<bus, plat, atPages, bounce, wrote, atCase>>
WakesOwners(T) == [t \in AtaThreads |-> IF T[t].pc = "own" THEN [T[t] EXCEPT !.pc = "acquire"] ELSE T[t]]
Returns(T, t, res) == [WakesOwners(T) EXCEPT ![t] = [AtIdle EXCEPT !.op = T[t].op, !.lba = T[t].lba, !.buf = T[t].buf, !.res = res]]
ata_channel_release(c) == [c EXCEPT !.owned = FALSE]

-----------------------------------------------------------------------------
(* Interrupt and timeout *)

Woken(t) == IF t # 0 /\ at[t].pc = "dma" THEN [at EXCEPT ![t].pc = "dmaEnd"] ELSE at
Sleeper == IF \E t \in AtaThreads : at[t].pc = "dma" THEN CHOOSE t \in AtaThreads : at[t].pc = "dma" ELSE 0
(* Faulty variant: any interrupt counts as the answer. *)
AnyInterrupt == chan.irq_wait
IsAnswer == chan.irq_wait /\ bus.irq
ata_irq ==
  /\ bus.line /\ bus' = [bus EXCEPT !.line = FALSE]
  /\ IF IsAnswer
     THEN chan' = [chan EXCEPT !.irq_done = TRUE, !.bm_err = bus.err] /\ at' = Woken(Sleeper)
     ELSE UNCHANGED <<chan, at>>
  /\ UNCHANGED <<plat, atPages, bounce, wrote, atCase>>
ata_dma_timeout ==
  /\ chan.timer /\ chan' = [chan EXCEPT !.timer = FALSE, !.timed_out = TRUE]
  /\ at' = Woken(Sleeper) /\ UNCHANGED <<bus, plat, atPages, bounce, wrote, atCase>>

-----------------------------------------------------------------------------
(* One transfer of a sector, with its attempts.  A call that covers only a   *)
(* part of a sector reads it into the bounce buffer and, for a write, writes *)
(* it back changed.                                                          *)

Partial(op) == op \in {"part", "peek"}
Halves(op, half) == CASE op = "write" -> {1, 2} [] op = "part" -> {half} [] OTHER -> {}
FirstStep(c) == IF c.op = "write" THEN "out" ELSE "in"
Marks(d, ls, hs, v) == [wrote EXCEPT ![d] = [l \in Lbas |-> [h \in {1, 2} |-> IF l \in ls /\ h \in hs THEN v ELSE wrote[d][l][h]]]]
ata_bdev(t) ==
  /\ at[t].pc = "idle" /\ atCase.calls[t] # <<>>
  /\ LET c == Head(atCase.calls[t])
     IN /\ at' = [at EXCEPT ![t] = [AtIdle EXCEPT !.pc = "acquire", !.op = c.op, !.lba = c.lba, !.left = c.len, !.val = c.val,
                                                   !.half = c.half, !.step = FirstStep(c)]]
        /\ wrote' = Marks(DiskOf(t), c.lba..(c.lba + c.len - 1), Halves(c.op, c.half), -1)
  /\ atCase' = [atCase EXCEPT !.calls[t] = Tail(@)] /\ atPages' = [atPages EXCEPT ![t] = AtPage]
  /\ UNCHANGED <<chan, bus, plat, bounce>>

Payload(t) == LET me == at[t] IN IF Partial(me.op) THEN [bounce[DiskOf(t)] EXCEPT ![me.half] = me.val] ELSE <<me.val, me.val>>
PageFree(p) == IF p.refs > 0 THEN [p EXCEPT !.refs = @ - 1] ELSE [p EXCEPT !.freed = TRUE]
ata_dma_pin(p, pin) == IF pin THEN [p EXCEPT !.refs = @ + 1] ELSE PageFree(p)
AtPins(t, pin) == [atPages EXCEPT ![t] = [ata_dma_pin(@, pin) EXCEPT !.held = pin /\ atPages[t].mapped]]
(* Sector v arrives in memory. *)
Arrives(t, v) ==
  IF Partial(at[t].op) THEN bounce' = [bounce EXCEPT ![DiskOf(t)] = v] /\ at' = at
  ELSE at' = [at EXCEPT ![t].buf = v] /\ bounce' = bounce

(* ata_issue refuses a sector an old disk cannot address; a flush waits for  *)
(* the disk; otherwise DMA if the buffer can be mapped, else programmed I/O. *)
ata_issue(me) == ata_supports_lba48 \/ me.lba \in Lbas
Transfers(t) == at[t].pc = "go" /\ at[t].op # "flush" /\ ata_issue(at[t])
MapsBuffer(t) ==
  /\ Transfers(t) /\ atCase.dma /\ atPages[t].mapped /\ at' = [at EXCEPT ![t].pc = "mapped"]
  /\ UNCHANGED <<chan, bus, plat, atPages, bounce, wrote, atCase>>
ata_dma_transfer(t) ==
  /\ at[t].pc = "mapped"
  /\ bus' = [bus EXCEPT !.irq = FALSE, !.err = FALSE,
                        !.cmd = [by |-> t, write |-> at[t].step = "out", lba |-> at[t].lba, val |-> Payload(t), started |-> TRUE]]
  /\ chan' = IF ata_can_sleep THEN [chan EXCEPT !.irq_done = FALSE, !.irq_wait = TRUE, !.timed_out = FALSE, !.timer = TRUE] ELSE chan
  /\ at' = [at EXCEPT ![t].pc = IF ata_can_sleep THEN "dma" ELSE "poll"]
  /\ atPages' = IF ata_can_sleep THEN AtPins(t, TRUE) ELSE atPages
  /\ UNCHANGED <<plat, bounce, wrote, atCase>>

(* After a transfer: the next one of the call, another attempt, or the end. *)
NextStep(me) ==
  IF me.op = "part" /\ me.step = "in" THEN [me EXCEPT !.pc = "go", !.step = "out", !.attempt = 0]
  ELSE IF me.left > 1 THEN [me EXCEPT !.pc = "go", !.lba = @ + 1, !.left = @ - 1, !.attempt = 0]
  ELSE [me EXCEPT !.pc = "done"]
ata_transfer(t, me, ok, c) ==
  LET d == DiskOf(t)
      next == IF ok THEN NextStep(me) ELSE [me EXCEPT !.pc = "go", !.attempt = @ + 1]
      ended == ok /\ next.pc = "done"
      failed == ~ok /\ me.attempt = AtaRetries
      T == [at EXCEPT ![t] = next]
  IN /\ at' = IF ended \/ failed THEN Returns(T, t, IF ok THEN 0 ELSE -1) ELSE T
     /\ chan' = IF ended \/ failed THEN ata_channel_release(c) ELSE c
     /\ wrote' = IF ok /\ me.step = "out" THEN Marks(d, {me.lba}, Halves(me.op, me.half), me.val) ELSE wrote

(* ata_recover: the reset ends the command. *)
ata_recover(cmd) == NoCmd
Ends(t, ok) ==
  /\ bus' = [bus EXCEPT !.cmd = IF ok THEN NoCmd ELSE ata_recover(@), !.irq = FALSE, !.err = FALSE]
  /\ ata_transfer(t, IF Partial(at[t].op) THEN [at[t] EXCEPT !.buf = bounce[DiskOf(t)]] ELSE at[t], ok, [chan EXCEPT !.irq_wait = FALSE, !.timer = FALSE])
  /\ UNCHANGED <<plat, bounce>>
(* ata_dma_sleep after the wake-up, or ata_dma_wait, and the rest of ata_dma_transfer; ata_wait_ready may still fail. *)
Ready4(ok) == \/ ok /\ atCase' = atCase
              \/ ~ok /\ atCase.errors > 0 /\ atCase' = [atCase EXCEPT !.errors = @ - 1]
ata_dma_sleep(t) ==
  /\ at[t].pc = "dmaEnd" /\ (chan.irq_done \/ chan.timed_out)
  /\ \E ready \in BOOLEAN : Ready4(ready) /\ Ends(t, chan.irq_done /\ ~chan.bm_err /\ ready)
  /\ atPages' = AtPins(t, FALSE)
(* The bus master has stopped, with or without an interrupt, or the loop is at its end. *)
ata_dma_wait(t) ==
  /\ at[t].pc = "poll"
  /\ \/ ~bus.cmd.started /\ \E ready \in BOOLEAN : Ready4(ready) /\ Ends(t, ~bus.err /\ ready)
     \/ bus.cmd.started /\ atCase.hangs > 0 /\ atCase' = [atCase EXCEPT !.hangs = @ - 1] /\ Ends(t, FALSE)
  /\ UNCHANGED atPages

(* Programmed I/O goes through the user's mapping: on a page that was        *)
(* unmapped the kernel faults and halts.                                     *)
Reachable(t) == atPages[t].mapped \/ Partial(at[t].op)
KernelHalts(t) ==
  /\ Transfers(t) /\ ~Reachable(t) /\ at' = [at EXCEPT ![t].pc = "halted"]
  /\ UNCHANGED <<chan, bus, plat, atPages, bounce, wrote, atCase>>
ata_pio_transfer(t) ==
  /\ Transfers(t) /\ (~atCase.dma \/ atCase.nomap > 0 \/ ~atPages[t].mapped) /\ Reachable(t)
  /\ \E ok \in {TRUE} \cup (IF atCase.errors > 0 THEN {FALSE} ELSE {}) :
       LET d == DiskOf(t)  l == at[t].lba  out == at[t].step = "out"  part == Partial(at[t].op)
           me == IF ok /\ ~out THEN [at[t] EXCEPT !.buf = plat[d][l]] ELSE at[t]
       IN /\ plat' = IF ok /\ out THEN [plat EXCEPT ![d][l] = Payload(t)] ELSE plat
          /\ bounce' = IF ok /\ ~out /\ part THEN [bounce EXCEPT ![d] = plat[d][l]] ELSE bounce
          /\ ata_transfer(t, me, ok, chan)
          /\ atCase' = [atCase EXCEPT !.errors = IF ok THEN @ ELSE @ - 1, !.nomap = IF atCase.dma /\ @ > 0 THEN @ - 1 ELSE @]
          /\ bus' = [bus EXCEPT !.line = TRUE]
  /\ UNCHANGED atPages
Refused(t) ==
  /\ at[t].pc = "go" /\ at[t].op # "flush" /\ ~ata_issue(at[t])
  /\ at' = Returns(at, t, -1) /\ chan' = ata_channel_release(chan)
  /\ UNCHANGED <<bus, plat, atPages, bounce, wrote, atCase>>
ata_flush(t) ==
  /\ at[t].pc = "go" /\ at[t].op = "flush"
  /\ \E ready \in BOOLEAN : Ready4(ready) /\ at' = Returns(at, t, IF ready THEN 0 ELSE -1)
  /\ chan' = ata_channel_release(chan)
  /\ UNCHANGED <<bus, plat, atPages, bounce, wrote>>

-----------------------------------------------------------------------------
(* The controller finishes the command it has, now and then without an       *)
(* interrupt, or fails; one it never finishes ends with the timeout.         *)
Controller ==
  /\ bus.cmd.started
  /\ LET c == bus.cmd  d == DiskOf(c.by)
         Done(irq, err) == [bus EXCEPT !.cmd.started = FALSE, !.irq = irq, !.err = err, !.line = irq \/ @]
     IN \/ /\ \/ bus' = Done(TRUE, FALSE) /\ atCase' = atCase
              \/ bus' = Done(FALSE, FALSE) /\ atCase.hangs > 0 /\ atCase' = [atCase EXCEPT !.hangs = @ - 1]
           /\ plat' = IF c.write THEN [plat EXCEPT ![d][c.lba] = c.val] ELSE plat
           /\ IF c.write THEN UNCHANGED <<at, bounce>> ELSE Arrives(c.by, plat[d][c.lba])
        \/ /\ atCase.errors > 0 /\ bus' = Done(TRUE, TRUE) /\ atCase' = [atCase EXCEPT !.errors = @ - 1]
           /\ UNCHANGED <<plat, at, bounce>>
  /\ UNCHANGED <<chan, atPages, wrote>>
(* Another thread of process 1 unmaps the buffer; munmap takes no lock of these. *)
AtUnmaps(t) ==
  /\ atCase.unmaps > 0 /\ t = 1 /\ at[t].pc # "idle" /\ ~Partial(at[t].op) /\ atPages[t].mapped
  /\ atPages' = [atPages EXCEPT ![t] = [PageFree(@) EXCEPT !.mapped = FALSE]]
  /\ atCase' = [atCase EXCEPT !.unmaps = @ - 1]
  /\ UNCHANGED <<chan, bus, at, plat, bounce, wrote>>

AtaNext ==
  /\ \A t \in AtaThreads : at[t].pc # "halted"
  /\ \/ ata_irq \/ ata_dma_timeout \/ Controller
     \/ \E t \in AtaThreads :
       \/ ata_bdev(t) \/ ata_channel_acquire(t) \/ MapsBuffer(t) \/ ata_dma_transfer(t) \/ ata_dma_sleep(t)
       \/ ata_dma_wait(t) \/ KernelHalts(t) \/ ata_pio_transfer(t) \/ Refused(t) \/ ata_flush(t) \/ AtUnmaps(t)

-----------------------------------------------------------------------------
(* Type correctness. *)
AtaTypeOK ==
  /\ \A t \in AtaThreads : at[t].pc \in {"idle", "acquire", "own", "go", "mapped", "dma", "dmaEnd", "poll", "halted"} /\ at[t].attempt \in 0..AtaRetries
  /\ \A t \in AtaThreads : atPages[t].refs \in 0..1
  /\ DOMAIN bus = {"cmd", "irq", "err", "line"} /\ bus.cmd.by \in AtaThreads \cup {0}

(* One thread at a time uses the channel, its disks' bounce buffers and the  *)
(* controller (ata_channel_acquire, ata_channel_release).                    *)
ChannelExclusive ==
  LET users == {t \in AtaThreads : at[t].pc \notin {"idle", "acquire", "own"}}
  IN Cardinality(users) <= 1 /\ (users # {} <=> chan.owned)

(* A read that reports success returns what the disk holds, whatever         *)
(* interrupts of earlier commands, errors and timeouts came before           *)
(* (ata_irq, ata_dma_sleep).                                                 *)
AtaReads ==
  [][\A t \in AtaThreads : (at[t].pc # "idle" /\ at'[t].pc = "idle" /\ at'[t].res = 0 /\ at'[t].op \in {"read", "peek"})
                            => at'[t].buf = plat[DiskOf(t)][at'[t].lba]]_ataVars

(* What a caller was told is written is on the disk, and stays there while   *)
(* others write the rest of the sector (ata_write_bytes, ata_transfer).      *)
AtaKept == \A d \in {1, 2}, l \in Lbas, h \in {1, 2} : wrote[d][l][h] # -1 => plat[d][l][h] = wrote[d][l][h]

(* The controller moves no data of a buffer whose page went back to the      *)
(* allocator after it was pinned: not while the transfer runs, nor after it  *)
(* was given up (ata_dma_pin, ata_recover).  A page unmapped between its     *)
(* translation and the pin is free all the same.                             *)
AtaPinned ==
  (bus.cmd.started /\ ata_can_sleep)
  => at[bus.cmd.by].pc \in {"dma", "dmaEnd"} /\ (atPages[bus.cmd.by].held => ~atPages[bus.cmd.by].freed)

(* A thread sleeps only while somebody is bound to wake it: the owner of the *)
(* channel, or the timeout of its transfer (ata_channel_release).            *)
AtaWakes ==
  \A t \in AtaThreads :
    /\ at[t].pc = "own" => chan.owned
    /\ at[t].pc = "dma" => chan.timer /\ ~chan.irq_done
=============================================================================

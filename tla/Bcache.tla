-------------------------------- MODULE Bcache --------------------------------
(* The buffer cache (bcache.c).  Everything runs under the kernel lock, which*)
(* is given up where a thread sleeps: for a busy buffer, for any buffer, or  *)
(* for the disk.  The file system reads and writes its device under its own  *)
(* lock, so thread d stands for the one that reads and writes device d.  A   *)
(* sync gives that lock up before it flushes: Syncers run beside it.  Thread *)
(* 0 is the flusher.                                                         *)
EXTENDS Integers, Sequences, SequencesExt, FiniteSets

CONSTANTS
  Devs, NBlocks,
  Syncers,      \* threads in fsync or sync
  SyncOf,       \* and the device each of them flushes
  MaxBlocks,    \* BCACHE_MAX_BLOCKS
  DirtyHigh,    \* BCACHE_DIRTY_HIGH
  RunMax,       \* BCACHE_RUN_MAX
  RaMax,        \* BCACHE_RA_MAX
  BcCases

BcCalls == {"read", "direct", "whole", "part", "flush", "flusher", "detach"}
ASSUME BcAssumption ==
  /\ Devs \subseteq Nat \ {0} /\ NBlocks \in Nat /\ MaxBlocks \in Nat /\ RunMax \in Nat /\ RaMax \in Nat
  /\ Syncers \subseteq Nat /\ Syncers \cap (Devs \cup {0}) = {} /\ SyncOf \in [Syncers -> Devs]
  /\ BcCases \subseteq [calls : [Devs \cup {0} \cup Syncers -> Seq(BcCalls)], errors : Nat, vals : SUBSET Nat]

Blocks == 0..(NBlocks - 1)
BcSlots == 1..MaxBlocks
BcThreads == Devs \cup {0} \cup Syncers
DevOf(t) == IF t \in Syncers THEN SyncOf[t] ELSE t

VARIABLES
  bufs,     \* the buffers; dev = 0: not allocated
  lru,      \* the buffers nobody uses, the oldest first
  nextSeq,  \* where a sequential read of a device would go on
  th,       \* the threads
  disk,     \* the blocks on disk: two halves each
  latest,   \* what was written last to each block
  bcCase    \* the calls of each thread and the disk errors left
bcVars == <<bufs, lru, nextSeq, th, disk, latest, bcCase>>

NoBuf == [dev |-> 0, blk |-> 0, valid |-> FALSE, dirty |-> FALSE, busy |-> FALSE, data |-> <<0, 0>>]
BcIdle == [pc |-> "idle", op |-> "none", blk |-> 0, val |-> 0, slot |-> 0, back |-> "idle", run |-> <<>>, res |-> <<>>, gone |-> {}, left |-> {}]
BcInit(cases) ==
  /\ bcCase \in cases
  /\ bufs = [s \in BcSlots |-> NoBuf] /\ lru = <<>> /\ nextSeq = [d \in Devs |-> -1]
  /\ th = [t \in BcThreads |-> BcIdle]
  /\ disk = [d \in Devs |-> [b \in Blocks |-> <<0, 0>>]] /\ latest = disk

lookup(d, b) == {s \in BcSlots : bufs[s].dev = d /\ bufs[s].blk = b}
block_len(b) == IF b \in Blocks THEN 1 ELSE 0
FreeSlots(B) == {s \in BcSlots : B[s].dev = 0}
ndirty == Cardinality({s \in BcSlots : bufs[s].dirty})

(* Threads that wait for one of these buffers, or for any, go on.            *)
Wakeup(T, ss) ==
  [t \in BcThreads |-> IF T[t].pc = "wait" /\ ss # <<>> /\ T[t].slot \in Range(ss) \cup {0} THEN [T[t] EXCEPT !.pc = T[t].back] ELSE T[t]]
buf_release(B, ss) == [s \in BcSlots |-> IF s \in Range(ss) THEN [B[s] EXCEPT !.busy = FALSE] ELSE B[s]]
buf_claim(B, S) == [s \in BcSlots |-> IF s \in S THEN [B[s] EXCEPT !.busy = TRUE] ELSE B[s]]
(* The members of q that are in S, in the order of q. *)
Those(q, S) ==
  LET F[i \in 0..Len(q)] == IF i = 0 THEN <<>> ELSE IF q[i] \in S THEN Append(F[i - 1], q[i]) ELSE F[i - 1]
  IN F[Len(q)]
Without(q, S) == Those(q, BcSlots \ S)

(* s with the dirty, idle buffers of the blocks before it and behind it, in  *)
(* the order of the blocks: those of first..last.                            *)
cluster_member(d, b) == \E x \in lookup(d, b) : ~bufs[x].busy /\ bufs[x].dirty
IsCluster(d, b, first, last) ==
  /\ \A k \in first..last : k # b => cluster_member(d, k)
  /\ first < b => b - first + 1 <= RunMax \div 2
  /\ first > 0 /\ cluster_member(d, first - 1) => b - first + 1 >= RunMax \div 2
  /\ last > b => last - first + 1 <= RunMax
  /\ cluster_member(d, last + 1) => last - first + 1 >= RunMax
Cluster(s, first, last) ==
  [i \in 1..(last - first + 1) |->
     IF first + i - 1 = bufs[s].blk THEN s ELSE CHOOSE x \in lookup(bufs[s].dev, first + i - 1) : TRUE]
StartsWrite(t, s, pc) ==
  \E first, last \in Blocks :
    LET run == Cluster(s, first, last)
    IN /\ first <= bufs[s].blk /\ bufs[s].blk <= last /\ IsCluster(bufs[s].dev, bufs[s].blk, first, last)
       /\ bufs' = buf_claim(bufs, Range(run)) /\ lru' = Without(lru, Range(run))
       /\ th' = [th EXCEPT ![t] = [@ EXCEPT !.pc = pc, !.slot = s, !.run = run]]
       /\ UNCHANGED <<nextSeq, disk, latest, bcCase>>

-----------------------------------------------------------------------------
(* getblk and what its callers do before they sleep again.  B: the buffers,  *)
(* with slot s claimed for the caller.                                       *)

(* A direct read that is under way loses sight of blocks that are evicted.   *)
Lost(T, B) ==
  [t \in BcThreads |-> IF T[t].pc = "raw"
                       THEN [T[t] EXCEPT !.gone = T[t].gone \cup {bufs[s].blk : s \in {x \in BcSlots : bufs[x].dev = t /\ (B[x].dev # t \/ B[x].blk # bufs[x].blk)}}]
                       ELSE T[t]]
Half(data, op, v) == IF op = "whole" THEN <<v, v>> ELSE <<v, data[2]>>
(* Blocks n..(n + k - 1) are read at once: spare is what getblk_nowait takes *)
(* one by one for those behind the first.                                    *)
Spare(B, q) == SetToSeq(FreeSlots(B)) \o Those(q, {x \in BcSlots : ~B[x].dirty})
ReadsAhead(d, b, n, k) ==
  /\ k < (IF b = nextSeq[d] THEN RaMax ELSE 1) /\ k <= n
  /\ block_len(b + k) = 1 /\ lookup(d, b + k) = {}
Assigned(B, d, b, run) ==
  [x \in BcSlots |-> IF \E i \in 2..Len(run) : run[i] = x
                     THEN [NoBuf EXCEPT !.dev = d, !.blk = b + (CHOOSE i \in 2..Len(run) : run[i] = x) - 1, !.busy = TRUE]
                     ELSE B[x]]
BufReady(t, B, q, s) ==
  LET me == th[t]  d == B[s].dev
      spare == Spare(B, q)
      stored == [B EXCEPT ![s] = [@ EXCEPT !.data = Half(B[s].data, me.op, me.val), !.valid = TRUE, !.dirty = TRUE]]
  IN IF me.op \in {"whole", "part"} /\ (me.op = "whole" \/ B[s].valid)
     THEN /\ bufs' = buf_release(stored, <<s>>) /\ lru' = Append(q, s)
          /\ latest' = [latest EXCEPT ![d][me.blk] = stored[s].data]
          /\ th' = Lost(Wakeup([th EXCEPT ![t] = [@ EXCEPT !.pc = "written"]], <<s>>), B) /\ UNCHANGED nextSeq
     ELSE IF B[s].valid
     THEN /\ bufs' = buf_release(B, <<s>>) /\ lru' = Append(q, s)
          /\ th' = Wakeup([th EXCEPT ![t] = [@ EXCEPT !.pc = "done", !.res = [b \in {me.blk} |-> B[s].data]]], <<s>>)
          /\ UNCHANGED <<nextSeq, latest>>
     ELSE \E n \in 0..Len(spare) :
            LET run == [i \in 1..(n + 1) |-> IF i = 1 THEN s ELSE spare[i - 1]]
                B2 == Assigned(B, d, me.blk, run)
            IN /\ \A k \in 1..n : ReadsAhead(d, me.blk, Len(spare), k)
               /\ ~ReadsAhead(d, me.blk, Len(spare), n + 1)
               /\ bufs' = B2 /\ lru' = Without(q, Range(run))
               /\ th' = Lost([th EXCEPT ![t] = [@ EXCEPT !.pc = "fill", !.slot = s, !.run = run]], B2)
               /\ UNCHANGED <<nextSeq, latest>>

buf_reassign(s, d, b) == [bufs EXCEPT ![s] = [NoBuf EXCEPT !.dev = d, !.blk = b, !.busy = TRUE]]
getblk(t) ==
  LET me == th[t]  found == lookup(t, me.blk)
  IN /\ me.pc = "getblk"
     /\ \/ \E s \in found : /\ bufs[s].busy
                            /\ th' = [th EXCEPT ![t] = [@ EXCEPT !.pc = "wait", !.slot = s, !.back = "getblk"]]
                            /\ UNCHANGED <<bufs, lru, nextSeq, disk, latest, bcCase>>
        \/ \E s \in found : ~bufs[s].busy /\ BufReady(t, buf_claim(bufs, {s}), Without(lru, {s}), s) /\ UNCHANGED <<disk, bcCase>>
        \/ /\ found = {}
           /\ \E s \in FreeSlots(bufs) : (\A y \in FreeSlots(bufs) : s <= y) /\ BufReady(t, buf_reassign(s, t, me.blk), lru, s)
           /\ UNCHANGED <<disk, bcCase>>
        \/ /\ found = {} /\ FreeSlots(bufs) = {} /\ lru = <<>>
           /\ th' = [th EXCEPT ![t] = [@ EXCEPT !.pc = "wait", !.slot = 0, !.back = "getblk"]]
           /\ UNCHANGED <<bufs, lru, nextSeq, disk, latest, bcCase>>
        \/ found = {} /\ FreeSlots(bufs) = {} /\ lru # <<>> /\ bufs[Head(lru)].dirty /\ StartsWrite(t, Head(lru), "evict")
        \/ /\ found = {} /\ FreeSlots(bufs) = {} /\ lru # <<>> /\ ~bufs[Head(lru)].dirty
           /\ \E s \in {Head(lru)} : BufReady(t, buf_reassign(s, t, me.blk), Tail(lru), s)
           /\ UNCHANGED <<disk, bcCase>>

-----------------------------------------------------------------------------
(* The disk answers.  It may fail; then nothing is marked clean or valid.    *)

Answer(ok) == (~ok => bcCase.errors > 0) /\ bcCase' = IF ok THEN bcCase ELSE [bcCase EXCEPT !.errors = @ - 1]
(* Faulty variant: a failed write marks the buffers clean. *)
CleanAlways(B, run, ok) == [s \in BcSlots |-> IF s \in Range(run) THEN [B[s] EXCEPT !.dirty = FALSE] ELSE B[s]]
mark_clean(B, run, ok) == [s \in BcSlots |-> IF s \in Range(run) /\ ok THEN [B[s] EXCEPT !.dirty = FALSE] ELSE B[s]]
(* The buffer the write was started for is released last. *)
InOrder(run, s) == Append(Without(run, {s}), s)
(* Where the caller of flush_dirty goes on.  Only bc_flush looks at an error; *)
(* val = 1: bc_release goes on without what could not be written.            *)
AfterFlush(op) ==
  CASE op \in {"flush", "detach"} -> "barrier" [] op = "read" -> "getblk" [] op = "direct" -> "direct"
    [] op = "flusher" -> "idle" [] OTHER -> "done"
AfterError(op) == CASE op = "flush" -> "failed" [] op = "detach" -> "detach" [] OTHER -> AfterFlush(op)
writeback_cluster(t, ok) ==
  LET me == th[t]  d == bufs[me.slot].dev  out == InOrder(me.run, me.slot)
      next == IF me.pc = "evict" THEN "getblk" ELSE IF ok THEN "flush" ELSE AfterError(me.op)
  IN /\ me.pc \in {"evict", "store"} /\ Answer(ok)
     /\ disk' = IF ~ok THEN disk
                ELSE [disk EXCEPT ![d] = [b \in Blocks |-> IF \E x \in Range(me.run) : bufs[x].blk = b
                                                          THEN bufs[CHOOSE x \in Range(me.run) : bufs[x].blk = b].data ELSE disk[d][b]]]
     /\ bufs' = buf_release(mark_clean(bufs, me.run, ok), me.run)
     /\ lru' = lru \o out
     /\ th' = Wakeup([th EXCEPT ![t] = [@ EXCEPT !.pc = next, !.run = <<>>, !.slot = 0, !.val = IF me.op = "detach" /\ ~ok THEN 1 ELSE me.val]], out)
     /\ UNCHANGED <<nextSeq, latest>>
bread(t, ok) ==
  LET me == th[t]  d == t  b == me.slot
      B == [s \in BcSlots |-> IF s \in Range(me.run) /\ ok THEN [bufs[s] EXCEPT !.data = disk[d][bufs[s].blk], !.valid = TRUE] ELSE bufs[s]]
  IN /\ me.pc = "fill" /\ Answer(ok)
     /\ nextSeq' = [nextSeq EXCEPT ![d] = me.blk + Len(me.run)]
     /\ LET C == IF ok /\ me.op = "part" THEN [B EXCEPT ![b] = [@ EXCEPT !.data = Half(B[b].data, "part", me.val), !.dirty = TRUE]] ELSE B
        IN /\ bufs' = buf_release(C, me.run)
           /\ lru' = lru \o Append(Tail(me.run), b)
           /\ latest' = IF ok /\ me.op = "part" THEN [latest EXCEPT ![d][me.blk] = C[b].data] ELSE latest
           /\ th' = Wakeup([th EXCEPT ![t] = [@ EXCEPT !.run = <<>>, !.slot = 0,
                              !.pc = IF ~ok THEN "failed" ELSE IF me.op = "part" THEN "written" ELSE "done",
                              !.res = IF ok /\ me.op = "read" THEN [x \in {me.blk} |-> B[b].data] ELSE <<>>]], me.run)
     /\ UNCHANGED disk

(* A long read goes to the disk itself; what the cache has is newer.         *)
raw_read(t, ok) ==
  /\ th[t].pc = "direct" /\ Answer(ok)
  /\ th' = [th EXCEPT ![t] = IF ok THEN [@ EXCEPT !.pc = "raw", !.res = disk[t]] ELSE [@ EXCEPT !.pc = "failed"]]
  /\ UNCHANGED <<bufs, lru, nextSeq, disk, latest>>
Overlay(t) ==
  [b \in Blocks |-> IF \E s \in lookup(t, b) : bufs[s].valid THEN bufs[CHOOSE s \in lookup(t, b) : TRUE].data ELSE th[t].res[b]]
direct_read(t) ==
  /\ th[t].pc = "raw"
  /\ th' = [th EXCEPT ![t] = [@ EXCEPT !.pc = "done", !.res = Overlay(t)]]
  /\ UNCHANGED <<bufs, lru, nextSeq, disk, latest, bcCase>>

(* flush_dirty: one round of its loop.  left is a ghost: the blocks of the   *)
(* device that are not on the disk as they were written last.                *)
Unwritten(t) == {s \in BcSlots : bufs[s].dirty /\ (t = 0 \/ bufs[s].dev = DevOf(t))}
First(s, S) == \A x \in S : bufs[s].dev < bufs[x].dev \/ (bufs[s].dev = bufs[x].dev /\ bufs[s].blk <= bufs[x].blk)
flush_dirty(t) ==
  LET me == th[t]  idle == {s \in Unwritten(t) : ~bufs[s].busy}
      busy == Unwritten(t) \ idle
      d == DevOf(t)
  IN /\ me.pc = "flush"
     /\ \/ \E s \in idle : First(s, idle) /\ StartsWrite(t, s, "store")
        \/ /\ idle = {} /\ \E s \in busy : th' = [th EXCEPT ![t] = [@ EXCEPT !.pc = "wait", !.slot = s, !.back = "flush"]]
           /\ UNCHANGED <<bufs, lru, nextSeq, disk, latest, bcCase>>
        \/ /\ idle = {} /\ busy = {}
           /\ th' = [th EXCEPT ![t] = IF t = 0 THEN BcIdle
                                      ELSE [@ EXCEPT !.pc = AfterFlush(me.op), !.left = {b \in Blocks : disk[d][b] # latest[d][b]}]]
           /\ UNCHANGED <<bufs, lru, nextSeq, disk, latest, bcCase>>
(* The device writes its own cache out. *)
raw_flush(t, ok) ==
  /\ th[t].pc = "barrier" /\ Answer(ok)
  /\ th' = [th EXCEPT ![t].pc = IF th[t].op = "detach" THEN "detach" ELSE IF ok THEN "flushed" ELSE "failed"]
  /\ UNCHANGED <<bufs, lru, nextSeq, disk, latest>>
(* maybe_flush: too many dirty buffers, or the last flush is long ago.       *)
maybe_flush == IF ndirty > DirtyHigh THEN {TRUE} ELSE IF ndirty > 0 THEN BOOLEAN ELSE {FALSE}

-----------------------------------------------------------------------------
(* The calls. *)

Begin(t, rec) ==
  /\ bcCase.calls[t] # <<>> /\ Head(bcCase.calls[t]) = rec.op
  /\ bcCase' = [bcCase EXCEPT !.calls[t] = Tail(@)]
  /\ th[t].pc \in {"idle", "done", "failed", "flushed"}
  /\ th' = [th EXCEPT ![t] = rec] /\ UNCHANGED <<bufs, lru, nextSeq, disk, latest>>
bc_read(t, op, b, flush) ==
  /\ flush \in maybe_flush /\ (op = "direct" => b = 0)
  /\ Begin(t, [BcIdle EXCEPT !.op = op, !.blk = b, !.pc = IF flush THEN "flush" ELSE IF op = "direct" THEN "direct" ELSE "getblk"])
bc_write(t, op, b, v) ==
  Begin(t, [BcIdle EXCEPT !.op = op, !.blk = b, !.val = v, !.pc = "getblk"])
Written(t, flush) ==
  /\ th[t].pc = "written" /\ flush \in maybe_flush
  /\ th' = [th EXCEPT ![t] = [@ EXCEPT !.pc = IF flush THEN "flush" ELSE "done", !.slot = 0]]
  /\ UNCHANGED <<bufs, lru, nextSeq, disk, latest, bcCase>>
(* A device is detached when nobody flushes it: nothing that is mounted is.  *)
bc_flush(t) == th[SyncOf[t]].op # "detach" /\ Begin(t, [BcIdle EXCEPT !.op = "flush", !.pc = "flush"])
flusher == ndirty > 0 /\ Begin(0, [BcIdle EXCEPT !.op = "flusher", !.pc = "flush"])
AtRest == {"idle", "done", "failed", "flushed"}
Detach(t) == (\A u \in Syncers : SyncOf[u] = t => th[u].pc \in AtRest) /\ Begin(t, [BcIdle EXCEPT !.op = "detach", !.pc = "flush"])
bc_release(t) ==
  LET own == {s \in BcSlots : bufs[s].dev = t}
      busy == {s \in own : bufs[s].busy}
  IN /\ th[t].pc = "detach"
     /\ \/ /\ busy # {} /\ \E s \in busy : th' = [th EXCEPT ![t] = [@ EXCEPT !.pc = "wait", !.slot = s, !.back = "detach"]]
           /\ UNCHANGED <<bufs, lru, latest>>
        \/ /\ busy = {} /\ bufs' = [s \in BcSlots |-> IF s \in own THEN NoBuf ELSE bufs[s]] /\ lru' = Without(lru, own)
           /\ th' = [th EXCEPT ![t] = [@ EXCEPT !.pc = "detached"]]
           /\ latest' = [latest EXCEPT ![t] = disk[t]] \* after a failed flush the rest is given up
     /\ UNCHANGED <<nextSeq, disk, bcCase>>

BcNext ==
  \/ flusher
  \/ \E t \in BcThreads : flush_dirty(t) \/ \E ok \in BOOLEAN : writeback_cluster(t, ok) \/ raw_flush(t, ok)
  \/ \E t \in Syncers : bc_flush(t)
  \/ \E t \in Devs :
       \/ getblk(t) \/ direct_read(t) \/ bc_release(t) \/ Detach(t)
       \/ \E ok \in BOOLEAN : bread(t, ok) \/ raw_read(t, ok)
       \/ \E flush \in BOOLEAN : Written(t, flush) \/ \E b \in Blocks : bc_read(t, "read", b, flush) \/ bc_read(t, "direct", b, flush)
       \/ \E b \in Blocks, v \in bcCase.vals : bc_write(t, "whole", b, v) \/ bc_write(t, "part", b, v)

BcSpec == BcInit(BcCases) /\ [][BcNext]_bcVars

-----------------------------------------------------------------------------
(* No block is cached twice, the list of idle buffers is exact, and a buffer *)
(* is busy for one thread only.                                              *)
BcTypeOK ==
  /\ \A s, x \in BcSlots : s # x /\ bufs[s].dev # 0 => <<bufs[s].dev, bufs[s].blk>> # <<bufs[x].dev, bufs[x].blk>>
  /\ IsInjective(lru) /\ Range(lru) = {s \in BcSlots : bufs[s].dev # 0 /\ ~bufs[s].busy}
  /\ \A s \in BcSlots : bufs[s].busy <=> \E t \in BcThreads : s \in Range(th[t].run)
  /\ \A t, u \in BcThreads : t # u => Range(th[t].run) \cap Range(th[u].run) = {}
  /\ \A s \in BcSlots : bufs[s].dirty => bufs[s].valid

(* What was written last is never lost: it is in the cache, or on the disk   *)
(* if the cache does not have the block or has it clean.                     *)
NothingLost ==
  \A d \in Devs, b \in Blocks :
    LET S == {s \in lookup(d, b) : bufs[s].valid}
    IN IF S = {} THEN disk[d][b] = latest[d][b]
       ELSE \A s \in S : bufs[s].data = latest[d][b] /\ (~bufs[s].dirty => disk[d][b] = latest[d][b])

(* A read returns what was written last.  Not claimed: a block that a direct *)
(* read found dirty, and that was written back and evicted meanwhile.        *)
ReadsLatest ==
  \A d \in Devs : th[d].pc = "done" /\ th[d].op \in {"read", "direct"} =>
    \A b \in DOMAIN th[d].res \ th[d].gone : th[d].res[b] = latest[d][b]

(* A flush that succeeds leaves on the disk every write that was done when   *)
(* it asks the device for its barrier, whoever writes, reads or writes       *)
(* buffers back at the time; so does the one of a device that is detached.   *)
FlushDurable ==
  /\ \A t \in BcThreads : th[t].pc \in {"barrier", "flushed"} => th[t].left = {}
  /\ \A d \in Devs : th[d].pc = "detach" /\ th[d].val = 0 => disk[d] = latest[d]

(* A thread sleeps only while what it waits for is in use.                   *)
WaitsForBusy ==
  \A t \in BcThreads : th[t].pc = "wait" => IF th[t].slot = 0 THEN lru = <<>> ELSE bufs[th[t].slot].busy

(* The buffer cache (bcache.c): no write is lost, reads see the latest       *)
(* write, a flush that succeeds leaves everything on the disk, and whoever   *)
(* waits for a busy buffer waits for one that will be released.              *)
BcacheSound == BcTypeOK /\ NothingLost /\ ReadsLatest /\ FlushDurable /\ WaitsForBusy
=============================================================================

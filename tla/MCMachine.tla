------------------------------ MODULE MCMachine ------------------------------
(* Instances of the modules of memory, futexes and disk drivers: each
   behaviour is one of one module, part; the others stay in a first state. *)
EXTENDS Vm, Heap, Dma, VirtioBlk, Ata

(* Sharing, moving, file mappings and forks, each with a few calls. *)
Vc(ops, kinds, prots, ranges, vals) == [ops |-> ops, kinds |-> kinds, prots |-> prots, ranges |-> ranges, vals |-> vals]
MCVmCases ==
  {Vc([mmap |-> 1, access |-> 4, fork |-> 1, thread |-> 1, mprotect |-> 2], {"private"}, {RW, {"r"}}, {<<1, 1>>}, {1, 2}),
   Vc([mmap |-> 1, access |-> 2, munmap |-> 1, mremap |-> 1, brk |-> 2], {"private"}, {RW}, {<<2, 1>>, <<3, 1>>}, {1}),
   Vc([mmap |-> 1, access |-> 3, msync |-> 2, thread |-> 1, munmap |-> 1], {"disk"}, {RW}, {<<1, 2>>, <<1, 1>>}, {1, 2}),
   Vc([mmap |-> 2, access |-> 2, mprotect |-> 1, thread |-> 1, msync |-> 1, reclaim |-> 1, munmap |-> 1], {"disk"}, {RW}, {<<1, 1>>}, {1}),
   Vc([mmap |-> 1, access |-> 2, mprotect |-> 1, exit |-> 2, fork |-> 1, thread |-> 1, reclaim |-> 1], {"disk", "readonly"}, {RW, {"r"}}, {<<1, 2>>}, {1, 2}),
   Vc([mmap |-> 1, access |-> 3, fork |-> 1, exit |-> 1, madvise |-> 1, switch |-> 0], {"private", "shared"}, {RW}, {<<1, 1>>}, {1, 2}),
   Vc([mmap |-> 2, access |-> 1, memfd |-> 1, mremap |-> 1, munmap |-> 1], {"mem"}, {RW}, {<<1, 2>>, <<2, 1>>}, {1})}

(* Sizes for bins, blocks and whole pages on two CPUs. *)
HeapCasesDef ==
  { [pages |-> 3, sizes |-> {3}, arrays |-> {}, left |-> [malloc |-> 5, free |-> 4]],
    [pages |-> 4, sizes |-> {1, 5, 14}, arrays |-> {}, left |-> [malloc |-> 3, free |-> 2]],
    [pages |-> 4, sizes |-> {2, 7, 22}, arrays |-> {<<3, 3>>, <<3, 22>>}, left |-> [malloc |-> 2, calloc |-> 1, realloc |-> 2, free |-> 1]] }

(* Limits of devices, buffers over page borders and bounces. *)
Limits(align, boundary, max, size, segs, seg) ==
  [align |-> align, boundary |-> boundary, max |-> max, size |-> size, segs |-> segs, seg |-> seg]
DmaCase(limits, table, buffers, left) ==
  [limits |-> limits, table |-> [v \in 0..(Len(table) - 1) |-> table[v + 1]],
   buffers |-> {[at |-> b[1], len |-> b[2]] : b \in buffers}, left |-> left]
DmaCasesDef ==
  {DmaCase({Limits(a, b, x, 4, s, g)}, t, {<<0, 4>>, <<1, 3>>, <<3, 2>>}, [tag |-> 1, map |-> 1, load |-> 1, sync |-> 1, cpu |-> 1, device |-> 1]) :
     a \in {1, 4}, b \in {0, 4}, x \in {9, 15}, s \in {2, 3}, g \in {2, 4}, t \in {<<2, 3, 5>>, <<6, 2, 3>>, <<3, 4>>}}
  \cup {DmaCase({Limits(4, 0, 11, 4, 2, 4)}, t, {<<0, 4>>, <<1, 1>>}, [tag |-> 1, map |-> 2, mem |-> 1, unmap |-> 2, load |-> 3, unload |-> 2]) : t \in {<<3, 4>>, <<6, 7>>}}
  \cup {DmaCase({Limits(1, 4, 15, 3, 2, 3), Limits(4, 0, 11, 2, 1, 4)}, <<3, 4>>, {<<1, 2>>},
          [tag |-> 3, untag |-> 3, map |-> 1, mem |-> 1, unmap |-> 1, load |-> 1])}

(* Writers, readers and flushes with errors, faults and no sleep. *)
VbR(op, s, n, v, g) == [op |-> op, sec |-> s, len |-> n, val |-> v, segs |-> g]
VbFl == VbR("flush", 0, 0, 0, 0)
VbCase(jobs, errors, faults, sleeps, irq, ro, unmaps) ==
  [calls |-> jobs, errors |-> errors, faults |-> faults, sleeps |-> sleeps, irq |-> irq, ro |-> ro,
   unmaps |-> [t \in VbThreads |-> IF t = 1 THEN unmaps ELSE 0], own |-> [t \in VbThreads |-> IF t = 3 THEN {} ELSE {t - 1}]]
VbCasesDef == {
  VbCase(<< <<VbR("write", 0, 1, 3, 2), VbR("read", 0, 1, 0, 2)>>, <<VbR("write", 1, 1, 5, 2), VbFl>>, <<VbFl>> >>, 1, 0, TRUE, TRUE, FALSE, 0),
  VbCase(<< <<VbR("read", 0, 1, 0, 2), VbR("unaligned", 0, 1, 3, 1)>>, <<VbR("write", 1, 1, 5, 1), VbR("read", 1, 1, 0, 2)>>, <<>> >>, 1, 1, TRUE, TRUE, FALSE, 1),
  VbCase(<< <<VbR("read", 0, 2, 0, 1)>>, <<VbR("read", 1, 2, 0, 1), VbFl>>, <<VbFl>> >>, 0, 1, TRUE, TRUE, FALSE, 1),
  VbCase(<< <<VbR("write", 0, 1, 3, 1)>>, <<VbR("write", 1, 1, 3, 1), VbR("read", 1, 1, 0, 1)>>, <<>> >>, 0, 0, TRUE, TRUE, TRUE, 0),
  VbCase(<< <<VbR("unaligned", 0, 1, 3, 2), VbR("read", 0, 1, 0, 1), VbFl>>, <<>>, <<>> >>, 1, 1, FALSE, TRUE, FALSE, 0)}

(* Requests with errors, hangs, PIO and DMA. *)
AtR(op, l, n, v, hf) == [op |-> op, lba |-> l, len |-> n, val |-> v, half |-> hf]
AtCase(jobs, errors, hangs, nomap, dma, sleeps, lba48, unmaps) ==
  [calls |-> jobs, errors |-> errors, hangs |-> hangs, nomap |-> nomap, dma |-> dma, sleeps |-> sleeps, lba48 |-> lba48, unmaps |-> unmaps]
AtaCasesDef == {
  AtCase(<< <<AtR("part", 0, 1, 3, 1)>>, <<AtR("write", 1, 1, 4, 1)>>, <<AtR("part", 0, 1, 5, 2), AtR("peek", 0, 1, 0, 1)>> >>, 0, 1, 0, TRUE, TRUE, TRUE, 0),
  AtCase(<< <<AtR("read", 0, 2, 0, 1), AtR("write", 1, 1, 3, 1)>>, <<AtR("part", 0, 1, 4, 2), AtR("read", 0, 1, 0, 1)>>, <<>> >>, 1, 1, 1, TRUE, TRUE, FALSE, 1),
  AtCase(<< <<AtR("write", 0, 2, 3, 1), AtR("read", 2, 1, 0, 1)>>, <<AtR("part", 1, 1, 4, 1), AtR("flush", 0, 0, 0, 1)>>, <<AtR("peek", 0, 1, 0, 1)>> >>, 2, 0, 0, FALSE, TRUE, FALSE, 0),
  AtCase(<< <<AtR("read", 0, 1, 0, 1), AtR("part", 0, 1, 3, 2), AtR("read", 0, 1, 0, 1)>>, <<>>, <<>> >>, 1, 1, 0, TRUE, FALSE, TRUE, 0)}

VARIABLE part

(* The cases of the part that runs; another part has one of its own. *)
Of(name, cases) == IF part = name THEN cases ELSE {CHOOSE c \in cases : TRUE}
MachineInit ==
  /\ part \in {"vm", "heap", "dma", "virtioblk", "ata"}
  /\ VmInit(Of("vm", VmCases))
  /\ HeapInit(Of("heap", HeapCases))
  /\ VbInit(Of("virtioblk", VbCases))
  /\ AtaInit(Of("ata", AtaCases))
  /\ DmaInit(Of("dma", DmaCases))
OtherParts ==
  /\ UNCHANGED part
  /\ (part # "vm" => UNCHANGED vmVars)
  /\ (part # "heap" => UNCHANGED heapVars)
  /\ (part # "dma" => UNCHANGED dmaVars)
  /\ (part # "virtioblk" => UNCHANGED vbVars)
  /\ (part # "ata" => UNCHANGED ataVars)
MachineNext ==
  \/ part = "vm" /\ VmNext /\ OtherParts
  \/ part = "heap" /\ HeapNext /\ OtherParts
  \/ part = "dma" /\ DmaNext /\ OtherParts
  \/ part = "virtioblk" /\ VbNext /\ OtherParts
  \/ part = "ata" /\ AtaNext /\ OtherParts
MachineSpec == MachineInit /\ [][MachineNext]_<<part, vmVars, heapVars, dmaVars, vbVars, ataVars>>
-------------------------------------------------------------------------------
(* Properties: what each part promises *)


(* The heap (alloc.c): blocks cover the heap without overlap, each is large
   enough, free neighbours are merged, and the caches of the CPUs count right. *)
HeapSound == part = "heap" => HeapExact /\ HeapFits /\ HeapMerged /\ CachesCounted

(* DMA maps (dma.c): tags live as long as they are used, segments respect the
   device and cover the buffer, CPU and device see each other's data after a
   sync, coherent memory is within reach, and bounce frames are given back. *)
DmaSound == part = "dma" => /\ TagsCounted /\ SegmentsFit /\ SegmentsExact /\ DmaSeen
                           /\ CoherentDirect /\ DmaFrames

(* Disk drivers (virtio_blk.c, ata.c): descriptors and channels have one user,
   no page is freed under the device, an answer wakes who waits for it, and
   what a caller is told was read, written or flushed is so. *)
DisksSound ==
  /\ [](part = "virtioblk" => VbTypeOK /\ RingSound /\ PinnedForDevice /\ AnswerHeard)
  /\ [](part = "ata" => AtaTypeOK /\ ChannelExclusive /\ AtaKept /\ AtaPinned /\ AtaWakes)
  /\ Truthful /\ AtaReads
===============================================================================

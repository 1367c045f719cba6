--------------------------------- MODULE Dma ---------------------------------
(* Buffers for devices (dma.c): tags say what a device can address, a map    *)
(* translates one buffer into the segments a device is given, or replaces it *)
(* by a bounce buffer that is copied before and after.  Callers load, sync   *)
(* and unload a map one after the other, and give a tag up once.             *)
EXTENDS Integers, Sequences, FiniteSets, SequencesExt

CONSTANTS
  PageSize,
  DmaFrameCount,      \* frames of memory, numbered in address order
  DTags, DMaps, \* places for tags and maps
  DmaCases      \* limits of tags, page tables, buffers and calls

VARIABLES
  tags,     \* tag -> record or NoTag
  maps,     \* map -> record or NoMap
  ram,      \* address -> byte
  frames,   \* free frames
  dmaCase
dmaVars == <<tags, maps, ram, frames, dmaCase>>

Addresses == 0..(DmaFrameCount * PageSize - 1)
NoTag == [parent |-> 0, align |-> 0, boundary |-> 0, max |-> 0, size |-> 0, segs |-> 0, seg |-> 0, refs |-> 0, maps |-> 0, owned |-> FALSE]
NoBuffer == [base |-> -1, user |-> FALSE]
NoMap == [tag |-> 0, segs |-> <<>>, buf |-> NoBuffer, len |-> 0, loaded |-> FALSE, bounced |-> FALSE,
          bounce |-> -1, pages |-> 0, mem |-> -1, same |-> FALSE]

DmaInit(cases) ==
  /\ dmaCase \in cases
  /\ tags = [t \in DTags |-> NoTag] /\ maps = [m \in DMaps |-> NoMap]
  /\ ram = [a \in Addresses |-> 0]
  /\ frames = (0..(DmaFrameCount - 1)) \ {dmaCase.table[v] : v \in DOMAIN dmaCase.table}

DmaStep(op) == op \in DOMAIN dmaCase.left /\ dmaCase.left[op] > 0 /\ dmaCase' = [dmaCase EXCEPT !.left[op] = @ - 1]
page_count(len) == (len + PageSize - 1) \div PageSize
Least(a, b) == IF a < b THEN a ELSE b
Most(a, b) == IF a > b THEN a ELSE b
Window(a, boundary) == IF boundary = 0 THEN 0 ELSE a \div boundary
crosses_boundary(a, len, boundary) == Window(a, boundary) # Window(a + len - 1, boundary)

(* The physical address of place i of a buffer; -1 where nothing is mapped.  *)
(* Kernel memory is mapped at a fixed distance, user memory by the table.    *)
translate(buf, i) ==
  IF ~buf.user THEN buf.base + i
  ELSE LET v == (buf.base + i) \div PageSize
       IN IF v \in DOMAIN dmaCase.table THEN dmaCase.table[v] * PageSize + ((buf.base + i) % PageSize) ELSE -1

(* The first of n free frames in a row, or -1 (there is no page cache to shrink). *)
alloc_physical_pages(free, n) ==
  LET fits == {f \in free : \A k \in f..(f + n - 1) : k \in free}
  IN IF fits = {} THEN -1 ELSE CHOOSE f \in fits : \A g \in fits : f <= g
(* More frames are taken than needed and those around the aligned run given back. *)
alloc_pages(free, count, align, max) ==
  LET step == Most(align \div PageSize, 1)
      raw == alloc_physical_pages(free, count + step - 1)
      base == ((raw + step - 1) \div step) * step
  IN IF raw = -1 \/ (base + count) * PageSize - 1 > max THEN [base |-> -1, free |-> free]
     ELSE [base |-> base, free |-> free \ (base..(base + count - 1))]
FramesAt(base, n) == IF base = -1 THEN {} ELSE base..(base + n - 1)

-----------------------------------------------------------------------------
(* Segments: [a, n] pairs.  The result is <<>> when there are too many. *)

Joins(t, last, addr, chunk) ==
  last.a + last.n = addr /\ last.n + chunk <= t.seg /\ Window(last.a, t.boundary) = Window(addr, t.boundary)
RECURSIVE add_segment(_, _, _, _)
add_segment(t, segs, addr, len) ==
  LET chunk == IF t.boundary = 0 THEN len ELSE Least(len, (Window(addr, t.boundary) + 1) * t.boundary - addr)
      part == Least(chunk, t.seg)
  IN IF len = 0 THEN segs
     ELSE IF segs # <<>> /\ Joins(t, Last(segs), addr, chunk)
       THEN add_segment(t, Front(segs) \o <<[Last(segs) EXCEPT !.n = @ + chunk]>>, addr + chunk, len - chunk)
     ELSE IF Len(segs) = t.segs THEN <<>>
     ELSE add_segment(t, Append(segs, [a |-> addr, n |-> part]), addr + part, len - part)
(* Page by page: the segments, or why there are none. *)
RECURSIVE load_buffer(_, _, _, _, _)
load_buffer(t, buf, i, len, segs) ==
  LET pa == translate(buf, i)
      chunk == Least(PageSize - ((buf.base + i) % PageSize), len - i)
      more == add_segment(t, segs, pa, chunk)
  IN IF i = len THEN [why |-> "ok", segs |-> segs]
     ELSE IF pa = -1 THEN [why |-> "fault", segs |-> <<>>]
     ELSE IF pa + chunk - 1 > t.max \/ (segs = <<>> /\ pa % t.align # 0) THEN [why |-> "bounce", segs |-> <<>>]
     ELSE IF more = <<>> THEN [why |-> "big", segs |-> <<>>]
     ELSE load_buffer(t, buf, i + chunk, len, more)

(* A bounce buffer that is large enough is kept, another is given back first. *)
bounce_reserve(m, t, len) ==
  IF m.bounce # -1 /\ m.pages * PageSize >= len THEN [map |-> m, free |-> frames, ok |-> TRUE]
  ELSE LET r == alloc_pages(frames \cup FramesAt(m.bounce, m.pages), page_count(len), t.align, t.max)
       IN [map |-> [m EXCEPT !.bounce = r.base, !.pages = IF r.base = -1 THEN 0 ELSE page_count(len)], free |-> r.free, ok |-> r.base # -1]

-----------------------------------------------------------------------------
(* Limits l narrowed to those of the parent. *)
Narrowed(p, l) ==
  LET b == IF p.boundary # 0 /\ (l.boundary = 0 \/ p.boundary < l.boundary) THEN p.boundary ELSE l.boundary
  IN [l EXCEPT !.align = Most(p.align, l.align), !.boundary = b, !.max = Least(p.max, l.max)]
dma_tag_create(t, p, l) ==
  LET n == IF p = 0 THEN l ELSE Narrowed(tags[p], l)
      seg == IF n.boundary # 0 /\ n.seg > n.boundary THEN n.boundary ELSE n.seg
  IN /\ DmaStep("tag") /\ tags[t] = NoTag /\ (p # 0 => tags[p].owned)
     /\ tags' = [u \in DTags |->
          IF u = t THEN [parent |-> p, align |-> n.align, boundary |-> n.boundary, max |-> n.max, size |-> n.size, segs |-> n.segs,
                         seg |-> seg, refs |-> 1, maps |-> 0, owned |-> TRUE]
          ELSE IF u = p THEN [tags[u] EXCEPT !.refs = @ + 1] ELSE tags[u]]
     /\ UNCHANGED <<maps, ram, frames>>
(* A tag without references goes and takes its reference to its parent along. *)
RECURSIVE Released(_, _)
Released(T, t) ==
  IF t = 0 THEN T
  ELSE IF T[t].refs > 1 THEN [T EXCEPT ![t].refs = @ - 1]
  ELSE Released([T EXCEPT ![t] = NoTag], T[t].parent)
Unused(t) == tags[t].maps = 0
dma_tag_destroy(t) ==
  /\ DmaStep("untag") /\ tags[t].owned
  /\ tags' = IF Unused(t) THEN Released([tags EXCEPT ![t].owned = FALSE], t) ELSE tags
  /\ UNCHANGED <<maps, ram, frames>>

Mapped(m, t, new, free) ==
  /\ maps' = [maps EXCEPT ![m] = new] /\ tags' = [tags EXCEPT ![t].maps = @ + 1] /\ frames' = free
dma_map_create(m, t, now) ==
  /\ DmaStep("map") /\ maps[m] = NoMap /\ tags[t].owned
  /\ \E r \in {IF now THEN bounce_reserve([NoMap EXCEPT !.tag = t], tags[t], tags[t].size)
               ELSE [map |-> [NoMap EXCEPT !.tag = t], free |-> frames, ok |-> TRUE]} :
       IF r.ok THEN Mapped(m, t, r.map, r.free) ELSE UNCHANGED <<maps, tags, frames>>
  /\ UNCHANGED ram
Unmapped(m, free) ==
  /\ maps' = [maps EXCEPT ![m] = NoMap] /\ tags' = [tags EXCEPT ![maps[m].tag].maps = @ - 1]
  /\ frames' = free \cup FramesAt(maps[m].bounce, maps[m].pages)
dma_map_destroy(m) ==
  /\ DmaStep("unmap") /\ maps[m] # NoMap /\ maps[m].mem = -1
  /\ IF maps[m].loaded THEN UNCHANGED <<maps, tags, frames>> ELSE Unmapped(m, frames)
  /\ UNCHANGED ram
(* Memory for device and kernel alike, and its map; memory that would cross  *)
(* a boundary without need is given back and asked for again.                *)
dma_mem_alloc(m, t) ==
  LET n == page_count(tags[t].size)  l == tags[t]
      one == alloc_pages(frames, n, l.align, l.max)
      two == IF one.base # -1 /\ l.size <= l.boundary /\ crosses_boundary(one.base * PageSize, l.size, l.boundary)
               THEN alloc_pages(frames, n, l.boundary, l.max) ELSE one
  IN /\ DmaStep("mem") /\ maps[m] = NoMap /\ tags[t].owned
     /\ IF two.base = -1 THEN UNCHANGED <<maps, tags, frames>>
        ELSE Mapped(m, t, [NoMap EXCEPT !.tag = t, !.mem = two.base], two.free)
     /\ UNCHANGED ram
dma_mem_free(m) ==
  /\ DmaStep("unmap") /\ maps[m].mem # -1
  /\ Unmapped(m, frames \cup FramesAt(maps[m].mem, page_count(tags[maps[m].tag].size)))
  /\ UNCHANGED ram

(* The map and the free frames after a load; b is the bounce buffer if one is needed. *)
Loaded(map, buf, len, segs, bounced) ==
  IF segs = <<>> THEN map ELSE [map EXCEPT !.segs = segs, !.buf = buf, !.len = len, !.bounced = bounced, !.loaded = TRUE]
Bounced(t, b, buf, len) ==
  [map |-> Loaded(b.map, buf, len, IF b.ok THEN add_segment(t, <<>>, b.map.bounce * PageSize, len) ELSE <<>>, TRUE), free |-> b.free]
dma_map_load(m, buf, len) ==
  /\ DmaStep("load") /\ maps[m] # NoMap /\ ~maps[m].loaded /\ len <= tags[maps[m].tag].size
  /\ \E t \in {tags[maps[m].tag]} : \E r \in {load_buffer(t, buf, 0, len, <<>>)} :
     \E n \in {IF r.why = "bounce" THEN Bounced(t, bounce_reserve(maps[m], t, len), buf, len)
               ELSE [map |-> Loaded(maps[m], buf, len, r.segs, FALSE), free |-> frames]} :
       maps' = [maps EXCEPT ![m] = n.map] /\ frames' = n.free
  /\ UNCHANGED <<tags, ram>>
dma_map_unload(m) ==
  /\ DmaStep("unload") /\ maps[m].loaded
  /\ maps' = [maps EXCEPT ![m].segs = <<>>, ![m].buf = NoBuffer, ![m].len = 0, ![m].bounced = FALSE, ![m].loaded = FALSE, ![m].same = FALSE]
  /\ UNCHANGED <<tags, ram, frames>>

-----------------------------------------------------------------------------
(* Data.  same: what the device and the kernel see is meant to be the same. *)

BufferAt(m) == [i \in 1..m.len |-> translate(m.buf, i - 1)]
(* A buffer is mapped when it is copied: a bounced load does not look at all its pages. *)
MappedAll(m) == -1 \notin Range(BufferAt(m))
DeviceAt(m) == FlattenSeq([i \in DOMAIN m.segs |-> [k \in 1..m.segs[i].n |-> m.segs[i].a + k - 1]])
BounceAt(m) == [i \in 1..m.len |-> m.bounce * PageSize + i - 1]
Copied(from, to) == [a \in Addresses |-> IF \E i \in DOMAIN to : to[i] = a THEN ram[from[CHOOSE i \in DOMAIN to : to[i] = a]] ELSE ram[a]]
RamWith(at, byte) == [a \in Addresses |-> IF Contains(at, a) THEN byte + (CHOOSE i \in DOMAIN at : at[i] = a) ELSE ram[a]]
(* Faulty variant: only the copy to the device is made. *)
BeforeOnly(m, op) == m.bounced /\ op = "prewrite"
Bounces(m, op) == m.bounced
dma_map_sync(m, op) ==
  /\ DmaStep("sync") /\ maps[m].loaded /\ MappedAll(maps[m])
  /\ ram' = IF ~Bounces(maps[m], op) THEN ram
            ELSE IF op = "prewrite" THEN Copied(BufferAt(maps[m]), BounceAt(maps[m])) ELSE Copied(BounceAt(maps[m]), BufferAt(maps[m]))
  /\ maps' = [maps EXCEPT ![m].same = TRUE] /\ UNCHANGED <<tags, frames>>
KernelWrites(m) ==
  /\ DmaStep("cpu") /\ maps[m].loaded /\ MappedAll(maps[m]) /\ ram' = RamWith(BufferAt(maps[m]), 10)
  /\ maps' = [maps EXCEPT ![m].same = ~maps[m].bounced] /\ UNCHANGED <<tags, frames>>
DeviceWrites(m) ==
  /\ DmaStep("device") /\ maps[m].loaded /\ ram' = RamWith(DeviceAt(maps[m]), 20)
  /\ maps' = [maps EXCEPT ![m].same = ~maps[m].bounced] /\ UNCHANGED <<tags, frames>>

(* Tags and maps take the first free place. *)
FirstFree(f, none) == {i \in DOMAIN f : f[i] = none /\ \A j \in DOMAIN f : f[j] = none => i <= j}
DmaNext ==
  \/ \E t \in FirstFree(tags, NoTag), p \in DTags \cup {0}, l \in dmaCase.limits : dma_tag_create(t, p, l)
  \/ \E t \in DTags : \/ dma_tag_destroy(t)
                      \/ \E m \in FirstFree(maps, NoMap) : dma_mem_alloc(m, t) \/ \E now \in BOOLEAN : dma_map_create(m, t, now)
  \/ \E m \in DMaps :
       \/ dma_map_destroy(m) \/ dma_mem_free(m) \/ dma_map_unload(m) \/ KernelWrites(m) \/ DeviceWrites(m)
       \/ \E op \in {"prewrite", "postread"} : dma_map_sync(m, op)
       \/ maps[m].mem # -1 /\ dma_map_load(m, [base |-> maps[m].mem * PageSize, user |-> FALSE], tags[maps[m].tag].size)
       \/ maps[m].mem = -1 /\ \E b \in dmaCase.buffers : dma_map_load(m, [base |-> b.at, user |-> TRUE], b.len)

-----------------------------------------------------------------------------
(* Type, and: a tag lives exactly as long as somebody has it, a child or its *)
(* owner, and as long as a map was made from it (dma_tag_destroy).           *)
TagsCounted ==
  \A t \in DTags :
    /\ tags[t].refs = (IF tags[t].owned THEN 1 ELSE 0) + Cardinality({u \in DTags : tags[u] # NoTag /\ tags[u].parent = t})
    /\ tags[t].maps = Cardinality({m \in DMaps : maps[m].tag = t})
    /\ tags[t].maps > 0 => tags[t].refs > 0

(* Whatever the device is given, it can address: every segment obeys the     *)
(* limits asked for and those of every ancestor (add_segment, load_buffer).  *)
Ancestors(t) == LET p == tags[t].parent IN {t} \cup (IF p = 0 THEN {} ELSE ({p, tags[p].parent} \ {0}))
SegmentsFit ==
  \A m \in DMaps : maps[m].loaded =>
    /\ Len(maps[m].segs) \in 1..tags[maps[m].tag].segs
    /\ \A u \in Ancestors(maps[m].tag) : \A i \in DOMAIN maps[m].segs :
         LET s == maps[m].segs[i]  t == tags[u]
         IN /\ s.n > 0 /\ s.a + s.n - 1 <= t.max /\ ~crosses_boundary(s.a, s.n, t.boundary)
            /\ (u = maps[m].tag => s.n <= t.seg) /\ (i = 1 => s.a % t.align = 0)

(* The segments are the buffer, or its bounce buffer, byte for byte and in   *)
(* order.                                                                    *)
SegmentsExact ==
  \A m \in DMaps : maps[m].loaded => DeviceAt(maps[m]) = IF maps[m].bounced THEN BounceAt(maps[m]) ELSE BufferAt(maps[m])

(* After a sync the device and the kernel see the same bytes, whether the    *)
(* buffer is bounced or not (dma_map_sync).                                  *)
DmaSeen ==
  \A m \in DMaps : maps[m].same => \A i \in 1..maps[m].len : ram[DeviceAt(maps[m])[i]] = ram[BufferAt(maps[m])[i]]

(* Memory allocated for device and kernel together is used in place.         *)
(* Drivers of rings read it without a sync between.                          *)
CoherentDirect == \A m \in DMaps : maps[m].mem # -1 => ~maps[m].bounced

(* No frame is lost and none is used twice, whatever fails (bounce_reserve,  *)
(* alloc_pages, dma_mem_alloc).                                              *)
DmaFrames ==
  LET used(m) == FramesAt(maps[m].bounce, maps[m].pages) \cup (IF maps[m].mem = -1 THEN {} ELSE FramesAt(maps[m].mem, page_count(tags[maps[m].tag].size)))
      user == {dmaCase.table[v] : v \in DOMAIN dmaCase.table}
  IN /\ \A m, n \in DMaps : m # n => used(m) \cap used(n) = {}
     /\ \A m \in DMaps : used(m) \cap (frames \cup user) = {}
     /\ frames \cup user \cup UNION {used(m) : m \in DMaps} = 0..(DmaFrameCount - 1)
=============================================================================

-------------------------------- MODULE Heap --------------------------------
(* The kernel heap (alloc.c): a sorted list of free blocks, bins of small    *)
(* objects with a cache in front of them on every CPU, and whole pages for   *)
(* large blocks.  A CPU runs one call at a time (interrupts are off), and    *)
(* other CPUs run between the sections under the heap lock.                  *)
EXTENDS Integers, Sequences, FiniteSets, SequencesExt

CONSTANTS
  NHeapCpus,
  HeapPageSize,            \* bytes of a page of the memory alloc_kernel_pages has
  BIN_STEP,                \* also the size of a block header
  BIN_COUNT, CACHE_MAX, CACHE_BATCH, BIN_SLAB_PAGES,
  HEAP_INITIAL_PAGES, HEAP_GROW_PAGES, LARGE_ALLOC_THRESHOLD,
  MallocMax,               \* the largest request that is looked at
  UintMax,                 \* the largest uintptr_t
  HeapCases                \* sizes asked for and numbers of calls
ASSUME HeapAssumption ==
  /\ CACHE_BATCH \in 1..(CACHE_MAX - 1) /\ HeapPageSize % BIN_STEP = 0
  \* no bytes are left over at the end of a slab, so that all can be counted
  /\ \A b \in 1..BIN_COUNT : (BIN_SLAB_PAGES * HeapPageSize) % ((b + 1) * BIN_STEP) = 0

HCpus == 1..NHeapCpus

VARIABLES
  heap,     \* blocks (address -> size and state), free list, bins, caches, free pages
  calls,    \* CPU -> the call it is in
  live,     \* block a caller has -> the bytes it asked for
  heapCase
heapVars == <<heap, calls, live, heapCase>>

Header == BIN_STEP
BIN_MAX == BIN_STEP * BIN_COUNT
NoPointer == -1
Quiet == [at |-> "none", size |-> 0, ask |-> 0, base |-> NoPointer, bytes |-> 0, old |-> NoPointer]

(* memory_initialize: the first chunk is on the free list. *)
HeapInit(cases) ==
  /\ heapCase \in cases
  /\ heap = [blocks |-> [a \in {0} |-> [size |-> HEAP_INITIAL_PAGES * HeapPageSize - Header, state |-> "free"]], free |-> <<0>>,
             bins |-> [b \in 1..BIN_COUNT |-> <<>>],
             caches |-> [c \in HCpus |-> [b \in 1..BIN_COUNT |-> [list |-> <<>>, count |-> 0]]],
             pages |-> HEAP_INITIAL_PAGES..(heapCase.pages - 1)]
  /\ calls = [c \in HCpus |-> Quiet] /\ live = <<>>

HeapStep(op) == op \in DOMAIN heapCase.left /\ heapCase.left[op] > 0 /\ heapCase' = [heapCase EXCEPT !.left[op] = @ - 1]
Set(f, a, v) == [x \in DOMAIN f \cup {a} |-> IF x = a THEN v ELSE f[x]]
Drop(f, a) == [x \in DOMAIN f \ {a} |-> f[x]]
Rounded(n, step) == ((n + step - 1) \div step) * step
Block(size, state) == [size |-> size, state |-> state]

(* n free pages in a row, the lowest (there is no page cache to shrink). *)
alloc_kernel_pages(pages, n) ==
  LET fits == {p \in pages : \A k \in p..(p + n - 1) : k \in pages}
  IN IF fits = {} THEN NoPointer ELSE (CHOOSE p \in fits : \A q \in fits : p <= q) * HeapPageSize
HeapPages(base, bytes) == (base \div HeapPageSize)..((base + bytes) \div HeapPageSize - 1)

-----------------------------------------------------------------------------
(* The free list *)

Touches(blocks, a, b) == a + Header + blocks[a].size = b
(* Block a, whose header is set, goes to its place and joins its neighbours. *)
insert_free_locked(h, a) ==
  LET before == SelectSeq(h.free, LAMBDA x : x < a)  after == SelectSeq(h.free, LAMBDA x : x > a)
      up == after # <<>> /\ a + Header + h.blocks[a].size = Head(after)
      size == IF up THEN h.blocks[a].size + Header + h.blocks[Head(after)].size ELSE h.blocks[a].size
      rest == IF up THEN Tail(after) ELSE after
      merged == Set(IF up THEN Drop(h.blocks, Head(after)) ELSE h.blocks, a, Block(size, "free"))
      prev == Last(before)
  IN IF before # <<>> /\ Touches(h.blocks, prev, a)
     THEN [h EXCEPT !.free = before \o rest, !.blocks = Set(Drop(merged, a), prev, Block(merged[prev].size + Header + size, "free"))]
     ELSE [h EXCEPT !.free = before \o <<a>> \o rest, !.blocks = merged]

LargeEnough(block, size) == block.size >= size
Splits(block, size) == block.size >= size + Header + BIN_STEP
(* The first block that is large enough, its rest back on the list. *)
heap_take(h, size) ==
  LET i == CHOOSE k \in 1..Len(h.free) : LargeEnough(h.blocks[h.free[k]], size) /\ \A j \in 1..(k - 1) : ~LargeEnough(h.blocks[h.free[j]], size)
      a == h.free[i]  old == h.blocks[a]  rest == a + Header + size
  IN IF \A k \in DOMAIN h.free : ~LargeEnough(h.blocks[h.free[k]], size) THEN [ptr |-> NoPointer, heap |-> h]
     ELSE IF Splits(old, size)
     THEN [ptr |-> a, heap |-> [h EXCEPT !.free[i] = rest, !.blocks = Set(Set(@, a, Block(size, "used")), rest, Block(old.size - size - Header, "free"))]]
     ELSE [ptr |-> a, heap |-> [h EXCEPT !.free = RemoveAt(@, i), !.blocks[a].state = "used"]]

-----------------------------------------------------------------------------
(* Bins and caches *)

(* Faulty variant: the last object of the batch stays in the bin. *)
BatchAgain(list, n) == SubSeq(list, n, Len(list))
Beyond(list, n) == SubSeq(list, n + 1, Len(list))
(* One object for the caller, up to CACHE_BATCH - 1 more for the cache. *)
bin_refill_locked(h, c, b) ==
  LET taken == IF Len(h.bins[b]) < CACHE_BATCH THEN Len(h.bins[b]) ELSE CACHE_BATCH
  IN [h EXCEPT !.bins[b] = Beyond(@, taken), !.caches[c][b] = [list |-> SubSeq(h.bins[b], 2, taken), count |-> taken - 1]]
(* The first object of the cache, or of the refilled cache. *)
BinTake(h, c, b) ==
  LET cache == h.caches[c][b]
      p == IF cache.list # <<>> THEN Head(cache.list) ELSE IF h.bins[b] # <<>> THEN Head(h.bins[b]) ELSE NoPointer
      left == IF cache.list # <<>> THEN [h EXCEPT !.caches[c][b] = [list |-> Tail(cache.list), count |-> cache.count - 1]]
              ELSE bin_refill_locked(h, c, b)
  IN IF p = NoPointer THEN [ptr |-> p, heap |-> h] ELSE [ptr |-> p, heap |-> [left EXCEPT !.blocks[p].state = "used"]]
(* The objects of a new slab in address order, in front of the bin. *)
bin_add_slab(h, b, base) ==
  LET stride == (b + 1) * BIN_STEP
      objects == [k \in 1..((BIN_SLAB_PAGES * HeapPageSize) \div stride) |-> base + (k - 1) * stride]
  IN [h EXCEPT !.bins[b] = objects \o @,
               !.blocks = [x \in DOMAIN @ \cup Range(objects) |-> IF x \in Range(objects) THEN Block(b * BIN_STEP, "free") ELSE h.blocks[x]]]
LessBatch(n) == n - CACHE_BATCH
bin_free(h, c, a) ==
  LET b == h.blocks[a].size \div BIN_STEP
      list == <<a>> \o h.caches[c][b].list  count == h.caches[c][b].count + 1
      back == [h EXCEPT !.blocks[a].state = "free"]
  IN IF count < CACHE_MAX THEN [back EXCEPT !.caches[c][b] = [list |-> list, count |-> count]]
     ELSE [back EXCEPT !.caches[c][b] = [list |-> Beyond(list, CACHE_BATCH), count |-> LessBatch(count)],
                       !.bins[b] = SubSeq(list, 1, CACHE_BATCH) \o @]

-----------------------------------------------------------------------------
(* malloc, step by step.  calls[c].at: bin, slab, large, take, grow, need,   *)
(* insert, then none.                                                        *)

Freed(h, c, a) ==
  CASE h.blocks[a].state = "large" -> [h EXCEPT !.blocks = Drop(@, a), !.pages = @ \cup HeapPages(a, h.blocks[a].size + Header)]
    [] h.blocks[a].state = "used" /\ h.blocks[a].size <= BIN_MAX -> bin_free(h, c, a)
    [] h.blocks[a].state = "used" /\ h.blocks[a].size > BIN_MAX -> insert_free_locked([h EXCEPT !.blocks[a].state = "free"], a)
    [] OTHER -> h
(* The call returns p; realloc has its old block freed. *)
Returned(c, p, h) ==
  LET o == calls[c].old  moved == o # NoPointer /\ p # NoPointer
      mine == IF moved THEN Drop(live, o) ELSE live
  IN /\ calls' = [calls EXCEPT ![c] = Quiet]
     /\ heap' = IF moved THEN Freed(h, c, o) ELSE h
     /\ live' = IF p = NoPointer THEN live ELSE Set(mine, p, calls[c].ask)
Going(c, at) == calls' = [calls EXCEPT ![c].at = at] /\ UNCHANGED live
HeapFirst(size) == IF size <= BIN_MAX THEN "bin" ELSE IF size >= LARGE_ALLOC_THRESHOLD THEN "large" ELSE "take"
Asks(c, n, ask, old) ==
  LET size == Rounded(n, BIN_STEP)
  IN calls' = IF n = 0 \/ n > MallocMax THEN calls
              ELSE [calls EXCEPT ![c] = [Quiet EXCEPT !.at = HeapFirst(size), !.size = size, !.ask = ask, !.old = old]]
malloc(c) ==
  /\ HeapStep("malloc") /\ calls[c] = Quiet
  /\ \E n \in heapCase.sizes : Asks(c, n, n, NoPointer)
  /\ UNCHANGED <<heap, live>>
MultipliesOver(num, size) == num # 0 /\ size > UintMax \div num
calloc(c) ==
  /\ HeapStep("calloc") /\ calls[c] = Quiet
  /\ \E n \in heapCase.arrays :
       IF MultipliesOver(n[1], n[2]) THEN UNCHANGED calls ELSE Asks(c, (n[1] * n[2]) % (UintMax + 1), n[1] * n[2], NoPointer)
  /\ UNCHANGED <<heap, live>>
realloc(c, a) ==
  /\ HeapStep("realloc") /\ calls[c] = Quiet /\ a \in DOMAIN live
  /\ \A d \in HCpus : calls[d].old # a
  /\ \E n \in heapCase.sizes \cup {0} :
       \/ n = 0 /\ live' = Drop(live, a) /\ heap' = Freed(heap, c, a) /\ UNCHANGED calls
       \/ n > 0 /\ n <= heap.blocks[a].size /\ live' = [live EXCEPT ![a] = n] /\ UNCHANGED <<heap, calls>>
       \/ n > heap.blocks[a].size /\ Asks(c, n, n, a) /\ UNCHANGED <<heap, live>>
free(c, a) ==
  /\ HeapStep("free") /\ calls[c] = Quiet /\ a \in DOMAIN live
  /\ \A d \in HCpus : calls[d].old # a
  /\ live' = Drop(live, a) /\ heap' = Freed(heap, c, a) /\ UNCHANGED calls

bin_alloc(c) ==
  /\ calls[c].at = "bin"
  /\ \E r \in {BinTake(heap, c, calls[c].size \div BIN_STEP)} :
       IF r.ptr # NoPointer THEN Returned(c, r.ptr, r.heap) ELSE Going(c, "slab") /\ UNCHANGED heap
  /\ UNCHANGED heapCase
(* The pages of calls[c] are taken; they are put to use in a later step. *)
TakePages(c, bytes, then, else) ==
  /\ \E base \in {alloc_kernel_pages(heap.pages, bytes \div HeapPageSize)} :
       IF base = NoPointer THEN calls' = [calls EXCEPT ![c].at = else] /\ UNCHANGED heap
       ELSE /\ calls' = [calls EXCEPT ![c].at = then, ![c].base = base, ![c].bytes = bytes]
            /\ heap' = [heap EXCEPT !.pages = @ \ HeapPages(base, bytes)]
  /\ UNCHANGED <<live, heapCase>>
TakeSlab(c) == calls[c].at = "slab" /\ TakePages(c, BIN_SLAB_PAGES * HeapPageSize, "addslab", "take")
AddSlab(c) ==
  /\ calls[c].at = "addslab"
  /\ heap' = bin_add_slab(heap, calls[c].size \div BIN_STEP, calls[c].base)
  /\ calls' = [calls EXCEPT ![c].at = "bin", ![c].base = NoPointer, ![c].bytes = 0] /\ UNCHANGED <<live, heapCase>>
LargeSize(c) == Rounded(calls[c].size + Header, HeapPageSize)
large_alloc(c) ==
  /\ calls[c].at = "large"
  /\ \E base \in {alloc_kernel_pages(heap.pages, LargeSize(c) \div HeapPageSize)} :
       IF base = NoPointer THEN Going(c, "take") /\ UNCHANGED heap
       ELSE Returned(c, base, [heap EXCEPT !.pages = @ \ HeapPages(base, LargeSize(c)), !.blocks = Set(@, base, Block(LargeSize(c) - Header, "large"))])
  /\ UNCHANGED heapCase
HeapTake(c) ==
  /\ calls[c].at = "take"
  /\ \E r \in {heap_take(heap, calls[c].size)} :
       IF r.ptr # NoPointer THEN Returned(c, r.ptr, r.heap)
       ELSE Going(c, IF LargeSize(c) < HEAP_GROW_PAGES * HeapPageSize THEN "grow" ELSE "need") /\ UNCHANGED heap
  /\ UNCHANGED heapCase
heap_grow(c) ==
  \/ calls[c].at = "grow" /\ TakePages(c, HEAP_GROW_PAGES * HeapPageSize, "insert", "need")
  \/ calls[c].at = "need" /\ TakePages(c, LargeSize(c), "insert", "fail")
heap_add_chunk(c) ==
  /\ calls[c].at = "insert"
  /\ heap' = insert_free_locked([heap EXCEPT !.blocks = Set(@, calls[c].base, Block(calls[c].bytes - Header, "free"))], calls[c].base)
  /\ calls' = [calls EXCEPT ![c].at = "take", ![c].base = NoPointer, ![c].bytes = 0] /\ UNCHANGED <<live, heapCase>>
MallocFails(c) == calls[c].at = "fail" /\ Returned(c, NoPointer, heap) /\ UNCHANGED heapCase

HeapNext ==
  \E c \in HCpus :
    \/ malloc(c) \/ calloc(c) \/ bin_alloc(c) \/ TakeSlab(c) \/ AddSlab(c) \/ large_alloc(c) \/ HeapTake(c)
    \/ heap_grow(c) \/ heap_add_chunk(c) \/ MallocFails(c)
    \/ \E a \in DOMAIN live : free(c, a) \/ realloc(c, a)

-----------------------------------------------------------------------------
(* All places memory can be at: [first, bytes] pairs of blocks with callers,  *)
(* on the free list, in the bins, in the caches; pages on their way; free pages. *)
Listed ==
  heap.free \o FlattenSeq([b \in 1..BIN_COUNT |-> heap.bins[b]])
    \o FlattenSeq([c \in HCpus |-> FlattenSeq([b \in 1..BIN_COUNT |-> heap.caches[c][b].list])])
Places ==
  LET blocks == SetToSeq(DOMAIN live) \o Listed
      pages == SetToSeq(heap.pages)
  IN [i \in DOMAIN blocks |-> <<blocks[i], Header + heap.blocks[blocks[i]].size>>]
       \o [c \in HCpus |-> <<calls[c].base, calls[c].bytes>>] \o [i \in DOMAIN pages |-> <<pages[i] * HeapPageSize, HeapPageSize>>]

(* Every byte of the memory is in exactly one place, between any two steps   *)
(* of any two CPUs (heap_take, insert_free_locked, bin_refill_locked,        *)
(* bin_free).                                                                *)
HeapExact ==
  \E places \in {Places} :
    /\ UNION {p[1]..(p[1] + p[2] - 1) : p \in Range(places)} = 0..(heapCase.pages * HeapPageSize - 1)
    /\ FoldLeft(LAMBDA n, p : n + p[2], 0, places) = heapCase.pages * HeapPageSize

(* A caller has the bytes it asked for, the product of calloc's arguments     *)
(* too, in a block that free will take back.                                  *)
HeapFits == \A a \in DOMAIN live : heap.blocks[a].size >= live[a] /\ heap.blocks[a].state # "free"

(* The free list is in address order and neighbours on it never touch: freed *)
(* memory can always be given out again in one piece (insert_free_locked).   *)
HeapMerged ==
  \A i \in 1..(Len(heap.free) - 1) : heap.free[i] + Header + heap.blocks[heap.free[i]].size < heap.free[i + 1]

(* A cache counts its objects, never keeps CACHE_MAX of them, and all of them *)
(* are free and of the size of their bin (bin_alloc, bin_free).               *)
CachesCounted ==
  \A b \in 1..BIN_COUNT :
    /\ \A a \in Range(heap.bins[b]) : heap.blocks[a] = Block(b * BIN_STEP, "free")
    /\ \A c \in HCpus : LET cache == heap.caches[c][b]
                      IN /\ cache.count = Len(cache.list) /\ cache.count < CACHE_MAX
                         /\ \A a \in Range(cache.list) : heap.blocks[a] = Block(b * BIN_STEP, "free")
=============================================================================

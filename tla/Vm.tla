---------------------------------- MODULE Vm ----------------------------------
(* Address spaces (vm.c), the page frames behind them (pmm.c), shared memory *)
(* files (memfd.c), the page cache of a file on disk (pagecache.c, fat32.c)  *)
(* and the translations the CPUs cache.  A system call works under the lock  *)
(* of its space in one step; the shootdown that ends most of them is a       *)
(* second one, before which other CPUs still use what they cached.  Then the *)
(* thread takes the queued pages off the space and writes them, waiting for  *)
(* the lock of the file system.  A CPU stands for the thread it runs.        *)
EXTENDS Integers, Sequences, FiniteSets, FiniteSetsExt

CONSTANTS
  NPages,      \* pages of an address space
  NFrames,
  Spaces, Cpus,
  FileLen,     \* pages of the file on disk, and the most of the memory file
  VmCases

ASSUME VmAssumption == NPages \in Nat /\ NFrames \in Nat /\ 0 \notin Spaces

Pages == 1..NPages
Frames == 1..NFrames
FilePages == 1..FileLen

VARIABLES
  k,         \* spaces: areas, page tables, pending writes; frames: users, contents
  tlb,       \* what each CPU caches
  running,   \* the space each CPU is in, 0 for none
  flush,     \* spaces whose shootdown is due: 0, the space itself, or its new copy
  file,      \* the file on disk, the pages cached of it and of the memory file, the latter's size; file_position
  wb,        \* the writes of the thread on each CPU; its space if it was the last thread
  fsLock,    \* the CPU whose thread has the lock of the file system, or 0
  ghost,     \* what programs expect: see Ghosts
  vmCase
vmVars == <<k, tlb, running, flush, file, wb, fsLock, ghost, vmCase>>

NoPte == [f |-> 0, pr |-> FALSE, w |-> FALSE, cow |-> FALSE, d |-> FALSE]
NoTlb == [f |-> 0, w |-> FALSE, d |-> FALSE]
Empty == [p \in Pages |-> NoPte]
EmptyTlb == [p \in Pages |-> NoTlb]
RW == {"r", "w"}
NoWb == [pc |-> "idle", q |-> <<>>, saved |-> 0, at |-> 0, last |-> 0]
FileKinds == {"disk", "mem"}

(* Ghosts. want: the last value stored to each private page.  obj: a name    *)
(* for the page a shared mapping shows; fobj: for the cached pages of files.  *)
(* disk: the last value stored to a page of the file on disk.  spoilt: pages *)
(* of it that lost a store to a race of the code, see StoresReachFile.       *)
VmInit(cases) ==
  /\ vmCase \in cases
  /\ k = [areas |-> [s \in Spaces |-> {}], pt |-> [s \in Spaces |-> Empty], pend |-> [s \in Spaces |-> <<>>],
          refs |-> [s \in Spaces |-> IF s = 1 THEN 1 ELSE 0], brk |-> [s \in Spaces |-> 1],
          used |-> {}, extra |-> [f \in Frames |-> 0], data |-> [f \in Frames |-> 0]]
  /\ tlb = [c \in Cpus |-> EmptyTlb]
  /\ running = [c \in Cpus |-> IF c = 1 THEN 1 ELSE 0]
  /\ flush = [s \in Spaces |-> 0]
  /\ file = [disk |-> [i \in FilePages |-> 0], pg |-> [x \in FileKinds |-> [i \in FilePages |-> 0]], size |-> FileLen, pos |-> 1]
  /\ wb = [c \in Cpus |-> NoWb] /\ fsLock = 0
  /\ ghost = [want |-> [s \in Spaces |-> [p \in Pages |-> 0]], obj |-> [s \in Spaces |-> [p \in Pages |-> 0]],
              fobj |-> [x \in FileKinds |-> [i \in FilePages |-> 0]], disk |-> [i \in FilePages |-> 0], spoilt |-> {}]

-----------------------------------------------------------------------------
(* pmm.c *)

FreeFrames(W) == Frames \ W.used
take_page(W) == Min(FreeFrames(W))
Taken1(W) == [W EXCEPT !.used = @ \cup {take_page(W)}, !.data = [@ EXCEPT ![take_page(W)] = 0]]
free_page_locked(W, f) ==
  IF W.extra[f] > 0 THEN [W EXCEPT !.extra = [@ EXCEPT ![f] = @ - 1]] ELSE [W EXCEPT !.used = @ \ {f}]
pmm_share_page(W, f) == [W EXCEPT !.extra = [@ EXCEPT ![f] = @ + 1]]
pmm_page_shared(W, f) == W.extra[f] > 0

-----------------------------------------------------------------------------
(* Areas.  hi is the first page after the area. *)

Area(lo, n, prot, kind) ==
  [lo |-> lo, hi |-> lo + n, prot |-> prot, sh |-> kind # "private", file |-> IF kind = "readonly" THEN "disk" ELSE IF kind \in FileKinds THEN kind ELSE "none",
   off |-> 1, heap |-> FALSE, nowrite |-> kind = "readonly"]
PagesOf(a) == a.lo..(a.hi - 1)
vm_find(W, s, p) == {a \in W.areas[s] : p \in PagesOf(a)}
vm_range_free(W, s, lo, hi) == \A a \in W.areas[s] : a.hi <= lo \/ hi <= a.lo
area_split(a, x) ==
  IF a.lo < x /\ x < a.hi THEN {[a EXCEPT !.hi = x], [a EXCEPT !.lo = x, !.off = @ + (x - a.lo)]} ELSE {a}
SplitAt(A, x) == UNION {area_split(a, x) : a \in A}
range_isolate(W, s, lo, hi) == [W EXCEPT !.areas = [@ EXCEPT ![s] = SplitAt(SplitAt(@, lo), hi)]]
Inside(W, s, lo, hi) == {a \in W.areas[s] : lo <= a.lo /\ a.hi <= hi}
find_gap(W, s, n) == {x \in Pages : x + n - 1 <= NPages /\ vm_range_free(W, s, x, x + n)}

pte_flags(f, prot) == [NoPte EXCEPT !.f = f, !.pr = prot # {}, !.w = "w" \in prot]
pte_with_prot(e, prot) == [e EXCEPT !.pr = prot # {}, !.w = "w" \in prot /\ ~e.cow]
SetPte(W, s, p, e) == [W EXCEPT !.pt = [@ EXCEPT ![s] = [@ EXCEPT ![p] = e]]]

free_frames(W, s, P) ==
  FoldSet(LAMBDA p, V : IF V.pt[s][p].f = 0 THEN V ELSE SetPte(free_page_locked(V, V.pt[s][p].f), s, p, NoPte), W, P)
(* Every dirty page of the area among P is queued, with a reference. *)
queue_dirty(W, s, a, P, clear) ==
  FoldSet(LAMBDA p, V :
    LET e == V.pt[s][p]
    IN IF e.f = 0 \/ ~e.d THEN V
       ELSE [SetPte(pmm_share_page(V, e.f), s, p, [e EXCEPT !.d = ~clear])
             EXCEPT !.pend = [@ EXCEPT ![s] = Append(@, [f |-> e.f, file |-> a.file, off |-> a.off + (p - a.lo)])]],
    W, P)
Dropped(W, s, a) ==
  LET V == IF a.file = "none" THEN W ELSE queue_dirty(W, s, a, PagesOf(a), FALSE)
  IN [free_frames(V, s, PagesOf(a)) EXCEPT !.areas = [@ EXCEPT ![s] = @ \ {a}]]
unmap_locked(W, s, lo, hi) ==
  LET V == range_isolate(W, s, lo, hi) IN FoldSet(LAMBDA a, U : Dropped(U, s, a), V, Inside(V, s, lo, hi))

-----------------------------------------------------------------------------
(* A call of CPU c changes the world to W and the expectations to G; with    *)
(* due # 0 a shootdown follows.  c itself caches no entry that was changed.  *)

Space(c) == running[c]
Tries(op) ==
  /\ op \in DOMAIN vmCase.ops /\ vmCase.ops[op] > 0
  /\ vmCase' = [vmCase EXCEPT !.ops = [@ EXCEPT ![op] = @ - 1]]
Ready(c, op) ==
  /\ Tries(op)
  /\ Space(c) # 0 /\ flush[Space(c)] = 0 /\ wb[c].pc = "idle"
Drains(c, W) == wb' = IF W.pend[Space(c)] = <<>> THEN wb ELSE [wb EXCEPT ![c].pc = "due"]
LocalTlb(c, W) == [p \in Pages |-> IF W.pt[Space(c)][p] = k.pt[Space(c)][p] THEN tlb[c][p] ELSE NoTlb]
Call(c, W, G, due) ==
  /\ k' = W /\ ghost' = G
  /\ tlb' = [tlb EXCEPT ![c] = LocalTlb(c, W)]
  /\ flush' = [flush EXCEPT ![Space(c)] = due]
  /\ Drains(c, W) /\ UNCHANGED <<running, file, fsLock>>
Cleared(g, s, P) == [g EXCEPT !.want = [@ EXCEPT ![s] = [p \in Pages |-> IF p \in P THEN 0 ELSE @[p]]],
                              !.obj = [@ EXCEPT ![s] = [p \in Pages |-> IF p \in P THEN 0 ELSE @[p]]]]
Names == 1..(NPages + NFrames)
FreshNames(g) == {n \in Names : (\A s \in Spaces, p \in Pages : g.obj[s][p] # n) /\ \A x \in FileKinds, i \in FilePages : g.fobj[x][i] # n}

smp_tlb_shootdown(s) ==
  /\ flush[s] # 0 /\ flush' = [flush EXCEPT ![s] = 0]
  /\ tlb' = [c \in Cpus |-> EmptyTlb]
  /\ UNCHANGED <<k, running, file, wb, fsLock, ghost, vmCase>>

-----------------------------------------------------------------------------
(* mmap: the area, its frames if it is shared, and what they contain: the    *)
(* cached pages of a file, read from disk or zero when they are new.         *)

page_get(W, m, i) == IF m[i] # 0 THEN m[i] ELSE take_page(W)
NewPage(W, m, i) == IF m[i] # 0 THEN W ELSE Taken1(W)
fat32_mmap_page(W, m, i) == IF m[i] # 0 THEN W ELSE [Taken1(W) EXCEPT !.data = [@ EXCEPT ![take_page(W)] = file.disk[i]]]
CachedAt(m, x, i) == IF x = "none" THEN 0 ELSE m[x][i]
Filled(W, g, m, s, a) ==
  FoldSet(LAMBDA p, X :
    LET i == a.off + (p - a.lo)  x == a.file  old == CachedAt(X.m, x, i)
        f == IF old # 0 THEN old ELSE take_page(X.W)
        n == IF old # 0 THEN X.g.fobj[x][i] ELSE Min(FreshNames(X.g))
        U == IF x = "none" THEN Taken1(X.W)
             ELSE pmm_share_page(IF x = "disk" THEN fat32_mmap_page(X.W, X.m[x], i) ELSE NewPage(X.W, X.m[x], i), f)
    IN [W |-> SetPte(U, s, p, pte_flags(f, a.prot)),
        g |-> [X.g EXCEPT !.obj = [@ EXCEPT ![s] = [@ EXCEPT ![p] = n]], !.fobj = IF x # "none" THEN [@ EXCEPT ![x][i] = n] ELSE @],
        m |-> IF x # "none" THEN [X.m EXCEPT ![x][i] = f] ELSE X.m],
    [W |-> W, g |-> g, m |-> m], IF a.sh THEN PagesOf(a) ELSE {})
Needed(a, m) == IF ~a.sh THEN 0 ELSE Cardinality({p \in PagesOf(a) : CachedAt(m, a.file, a.off + (p - a.lo)) = 0})

sys_mmap(c, lo, n, prot, kind, fixed) ==
  LET s == Space(c)
      at == IF fixed THEN lo ELSE Min(find_gap(k, s, n))
      V == IF fixed THEN unmap_locked(k, s, lo, lo + n) ELSE k
      a == Area(at, n, prot, kind)
      U == [V EXCEPT !.areas = [@ EXCEPT ![s] = @ \cup {a}]]
      X == Filled(U, Cleared(ghost, s, PagesOf(a)), file.pg, s, a)
      ok == Needed(a, file.pg) <= Cardinality(FreeFrames(U))
  IN /\ Ready(c, "mmap")
     /\ IF fixed THEN lo + n - 1 <= NPages ELSE find_gap(k, s, n) # {} /\ lo = 1
     /\ a.file # "none" => n <= FileLen
     /\ a.file = "disk" => fsLock = 0
     /\ a.nowrite => "w" \notin prot
     /\ k' = (IF ok THEN X.W ELSE V) /\ ghost' = (IF ok THEN X.g ELSE Cleared(ghost, s, PagesOf(a)))
     /\ file' = [file EXCEPT !.pg = IF ok THEN X.m ELSE @]
     /\ tlb' = [tlb EXCEPT ![c] = LocalTlb(c, V)]
     /\ flush' = [flush EXCEPT ![s] = IF fixed THEN s ELSE 0]
     /\ Drains(c, V) /\ UNCHANGED <<running, fsLock>>

sys_munmap(c, lo, n) ==
  /\ Ready(c, "munmap")
  /\ Call(c, unmap_locked(k, Space(c), lo, lo + n), Cleared(ghost, Space(c), lo..(lo + n - 1)), Space(c))

(* A store to a page: expected by this space, and by the copy being made.    *)
FileOff(s, p) == LET a == CHOOSE x \in vm_find(k, s, p) : TRUE IN a.off + (p - a.lo)
Expects(s, p, v) ==
  LET a == CHOOSE x \in vm_find(k, s, p) : TRUE
      both == {s, flush[s]} \ {0}
  IN [ghost EXCEPT !.want = IF a.sh THEN @ ELSE [t \in Spaces |-> IF t \in both THEN [@[t] EXCEPT ![p] = v] ELSE @[t]],
                   !.disk = IF a.file = "disk" /\ FileOff(s, p) <= FileLen THEN [@ EXCEPT ![FileOff(s, p)] = v] ELSE @]

(* mprotect: every page of the range must be mapped. *)
Covered(W, s, lo, n) == \A p \in lo..(lo + n - 1) : vm_find(W, s, p) # {}
Protected(W, s, lo, n, prot) ==
  LET V == range_isolate(W, s, lo, lo + n)
      change == Inside(V, s, lo, lo + n)
  IN [V EXCEPT !.areas = [@ EXCEPT ![s] = (@ \ change) \cup {[a EXCEPT !.prot = prot] : a \in change}],
               !.pt = [@ EXCEPT ![s] = [p \in Pages |-> IF p \in lo..(lo + n - 1) /\ @[p].f # 0 THEN pte_with_prot(@[p], prot) ELSE @[p]]]]
Shootdown(s) == s
(* No writable page of a file that is open for reading. *)
MayProtect(s, lo, n, prot) == "w" \in prot => \A p \in lo..(lo + n - 1), a \in k.areas[s] : p \in PagesOf(a) => ~a.nowrite
sys_mprotect(c, lo, n, prot) ==
  /\ Ready(c, "mprotect") /\ Covered(k, Space(c), lo, n) /\ MayProtect(Space(c), lo, n, prot)
  /\ Call(c, Protected(k, Space(c), lo, n, prot), ghost, Shootdown(Space(c)))
(* The entry is read, changed and written: when another CPU stores to page p *)
(* in between, its dirty bit is lost.                                        *)
protect_races(c, lo, n, prot, p, v) ==
  LET s == Space(c)  e == k.pt[s][p]
  IN /\ Ready(c, "mprotect") /\ Covered(k, s, lo, n) /\ MayProtect(s, lo, n, prot)
     /\ p \in lo..(lo + n - 1) /\ e.pr /\ e.w /\ ~e.d /\ (\E a \in vm_find(k, s, p) : a.file = "disk")
     /\ \E d \in Cpus \ {c} : Space(d) = s /\ wb[d].pc = "idle"
     /\ Call(c, [Protected(k, s, lo, n, prot) EXCEPT !.data = [@ EXCEPT ![e.f] = v]],
             [Expects(s, p, v) EXCEPT !.spoilt = @ \cup {FileOff(s, p)}], Shootdown(s))

(* madvise(MADV_DONTNEED) *)
Discardable(s, P) == {p \in P : \A a \in vm_find(k, s, p) : ~a.sh}
sys_madvise(c, lo, n) ==
  LET s == Space(c)  P == Discardable(s, lo..(lo + n - 1))
  IN /\ Ready(c, "madvise") /\ Covered(k, s, lo, n)
     /\ Call(c, free_frames(k, s, P), [ghost EXCEPT !.want = [@ EXCEPT ![s] = [p \in Pages |-> IF p \in P THEN 0 ELSE @[p]]]], s)

sys_msync(c, lo, n) ==
  LET s == Space(c)
      A == {a \in k.areas[s] : a.file # "none"}
  IN /\ Ready(c, "msync") /\ Covered(k, s, lo, n)
     /\ Call(c, FoldSet(LAMBDA a, W : queue_dirty(W, s, a, PagesOf(a) \cap (lo..(lo + n - 1)), TRUE), k, A), ghost, Shootdown(s))

(* mremap: in place, or to a gap, or to a place the caller names. *)
MovedPages(W, s, from, n, to) ==
  [W EXCEPT !.pt = [@ EXCEPT ![s] = [p \in Pages |-> IF p \in to..(to + n - 1) THEN @[from + (p - to)]
                                                   ELSE IF p \in from..(from + n - 1) THEN NoPte ELSE @[p]]]]
MovedGhost(g, s, from, n, to) ==
  LET mv(h) == [p \in Pages |-> IF p \in to..(to + n - 1) THEN h[from + (p - to)] ELSE IF p \in from..(from + n - 1) THEN 0 ELSE h[p]]
  IN [g EXCEPT !.want = [@ EXCEPT ![s] = mv(@)], !.obj = [@ EXCEPT ![s] = mv(@)]]
move_locked(W, s, from, n, to, m) ==
  LET V == range_isolate(W, s, from, from + n)
      src == CHOOSE a \in V.areas[s] : a.lo = from
  IN [MovedPages(V, s, from, n, to) EXCEPT !.areas = [@ EXCEPT ![s] = (@ \ {src}) \cup {[src EXCEPT !.lo = to, !.hi = to + m]}]]
InOneArea(s, lo, n) == \E a \in vm_find(k, s, lo) : lo + n <= a.hi
remap_locked(c, lo, n, m) ==
  LET s == Space(c)  a == CHOOSE x \in vm_find(k, s, lo) : TRUE
      inPlace == lo + n = a.hi /\ lo + m - 1 <= NPages /\ vm_range_free(k, s, lo + n, lo + m)
      to == Min(find_gap(k, s, m))
  IN /\ Ready(c, "mremap") /\ InOneArea(s, lo, n) /\ m # n
     /\ \/ m < n /\ Call(c, unmap_locked(k, s, lo + m, lo + n), Cleared(ghost, s, (lo + m)..(lo + n - 1)), s)
        \/ m > n /\ inPlace /\ Call(c, [k EXCEPT !.areas = [@ EXCEPT ![s] = (@ \ {a}) \cup {[a EXCEPT !.hi = lo + m]}]], ghost, 0)
        \/ m > n /\ ~inPlace /\ find_gap(k, s, m) # {} /\ Call(c, move_locked(k, s, lo, n, to, m), MovedGhost(ghost, s, lo, n, to), s)
remap_fixed_locked(c, lo, n, m, to) ==
  LET s == Space(c)  keep == IF m < n THEN m ELSE n
      V == unmap_locked(k, s, to, to + m)
      U == IF m < n THEN unmap_locked(V, s, lo + m, lo + n) ELSE V
      G == Cleared(ghost, s, (to..(to + m - 1)) \cup ((lo + keep)..(lo + n - 1)))
  IN /\ Ready(c, "mremap") /\ InOneArea(s, lo, n)
     /\ to + m - 1 <= NPages /\ (lo + n <= to \/ to + m <= lo)
     /\ Call(c, move_locked(U, s, lo, keep, to, m), MovedGhost(G, s, lo, keep, to), s)

(* brk: pages 1..brk - 1 are the heap. *)
HeapEnd(s) == {a \in k.areas[s] : a.heap /\ a.hi = k.brk[s]}
sys_brk(c, new) ==
  LET s == Space(c)  old == k.brk[s]  W == [k EXCEPT !.brk = [@ EXCEPT ![s] = new]]
      grown == IF old > 1 /\ HeapEnd(s) # {}
               THEN (W.areas[s] \ HeapEnd(s)) \cup {[a EXCEPT !.hi = new] : a \in HeapEnd(s)}
               ELSE W.areas[s] \cup {[Area(old, new - old, RW, "private") EXCEPT !.heap = TRUE]}
  IN /\ Ready(c, "brk")
     /\ \/ new > old /\ vm_range_free(k, s, old, new) /\ Call(c, [W EXCEPT !.areas = [@ EXCEPT ![s] = grown]], ghost, 0)
        \/ new < old /\ Call(c, unmap_locked(W, s, new, old), Cleared(ghost, s, new..(old - 1)), s)

-----------------------------------------------------------------------------
(* Access to memory.  With an entry that allows it in the TLB or the page    *)
(* table the CPU asks nobody; otherwise the fault is handled first.  Not     *)
(* modelled: the use of a page another thread is just unmapping, before the  *)
(* shootdown.                                                                *)

Allows(e, write) == e.pr /\ (write => e.w)
Fault(W, s, p, a, write) ==
  LET e0 == W.pt[s][p]
      V == IF e0.f = 0 THEN SetPte(Taken1(W), s, p, pte_flags(take_page(W), a.prot)) ELSE W
      e == V.pt[s][p]
      copy == write /\ e.cow /\ pmm_page_shared(V, e.f)
      n == take_page(V)
      U == IF ~copy THEN V ELSE free_page_locked([Taken1(V) EXCEPT !.data = [@ EXCEPT ![n] = V.data[e.f]]], e.f)
      e2 == [e EXCEPT !.f = IF copy THEN n ELSE @, !.cow = @ /\ ~write]
  IN SetPte(U, s, p, pte_with_prot(e2, a.prot))
cow_break(s, p, write) == write /\ k.pt[s][p].cow /\ pmm_page_shared(k, k.pt[s][p].f)
fault_locked(c, p, write) ==
  LET s == Space(c)
  IN /\ flush[s] = 0
     /\ \E a \in vm_find(k, s, p) :
          /\ (IF write THEN "w" ELSE "r") \in a.prot
          /\ k.pt[s][p].f = 0 \/ cow_break(s, p, write) => FreeFrames(k) # {}
          /\ k' = Fault(k, s, p, a, write)
          /\ tlb' = IF cow_break(s, p, write) /\ k.refs[s] > 1 THEN [x \in Cpus |-> EmptyTlb] ELSE [tlb EXCEPT ![c] = [@ EXCEPT ![p] = NoTlb]]
          /\ ghost' = IF a.sh /\ k.pt[s][p].f = 0 THEN [ghost EXCEPT !.obj = [@ EXCEPT ![s] = [@ EXCEPT ![p] = Min(FreshNames(ghost))]]] ELSE ghost
  /\ UNCHANGED <<running, flush, file, wb, fsLock, vmCase>>

access(c, p, write, v) ==
  LET s == Space(c)  t == tlb[c][p]  e == k.pt[s][p]
      hit == t.f # 0 /\ (write => t.w)
      dirty == write /\ ~(hit /\ t.d)
      W == IF ~write THEN k ELSE [(IF dirty THEN SetPte(k, s, p, [e EXCEPT !.d = TRUE]) ELSE k) EXCEPT !.data = [@ EXCEPT ![e.f] = v]]
  IN /\ s # 0 /\ wb[c].pc = "idle" /\ Tries("access") /\ (~write => v = 0)
     /\ IF hit THEN t.f = e.f /\ vm_find(k, s, p) # {} ELSE Allows(e, write)
     /\ k' = W
     /\ tlb' = [tlb EXCEPT ![c] = [@ EXCEPT ![p] = IF hit THEN [t EXCEPT !.d = @ \/ write] ELSE [f |-> e.f, w |-> e.w, d |-> e.d \/ write]]]
     /\ ghost' = IF write THEN Expects(s, p, v) ELSE ghost
     /\ UNCHANGED <<running, flush, file, wb, fsLock>>

-----------------------------------------------------------------------------
(* What msync and munmap queued goes to the file: the list is taken off the  *)
(* space and written page by page.  A page of the memory file is written at  *)
(* once; one of the file on disk at the file_position the thread sets, which *)
(* is read when the lock of the file system is there, maybe after a sleep,   *)
(* and set back after the write.                                             *)

drain(c) ==
  /\ wb[c].pc = "due" /\ flush[Space(c)] = 0
  /\ k' = [k EXCEPT !.pend = [@ EXCEPT ![Space(c)] = <<>>]]
  /\ wb' = [wb EXCEPT ![c] = IF k.pend[Space(c)] = <<>> THEN NoWb ELSE [NoWb EXCEPT !.pc = "list", !.q = k.pend[Space(c)]]]
  /\ UNCHANGED <<tlb, running, flush, file, fsLock, ghost, vmCase>>
(* The last thread of a space frees it once its list is written. *)
free_vm(W, s) == [free_frames(W, s, Pages) EXCEPT !.areas = [@ EXCEPT ![s] = {}], !.brk = [@ EXCEPT ![s] = 1]]
run_flush(c, W, g) ==
  LET w == wb[c]  ended == Len(w.q) = 1  V == free_page_locked(W, Head(w.q).f)
  IN /\ wb' = [wb EXCEPT ![c] = IF ended THEN NoWb ELSE [w EXCEPT !.q = Tail(@), !.pc = "list"]]
     /\ k' = IF ended /\ w.last # 0 THEN free_vm(V, w.last) ELSE V
     /\ ghost' = IF ended /\ w.last # 0 THEN Cleared(g, w.last, Pages) ELSE g
MemWritten(x) == x.off <= file.size /\ (file.pg["mem"][x.off] # 0 \/ FreeFrames(k) # {})
file_write(c) ==
  /\ wb[c].pc = "list"
  /\ LET x == Head(wb[c].q)  m == file.pg["mem"]
     IN \/ \* beyond the end of the file, or no memory for the page
           /\ IF x.file = "disk" THEN x.off > FileLen ELSE ~MemWritten(x)
           /\ run_flush(c, k, ghost) /\ UNCHANGED <<file, fsLock>>
        \/ /\ x.file = "mem" /\ MemWritten(x)
           /\ run_flush(c, [NewPage(k, m, x.off) EXCEPT !.data = [@ EXCEPT ![page_get(k, m, x.off)] = k.data[x.f]]],
                        IF m[x.off] # 0 THEN ghost ELSE [ghost EXCEPT !.fobj = [@ EXCEPT !["mem"][x.off] = Min(FreshNames(ghost))]])
           /\ file' = [file EXCEPT !.pg["mem"][x.off] = page_get(k, m, x.off)] /\ UNCHANGED fsLock
        \/ /\ x.file = "disk" /\ x.off <= FileLen
           /\ file' = [file EXCEPT !.pos = x.off]
           /\ wb' = [wb EXCEPT ![c] = [@ EXCEPT !.pc = IF fsLock = 0 THEN "write" ELSE "lock", !.saved = file.pos, !.at = x.off]]
           /\ fsLock' = (IF fsLock = 0 THEN c ELSE fsLock) /\ UNCHANGED <<k, ghost>>
  /\ UNCHANGED <<tlb, running, flush, vmCase>>
fs_lock(c) ==
  /\ wb[c].pc = "lock" /\ fsLock = 0 /\ fsLock' = c
  /\ wb' = [wb EXCEPT ![c] = [@ EXCEPT !.pc = "write", !.at = file.pos]]
  /\ UNCHANGED <<k, tlb, running, flush, file, ghost, vmCase>>
(* The page goes to the disk and to the cached page. *)
locked_write(c) ==
  /\ wb[c].pc = "write" /\ fsLock' = 0
  /\ LET x == Head(wb[c].q)  i == wb[c].at  p == file.pg["disk"][i]
     IN /\ file' = [file EXCEPT !.disk = [@ EXCEPT ![i] = k.data[x.f]], !.pos = wb[c].saved]
        /\ run_flush(c, IF p = 0 THEN k ELSE [k EXCEPT !.data = [@ EXCEPT ![p] = k.data[x.f]]],
                     IF i = x.off THEN ghost ELSE [ghost EXCEPT !.spoilt = @ \cup {i, x.off}])
  /\ UNCHANGED <<tlb, running, flush, vmCase>>

(* An allocation that found no frame takes the cached pages nobody uses. *)
pcache_reclaim ==
  LET P == {i \in FilePages : file.pg["disk"][i] # 0 /\ ~pmm_page_shared(k, file.pg["disk"][i])}
      None(h) == [h EXCEPT !["disk"] = [i \in FilePages |-> IF i \in P THEN 0 ELSE @[i]]]
  IN /\ P # {} /\ Tries("reclaim")
     /\ k' = FoldSet(LAMBDA i, W : free_page_locked(W, file.pg["disk"][i]), k, P)
     /\ file' = [file EXCEPT !.pg = None(@)] /\ ghost' = [ghost EXCEPT !.fobj = None(@)]
     /\ UNCHANGED <<tlb, running, flush, wb, fsLock>>

-----------------------------------------------------------------------------
(* fork, threads, exit. *)

CowMark(e, a) == IF e.f # 0 /\ ~a.sh THEN [e EXCEPT !.w = FALSE, !.cow = TRUE] ELSE e
clone_locked(W, s, t) ==
  LET marked == [p \in Pages |-> IF vm_find(W, s, p) = {} THEN W.pt[s][p] ELSE CowMark(W.pt[s][p], CHOOSE a \in vm_find(W, s, p) : TRUE)]
      V == [W EXCEPT !.pt = [@ EXCEPT ![s] = marked, ![t] = marked], !.areas = [@ EXCEPT ![t] = W.areas[s]],
                     !.refs = [@ EXCEPT ![t] = 1], !.brk = [@ EXCEPT ![t] = W.brk[s]]]
  IN FoldSet(LAMBDA p, U : IF marked[p].f = 0 THEN U ELSE pmm_share_page(U, marked[p].f), V, Pages)
sys_fork(c, t) ==
  LET s == Space(c)
  IN /\ Ready(c, "fork") /\ k.refs[t] = 0 /\ t # s /\ flush[t] = 0 /\ \A d \in Cpus : wb[d].last # t
     /\ Call(c, clone_locked(k, s, t), [ghost EXCEPT !.want = [@ EXCEPT ![t] = ghost.want[s]], !.obj = [@ EXCEPT ![t] = ghost.obj[s]]],
             IF k.refs[s] > 1 THEN t ELSE 0)
clone_thread(c, d) ==
  /\ Ready(c, "thread") /\ running[d] = 0 /\ wb[d].pc = "idle"
  /\ k' = [k EXCEPT !.refs = [@ EXCEPT ![Space(c)] = @ + 1]] /\ running' = [running EXCEPT ![d] = Space(c)]
  /\ UNCHANGED <<tlb, flush, file, wb, fsLock, ghost>>
(* A CPU turns to a thread of another space, and forgets what it cached.     *)
Runnable(s) == k.refs[s] > Cardinality({c \in Cpus : running[c] = s})
switch_vm(c, s) ==
  /\ s # running[c] /\ wb[c].pc = "idle" /\ Runnable(s) /\ (\A u \in Spaces : flush[u] # s)
  /\ running[c] = 0 \/ "switch" \in DOMAIN vmCase.ops
  /\ running' = [running EXCEPT ![c] = s] /\ tlb' = [tlb EXCEPT ![c] = EmptyTlb]
  /\ UNCHANGED <<k, flush, file, wb, fsLock, ghost, vmCase>>
vm_release(c) ==
  LET s == Space(c)
      W == [k EXCEPT !.refs = [@ EXCEPT ![s] = @ - 1]]
      A == {a \in k.areas[s] : a.file # "none"}
      Q == FoldSet(LAMBDA a, V : queue_dirty(V, s, a, PagesOf(a), FALSE), W, A)
      U == [Q EXCEPT !.pend = [@ EXCEPT ![s] = <<>>]]
  IN /\ Ready(c, "exit")
     /\ running' = [running EXCEPT ![c] = 0] /\ tlb' = [tlb EXCEPT ![c] = EmptyTlb]
     /\ \/ k.refs[s] > 1 /\ k' = W /\ UNCHANGED <<wb, ghost>>
        \/ k.refs[s] = 1 /\ Q.pend[s] = <<>> /\ k' = free_vm(U, s) /\ ghost' = Cleared(ghost, s, Pages) /\ UNCHANGED wb
        \/ k.refs[s] = 1 /\ Q.pend[s] # <<>> /\ k' = U /\ wb' = [wb EXCEPT ![c] = [NoWb EXCEPT !.pc = "list", !.q = Q.pend[s], !.last = s]]
           /\ UNCHANGED ghost
     /\ UNCHANGED <<flush, file, fsLock>>

(* The memory file, through its descriptor. *)
memfd_write(i, v) ==
  LET m == file.pg["mem"]
  IN /\ Tries("memfd")
     /\ m[i] # 0 \/ FreeFrames(k) # {}
     /\ k' = [NewPage(k, m, i) EXCEPT !.data = [@ EXCEPT ![page_get(k, m, i)] = v]]
     /\ file' = [file EXCEPT !.pg["mem"][i] = page_get(k, m, i), !.size = IF i > @ THEN i ELSE @]
     /\ ghost' = IF m[i] # 0 THEN ghost ELSE [ghost EXCEPT !.fobj = [@ EXCEPT !["mem"][i] = Min(FreshNames(ghost))]]
     /\ UNCHANGED <<tlb, running, flush, wb, fsLock>>
memfd_truncate(n) ==
  LET m == file.pg["mem"]
      P == {i \in FilePages : n < file.size /\ i > n /\ m[i] # 0}
      None(h) == [h EXCEPT !["mem"] = [i \in FilePages |-> IF i \in P THEN 0 ELSE @[i]]]
  IN /\ Tries("memfd")
     /\ k' = FoldSet(LAMBDA i, W : free_page_locked(W, m[i]), k, P)
     /\ file' = [file EXCEPT !.size = n, !.pg = None(@)] /\ ghost' = [ghost EXCEPT !.fobj = None(@)]
     /\ UNCHANGED <<tlb, running, flush, wb, fsLock>>

(* A case gives the number of calls of each kind, the ranges, protections and values (not 0) to try. *)
VmNext ==
  \/ \E s \in Spaces : smp_tlb_shootdown(s)
  \/ pcache_reclaim
  \/ \E c \in Cpus :
       \/ drain(c) \/ file_write(c) \/ fs_lock(c) \/ locked_write(c)
       \/ \E r \in vmCase.ranges, prot \in vmCase.prots, kind \in vmCase.kinds, fixed \in BOOLEAN : sys_mmap(c, r[1], r[2], prot, kind, fixed)
       \/ \E r \in vmCase.ranges : sys_munmap(c, r[1], r[2]) \/ sys_madvise(c, r[1], r[2]) \/ sys_msync(c, r[1], r[2])
                            \/ \E prot \in vmCase.prots : \/ sys_mprotect(c, r[1], r[2], prot)
                                                        \/ \E p \in Pages, v \in vmCase.vals : protect_races(c, r[1], r[2], prot, p, v)
                            \/ \E m \in Pages : remap_locked(c, r[1], r[2], m) \/ \E to \in Pages : remap_fixed_locked(c, r[1], r[2], m, to)
       \/ \E p \in Pages : \/ access(c, p, FALSE, 0) \/ \E v \in vmCase.vals : access(c, p, TRUE, v)
                           \/ running[c] # 0 /\ wb[c].pc = "idle" /\ vmCase.ops["access"] > 0 /\ \E write \in BOOLEAN : ~Allows(k.pt[running[c]][p], write) /\ fault_locked(c, p, write)
       \/ \E n \in Pages : sys_brk(c, n)
       \/ \E t \in Spaces : sys_fork(c, t) \/ switch_vm(c, t)
       \/ vm_release(c) \/ \E d \in Cpus : clone_thread(c, d)
  \/ \E i \in FilePages : \E v \in vmCase.vals : memfd_write(i, v)
  \/ \E n \in 0..FileLen : memfd_truncate(n)

-----------------------------------------------------------------------------
(* Type and shape: areas do not overlap and lie in the address space, frames *)
(* are mapped inside areas only, and a page is writable only if its area is. *)
VmTypeOK ==
  \A s \in Spaces :
    /\ \A a, b \in k.areas[s] : a.lo < a.hi /\ a.hi <= NPages + 1 /\ (a = b \/ a.hi <= b.lo \/ b.hi <= a.lo)
    /\ \A p \in Pages : k.pt[s][p].f # 0 => /\ vm_find(k, s, p) # {} /\ k.pt[s][p].f \in k.used
                                            /\ \A a \in vm_find(k, s, p) : k.pt[s][p].w => "w" \in a.prot

(* Every frame is counted exactly: once for each page table entry, queued    *)
(* write and cached page of a file that uses it; a free one has no user.     *)
Users(f) == Cardinality({<<s, p>> \in Spaces \X Pages : k.pt[s][p].f = f}) + Cardinality({<<x, i>> \in FileKinds \X FilePages : file.pg[x][i] = f})
Queues == {<<"pend", s>> : s \in Spaces} \cup {<<"wb", c>> : c \in Cpus}
ItemsOf(q) == IF q[1] = "pend" THEN k.pend[q[2]] ELSE wb[q[2]].q
Queued(f) == MapThenSumSet(LAMBDA q : Cardinality({i \in DOMAIN ItemsOf(q) : ItemsOf(q)[i].f = f}), Queues)
FramesCounted ==
  \A f \in Frames : Users(f) + Queued(f) = (IF f \in k.used THEN k.extra[f] + 1 ELSE 0) /\ (f \notin k.used => k.extra[f] = 0)

(* A private page holds what its own process stored last, or zero: forks,    *)
(* copies on write, protection changes and moves never show it the stores    *)
(* of another process or lose its own.                                       *)
ValueAt(s, p) == IF k.pt[s][p].f = 0 THEN 0 ELSE k.data[k.pt[s][p].f]
PrivateMemory ==
  \A s \in Spaces, p \in Pages : (\E a \in vm_find(k, s, p) : ~a.sh) => ValueAt(s, p) = ghost.want[s][p]

(* A shared page stays shared: the mappings and files that showed the same   *)
(* page once use the same frame, and others do not.                          *)
SharedMemory ==
  /\ \A s, t \in Spaces, p, q \in Pages : ghost.obj[s][p] # 0 /\ ghost.obj[t][q] # 0 =>
       (ghost.obj[s][p] = ghost.obj[t][q]) = (k.pt[s][p].f = k.pt[t][q].f)
  /\ \A s \in Spaces, p \in Pages, x \in FileKinds, i \in FilePages : ghost.obj[s][p] # 0 /\ file.pg[x][i] # 0 =>
       (ghost.obj[s][p] = ghost.fobj[x][i]) = (k.pt[s][p].f = file.pg[x][i])

(* Between calls no CPU caches more than the page table allows.              *)
TlbAgrees ==
  \A c \in Cpus, p \in Pages : running[c] # 0 /\ flush[running[c]] = 0 /\ tlb[c][p].f # 0 =>
    LET e == k.pt[running[c]][p]
    IN e.f = tlb[c][p].f /\ e.pr /\ (tlb[c][p].w => e.w) /\ (tlb[c][p].d => e.d)

(* No store to a mapped file is lost: the cached page has the value stored   *)
(* last, and where nothing is dirty and nothing is being written, the file   *)
(* has it too, also after the cached page was reclaimed (queue_dirty, drain, *)
(* file_write).  Excepted are pages hit by two races of the code: a write    *)
(* that took the file_position of another, which it slept through in         *)
(* fs_lock, and a store whose dirty bit protect_locked wrote over.           *)
StoresReachFile ==
  \A i \in FilePages \ ghost.spoilt :
    /\ file.pg["disk"][i] # 0 => k.data[file.pg["disk"][i]] = ghost.disk[i]
    /\ \/ ghost.disk[i] = file.disk[i]
       \/ \E q \in Queues : \E j \in DOMAIN ItemsOf(q) : LET x == ItemsOf(q)[j] IN x.file = "disk" /\ x.off = i /\ k.data[x.f] = ghost.disk[i]
       \/ \E s \in Spaces : \E a \in k.areas[s], p \in Pages :
            k.refs[s] > 0 /\ a.file = "disk" /\ p \in PagesOf(a) /\ a.off + (p - a.lo) = i /\ k.pt[s][p].d
=============================================================================

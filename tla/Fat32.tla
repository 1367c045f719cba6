-------------------------------- MODULE Fat32 --------------------------------
(* The FAT32 driver: cluster chains, directories made of 32-byte slots, the  *)
(* table of open inodes, the directory index and the cached pages of a file. *)
(* Every operation runs from fs_lock to fs_unlock, so it is one step; a      *)
(* caller holds a reference to an inode between two operations, which is how *)
(* a directory can be removed while someone is about to create a file in it. *)
(* A cluster holds CS units; a unit is a slot of a directory or a "byte" of  *)
(* a file.  I/O errors, dates and attributes are left out.                   *)
EXTENDS Integers, Sequences, FiniteSets, TLC, SequencesExt, FiniteSetsExt

CONSTANTS
  Total,       \* clusters of the volume, numbered from 2; the root is 2
  CS,          \* units of a cluster
  PageLen,     \* units of a page of the page cache
  FatNames,    \* names; a name has the attributes below
  Fold,        \* the name in lower case
  ExactRaw,    \* its 8.3 form if it has one of its own, <<>> otherwise
  Basis,       \* the basis of its numeric tails
  LfnSlots,    \* long-name slots it needs when it is stored as a long name
  NameHash,    \* hash of a folded name
  IndexMin,    \* DIR_INDEX_MIN_ENTRIES (64)
  MaxIndexes,  \* FAT_DIR_INDEXES (8)
  MaxCandidates, \* DIR_INDEX_CANDIDATES (8)
  NodeIds,     \* inodes that may be open besides the root
  Fids,        \* identities of files, for the properties
  MaxSize,     \* bound: size of a file
  FatCases     \* bound: what a behaviour does: its operations and how many of
               \* them, the names it uses, the files made and opened before

VARIABLES
  fs,       \* the volume and the driver's view of it
  inodes,   \* sbi->open_nodes and the root: node -> fat32_inode_info
  text,     \* ghost: what a file's bytes should be
  damaged,  \* ghost: an entry went into a directory that was removed already or
            \* into itself, or a failed write left a size larger than the chain
  reader,   \* one readdir in progress
  fatCase   \* the case, with the number of operations left
fatVars == <<fs, inodes, text, damaged, reader, fatCase>>

Clusters == 2 .. Total + 1
RootCluster == 2
FREE == 0
EOC == 1
Unknown == -1
Zero == [k |-> "zero"]
One == [k |-> "one"]
Stale == [k |-> "stale"]      \* what a freed cluster still holds
Deleted == [k |-> "deleted"]
None == [pos |-> 0]
RootNode == "root"
Ceil(n, d) == (n + d - 1) \div d
Largest(a, b) == IF a > b THEN a ELSE b

-----------------------------------------------------------------------------
(* Clusters *)

fat_set(v, c, x) == [v EXCEPT !.fat[c] = x, !.dirty = TRUE]
(* The clusters from c on, by following the table. *)
fat32_next_cluster(v, c) == v.fat[c]
Chain(v, c) ==
  IF c \notin Clusters THEN <<>>
  ELSE FoldLeft(LAMBDA acc, i : IF fat32_next_cluster(v, Last(acc)) \in Clusters
                                  THEN Append(acc, v.fat[Last(acc)]) ELSE acc,
                <<c>>, [i \in 1 .. Total |-> i])

fsinfo_adjust(free, delta) == IF free = Unknown THEN free ELSE free + delta

Take(v, c, prev, zero) ==
  [c |-> c,
   v |-> [v EXCEPT !.fat = [x \in Clusters |-> CASE x = c -> EOC
                                                 [] x = prev -> c
                                                 [] OTHER -> @[x]],
                   !.data[c] = IF zero THEN [i \in 1 .. CS |-> Zero] ELSE @,
                   !.free = fsinfo_adjust(@, -1),
                   !.next = IF c + 1 \in Clusters THEN c + 1 ELSE 2,
                   !.dirty = TRUE]]

(* The first free cluster from the hint on, linked after prev. *)
alloc_cluster(v, prev, zero) ==
  LET at(n) == 2 + ((v.next - 2 + n) % Total)
      free  == {n \in 0 .. Total - 1 : v.fat[at(n)] = FREE}
  IN IF free = {} THEN [c |-> 0, v |-> v] ELSE Take(v, at(Min(free)), prev, zero)

(* n clusters, one after the other, as far as there are any. *)
Extend(v, last, n, zero) ==
  LET add(acc, a) == IF a.c = 0 THEN [acc EXCEPT !.full = TRUE]
                     ELSE [acc EXCEPT !.cs = Append(@, a.c), !.v = a.v]
      step(acc, i) == IF acc.full THEN acc
                      ELSE add(acc, alloc_cluster(acc.v, IF acc.cs = <<>> THEN last ELSE Last(acc.cs), zero))
  IN FoldLeft(step, [cs |-> <<>>, v |-> v, full |-> FALSE], [i \in 1 .. n |-> i])

dindex_drop(ix, d) == SelectSeq(ix, LAMBDA x : x.dir # d)

free_chain(v, c) ==
  [v EXCEPT !.fat = [x \in Clusters |-> IF x \in Range(Chain(v, c)) THEN FREE ELSE @[x]],
            !.data = [x \in Clusters |-> IF x \in Range(Chain(v, c)) THEN [i \in 1 .. CS |-> Stale] ELSE @[x]],
            !.free = fsinfo_adjust(@, Len(Chain(v, c))),
            !.dirty = @ \/ c \in Clusters,
            !.ix = dindex_drop(@, c)]

(* Nothing of the table is only in memory any more. *)
fat_flush(v) == [v EXCEPT !.dirty = FALSE]
fsinfo_sync(v) == fat_flush(v)

-----------------------------------------------------------------------------
(* Directories *)

Units(v, ch) ==
  [p \in 1 .. Len(ch) * CS |-> v.data[ch[(p - 1) \div CS + 1]][((p - 1) % CS) + 1]]

(* Units m (a function from positions) written along the chain ch. *)
PutUnits(v, ch, m) ==
  LET at(k, i) == (k - 1) * CS + i
      row(k) == [i \in 1 .. CS |-> IF at(k, i) \in DOMAIN m THEN m[at(k, i)]
                                   ELSE v.data[ch[k]][i]]
  IN [v EXCEPT !.data = [c \in Clusters |->
        IF \E k \in DOMAIN ch : ch[k] = c
          THEN row(CHOOSE k \in DOMAIN ch : ch[k] = c) ELSE @[c]]]

(* dir_entry_io flushes the table before it writes a slot. *)
dir_entry_io(v, first, m) == fat_flush(PutUnits(v, Chain(v, first), m))

(* iter_next, over the whole directory: the entries before the first unused *)
(* slot, each with the long-name slots right before it whose checksum fits. *)
LongStart(S, p) ==
  LET runs == {q \in 1 .. p - 1 :
                 /\ \A r \in q .. p - 1 : S[r].k = "lfn" /\ S[r].sum = S[p].raw
                 /\ S[q].last /\ \A r \in q + 1 .. p - 1 : ~S[r].last}
  IN IF runs = {} THEN p ELSE Max(runs)
iter_next(S) ==
  LET end == Min({p \in 1 .. Len(S) : S[p] = Zero} \cup {Len(S) + 1})
      found(p, q) == [pos |-> p, lfn_pos |-> q, de |-> S[p],
                      name |-> IF q = p THEN S[p].disp ELSE S[q].name]
  IN {found(p, LongStart(S, p)) : p \in {p \in 1 .. end - 1 : S[p].k = "short"}}
Entries(v, first) == iter_next(Units(v, Chain(v, first)))

(* The stored indexes, the least recently used first; an index is a set of  *)
(* pairs of a hash and the position of an entry.                            *)
dindex_store(ix, d, m) ==
  Append(IF Len(ix) = MaxIndexes THEN Tail(ix) ELSE ix, [dir |-> d, m |-> m])
dindex_insert(ix, d, name, pos) ==
  [i \in DOMAIN ix |-> IF ix[i].dir = d
     THEN [ix[i] EXCEPT !.m = @ \cup {<<NameHash[Fold[name]], pos>>}] ELSE ix[i]]
dindex_remove_range(ix, d, from, to) ==
  [i \in DOMAIN ix |-> IF ix[i].dir = d
     THEN [ix[i] EXCEPT !.m = {x \in @ : x[2] \notin from .. to}] ELSE ix[i]]

Pick(es, name) ==
  LET hit == {e \in es : Fold[e.name] = Fold[name]}
  IN IF hit = {} THEN None ELSE CHOOSE e \in hit : \A o \in hit : e.pos <= o.pos

scan_entry(v, first, es, name) ==
  [e |-> Pick(es, name),
   v |-> IF Cardinality(es) < IndexMin THEN v
         ELSE [v EXCEPT !.ix = dindex_store(dindex_drop(@, first), first,
                 {<<NameHash[Fold[e.name]], e.lfn_pos>> : e \in es})]]

find_entry(v, first, name) ==
  LET indexed(x, es) ==
        LET at == {p \in 1 .. Total * CS : <<NameHash[Fold[name]], p>> \in x.m}
            w  == [v EXCEPT !.ix = Append(dindex_drop(@, first), x)]
        IN IF Cardinality(at) > MaxCandidates THEN scan_entry(w, first, es, name)
           ELSE [e |-> Pick({e \in es : e.lfn_pos \in at}, name), v |-> w]
      stored == {i \in DOMAIN v.ix : v.ix[i].dir = first}
  IN IF stored = {} THEN scan_entry(v, first, Entries(v, first), name)
     ELSE indexed(v.ix[CHOOSE i \in stored : TRUE], Entries(v, first))

lowest_free_tail(es, name) ==
  Min({n \in 1 .. Total * CS + 1 : \A e \in es : e.de.raw # <<Basis[name], n>>})

make_short_name(es, name) ==
  IF ExactRaw[name] # <<>> /\ \A e \in es : e.de.raw # ExactRaw[name]
    THEN [raw |-> ExactRaw[name], lfn |-> 0]
    ELSE [raw |-> <<Basis[name], lowest_free_tail(es, name)>>, lfn |-> LfnSlots[name]]

(* The first run of unused slots, or more clusters after the last slot used. *)
dir_alloc_slots(v, first, count) ==
  LET ch == Chain(v, first)
      S  == Units(v, ch)
      unused(p) == S[p] \in {Zero, Deleted}
      runs == {p \in 1 .. Len(S) - count + 1 : \A q \in p .. p + count - 1 : unused(q)}
      tail == Max({p \in 1 .. Len(S) : ~unused(p)} \cup {0}) + 1
      more(g) == [ok |-> ~g.full, v |-> g.v, pos |-> tail]
  IN IF runs # {} THEN [ok |-> TRUE, v |-> v, pos |-> Min(runs)]
     ELSE more(Extend(v, Last(ch), Ceil(count - (Len(S) + 1 - tail), CS), TRUE))

write_name_entries(v, first, pos, name, n, de) ==
  dir_entry_io(v, first, [p \in pos .. pos + n.lfn |->
    IF p = pos + n.lfn THEN [de EXCEPT !.raw = n.raw, !.disp = name]
    ELSE [k |-> "lfn", name |-> name, last |-> p = pos, sum |-> n.raw]])

add_entry(v, first, name, de) ==
  LET written(n, a) ==
        IF ~a.ok THEN [ok |-> FALSE, v |-> a.v, pos |-> 0, lfn_pos |-> 0]
        ELSE [ok |-> TRUE, pos |-> a.pos + n.lfn, lfn_pos |-> a.pos,
              v |-> write_name_entries([a.v EXCEPT !.ix = dindex_insert(@, first, name, a.pos)],
                                       first, a.pos, name, n, de)]
      named(n) == written(n, dir_alloc_slots(v, first, n.lfn + 1))
  IN named(make_short_name(Entries(v, first), name))

delete_slots(v, first, from, to) ==
  [dir_entry_io(v, first, [p \in from .. to |-> Deleted])
     EXCEPT !.ix = dindex_remove_range(@, first, from, to)]

(* The directories from one on, itself included, by their first clusters. *)
Subdirs(v, c) == {e.de.first : e \in {e \in Entries(v, c) : e.de.isdir /\ e.name \notin {".", ".."}}}
Below(v, c) == FoldLeft(LAMBDA ds, i : ds \cup UNION {Subdirs(v, d) : d \in ds}, {c}, [i \in 1 .. Total |-> i])

dir_empty(v, first) == \A e \in Entries(v, first) : e.name \in {".", ".."}

-----------------------------------------------------------------------------
(* Inodes *)

dir_first_cluster(nd) == nd.first
registry_find(ns, first, pos) ==
  {n \in DOMAIN ns : ~ns[n].orphan /\ ns[n].dir_cluster = first /\ ns[n].dirent_pos = pos}

fat32_make_inode(de, first, pos) ==
  [refs |-> 1, first |-> de.first, size |-> de.size, isdir |-> de.isdir,
   dir_cluster |-> first, dirent_pos |-> pos, orphan |-> FALSE,
   cache_index |-> 0, cache_cluster |-> 0, pages |-> << >>, fid |-> de.fid]

dirent_update(v, nd) ==
  IF nd.orphan THEN v
  ELSE dir_entry_io(v, nd.dir_cluster,
         [p \in {nd.dirent_pos} |->
            [Units(v, Chain(v, nd.dir_cluster))[p] EXCEPT !.first = nd.first,
               !.size = IF nd.isdir THEN @ ELSE nd.size]])

(* Faulty variant: the chain is freed although someone still has the file open. *)
FreedWhileOpen(v, ns, first, f) ==
  [v |-> fsinfo_sync(free_chain(delete_slots(v, first, f.lfn_pos, f.pos), f.de.first)),
   ns |-> [n \in DOMAIN ns |-> IF n \in registry_find(ns, first, f.pos)
             THEN [ns[n] EXCEPT !.orphan = TRUE] ELSE ns[n]]]
(* remove_entry: the entry goes; the chain goes with the last reference. *)
remove_entry(v, ns, first, f) ==
  LET gone(w, live) ==
        [v  |-> fsinfo_sync(IF live = {} THEN free_chain(w, f.de.first) ELSE w),
         ns |-> [n \in DOMAIN ns |-> IF n \in live THEN [ns[n] EXCEPT !.orphan = TRUE] ELSE ns[n]]]
  IN gone(delete_slots(v, first, f.lfn_pos, f.pos), registry_find(ns, first, f.pos))

-----------------------------------------------------------------------------
(* File contents *)

(* chain_seek walks from the remembered cluster when that is not too far. *)
chain_seek(v, nd, index) ==
  IF nd.cache_cluster # 0 /\ nd.cache_index <= index
    THEN SubSeq(Chain(v, nd.first), 1, nd.cache_index) \o Chain(v, nd.cache_cluster)
    ELSE Chain(v, nd.first)

trim_chain(v, nd, size) ==
  LET ch == chain_seek(v, nd, Ceil(size, CS) - 1)
      keep == Ceil(size, CS)
      rest == fat_set(v, ch[keep], EOC)
      reset == [nd EXCEPT !.cache_cluster = 0, !.cache_index = 0]
  IN IF keep = 0 THEN [v |-> free_chain(v, nd.first), nd |-> [reset EXCEPT !.first = 0]]
     ELSE [nd |-> reset, v |-> IF keep < Len(ch) THEN free_chain(rest, ch[keep + 1]) ELSE v]

pcache_update(pages, m) ==
  [i \in DOMAIN pages |-> [u \in 1 .. PageLen |->
     IF i * PageLen + u \in DOMAIN m THEN m[i * PageLen + u] ELSE pages[i][u]]]
pcache_truncate(pages, size) ==
  [i \in {i \in DOMAIN pages : i < Ceil(size, PageLen)} |->
     [u \in 1 .. PageLen |-> IF i * PageLen + u > size THEN Zero ELSE pages[i][u]]]

(* write_at: the chain grows as far as there is space, what fits is written, *)
(* a chain that could not grow far enough is cut back to the size.           *)
write_at(v, nd, pos, src) ==
  LET len == Len(src)
      ch == chain_seek(v, nd, pos \div CS)
      grown(g) ==
        LET all  == ch \o g.cs
            done == IF g.full THEN Largest(0, Len(all) * CS - pos) ELSE len
            m    == [p \in pos + 1 .. pos + done |-> src[p - pos]]
            nd1  == [nd EXCEPT !.first = IF all = <<>> THEN 0 ELSE all[1],
                       !.size = Largest(@, pos + done),
                       !.pages = pcache_update(@, m),
                       !.cache_index = (pos + len - 1) \div CS,
                       !.cache_cluster = IF g.full THEN 0 ELSE all[(pos + len - 1) \div CS + 1]]
            cut  == IF g.full THEN trim_chain(PutUnits(g.v, all, m), nd1, nd1.size)
                    ELSE [v |-> PutUnits(g.v, all, m), nd |-> nd1]
        IN [done |-> done, v |-> dirent_update(cut.v, cut.nd), nd |-> cut.nd]
  IN IF len = 0 THEN [done |-> 0, v |-> v, nd |-> nd]
     ELSE grown(Extend(v, IF ch = <<>> THEN 0 ELSE Last(ch), Largest(0, Ceil(pos + len, CS) - Len(ch)), FALSE))

Zeros(n) == [i \in 1 .. n |-> Zero]
Ones(n) == [i \in 1 .. n |-> One]

fat32_file_write(v, nd, pos, len) ==
  LET after(z) == IF z.done = 0 THEN z ELSE write_at(z.v, z.nd, pos, Ones(len))
  IN IF pos > nd.size THEN after(write_at(v, nd, nd.size, Zeros(pos - nd.size)))
     ELSE write_at(v, nd, pos, Ones(len))

fat32_truncate(v, nd, size) ==
  LET cut(t) == LET nd1 == [t.nd EXCEPT !.size = size, !.pages = pcache_truncate(@, size)]
                IN [v |-> dirent_update(t.v, nd1), nd |-> nd1]
  IN IF size > nd.size THEN write_at(v, nd, nd.size, Zeros(size - nd.size))
     ELSE cut(trim_chain(v, nd, size))

(* What reading the whole file returns: a cached page wins over the disk. *)
fat32_file_read(v, nd) ==
  LET S == Units(v, Chain(v, nd.first))
  IN [p \in 1 .. nd.size |->
        IF (p - 1) \div PageLen \in DOMAIN nd.pages
          THEN nd.pages[(p - 1) \div PageLen][((p - 1) % PageLen) + 1] ELSE S[p]]

(* A read of the disk up to last remembers the cluster it ends in. *)
read_at(v, nd, last) ==
  LET index == (last - 1) \div CS
  IN [nd EXCEPT !.cache_index = index, !.cache_cluster = chain_seek(v, nd, index)[index + 1]]

fat32_mmap_page(v, nd, i) ==
  IF i \in DOMAIN nd.pages THEN nd
  ELSE [(IF i * PageLen < nd.size THEN read_at(v, nd, Min({nd.size, (i + 1) * PageLen})) ELSE nd)
          EXCEPT !.pages = [j \in DOMAIN @ \cup {i} |-> IF j # i THEN @[j]
          ELSE [u \in 1 .. PageLen |-> IF i * PageLen + u <= nd.size
                  THEN Units(v, Chain(v, nd.first))[i * PageLen + u] ELSE Zero]]]

-----------------------------------------------------------------------------
(* Operations *)

fat32_mount ==
  [fat |-> [c \in Clusters |-> IF c = RootCluster THEN EOC ELSE FREE],
   data |-> [c \in Clusters |-> [i \in 1 .. CS |-> IF c = RootCluster THEN Zero ELSE Stale]],
   dirty |-> FALSE, free |-> Total - 1, next |-> 2, ix |-> <<>>]
RootInode ==
  fat32_make_inode([first |-> RootCluster, size |-> 0, isdir |-> TRUE, fid |-> 0], 0, 0)

(* A case begins with files names[1], names[2], ... already made, and open. *)
NewEntry(name, c, directory, fid) ==
  [k |-> "short", raw |-> <<>>, disp |-> name, first |-> c, size |-> 0, isdir |-> directory, fid |-> fid]
Prepared(v, names) ==
  FoldLeft(LAMBDA w, i : add_entry(w, RootCluster, names[i], NewEntry(names[i], 0, FALSE, i)).v,
           v, [i \in DOMAIN names |-> i])
OpenAt(v, e) == [n \in {RootNode} |-> RootInode] @@
  (IF e = None THEN << >> ELSE [n \in {CHOOSE x \in NodeIds : TRUE} |-> fat32_make_inode(e.de, RootCluster, e.pos)])

NoReader == [node |-> "none", pos |-> 0, seen |-> {}, due |-> {}]
FatInit(cases) ==
  /\ fatCase \in cases
  /\ fs = Prepared([fat32_mount EXCEPT !.free = IF fatCase.counted THEN @ ELSE Unknown], fatCase.files)
  /\ inodes = OpenAt(fs, IF fatCase.opened = "" THEN None ELSE find_entry(fs, RootCluster, fatCase.opened).e)
  /\ text = [f \in Fids |-> <<>>]
  /\ damaged = FALSE
  /\ reader = NoReader

Dirs == {n \in DOMAIN inodes : inodes[n].isdir}
Files == DOMAIN inodes \ Dirs
UsedFids(v, ns) ==
  {ns[n].fid : n \in DOMAIN ns}
    \cup UNION {{v.data[c][i].fid : i \in {i \in 1 .. CS : v.data[c][i].k = "short"}} : c \in Clusters}

(* What an unfinished readdir still has to return after this operation: the *)
(* entries that have been where they are since it began.                    *)
Linked(v, n) == {<<e.pos, e.de.fid>> : e \in Entries(v, dir_first_cluster(n))}
ReaderAfter(v, ns) ==
  reader' = IF reader.node \in DOMAIN ns
              THEN [reader EXCEPT !.due = @ \cap Linked(v, ns[reader.node])]
              ELSE NoReader

(* A behaviour is followed until the volume is damaged. *)
Allowed(op) == ~damaged /\ op \in fatCase.ops /\ fatCase.left > 0
Spend == fatCase' = [fatCase EXCEPT !.left = @ - 1]
Operation(v, ns) ==
  /\ Spend
  /\ fs' = v /\ inodes' = ns
  /\ ReaderAfter(v, ns)

Dot(name, first) == [k |-> "short", raw |-> <<name, 0>>, disp |-> name, first |-> first,
                     size |-> 0, isdir |-> TRUE, fid |-> 0]
fat32_create(d, name, directory) ==
  LET dir == dir_first_cluster(inodes[d])
      fid == Min(Fids \ UsedFids(fs, inodes))
      entry(c) == NewEntry(name, c, directory, fid)
      dots(a) == dir_entry_io(a.v, a.c, [p \in 1 .. 2 |-> IF p = 1 THEN Dot(".", a.c)
                   ELSE Dot("..", IF d = RootNode THEN 0 ELSE dir)])
      done(c, r) == [ok |-> r.ok,
                     v |-> fsinfo_sync(IF ~r.ok /\ c # 0 THEN free_chain(r.v, c) ELSE r.v)]
      made(a) == IF a.c = 0 THEN [ok |-> FALSE, v |-> a.v]
                 ELSE done(a.c, add_entry(dots(a), dir, name, entry(a.c)))
      result(w) == IF directory THEN made(alloc_cluster(w, 0, TRUE))
                   ELSE done(0, add_entry(w, dir, name, entry(0)))
  IN /\ Fids \ UsedFids(fs, inodes) # {}
     /\ \E f \in {find_entry(fs, dir, name)} :
        /\ f.e = None
        /\ \E r \in {result(f.v)} :
           /\ Operation(r.v, inodes)
           /\ damaged' = (damaged \/ (r.ok /\ inodes[d].orphan))
           /\ text' = [text EXCEPT ![fid] = <<>>]

fat32_unlink(d, name, directory) ==
  LET dir == dir_first_cluster(inodes[d])
  IN \E f \in {find_entry(fs, dir, name)} :
     /\ f.e # None
     /\ f.e.de.isdir = directory
     /\ directory => dir_empty(f.v, f.e.de.first)
     /\ \E r \in {remove_entry(f.v, inodes, dir, f.e)} : Operation(r.v, r.ns)
     /\ UNCHANGED <<text, damaged>>

(* rename: a destination that may be replaced is removed first, then the     *)
(* entry is copied, then the old one deleted, then an open inode follows it. *)
fat32_rename(od, old, nd, new, no_replace) ==
  LET from == dir_first_cluster(inodes[od])
      to   == dir_first_cluster(inodes[nd])
      same(s, t)   == from = to /\ s.pos = t.pos
      refused(v, s, t) ==
        t # None /\ ~same(s, t)
          /\ (no_replace \/ s.de.isdir # t.de.isdir \/ (t.de.isdir /\ ~dir_empty(v, t.de.first)))
      dotdot(v, s) ==
        IF s.de.isdir /\ from # to
          THEN dir_entry_io(v, s.de.first, [p \in {2} |-> Dot("..", IF nd = RootNode THEN 0 ELSE to)]) ELSE v
      follow(ns, s, a) ==
        [n \in DOMAIN ns |-> IF n \in registry_find(ns, from, s.pos)
           THEN [ns[n] EXCEPT !.dir_cluster = to, !.dirent_pos = a.pos] ELSE ns[n]]
      moved(s, r, a) ==
        IF ~a.ok THEN [v |-> fsinfo_sync(a.v), ns |-> r.ns, ok |-> FALSE]
        ELSE [v |-> fsinfo_sync(dotdot(delete_slots(a.v, from, s.lfn_pos, s.pos), s)),
              ns |-> follow(r.ns, s, a), ok |-> TRUE]
      replaced(v, s, t) == IF t = None \/ same(s, t) THEN [v |-> v, ns |-> inodes]
                           ELSE remove_entry(v, inodes, to, t)
      result(s, r) == moved(s, r, add_entry(r.v, to, new, s.de))
  IN \E f \in {find_entry(fs, from, old)} :
     /\ f.e # None
     /\ \E g \in {find_entry(f.v, to, new)} :
        /\ ~(g.e # None /\ same(f.e, g.e) /\ f.e.name = new)
        /\ ~refused(g.v, f.e, g.e)
        /\ \E r \in {result(f.e, replaced(g.v, f.e, g.e))} :
           /\ Operation(r.v, r.ns)
           /\ damaged' = (damaged \/ (r.ok /\ (inodes[nd].orphan
                                       \/ (f.e.de.isdir /\ to \in Below(fs, f.e.de.first)))))
     /\ UNCHANGED text

fat32_lookup(d, name) ==
  LET dir == dir_first_cluster(inodes[d])
      free == NodeIds \ DOMAIN inodes
      open(f, live) ==
        IF live # {} THEN [n \in DOMAIN inodes |-> IF n \in live THEN [inodes[n] EXCEPT !.refs = @ + 1] ELSE inodes[n]]
        ELSE [n \in DOMAIN inodes \cup {CHOOSE x \in free : TRUE} |->
                IF n \in DOMAIN inodes THEN inodes[n] ELSE fat32_make_inode(f.de, dir, f.pos)]
  IN \E f \in {find_entry(fs, dir, name)} :
     /\ f.e # None
     /\ LET live == registry_find(inodes, dir, f.e.pos)
        IN /\ live = {} => free # {}
           /\ \A n \in live : inodes[n].refs < 2
           /\ Operation(f.v, open(f.e, live))
     /\ UNCHANGED <<text, damaged>>

fat32_release(n) ==
  LET last == inodes[n].refs = 1
      ns == IF last THEN [m \in DOMAIN inodes \ {n} |-> inodes[m]]
            ELSE [inodes EXCEPT ![n].refs = @ - 1]
  IN /\ n # RootNode
     /\ Operation(IF last /\ inodes[n].orphan THEN fsinfo_sync(free_chain(fs, inodes[n].first)) ELSE fs, ns)
     /\ UNCHANGED <<text, damaged>>

(* The file's text after a write of done units at pos. *)
Overwritten(t, pos, done) ==
  [i \in 1 .. Largest(Len(t), pos + done) |->
     IF i > pos /\ i <= pos + done THEN One ELSE IF i <= Len(t) THEN t[i] ELSE Zero]

FileWrite(n, pos, len) ==
  \E r \in {fat32_file_write(fs, inodes[n], pos, len)} :
    /\ Operation(r.v, [inodes EXCEPT ![n] = r.nd])
    /\ text' = [text EXCEPT ![inodes[n].fid] =
                  IF r.done = 0 THEN SubSeq(Overwritten(@, pos, 0), 1, r.nd.size)
                  ELSE Overwritten(@, pos, r.done)]
    /\ damaged' = (damaged \/ r.nd.size > CS * Len(Chain(r.v, r.nd.first)))

(* ftruncate and fallocate, which truncates upwards. *)
FileTruncate(n, size) ==
  \E r \in {fat32_truncate(fs, inodes[n], size)} :
    /\ Operation(r.v, [inodes EXCEPT ![n] = r.nd])
    /\ text' = [text EXCEPT ![inodes[n].fid] = SubSeq(@ \o Zeros(MaxSize), 1, r.nd.size)]
    /\ UNCHANGED damaged

(* A read that ends in a page that is not cached. *)
FileRead(n, last) ==
  /\ last <= inodes[n].size /\ (last - 1) \div PageLen \notin DOMAIN inodes[n].pages
  /\ Operation(fs, [inodes EXCEPT ![n] = read_at(fs, @, last)])
  /\ UNCHANGED <<text, damaged>>

FileMmap(n, i) ==
  /\ i \notin DOMAIN inodes[n].pages
  /\ Operation(fs, [inodes EXCEPT ![n] = fat32_mmap_page(fs, @, i)])
  /\ UNCHANGED <<text, damaged>>

(* pcache_reclaim: pages nobody else uses go when memory is short. *)
pcache_reclaim(n, i) ==
  /\ i \in DOMAIN inodes[n].pages
  /\ Operation(fs, [inodes EXCEPT ![n].pages = [j \in DOMAIN @ \ {i} |-> @[j]]])
  /\ UNCHANGED <<text, damaged>>

(* The next entry from the position of the open directory on. *)
fat32_readdir(n) ==
  LET es == {e \in Entries(fs, dir_first_cluster(inodes[n])) : e.pos > reader.pos}
      e  == CHOOSE x \in es : \A y \in es : x.pos <= y.pos
  IN /\ reader.node \in {"none", n}
     /\ reader' = IF reader.node = "none"
          THEN [node |-> n, pos |-> 0, seen |-> {}, due |-> Linked(fs, inodes[n])]
          ELSE IF es = {} THEN NoReader
          ELSE [reader EXCEPT !.pos = e.pos, !.seen = @ \cup {<<e.pos, e.de.fid>>}]
     /\ Spend
     /\ UNCHANGED <<fs, inodes, text, damaged>>

fat32_statfs ==
  /\ fs.free = Unknown
  /\ Operation([fs EXCEPT !.free = Cardinality({c \in Clusters : fs.fat[c] = FREE})], inodes)
  /\ UNCHANGED <<text, damaged>>

FatNext ==
  \/ \E d \in Dirs, name \in fatCase.names :
       \/ Allowed("create") /\ fat32_create(d, name, FALSE)
       \/ Allowed("mkdir") /\ fat32_create(d, name, TRUE)
       \/ \E directory \in BOOLEAN : Allowed("unlink") /\ fat32_unlink(d, name, directory)
       \/ Allowed("lookup") /\ fat32_lookup(d, name)
       \/ \E nd \in Dirs, new \in fatCase.names, no_replace \in BOOLEAN :
            Allowed("rename") /\ fat32_rename(d, name, nd, new, no_replace)
  \/ \E n \in DOMAIN inodes : Allowed("release") /\ fat32_release(n)
  \/ \E n \in Files :
       \/ \E pos \in 0 .. MaxSize - 1, len \in 1 .. MaxSize :
            Allowed("write") /\ pos + len <= MaxSize /\ FileWrite(n, pos, len)
       \/ \E last \in 1 .. MaxSize : Allowed("read") /\ FileRead(n, last)
       \/ \E size \in 0 .. MaxSize : Allowed("truncate") /\ FileTruncate(n, size)
       \/ \E i \in 0 .. Ceil(MaxSize, PageLen) - 1 :
            Allowed("mmap") /\ (FileMmap(n, i) \/ pcache_reclaim(n, i))
  \/ \E n \in Dirs : Allowed("readdir") /\ fat32_readdir(n)
  \/ Allowed("statfs") /\ fat32_statfs
-----------------------------------------------------------------------------
(* Properties *)

SlotOK(u) ==
  \/ u \in {Zero, One, Stale, Deleted}
  \/ u.k = "lfn" /\ u.name \in FatNames
  \/ u.k = "short" /\ u.first \in Clusters \cup {0} /\ u.size \in 0 .. MaxSize /\ u.fid \in Fids \cup {0}

(* Types: the table links clusters of the volume, the count of free clusters *)
(* never leaves its range (an unsigned field in the code, which would wrap), *)
(* and a remembered cluster is the one its index names in the chain.         *)
FatTypeOK ==
  /\ \A c \in Clusters : fs.fat[c] \in Clusters \cup {FREE, EOC} /\ \A i \in 1 .. CS : SlotOK(fs.data[c][i])
  /\ fs.free \in {Unknown} \cup 0 .. Total
  /\ DOMAIN inodes \subseteq NodeIds \cup {RootNode}
  /\ \A n \in DOMAIN inodes : inodes[n].cache_cluster # 0 =>
       /\ inodes[n].cache_index < Len(Chain(fs, inodes[n].first))
       /\ Chain(fs, inodes[n].first)[inodes[n].cache_index + 1] = inodes[n].cache_cluster

(* First clusters of everything that owns a chain: the directories of the    *)
(* tree, the files in them, and inodes that are open without a name.         *)
Tree == Below(fs, RootCluster)
TreeEntries == UNION {{[dir |-> d, e |-> e] : e \in {e \in Entries(fs, d) : e.name \notin {".", ".."}}} : d \in Tree}
Orphans == {n \in DOMAIN inodes : inodes[n].orphan}
Owners == {<<x.dir, x.e.pos, x.e.de.first>> : x \in TreeEntries}
            \cup {<<0, n, inodes[n].first>> : n \in Orphans} \cup {<<0, RootNode, RootCluster>>}

(* No cluster is lost or shared: every cluster in use lies on the chain of   *)
(* exactly one directory entry, open unlinked inode or the root              *)
(* (alloc_cluster, free_chain, trim_chain, remove_entry, fat32_release).     *)
ClustersOwned ==
  damaged \/
    \E chains \in {{<<o[1], o[2], Range(Chain(fs, o[3]))>> : o \in Owners}} :
      /\ {c \in Clusters : fs.fat[c] # FREE} = UNION {o[3] : o \in chains}
      /\ \A o, p \in chains : o # p => o[3] \cap p[3] = {}

(* The count of free clusters, kept by adding and subtracting, stays the     *)
(* number statfs would find by looking (fsinfo_adjust, fat32_statfs).        *)
FreeCountExact == fs.free # Unknown => fs.free = Cardinality({c \in Clusters : fs.fat[c] = FREE})

(* Reading an open file returns what was written to it: gaps and extensions  *)
(* read as zeros, never what a cluster held before, and a cached page agrees *)
(* with the disk, through truncation, a full disk, renaming and unlinking.   *)
ReadExact == damaged \/ \A n \in Files : fat32_file_read(fs, inodes[n]) = text[inodes[n].fid]

(* A stored index of a directory holds exactly the directory's entries, so a *)
(* lookup through it finds what a scan would (dindex_*, find_entry), also    *)
(* after the directory's cluster was freed and used for another directory.   *)
IndexExact ==
  \A i \in DOMAIN fs.ix : fs.ix[i].m =
    {<<NameHash[Fold[e.name]], e.lfn_pos>> : e \in Entries(fs, fs.ix[i].dir)}

(* No two entries of a directory have the same name up to case, or the same  *)
(* short name (find_entry before add_entry, make_short_name).                *)
NamesUnique ==
  \A es \in {Entries(fs, d) : d \in Tree} : \A e, f \in es :
    e # f => Fold[e.name] # Fold[f.name] /\ e.de.raw # f.de.raw

(* An open inode and its directory entry agree, and no entry has two inodes: *)
(* the place remembered in the inode follows every rename (registry_find).   *)
InodeMatchesEntry ==
  damaged \/ \A n \in DOMAIN inodes \ ({RootNode} \cup Orphans) :
    /\ \E x \in TreeEntries : /\ x.dir = inodes[n].dir_cluster /\ x.e.pos = inodes[n].dirent_pos
                              /\ x.e.de.fid = inodes[n].fid /\ x.e.de.first = inodes[n].first
                              /\ x.e.de.size = inodes[n].size
    /\ registry_find(inodes, inodes[n].dir_cluster, inodes[n].dirent_pos) = {n}

(* Table changes wait in memory only while an unlinked file is still open:   *)
(* every other operation has flushed the cached sector when it returns.      *)
TableFlushed == fs.dirty => Orphans # {}

(* readdir returns every entry that was there, in the same place, from its   *)
(* beginning to its end (fat32_readdir keeps a position, not an entry).      *)
ReaddirComplete ==
  [][reader.node # "none" /\ reader.node \in DOMAIN inodes /\ reader'.node = "none" /\ reader.node \in DOMAIN inodes'
       => reader.due \subseteq reader.seen]_fatVars
=============================================================================

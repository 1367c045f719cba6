------------------------------- MODULE Inotify -------------------------------
(* Change notification (inotify.c) and the file system calls that report     *)
(* changes (vfs.c).  A call looks up the directories of its paths, and may   *)
(* sleep there, then changes the tree and reports it without sleeping in     *)
(* between; adding a watch looks its path up first and may sleep there.      *)
(* read sleeps, with a time limit, until there is an event: here it waits.   *)
EXTENDS Integers, Sequences, SequencesExt, FiniteSets

CONSTANTS
  Instances,
  NoteDirs, Leaves,   \* names of directories, and of the files in them
  NoteThreads,    \* threads inside calls of vfs.c; idle ones are alike
  QueueSlots,     \* room of a queue: a record takes one slot, its name another
  NoteCases

Paths == {<<d>> : d \in NoteDirs} \cup {<<d, f>> : d \in NoteDirs, f \in Leaves}
Objects == 1..(3 * Cardinality(Paths))
Root == -1

VARIABLES
  tree,      \* the object at each path, 0 for none
  inst,      \* the instances
  counted,   \* watch_count
  cookie,    \* next_cookie
  calls,     \* what each thread is doing, and the directories it has found
  opened,    \* open files: the object, and the name it was opened with
  noteCase   \* the calls left
noteVars == <<tree, inst, counted, cookie, calls, opened, noteCase>>

(* sent is what a watch has to report, going by the objects themselves; seen *)
(* is what was read.  raced: a watched path was gone when the watch was      *)
(* added, or a change was reported under a path its directory no longer had; *)
(* misnamed: a write was reported under a path the file no longer had, or a  *)
(* rename changed nothing.                                                   *)
NoCall == [op |-> "idle", old |-> <<>>, new |-> <<>>, dir |-> 0, into |-> 0]
NoInstance == [open |-> FALSE, watches |-> <<>>, queue |-> <<>>, next |-> 1, adding |-> <<>>,
               raced |-> FALSE, misnamed |-> FALSE, sent |-> <<>>, seen |-> <<>>]
NoteInit(cases) ==
  /\ noteCase \in cases
  /\ tree = noteCase.start
  /\ inst = [i \in Instances |-> NoInstance]
  /\ counted = 0 /\ cookie = 0 /\ opened = {}
  /\ calls = [t \in NoteThreads |-> NoCall]

Tries(op) ==
  /\ op \in DOMAIN noteCase.ops /\ noteCase.ops[op] > 0
  /\ noteCase' = [noteCase EXCEPT !.ops = [@ EXCEPT ![op] = @ - 1]]

-----------------------------------------------------------------------------
(* The queue of an instance.  has_last holds while the queue is not empty.   *)

Event(wd, kind, ck, name) == [wd |-> wd, kind |-> kind, cookie |-> ck, name |-> name]
Overflow == Event(-1, "overflow", 0, "")
EventSlots(e) == IF e.name = "" THEN 1 ELSE 2
Used(q) == FoldLeft(LAMBDA n, e : n + EventSlots(e), 0, q)
queue_event(q, e) ==
  IF q # <<>> /\ Last(q) = e THEN q
  ELSE IF Used(q) + EventSlots(e) + 1 > QueueSlots
       THEN IF q # <<>> /\ Last(q) = Overflow THEN q ELSE Append(q, Overflow)
       ELSE Append(q, e)

(* S is the instances and the count.  Every watch is visited once.           *)
State == [inst |-> inst, counted |-> counted]
watch_remove(S, i, w) ==
  [S EXCEPT !.inst = [@ EXCEPT ![i] = [@ EXCEPT !.queue = queue_event(@, Event(w.wd, "ignored", 0, "")),
                                                !.watches = SelectSeq(@, LAMBDA x : x.wd # w.wd)]],
            !.counted = @ - 1]
Queue(S, i, e) == [S EXCEPT !.inst = [@ EXCEPT ![i] = [@ EXCEPT !.queue = queue_event(@, e)]]]
EachWatch(Op(_, _, _), S) ==
  FoldLeft(LAMBDA T, i : FoldLeft(LAMBDA U, w : Op(U, i, w), T, T.inst[i].watches), S, SetToSeq({i \in Instances : S.inst[i].open}))

ChildOnly == {"create", "delete", "from", "to"}
notify_locked(S, path, kind, ck) ==
  EachWatch(LAMBDA T, i, w :
    LET self == w.path = path
        parent == ~self /\ w.path = Front(path)
        T2 == Queue(T, i, Event(w.wd, kind, ck, IF parent THEN Last(path) ELSE ""))
    IN IF ~(self \/ parent) \/ kind \notin w.mask \/ (self /\ kind \in ChildOnly) THEN T
       ELSE IF "oneshot" \in w.mask THEN watch_remove(T2, i, w) ELSE T2, S)
self_gone_locked(S, path) ==
  EachWatch(LAMBDA T, i, w :
    IF w.path # path THEN T
    ELSE watch_remove(IF "deleteSelf" \in w.mask THEN Queue(T, i, Event(w.wd, "deleteSelf", 0, "")) ELSE T, i, w), S)
(* Bound: names differ in length so far that a file in one of these has none. *)
TooLong(p) == Len(p) = 2 /\ Head(p) \in noteCase.long
Moved(p, old, new) == new \o SubSeq(p, Len(old) + 1, Len(p))
(* Faulty variant: watches below the moved directory keep their paths. *)
OnlyItself(S, old, new) ==
  EachWatch(LAMBDA T, i, w :
    LET T2 == IF "moveSelf" \in w.mask THEN Queue(T, i, Event(w.wd, "moveSelf", 0, "")) ELSE T
    IN IF w.path # old THEN T
       ELSE [T2 EXCEPT !.inst = [@ EXCEPT ![i] = [@ EXCEPT !.watches = [n \in DOMAIN @ |-> IF @[n].wd = w.wd THEN [@[n] EXCEPT !.path = new] ELSE @[n]]]]], S)
rewrite_paths_locked(S, old, new) ==
  EachWatch(LAMBDA T, i, w :
    LET T2 == IF w.path = old /\ "moveSelf" \in w.mask THEN Queue(T, i, Event(w.wd, "moveSelf", 0, "")) ELSE T
        to == Moved(w.path, old, new)
    IN IF ~IsPrefix(old, w.path) THEN T
       ELSE IF TooLong(to) THEN watch_remove(T2, i, w)
       ELSE [T2 EXCEPT !.inst = [@ EXCEPT ![i] = [@ EXCEPT !.watches = [n \in DOMAIN @ |-> IF @[n].wd = w.wd THEN [@[n] EXCEPT !.path = to] ELSE @[n]]]]], S)

(* inotify_moved *)
ReportedMove(old, new) ==
  rewrite_paths_locked(notify_locked(notify_locked(self_gone_locked(State, new), old, "from", cookie + 1), new, "to", cookie + 1), old, new)
ReportedDelete(path) == self_gone_locked(notify_locked(State, path, "delete", 0), path)
inotify_active == counted # 0

-----------------------------------------------------------------------------
(* What the watches of one instance have to report of a change, by object:   *)
(* news is a sequence of [obj, dir, kind, cookie, name, lost], where lost are *)
(* the objects whose paths become too long.                                  *)

Ignored(w) == <<Event(w.wd, "ignored", 0, "")>>
Due(w, n) ==
  IF w.obj \in n.lost THEN Ignored(w)
  ELSE IF n.obj = w.obj /\ n.kind \notin ChildOnly /\ n.kind \in w.mask \cup {"gone"}
  THEN IF n.kind # "gone" THEN <<Event(w.wd, n.kind, n.cookie, "")>>
       ELSE (IF "deleteSelf" \in w.mask THEN <<Event(w.wd, "deleteSelf", 0, "")>> ELSE <<>>) \o Ignored(w)
  ELSE IF n.dir = w.obj /\ n.kind \in w.mask /\ n.kind # "moveSelf" THEN <<Event(w.wd, n.kind, n.cookie, n.name)>> ELSE <<>>
Ends(w, n) == Due(w, n) # <<>> /\ n.kind \notin {"gone", "moveSelf"} /\ "oneshot" \in w.mask
Gone(w, n) == (n.kind = "gone" /\ n.obj = w.obj) \/ w.obj \in n.lost
Heard(I, n) ==
  FoldLeft(LAMBDA J, w : [J EXCEPT !.sent = @ \o Due(w, n) \o (IF Ends(w, n) THEN Ignored(w) ELSE <<>>),
                                   !.watches = IF Ends(w, n) \/ Gone(w, n) THEN SelectSeq(@, LAMBDA x : x.wd # w.wd) ELSE @], I, I.watches)
Sent(i, news) == FoldLeft(Heard, inst[i], news).sent

(* Directories are at the top, files below them. *)
Exists(p) == p # <<>> /\ tree[p] # 0
Children(p) == {q \in Paths : Len(q) > Len(p) /\ IsPrefix(p, q) /\ tree[q] # 0}
Dir(p) == IF Len(p) = 1 THEN Root ELSE tree[Front(p)]
(* Where a name in the directory dir is now: nowhere once dir is removed.    *)
PathsAt(dir, name) == {p \in Paths : Last(p) = name /\ Dir(p) = dir /\ dir # 0}
InUse == {tree[p] : p \in Paths} \cup {f.obj : f \in opened} \cup UNION {{calls[t].dir, calls[t].into} : t \in NoteThreads}
         \cup UNION {{inst[i].watches[n].obj : n \in DOMAIN inst[i].watches} : i \in Instances}
FreshObject == CHOOSE o \in Objects \ InUse : \A x \in Objects \ InUse : o <= x
News(obj, p, kind, ck) == [obj |-> obj, dir |-> Dir(p), kind |-> kind, cookie |-> ck, name |-> Last(p), lost |-> {}]
Report(S, news, raced, misnamed) ==
  IF ~inotify_active THEN UNCHANGED <<inst, counted>>
  ELSE /\ inst' = [i \in Instances |-> IF inst[i].watches = <<>> THEN inst[i]
                                        ELSE [S.inst[i] EXCEPT !.sent = Sent(i, news), !.raced = @ \/ raced, !.misnamed = @ \/ misnamed]]
       /\ counted' = S.counted

-----------------------------------------------------------------------------
(* The calls of vfs.c. *)

vfs_parent(t, op, p, q) ==
  /\ Tries(op) /\ calls[t].op = "idle" /\ \A u \in NoteThreads : calls[u].op = "idle" => t <= u
  /\ Len(q) = Len(p) /\ ~TooLong(p) /\ ~TooLong(q) /\ Dir(p) # 0
  /\ calls' = [calls EXCEPT ![t] = [NoCall EXCEPT !.op = IF op = "rename" THEN "into" ELSE op, !.old = p, !.new = q, !.dir = Dir(p)]]
  /\ UNCHANGED <<tree, inst, counted, cookie, opened>>
(* The second lookup of a rename: the call ends when there is no such directory. *)
vfs_parent_new(t) ==
  /\ calls[t].op = "into"
  /\ calls' = [calls EXCEPT ![t] = IF Dir(@.new) = 0 THEN NoCall ELSE [@ EXCEPT !.op = "rename", !.into = Dir(calls[t].new)]]
  /\ UNCHANGED <<tree, inst, counted, cookie, opened, noteCase>>
CallEnds(t, op) == calls[t].op = op /\ calls' = [calls EXCEPT ![t] = NoCall] /\ UNCHANGED <<opened, noteCase>>
NothingDone == UNCHANGED <<tree, inst, counted, cookie>>
NoteCreate(t) ==
  LET c == calls[t]  at == {p \in PathsAt(c.dir, Last(c.old)) : ~Exists(p)}
  IN /\ CallEnds(t, "create")
     /\ \/ \E p \in at : /\ tree' = [tree EXCEPT ![p] = FreshObject]
                          /\ Report(notify_locked(State, c.old, "create", 0), <<News(FreshObject, p, "create", 0)>>, p # c.old, FALSE)
                          /\ UNCHANGED cookie
        \/ at = {} /\ NothingDone
NoteUnlink(t) ==
  LET c == calls[t]  at == {p \in PathsAt(c.dir, Last(c.old)) : Exists(p) /\ Children(p) = {}}
  IN /\ CallEnds(t, "unlink")
     /\ \/ \E p \in at : /\ tree' = [tree EXCEPT ![p] = 0]
                          /\ Report(ReportedDelete(c.old), <<News(tree[p], p, "delete", 0), News(tree[p], p, "gone", 0)>>, p # c.old, FALSE)
                          /\ UNCHANGED cookie
        \/ at = {} /\ NothingDone
(* What is renamed to itself stays, and is reported all the same. *)
Renamed(p, q) ==
  IF p = q THEN tree
  ELSE [x \in Paths |-> IF IsPrefix(q, x) THEN tree[p \o SubSeq(x, Len(q) + 1, Len(x))] ELSE IF IsPrefix(p, x) THEN 0 ELSE tree[x]]
RenameNews(p, q, ck) ==
  (IF Exists(q) THEN <<[News(tree[q], q, "gone", 0) EXCEPT !.dir = 0]>> ELSE <<>>)
  \o <<News(tree[p], p, "from", ck), News(tree[p], q, "to", ck),
       [News(tree[p], p, "moveSelf", 0) EXCEPT !.lost = {tree[x] : x \in {y \in Children(p) : TooLong(Moved(y, p, q))}}]>>
vfs_rename(t) ==
  LET c == calls[t]
      at == {x \in PathsAt(c.dir, Last(c.old)) \X PathsAt(c.into, Last(c.new)) : Exists(x[1]) /\ (x[1] = x[2] \/ Children(x[2]) = {})}
  IN /\ CallEnds(t, "rename")
     /\ \/ \E x \in at : /\ tree' = Renamed(x[1], x[2])
                          /\ Report(ReportedMove(c.old, c.new), IF x[1] = x[2] THEN <<>> ELSE RenameNews(x[1], x[2], cookie + 1),
                                    x # <<c.old, c.new>>, x[1] = x[2])
                          /\ cookie' = IF inotify_active THEN cookie + 1 ELSE cookie
        \/ at = {} /\ NothingDone
(* An open file is reported under the name it was opened with. *)
notify_file(f, kind) ==
  Report(notify_locked(State, f.name, kind, 0), SetToSeq({News(f.obj, p, kind, 0) : p \in {x \in Paths : tree[x] = f.obj}}),
         FALSE, tree[f.name] # f.obj)
NoteOpen(p) ==
  /\ Tries("open") /\ Exists(p) /\ Len(p) = 2 /\ ~TooLong(p)
  /\ notify_file([obj |-> tree[p], name |-> p], "open")
  /\ opened' = opened \cup {[obj |-> tree[p], name |-> p]} /\ UNCHANGED <<tree, cookie, calls>>
NoteWrite(f) == Tries("write") /\ notify_file(f, "modify") /\ UNCHANGED <<tree, cookie, calls, opened>>
NoteClose(f) ==
  /\ Tries("shut") /\ notify_file(f, "closed")
  /\ opened' = opened \ {f} /\ UNCHANGED <<tree, cookie, calls>>

-----------------------------------------------------------------------------
(* The system calls. *)

sys_inotify_init1(i) ==
  /\ Tries("init") /\ ~inst[i].open /\ \A j \in Instances : ~inst[j].open => i <= j
  /\ inst' = [inst EXCEPT ![i].open = TRUE] /\ UNCHANGED <<tree, counted, cookie, calls, opened>>
inotify_close(i) ==
  /\ Tries("close") /\ inst[i].open /\ inst[i].adding = <<>>
  /\ counted' = counted - Len(inst[i].watches)
  /\ inst' = [inst EXCEPT ![i] = NoInstance] /\ UNCHANGED <<tree, cookie, calls, opened>>
vfs_path_type(i, p) ==
  /\ Tries("add") /\ inst[i].open /\ inst[i].adding = <<>> /\ Exists(p) /\ ~TooLong(p)
  /\ inst' = [inst EXCEPT ![i].adding = p] /\ UNCHANGED <<tree, counted, cookie, calls, opened>>
sys_inotify_add_watch(i, mask) ==
  LET I == inst[i]  p == I.adding
      old == {n \in DOMAIN I.watches : I.watches[n].path = p}
  IN /\ p # <<>>
     /\ IF old # {}
        THEN inst' = [inst EXCEPT ![i] = [@ EXCEPT !.adding = <<>>, !.watches = [n \in DOMAIN @ |-> IF n \in old THEN [@[n] EXCEPT !.mask = mask] ELSE @[n]]]]
             /\ UNCHANGED counted
        ELSE /\ inst' = [inst EXCEPT ![i] = [@ EXCEPT !.adding = <<>>, !.next = @ + 1, !.raced = @ \/ ~Exists(p),
                                                      !.watches = Append(@, [wd |-> I.next, mask |-> mask, path |-> p, obj |-> tree[p]])]]
             /\ counted' = counted + 1
     /\ UNCHANGED <<tree, cookie, calls, opened, noteCase>>
sys_inotify_rm_watch(i, n) ==
  /\ Tries("rm") /\ n \in DOMAIN inst[i].watches
  /\ LET S == watch_remove(State, i, inst[i].watches[n])
     IN inst' = [S.inst EXCEPT ![i].sent = Append(@, Event(inst[i].watches[n].wd, "ignored", 0, ""))] /\ counted' = S.counted
  /\ UNCHANGED <<tree, cookie, calls, opened>>
(* As many whole events as fit into the caller's buffer. *)
inotify_read(i, cap) ==
  LET q == inst[i].queue
      fit == {n \in 1..Len(q) : Used(SubSeq(q, 1, n)) <= cap}
      n == Max(fit)
  IN /\ Tries("read") /\ inst[i].open /\ fit # {}
     /\ inst' = [inst EXCEPT ![i] = [@ EXCEPT !.queue = SubSeq(@, n + 1, Len(@)), !.seen = @ \o SubSeq(q, 1, n)]]
     /\ UNCHANGED <<tree, counted, cookie, calls, opened>>

NoteNext ==
  \/ \E t \in NoteThreads :
       \/ \E p \in noteCase.paths : vfs_parent(t, "create", p, p) \/ vfs_parent(t, "unlink", p, p) \/ \E q \in noteCase.paths : vfs_parent(t, "rename", p, q)
       \/ vfs_parent_new(t) \/ NoteCreate(t) \/ NoteUnlink(t) \/ vfs_rename(t)
  \/ \E p \in Paths : NoteOpen(p)
  \/ \E f \in opened : NoteWrite(f) \/ NoteClose(f)
  \/ \E i \in Instances :
       \/ sys_inotify_init1(i) \/ inotify_close(i)
       \/ \E p \in Paths : vfs_path_type(i, p)
       \/ \E mask \in noteCase.masks : sys_inotify_add_watch(i, mask)
       \/ \E n \in 1..Len(inst[i].watches) : sys_inotify_rm_watch(i, n)
       \/ \E cap \in {2, QueueSlots} : inotify_read(i, cap)

-----------------------------------------------------------------------------
(* The queue never outgrows its buffer, and the number of watches, which     *)
(* inotify_active reads without the lock, is exact.                          *)
NoteTypeOK ==
  /\ \A i \in Instances : Used(inst[i].queue) <= QueueSlots
  /\ counted = FoldLeft(LAMBDA n, i : n + Len(inst[i].watches), 0, SetToSeq(Instances))

(* A watch stays with its object through renames of it and of the directory  *)
(* it is in, also while other calls wait between their lookups and their      *)
(* changes, never goes over to another one, and ends with it.  Excepted is an *)
(* instance whose watch was added to a path gone by then, or that was told of *)
(* a change under a path from which the directory was moved meanwhile.        *)
WatchFollows ==
  \A i \in Instances : ~inst[i].raced =>
    \A n \in DOMAIN inst[i].watches : Exists(inst[i].watches[n].path) /\ tree[inst[i].watches[n].path] = inst[i].watches[n].obj

(* What was read and what is queued is what happened to the watched objects, *)
(* in order: an event is missing only if the one before it is the same, or   *)
(* where an overflow record says so.  Excepted are the instances above, and  *)
(* those told of a file under a name it had only when it was opened, or of   *)
(* what was renamed to itself.                                               *)
Explained(s, g) ==
  LET E[i \in 1..(Len(s) + 1), j \in 1..(Len(g) + 1)] ==
        \/ i > Len(s) /\ j > Len(g)
        \/ i <= Len(s) /\ j <= Len(g) /\ s[i] = g[j] /\ E[i + 1, j + 1]
        \/ i <= Len(s) /\ j > 1 /\ g[j - 1] = s[i] /\ E[i + 1, j]
        \/ j <= Len(g) /\ g[j] = Overflow /\ \E x \in (i + 1)..(Len(s) + 1) : E[x, j + 1]
        \/ i <= Len(s) /\ j > 1 /\ g[j - 1] = Overflow /\ E[i + 1, j]
  IN E[1, 1]
EventsTold == \A i \in Instances : inst[i].raced \/ inst[i].misnamed \/ Explained(inst[i].sent, inst[i].seen \o inst[i].queue)
=============================================================================

-------------------------------- MODULE Files --------------------------------
(* Open files, descriptor tables and the system calls that move references   *)
(* between them: open, close, dup, pipe, close_range, fork, thread creation, *)
(* exec and exit, with the socket calls that pin a file instead of holding   *)
(* the kernel lock.  A step ends where a call may sleep or where another CPU *)
(* can come between: a table slot is cleared before the reference is put.    *)
EXTENDS Integers, FiniteSets, FiniteSetsExt

CONSTANTS
  Threads, FileIds, TableIds,
  Fds,           \* descriptors of a table (PROC_MAX_FILE_DESCRIPTORS)
  MaxFileCalls   \* bound: calls of one behaviour

VARIABLES
  ofile,     \* file -> [state, refs, incarnation]; state free, open or closing
  tables,    \* table -> [refs, file, cloexec]; refs 0 is unused
  thr,       \* thread -> what it is doing
  path,      \* the one path name: whether it exists, and which file it names
  winners,   \* ghost: successful exclusive creations
  fileCalls
filesVars == <<ofile, tables, thr, path, winners, fileCalls>>

NoFile == "nofile"
Empty == [fd \in Fds |-> NoFile]
NoTable == [refs |-> 0, file |-> Empty, cloexec |-> [fd \in Fds |-> FALSE]]
FreeFile == [state |-> "free", refs |-> 0, inc |-> 0]
Idle(t) == [table |-> thr[t].table, step |-> "idle", f |-> NoFile, alone |-> FALSE,
            created |-> FALSE, excl |-> FALSE]
NoThread == [table |-> "none", step |-> "gone", f |-> NoFile, alone |-> FALSE,
             created |-> FALSE, excl |-> FALSE]

FilesInit ==
  /\ ofile = [f \in FileIds |-> FreeFile]
  /\ \E t \in Threads, b \in TableIds :
       /\ t = CHOOSE x \in Threads : TRUE
       /\ b = CHOOSE x \in TableIds : TRUE
       /\ tables = [x \in TableIds |-> IF x = b THEN [NoTable EXCEPT !.refs = 1] ELSE NoTable]
       /\ thr = [x \in Threads |-> IF x = t THEN [NoThread EXCEPT !.table = b, !.step = "idle"] ELSE NoThread]
  /\ path = [exists |-> FALSE, inc |-> 0]
  /\ winners = {}
  /\ fileCalls = 0

FileCall(t) == thr[t].step = "idle" /\ fileCalls < MaxFileCalls /\ fileCalls' = fileCalls + 1
Table(t) == tables[thr[t].table]
Held(f) == {<<b, fd>> \in TableIds \X Fds : tables[b].refs > 0 /\ tables[b].file[fd] = f}

(* vfs_file_put: the last reference begins the release, during which the     *)
(* file system may sleep; the slot of the global table is cleared at its end.*)
vfs_file_put(fs, f) ==
  [fs EXCEPT ![f].refs = @ - 1, ![f].state = IF fs[f].refs = 1 THEN "closing" ELSE @]
PutAll(fs, count) ==
  [f \in FileIds |-> [fs[f] EXCEPT !.refs = @ - count[f],
     !.state = IF count[f] > 0 /\ fs[f].refs = count[f] THEN "closing" ELSE @]]
vfs_file_release(f) ==
  /\ ofile[f].state = "closing"
  /\ ofile' = [ofile EXCEPT ![f] = FreeFile]
  /\ UNCHANGED <<tables, thr, path, winners, fileCalls>>

(* vfs_install *)
NewFiles(n) == {s \in SUBSET {f \in FileIds : ofile[f].state = "free"} : Cardinality(s) = n}
Made(f, inc) == [ofile EXCEPT ![f] = [state |-> "open", refs |-> 1, inc |-> inc]]

LowestFree(tb) == {fd \in Fds : tb.file[fd] = NoFile /\ \A g \in Fds : g < fd => tb.file[g] # NoFile}
fd_install_from(tb, fd, f, cloexec) == [tb EXCEPT !.file[fd] = f, !.cloexec[fd] = cloexec]

-----------------------------------------------------------------------------
(* sys_openat: open, perhaps create and open again, then take a descriptor.  *)

OpenPath(t, created, excl) ==
  \/ /\ path.exists
     /\ \E s \in NewFiles(1) : \E f \in s :
          /\ ofile' = Made(f, path.inc)
          /\ thr' = [thr EXCEPT ![t].step = "opened", ![t].f = f, ![t].created = created, ![t].excl = excl]
  \/ /\ path.exists /\ NewFiles(1) = {}
     /\ thr' = [thr EXCEPT ![t] = Idle(t)]
     /\ UNCHANGED ofile

sys_openat(t, creat, excl) ==
  /\ FileCall(t)
  /\ \/ OpenPath(t, FALSE, excl)
     \/ /\ ~path.exists /\ creat
        /\ thr' = [thr EXCEPT ![t].step = "create", ![t].excl = excl]
        /\ UNCHANGED ofile
  /\ UNCHANGED <<tables, path, winners>>

vfs_create(t) ==
  /\ thr[t].step = "create"
  /\ path' = IF path.exists THEN path ELSE [exists |-> TRUE, inc |-> path.inc + 1]
  /\ thr' = [thr EXCEPT ![t].step = "reopen", ![t].created = ~path.exists]
  /\ UNCHANGED <<ofile, tables, winners, fileCalls>>

Reopen(t) ==
  /\ thr[t].step = "reopen"
  /\ \/ OpenPath(t, thr[t].created, thr[t].excl)
     \/ ~path.exists /\ thr' = [thr EXCEPT ![t] = Idle(t)] /\ UNCHANGED ofile
  /\ UNCHANGED <<tables, path, winners, fileCalls>>

(* The descriptor, or EEXIST or EMFILE and the file is closed again.  A call *)
(* that only looks at the file (stat, chdir, truncate) closes it in any case.*)
OpenDone(t, cloexec) ==
  LET refused == thr[t].excl /\ ~thr[t].created
      free == LowestFree(Table(t))
  IN /\ thr[t].step = "opened"
     /\ IF refused \/ free = {}
          THEN ofile' = vfs_file_put(ofile, thr[t].f) /\ UNCHANGED <<tables, winners>>
          ELSE /\ \E fd \in free : tables' = [tables EXCEPT ![thr[t].table] = fd_install_from(@, fd, thr[t].f, cloexec)]
               /\ winners' = IF thr[t].excl THEN winners \cup {t} ELSE winners
               /\ UNCHANGED ofile
     /\ thr' = [thr EXCEPT ![t] = Idle(t)]
     /\ UNCHANGED <<path, fileCalls>>

path_lookup(t) ==
  /\ thr[t].step = "opened"
  /\ ofile' = vfs_file_put(ofile, thr[t].f)
  /\ thr' = [thr EXCEPT ![t] = Idle(t)]
  /\ UNCHANGED <<tables, path, winners, fileCalls>>

vfs_unlink(t) ==
  /\ FileCall(t) /\ path.exists
  /\ path' = [path EXCEPT !.exists = FALSE]
  /\ UNCHANGED <<ofile, tables, thr, winners>>

-----------------------------------------------------------------------------
(* Descriptors *)

(* fd_close: the slot is cleared under the table's lock, the reference is    *)
(* put afterwards.                                                           *)
fd_close(t, fd) ==
  /\ FileCall(t) /\ Table(t).file[fd] # NoFile
  /\ tables' = [tables EXCEPT ![thr[t].table].file[fd] = NoFile, ![thr[t].table].cloexec[fd] = FALSE]
  /\ thr' = [thr EXCEPT ![t].step = "putting", ![t].f = Table(t).file[fd]]
  /\ UNCHANGED <<ofile, path, winners>>
Put(t) ==
  /\ thr[t].step \in {"putting", "pinned"}
  /\ ofile' = vfs_file_put(ofile, thr[t].f)
  /\ thr' = [thr EXCEPT ![t] = Idle(t)]
  /\ UNCHANGED <<tables, path, winners, fileCalls>>

(* Faulty variant: the call takes no reference. *)
PinWithoutRef(t, fd) ==
  /\ FileCall(t) /\ Table(t).file[fd] # NoFile
  /\ thr' = [thr EXCEPT ![t].step = "using", ![t].f = Table(t).file[fd], ![t].alone = TRUE]
  /\ UNCHANGED <<ofile, tables, path, winners>>
(* The socket calls: a reference for the time of the call. *)
fd_pin(t, fd) ==
  /\ FileCall(t) /\ Table(t).file[fd] # NoFile
  /\ ofile' = [ofile EXCEPT ![Table(t).file[fd]].refs = @ + 1]
  /\ thr' = [thr EXCEPT ![t].step = "pinned", ![t].f = Table(t).file[fd]]
  /\ UNCHANGED <<tables, path, winners>>

(* read and write of other files hold no reference while they sleep. *)
sys_read(t, fd) ==
  /\ FileCall(t) /\ Table(t).file[fd] # NoFile
  /\ thr' = [thr EXCEPT ![t].step = "using", ![t].f = Table(t).file[fd], ![t].alone = Table(t).refs = 1]
  /\ UNCHANGED <<ofile, tables, path, winners>>
ReadDone(t) ==
  /\ thr[t].step = "using"
  /\ thr' = [thr EXCEPT ![t] = Idle(t)]
  /\ UNCHANGED <<ofile, tables, path, winners, fileCalls>>

dup_from(t, fd, cloexec) ==
  /\ FileCall(t) /\ Table(t).file[fd] # NoFile
  /\ \/ LowestFree(Table(t)) = {} /\ UNCHANGED <<ofile, tables>>
     \/ \E nfd \in LowestFree(Table(t)) :
          /\ ofile' = [ofile EXCEPT ![Table(t).file[fd]].refs = @ + 1]
          /\ tables' = [tables EXCEPT ![thr[t].table] = fd_install_from(@, nfd, Table(t).file[fd], cloexec)]
  /\ UNCHANGED <<thr, path, winners>>

sys_dup3(t, old, new, cloexec) ==
  LET f == Table(t).file[old]
      g == Table(t).file[new]
  IN /\ FileCall(t) /\ old # new /\ f # NoFile
     /\ ofile' = IF g = NoFile THEN [ofile EXCEPT ![f].refs = @ + 1]
                 ELSE vfs_file_put([ofile EXCEPT ![f].refs = @ + 1], g)
     /\ tables' = [tables EXCEPT ![thr[t].table] = fd_install_from(@, new, f, cloexec)]
     /\ UNCHANGED <<thr, path, winners>>

(* sys_pipe2: two files; one that finds no descriptor undoes both. *)
sys_pipe2(t, cloexec) ==
  /\ FileCall(t)
  /\ \E s \in NewFiles(2) : \E rd \in s : \E wr \in s \ {rd} :
       LET fresh == [f \in FileIds |-> IF f \in s THEN [state |-> "open", refs |-> 1, inc |-> 0] ELSE ofile[f]]
           slots == {fd \in Fds : Table(t).file[fd] = NoFile}
       IN IF Cardinality(slots) < 2
            THEN ofile' = [f \in FileIds |-> IF f \in s THEN [fresh[f] EXCEPT !.refs = 0, !.state = "closing"] ELSE fresh[f]]
                 /\ UNCHANGED tables
            ELSE \E a \in slots, b \in slots :
                   /\ a < b /\ \A x \in slots : x \in {a, b} \/ x > b
                   /\ ofile' = fresh
                   /\ tables' = [tables EXCEPT ![thr[t].table] =
                        fd_install_from(fd_install_from(@, a, rd, cloexec), b, wr, cloexec)]
  /\ UNCHANGED <<thr, path, winners>>

fd_set_cloexec(t, fd, on) ==
  /\ FileCall(t) /\ Table(t).file[fd] # NoFile /\ Table(t).cloexec[fd] # on
  /\ tables' = [tables EXCEPT ![thr[t].table].cloexec[fd] = on]
  /\ UNCHANGED <<ofile, thr, path, winners>>

-----------------------------------------------------------------------------
(* Tables *)

Count(tb, fds) == [f \in FileIds |-> Cardinality({fd \in fds : tb.file[fd] = f})]
files_clone(fs, tb) == [f \in FileIds |-> [fs[f] EXCEPT !.refs = @ + Count(tb, Fds)[f]]]
UnusedTables == {b \in TableIds : tables[b].refs = 0}

(* files_release: the last user closes every file of the table. *)
ReleasedTables(b) == [tables EXCEPT ![b] = IF @.refs = 1 THEN NoTable ELSE [@ EXCEPT !.refs = @ - 1]]
files_release(fs, b) == IF tables[b].refs = 1 THEN PutAll(fs, Count(tables[b], Fds)) ELSE fs

(* clone: a thread shares the table, a new process gets a copy. *)
process_clone(t, share) ==
  \E u \in {u \in Threads : thr[u].step = "gone"}, b \in UnusedTables :
    /\ FileCall(t)
    /\ IF share THEN tables' = [tables EXCEPT ![thr[t].table].refs = @ + 1] /\ UNCHANGED ofile
       ELSE /\ tables' = [tables EXCEPT ![b] = [Table(t) EXCEPT !.refs = 1]]
            /\ ofile' = files_clone(ofile, Table(t))
    /\ thr' = [thr EXCEPT ![u] = [NoThread EXCEPT !.step = "idle", !.table = IF share THEN thr[t].table ELSE b]]
    /\ UNCHANGED <<path, winners>>

process_exit(t) ==
  /\ thr[t].step = "idle"
  /\ tables' = ReleasedTables(thr[t].table)
  /\ ofile' = files_release(ofile, thr[t].table)
  /\ thr' = [thr EXCEPT ![t] = NoThread]
  /\ UNCHANGED <<path, winners, fileCalls>>

(* The table of t alone from now on, and the descriptors fds closed in it. *)
Unshared(t, b) ==
  IF Table(t).refs > 1 THEN [fs |-> files_clone(ofile, Table(t)), b |-> b,
                             tbs |-> [tables EXCEPT ![thr[t].table].refs = @ - 1, ![b] = [Table(t) EXCEPT !.refs = 1]]]
  ELSE [fs |-> ofile, b |-> thr[t].table, tbs |-> tables]
Own(t) == [fs |-> ofile, b |-> thr[t].table, tbs |-> tables]
CloseIn(own, fds) ==
  /\ ofile' = PutAll(own.fs, Count(own.tbs[own.b], fds))
  /\ tables' = [own.tbs EXCEPT ![own.b] =
       [@ EXCEPT !.file = [fd \in Fds |-> IF fd \in fds THEN NoFile ELSE @[fd]],
                 !.cloexec = [fd \in Fds |-> IF fd \in fds THEN FALSE ELSE @[fd]]]]

process_exec(t) ==
  \E b \in UnusedTables \cup {thr[t].table} :
    /\ FileCall(t) /\ (Table(t).refs > 1) = (b # thr[t].table)
    /\ \E own \in {Unshared(t, b)} :
         /\ CloseIn(own, {fd \in Fds : own.tbs[own.b].cloexec[fd]})
         /\ thr' = [thr EXCEPT ![t].table = own.b]
    /\ UNCHANGED <<path, winners>>

sys_close_range(t, first, last, unshare, cloexec) ==
  \E b \in UnusedTables \cup {thr[t].table} :
    /\ FileCall(t) /\ first <= last
    /\ (unshare /\ Table(t).refs > 1) = (b # thr[t].table)
    /\ \E own \in {IF unshare THEN Unshared(t, b) ELSE Own(t)} :
         /\ IF cloexec
              THEN /\ ofile' = own.fs
                   /\ tables' = [own.tbs EXCEPT ![own.b].cloexec =
                        [fd \in Fds |-> @[fd] \/ (fd \in first .. last /\ own.tbs[own.b].file[fd] # NoFile)]]
              ELSE CloseIn(own, {fd \in first .. last : own.tbs[own.b].file[fd] # NoFile})
         /\ thr' = [thr EXCEPT ![t].table = own.b]
    /\ UNCHANGED <<path, winners>>

FilesNext ==
  \/ \E f \in FileIds : vfs_file_release(f)
  \/ \E t \in Threads :
       \/ \E creat, excl \in BOOLEAN : (excl => creat) /\ sys_openat(t, creat, excl)
       \/ vfs_create(t) \/ Reopen(t) \/ path_lookup(t) \/ vfs_unlink(t) \/ Put(t) \/ ReadDone(t)
       \/ process_exec(t) \/ process_exit(t)
       \/ \E on \in BOOLEAN : OpenDone(t, on) \/ sys_pipe2(t, on) \/ process_clone(t, on)
       \/ \E fd \in Fds, on \in BOOLEAN :
            \/ fd_close(t, fd) \/ fd_pin(t, fd) \/ sys_read(t, fd)
            \/ dup_from(t, fd, on) \/ fd_set_cloexec(t, fd, on)
            \/ \E other \in Fds : \/ sys_dup3(t, fd, other, on)
                                  \/ \E unshare \in BOOLEAN : sys_close_range(t, fd, other, unshare, on)

-----------------------------------------------------------------------------
(* Properties *)

Live(f) == ofile[f].state = "open"
FilesTypeOK ==
  /\ \A f \in FileIds : /\ ofile[f].state \in {"free", "open", "closing"}
                        /\ ofile[f].refs \in Nat
                        /\ Live(f) = (ofile[f].refs > 0)
  /\ \A b \in TableIds : tables[b].refs \in 0 .. Cardinality(Threads)

(* The count of an open file is exact: the table slots that name it, the     *)
(* calls that pinned it, the opens that have no descriptor yet and the       *)
(* closes under way (vfs_file_put, dup_from, files_clone, files_release).    *)
FileRefsExact ==
  \A f \in FileIds : ofile[f].refs =
    Cardinality(Held(f))
      + Cardinality({t \in Threads : thr[t].f = f /\ thr[t].step \in {"pinned", "opened", "putting"}})

(* A table's count is the number of threads that use it.                     *)
TableRefsExact == \A b \in TableIds : tables[b].refs = Cardinality({t \in Threads : thr[t].table = b})

(* A call that sleeps without a reference keeps its file as long as no other *)
(* thread shares the table: only a thread of the same process can close a    *)
(* file under a sleeping read or write.                                      *)
AloneFileLives == \A t \in Threads : thr[t].step = "using" /\ thr[t].alone => Live(thr[t].f)

(* Of the calls that create a path exclusively one at most succeeds, unless  *)
(* the path was removed in between (sys_openat creates and opens in steps).  *)
ExclusiveOnce == path.exists /\ path.inc = 1 => Cardinality(winners) <= 1

(* exec leaves no close-on-exec descriptor to the new program and closes no  *)
(* descriptor of a process that shared the table (process_exec unshares).    *)
ExecKeepsOthers ==
  [][\A t \in Threads : process_exec(t) =>
       /\ ~\E fd \in Fds : tables'[thr'[t].table].cloexec[fd]
       /\ \A u \in Threads \ {t} : thr[u].step # "gone" => tables'[thr[u].table].file = tables[thr[u].table].file]_filesVars
=============================================================================

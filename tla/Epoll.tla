-------------------------------- MODULE Epoll --------------------------------
(* The interest lists of epoll (sys_epoll.c): entries name a descriptor and  *)
(* the file it stood for, files may themselves be epoll files, waiting       *)
(* threads collect under the list's lock and take the kernel lock only when  *)
(* a list has files that need it, and other threads close, duplicate and     *)
(* change all of it meanwhile.  How a waiting thread sleeps is in Poll.      *)
EXTENDS Integers, Sequences, FiniteSets, SequencesExt

CONSTANTS
  EFds, EFiles, EThreads, \* descriptors (1..n) and files (1..n) of one process
  EPOLL_MAX_DEPTH,
  EpollCases              \* calls, flags and the maxevents of waits

VARIABLES
  efd,      \* descriptor -> file or 0
  efiles,   \* file -> kind, references, ready
  lists,    \* file -> interest list and number of entries that need the kernel lock
  ethreads, \* thread -> its call and the locks it holds
  revived,  \* a stale entry came to stand for an open file again
  epollCase
epVars == <<efd, efiles, lists, ethreads, revived, epollCase>>

NoEpFile == [kind |-> "none", refs |-> 0, ready |-> FALSE]
NoList == [entries |-> <<>>, unsafe |-> 0]
Away == [at |-> "user", ep |-> 0, fd |-> 0, held |-> {}, op |-> "none", flags |-> {}]
KernelLock == 0

(* Files epollCase.open are open already. *)
EpInit(cases) ==
  /\ epollCase \in cases
  /\ efd = [d \in EFds |-> IF d \in DOMAIN epollCase.open THEN d ELSE 0]
  /\ efiles = [f \in EFiles |-> IF f \in DOMAIN epollCase.open THEN [NoEpFile EXCEPT !.kind = epollCase.open[f], !.refs = 1] ELSE NoEpFile]
  /\ lists = [f \in EFiles |-> NoList]
  /\ ethreads = [t \in EThreads |-> Away] /\ revived = FALSE

EpStep(op) == op \in DOMAIN epollCase.left /\ epollCase.left[op] > 0 /\ epollCase' = [epollCase EXCEPT !.left[op] = @ - 1]
LockHeld(lock) == \E t \in EThreads : lock \in ethreads[t].held
Locked(t) == {l \in EFiles : \E u \in EThreads : l \in ethreads[u].held}
InKernel(t) == ethreads[t] = Away /\ ~LockHeld(KernelLock)

epoll_of(f) == efiles[f].kind = "epoll"
Valid(e) == efd[e.fd] = e.file
file_poll_mpsafe(f) == efiles[f].kind = "event"
epoll_find(ep, fd, f) == {i \in DOMAIN lists[ep].entries : lists[ep].entries[i].fd = fd /\ lists[ep].entries[i].file = f}

(* A last reference frees the file; an epoll file's list goes with it. *)
Unpinned(files, f) == IF files[f].refs = 1 THEN [files EXCEPT ![f] = NoEpFile] ELSE [files EXCEPT ![f].refs = @ - 1]
ListsOf(files, ls) == [f \in EFiles |-> IF files[f].kind = "none" THEN NoList ELSE ls[f]]

-----------------------------------------------------------------------------
(* Descriptors *)

Lowest(S) == CHOOSE x \in S : \A y \in S : x <= y
StaleEntries(table) == {<<f, i>> \in UNION {{<<f, i>> : i \in DOMAIN lists[f].entries} : f \in EFiles} : table[lists[f].entries[i].fd] # lists[f].entries[i].file}
Revives(table) == revived \/ ~(StaleEntries(efd) \subseteq StaleEntries(table))
anon_install(t, kind) ==
  /\ EpStep(kind) /\ InKernel(t)
  /\ \E f \in {f \in EFiles : efiles[f] = NoEpFile} : \E d \in {d \in EFds : efd[d] = 0} :
       /\ f = Lowest({g \in EFiles : efiles[g] = NoEpFile}) /\ d = Lowest({x \in EFds : efd[x] = 0})
       /\ efd' = [efd EXCEPT ![d] = f]
       /\ efiles' = [efiles EXCEPT ![f] = [NoEpFile EXCEPT !.kind = kind, !.refs = 1]]
       /\ revived' = Revives([efd EXCEPT ![d] = f])
  /\ UNCHANGED <<lists, ethreads>>
epoll_close(t, d) ==
  /\ EpStep("close") /\ InKernel(t) /\ efd[d] # 0
  /\ efd' = [efd EXCEPT ![d] = 0]
  /\ efiles' = Unpinned(efiles, efd[d]) /\ lists' = ListsOf(Unpinned(efiles, efd[d]), lists)
  /\ UNCHANGED <<ethreads, revived>>
(* The file that was open at the new descriptor is closed. *)
dup2(t, from, to) ==
  /\ EpStep("dup") /\ InKernel(t) /\ efd[from] # 0 /\ from # to
  /\ efd' = [efd EXCEPT ![to] = efd[from]]
  /\ \E added \in {[efiles EXCEPT ![efd[from]].refs = @ + 1]} :
       efiles' = IF efd[to] = 0 THEN added ELSE Unpinned(added, efd[to])
  /\ lists' = ListsOf(efiles', lists)
  /\ revived' = Revives([efd EXCEPT ![to] = efd[from]])
  /\ UNCHANGED ethreads
(* An event file or terminal becomes ready or is read until it is not.  rises *)
(* counts for an entry how often its file became ready (ghost).              *)
Rising(entries, f) == [i \in DOMAIN entries |-> IF entries[i].file = f /\ entries[i].rises < 2 THEN [entries[i] EXCEPT !.rises = @ + 1] ELSE entries[i]]
FileChanges(f) ==
  /\ EpStep("change") /\ efiles[f].kind \in {"event", "tty"}
  /\ efiles' = [efiles EXCEPT ![f].ready = ~@]
  /\ lists' = IF efiles[f].ready THEN lists ELSE [g \in EFiles |-> [lists[g] EXCEPT !.entries = Rising(lists[g].entries, f)]]
  /\ UNCHANGED <<efd, ethreads, revived>>

-----------------------------------------------------------------------------
(* Is an entry ready, and what would be reported for it: an edge-triggered   *)
(* entry only what was not reported yet.                                     *)
Disarmed(e) == ~e.disabled
Fresh(e, ready) == IF "et" \in e.flags THEN ready /\ ~e.reported ELSE ready
RECURSIVE entry_ready(_, _)
entry_ready(e, depth) ==
  IF epoll_of(e.file)
  THEN depth > 0 /\ \E i \in DOMAIN lists[e.file].entries :
         LET x == lists[e.file].entries[i] IN Valid(x) /\ Disarmed(x) /\ Fresh(x, entry_ready(x, depth - 1))
  ELSE efiles[e.file].ready
Depth == Cardinality(EFiles)

SetsReported(e, ready) == IF "et" \in e.flags THEN [e EXCEPT !.reported = ready] ELSE e
(* The list after entry n was looked at, and how many were reported. *)
Collected(e, ready) ==
  LET seen == SetsReported(e, ready)
  IN IF Fresh(e, ready) THEN [seen EXCEPT !.disabled = "oneshot" \in e.flags, !.shots = IF @ < 2 THEN @ + 1 ELSE @] ELSE seen
RECURSIVE epoll_collect_locked(_, _, _)
epoll_collect_locked(entries, n, max) ==
  IF entries = <<>> \/ n = max THEN entries
  ELSE LET e == Head(entries)  ready == Valid(e) /\ entry_ready(e, Depth)
       IN IF ~Valid(e) THEN epoll_collect_locked(Tail(entries), n, max)
          ELSE IF ~Disarmed(e) THEN <<e>> \o epoll_collect_locked(Tail(entries), n, max)
          ELSE <<Collected(e, ready)>> \o epoll_collect_locked(Tail(entries), IF Fresh(e, ready) THEN n + 1 ELSE n, max)
Unsafe(entries) == Len(SelectSeq(entries, LAMBDA e : e.unsafe))

(* The locks of the lists inside f, and f's. *)
RECURSIVE Inside(_, _)
Inside(f, depth) ==
  IF ~epoll_of(f) \/ depth = 0 THEN {}
  ELSE {f} \cup UNION {Inside(e.file, depth - 1) : e \in {x \in Range(lists[f].entries) : Valid(x)}}
Nested(ep) == UNION {Inside(e.file, Depth) : e \in {x \in Range(lists[ep].entries) : Valid(x)}}

-----------------------------------------------------------------------------
(* epoll_wait: enter, then for a list with files that need it the kernel     *)
(* lock and the list's lock again, then collect.                             *)
Pinned(files, f) == [files EXCEPT ![f].refs = @ + 1]
sys_epoll_pwait(t, d) ==
  /\ EpStep("wait") /\ ethreads[t] = Away /\ efd[d] # 0 /\ epoll_of(efd[d])
  /\ efiles' = Pinned(efiles, efd[d])
  /\ ethreads' = [ethreads EXCEPT ![t] = [Away EXCEPT !.at = "enter", !.ep = efd[d]]]
  /\ UNCHANGED <<efd, lists, revived>>
Move(t, at, held) == ethreads' = [ethreads EXCEPT ![t].at = at, ![t].held = held] /\ UNCHANGED <<efd, efiles, lists, revived, epollCase>>
epoll_collect(t) ==
  LET ep == ethreads[t].ep
  IN \/ /\ ethreads[t].at = "enter" /\ ~LockHeld(ep)
        /\ IF lists[ep].unsafe > 0 THEN Move(t, "kernel", {}) ELSE Move(t, "collect", {ep})
     \/ ethreads[t].at = "kernel" /\ ~LockHeld(KernelLock) /\ Move(t, "again", {KernelLock})
     \/ ethreads[t].at = "again" /\ ~LockHeld(ep) /\ Move(t, "collect", {KernelLock, ep})
epoll_scan(t) ==
  LET ep == ethreads[t].ep
  IN /\ ethreads[t].at = "collect" /\ Nested(ep) \cap Locked(t) = {}
     /\ \E new \in {epoll_collect_locked(lists[ep].entries, 0, epollCase.max)} :
          /\ efiles' = IF efiles[ep] = NoEpFile THEN efiles ELSE Unpinned(efiles, ep)
          /\ lists' = ListsOf(efiles', [lists EXCEPT ![ep] = [entries |-> new, unsafe |-> Unsafe(new)]])
     /\ ethreads' = [ethreads EXCEPT ![t] = Away] /\ UNCHANGED <<efd, revived, epollCase>>

(* epoll_ctl holds the kernel lock, takes the list's lock, and for a nested  *)
(* epoll file those of the lists inside it.                                  *)
CtlStarts(t) ==
  /\ EpStep("ctl") /\ InKernel(t)
  /\ \E d \in EFds, x \in EFds, op \in {"add", "mod", "del"}, flags \in epollCase.flags :
       /\ efd[d] # 0 /\ epoll_of(efd[d]) /\ d # x /\ efd[x] # 0 /\ (op = "del" => flags = {})
       /\ ethreads' = [ethreads EXCEPT ![t] = [at |-> "ctl", ep |-> efd[d], fd |-> x, held |-> {KernelLock}, op |-> op, flags |-> flags]]
  /\ UNCHANGED <<efd, efiles, lists, revived>>
CtlLocks(t) == ethreads[t].at = "ctl" /\ ~LockHeld(ethreads[t].ep) /\ Move(t, "change", {KernelLock, ethreads[t].ep})

(* Faulty variant: only an epoll that watches itself counts as a loop. *)
DirectOnly(ep, target, depth) == target = ep
RECURSIVE epoll_loops(_, _, _)
epoll_loops(ep, target, depth) ==
  \/ target = ep \/ depth >= EPOLL_MAX_DEPTH
  \/ \E e \in Range(lists[target].entries) : Valid(e) /\ epoll_of(e.file) /\ epoll_loops(ep, e.file, depth + 1)
Entry(fd, f, flags) == [fd |-> fd, file |-> f, flags |-> flags, reported |-> FALSE, disabled |-> FALSE, unsafe |-> ~file_poll_mpsafe(f),
                        shots |-> 0, rises |-> IF efiles[f].ready THEN 1 ELSE 0]
Changed(l, op, fd, f, flags, found) ==
  CASE op = "add" /\ found = {} -> Append(l, Entry(fd, f, flags))
    [] op = "mod" /\ found # {} /\ \A i \in found : "exclusive" \notin flags \cup l[i].flags ->
         [i \in DOMAIN l |-> IF i \in found THEN Entry(fd, f, flags) ELSE l[i]]
    [] op = "del" /\ found # {} -> RemoveAt(l, CHOOSE i \in found : TRUE)
    [] OTHER -> l
sys_epoll_ctl(t) ==
  LET c == ethreads[t]  f == efd[c.fd]  l == lists[c.ep].entries  inner == c.op = "add" /\ epoll_of(f)
  IN /\ c.at = "change" /\ (inner => (Inside(f, Depth) \ {c.ep}) \cap Locked(t) = {})
     /\ \E new \in {IF inner /\ epoll_loops(c.ep, f, 0) THEN l ELSE Changed(l, c.op, c.fd, f, c.flags, epoll_find(c.ep, c.fd, f))} :
          lists' = [lists EXCEPT ![c.ep] = [entries |-> new, unsafe |-> Unsafe(new)]]
     /\ ethreads' = [ethreads EXCEPT ![t] = Away] /\ UNCHANGED <<efd, efiles, revived, epollCase>>

EpNext ==
  \/ \E t \in EThreads :
       \/ \E kind \in {"epoll", "event", "tty"} : anon_install(t, kind)
       \/ \E d \in EFds : epoll_close(t, d) \/ sys_epoll_pwait(t, d) \/ \E d2 \in EFds : dup2(t, d, d2)
       \/ epoll_collect(t) \/ epoll_scan(t) \/ CtlStarts(t) \/ CtlLocks(t) \/ sys_epoll_ctl(t)
  \/ \E f \in EFiles : FileChanges(f)

-----------------------------------------------------------------------------
Wants(t) ==
  LET c == ethreads[t]
  IN CASE c.at \in {"enter", "again", "ctl"} -> {c.ep}
       [] c.at = "kernel" -> {KernelLock}
       [] c.at = "collect" -> Nested(c.ep)
       [] c.at = "change" -> IF c.op = "add" THEN Inside(efd[c.fd], Depth) \ {c.ep} ELSE {}
       [] OTHER -> {}

(* No epoll file watches itself through others, however entries were added   *)
(* and descriptors closed and reused, so a poll of it ends.  An entry that   *)
(* went stale and came to stand for an open file again is excepted.          *)
EpollAcyclic == revived \/ \A f \in EFiles : epoll_of(f) => f \notin Nested(f)

(* Threads that collect, add and remove never wait for locks in a circle,    *)
(* nor for a lock they hold themselves (epoll_collect, epoll_loops).         *)
EpollNoDeadlock ==
  revived \/ \A t, u \in EThreads : ~(Wants(t) \cap ethreads[u].held # {} /\ Wants(u) \cap ethreads[t].held # {})

(* A file whose poll needs the kernel lock is only polled with it, although  *)
(* the list may have changed while the lock was waited for.                  *)
EpollKernelLocked ==
  \A t \in EThreads : ethreads[t].at = "collect" /\ KernelLock \notin ethreads[t].held =>
    \A e \in Range(lists[ethreads[t].ep].entries) : Valid(e) /\ ~revived => efiles[e.file].kind = "event"

(* The epoll file of a waiting thread stays, even if its last descriptor is  *)
(* closed while the thread waits for a lock.                                 *)
EpollPinned == \A t \in EThreads : ethreads[t].at \in {"enter", "kernel", "again", "collect"} => epoll_of(ethreads[t].ep)

(* An entry with EPOLLONESHOT is reported once until it is modified, one     *)
(* with EPOLLET at most as often as its file became ready.                   *)
EpollOnce ==
  \A f \in EFiles : \A e \in Range(lists[f].entries) :
    /\ ("oneshot" \in e.flags => e.shots <= 1)
    /\ ("et" \in e.flags /\ ~revived /\ efiles[e.file].kind \in {"event", "tty"} /\ Valid(e) => e.shots <= e.rises)
=============================================================================

------------------------------- MODULE Scheduler -------------------------------
(***************************************************************************)
(* The process scheduler of drivers/scheduler/process.c on a machine with  *)
(* several CPUs: the ready queue, the tree of sleeping processes and the   *)
(* list of zombies, the one sched_lock that is held ACROSS a context       *)
(* switch and released by whoever is switched to, the kernel lock that     *)
(* sched_switch drops while a process is off the CPU, clone / exit / wait4 *)
(* with reaping, and the inter-processor kicks that end a CPU's idling.    *)
(*                                                                         *)
(* A task is a process slot or a CPU's idle process; the idle process of   *)
(* CPU c is called c.  current[c] is per_cpu[c].current, stack[c] is the   *)
(* task on whose kernel stack the CPU executes: the two differ between     *)
(* schedule() and context_switch().  pc[t] is the place in the kernel      *)
(* where t executes, or will go on when it is switched to; ret[t] is the   *)
(* place a called routine returns to.                                      *)
(*                                                                         *)
(* Signals, timeouts and the poll sequence number are left to modules Poll *)
(* and Futex; here the answer of signal_wakes() is an input.  What exit    *)
(* does to timers, clear_child_tid, files and memory is left to Callout,   *)
(* Futex and Pipe.  process_create_kernel and process_spawn_shell start a  *)
(* process the way clone does and have no actions of their own; the net    *)
(* lock and the socket locks, which sched_switch drops in the same way as  *)
(* the kernel lock, are left out.                                          *)
(***************************************************************************)
EXTENDS Integers, Sequences, FiniteSets, TLC

CONSTANTS
    CPU,             \* the CPUs that are online
    Proc,            \* the slots of processes[], the idle ones left out
    NoCPU,           \* owner of a free lock
    NoProc,          \* the null process pointer
    Chan,            \* what system calls sleep on besides children
    POLL,            \* WAIT_CHANNEL_POLL
    MaxPid,          \* bound on next_pid
    IgnoresChildren  \* the pids for which parent_ignores_children() holds

ASSUME ConstantsAssumption ==
    /\ CPU # {} /\ CPU \cap Proc = {}
    /\ NoCPU \notin CPU /\ NoProc \notin (Proc \cup CPU)
    /\ (Chan \cup {POLL}) \cap Int = {}
    /\ MaxPid \in Nat \ {0}
    /\ IgnoresChildren \subseteq 1 .. MaxPid

Task == Proc \cup CPU

\* WAIT_CHANNEL_CHILD | tgid is written tgid; 0 is the wait_id of a new slot.
WaitId == Chan \cup {POLL} \cup 0 .. MaxPid

SlotState == {"UNUSED", "INIT", "READY", "RUNNING", "SLEEPING", "KILLED"}

\* The places in the kernel a task can be at.
Label == {"user", "sys", "sysret", "irqret",
          "schedule", "switch", "resume", "relock", "reap",
          "wakeup", "kick", "clone", "clone2",
          "exit", "sigchld", "chldwake", "exit2", "exit3", "dead",
          "wait4", "wait4r"}

VARIABLES
    state, ready, waiting, killed, wait_id,     \* the slots and the queues
    current, stack,                             \* per CPU
    sched_lock, kernel_lock,                    \* owner or NoCPU
    pid, tgid, ppid, detached, next_pid,        \* the process family
    kick_pending, ipi,                          \* per CPU
    seen, sending,                              \* whom a CPU found idle, and will interrupt
    pc, ret, had, loc                           \* per task

queues == <<state, ready, waiting, killed, wait_id>>
family == <<pid, tgid, ppid, detached, next_pid>>
kicks  == <<kick_pending, ipi, seen, sending>>
vars   == <<queues, current, stack, sched_lock, kernel_lock, family, kicks,
            pc, ret, had, loc>>

\* The local variables of the routine a task executes: the wait id and the
\* count of process_wakeup_n, the CPUs kick_idle_cpus has not looked at, the
\* pid wait4 was asked for and the slot clone is filling.
NoLoc == [id |-> 0, left |-> 0, woken |-> 0, todo |-> {}, want |-> 0, child |-> NoProc]

\* The boot CPU has taken the shell at its first timer tick; the others idle.
Init ==
    \E shell \in Proc, boot \in CPU :
        /\ state = [t \in Task |-> IF t = shell \/ t \in CPU \ {boot} THEN "RUNNING"
                                   ELSE IF t = boot THEN "READY" ELSE "UNUSED"]
        /\ ready = <<>> /\ waiting = <<>> /\ killed = {}
        /\ wait_id = [p \in Proc |-> 0]
        /\ current = [c \in CPU |-> IF c = boot THEN shell ELSE c] /\ stack = current
        /\ sched_lock = NoCPU /\ kernel_lock = NoCPU
        /\ pid = [p \in Proc |-> IF p = shell THEN 1 ELSE 0]
        /\ tgid = pid /\ ppid = [p \in Proc |-> 0]
        /\ detached = [p \in Proc |-> FALSE] /\ next_pid = 2
        /\ kick_pending = [c \in CPU |-> FALSE] /\ ipi = [c \in CPU |-> FALSE]
        /\ seen = [c \in CPU |-> NoCPU] /\ sending = seen
        /\ pc = [t \in Task |-> IF t = boot THEN "resume" ELSE "user"]
        /\ ret = [t \in Task |-> "user"] /\ had = [t \in Task |-> FALSE]
        /\ loc = [t \in Task |-> NoLoc]

-------------------------------------------------------------------------------
(* Control *)

At(c, l) == pc[stack[c]] = l

Goto(c, l) == pc' = [pc EXCEPT ![stack[c]] = l]

\* The queue without its k-th element.
Without(s, k) == [i \in 1 .. Len(s) - 1 |-> IF i < k THEN s[i] ELSE s[i + 1]]

\* waiting_insert puts a process behind all others of its wait id, and
\* waiting_first finds the leftmost: per wait id the tree is a FIFO queue.
IsFirst(k, id) ==
    /\ k \in 1 .. Len(waiting) /\ wait_id[waiting[k]] = id
    /\ \A j \in 1 .. k - 1 : wait_id[waiting[j]] # id

NoneWaits(id) == \A k \in 1 .. Len(waiting) : wait_id[waiting[k]] # id

\* process_free: the stack is given back and the slot is zeroed.
process_free(p) ==
    /\ state' = [state EXCEPT ![p] = "UNUSED"]
    /\ pid' = [pid EXCEPT ![p] = 0] /\ tgid' = [tgid EXCEPT ![p] = 0]
    /\ ppid' = [ppid EXCEPT ![p] = 0] /\ detached' = [detached EXCEPT ![p] = FALSE]
    /\ wait_id' = [wait_id EXCEPT ![p] = 0]
    /\ UNCHANGED next_pid

\* Faulty variant: the woken process stays in the tree.
MakeReadyTwice(k) ==
    /\ waiting' = waiting
    /\ wait_id' = [wait_id EXCEPT ![waiting[k]] = 0]
    /\ state' = [state EXCEPT ![waiting[k]] = "READY"]
    /\ ready' = Append(ready, waiting[k])

\* The k-th sleeper becomes READY.  Its wait_id, which nothing reads until it
\* sleeps again, is forgotten.
MakeReady(k) ==
    /\ waiting' = Without(waiting, k)
    /\ wait_id' = [wait_id EXCEPT ![waiting[k]] = 0]
    /\ state' = [state EXCEPT ![waiting[k]] = "READY"]
    /\ ready' = Append(ready, waiting[k])

\* Faulty variant: sched_lock is released before the stacks are switched.
EnterSwitchUnlocked(c, r) ==
    /\ sched_lock' = NoCPU
    /\ had' = [had EXCEPT ![stack[c]] = kernel_lock = c]
    /\ kernel_lock' = IF kernel_lock = c THEN NoCPU ELSE kernel_lock
    /\ Goto(c, "schedule")
    /\ ret' = [ret EXCEPT ![stack[c]] = r]

\* Head of sched_switch: the locks are dropped, sched_lock stays held.
EnterSwitch(c, r) ==
    /\ sched_lock' = c
    /\ had' = [had EXCEPT ![stack[c]] = kernel_lock = c]
    /\ kernel_lock' = IF kernel_lock = c THEN NoCPU ELSE kernel_lock
    /\ Goto(c, "schedule")
    /\ ret' = [ret EXCEPT ![stack[c]] = r]

\* kick_idle_cpus(n), first half: an idle CPU in an interrupt handler counts
\* itself, for the end of its handler yields.
BeginKick(c, n, r) ==
    LET self == IF current[c] = c /\ r = "irqret" THEN 1 ELSE 0
    IN  /\ Goto(c, "kick")
        /\ ret' = [ret EXCEPT ![stack[c]] = r]
        /\ loc' = [loc EXCEPT ![stack[c]] =
                     [@ EXCEPT !.left = n - self, !.woken = 0, !.todo = CPU \ {c}]]

-------------------------------------------------------------------------------
(* The switch *)

\* Faulty variant: at the head of the queue.
RequeueFirst(c) == IF current[c] \in Proc THEN <<current[c]>> \o ready ELSE ready

\* The ready queue when the current process gives up its CPU.
Requeue(c) == IF current[c] \in Proc THEN Append(ready, current[c]) ELSE ready

process_yield(c) ==
    /\ sched_lock = NoCPU
    /\ kick_pending' = [kick_pending EXCEPT ![c] = FALSE]
    /\ \/ /\ ready = <<>>
          /\ Goto(c, "user")
          /\ UNCHANGED <<state, ready, sched_lock, kernel_lock, ret, had>>
       \/ /\ ready # <<>>
          /\ state' = [state EXCEPT ![current[c]] = "READY"]
          /\ ready' = Requeue(c)
          /\ EnterSwitch(c, "user")
    /\ UNCHANGED <<waiting, killed, wait_id, current, stack, family, seen, sending, loc>>

\* process_sleep, and sleep_interruptible where signal_wakes() is false.
process_sleep(c, id, r) ==
    /\ sched_lock = NoCPU
    /\ state' = [state EXCEPT ![current[c]] = "SLEEPING"]
    /\ wait_id' = [wait_id EXCEPT ![current[c]] = id]
    /\ waiting' = Append(waiting, current[c])
    /\ EnterSwitch(c, r)
    /\ UNCHANGED <<ready, killed, current, stack, family, kicks, loc>>

\* Faulty variant: the process picked stays queued.
DequeueNot(s) == s

\* The queue without its head, which schedule() picks.
Dequeue(s) == IF s = <<>> THEN s ELSE Tail(s)

\* kick_clear and the store of current are one step: a CPU that looks in between
\* sees what it would have seen before, and one that marks or sends in between
\* does what it would do after.
schedule(c) ==
    /\ At(c, "schedule")
    /\ kick_pending' = [kick_pending EXCEPT ![c] = FALSE]
    /\ LET next == IF ready = <<>> THEN c ELSE Head(ready)
       IN  /\ ready' = Dequeue(ready)
           /\ state' = [state EXCEPT ![next] = "RUNNING"]
           /\ current' = [current EXCEPT ![c] = next]
           /\ Goto(c, IF next = current[c] THEN "resume" ELSE "switch")
    /\ UNCHANGED <<waiting, killed, wait_id, stack, sched_lock, kernel_lock, family, ipi,
                   seen, sending, ret, had, loc>>

\* context_switch saves the place of prev and goes on at the place of next.
switch_process(c) ==
    /\ At(c, "switch")
    /\ Goto(c, "resume")
    /\ stack' = [stack EXCEPT ![c] = current[c]]
    /\ UNCHANGED <<queues, current, sched_lock, kernel_lock, family, kicks, ret, had, loc>>

\* The task switched to releases sched_lock: process_entry_unlock for a new
\* process, the tail of sched_switch for the others.
resume(c) ==
    /\ At(c, "resume")
    /\ sched_lock' = NoCPU
    /\ Goto(c, IF had[stack[c]] THEN "relock" ELSE ret[stack[c]])
    /\ UNCHANGED <<queues, current, stack, kernel_lock, family, kicks, ret, had, loc>>

relock(c) ==
    /\ At(c, "relock") /\ kernel_lock = NoCPU
    /\ kernel_lock' = c
    /\ Goto(c, "reap")
    /\ UNCHANGED <<queues, current, stack, sched_lock, family, kicks, ret, had, loc>>

reap_detached(c) ==
    /\ At(c, "reap")
    /\ \/ /\ killed # {} /\ sched_lock = NoCPU
          /\ \E victim \in killed :
                /\ detached[victim]
                /\ killed' = killed \ {victim}
                /\ process_free(victim)
          /\ UNCHANGED <<pc, ready, waiting>>
       \/ /\ killed = {} \/ sched_lock = NoCPU
          /\ \A victim \in killed : ~detached[victim]
          /\ Goto(c, ret[stack[c]])
          /\ UNCHANGED <<queues, family>>
    /\ UNCHANGED <<current, stack, sched_lock, kernel_lock, kicks, ret, had, loc>>

-------------------------------------------------------------------------------
(* Waking *)

\* process_wakeup_n(id, n), up to its loop; n < 0 wakes all.
process_wakeup_n(c, id, n, r) ==
    /\ sched_lock = NoCPU
    /\ sched_lock' = c
    /\ Goto(c, "wakeup")
    /\ ret' = [ret EXCEPT ![stack[c]] = r]
    /\ loc' = [loc EXCEPT ![stack[c]] = [@ EXCEPT !.id = id, !.left = n]]
    /\ UNCHANGED <<queues, current, stack, kernel_lock, family, kicks, had>>

\* One round of the loop, or the end of process_wakeup_n.
wakeup_loop(c) ==
    LET l == loc[stack[c]]
    IN  /\ At(c, "wakeup")
        /\ \/ /\ l.left # 0
              /\ \E k \in 1 .. Len(waiting) : IsFirst(k, l.id) /\ MakeReady(k)
              /\ loc' = [loc EXCEPT ![stack[c]] =
                           [@ EXCEPT !.woken = l.woken + 1,
                                     !.left = IF l.left > 0 THEN l.left - 1 ELSE l.left]]
              /\ UNCHANGED <<sched_lock, pc, ret>>
           \/ /\ l.left = 0 \/ NoneWaits(l.id)
              /\ sched_lock' = NoCPU
              /\ \/ /\ l.woken > 0
                    /\ BeginKick(c, l.woken, ret[stack[c]])
                 \/ /\ l.woken = 0
                    /\ Goto(c, ret[stack[c]])
                    /\ loc' = [loc EXCEPT ![stack[c]] = NoLoc]
                    /\ UNCHANGED ret
              /\ UNCHANGED <<state, ready, waiting, wait_id>>
        /\ UNCHANGED <<killed, current, stack, kernel_lock, family, kicks, had>>

\* process_wake(p) and process_interrupt(p): nothing unless p sleeps.
process_wake(c, p, r) ==
    /\ sched_lock = NoCPU
    /\ \/ /\ \E k \in 1 .. Len(waiting) : waiting[k] = p /\ MakeReady(k)
          /\ BeginKick(c, 1, r)
       \/ /\ state[p] # "SLEEPING"
          /\ Goto(c, r)
          /\ UNCHANGED <<state, ready, waiting, wait_id, ret, loc>>
    /\ UNCHANGED <<killed, current, stack, sched_lock, kernel_lock, family, kicks, had>>

\* Faulty variant: the interrupt is sent only to a CPU that is kicked already.
kick_marked_only(c, d) ==
    /\ kick_pending' = [kick_pending EXCEPT ![d] = TRUE]
    /\ sending' = [sending EXCEPT ![c] = IF kick_pending[d] THEN d ELSE NoCPU]

\* The exchange of kick_pending, which decides who sends the interrupt.
kick_mark(c, d) ==
    /\ kick_pending' = [kick_pending EXCEPT ![d] = TRUE]
    /\ sending' = [sending EXCEPT ![c] = IF kick_pending[d] THEN NoCPU ELSE d]

\* The loop of kick_idle_cpus: it looks at a CPU's current process, marks the
\* CPU and interrupts it, in steps of their own and without a lock.  Where it
\* starts is a race on kick_cursor, so the CPUs are looked at in any order.
kick_idle_cpus(c) ==
    LET l == loc[stack[c]]
    IN  /\ At(c, "kick")
        /\ \/ /\ seen[c] = NoCPU /\ sending[c] = NoCPU /\ l.left > 0
              /\ \E d \in l.todo :
                    /\ seen' = [seen EXCEPT ![c] = IF current[d] = d THEN d ELSE NoCPU]
                    /\ loc' = [loc EXCEPT ![stack[c]] = [@ EXCEPT !.todo = l.todo \ {d}]]
              /\ UNCHANGED <<kick_pending, ipi, sending, pc>>
           \/ /\ seen[c] # NoCPU /\ sending[c] = NoCPU
              /\ kick_mark(c, seen[c])
              /\ seen' = [seen EXCEPT ![c] = NoCPU]
              /\ loc' = [loc EXCEPT ![stack[c]] = [@ EXCEPT !.left = l.left - 1]]
              /\ UNCHANGED <<ipi, pc>>
           \/ /\ sending[c] # NoCPU
              /\ ipi' = [ipi EXCEPT ![sending[c]] = TRUE]
              /\ sending' = [sending EXCEPT ![c] = NoCPU]
              /\ UNCHANGED <<kick_pending, seen, pc, loc>>
           \/ /\ seen[c] = NoCPU /\ sending[c] = NoCPU
              /\ l.left <= 0 \/ l.todo = {}
              /\ loc' = [loc EXCEPT ![stack[c]] = NoLoc]
              /\ Goto(c, ret[stack[c]])
              /\ UNCHANGED kicks
        /\ UNCHANGED <<queues, current, stack, sched_lock, kernel_lock, family, ret, had>>

-------------------------------------------------------------------------------
(* Interrupts, taken in user mode or in the idle loop (trap_handler) *)

\* A timer interrupt, or sched_yield() called from user mode.
tick(c) == At(c, "user") /\ process_yield(c) /\ UNCHANGED ipi

\* RESCHED_VECTOR: only an idle CPU yields.
resched(c) ==
    /\ At(c, "user") /\ ipi[c]
    /\ ipi' = [ipi EXCEPT ![c] = FALSE]
    /\ \/ current[c] = c /\ process_yield(c)
       \/ /\ current[c] # c
          /\ UNCHANGED <<queues, current, stack, sched_lock, kernel_lock, family,
                         kick_pending, seen, sending, pc, ret, had, loc>>

\* A device or timer interrupt whose handler wakes a process.
irq_wake(c) ==
    /\ At(c, "user")
    /\ \E p \in Proc :
          /\ state[p] = "SLEEPING"
          /\ process_wake(c, p, IF current[c] = c THEN "irqret" ELSE "user")

\* The end of trap_handler after such an interrupt: an idle CPU yields.
irq_return(c) == At(c, "irqret") /\ process_yield(c) /\ UNCHANGED ipi

-------------------------------------------------------------------------------
(* System calls: one operation of the kernel each *)

handle_syscall(c) ==
    /\ At(c, "user") /\ current[c] \in Proc /\ kernel_lock = NoCPU
    /\ kernel_lock' = c
    /\ Goto(c, "sys")
    /\ UNCHANGED <<queues, current, stack, sched_lock, family, kicks, ret, had, loc>>

syscall_return(c) ==
    /\ At(c, "sysret")
    /\ kernel_lock' = NoCPU
    /\ Goto(c, "user")
    /\ loc' = [loc EXCEPT ![stack[c]] = NoLoc]
    /\ ret' = [ret EXCEPT ![stack[c]] = "user"]
    /\ had' = [had EXCEPT ![stack[c]] = FALSE]
    /\ UNCHANGED <<queues, current, stack, sched_lock, family, kicks>>

\* A call of runs_unlocked() that sleeps (epoll_wait, nanosleep).
sleep_unlocked(c) ==
    /\ At(c, "user") /\ current[c] \in Proc
    /\ \E id \in Chan : process_sleep(c, id, "user")

sys_sleep(c) == At(c, "sys") /\ \E id \in Chan : process_sleep(c, id, "sysret")

sys_wakeup(c) ==
    At(c, "sys") /\ \E id \in Chan, n \in {-1, 1} : process_wakeup_n(c, id, n, "sysret")

\* The other calls only choose where to go on: wait4 with the pid it waits
\* for (0: any; for one that is no child it returns -ECHILD, as it may do
\* anyway), clone after create_process has reaped, exit.
sys_start(c) ==
    /\ At(c, "sys")
    /\ \/ /\ \E want \in {0} \cup {pid[q] : q \in {r \in Proc : ppid[r] = tgid[current[c]]}} :
                loc' = [loc EXCEPT ![stack[c]].want = want]
          /\ Goto(c, "wait4")
          /\ UNCHANGED ret
       \/ /\ Goto(c, "reap")
          /\ ret' = [ret EXCEPT ![stack[c]] = "clone"]
          /\ UNCHANGED loc
       \/ /\ Goto(c, "exit")
          /\ UNCHANGED <<ret, loc>>
    /\ UNCHANGED <<queues, current, stack, sched_lock, kernel_lock, family, kicks, had>>

-------------------------------------------------------------------------------
(* clone *)

\* find_free_process_slot and the rest of create_process, or -EAGAIN.
create_process(c) ==
    /\ At(c, "clone")
    /\ \/ /\ Goto(c, "sysret")
          /\ UNCHANGED <<state, family, loc>>
       \/ /\ next_pid <= MaxPid
          /\ \E p \in Proc :
                /\ state[p] = "UNUSED"
                /\ state' = [state EXCEPT ![p] = "INIT"]
                /\ pid' = [pid EXCEPT ![p] = next_pid]
                /\ tgid' = [tgid EXCEPT ![p] = next_pid]
                /\ loc' = [loc EXCEPT ![stack[c]].child = p]
          /\ next_pid' = next_pid + 1
          /\ Goto(c, "clone2")
          /\ UNCHANGED <<ppid, detached>>
    /\ UNCHANGED <<ready, waiting, killed, wait_id, current, stack, sched_lock, kernel_lock,
                   kicks, ret, had>>

\* The rest of process_clone: -ENOMEM, or a thread (CLONE_THREAD), a child,
\* or a child of the caller's own parent (CLONE_PARENT).
process_clone(c) ==
    LET p == loc[stack[c]].child
        self == current[c]
    IN  /\ At(c, "clone2")
        /\ \/ /\ process_free(p)
              /\ Goto(c, "sysret")
              /\ UNCHANGED <<ready, ret, had, loc>>
           \/ /\ sched_lock = NoCPU
              /\ \/ /\ tgid' = [tgid EXCEPT ![p] = tgid[self]]
                    /\ ppid' = [ppid EXCEPT ![p] = ppid[self]]
                 \/ /\ ppid' = [ppid EXCEPT ![p] = tgid[self]]
                    /\ UNCHANGED tgid
                 \/ /\ ppid' = [ppid EXCEPT ![p] = ppid[self]]
                    /\ UNCHANGED tgid
              /\ state' = [state EXCEPT ![p] = "READY"]
              /\ ready' = Append(ready, p)
              /\ pc' = [pc EXCEPT ![p] = "resume", ![stack[c]] = "kick"]
              /\ ret' = [ret EXCEPT ![p] = "user", ![stack[c]] = "sysret"]
              /\ had' = [had EXCEPT ![p] = FALSE]
              /\ loc' = [loc EXCEPT ![p] = NoLoc,
                                    ![stack[c]] = [NoLoc EXCEPT !.left = 1, !.todo = CPU \ {c}]]
              /\ UNCHANGED <<pid, detached, next_pid, wait_id>>
        /\ UNCHANGED <<waiting, killed, current, stack, sched_lock, kernel_lock, kicks>>

-------------------------------------------------------------------------------
(* exit *)

Leader(p) == pid[p] = tgid[p]

\* process_find
Alive(p) == state[p] \notin {"UNUSED", "KILLED"}
Finds(n) == \E p \in Proc : pid[p] = n /\ n # 0 /\ Alive(p)

\* The children a leader leaves behind.
Orphans(p) ==
    {q \in Proc \ {p} : Leader(p) /\ state[q] # "UNUSED" /\ ppid[q] = tgid[p]}

\* Nobody will wait for p.
Unattended(p) == ~Leader(p) \/ ~Finds(ppid[p]) \/ ppid[p] \in IgnoresChildren

\* The children a leader leaves are orphaned, and who will reap the process
\* is decided.
process_exit(c) ==
    LET p == current[c]
    IN  /\ At(c, "exit")
        /\ ppid' = [q \in Proc |-> IF q \in Orphans(p) THEN 0 ELSE ppid[q]]
        /\ detached' = [q \in Proc |-> detached[q] \/ q \in Orphans(p) \/ (q = p /\ Unattended(p))]
        /\ Goto(c, IF detached[p] \/ Unattended(p) THEN "exit2" ELSE "sigchld")
        /\ UNCHANGED <<queues, current, stack, sched_lock, kernel_lock, kicks,
                       pid, tgid, next_pid, ret, had, loc>>

\* signal_send(ppid, SIGCHLD), which interrupts the parent unless it ignores
\* or blocks the signal; then process_wakeup(WAIT_CHANNEL_CHILD | ppid).
exit_sigchld(c) ==
    /\ At(c, "sigchld")
    /\ \/ \E q \in Proc : pid[q] = ppid[current[c]] /\ process_wake(c, q, "chldwake")
       \/ /\ Goto(c, "chldwake")
          /\ UNCHANGED <<queues, current, stack, sched_lock, kernel_lock, family, kicks,
                         ret, had, loc>>

\* Faulty variant: one of the parent's threads is woken.
exit_wakeup_one(c) ==
    /\ At(c, "chldwake")
    /\ process_wakeup_n(c, ppid[current[c]], 1, "exit2")

exit_wakeup(c) ==
    /\ At(c, "chldwake")
    /\ process_wakeup_n(c, ppid[current[c]], -1, "exit2")

\* A leader's exit makes pidfds readable: process_wakeup_poll(~0).
exit_poll(c) ==
    /\ At(c, "exit2")
    /\ \/ Leader(current[c]) /\ process_wakeup_n(c, POLL, -1, "exit3")
       \/ /\ ~Leader(current[c])
          /\ Goto(c, "exit3")
          /\ UNCHANGED <<queues, current, stack, sched_lock, kernel_lock, family, kicks,
                         ret, had, loc>>

exit_killed(c) ==
    /\ At(c, "exit3") /\ sched_lock = NoCPU
    /\ state' = [state EXCEPT ![current[c]] = "KILLED"]
    /\ killed' = killed \cup {current[c]}
    /\ EnterSwitch(c, "dead")
    /\ UNCHANGED <<ready, waiting, wait_id, current, stack, family, kicks, loc>>

-------------------------------------------------------------------------------
(* wait4 *)

ChildOf(q, tg, want) ==
    /\ state[q] # "UNUSED" /\ ~detached[q] /\ Leader(q)
    /\ ppid[q] = tg /\ (want = 0 \/ pid[q] = want)

Zombie(q, tg, want) == ChildOf(q, tg, want) /\ state[q] = "KILLED"

\* One scan of the process table: reap, report (WNOWAIT), -ECHILD, 0
\* (WNOHANG), -ERESTARTSYS at once, or sleep.
process_wait4(c) ==
    LET tg == tgid[current[c]]
        want == loc[stack[c]].want
    IN  /\ At(c, "wait4")
        /\ \/ /\ sched_lock = NoCPU
              /\ \E q \in Proc :
                    /\ Zombie(q, tg, want)
                    /\ killed' = killed \ {q}
                    /\ process_free(q)
              /\ Goto(c, "sysret")
              /\ UNCHANGED <<ready, waiting, current, stack, sched_lock, kernel_lock,
                             kicks, ret, had, loc>>
           \/ /\ Goto(c, "sysret")
              /\ UNCHANGED <<queues, current, stack, sched_lock, kernel_lock, family, kicks,
                             ret, had, loc>>
           \/ /\ \E q \in Proc : ChildOf(q, tg, want)
              /\ \A q \in Proc : ~Zombie(q, tg, want)
              /\ process_sleep(c, tg, "wait4r")

\* After the sleep: another scan, or -ERESTARTSYS when a signal is pending.
wait4_woken(c) ==
    /\ At(c, "wait4r")
    /\ \E l \in {"wait4", "sysret"} : Goto(c, l)
    /\ UNCHANGED <<queues, current, stack, sched_lock, kernel_lock, family, kicks,
                   ret, had, loc>>

-------------------------------------------------------------------------------
Kernel(c) ==
    \/ schedule(c) \/ switch_process(c) \/ resume(c) \/ relock(c) \/ reap_detached(c)
    \/ wakeup_loop(c) \/ kick_idle_cpus(c) \/ irq_return(c) \/ syscall_return(c)
    \/ sys_sleep(c) \/ sys_wakeup(c) \/ sys_start(c) \/ create_process(c) \/ process_clone(c)
    \/ process_exit(c) \/ exit_sigchld(c) \/ exit_wakeup(c) \/ exit_poll(c) \/ exit_killed(c)
    \/ process_wait4(c) \/ wait4_woken(c)

Next ==
    \E c \in CPU :
        \/ Kernel(c)
        \/ tick(c) \/ resched(c) \/ irq_wake(c)
        \/ handle_syscall(c) \/ sleep_unlocked(c)

Spec == Init /\ [][Next]_vars

\* A CPU inside the kernel goes on, and timer interrupts keep coming.  Strong
\* fairness, for both may spin on a lock that others take in between: a CPU
\* that finds the lock free again and again gets it at last.
Fairness == \A c \in CPU : SF_vars(Kernel(c)) /\ SF_vars(tick(c))

FairSpec == Spec /\ Fairness

-------------------------------------------------------------------------------
(* Properties *)

Locals == [id : WaitId, left : Int, woken : Nat, todo : SUBSET CPU,
           want : 0 .. MaxPid, child : Proc \cup {NoProc}]

\* Every variable has the type its declaration in process.c gives it.
TypeOK ==
    /\ state \in [Task -> SlotState]
    /\ ready \in Seq(Proc) /\ waiting \in Seq(Proc) /\ killed \subseteq Proc
    /\ wait_id \in [Proc -> WaitId]
    /\ current \in [CPU -> Task] /\ stack \in [CPU -> Task]
    /\ sched_lock \in CPU \cup {NoCPU} /\ kernel_lock \in CPU \cup {NoCPU}
    /\ pid \in [Proc -> 0 .. MaxPid] /\ tgid \in [Proc -> 0 .. MaxPid]
    /\ ppid \in [Proc -> 0 .. MaxPid] /\ detached \in [Proc -> BOOLEAN]
    /\ next_pid \in 1 .. MaxPid + 1
    /\ kick_pending \in [CPU -> BOOLEAN] /\ ipi \in [CPU -> BOOLEAN]
    /\ seen \in [CPU -> CPU \cup {NoCPU}] /\ sending \in [CPU -> CPU \cup {NoCPU}]
    /\ pc \in [Task -> Label] /\ ret \in [Task -> Label] /\ had \in [Task -> BOOLEAN]
    /\ loc \in [Task -> Locals]

Distinct(s) == \A i, j \in 1 .. Len(s) : s[i] = s[j] => i = j
Members(s) == {s[i] : i \in 1 .. Len(s)}

\* A process is in exactly the one queue its state names: once in the ready
\* queue when READY, once in the tree when SLEEPING, on the killed list when
\* KILLED, in none otherwise.  process_wake, wakeup loops, yield, sleep,
\* exit and the reapers all move processes between them.
OneHome ==
    /\ Distinct(ready) /\ Members(ready) = {p \in Proc : state[p] = "READY"}
    /\ Distinct(waiting) /\ Members(waiting) = {p \in Proc : state[p] = "SLEEPING"}
    /\ killed = {p \in Proc : state[p] = "KILLED"}

\* No two CPUs execute on one kernel stack, no CPU on a stack that was freed
\* or belongs to a process not started, and a process that is not RUNNING is
\* still on its stack only while that CPU holds sched_lock: whoever picks,
\* wakes or reaps it under sched_lock finds its context saved.
StackSafe ==
    /\ \A c, d \in CPU : stack[c] = stack[d] => c = d
    /\ \A c \in CPU : state[stack[c]] \notin {"UNUSED", "INIT"}
    /\ \A c \in CPU : state[stack[c]] # "RUNNING" => sched_lock = c

\* A process is current on at most one CPU, and the CPU runs it RUNNING
\* except inside sched_switch.
OneCPU ==
    /\ \A c, d \in CPU : current[c] = current[d] => c = d
    /\ \A c \in CPU : state[current[c]] # "RUNNING" => sched_lock = c
    /\ \A p \in Proc : state[p] = "RUNNING" => \E c \in CPU : current[c] = p

\* No lost wakeup of wait4: a process does not sleep in wait4 while a child
\* it waits for is a zombie, although the child wakes it before it is KILLED.
NoLostChild ==
    \A p, q \in Proc :
        state[p] = "SLEEPING" /\ ret[p] = "wait4r"
            => ~Zombie(q, tgid[p], loc[p].want)

\* A zombie that only wait4 can reap has a living parent to call it.
ZombieHasParent ==
    \A q \in Proc : state[q] = "KILLED" /\ ~detached[q] => Finds(ppid[q])

\* Past the orphaning of its children in process_exit.
Exiting(p) == {pc[p], ret[p]} \cap {"sigchld", "chldwake", "exit2", "exit3", "dead"} # {}

\* A process that sleeps in wait4 waits for something: a child is left, so
\* that its exit will end the sleep.  Not so when the group's leader has gone
\* (its exit orphans the children) or SIGCHLD is ignored (exit wakes nobody).
WaiterHasChild ==
    \A p \in Proc :
        /\ state[p] = "SLEEPING" /\ ret[p] = "wait4r"
        /\ tgid[p] \notin IgnoresChildren
        /\ \E l \in Proc : pid[l] = tgid[p] /\ Alive(l) /\ ~Exiting(l)
        => \E q \in Proc : ChildOf(q, tgid[p], loc[p].want)

\* The process family: wait4 misses no child, every zombie will be reaped and
\* nobody waits for nobody, through exits of parents, children and threads.
FamilySound == NoLostChild /\ ZombieHasParent /\ WaiterHasChild

\* The interrupt that kick_pending stands for is on its way, or another CPU has
\* yet to send it.
OnItsWay(d) == ipi[d] \/ \E c \in CPU : sending[c] = d

KickSound == \A d \in CPU : kick_pending[d] /\ current[d] = d => OnItsWay(d)

\* The machine never idles on work: when all CPUs halt in their idle loops no
\* process is READY; and a kick of an idle CPU is left out because of
\* kick_pending only where a reschedule interrupt is on its way.  (A CPU that
\* leaves its idle loop between the look and the mark keeps the flag while it is
\* busy, for RESCHED does nothing there; schedule() clears it before it idles.)
NoIdleMachine ==
    /\ (\A c \in CPU : current[c] = c /\ At(c, "user")) => ready = <<>>
    /\ KickSound

\* No process starves in the ready queue, whatever others yield, sleep, wake,
\* clone and exit: the queue is FIFO and timer interrupts make CPUs schedule.
ReadyRuns == \A p \in Proc : state[p] = "READY" ~> state[p] # "READY"

\* CPUs are interchangeable, and slots.
Symmetry == Permutations(Proc) \cup Permutations(CPU)

-------------------------------------------------------------------------------
(* The inductive invariant behind TypeOK, OneHome, StackSafe and OneCPU *)

\* Where the kernel lock is held ...
InKernel == {"sys", "sysret", "reap", "clone", "clone2", "exit", "sigchld",
             "chldwake", "exit2", "exit3", "wait4", "wait4r"}

\* ... and where sched_lock is.
InSched == {"schedule", "switch", "resume", "wakeup"}

\* The labels routines return to, and the ones an idle process can be at.
Returns == {"user", "irqret", "sysret", "clone", "exit2", "exit3", "chldwake", "wait4r"}
IdleLabel == {"user", "irqret", "schedule", "switch", "resume", "wakeup", "kick"}

\* The process or its idle process; the two pointers differ in "switch" only.
PerCPU ==
    \A c \in CPU :
        /\ current[c] \in Proc \cup {c} /\ stack[c] \in Proc \cup {c}
        /\ pc[stack[c]] # "switch" => stack[c] = current[c]

\* No two CPUs share a process or a stack.
Apart == \A c, d \in CPU : c # d => stack[c] # stack[d] /\ current[c] # current[d]

\* A CPU holds sched_lock from where it takes it to where another task, or
\* the same, releases it.
SchedLock == \A c \in CPU : sched_lock = c <=> pc[stack[c]] \in InSched

HoldsKernel(t) == pc[t] \in InKernel \/ (pc[t] \in {"wakeup", "kick"} /\ ret[t] \in InKernel)

\* The kernel lock is held wherever a process executes a locked system call,
\* also after sleeping, and nowhere else.
KernelLock == \A c \in CPU : kernel_lock = c <=> HoldsKernel(stack[c])

\* A CPU's process is RUNNING except between giving up and schedule(); what
\* it leaves behind in "switch" is in a queue.
OnCPU ==
    \A c \in CPU :
        /\ pc[stack[c]] = "schedule" => state[current[c]] \in {"READY", "SLEEPING", "KILLED"}
        /\ pc[stack[c]] # "schedule" => state[current[c]] = "RUNNING"
        /\ pc[stack[c]] = "switch" => state[stack[c]] \in {"READY", "SLEEPING", "KILLED"}

\* A RUNNING process is some CPU's.
HasCPU == \A p \in Proc : state[p] = "RUNNING" => \E c \in CPU : current[c] = p

Live(t) == state[t] \in {"READY", "SLEEPING", "RUNNING"}

\* Whoever is alive and off the CPU waits at the end of context_switch.
Saved == \A t \in Task : Live(t) /\ (\A c \in CPU : stack[c] # t) => pc[t] = "resume"

\* sched_switch remembers whether the place it returns to needs the kernel
\* lock.
Remembers ==
    \A t \in Task :
        Live(t) => /\ ret[t] \in Returns /\ pc[t] # "dead"
                   /\ pc[t] \in {"schedule", "switch", "resume"} => (had[t] <=> ret[t] \in InKernel)
                   /\ pc[t] \in {"relock", "reap"} => ret[t] \in InKernel

Idles == \A c \in CPU : /\ pc[c] \in IdleLabel /\ ret[c] \in {"user", "irqret"}
                        /\ state[c] \in {"READY", "RUNNING"}

\* The slot clone is filling belongs to it.
Filling == \A c \in CPU : pc[stack[c]] = "clone2"
                            => loc[stack[c]].child \in Proc /\ state[loc[stack[c]].child] = "INIT"

\* The part about control, locks and stacks, and the whole.
Control == /\ PerCPU /\ Apart /\ SchedLock /\ KernelLock /\ OnCPU
           /\ HasCPU /\ Saved /\ Remembers /\ Idles

Inv == TypeOK /\ OneHome /\ Control /\ Filling

-------------------------------------------------------------------------------
(* What NoIdleMachine needs besides *)

\* A CPU goes to its idle process only when nothing is READY, and nothing
\* becomes READY before it has released sched_lock.
IdleQueue ==
    \A c \in CPU : current[c] = c /\ pc[stack[c]] \in {"switch", "resume"} => ready = <<>>

\* An idle CPU wakes processes in interrupt handlers only, whose end yields.
IdleKick == \A c \in CPU : pc[c] \in {"kick", "wakeup"} => ret[c] = "irqret"

IdleInv == NoIdleMachine /\ IdleQueue /\ IdleKick

-------------------------------------------------------------------------------
(* What FamilySound needs besides *)

\* A pid is never used again, and a free slot has none.
PidInv ==
    /\ \A p \in Proc : pid[p] < next_pid /\ tgid[p] < next_pid /\ ppid[p] < next_pid
    /\ \A p, q \in Proc : pid[p] = pid[q] /\ pid[p] # 0 => p = q
    /\ \A p \in Proc : state[p] # "UNUSED" => pid[p] # 0 /\ tgid[p] # 0
    /\ \A p \in Proc : state[p] \in {"UNUSED", "INIT"} => ppid[p] = 0

\* What a tgid or a ppid names is a leader, and none names the slot that clone
\* is filling, which may become a thread.
LeaderInv ==
    /\ \A p, q \in Proc : pid[q] # 0 /\ (tgid[p] = pid[q] \/ ppid[p] = pid[q]) => Leader(q)
    /\ \A p, q \in Proc : state[q] = "INIT" => ppid[p] # pid[q] /\ (p # q => tgid[p] # pid[q])
    /\ \A p \in Proc : pid[p] # 0 => ppid[p] # pid[p]

InWait4(p) == state[p] = "SLEEPING" /\ ret[p] = "wait4r"

\* wait4 sleeps on the id that the children of its group wake.
Wait4Inv == \A p \in Proc : InWait4(p) => wait_id[p] = tgid[p]

ExitLabel == {"sigchld", "chldwake", "exit2", "exit3"}

OnExit(p) == Live(p) /\ Exiting(p)

\* The wakeup of the parent's group is under way, or over.
Tells(p) == pc[p] = "wakeup" /\ ret[p] = "exit2"
Told(p) ==
    \/ pc[p] \in {"exit2", "exit3"}
    \/ pc[p] = "kick" /\ ret[p] = "exit2"
    \/ pc[p] \in {"wakeup", "kick"} /\ ret[p] = "exit3"

\* On its way out, which nobody else is meanwhile for the kernel lock is held,
\* a leader has no children any more; whoever is not detached has a parent,
\* and once that was told, none of its threads sleeps in wait4.
ExitInv ==
    \A p \in Proc : OnExit(p) =>
        /\ pc[p] \in ExitLabel \/ (pc[p] \in {"wakeup", "kick"} /\ ret[p] \in ExitLabel)
        /\ Leader(p) => \A q \in Proc : ppid[q] # pid[p]
        /\ ~detached[p] => Leader(p) /\ Finds(ppid[p])
        /\ Tells(p) => loc[p].id = ppid[p] /\ loc[p].left < 0
        /\ Told(p) /\ ~detached[p] => \A q \in Proc : InWait4(q) => tgid[q] # ppid[p]

FamilyInv == FamilySound /\ PidInv /\ LeaderInv /\ Wait4Inv /\ ExitInv

===============================================================================

---------------------------- MODULE SchedulerProofs ----------------------------
(***************************************************************************)
(* Proofs about module Scheduler, for any number of CPUs and of slots: the *)
(* inductive invariant Inv, and from it type correctness and the three     *)
(* invariants that make sched_switch safe.                                 *)
(***************************************************************************)
EXTENDS Scheduler, TLAPS

-------------------------------------------------------------------------------
(* Queues *)

\* What Append does to a queue without duplicates.
LEMMA AppendQueue ==
    ASSUME NEW S, NEW s \in Seq(S), NEW x \in S, Distinct(s), x \notin Members(s)
    PROVE  /\ Append(s, x) \in Seq(S) /\ Distinct(Append(s, x))
           /\ Members(Append(s, x)) = Members(s) \cup {x}
  <1>1. /\ Append(s, x) \in Seq(S) /\ Len(Append(s, x)) = Len(s) + 1
        /\ \A i \in 1 .. Len(s) : Append(s, x)[i] = s[i]
        /\ Append(s, x)[Len(s) + 1] = x
    OBVIOUS
  <1>2. Len(s) \in Nat
    OBVIOUS
  <1>3. Distinct(Append(s, x))
    BY <1>1, <1>2 DEF Distinct, Members
  <1>4. Members(Append(s, x)) = Members(s) \cup {x}
    BY <1>1, <1>2 DEF Members
  <1> QED
    BY <1>1, <1>3, <1>4

\* What removing the k-th element does.
LEMMA WithoutQueue ==
    ASSUME NEW S, NEW s \in Seq(S), NEW k \in 1 .. Len(s), Distinct(s)
    PROVE  /\ Without(s, k) \in Seq(S) /\ Distinct(Without(s, k))
           /\ Members(Without(s, k)) = Members(s) \ {s[k]}
  <1> DEFINE w == Without(s, k)
  <1>1. Len(s) \in Nat /\ Len(s) - 1 \in Nat
    OBVIOUS
  <1>2. \A i \in 1 .. Len(s) - 1 : w[i] = IF i < k THEN s[i] ELSE s[i + 1]
    BY DEF Without
  <1>3. \A i \in 1 .. Len(s) - 1 : w[i] \in S
    BY <1>1, <1>2
  <1>4. w \in Seq(S) /\ Len(w) = Len(s) - 1
    BY <1>1, <1>3 DEF Without
  <1>5. Distinct(w)
    BY <1>1, <1>2, <1>4 DEF Distinct
  <1>6. \A x \in Members(w) : x \in Members(s) \ {s[k]}
    BY <1>1, <1>2, <1>4 DEF Members, Distinct
  <1>7. ASSUME NEW x \in Members(s) \ {s[k]}  PROVE x \in Members(w)
    <2>1. PICK i \in 1 .. Len(s) : s[i] = x /\ i # k
      BY <1>7 DEF Members
    <2>2. CASE i < k
      BY <2>1, <2>2, <1>1, <1>2, <1>4 DEF Members
    <2>3. CASE i > k
      <3>1. i - 1 \in 1 .. Len(s) - 1 /\ w[i - 1] = x
        BY <2>1, <2>3, <1>1, <1>2
      <3> QED
        BY <3>1, <1>4 DEF Members
    <2> QED
      BY <2>1, <2>2, <2>3
  <1> QED
    BY <1>4, <1>5, <1>6, <1>7

\* What taking the head does.
LEMMA TailQueue ==
    ASSUME NEW S, NEW s \in Seq(S), s # <<>>, Distinct(s)
    PROVE  /\ Tail(s) \in Seq(S) /\ Distinct(Tail(s))
           /\ Head(s) \in Members(s) /\ Head(s) \in S
           /\ Members(Tail(s)) = Members(s) \ {Head(s)}
  <1>1. /\ Len(s) \in Nat \ {0} /\ Tail(s) \in Seq(S) /\ Len(Tail(s)) = Len(s) - 1
        /\ \A i \in 1 .. Len(s) - 1 : Tail(s)[i] = s[i + 1]
        /\ Head(s) = s[1] /\ s[1] \in S
    OBVIOUS
  <1>2. Distinct(Tail(s))
    BY <1>1 DEF Distinct
  <1>3. Head(s) \in Members(s)
    BY <1>1 DEF Members
  <1>4. \A x \in Members(Tail(s)) : x \in Members(s) \ {Head(s)}
    BY <1>1 DEF Members, Distinct
  <1>5. ASSUME NEW x \in Members(s) \ {Head(s)}  PROVE x \in Members(Tail(s))
    <2>1. PICK i \in 1 .. Len(s) : s[i] = x /\ i # 1
      BY <1>1, <1>5 DEF Members
    <2>2. i - 1 \in 1 .. Len(s) - 1 /\ Tail(s)[i - 1] = x
      BY <2>1, <1>1
    <2> QED
      BY <2>2, <1>1 DEF Members
  <1> QED
    BY <1>1, <1>2, <1>3, <1>4, <1>5

-------------------------------------------------------------------------------
(* Kinds of steps *)

\* t, off the CPUs before and after the step, becomes or stays what a task
\* off the CPU must be.
Aside(t) ==
    /\ t \in Proc
    /\ \A c \in CPU : stack[c] # t /\ current[c] # t
    /\ state'[t] \in SlotState \ {"RUNNING"}
    /\ state'[t] \in {"READY", "SLEEPING"}
         => /\ pc'[t] = "resume" /\ ret'[t] \in Returns
            /\ had'[t] <=> ret'[t] \in InKernel

Same(t) == state'[t] = state[t] /\ pc'[t] = pc[t] /\ ret'[t] = ret[t] /\ had'[t] = had[t]

\* The lock is taken, kept or released by c as the flag says.
LockStep(lock, next, c, b) ==
    /\ next = c <=> b
    /\ \A d \in CPU \ {c} : next = d <=> lock = d

\* CPU c goes on from one place in the kernel to another on the same stack.
Move(c, l, r) ==
    /\ current' = current /\ stack' = stack
    /\ pc[stack[c]] \notin {"schedule", "switch"}
    /\ l \in Label \ {"schedule", "switch", "resume", "dead"} /\ r \in Returns
    /\ l \in {"relock", "reap"} => r \in InKernel
    /\ stack[c] = c => l \in IdleLabel /\ r \in {"user", "irqret"}
    /\ pc'[stack[c]] = l /\ ret'[stack[c]] = r
    /\ state'[stack[c]] = state[stack[c]]
    /\ \A t \in Task \ {stack[c]} : Same(t) \/ Aside(t)
    /\ LockStep(sched_lock, sched_lock', c, l \in InSched)
    /\ LockStep(kernel_lock, kernel_lock', c,
                l \in InKernel \/ (l \in {"wakeup", "kick"} /\ r \in InKernel))

\* Such a step preserves the control part of the invariant.
LEMMA MoveStep ==
    ASSUME Control, TypeOK, NEW c \in CPU, NEW l, NEW r, Move(c, l, r)
    PROVE  Control'
  <1>0. /\ stack \in [CPU -> Task] /\ current \in [CPU -> Task]
        /\ current' = current /\ stack' = stack /\ stack[c] = current[c]
        /\ \A d \in CPU : stack[d] \in Task /\ current[d] \in Task
        /\ \A d \in CPU \ {c} : stack[d] # stack[c] /\ current[d] # stack[c]
        /\ state[stack[c]] = "RUNNING"
    BY DEF Control, Move, TypeOK, PerCPU, Apart, OnCPU, SchedLock
  <1>1. \A d \in CPU \ {c} : Same(stack[d]) /\ Same(current[d])
    BY <1>0 DEF Move, Aside
  <1>2. PerCPU'
    BY <1>0, <1>1 DEF Control, PerCPU, Move, Same
  <1>3. Apart'
    BY <1>0 DEF Control, Apart
  <1>4. SchedLock'
    BY <1>0, <1>1 DEF Control, SchedLock, Move, LockStep, Same
  <1>5. KernelLock'
    BY <1>0, <1>1 DEF Control, KernelLock, HoldsKernel, Move, LockStep, Same
  <1>6. OnCPU'
    BY <1>0, <1>1 DEF Control, OnCPU, Move, Same
  <1>7. HasCPU'
    BY <1>0 DEF Control, HasCPU, Move, Same, Aside, Task
  <1>8. Saved'
    BY <1>0 DEF Control, Saved, Live, Move, Same, Aside
  <1>9. Remembers'
    BY <1>0 DEF Control, Remembers, Live, Move, Same, Aside
  <1>10. Idles'
    <2> SUFFICES ASSUME NEW d \in CPU
                 PROVE  /\ pc'[d] \in IdleLabel /\ ret'[d] \in {"user", "irqret"}
                        /\ state'[d] \in {"READY", "RUNNING"}
      BY DEF Idles
    <2>1. CASE d = stack[c]
      BY <2>1, <1>0, ConstantsAssumption DEF Control, PerCPU, Move
    <2>2. CASE d # stack[c]
      BY <2>2, ConstantsAssumption DEF Control, Idles, Move, Same, Aside, Task
    <2> QED
      BY <2>1, <2>2
  <1> QED
    BY <1>2, <1>3, <1>4, <1>5, <1>6, <1>7, <1>8, <1>9, <1>10 DEF Control

\* CPU c's process gives the CPU up: it enters sched_switch in state x, to
\* return to r.
GiveUp(c, x, r) ==
    /\ current' = current /\ stack' = stack
    /\ pc[stack[c]] \notin {"schedule", "switch"}
    /\ sched_lock = NoCPU
    /\ x \in {"READY", "SLEEPING", "KILLED"}
    /\ x # "KILLED" => r \in Returns /\ (kernel_lock = c <=> r \in InKernel)
    /\ stack[c] = c => x = "READY" /\ r \in {"user", "irqret"}
    /\ state' = [state EXCEPT ![current[c]] = x]
    /\ EnterSwitch(c, r)

\* Such a step preserves the control part of the invariant.
LEMMA GiveUpStep ==
    ASSUME Control, TypeOK, NEW c \in CPU, NEW x, NEW r, GiveUp(c, x, r)
    PROVE  Control'
  <1>0. /\ stack \in [CPU -> Task] /\ current \in [CPU -> Task]
        /\ current' = current /\ stack' = stack /\ stack[c] = current[c]
        /\ \A d \in CPU : stack[d] \in Task /\ current[d] \in Task
        /\ \A d \in CPU \ {c} : stack[d] # stack[c] /\ current[d] # stack[c]
        /\ state[stack[c]] = "RUNNING"
    BY DEF Control, GiveUp, TypeOK, PerCPU, Apart, OnCPU, SchedLock
  <1>1. /\ pc'[stack[c]] = "schedule" /\ ret'[stack[c]] = r /\ state'[stack[c]] = x
        /\ had'[stack[c]] <=> kernel_lock = c
        /\ \A t \in Task \ {stack[c]} : Same(t)
        /\ sched_lock' = c /\ kernel_lock' = IF kernel_lock = c THEN NoCPU ELSE kernel_lock
    BY <1>0 DEF GiveUp, EnterSwitch, Goto, TypeOK, Same
  <1>2. PerCPU'
    BY <1>0, <1>1 DEF Control, PerCPU, Same
  <1>3. Apart'
    BY <1>0 DEF Control, Apart
  <1>4. SchedLock'
    BY <1>0, <1>1, ConstantsAssumption DEF Control, SchedLock, GiveUp, InSched, Same
  <1>5. KernelLock'
    BY <1>0, <1>1, ConstantsAssumption DEF Control, KernelLock, HoldsKernel, InKernel, Same
  <1>6. OnCPU'
    BY <1>0, <1>1 DEF Control, OnCPU, GiveUp, Same
  <1>7. HasCPU'
    BY <1>0, <1>1 DEF Control, HasCPU, GiveUp, Same, Task
  <1>8. Saved'
    BY <1>0, <1>1 DEF Control, Saved, Live, Same
  <1>9. Remembers'
    BY <1>0, <1>1 DEF Control, Remembers, Live, GiveUp, Same
  <1>10. Idles'
    <2> SUFFICES ASSUME NEW d \in CPU
                 PROVE  /\ pc'[d] \in IdleLabel /\ ret'[d] \in {"user", "irqret"}
                        /\ state'[d] \in {"READY", "RUNNING"}
      BY DEF Idles
    <2>1. CASE d = stack[c]
      BY <2>1, <1>0, <1>1, ConstantsAssumption DEF Control, PerCPU, GiveUp, IdleLabel
    <2>2. CASE d # stack[c]
      BY <2>2, <1>1 DEF Control, Idles, Same, Task
    <2> QED
      BY <2>1, <2>2
  <1> QED
    BY <1>2, <1>3, <1>4, <1>5, <1>6, <1>7, <1>8, <1>9, <1>10 DEF Control

\* schedule() picks a READY process, which no CPU has, or the idle process.
LEMMA ScheduleStep ==
    ASSUME Control, TypeOK, OneHome, NEW c \in CPU, schedule(c)
    PROVE  Control'
  <1> DEFINE next == IF ready = <<>> THEN c ELSE Head(ready)
  <1>a. ready # <<>> => Head(ready) \in Proc /\ state[Head(ready)] = "READY"
    BY TailQueue DEF TypeOK, OneHome
  <1>0. /\ stack \in [CPU -> Task] /\ current \in [CPU -> Task] /\ next \in Task
        /\ next \in Proc \cup {c}
        /\ stack' = stack /\ stack[c] = current[c] /\ pc[stack[c]] = "schedule"
        /\ \A d \in CPU : stack[d] \in Task /\ current[d] \in Task
        /\ \A d \in CPU \ {c} : /\ stack[d] # stack[c] /\ stack[d] = current[d]
                                /\ pc[stack[d]] \notin InSched
        /\ state[stack[c]] \in {"READY", "SLEEPING", "KILLED"}
        /\ sched_lock = c
    BY <1>a DEF Control, schedule, At, TypeOK, PerCPU, Apart, OnCPU, SchedLock, InSched, Task
  <1>1. /\ \A d \in CPU \ {c} : state[current[d]] = "RUNNING" /\ current[d] # next
        /\ state[next] \in {"READY", "RUNNING"}
    BY <1>0, <1>a, ConstantsAssumption DEF Control, OnCPU, PerCPU, InSched, Idles
  <1>2. /\ current' = [current EXCEPT ![c] = next]
        /\ state' = [state EXCEPT ![next] = "RUNNING"]
        /\ pc' = [pc EXCEPT ![stack[c]] = IF next = current[c] THEN "resume" ELSE "switch"]
        /\ UNCHANGED <<stack, sched_lock, kernel_lock, ret, had>>
    BY DEF schedule, Goto
  <1> HIDE DEF next
  <1>3. PerCPU'
    BY <1>0, <1>2 DEF Control, PerCPU, TypeOK
  <1>4. Apart'
    BY <1>0, <1>1, <1>2 DEF Control, Apart
  <1>5. SchedLock'
    BY <1>0, <1>2 DEF Control, SchedLock, InSched, TypeOK
  <1>6. KernelLock'
    BY <1>0, <1>2 DEF Control, KernelLock, HoldsKernel, InKernel, TypeOK
  <1>7. OnCPU'
    BY <1>0, <1>1, <1>2 DEF Control, OnCPU, TypeOK, InSched
  <1>8. HasCPU'
    BY <1>0, <1>2 DEF Control, HasCPU, TypeOK
  <1>9. Saved'
    BY <1>0, <1>1, <1>2 DEF Control, Saved, Live, TypeOK
  <1>10. Remembers'
    BY <1>0, <1>1, <1>2 DEF Control, Remembers, Live, TypeOK
  <1>11. Idles'
    BY <1>0, <1>2 DEF Control, Idles, IdleLabel, TypeOK, Task
  <1> QED
    BY <1>3, <1>4, <1>5, <1>6, <1>7, <1>8, <1>9, <1>10, <1>11 DEF Control

\* context_switch: the task switched to is not on any CPU's stack yet.
LEMMA SwitchStep ==
    ASSUME Control, TypeOK, NEW c \in CPU, switch_process(c)
    PROVE  Control'
  <1>0. /\ stack \in [CPU -> Task] /\ current \in [CPU -> Task]
        /\ pc[stack[c]] = "switch" /\ sched_lock = c
        /\ \A d \in CPU : stack[d] \in Task /\ current[d] \in Task
        /\ \A d \in CPU \ {c} : /\ stack[d] # stack[c] /\ current[d] # current[c]
                                /\ stack[d] = current[d] /\ pc[stack[d]] \notin InSched
        /\ state[stack[c]] \in {"READY", "SLEEPING", "KILLED"}
        /\ state[current[c]] = "RUNNING"
    BY DEF Control, switch_process, At, TypeOK, PerCPU, Apart, OnCPU, SchedLock, InSched
  <1>1. /\ current[c] # stack[c] /\ pc[current[c]] = "resume"
        /\ \A d \in CPU : stack[d] # current[c]
    BY <1>0 DEF Control, Saved, Live
  <1>2. /\ pc' = [pc EXCEPT ![stack[c]] = "resume"]
        /\ stack' = [stack EXCEPT ![c] = current[c]]
        /\ UNCHANGED <<state, current, sched_lock, kernel_lock, ret, had>>
    BY DEF switch_process, Goto, queues
  <1>3. PerCPU'
    BY <1>0, <1>1, <1>2 DEF Control, PerCPU, TypeOK
  <1>4. Apart'
    BY <1>0, <1>1, <1>2 DEF Control, Apart
  <1>5. SchedLock'
    BY <1>0, <1>1, <1>2 DEF Control, SchedLock, InSched, TypeOK
  <1>6. KernelLock'
    BY <1>0, <1>1, <1>2 DEF Control, KernelLock, HoldsKernel, InKernel, TypeOK
  <1>7. OnCPU'
    BY <1>0, <1>1, <1>2 DEF Control, OnCPU, TypeOK, InSched
  <1>8. HasCPU'
    BY <1>2 DEF Control, HasCPU
  <1>9. Saved'
    BY <1>0, <1>1, <1>2 DEF Control, Saved, Live, TypeOK
  <1>10. Remembers'
    BY <1>0, <1>1, <1>2 DEF Control, Remembers, Live, TypeOK
  <1>11. Idles'
    BY <1>0, <1>2 DEF Control, Idles, IdleLabel, TypeOK, Task
  <1> QED
    BY <1>3, <1>4, <1>5, <1>6, <1>7, <1>8, <1>9, <1>10, <1>11 DEF Control

-------------------------------------------------------------------------------
(* Facts used by many steps *)

\* A CPU outside the switch executes on its current process.
LEMMA AtPlace ==
    ASSUME Inv, NEW c \in CPU, pc[stack[c]] \notin {"schedule", "switch"}
    PROVE  /\ stack[c] = current[c] /\ stack[c] \in Task /\ stack[c] \in Proc \cup {c}
           /\ state[stack[c]] = "RUNNING"
           /\ ret[stack[c]] \in Returns /\ pc[stack[c]] \in Label \ {"dead"}
           /\ sched_lock = c <=> pc[stack[c]] \in InSched
           /\ kernel_lock = c <=> HoldsKernel(stack[c])
           /\ pc[stack[c]] \in {"resume", "relock", "reap"} => (pc[stack[c]] = "resume" /\ ~had[stack[c]]) \/ ret[stack[c]] \in InKernel
           /\ pc[stack[c]] = "resume" => (had[stack[c]] <=> ret[stack[c]] \in InKernel)
           /\ stack[c] = c => pc[stack[c]] \in IdleLabel /\ ret[stack[c]] \in {"user", "irqret"}
           /\ \A d \in CPU \ {c} : stack[d] \in Task /\ stack[d] # stack[c]
  BY DEF Inv, Control, TypeOK, PerCPU, OnCPU, Remembers, Live, SchedLock, KernelLock, Idles, Apart

\* A process that is not RUNNING is on no CPU while sched_lock is free, or
\* held by a CPU that is not switching; if alive, it is at its resume point.
LEMMA OffCPU ==
    ASSUME Inv, NEW p \in Proc, state[p] # "RUNNING", NEW c \in CPU,
           \/ state[p] \in {"UNUSED", "INIT"}
           \/ sched_lock = NoCPU
           \/ sched_lock = c /\ pc[stack[c]] \notin {"schedule", "switch"}
    PROVE  /\ \A d \in CPU : stack[d] # p /\ current[d] # p
           /\ Live(p) => /\ pc[p] = "resume" /\ ret[p] \in Returns
                         /\ had[p] <=> ret[p] \in InKernel
  <1>1. ASSUME NEW d \in CPU  PROVE stack[d] # p /\ current[d] # p
    <2>1. CASE pc[stack[d]] \notin {"schedule", "switch"}
      BY <2>1 DEF Inv, Control, PerCPU, OnCPU
    <2>2. CASE pc[stack[d]] \in {"schedule", "switch"}
      <3>1. sched_lock = d
        BY <2>2 DEF Inv, Control, SchedLock, InSched
      <3>2. state[p] \in {"UNUSED", "INIT"}
        BY <2>2, <3>1, ConstantsAssumption
      <3>3. /\ state[stack[d]] \in {"READY", "SLEEPING", "KILLED"}
            /\ state[current[d]] \in {"READY", "SLEEPING", "KILLED", "RUNNING"}
        BY <2>2 DEF Inv, Control, PerCPU, OnCPU
      <3> QED
        BY <3>2, <3>3
    <2> QED
      BY <2>1, <2>2
  <1> QED
    BY <1>1 DEF Inv, Control, Saved, Remembers, Live, Task

\* The slot clone fills is left alone by the steps of other CPUs.
LEMMA FillingStep ==
    ASSUME Inv, NEW c \in CPU, Control',
           \A d \in CPU \ {c} : /\ stack'[d] = stack[d] /\ pc'[stack[d]] = pc[stack[d]]
                                /\ loc'[stack[d]] = loc[stack[d]],
           pc'[stack'[c]] # "clone2",
           pc[stack[c]] = "clone2" \/ \A p \in Proc : state[p] = "INIT" => state'[p] = "INIT"
    PROVE  Filling'
  <1>1. ASSUME NEW d \in CPU, d # c, pc[stack[d]] = "clone2"  PROVE pc[stack[c]] # "clone2"
    BY <1>1 DEF Inv, Control, KernelLock, HoldsKernel, InKernel
  <1> QED
    BY <1>1 DEF Inv, Filling

\* What is a wait id.
LEMMA WaitIds == 0 \in WaitId /\ 0 .. MaxPid \subseteq WaitId /\ Chan \subseteq WaitId
  BY ConstantsAssumption DEF WaitId

\* A step keeps every process in its home when no queue changes ...
LEMMA SameHome ==
    ASSUME OneHome, UNCHANGED <<ready, waiting, killed>>,
           \A p \in Proc : state'[p] = state[p] \/ {state[p], state'[p]} \subseteq {"UNUSED", "INIT", "RUNNING"}
    PROVE  OneHome'
  BY DEF OneHome, Distinct, Members

\* ... a process is woken ...
LEMMA WakeHome ==
    ASSUME TypeOK, OneHome, NEW k \in 1 .. Len(waiting), MakeReady(k), killed' = killed
    PROVE  /\ OneHome' /\ waiting[k] \in Proc /\ state[waiting[k]] = "SLEEPING"
           /\ ready' \in Seq(Proc) /\ waiting' \in Seq(Proc)
           /\ state' \in [Task -> SlotState] /\ wait_id' \in [Proc -> WaitId]
  <1>1. waiting[k] \in Proc /\ waiting[k] \in Members(waiting) /\ state[waiting[k]] = "SLEEPING"
    BY DEF TypeOK, OneHome, Members
  <1>2. /\ waiting' \in Seq(Proc) /\ Distinct(waiting')
        /\ Members(waiting') = Members(waiting) \ {waiting[k]}
    BY WithoutQueue DEF TypeOK, OneHome, MakeReady
  <1>3. waiting[k] \notin Members(ready)
    BY <1>1 DEF OneHome
  <1>4. /\ ready' \in Seq(Proc) /\ Distinct(ready')
        /\ Members(ready') = Members(ready) \cup {waiting[k]}
    BY <1>1, <1>3, AppendQueue DEF TypeOK, OneHome, MakeReady
  <1>5. state' = [state EXCEPT ![waiting[k]] = "READY"]
    BY DEF MakeReady
  <1>6. state' \in [Task -> SlotState] /\ wait_id' \in [Proc -> WaitId]
    BY <1>1, WaitIds DEF TypeOK, MakeReady, SlotState
  <1>7. \A p \in Proc : state'[p] = IF p = waiting[k] THEN "READY" ELSE state[p]
    BY <1>5 DEF TypeOK, Task
  <1>8. OneHome'
    <2>1. Members(ready') = {p \in Proc : state'[p] = "READY"}
      BY <1>1, <1>4, <1>7 DEF OneHome
    <2>2. Members(waiting') = {p \in Proc : state'[p] = "SLEEPING"}
      BY <1>1, <1>2, <1>7 DEF OneHome
    <2>3. killed' = {p \in Proc : state'[p] = "KILLED"}
      BY <1>1, <1>7 DEF OneHome
    <2> QED
      BY <1>2, <1>4, <2>1, <2>2, <2>3 DEF OneHome
  <1> QED
    BY <1>1, <1>2, <1>4, <1>6, <1>8

\* ... or a zombie freed.
LEMMA FreeHome ==
    ASSUME TypeOK, OneHome, NEW p \in Proc, state[p] = "KILLED", killed' = killed \ {p},
           process_free(p), UNCHANGED <<ready, waiting>>
    PROVE  OneHome'
  <1>1. \A q \in Proc : state'[q] = IF q = p THEN "UNUSED" ELSE state[q]
    BY DEF process_free, TypeOK, Task
  <1>2. /\ {q \in Proc : state'[q] = "READY"} = {q \in Proc : state[q] = "READY"}
        /\ {q \in Proc : state'[q] = "SLEEPING"} = {q \in Proc : state[q] = "SLEEPING"}
        /\ {q \in Proc : state'[q] = "KILLED"} = {q \in Proc : state[q] = "KILLED"} \ {p}
    BY <1>1
  <1>3. Distinct(ready') /\ Distinct(waiting') /\ Members(ready') = Members(ready)
        /\ Members(waiting') = Members(waiting)
    BY DEF OneHome
  <1> QED
    BY <1>2, <1>3 DEF OneHome

\* The types of the process family.
FamilyTypes ==
    /\ pid' \in [Proc -> 0 .. MaxPid] /\ tgid' \in [Proc -> 0 .. MaxPid]
    /\ ppid' \in [Proc -> 0 .. MaxPid] /\ detached' \in [Proc -> BOOLEAN]
    /\ next_pid' \in 1 .. MaxPid + 1

\* process_free keeps the types.
LEMMA FreeTypes ==
    ASSUME TypeOK, NEW p \in Proc, process_free(p)
    PROVE  /\ state' \in [Task -> SlotState] /\ wait_id' \in [Proc -> WaitId] /\ FamilyTypes
  <1>1. 0 \in 0 .. MaxPid
    BY ConstantsAssumption
  <1> QED
    BY <1>1, WaitIds DEF TypeOK, process_free, SlotState, FamilyTypes, Task

\* A place CPU c may go on at inside or outside the kernel.
Place(c, l, r) ==
    /\ l \in Label \ {"schedule", "switch", "resume", "dead"} /\ r \in Returns
    /\ l \in {"relock", "reap"} => r \in InKernel
    /\ stack[c] = c => l \in IdleLabel /\ r \in {"user", "irqret"}

\* c goes there, the other tasks' control is unchanged.
Goes(c, l, r) ==
    /\ current' = current /\ stack' = stack
    /\ pc'[stack[c]] = l /\ ret'[stack[c]] = r
    /\ \A t \in Task \ {stack[c]} : /\ pc'[t] = pc[t] /\ ret'[t] = ret[t]
                                    /\ had'[t] = had[t] /\ loc'[t] = loc[t]

\* The locks are as that place needs them.
Locks(c, l, r) ==
    /\ LockStep(sched_lock, sched_lock', c, l \in InSched)
    /\ LockStep(kernel_lock, kernel_lock', c,
                l \in InKernel \/ (l \in {"wakeup", "kick"} /\ r \in InKernel))

\* A step of c that changes no other process ...
LEMMA PlainStep ==
    ASSUME Inv, TypeOK', NEW c \in CPU, NEW l, NEW r, l # "clone2",
           pc[stack[c]] \notin {"schedule", "switch"},
           UNCHANGED <<state, ready, waiting, killed>>,
           Place(c, l, r), Goes(c, l, r), Locks(c, l, r)
    PROVE  Inv'
  <1>1. Move(c, l, r)
    BY DEF Move, Place, Goes, Locks, Same
  <1>2. Control'
    BY <1>1, MoveStep DEF Inv
  <1>3. OneHome'
    BY SameHome DEF Inv
  <1>4. Filling'
    <2>1. /\ \A d \in CPU \ {c} : stack[d] \in Task /\ stack[d] # stack[c]
      BY AtPlace
    <2> QED
      BY <1>2, <2>1, FillingStep DEF Goes
  <1> QED
    BY <1>2, <1>3, <1>4 DEF Inv

\* ... and one that also changes a process off the CPUs.
LEMMA AsideStep ==
    ASSUME Inv, TypeOK', OneHome', NEW c \in CPU, NEW l, NEW r, NEW p \in Proc,
           pc[stack[c]] \notin {"schedule", "switch"}, l # "clone2",
           \A d \in CPU : stack[d] # p /\ current[d] # p,
           \A t \in Task \ {p} : state'[t] = state[t],
           state[p] = "INIT" => state'[p] = "INIT" \/ pc[stack[c]] = "clone2",
           state'[p] \in {"UNUSED", "INIT"} \/ (Live(p) /\ state'[p] = "READY" /\ pc[p] = "resume"),
           Place(c, l, r), Goes(c, l, r), Locks(c, l, r)
    PROVE  Inv'
  <1>1. stack[c] \in Task /\ stack[c] # p /\ p \in Task
    BY AtPlace DEF Task
  <1>2. Aside(p)
    BY <1>1 DEF Aside, Goes, Inv, Control, Remembers, SlotState, Live
  <1>3. Move(c, l, r)
    BY <1>1, <1>2 DEF Move, Place, Goes, Locks, Same
  <1>4. Control'
    BY <1>3, MoveStep DEF Inv
  <1>5. Filling'
    <2>1. \A d \in CPU \ {c} : stack[d] \in Task /\ stack[d] # stack[c]
      BY AtPlace
    <2>2. pc[stack[c]] = "clone2" \/ \A q \in Proc : state[q] = "INIT" => state'[q] = "INIT"
      BY DEF Task
    <2> QED
      BY <1>4, <2>1, <2>2, FillingStep DEF Goes
  <1> QED
    BY <1>4, <1>5 DEF Inv

-------------------------------------------------------------------------------
(* One lemma per routine or action *)

\* process_yield, from the timer interrupt or the end of another one.
LEMMA YieldStep ==
    ASSUME Inv, NEW c \in CPU, pc[stack[c]] \in {"user", "irqret"}, process_yield(c),
           ipi' \in [CPU -> BOOLEAN]
    PROVE  Inv'
  <1>0. /\ stack[c] = current[c] /\ stack[c] \in Task /\ stack[c] \in Proc \cup {c}
        /\ state[stack[c]] = "RUNNING" /\ ret[stack[c]] \in Returns
        /\ kernel_lock # c /\ sched_lock = NoCPU
        /\ stack[c] = c => ret[stack[c]] \in {"user", "irqret"}
        /\ \A d \in CPU \ {c} : stack[d] \in Task /\ stack[d] # stack[c]
    BY AtPlace DEF HoldsKernel, InKernel, process_yield
  <1>1. CASE ready = <<>>
    <2>1. /\ pc' = [pc EXCEPT ![stack[c]] = "user"]
          /\ kick_pending' = [kick_pending EXCEPT ![c] = FALSE]
          /\ UNCHANGED <<state, ready, waiting, killed, wait_id, current, stack, sched_lock,
                         kernel_lock, family, seen, sending, ret, had, loc>>
      BY <1>1 DEF process_yield, Goto
    <2>2. Move(c, "user", ret[stack[c]])
      BY <1>0, <2>1, ConstantsAssumption
      DEF Inv, TypeOK, Move, Same, LockStep, Label, IdleLabel, InSched, InKernel
    <2>3. Control'
      BY <2>2, MoveStep DEF Inv
    <2>4. TypeOK'
      BY <1>0, <2>1 DEF Inv, TypeOK, Label, family
    <2>5. OneHome'
      BY <2>1, SameHome DEF Inv
    <2>6. Filling'
      BY <1>0, <2>1, <2>3, FillingStep DEF Inv, TypeOK
    <2> QED
      BY <2>3, <2>4, <2>5, <2>6 DEF Inv
  <1>2. CASE ready # <<>>
    <2>1. /\ state' = [state EXCEPT ![current[c]] = "READY"]
          /\ ready' = IF current[c] \in Proc THEN Append(ready, current[c]) ELSE ready
          /\ EnterSwitch(c, "user")
          /\ kick_pending' = [kick_pending EXCEPT ![c] = FALSE]
          /\ UNCHANGED <<waiting, killed, wait_id, current, stack, family, seen, sending, loc>>
      BY <1>2 DEF process_yield, Requeue
    <2>2. GiveUp(c, "READY", "user")
      BY <1>0, <2>1 DEF GiveUp, Returns, InKernel
    <2>3. Control'
      BY <2>2, GiveUpStep DEF Inv
    <2>4. current[c] \in Proc => current[c] \notin Members(ready)
      BY <1>0 DEF Inv, OneHome
    <2>5. /\ ready' \in Seq(Proc) /\ Distinct(ready')
          /\ Members(ready') = Members(ready) \cup ({current[c]} \cap Proc)
      BY <2>1, <2>4, AppendQueue DEF Inv, TypeOK, OneHome
    <2>6. \A p \in Proc : state'[p] = IF p = current[c] THEN "READY" ELSE state[p]
      BY <1>0, <2>1 DEF Inv, TypeOK, Task
    <2>7. OneHome'
      <3>1. Members(ready') = {p \in Proc : state'[p] = "READY"}
        BY <2>5, <2>6 DEF Inv, OneHome
      <3>2. /\ {p \in Proc : state'[p] = "SLEEPING"} = {p \in Proc : state[p] = "SLEEPING"}
            /\ {p \in Proc : state'[p] = "KILLED"} = {p \in Proc : state[p] = "KILLED"}
        BY <1>0, <2>6
      <3> QED
        BY <2>1, <2>5, <3>1, <3>2 DEF Inv, OneHome
    <2>8. TypeOK'
      BY <1>0, <2>1, <2>5 DEF Inv, TypeOK, EnterSwitch, Goto, Label, SlotState, family
    <2>9. Filling'
      <3>1. /\ \A t \in Task \ {stack[c]} : pc'[t] = pc[t] /\ loc'[t] = loc[t]
            /\ pc'[stack[c]] = "schedule"
            /\ \A p \in Proc : state[p] = "INIT" => state'[p] = "INIT"
        BY <1>0, <2>1, <2>6 DEF Inv, TypeOK, EnterSwitch, Goto
      <3> QED
        BY <1>0, <2>1, <2>3, <3>1, FillingStep
    <2> QED
      BY <2>3, <2>7, <2>8, <2>9 DEF Inv
  <1> QED
    BY <1>1, <1>2

\* process_sleep: the caller is a process, and holds the kernel lock iff the
\* place it returns to needs it.
LEMMA SleepStep ==
    ASSUME Inv, NEW c \in CPU, NEW id \in WaitId, NEW r \in Returns,
           pc[stack[c]] \notin InSched, current[c] \in Proc,
           kernel_lock = c <=> r \in InKernel, process_sleep(c, id, r)
    PROVE  Inv'
  <1>0. /\ stack[c] = current[c] /\ stack[c] \in Proc /\ stack[c] \in Task
        /\ state[stack[c]] = "RUNNING" /\ sched_lock = NoCPU /\ stack[c] # c
        /\ \A d \in CPU \ {c} : stack[d] \in Task /\ stack[d] # stack[c]
    BY AtPlace, ConstantsAssumption DEF InSched, process_sleep
  <1>1. /\ state' = [state EXCEPT ![current[c]] = "SLEEPING"]
        /\ wait_id' = [wait_id EXCEPT ![current[c]] = id]
        /\ waiting' = Append(waiting, current[c])
        /\ EnterSwitch(c, r)
        /\ UNCHANGED <<ready, killed, current, stack, family, kicks, loc>>
    BY DEF process_sleep
  <1>2. GiveUp(c, "SLEEPING", r)
    BY <1>0, <1>1 DEF GiveUp, InSched
  <1>3. Control'
    BY <1>2, GiveUpStep DEF Inv
  <1>4. current[c] \notin Members(waiting)
    BY <1>0 DEF Inv, OneHome
  <1>5. /\ waiting' \in Seq(Proc) /\ Distinct(waiting')
        /\ Members(waiting') = Members(waiting) \cup {current[c]}
    BY <1>1, <1>4, AppendQueue DEF Inv, TypeOK, OneHome
  <1>6. \A p \in Proc : state'[p] = IF p = current[c] THEN "SLEEPING" ELSE state[p]
    BY <1>0, <1>1 DEF Inv, TypeOK, Task
  <1>7. OneHome'
    <2>1. Members(waiting') = {p \in Proc : state'[p] = "SLEEPING"}
      BY <1>0, <1>5, <1>6 DEF Inv, OneHome
    <2>2. /\ {p \in Proc : state'[p] = "READY"} = {p \in Proc : state[p] = "READY"}
          /\ {p \in Proc : state'[p] = "KILLED"} = {p \in Proc : state[p] = "KILLED"}
      BY <1>0, <1>6
    <2> QED
      BY <1>1, <1>5, <2>1, <2>2 DEF Inv, OneHome
  <1>8. TypeOK'
    BY <1>0, <1>1, <1>5
    DEF Inv, TypeOK, EnterSwitch, Goto, Label, SlotState, family, kicks, Returns
  <1>9. Filling'
    <2>1. /\ \A t \in Task \ {stack[c]} : pc'[t] = pc[t] /\ loc'[t] = loc[t]
          /\ pc'[stack[c]] = "schedule"
          /\ \A p \in Proc : state[p] = "INIT" => state'[p] = "INIT"
      BY <1>0, <1>1, <1>6 DEF Inv, TypeOK, EnterSwitch, Goto
    <2> QED
      BY <1>0, <1>1, <1>3, <2>1, FillingStep
  <1> QED
    BY <1>3, <1>7, <1>8, <1>9 DEF Inv

\* The end of process_exit.
LEMMA KilledStep ==
    ASSUME Inv, NEW c \in CPU, exit_killed(c)
    PROVE  Inv'
  <1>0. /\ stack[c] = current[c] /\ stack[c] \in Proc /\ stack[c] \in Task
        /\ state[stack[c]] = "RUNNING" /\ sched_lock = NoCPU /\ stack[c] # c
        /\ pc[stack[c]] = "exit3"
        /\ \A d \in CPU \ {c} : stack[d] \in Task /\ stack[d] # stack[c]
    BY AtPlace, ConstantsAssumption DEF IdleLabel, exit_killed, At
  <1>1. /\ state' = [state EXCEPT ![current[c]] = "KILLED"]
        /\ killed' = killed \cup {current[c]}
        /\ EnterSwitch(c, "dead")
        /\ UNCHANGED <<ready, waiting, wait_id, current, stack, family, kicks, loc>>
    BY DEF exit_killed
  <1>2. GiveUp(c, "KILLED", "dead")
    BY <1>0, <1>1 DEF GiveUp
  <1>3. Control'
    BY <1>2, GiveUpStep DEF Inv
  <1>4. \A p \in Proc : state'[p] = IF p = current[c] THEN "KILLED" ELSE state[p]
    BY <1>0, <1>1 DEF Inv, TypeOK, Task
  <1>5. OneHome'
    <2>1. killed' = {p \in Proc : state'[p] = "KILLED"}
      BY <1>0, <1>1, <1>4 DEF Inv, OneHome
    <2>2. /\ {p \in Proc : state'[p] = "READY"} = {p \in Proc : state[p] = "READY"}
          /\ {p \in Proc : state'[p] = "SLEEPING"} = {p \in Proc : state[p] = "SLEEPING"}
      BY <1>0, <1>4
    <2> QED
      BY <1>1, <2>1, <2>2 DEF Inv, OneHome
  <1>6. TypeOK'
    BY <1>0, <1>1
    DEF Inv, TypeOK, EnterSwitch, Goto, Label, SlotState, family, kicks
  <1>7. Filling'
    <2>1. /\ \A t \in Task \ {stack[c]} : pc'[t] = pc[t] /\ loc'[t] = loc[t]
          /\ pc'[stack[c]] = "schedule"
          /\ \A p \in Proc : state[p] = "INIT" => state'[p] = "INIT"
      BY <1>0, <1>1, <1>4 DEF Inv, TypeOK, EnterSwitch, Goto
    <2> QED
      BY <1>0, <1>1, <1>3, <2>1, FillingStep
  <1> QED
    BY <1>3, <1>5, <1>6, <1>7 DEF Inv

\* schedule(), the whole invariant.
LEMMA ScheduleInv ==
    ASSUME Inv, NEW c \in CPU, schedule(c)
    PROVE  Inv'
  <1> DEFINE next == IF ready = <<>> THEN c ELSE Head(ready)
  <1>1. Control'
    BY ScheduleStep DEF Inv
  <1>2. /\ ready' = IF ready = <<>> THEN ready ELSE Tail(ready)
        /\ state' = [state EXCEPT ![next] = "RUNNING"]
        /\ pc' = [pc EXCEPT ![stack[c]] = IF next = current[c] THEN "resume" ELSE "switch"]
        /\ current' = [current EXCEPT ![c] = next]
        /\ kick_pending' = [kick_pending EXCEPT ![c] = FALSE]
        /\ UNCHANGED <<waiting, killed, wait_id, stack, sched_lock, kernel_lock, family, ipi,
                       seen, sending, ret, had, loc>>
    BY DEF schedule, Goto, Dequeue
  <1>3. /\ ready' \in Seq(Proc) /\ Distinct(ready')
        /\ ready # <<>> => /\ next \in Proc /\ next \in Members(ready)
                           /\ Members(ready') = Members(ready) \ {next}
    BY <1>2, TailQueue DEF Inv, TypeOK, OneHome
  <1>4. next \in Task /\ stack[c] \in Task /\ c \notin Proc
    BY <1>3, ConstantsAssumption DEF Task, Inv, TypeOK
  <1>5. TypeOK'
    BY <1>2, <1>3, <1>4 DEF Inv, TypeOK, Label, SlotState, family
  <1>6. \A p \in Proc : state'[p] = IF p = next THEN "RUNNING" ELSE state[p]
    BY <1>2, <1>4 DEF Inv, TypeOK, Task
  <1>7. next \in Proc => state[next] = "READY"
    BY <1>3, <1>4 DEF Inv, OneHome
  <1> HIDE DEF next
  <1>8. OneHome'
    <2>1. /\ {p \in Proc : state'[p] = "SLEEPING"} = {p \in Proc : state[p] = "SLEEPING"}
          /\ {p \in Proc : state'[p] = "KILLED"} = {p \in Proc : state[p] = "KILLED"}
      BY <1>6, <1>7
    <2>2. CASE ready = <<>>
      <3>1. next = c
        BY <2>2 DEF next
      <3>2. {p \in Proc : state'[p] = "READY"} = {p \in Proc : state[p] = "READY"}
        BY <1>4, <1>6, <3>1
      <3> QED
        BY <1>2, <2>1, <2>2, <3>2 DEF Inv, OneHome
    <2>3. CASE ready # <<>>
      <3>1. Members(ready') = {p \in Proc : state'[p] = "READY"}
        BY <1>3, <1>6, <2>3 DEF Inv, OneHome
      <3> QED
        BY <1>2, <1>3, <2>1, <3>1 DEF Inv, OneHome
    <2> QED
      BY <2>2, <2>3
  <1>9. Filling'
    <2>1. /\ \A t \in Task \ {stack[c]} : pc'[t] = pc[t] /\ loc'[t] = loc[t]
          /\ pc'[stack[c]] # "clone2"
          /\ \A p \in Proc : state[p] = "INIT" => state'[p] = "INIT"
      BY <1>2, <1>4, <1>6, <1>7 DEF Inv, TypeOK
    <2>2. \A d \in CPU \ {c} : stack[d] \in Task /\ stack[d] # stack[c]
      BY DEF Inv, Control, Apart, TypeOK
    <2> QED
      BY <1>1, <1>2, <2>1, <2>2, FillingStep
  <1> QED
    BY <1>1, <1>5, <1>8, <1>9 DEF Inv

\* context_switch, the whole invariant.
LEMMA SwitchInv ==
    ASSUME Inv, NEW c \in CPU, switch_process(c)
    PROVE  Inv'
  <1>1. Control'
    BY SwitchStep DEF Inv
  <1>2. /\ pc' = [pc EXCEPT ![stack[c]] = "resume"]
        /\ stack' = [stack EXCEPT ![c] = current[c]]
        /\ UNCHANGED <<queues, current, sched_lock, kernel_lock, family, kicks, ret, had, loc>>
    BY DEF switch_process, Goto
  <1>3. TypeOK'
    BY <1>2 DEF Inv, TypeOK, Label, queues, family, kicks
  <1>4. OneHome'
    BY <1>2, SameHome DEF Inv, queues
  <1>5. /\ \A t \in Task \ {stack[c]} : pc'[t] = pc[t]
        /\ \A d \in CPU \ {c} : stack'[d] = stack[d] /\ stack[d] \in Task /\ stack[d] # stack[c]
        /\ loc' = loc /\ state' = state /\ stack'[c] = current[c]
    BY <1>2 DEF Inv, TypeOK, Control, Apart, queues
  <1>6. pc'[stack'[c]] # "clone2"
    BY <1>1, <1>2, <1>5 DEF Inv, Control, SchedLock, InSched, switch_process, At, TypeOK
  <1>7. Filling'
    BY <1>1, <1>5, <1>6, FillingStep
  <1> QED
    BY <1>1, <1>3, <1>4, <1>7 DEF Inv

\* The locals of a task in no routine.
LEMMA NoLocType == NoLoc \in Locals
  BY WaitIds, ConstantsAssumption DEF NoLoc, Locals

\* The beginning of kick_idle_cpus.
LEMMA KickLocals ==
    ASSUME TypeOK, NEW c \in CPU, NEW n \in Int, NEW r \in Returns, BeginKick(c, n, r)
    PROVE  /\ pc' = [pc EXCEPT ![stack[c]] = "kick"] /\ ret' = [ret EXCEPT ![stack[c]] = r]
           /\ pc' \in [Task -> Label] /\ ret' \in [Task -> Label] /\ loc' \in [Task -> Locals]
           /\ \A t \in Task \ {stack[c]} : loc'[t] = loc[t]
  <1> DEFINE m == n - (IF current[c] = c /\ r = "irqret" THEN 1 ELSE 0)
             new == [loc[stack[c]] EXCEPT !.left = m, !.woken = 0, !.todo = CPU \ {c}]
  <1>1. m \in Int
    OBVIOUS
  <1>2. /\ pc' = [pc EXCEPT ![stack[c]] = "kick"] /\ ret' = [ret EXCEPT ![stack[c]] = r]
        /\ loc' = [loc EXCEPT ![stack[c]] = new]
    BY DEF BeginKick, Goto
  <1> HIDE DEF m
  <1>3. stack[c] \in Task /\ loc[stack[c]] \in Locals
    BY DEF TypeOK
  <1>4. new \in Locals
    BY <1>1, <1>3 DEF Locals
  <1> HIDE DEF new
  <1>5. loc' \in [Task -> Locals]
    BY <1>2, <1>4 DEF TypeOK
  <1> QED
    BY <1>2, <1>3, <1>5 DEF TypeOK, Label, Returns

\* process_wake and process_interrupt.
LEMMA WakeStep ==
    ASSUME Inv, NEW c \in CPU, NEW p \in Proc, NEW r \in Returns,
           pc[stack[c]] \in {"user", "sigchld"}, stack[c] = c => r \in {"user", "irqret"},
           kernel_lock = c <=> r \in InKernel, process_wake(c, p, r)
    PROVE  Inv'
  <1>0. /\ stack[c] = current[c] /\ stack[c] \in Task /\ ret[stack[c]] \in Returns
        /\ sched_lock = NoCPU /\ state[stack[c]] = "RUNNING"
        /\ stack[c] = c => ret[stack[c]] \in {"user", "irqret"}
        /\ UNCHANGED <<killed, current, stack, sched_lock, kernel_lock, family, kicks, had>>
    BY AtPlace DEF process_wake
  <1>1. CASE \E k \in 1 .. Len(waiting) : waiting[k] = p /\ MakeReady(k) /\ BeginKick(c, 1, r)
    <2>1. PICK k \in 1 .. Len(waiting) : waiting[k] = p /\ MakeReady(k) /\ BeginKick(c, 1, r)
      BY <1>1
    <2>2. /\ OneHome' /\ state[p] = "SLEEPING" /\ ready' \in Seq(Proc) /\ waiting' \in Seq(Proc)
          /\ state' \in [Task -> SlotState] /\ wait_id' \in [Proc -> WaitId]
      BY <1>0, <2>1, WakeHome DEF Inv
    <2>3. /\ pc' = [pc EXCEPT ![stack[c]] = "kick"] /\ ret' = [ret EXCEPT ![stack[c]] = r]
          /\ pc' \in [Task -> Label] /\ ret' \in [Task -> Label] /\ loc' \in [Task -> Locals]
          /\ \A t \in Task \ {stack[c]} : loc'[t] = loc[t]
      <3>1. TypeOK /\ 1 \in Int /\ BeginKick(c, 1, r)
        BY <2>1 DEF Inv
      <3> QED
        BY <3>1, KickLocals
    <2>4. TypeOK'
      BY <1>0, <2>2, <2>3, <2>1 DEF Inv, TypeOK, family, kicks
    <2>5. /\ \A d \in CPU : stack[d] # p /\ current[d] # p
          /\ pc[p] = "resume" /\ Live(p)
      BY <1>0, <2>2, OffCPU DEF Live
    <2>6. Place(c, "kick", r)
      BY DEF Place, Label, IdleLabel
    <2>7. Goes(c, "kick", r)
      BY <1>0, <2>3 DEF Goes, Inv, TypeOK
    <2>8. Locks(c, "kick", r)
      BY <1>0, ConstantsAssumption DEF Locks, LockStep, InSched, InKernel
    <2>9. /\ \A t \in Task \ {p} : state'[t] = state[t]
          /\ state'[p] = "READY" /\ state[p] # "INIT"
      BY <2>1, <2>2 DEF Inv, TypeOK, Task, MakeReady
    <2> QED
      BY <2>2, <2>4, <2>5, <2>6, <2>7, <2>8, <2>9, AsideStep
  <1>2. CASE Goto(c, r) /\ UNCHANGED <<state, ready, waiting, wait_id, ret, loc>>
    <2>1. pc' = [pc EXCEPT ![stack[c]] = r]
      BY <1>2 DEF Goto
    <2>2. TypeOK'
      BY <1>0, <1>2, <2>1 DEF Inv, TypeOK, Label, Returns, family, kicks
    <2>3. Place(c, r, ret[stack[c]])
      BY <1>0 DEF Place, Returns, Label, IdleLabel
    <2>4. Goes(c, r, ret[stack[c]])
      BY <1>0, <1>2, <2>1 DEF Goes, Inv, TypeOK
    <2>5. Locks(c, r, ret[stack[c]])
      BY <1>0, ConstantsAssumption DEF Locks, LockStep, InSched, Returns
    <2>6. r # "clone2"
      BY DEF Returns
    <2> QED
      BY <1>0, <1>2, <2>2, <2>3, <2>4, <2>5, <2>6, PlainStep
  <1> QED
    BY <1>1, <1>2 DEF process_wake

\* A step inside a locked system call that only goes on elsewhere.
LEMMA GotoStep ==
    ASSUME Inv, NEW c \in CPU, NEW l \in InKernel \ {"clone2", "reap"},
           pc[stack[c]] \in InKernel, Goto(c, l),
           UNCHANGED <<queues, current, stack, sched_lock, kernel_lock, family, kicks, ret, had, loc>>
    PROVE  Inv'
  <1>0. /\ stack[c] \in Task /\ ret[stack[c]] \in Returns /\ stack[c] # c
        /\ sched_lock # c /\ kernel_lock = c /\ pc[stack[c]] \notin {"schedule", "switch"}
    BY AtPlace DEF InKernel, InSched, HoldsKernel, IdleLabel
  <1>1. pc' = [pc EXCEPT ![stack[c]] = l] /\ l \in Label
    BY DEF Goto, InKernel, Label
  <1>2. TypeOK'
    BY <1>0, <1>1 DEF Inv, TypeOK, family, kicks, queues
  <1>3. Place(c, l, ret[stack[c]])
    BY <1>0, <1>1 DEF Place, InKernel
  <1>4. Goes(c, l, ret[stack[c]])
    BY <1>0, <1>1 DEF Goes, Inv, TypeOK
  <1>5. Locks(c, l, ret[stack[c]])
    BY <1>0 DEF Locks, LockStep, InSched, InKernel
  <1> QED
    BY <1>0, <1>2, <1>3, <1>4, <1>5, PlainStep DEF queues

\* process_wakeup_n takes sched_lock.
LEMMA WakeupNStep ==
    ASSUME Inv, NEW c \in CPU, NEW id \in WaitId, NEW n \in Int,
           NEW r \in Returns \cap InKernel, pc[stack[c]] \in InKernel,
           process_wakeup_n(c, id, n, r)
    PROVE  Inv'
  <1> DEFINE new == [loc[stack[c]] EXCEPT !.id = id, !.left = n]
  <1>0. /\ stack[c] \in Task /\ stack[c] # c /\ kernel_lock = c
        /\ pc[stack[c]] \notin {"schedule", "switch"}
    BY AtPlace DEF InKernel, HoldsKernel, IdleLabel
  <1>1. /\ pc' = [pc EXCEPT ![stack[c]] = "wakeup"] /\ ret' = [ret EXCEPT ![stack[c]] = r]
        /\ loc' = [loc EXCEPT ![stack[c]] = new] /\ sched_lock = NoCPU /\ sched_lock' = c
        /\ UNCHANGED <<queues, current, stack, kernel_lock, family, kicks, had>>
    BY DEF process_wakeup_n, Goto
  <1>2. new \in Locals
    <2>1. loc[stack[c]] \in Locals
      BY <1>0 DEF Inv, TypeOK
    <2> QED
      BY <2>1 DEF Locals
  <1> HIDE DEF new
  <1>3. TypeOK'
    BY <1>0, <1>1, <1>2 DEF Inv, TypeOK, Label, Returns, family, kicks, queues
  <1>4. Place(c, "wakeup", r)
    BY <1>0 DEF Place, Label
  <1>5. Goes(c, "wakeup", r)
    BY <1>0, <1>1 DEF Goes, Inv, TypeOK
  <1>6. Locks(c, "wakeup", r)
    BY <1>0, <1>1, ConstantsAssumption DEF Locks, LockStep, InSched, InKernel
  <1> QED
    BY <1>0, <1>1, <1>3, <1>4, <1>5, <1>6, PlainStep DEF queues

\* The loop of process_wakeup_n.
LEMMA WakeupLoopStep ==
    ASSUME Inv, NEW c \in CPU, wakeup_loop(c)
    PROVE  Inv'
  <1> DEFINE l == loc[stack[c]]
             r == ret[stack[c]]
  <1>0. /\ stack[c] \in Task /\ r \in Returns /\ r \in Label /\ pc[stack[c]] = "wakeup"
        /\ sched_lock = c /\ (kernel_lock = c <=> r \in InKernel)
        /\ stack[c] = c => r \in {"user", "irqret"}
        /\ UNCHANGED <<killed, current, stack, kernel_lock, family, kicks, had>>
    BY AtPlace DEF wakeup_loop, At, InSched, InKernel, HoldsKernel, Returns, Label
  <1>1. l \in Locals /\ l.left \in Int /\ l.woken \in Nat
    BY <1>0 DEF Inv, TypeOK, Locals
  <1>2. ASSUME NEW k \in 1 .. Len(waiting), MakeReady(k), UNCHANGED <<sched_lock, pc, ret>>,
               loc' = [loc EXCEPT ![stack[c]] =
                         [@ EXCEPT !.woken = l.woken + 1,
                                   !.left = IF l.left > 0 THEN l.left - 1 ELSE l.left]]
        PROVE  Inv'
    <2> DEFINE p == waiting[k]
               w == l.woken + 1
               m == IF l.left > 0 THEN l.left - 1 ELSE l.left
               new == [l EXCEPT !.woken = w, !.left = m]
    <2>1. /\ OneHome' /\ p \in Proc /\ state[p] = "SLEEPING" /\ ready' \in Seq(Proc)
          /\ waiting' \in Seq(Proc) /\ state' \in [Task -> SlotState] /\ wait_id' \in [Proc -> WaitId]
      BY <1>0, <1>2, WakeHome DEF Inv
    <2>2. state' = [state EXCEPT ![p] = "READY"] /\ loc' = [loc EXCEPT ![stack[c]] = new]
      BY <1>2 DEF MakeReady
    <2>a. w \in Nat /\ m \in Int /\ UNCHANGED <<sched_lock, pc, ret>>
      BY <1>1, <1>2
    <2> HIDE DEF w, m
    <2>3. new \in Locals
      BY <1>1, <2>a DEF Locals
    <2> HIDE DEF new, p, l
    <2>4. TypeOK'
      BY <1>0, <2>1, <2>2, <2>3, <2>a DEF Inv, TypeOK, family, kicks
    <2>5. /\ \A d \in CPU : stack[d] # p /\ current[d] # p
          /\ pc[p] = "resume" /\ Live(p)
      BY <1>0, <2>1, OffCPU DEF Live
    <2>6. Place(c, "wakeup", r)
      BY <1>0 DEF Place, Label, IdleLabel
    <2>7. Goes(c, "wakeup", r)
      BY <1>0, <1>2, <2>2 DEF Goes, Inv, TypeOK
    <2>8. Locks(c, "wakeup", r)
      BY <1>0, <1>2 DEF Locks, LockStep, InSched, InKernel
    <2>9. /\ \A t \in Task \ {p} : state'[t] = state[t]
          /\ state'[p] = "READY" /\ state[p] # "INIT"
      BY <2>1, <2>2 DEF Inv, TypeOK, Task
    <2> QED
      BY <1>0, <2>1, <2>4, <2>5, <2>6, <2>7, <2>8, <2>9, AsideStep
  <1>3. ASSUME BeginKick(c, l.woken, r), sched_lock' = NoCPU,
               UNCHANGED <<state, ready, waiting, wait_id>>
        PROVE  Inv'
    <2>1. /\ pc' = [pc EXCEPT ![stack[c]] = "kick"] /\ ret' = [ret EXCEPT ![stack[c]] = r]
          /\ pc' \in [Task -> Label] /\ ret' \in [Task -> Label] /\ loc' \in [Task -> Locals]
          /\ \A t \in Task \ {stack[c]} : loc'[t] = loc[t]
      BY <1>0, <1>1, <1>3, KickLocals DEF Inv
    <2>2. TypeOK'
      BY <1>0, <1>3, <2>1 DEF Inv, TypeOK, family, kicks
    <2>3. Place(c, "kick", r)
      BY <1>0 DEF Place, Label, IdleLabel
    <2>4. Goes(c, "kick", r)
      BY <1>0, <2>1 DEF Goes, Inv, TypeOK
    <2>5. Locks(c, "kick", r)
      BY <1>0, <1>3, ConstantsAssumption DEF Locks, LockStep, InSched, InKernel
    <2> QED
      BY <1>0, <1>3, <2>2, <2>3, <2>4, <2>5, PlainStep
  <1>4. ASSUME Goto(c, r), sched_lock' = NoCPU, loc' = [loc EXCEPT ![stack[c]] = NoLoc],
               UNCHANGED <<ret, state, ready, waiting, wait_id>>
        PROVE  Inv'
    <2>1. pc' = [pc EXCEPT ![stack[c]] = r]
      BY <1>4 DEF Goto
    <2>2. TypeOK'
      BY <1>0, <1>4, <2>1, NoLocType DEF Inv, TypeOK, family, kicks
    <2>3. Place(c, r, r)
      BY <1>0 DEF Place, Returns, IdleLabel
    <2>4. Goes(c, r, r)
      BY <1>0, <1>4, <2>1 DEF Goes, Inv, TypeOK
    <2>5. Locks(c, r, r)
      BY <1>0, <1>4, ConstantsAssumption DEF Locks, LockStep, InSched, Returns
    <2>6. r # "clone2"
      BY <1>0 DEF Returns
    <2> QED
      BY <1>0, <1>4, <2>2, <2>3, <2>4, <2>5, <2>6, PlainStep
  <1>5. \/ \E k \in 1 .. Len(waiting) :
              /\ MakeReady(k) /\ UNCHANGED <<sched_lock, pc, ret>>
              /\ loc' = [loc EXCEPT ![stack[c]] =
                           [@ EXCEPT !.woken = l.woken + 1,
                                     !.left = IF l.left > 0 THEN l.left - 1 ELSE l.left]]
        \/ BeginKick(c, l.woken, r) /\ sched_lock' = NoCPU /\ UNCHANGED <<state, ready, waiting, wait_id>>
        \/ /\ Goto(c, r) /\ sched_lock' = NoCPU /\ loc' = [loc EXCEPT ![stack[c]] = NoLoc]
           /\ UNCHANGED <<ret, state, ready, waiting, wait_id>>
    BY DEF wakeup_loop
  <1> QED
    BY <1>2, <1>3, <1>4, <1>5

\* The loop of kick_idle_cpus.
LEMMA KickLoopStep ==
    ASSUME Inv, NEW c \in CPU, kick_idle_cpus(c)
    PROVE  Inv'
  <1> DEFINE l == loc[stack[c]]
             r == ret[stack[c]]
  <1>0. /\ stack[c] \in Task /\ r \in Returns /\ r \in Label /\ pc[stack[c]] = "kick"
        /\ sched_lock # c /\ (kernel_lock = c <=> r \in InKernel)
        /\ stack[c] = c => r \in {"user", "irqret"}
        /\ UNCHANGED <<queues, current, stack, sched_lock, kernel_lock, family, ret, had>>
    BY AtPlace DEF kick_idle_cpus, At, InSched, InKernel, HoldsKernel, Returns, Label
  <1>1. l \in Locals /\ l.left \in Int /\ l.todo \subseteq CPU
    BY <1>0 DEF Inv, TypeOK, Locals
  <1>2. ASSUME UNCHANGED pc, kick_pending' \in [CPU -> BOOLEAN], ipi' \in [CPU -> BOOLEAN],
               seen' \in [CPU -> CPU \cup {NoCPU}], sending' \in [CPU -> CPU \cup {NoCPU}],
               NEW new \in Locals, loc' = [loc EXCEPT ![stack[c]] = new]
        PROVE  Inv'
    <2>3. TypeOK'
      BY <1>0, <1>2 DEF Inv, TypeOK, family, queues
    <2>4. Place(c, "kick", r)
      BY <1>0 DEF Place, Label, IdleLabel
    <2>5. Goes(c, "kick", r)
      BY <1>0, <1>2 DEF Goes, Inv, TypeOK
    <2>6. Locks(c, "kick", r)
      BY <1>0 DEF Locks, LockStep, InSched, InKernel
    <2> QED
      BY <1>0, <2>3, <2>4, <2>5, <2>6, PlainStep DEF queues
  <1>3. ASSUME Goto(c, r), loc' = [loc EXCEPT ![stack[c]] = NoLoc], UNCHANGED kicks
        PROVE  Inv'
    <2>1. pc' = [pc EXCEPT ![stack[c]] = r]
      BY <1>3 DEF Goto
    <2>2. TypeOK'
      BY <1>0, <1>3, <2>1, NoLocType DEF Inv, TypeOK, family, kicks, queues
    <2>3. Place(c, r, r)
      BY <1>0 DEF Place, Returns, IdleLabel
    <2>4. Goes(c, r, r)
      BY <1>0, <1>3, <2>1 DEF Goes, Inv, TypeOK
    <2>5. Locks(c, r, r)
      BY <1>0 DEF Locks, LockStep, InSched, Returns
    <2>6. r # "clone2"
      BY <1>0 DEF Returns
    <2> QED
      BY <1>0, <2>2, <2>3, <2>4, <2>5, <2>6, PlainStep DEF queues
  <1>4. CASE Goto(c, r) /\ loc' = [loc EXCEPT ![stack[c]] = NoLoc] /\ UNCHANGED kicks
    BY <1>3, <1>4
  <1>5. ASSUME NEW d \in l.todo, UNCHANGED <<kick_pending, ipi, sending, pc>>,
               seen' = [seen EXCEPT ![c] = IF current[d] = d THEN d ELSE NoCPU],
               loc' = [loc EXCEPT ![stack[c]] = [@ EXCEPT !.todo = l.todo \ {d}]]
        PROVE  Inv'
    <2>1. [l EXCEPT !.todo = l.todo \ {d}] \in Locals
      BY <1>1 DEF Locals
    <2>2. seen' \in [CPU -> CPU \cup {NoCPU}]
      BY <1>1, <1>5 DEF Inv, TypeOK
    <2>3. loc' = [loc EXCEPT ![stack[c]] = [l EXCEPT !.todo = l.todo \ {d}]]
      BY <1>5
    <2> QED
      BY <1>2, <1>5, <2>1, <2>2, <2>3 DEF Inv, TypeOK
  <1>6. ASSUME UNCHANGED <<ipi, pc>>, seen[c] # NoCPU, kick_mark(c, seen[c]),
               seen' = [seen EXCEPT ![c] = NoCPU],
               loc' = [loc EXCEPT ![stack[c]] = [@ EXCEPT !.left = l.left - 1]]
        PROVE  Inv'
    <2>1. [l EXCEPT !.left = l.left - 1] \in Locals
      BY <1>1 DEF Locals
    <2>2. seen[c] \in CPU
      BY <1>6 DEF Inv, TypeOK
    <2>3. /\ seen' \in [CPU -> CPU \cup {NoCPU}] /\ sending' \in [CPU -> CPU \cup {NoCPU}]
          /\ kick_pending' \in [CPU -> BOOLEAN]
      BY <1>6, <2>2 DEF Inv, TypeOK, kick_mark
    <2>4. loc' = [loc EXCEPT ![stack[c]] = [l EXCEPT !.left = l.left - 1]]
      BY <1>6
    <2> QED
      BY <1>2, <1>6, <2>1, <2>3, <2>4 DEF Inv, TypeOK
  <1>7. ASSUME UNCHANGED <<kick_pending, seen, pc, loc>>, sending[c] # NoCPU,
               ipi' = [ipi EXCEPT ![sending[c]] = TRUE],
               sending' = [sending EXCEPT ![c] = NoCPU]
        PROVE  Inv'
    <2>1. loc' = [loc EXCEPT ![stack[c]] = l]
      BY <1>0, <1>7 DEF Inv, TypeOK
    <2>2. ipi' \in [CPU -> BOOLEAN] /\ sending' \in [CPU -> CPU \cup {NoCPU}]
      BY <1>7 DEF Inv, TypeOK
    <2> QED
      BY <1>1, <1>2, <1>7, <2>1, <2>2 DEF Inv, TypeOK
  <1> QED
    BY <1>4, <1>5, <1>6, <1>7 DEF kick_idle_cpus

\* The interrupts.
LEMMA InterruptStep ==
    ASSUME Inv, NEW c \in CPU, tick(c) \/ resched(c) \/ irq_wake(c) \/ irq_return(c)
    PROVE  Inv'
  <1>1. CASE tick(c) \/ irq_return(c)
    <2>1. /\ pc[stack[c]] \in {"user", "irqret"} /\ process_yield(c) /\ ipi' \in [CPU -> BOOLEAN]
      BY <1>1 DEF tick, irq_return, At, Inv, TypeOK
    <2> QED
      BY <2>1, YieldStep
  <1>2. CASE resched(c) /\ current[c] = c
    <2>1. pc[stack[c]] = "user" /\ process_yield(c) /\ ipi' \in [CPU -> BOOLEAN]
      BY <1>2 DEF resched, At, Inv, TypeOK
    <2> QED
      BY <2>1, YieldStep
  <1>3. CASE resched(c) /\ current[c] # c
    <2>1. /\ UNCHANGED <<queues, current, stack, sched_lock, kernel_lock, family,
                         kick_pending, seen, sending, pc, ret, had, loc>>
          /\ ipi' = [ipi EXCEPT ![c] = FALSE]
      BY <1>3 DEF resched
    <2>2. TypeOK'
      BY <2>1 DEF Inv, TypeOK, queues, family
    <2>3. UNCHANGED <<state, current, stack, sched_lock, kernel_lock, pc, ret, had, loc>>
      BY <2>1 DEF queues
    <2>4. Control'
      BY <2>3 DEF Inv, Control, PerCPU, Apart, SchedLock, KernelLock, HoldsKernel, OnCPU,
                  HasCPU, Saved, Remembers, Live, Idles
    <2>5. OneHome'
      BY <2>1, SameHome DEF Inv, queues
    <2>6. Filling'
      BY <2>3 DEF Inv, Filling
    <2> QED
      BY <2>2, <2>4, <2>5, <2>6 DEF Inv
  <1>4. CASE irq_wake(c)
    <2> DEFINE r == IF current[c] = c THEN "irqret" ELSE "user"
    <2>1. PICK p \in Proc : process_wake(c, p, r)
      BY <1>4 DEF irq_wake
    <2>2. /\ pc[stack[c]] = "user" /\ r \in Returns /\ r \in {"user", "irqret"} /\ r \notin InKernel
      BY <1>4 DEF irq_wake, At, Returns, InKernel
    <2>3. kernel_lock # c
      BY <2>2, AtPlace DEF HoldsKernel, InKernel
    <2> HIDE DEF r
    <2> QED
      BY <2>1, <2>2, <2>3, WakeStep
  <1> QED
    BY <1>1, <1>2, <1>3, <1>4

\* A process in a locked system call.
LEMMA InCall ==
    ASSUME Inv, NEW c \in CPU, pc[stack[c]] \in InKernel
    PROVE  /\ stack[c] = current[c] /\ stack[c] \in Proc /\ stack[c] \in Task /\ stack[c] # c
           /\ kernel_lock = c /\ sched_lock # c /\ ret[stack[c]] \in Returns
           /\ pc[stack[c]] \notin InSched
  BY AtPlace, ConstantsAssumption DEF InKernel, HoldsKernel, InSched, IdleLabel

\* Entering the kernel, and leaving it.
LEMMA SyscallStep ==
    ASSUME Inv, NEW c \in CPU, handle_syscall(c) \/ syscall_return(c)
    PROVE  Inv'
  <1>1. CASE handle_syscall(c)
    <2>0. /\ stack[c] \in Task /\ ret[stack[c]] \in Returns /\ stack[c] # c
          /\ pc[stack[c]] = "user" /\ sched_lock # c
      BY <1>1, AtPlace, ConstantsAssumption DEF handle_syscall, At, InSched
    <2>1. /\ pc' = [pc EXCEPT ![stack[c]] = "sys"] /\ kernel_lock = NoCPU /\ kernel_lock' = c
          /\ UNCHANGED <<queues, current, stack, sched_lock, family, kicks, ret, had, loc>>
      BY <1>1 DEF handle_syscall, Goto
    <2>2. TypeOK'
      BY <2>0, <2>1 DEF Inv, TypeOK, Label, family, kicks, queues
    <2>3. Place(c, "sys", ret[stack[c]])
      BY <2>0 DEF Place, Label
    <2>4. Goes(c, "sys", ret[stack[c]])
      BY <2>0, <2>1 DEF Goes, Inv, TypeOK
    <2>5. Locks(c, "sys", ret[stack[c]])
      BY <2>0, <2>1, ConstantsAssumption DEF Locks, LockStep, InSched, InKernel
    <2> QED
      BY <2>0, <2>1, <2>2, <2>3, <2>4, <2>5, PlainStep DEF queues
  <1>2. CASE syscall_return(c)
    <2>a. pc[stack[c]] = "sysret"
      BY <1>2 DEF syscall_return, At
    <2>0. stack[c] \in Task /\ stack[c] # c /\ kernel_lock = c /\ sched_lock # c
      BY <2>a, InCall DEF InKernel
    <2>1. /\ pc' = [pc EXCEPT ![stack[c]] = "user"] /\ kernel_lock' = NoCPU
          /\ loc' = [loc EXCEPT ![stack[c]] = NoLoc] /\ ret' = [ret EXCEPT ![stack[c]] = "user"]
          /\ had' = [had EXCEPT ![stack[c]] = FALSE]
          /\ UNCHANGED <<queues, current, stack, sched_lock, family, kicks>>
      BY <1>2 DEF syscall_return, Goto
    <2>2. TypeOK'
      BY <2>0, <2>1, NoLocType DEF Inv, TypeOK, Label, family, kicks, queues
    <2>3. Place(c, "user", "user")
      BY <2>0 DEF Place, Label, Returns
    <2>4. Goes(c, "user", "user")
      BY <2>0, <2>1 DEF Goes, Inv, TypeOK
    <2>5. Locks(c, "user", "user")
      BY <2>0, <2>1, ConstantsAssumption DEF Locks, LockStep, InSched, InKernel
    <2> QED
      BY <2>a, <2>1, <2>2, <2>3, <2>4, <2>5, PlainStep DEF queues
  <1> QED
    BY <1>1, <1>2

\* Sleeping in a system call, with or without the kernel lock.
LEMMA SysSleepStep ==
    ASSUME Inv, NEW c \in CPU, sleep_unlocked(c) \/ sys_sleep(c)
    PROVE  Inv'
  <1>1. CASE sleep_unlocked(c)
    <2>1. PICK id \in Chan : process_sleep(c, id, "user")
      BY <1>1 DEF sleep_unlocked
    <2>2. pc[stack[c]] = "user" /\ current[c] \in Proc /\ id \in WaitId
      BY <1>1, WaitIds DEF sleep_unlocked, At
    <2>3. kernel_lock # c
      BY <2>2, AtPlace DEF HoldsKernel, InKernel
    <2> QED
      BY <2>1, <2>2, <2>3, SleepStep DEF Returns, InKernel, InSched
  <1>2. CASE sys_sleep(c)
    <2>1. PICK id \in Chan : process_sleep(c, id, "sysret")
      BY <1>2 DEF sys_sleep
    <2>2. pc[stack[c]] \in InKernel /\ id \in WaitId
      BY <1>2, WaitIds DEF sys_sleep, At, InKernel
    <2>3. kernel_lock = c /\ current[c] \in Proc
      BY <2>2, InCall
    <2> QED
      BY <2>1, <2>2, <2>3, SleepStep DEF Returns, InKernel, InSched
  <1> QED
    BY <1>1, <1>2

\* The calls of process_wakeup_n in system calls and in process_exit.
LEMMA SysWakeupStep ==
    ASSUME Inv, NEW c \in CPU, sys_wakeup(c) \/ exit_wakeup(c) \/ exit_poll(c)
    PROVE  Inv'
  <1>1. CASE sys_wakeup(c)
    <2>1. PICK id \in Chan, n \in {-1, 1} : process_wakeup_n(c, id, n, "sysret")
      BY <1>1 DEF sys_wakeup
    <2>2. pc[stack[c]] \in InKernel /\ id \in WaitId /\ n \in Int
      BY <1>1, WaitIds DEF sys_wakeup, At, InKernel
    <2> QED
      BY <2>1, <2>2, WakeupNStep DEF Returns, InKernel
  <1>2. CASE exit_wakeup(c)
    <2>1. pc[stack[c]] \in InKernel /\ process_wakeup_n(c, ppid[current[c]], -1, "exit2")
      BY <1>2 DEF exit_wakeup, At, InKernel
    <2>2. current[c] \in Proc
      BY <2>1, InCall
    <2>3. ppid[current[c]] \in WaitId
      BY <2>2, WaitIds DEF Inv, TypeOK
    <2> QED
      BY <2>1, <2>3, WakeupNStep DEF Returns, InKernel
  <1>3. CASE exit_poll(c)
    <2>1. pc[stack[c]] \in InKernel /\ POLL \in WaitId
      BY <1>3 DEF WaitId, exit_poll, At, InKernel
    <2>2. CASE process_wakeup_n(c, POLL, -1, "exit3")
      BY <2>1, <2>2, WakeupNStep DEF Returns, InKernel
    <2>3. CASE ~process_wakeup_n(c, POLL, -1, "exit3")
      <3>1. /\ Goto(c, "exit3") /\ "exit3" \in InKernel \ {"clone2", "reap"}
            /\ UNCHANGED <<queues, current, stack, sched_lock, kernel_lock, family, kicks,
                           ret, had, loc>>
        BY <1>3, <2>3 DEF exit_poll, InKernel
      <3> QED
        BY <2>1, <3>1, GotoStep
    <2> QED
      BY <2>2, <2>3
  <1> QED
    BY <1>1, <1>2, <1>3

\* A system call's choice of what to do.
LEMMA SysStartStep ==
    ASSUME Inv, NEW c \in CPU, sys_start(c)
    PROVE  Inv'
  <1>a. pc[stack[c]] = "sys" /\ pc[stack[c]] \in InKernel
    BY DEF sys_start, At, InKernel
  <1>0. /\ stack[c] = current[c] /\ stack[c] \in Proc /\ stack[c] \in Task /\ stack[c] # c
        /\ kernel_lock = c /\ sched_lock # c /\ ret[stack[c]] \in Returns
        /\ UNCHANGED <<queues, current, stack, sched_lock, kernel_lock, family, kicks, had>>
    BY <1>a, InCall DEF sys_start
  <1>1. ASSUME NEW want \in 0 .. MaxPid, loc' = [loc EXCEPT ![stack[c]].want = want],
               Goto(c, "wait4"), UNCHANGED ret
        PROVE  Inv'
    <2> DEFINE new == [loc[stack[c]] EXCEPT !.want = want]
    <2>1. /\ pc' = [pc EXCEPT ![stack[c]] = "wait4"] /\ loc' = [loc EXCEPT ![stack[c]] = new]
      BY <1>1 DEF Goto
    <2>2. new \in Locals
      <3>1. loc[stack[c]] \in Locals
        BY <1>0 DEF Inv, TypeOK
      <3> QED
        BY <1>1, <3>1 DEF Locals
    <2> HIDE DEF new
    <2>3. TypeOK'
      <3>1. /\ TypeOK /\ "wait4" \in Label
            /\ UNCHANGED <<queues, current, stack, sched_lock, kernel_lock, family, kicks, had, ret>>
        BY <1>0, <1>1 DEF Inv, Label
      <3>2. pc' \in [Task -> Label] /\ loc' \in [Task -> Locals]
        BY <1>0, <2>1, <2>2, <3>1 DEF TypeOK
      <3> QED
        BY <3>1, <3>2 DEF TypeOK, family, kicks, queues
    <2>4. Place(c, "wait4", ret[stack[c]])
      BY <1>0 DEF Place, Label
    <2>5. Goes(c, "wait4", ret[stack[c]])
      BY <1>0, <1>1, <2>1 DEF Goes, Inv, TypeOK
    <2>6. Locks(c, "wait4", ret[stack[c]])
      BY <1>0 DEF Locks, LockStep, InSched, InKernel
    <2> QED
      BY <1>0, <1>a, <2>3, <2>4, <2>5, <2>6, PlainStep DEF queues
  <1>2. CASE Goto(c, "reap") /\ ret' = [ret EXCEPT ![stack[c]] = "clone"] /\ UNCHANGED loc
    <2>1. pc' = [pc EXCEPT ![stack[c]] = "reap"]
      BY <1>2 DEF Goto
    <2>2. TypeOK'
      BY <1>0, <1>2, <2>1 DEF Inv, TypeOK, Label, family, kicks, queues
    <2>3. Place(c, "reap", "clone")
      BY <1>0 DEF Place, Label, Returns, InKernel
    <2>4. Goes(c, "reap", "clone")
      BY <1>0, <1>2, <2>1 DEF Goes, Inv, TypeOK
    <2>5. Locks(c, "reap", "clone")
      BY <1>0 DEF Locks, LockStep, InSched, InKernel
    <2> QED
      BY <1>0, <1>a, <2>2, <2>3, <2>4, <2>5, PlainStep DEF queues
  <1>3. CASE Goto(c, "exit") /\ UNCHANGED <<ret, loc>>
    BY <1>0, <1>a, <1>3, GotoStep DEF InKernel
  <1>4. \A w \in {0} \cup {pid[q] : q \in {r \in Proc : ppid[r] = tgid[current[c]]}} : w \in 0 .. MaxPid
    BY ConstantsAssumption DEF Inv, TypeOK
  <1> QED
    BY <1>1, <1>2, <1>3, <1>4 DEF sys_start

\* The task switched to releases sched_lock ...
LEMMA ResumeStep ==
    ASSUME Inv, NEW c \in CPU, resume(c)
    PROVE  Inv'
  <1> DEFINE r == ret[stack[c]]
             l == IF had[stack[c]] THEN "relock" ELSE r
  <1>0. /\ stack[c] \in Task /\ r \in Returns /\ pc[stack[c]] = "resume"
        /\ sched_lock = c /\ kernel_lock # c /\ (had[stack[c]] <=> r \in InKernel)
        /\ stack[c] = c => r \in {"user", "irqret"}
    BY AtPlace DEF resume, At, InSched, InKernel, HoldsKernel
  <1>1. /\ pc' = [pc EXCEPT ![stack[c]] = l] /\ sched_lock' = NoCPU
        /\ UNCHANGED <<queues, current, stack, kernel_lock, family, kicks, ret, had, loc>>
    BY DEF resume, Goto
  <1>2. /\ l \in Label \ {"schedule", "switch", "resume", "dead", "clone2", "reap", "wakeup", "kick"}
        /\ l = "relock" => r \in InKernel
        /\ stack[c] = c => l \in IdleLabel
        /\ l \notin InKernel /\ l \notin InSched
    BY <1>0 DEF Label, Returns, InKernel, InSched, IdleLabel
  <1> HIDE DEF l
  <1>3. TypeOK'
    BY <1>0, <1>1, <1>2 DEF Inv, TypeOK, family, kicks, queues
  <1>4. Place(c, l, r)
    BY <1>0, <1>2 DEF Place
  <1>5. Goes(c, l, r)
    BY <1>0, <1>1 DEF Goes, Inv, TypeOK
  <1>6. Locks(c, l, r)
    BY <1>0, <1>1, <1>2, ConstantsAssumption DEF Locks, LockStep
  <1> QED
    BY <1>0, <1>1, <1>2, <1>3, <1>4, <1>5, <1>6, PlainStep DEF queues

\* ... and takes the kernel lock back if it had it.
LEMMA RelockStep ==
    ASSUME Inv, NEW c \in CPU, relock(c)
    PROVE  Inv'
  <1> DEFINE r == ret[stack[c]]
  <1>0. /\ stack[c] \in Task /\ r \in Returns /\ r \in InKernel /\ pc[stack[c]] = "relock"
        /\ sched_lock # c /\ stack[c] # c
    BY AtPlace DEF relock, At, InSched, IdleLabel
  <1>1. /\ pc' = [pc EXCEPT ![stack[c]] = "reap"] /\ kernel_lock = NoCPU /\ kernel_lock' = c
        /\ UNCHANGED <<queues, current, stack, sched_lock, family, kicks, ret, had, loc>>
    BY DEF relock, Goto
  <1>2. TypeOK'
    BY <1>0, <1>1 DEF Inv, TypeOK, Label, family, kicks, queues
  <1>3. Place(c, "reap", r)
    BY <1>0 DEF Place, Label
  <1>4. Goes(c, "reap", r)
    BY <1>0, <1>1 DEF Goes, Inv, TypeOK
  <1>5. Locks(c, "reap", r)
    BY <1>0, <1>1, ConstantsAssumption DEF Locks, LockStep, InSched, InKernel
  <1> QED
    BY <1>0, <1>1, <1>2, <1>3, <1>4, <1>5, PlainStep DEF queues

\* A zombie is reaped, by reap_detached or by wait4: its stack is no longer
\* executed on, for sched_lock is free.
LEMMA FreeStep ==
    ASSUME Inv, NEW c \in CPU, NEW p \in Proc, NEW l \in {"reap", "sysret"},
           pc[stack[c]] \in InKernel, pc' = [pc EXCEPT ![stack[c]] = l],
           l = "reap" => ret[stack[c]] \in InKernel,
           sched_lock = NoCPU, state[p] = "KILLED", killed' = killed \ {p}, process_free(p),
           UNCHANGED <<ready, waiting, current, stack, sched_lock, kernel_lock, kicks, ret, had, loc>>
    PROVE  Inv'
  <1>0. /\ stack[c] \in Task /\ ret[stack[c]] \in Returns /\ stack[c] # c
        /\ kernel_lock = c /\ pc[stack[c]] \notin {"schedule", "switch"}
    BY InCall DEF InSched
  <1>1. OneHome'
    BY FreeHome DEF Inv
  <1>2. state' \in [Task -> SlotState] /\ wait_id' \in [Proc -> WaitId] /\ FamilyTypes
    BY FreeTypes DEF Inv
  <1>3. TypeOK'
    BY <1>0, <1>2 DEF Inv, TypeOK, FamilyTypes, Label, kicks
  <1>4. \A d \in CPU : stack[d] # p /\ current[d] # p
    BY OffCPU
  <1>5. (\A t \in Task \ {p} : state'[t] = state[t]) /\ state'[p] = "UNUSED"
    BY DEF process_free, Inv, TypeOK, Task
  <1>6. Place(c, l, ret[stack[c]])
    BY <1>0 DEF Place, Label
  <1>7. Goes(c, l, ret[stack[c]])
    BY <1>0 DEF Goes, Inv, TypeOK
  <1>8. Locks(c, l, ret[stack[c]])
    BY <1>0, ConstantsAssumption DEF Locks, LockStep, InSched, InKernel
  <1> QED
    BY <1>0, <1>1, <1>3, <1>4, <1>5, <1>6, <1>7, <1>8, AsideStep

\* reap_detached frees one zombie, or ends.
LEMMA ReapStep ==
    ASSUME Inv, NEW c \in CPU, reap_detached(c)
    PROVE  Inv'
  <1>0. /\ pc[stack[c]] = "reap" /\ pc[stack[c]] \in InKernel
        /\ stack[c] \in Task /\ ret[stack[c]] \in Returns \cap InKernel
        /\ UNCHANGED <<current, stack, sched_lock, kernel_lock, kicks, ret, had, loc>>
    BY AtPlace DEF reap_detached, At, InKernel
  <1>1. CASE \E p \in killed : /\ killed' = killed \ {p} /\ process_free(p) /\ sched_lock = NoCPU
                               /\ UNCHANGED <<pc, ready, waiting>>
    <2>1. PICK p \in killed : /\ killed' = killed \ {p} /\ process_free(p) /\ sched_lock = NoCPU
                              /\ UNCHANGED <<pc, ready, waiting>>
      BY <1>1
    <2>2. p \in Proc /\ state[p] = "KILLED"
      BY DEF Inv, OneHome
    <2>3. pc' = [pc EXCEPT ![stack[c]] = "reap"]
      BY <1>0, <2>1 DEF Inv, TypeOK
    <2> QED
      BY <1>0, <2>1, <2>2, <2>3, FreeStep
  <1>2. CASE Goto(c, ret[stack[c]]) /\ UNCHANGED <<queues, family>>
    <2>1. ret[stack[c]] \in InKernel \ {"clone2", "reap"}
      BY <1>0 DEF Returns
    <2> QED
      BY <1>0, <1>2, <2>1, GotoStep
  <1> QED
    BY <1>1, <1>2 DEF reap_detached

\* One scan of wait4.
LEMMA Wait4Step ==
    ASSUME Inv, NEW c \in CPU, process_wait4(c) \/ wait4_woken(c)
    PROVE  Inv'
  <1>1. CASE process_wait4(c)
    <2>0. pc[stack[c]] = "wait4" /\ pc[stack[c]] \in InKernel
      BY <1>1 DEF process_wait4, At, InKernel
    <2>1. CASE \E q \in Proc : /\ state[q] = "KILLED" /\ killed' = killed \ {q} /\ process_free(q)
                               /\ sched_lock = NoCPU /\ Goto(c, "sysret")
                               /\ UNCHANGED <<ready, waiting, current, stack, sched_lock,
                                              kernel_lock, kicks, ret, had, loc>>
      BY <2>0, <2>1, FreeStep DEF Goto
    <2>2. CASE /\ Goto(c, "sysret")
               /\ UNCHANGED <<queues, current, stack, sched_lock, kernel_lock, family, kicks,
                              ret, had, loc>>
      BY <2>0, <2>2, GotoStep DEF InKernel
    <2>3. CASE process_sleep(c, tgid[current[c]], "wait4r")
      <3>1. /\ kernel_lock = c /\ current[c] \in Proc /\ pc[stack[c]] \notin InSched
        BY <2>0, InCall
      <3>2. tgid[current[c]] \in WaitId
        BY <3>1, WaitIds DEF Inv, TypeOK
      <3>3. "wait4r" \in Returns /\ "wait4r" \in InKernel
        BY DEF Returns, InKernel
      <3> QED
        BY <2>3, <3>1, <3>2, <3>3, SleepStep
    <2> QED
      BY <1>1, <2>1, <2>2, <2>3 DEF process_wait4, Zombie
  <1>2. CASE wait4_woken(c)
    <2>1. PICK l \in {"wait4", "sysret"} : Goto(c, l)
      BY <1>2 DEF wait4_woken
    <2>2. /\ pc[stack[c]] \in InKernel /\ l \in InKernel \ {"clone2", "reap"}
          /\ UNCHANGED <<queues, current, stack, sched_lock, kernel_lock, family, kicks,
                         ret, had, loc>>
      BY <1>2 DEF wait4_woken, At, InKernel
    <2> QED
      BY <2>1, <2>2, GotoStep
  <1> QED
    BY <1>1, <1>2

\* The steps of process_exit before it is KILLED.
LEMMA ExitStep ==
    ASSUME Inv, NEW c \in CPU, process_exit(c) \/ exit_sigchld(c)
    PROVE  Inv'
  <1>1. CASE process_exit(c)
    <2> DEFINE l == IF detached[current[c]] \/ Unattended(current[c]) THEN "exit2" ELSE "sigchld"
    <2>a. pc[stack[c]] = "exit" /\ pc[stack[c]] \in InKernel
      BY <1>1 DEF process_exit, At, InKernel
    <2>0. /\ stack[c] \in Task /\ ret[stack[c]] \in Returns /\ stack[c] # c
          /\ kernel_lock = c /\ sched_lock # c
      BY <2>a, InCall
    <2>1. /\ pc' = [pc EXCEPT ![stack[c]] = l]
          /\ ppid' = [q \in Proc |-> IF q \in Orphans(current[c]) THEN 0 ELSE ppid[q]]
          /\ detached' = [q \in Proc |-> detached[q] \/ q \in Orphans(current[c])
                                          \/ (q = current[c] /\ Unattended(current[c]))]
          /\ UNCHANGED <<queues, current, stack, sched_lock, kernel_lock, kicks,
                         pid, tgid, next_pid, ret, had, loc>>
      BY <1>1 DEF process_exit, Goto
    <2>2. l \in {"exit2", "sigchld"}
      OBVIOUS
    <2> HIDE DEF l
    <2>3. ppid' \in [Proc -> 0 .. MaxPid]
      BY <2>1, ConstantsAssumption DEF Inv, TypeOK
    <2>4. detached' \in [Proc -> BOOLEAN]
      BY <2>1 DEF Inv, TypeOK
    <2>5. TypeOK'
      BY <2>0, <2>1, <2>2, <2>3, <2>4 DEF Inv, TypeOK, Label, kicks, queues
    <2>6. Place(c, l, ret[stack[c]])
      BY <2>0, <2>2 DEF Place, Label
    <2>7. Goes(c, l, ret[stack[c]])
      BY <2>0, <2>1 DEF Goes, Inv, TypeOK
    <2>8. Locks(c, l, ret[stack[c]])
      BY <2>0, <2>1, <2>2 DEF Locks, LockStep, InSched, InKernel
    <2> QED
      BY <2>a, <2>1, <2>2, <2>5, <2>6, <2>7, <2>8, PlainStep DEF queues
  <1>2. CASE exit_sigchld(c)
    <2>a. pc[stack[c]] = "sigchld" /\ pc[stack[c]] \in InKernel
      BY <1>2 DEF exit_sigchld, At, InKernel
    <2>0. stack[c] # c /\ kernel_lock = c
      BY <2>a, InCall
    <2>1. "chldwake" \in Returns /\ "chldwake" \in InKernel \ {"clone2", "reap"}
      BY DEF Returns, InKernel
    <2>2. CASE \E q \in Proc : process_wake(c, q, "chldwake")
      BY <2>a, <2>0, <2>1, <2>2, WakeStep
    <2>3. CASE /\ Goto(c, "chldwake")
               /\ UNCHANGED <<queues, current, stack, sched_lock, kernel_lock, family, kicks,
                              ret, had, loc>>
      BY <2>a, <2>1, <2>3, GotoStep
    <2> QED
      BY <1>2, <2>2, <2>3 DEF exit_sigchld
  <1> QED
    BY <1>1, <1>2

\* create_process claims an unused slot, which no CPU executes on.
LEMMA CreateStep ==
    ASSUME Inv, NEW c \in CPU, create_process(c)
    PROVE  Inv'
  <1>a. pc[stack[c]] = "clone" /\ pc[stack[c]] \in InKernel
    BY DEF create_process, At, InKernel
  <1>0. /\ stack[c] \in Task /\ ret[stack[c]] \in Returns /\ stack[c] # c
        /\ kernel_lock = c /\ sched_lock # c /\ stack[c] = current[c]
        /\ UNCHANGED <<ready, waiting, killed, wait_id, current, stack, sched_lock, kernel_lock,
                       kicks, ret, had>>
    BY <1>a, InCall DEF create_process
  <1>1. CASE Goto(c, "sysret") /\ UNCHANGED <<state, family, loc>>
    BY <1>a, <1>0, <1>1, GotoStep DEF InKernel, queues
  <1>2. ASSUME NEW p \in Proc, state[p] = "UNUSED", state' = [state EXCEPT ![p] = "INIT"],
               pid' = [pid EXCEPT ![p] = next_pid], tgid' = [tgid EXCEPT ![p] = next_pid],
               loc' = [loc EXCEPT ![stack[c]].child = p], next_pid <= MaxPid,
               next_pid' = next_pid + 1, Goto(c, "clone2"), UNCHANGED <<ppid, detached>>
        PROVE  Inv'
    <2> DEFINE new == [loc[stack[c]] EXCEPT !.child = p]
    <2>1. pc' = [pc EXCEPT ![stack[c]] = "clone2"] /\ loc' = [loc EXCEPT ![stack[c]] = new]
      BY <1>2 DEF Goto
    <2>2. new \in Locals /\ new.child = p
      <3>1. loc[stack[c]] \in Locals
        BY <1>0 DEF Inv, TypeOK
      <3> QED
        BY <3>1 DEF Locals
    <2> HIDE DEF new
    <2>3. next_pid \in 0 .. MaxPid /\ next_pid' \in 1 .. MaxPid + 1
      BY <1>2, ConstantsAssumption DEF Inv, TypeOK
    <2>4. TypeOK'
      <3>1. /\ state' \in [Task -> SlotState] /\ pc' \in [Task -> Label] /\ loc' \in [Task -> Locals]
        <4>1. state' = [state EXCEPT ![p] = "INIT"]
          BY <1>2
        <4> QED
          BY <2>1, <2>2, <4>1 DEF Inv, TypeOK, Label, SlotState
      <3>2. pid' \in [Proc -> 0 .. MaxPid] /\ tgid' \in [Proc -> 0 .. MaxPid]
        BY <1>2, <2>3 DEF Inv, TypeOK
      <3> QED
        BY <1>0, <1>2, <2>3, <3>1, <3>2 DEF Inv, TypeOK, kicks
    <2>5. \A d \in CPU : stack[d] # p /\ current[d] # p
      BY <1>2, OffCPU
    <2>6. /\ \A t \in Task \ {p} : state'[t] = state[t]
          /\ state'[p] = "INIT"
      BY <1>2 DEF Inv, TypeOK, Task
    <2>7. OneHome'
      <3>1. \A q \in Proc : state'[q] = state[q] \/ {state[q], state'[q]} \subseteq {"UNUSED", "INIT", "RUNNING"}
        BY <1>2, <2>6 DEF Task
      <3> QED
        BY <1>0, <3>1, SameHome DEF Inv
    <2>8. Move(c, "clone2", ret[stack[c]])
      <3>1. Aside(p)
        BY <1>2, <2>5, <2>6 DEF Aside, SlotState
      <3>2. \A t \in Task \ {stack[c], p} : Same(t)
        BY <1>0, <2>1, <2>6 DEF Same, Inv, TypeOK
      <3>3. /\ pc'[stack[c]] = "clone2" /\ ret'[stack[c]] = ret[stack[c]]
            /\ state'[stack[c]] = state[stack[c]]
        BY <1>0, <2>1, <2>5, <2>6 DEF Inv, TypeOK
      <3>4. /\ LockStep(sched_lock, sched_lock', c, FALSE)
            /\ LockStep(kernel_lock, kernel_lock', c, TRUE)
        BY <1>0 DEF LockStep
      <3>5. "clone2" \in InKernel /\ "clone2" \notin InSched /\ "clone2" \in Label
        BY DEF InKernel, InSched, Label
      <3> QED
        BY <1>a, <1>0, <3>1, <3>2, <3>3, <3>4, <3>5 DEF Move, LockStep
    <2>9. Control'
      BY <2>8, MoveStep DEF Inv
    <2>10. Filling'
      <3> SUFFICES ASSUME NEW d \in CPU, pc'[stack[d]] = "clone2"
                   PROVE  loc'[stack[d]].child \in Proc /\ state'[loc'[stack[d]].child] = "INIT"
        BY <1>0 DEF Filling
      <3>1. d = c
        BY <1>0, <2>9 DEF Control, KernelLock, HoldsKernel, InKernel
      <3>2. loc'[stack[c]] = new
        BY <1>0, <2>1 DEF Inv, TypeOK
      <3> QED
        BY <2>2, <2>6, <3>1, <3>2
    <2> QED
      BY <2>4, <2>7, <2>9, <2>10 DEF Inv
  <1> QED
    BY <1>1, <1>2 DEF create_process

\* process_clone gives the slot back, or starts the new process.
LEMMA CloneStep ==
    ASSUME Inv, NEW c \in CPU, process_clone(c)
    PROVE  Inv'
  <1> DEFINE p == loc[stack[c]].child
             self == current[c]
  <1>a. pc[stack[c]] = "clone2" /\ pc[stack[c]] \in InKernel
    BY DEF process_clone, At, InKernel
  <1>0. /\ stack[c] \in Task /\ ret[stack[c]] \in Returns /\ stack[c] # c
        /\ kernel_lock = c /\ sched_lock # c /\ stack[c] = current[c] /\ self \in Proc
        /\ UNCHANGED <<waiting, killed, current, stack, sched_lock, kernel_lock, kicks>>
    BY <1>a, InCall DEF process_clone
  <1>1. p \in Proc /\ state[p] = "INIT"
    BY <1>a DEF Inv, Filling
  <1>2. \A d \in CPU : stack[d] # p /\ current[d] # p
    BY <1>1, OffCPU
  <1>3. CASE process_free(p) /\ Goto(c, "sysret") /\ UNCHANGED <<ready, ret, had, loc>>
    <2> HIDE DEF p
    <2>1. state' \in [Task -> SlotState] /\ wait_id' \in [Proc -> WaitId] /\ FamilyTypes
      BY <1>1, <1>3, FreeTypes DEF Inv
    <2>2. pc' = [pc EXCEPT ![stack[c]] = "sysret"]
      BY <1>3 DEF Goto
    <2>3. TypeOK'
      BY <1>0, <1>3, <2>1, <2>2 DEF Inv, TypeOK, FamilyTypes, Label, kicks
    <2>4. (\A t \in Task \ {p} : state'[t] = state[t]) /\ state'[p] = "UNUSED"
      BY <1>1, <1>3 DEF process_free, Inv, TypeOK, Task
    <2>5. OneHome'
      <3>1. \A q \in Proc : state'[q] = state[q] \/ {state[q], state'[q]} \subseteq {"UNUSED", "INIT", "RUNNING"}
        BY <1>1, <2>4 DEF Task
      <3> QED
        BY <1>0, <1>3, <3>1, SameHome DEF Inv
    <2>6. Place(c, "sysret", ret[stack[c]])
      BY <1>0 DEF Place, Label
    <2>7. Goes(c, "sysret", ret[stack[c]])
      BY <1>0, <1>3, <2>2 DEF Goes, Inv, TypeOK
    <2>8. Locks(c, "sysret", ret[stack[c]])
      BY <1>0 DEF Locks, LockStep, InSched, InKernel
    <2> QED
      BY <1>a, <1>1, <1>2, <2>3, <2>4, <2>5, <2>6, <2>7, <2>8, AsideStep
  <1>4. ASSUME state' = [state EXCEPT ![p] = "READY"], ready' = Append(ready, p),
               pc' = [pc EXCEPT ![p] = "resume", ![stack[c]] = "kick"],
               ret' = [ret EXCEPT ![p] = "user", ![stack[c]] = "sysret"],
               had' = [had EXCEPT ![p] = FALSE],
               loc' = [loc EXCEPT ![p] = NoLoc,
                                  ![stack[c]] = [NoLoc EXCEPT !.left = 1, !.todo = CPU \ {c}]],
               tgid' \in [Proc -> 0 .. MaxPid], ppid' \in [Proc -> 0 .. MaxPid],
               UNCHANGED <<pid, detached, next_pid, wait_id>>
        PROVE  Inv'
    <2> HIDE DEF p
    <2>1. stack[c] # p /\ p \in Task
      BY <1>1, <1>2 DEF Task
    <2>2. /\ pc'[stack[c]] = "kick" /\ ret'[stack[c]] = "sysret" /\ state'[stack[c]] = state[stack[c]]
          /\ pc'[p] = "resume" /\ ret'[p] = "user" /\ ~had'[p] /\ state'[p] = "READY"
          /\ \A t \in Task \ {stack[c], p} : Same(t) /\ loc'[t] = loc[t]
          /\ \A t \in Task \ {p} : state'[t] = state[t]
      BY <1>0, <1>4, <2>1 DEF Same, Inv, TypeOK
    <2>3. Move(c, "kick", "sysret")
      <3>1. Aside(p)
        BY <1>1, <1>2, <2>2 DEF Aside, SlotState, Returns, InKernel
      <3>2. /\ LockStep(sched_lock, sched_lock', c, FALSE)
            /\ LockStep(kernel_lock, kernel_lock', c, TRUE)
        BY <1>0 DEF LockStep
      <3>3. /\ "kick" \notin InSched /\ "kick" \in Label /\ "kick" \notin InKernel
            /\ "sysret" \in InKernel /\ "sysret" \in Returns
        BY DEF InKernel, InSched, Label, Returns
      <3> QED
        BY <1>a, <1>0, <2>2, <3>1, <3>2, <3>3 DEF Move, LockStep
    <2>4. Control'
      BY <2>3, MoveStep DEF Inv
    <2>5. p \notin Members(ready)
      BY <1>1 DEF Inv, OneHome
    <2>6. /\ ready' \in Seq(Proc) /\ Distinct(ready')
          /\ Members(ready') = Members(ready) \cup {p}
      BY <1>1, <1>4, <2>5, AppendQueue DEF Inv, TypeOK, OneHome
    <2>7. \A q \in Proc : state'[q] = IF q = p THEN "READY" ELSE state[q]
      BY <2>2 DEF Task
    <2>8. OneHome'
      <3>1. Members(ready') = {q \in Proc : state'[q] = "READY"}
        BY <1>1, <2>6, <2>7 DEF Inv, OneHome
      <3>2. /\ {q \in Proc : state'[q] = "SLEEPING"} = {q \in Proc : state[q] = "SLEEPING"}
            /\ {q \in Proc : state'[q] = "KILLED"} = {q \in Proc : state[q] = "KILLED"}
        BY <1>1, <2>7
      <3> QED
        BY <1>0, <2>6, <3>1, <3>2 DEF Inv, OneHome
    <2>9. TypeOK'
      <3>1. [NoLoc EXCEPT !.left = 1, !.todo = CPU \ {c}] \in Locals
        <4>1. ASSUME NEW l \in Locals, NEW m \in Int, NEW T \in SUBSET CPU
              PROVE  [l EXCEPT !.left = m, !.todo = T] \in Locals
          BY DEF Locals
        <4>2. 1 \in Int /\ CPU \ {c} \in SUBSET CPU
          OBVIOUS
        <4> QED
          BY <4>1, <4>2, NoLocType
      <3>2. loc' \in [Task -> Locals]
        BY <1>4, <3>1, NoLocType DEF Inv, TypeOK
      <3>3. state' \in [Task -> SlotState] /\ pc' \in [Task -> Label] /\ ret' \in [Task -> Label]
            /\ had' \in [Task -> BOOLEAN]
        BY <1>4 DEF Inv, TypeOK, SlotState, Label
      <3> QED
        BY <1>0, <1>4, <2>6, <3>2, <3>3 DEF Inv, TypeOK, kicks
    <2>10. Filling'
      <3>1. \A d \in CPU \ {c} : stack[d] \in Task \ {stack[c], p}
        BY <1>2, <1>a, AtPlace
      <3> QED
        BY <1>a, <1>0, <2>2, <2>4, <3>1, FillingStep DEF Same
    <2> QED
      BY <2>4, <2>8, <2>9, <2>10 DEF Inv
  <1>5. \/ process_free(p) /\ Goto(c, "sysret") /\ UNCHANGED <<ready, ret, had, loc>>
        \/ /\ state' = [state EXCEPT ![p] = "READY"] /\ ready' = Append(ready, p)
           /\ pc' = [pc EXCEPT ![p] = "resume", ![stack[c]] = "kick"]
           /\ ret' = [ret EXCEPT ![p] = "user", ![stack[c]] = "sysret"]
           /\ had' = [had EXCEPT ![p] = FALSE]
           /\ loc' = [loc EXCEPT ![p] = NoLoc,
                                 ![stack[c]] = [NoLoc EXCEPT !.left = 1, !.todo = CPU \ {c}]]
           /\ \/ tgid' = [tgid EXCEPT ![p] = tgid[self]]
              \/ UNCHANGED tgid
           /\ \/ ppid' = [ppid EXCEPT ![p] = ppid[self]]
              \/ ppid' = [ppid EXCEPT ![p] = tgid[self]]
           /\ UNCHANGED <<pid, detached, next_pid, wait_id>>
    BY DEF process_clone
  <1>6. tgid[self] \in 0 .. MaxPid /\ ppid[self] \in 0 .. MaxPid
    BY <1>0 DEF Inv, TypeOK
  <1> HIDE DEF p, self
  <1>7. /\ tgid' = [tgid EXCEPT ![p] = tgid[self]] \/ UNCHANGED tgid => tgid' \in [Proc -> 0 .. MaxPid]
        /\ \/ ppid' = [ppid EXCEPT ![p] = ppid[self]]
           \/ ppid' = [ppid EXCEPT ![p] = tgid[self]]
           => ppid' \in [Proc -> 0 .. MaxPid]
    BY <1>6 DEF Inv, TypeOK
  <1> QED
    BY <1>3, <1>4, <1>5, <1>7

-------------------------------------------------------------------------------
(* The invariant *)

\* The boot state.
LEMMA InitInv == Init => Inv
  <1> SUFFICES ASSUME Init PROVE Inv
    OBVIOUS
  <1> USE ConstantsAssumption
  <1>1. PICK shell \in Proc, boot \in CPU :
        /\ state = [t \in Task |-> IF t = shell \/ t \in CPU \ {boot} THEN "RUNNING"
                                   ELSE IF t = boot THEN "READY" ELSE "UNUSED"]
        /\ current = [c \in CPU |-> IF c = boot THEN shell ELSE c] /\ stack = current
        /\ pid = [p \in Proc |-> IF p = shell THEN 1 ELSE 0] /\ tgid = pid
        /\ pc = [t \in Task |-> IF t = boot THEN "resume" ELSE "user"]
        /\ ready = <<>> /\ waiting = <<>> /\ killed = {} /\ wait_id = [p \in Proc |-> 0]
        /\ sched_lock = NoCPU /\ kernel_lock = NoCPU
        /\ ppid = [p \in Proc |-> 0] /\ detached = [p \in Proc |-> FALSE] /\ next_pid = 2
        /\ kick_pending = [c \in CPU |-> FALSE] /\ ipi = [c \in CPU |-> FALSE]
        /\ seen = [c \in CPU |-> NoCPU] /\ sending = seen
        /\ ret = [t \in Task |-> "user"] /\ had = [t \in Task |-> FALSE]
        /\ loc = [t \in Task |-> NoLoc]
    BY DEF Init
  <1>2. TypeOK
    BY <1>1, WaitIds, NoLocType DEF TypeOK, Task, SlotState, Label
  <1>3. OneHome
    <2>1. \A p \in Proc : state[p] \in {"RUNNING", "UNUSED"}
      BY <1>1 DEF Task
    <2> QED
      BY <1>1, <2>1 DEF OneHome, Distinct, Members
  <1>4. /\ \A c \in CPU : /\ stack[c] = current[c] /\ current[c] \in Proc \cup {c}
                          /\ pc[stack[c]] = "user" /\ state[stack[c]] = "RUNNING"
        /\ \A c, d \in CPU : c # d => stack[c] # stack[d]
    BY <1>1 DEF Task
  <1>5. PerCPU /\ Apart
    BY <1>4 DEF PerCPU, Apart
  <1>6. SchedLock /\ KernelLock
    BY <1>1, <1>4 DEF SchedLock, KernelLock, HoldsKernel, InSched, InKernel
  <1>7. OnCPU /\ HasCPU
    BY <1>1, <1>4 DEF OnCPU, HasCPU, Task
  <1>8. Saved
    BY <1>1 DEF Saved, Live, Task
  <1>9. Remembers
    BY <1>1 DEF Remembers, Live, Returns, InKernel
  <1>10. Idles
    BY <1>1 DEF Idles, IdleLabel, Task
  <1>11. Filling
    BY <1>4 DEF Filling
  <1> QED
    BY <1>2, <1>3, <1>5, <1>6, <1>7, <1>8, <1>9, <1>10, <1>11 DEF Inv, Control

\* Every step, of any CPU, preserves the invariant.
LEMMA NextInv == Inv /\ [Next]_vars => Inv'
  <1> SUFFICES ASSUME Inv, [Next]_vars PROVE Inv'
    OBVIOUS
  <1>1. ASSUME NEW c \in CPU, Kernel(c)  PROVE Inv'
    <2>1. CASE \/ schedule(c) \/ switch_process(c) \/ resume(c) \/ relock(c) \/ reap_detached(c)
      BY <2>1, ScheduleInv, SwitchInv, ResumeStep, RelockStep, ReapStep
    <2>2. CASE \/ wakeup_loop(c) \/ kick_idle_cpus(c) \/ irq_return(c) \/ syscall_return(c)
      BY <2>2, WakeupLoopStep, KickLoopStep, InterruptStep, SyscallStep
    <2>3. CASE \/ sys_sleep(c) \/ sys_wakeup(c) \/ sys_start(c) \/ create_process(c) \/ process_clone(c)
      BY <2>3, SysSleepStep, SysWakeupStep, SysStartStep, CreateStep, CloneStep
    <2>4. CASE \/ process_exit(c) \/ exit_sigchld(c) \/ exit_wakeup(c) \/ exit_poll(c) \/ exit_killed(c)
      BY <2>4, ExitStep, SysWakeupStep, KilledStep
    <2>5. CASE process_wait4(c) \/ wait4_woken(c)
      BY <2>5, Wait4Step
    <2> QED
      BY <1>1, <2>1, <2>2, <2>3, <2>4, <2>5 DEF Kernel
  <1>2. ASSUME NEW c \in CPU,
               \/ tick(c) \/ resched(c) \/ irq_wake(c) \/ handle_syscall(c) \/ sleep_unlocked(c)
        PROVE  Inv'
    BY <1>2, InterruptStep, SyscallStep, SysSleepStep
  <1>3. CASE UNCHANGED vars
    <2>1. UNCHANGED <<state, ready, waiting, killed, wait_id, current, stack, sched_lock,
                      kernel_lock, pid, tgid, ppid, detached, next_pid, kick_pending, ipi,
                      seen, sending, pc, ret, had, loc>>
      BY <1>3 DEF vars, queues, family, kicks
    <2>2. TypeOK'
      BY <2>1 DEF Inv, TypeOK
    <2>3. OneHome'
      BY <2>1, SameHome DEF Inv
    <2>4. Control'
      BY <2>1 DEF Inv, Control, PerCPU, Apart, SchedLock, KernelLock, HoldsKernel, OnCPU,
                  HasCPU, Saved, Remembers, Live, Idles
    <2>5. Filling'
      BY <2>1 DEF Inv, Filling
    <2> QED
      BY <2>2, <2>3, <2>4, <2>5 DEF Inv
  <1> QED
    BY <1>1, <1>2, <1>3 DEF Next

\* The invariant holds in every state of every behaviour, for any number of
\* CPUs, process slots, pids and wait channels.
THEOREM InvHolds == Spec => []Inv
  BY InitInv, NextInv, PTL DEF Spec

\* What the invariant says of the stacks and of current.
LEMMA InvSafe == Inv => TypeOK /\ OneHome /\ StackSafe /\ OneCPU
  <1> SUFFICES ASSUME Inv PROVE StackSafe /\ OneCPU
    BY DEF Inv
  <1>1. /\ \A c, d \in CPU : stack[c] = stack[d] => c = d
        /\ \A c, d \in CPU : current[c] = current[d] => c = d
    BY DEF Inv, Control, Apart
  <1>2. ASSUME NEW c \in CPU
        PROVE  /\ state[stack[c]] \notin {"UNUSED", "INIT"}
               /\ state[stack[c]] # "RUNNING" => sched_lock = c
               /\ state[current[c]] # "RUNNING" => sched_lock = c
    BY DEF Inv, Control, PerCPU, OnCPU, SchedLock, InSched
  <1>3. HasCPU
    BY DEF Inv, Control
  <1> QED
    BY <1>1, <1>2, <1>3 DEF StackSafe, OneCPU, HasCPU

\* Every variable of the scheduler keeps its type.
THEOREM TypeCorrect == Spec => []TypeOK
  BY InvHolds, InvSafe, PTL

\* A process is always in exactly the queue its state names.
THEOREM QueuesSafe == Spec => []OneHome
  BY InvHolds, InvSafe, PTL

\* No two CPUs ever execute on one kernel stack, none on a freed one, and a
\* context is saved before anyone can pick or reap its process.
THEOREM StacksSafe == Spec => []StackSafe
  BY InvHolds, InvSafe, PTL

\* No process is ever current on two CPUs.
THEOREM CurrentSafe == Spec => []OneCPU
  BY InvHolds, InvSafe, PTL

-------------------------------------------------------------------------------
(* An idle machine has nothing to do *)

\* What a step of CPU c does to idling: it leaves the other CPUs where they
\* are, touches the ready queue under sched_lock only, goes to or stays in the
\* idle loop with an empty queue only, kicks from there only in interrupt
\* handlers, and keeps what kick_pending promises.
Idling(c) ==
    /\ \A d \in CPU \ {c} : current'[d] = current[d] /\ pc'[stack'[d]] = pc[stack[d]]
    /\ ready' = ready \/ sched_lock \in {c, NoCPU}
    /\ current'[c] = c /\ pc'[stack'[c]] \in {"user", "switch", "resume"} => ready' = <<>>
    /\ \A d \in CPU : \/ pc'[d] = pc[d] /\ ret'[d] = ret[d]
                      \/ pc'[d] \notin {"kick", "wakeup"} \/ ret'[d] = "irqret"
    /\ KickSound'

\* Such a step preserves the invariant.
LEMMA IdlingStep ==
    ASSUME Inv, IdleInv, NEW c \in CPU, Idling(c)
    PROVE  IdleInv'
  <1>1. NoIdleMachine'
    BY DEF NoIdleMachine, At, Idling
  <1>2. IdleQueue'
    <2> SUFFICES ASSUME NEW d \in CPU, current'[d] = d, pc'[stack'[d]] \in {"switch", "resume"}
                 PROVE  ready' = <<>>
      BY DEF IdleQueue
    <2>1. CASE d = c
      BY <2>1 DEF Idling
    <2>2. CASE d # c
      <3>1. current[d] = d /\ pc[stack[d]] \in {"switch", "resume"}
        BY <2>2 DEF Idling
      <3>2. ready = <<>>
        BY <3>1 DEF IdleInv, IdleQueue
      <3>3. sched_lock = d
        BY <3>1 DEF Inv, Control, SchedLock, InSched
      <3> QED
        BY <2>2, <3>2, <3>3, ConstantsAssumption DEF Idling
    <2> QED
      BY <2>1, <2>2
  <1>3. IdleKick'
    BY DEF IdleInv, IdleKick, Idling
  <1> QED
    BY <1>1, <1>2, <1>3 DEF IdleInv

\* A CPU that runs a process and goes on with it.
Busy(c) ==
    /\ current[c] \in Proc /\ stack[c] = current[c]
    /\ UNCHANGED <<current, stack, kick_pending, ipi, sending>>
    /\ ready' = ready \/ sched_lock \in {c, NoCPU}
    /\ \A t \in Task \ {stack[c]} : \/ pc'[t] = pc[t] /\ ret'[t] = ret[t]
                                    \/ t \in Proc /\ \A d \in CPU : stack[d] # t

LEMMA BusyStep ==
    ASSUME Inv, IdleInv, NEW c \in CPU, Busy(c)
    PROVE  IdleInv'
  <1>1. \A d \in CPU \ {c} : stack[d] \in Task /\ stack[d] # stack[c]
    BY DEF Inv, Control, Apart, TypeOK
  <1>2. \A d \in CPU \ {c} : current'[d] = current[d] /\ pc'[stack'[d]] = pc[stack[d]]
    BY <1>1 DEF Busy
  <1>3. current'[c] # c
    BY ConstantsAssumption DEF Busy
  <1>4. \A d \in CPU : pc'[d] = pc[d] /\ ret'[d] = ret[d]
    BY ConstantsAssumption DEF Busy, Task
  <1>5. KickSound'
    BY DEF Busy, IdleInv, NoIdleMachine, KickSound, OnItsWay
  <1>6. Idling(c)
    BY <1>2, <1>3, <1>4, <1>5 DEF Idling, Busy
  <1> QED
    BY <1>6, IdlingStep

\* Waking and freeing, called in a system call.
LEMMA BusyCalls ==
    ASSUME Inv, NEW c \in CPU, stack[c] = current[c], current[c] \in Proc
    PROVE  /\ \A id, r : process_sleep(c, id, r) => Busy(c)
           /\ \A id, n, r : process_wakeup_n(c, id, n, r) => Busy(c)
           /\ \A p, r : process_wake(c, p, r) => Busy(c)
           /\ \A l : Goto(c, l) /\ UNCHANGED <<ready, current, stack, kicks, ret>>
                       => Busy(c)
  <1>0. stack[c] \in Task /\ pc \in [Task -> Label] /\ ret \in [Task -> Label]
    BY DEF Inv, TypeOK
  <1>1. ASSUME NEW id, NEW r, process_sleep(c, id, r)  PROVE Busy(c)
    BY <1>0, <1>1 DEF process_sleep, EnterSwitch, Goto, Busy, kicks
  <1>2. ASSUME NEW id, NEW n, NEW r, process_wakeup_n(c, id, n, r)  PROVE Busy(c)
    BY <1>0, <1>2 DEF process_wakeup_n, Goto, Busy, kicks, queues
  <1>3. ASSUME NEW p, NEW r, process_wake(c, p, r)  PROVE Busy(c)
    BY <1>0, <1>3 DEF process_wake, BeginKick, Goto, Busy, kicks
  <1>4. ASSUME NEW l, Goto(c, l), UNCHANGED <<ready, current, stack, kicks, ret>>
        PROVE  Busy(c)
    BY <1>0, <1>4 DEF Goto, Busy, kicks
  <1> QED
    BY <1>1, <1>2, <1>3, <1>4

\* The steps inside a system call.
LEMMA BusySyscall ==
    ASSUME Inv, NEW c \in CPU,
           \/ reap_detached(c) \/ syscall_return(c) \/ sys_sleep(c) \/ sys_wakeup(c)
           \/ sys_start(c) \/ create_process(c) \/ process_clone(c) \/ process_exit(c)
           \/ exit_sigchld(c) \/ exit_wakeup(c) \/ exit_poll(c) \/ exit_killed(c)
           \/ process_wait4(c) \/ wait4_woken(c)
    PROVE  Busy(c)
  <1>1. pc[stack[c]] \in InKernel
    BY DEF reap_detached, syscall_return, sys_sleep, sys_wakeup, sys_start, create_process,
           process_clone, process_exit, exit_sigchld, exit_wakeup, exit_poll, exit_killed,
           process_wait4, wait4_woken, At, InKernel
  <1>2. stack[c] = current[c] /\ current[c] \in Proc
    BY <1>1, InCall
  <1>3. stack[c] \in Task /\ pc \in [Task -> Label] /\ ret \in [Task -> Label]
    BY DEF Inv, TypeOK
  <1>4. CASE reap_detached(c)
    BY <1>2, <1>3, <1>4 DEF reap_detached, Goto, Busy, kicks, queues
  <1>5. CASE syscall_return(c)
    BY <1>2, <1>3, <1>5 DEF syscall_return, Goto, Busy, kicks, queues
  <1>6. CASE sys_sleep(c) \/ sys_wakeup(c) \/ exit_wakeup(c)
    BY <1>2, <1>6, BusyCalls DEF sys_sleep, sys_wakeup, exit_wakeup
  <1>7. CASE sys_start(c)
    BY <1>2, <1>3, <1>7 DEF sys_start, Goto, Busy, kicks, queues
  <1>8. CASE create_process(c)
    BY <1>2, <1>3, <1>8 DEF create_process, Goto, Busy, kicks
  <1>9. CASE process_clone(c)
    <2> DEFINE p == loc[stack[c]].child
    <2>1. p \in Proc /\ state[p] = "INIT"
      BY <1>9 DEF process_clone, At, Inv, Filling
    <2>2. \A d \in CPU : stack[d] # p
      BY <2>1, OffCPU
    <2>3. UNCHANGED <<current, stack, kick_pending, ipi, sending>>
      BY <1>9 DEF process_clone, kicks
    <2>4. \/ Goto(c, "sysret") /\ UNCHANGED <<ready, ret>>
          \/ /\ sched_lock = NoCPU
             /\ pc' = [pc EXCEPT ![p] = "resume", ![stack[c]] = "kick"]
             /\ ret' = [ret EXCEPT ![p] = "user", ![stack[c]] = "sysret"]
      BY <1>9 DEF process_clone
    <2> HIDE DEF p
    <2> QED
      BY <1>2, <1>3, <2>1, <2>2, <2>3, <2>4 DEF Busy, Goto
  <1>10. CASE process_exit(c) \/ wait4_woken(c)
    BY <1>2, <1>3, <1>10 DEF process_exit, wait4_woken, Goto, Busy, kicks, queues
  <1>11. CASE exit_sigchld(c)
    BY <1>2, <1>11, BusyCalls DEF exit_sigchld, kicks, queues
  <1>12. CASE exit_poll(c)
    BY <1>2, <1>12, BusyCalls DEF exit_poll, kicks, queues
  <1>13. CASE exit_killed(c)
    BY <1>2, <1>3, <1>13 DEF exit_killed, EnterSwitch, Goto, Busy, kicks
  <1>14. CASE process_wait4(c)
    BY <1>2, <1>14, BusyCalls DEF process_wait4, kicks, queues
  <1> QED
    BY <1>4, <1>5, <1>6, <1>7, <1>8, <1>9, <1>10, <1>11, <1>12, <1>13, <1>14

\* Entering a system call, and the kernel lock taken again after a sleep.
LEMMA BusyEntry ==
    ASSUME Inv, NEW c \in CPU, handle_syscall(c) \/ sleep_unlocked(c) \/ relock(c)
    PROVE  Busy(c)
  <1>1. pc[stack[c]] \in {"user", "relock"}
    BY DEF handle_syscall, sleep_unlocked, relock, At
  <1>2. stack[c] = current[c] /\ current[c] \in Proc
    BY <1>1, AtPlace DEF handle_syscall, sleep_unlocked, relock, At, IdleLabel
  <1>3. CASE handle_syscall(c) \/ relock(c)
    BY <1>2, <1>3, BusyCalls DEF handle_syscall, relock, kicks, queues
  <1>4. CASE sleep_unlocked(c)
    BY <1>2, <1>4, BusyCalls DEF sleep_unlocked
  <1> QED
    BY <1>3, <1>4

\* schedule() and context_switch: the idle process is chosen only when the
\* queue is empty, and both hold sched_lock.
LEMMA IdlingSwitch ==
    ASSUME Inv, IdleInv, NEW c \in CPU, schedule(c) \/ switch_process(c)
    PROVE  Idling(c)
  <1>0. /\ stack \in [CPU -> Task] /\ current \in [CPU -> Task] /\ stack[c] \in Task
        /\ pc \in [Task -> Label] /\ kick_pending \in [CPU -> BOOLEAN]
        /\ \A d \in CPU \ {c} : stack[d] # stack[c] /\ stack[d] \in Task
        /\ \A d \in CPU : d \in Task
    BY DEF Inv, TypeOK, Control, Apart, Task
  <1>1. sched_lock = c
    BY DEF schedule, switch_process, At, Inv, Control, SchedLock, InSched
  <1>2. KickSound
    BY DEF IdleInv, NoIdleMachine
  <1>3. CASE schedule(c)
    <2> DEFINE next == IF ready = <<>> THEN c ELSE Head(ready)
    <2>1. /\ current' = [current EXCEPT ![c] = next] /\ UNCHANGED <<stack, ret, ipi, sending>>
          /\ kick_pending' = [kick_pending EXCEPT ![c] = FALSE]
          /\ pc' = [pc EXCEPT ![stack[c]] = IF next = current[c] THEN "resume" ELSE "switch"]
      BY <1>3 DEF schedule, Goto
    <2>2. next = c => ready' = <<>>
      <3>1. ready # <<>> => Head(ready) \in Proc
        BY TailQueue DEF Inv, TypeOK, OneHome
      <3>2. ready' = Dequeue(ready)
        BY <1>3 DEF schedule
      <3> QED
        BY <3>1, <3>2, ConstantsAssumption DEF Dequeue
    <2> HIDE DEF next
    <2>3. KickSound'
      BY <1>0, <1>2, <2>1 DEF KickSound, OnItsWay
    <2>4. \A d \in CPU : pc'[d] = pc[d] \/ pc'[d] \notin {"kick", "wakeup"}
      BY <1>0, <2>1
    <2>5. \A d \in CPU \ {c} : current'[d] = current[d] /\ pc'[stack'[d]] = pc[stack[d]]
      BY <1>0, <2>1
    <2>6. current'[c] = next
      BY <1>0, <2>1
    <2> QED
      BY <1>1, <2>1, <2>2, <2>3, <2>4, <2>5, <2>6 DEF Idling
  <1>4. CASE switch_process(c)
    <2>1. /\ stack' = [stack EXCEPT ![c] = current[c]]
          /\ pc' = [pc EXCEPT ![stack[c]] = "resume"]
          /\ UNCHANGED <<ready, current, kick_pending, ipi, sending, ret>>
      BY <1>4 DEF switch_process, Goto, queues, kicks
    <2>2. current[c] = c => ready = <<>>
      BY <1>4 DEF switch_process, At, IdleInv, IdleQueue
    <2>3. \A d \in CPU : pc'[d] = pc[d] \/ pc'[d] \notin {"kick", "wakeup"}
      BY <1>0, <2>1
    <2>4. \A d \in CPU \ {c} : current'[d] = current[d] /\ pc'[stack'[d]] = pc[stack[d]]
      BY <1>0, <2>1
    <2> QED
      BY <1>1, <1>2, <2>1, <2>2, <2>3, <2>4 DEF Idling, KickSound, OnItsWay
  <1> QED
    BY <1>3, <1>4

\* CPU c goes on at l on the same stack, with the return address r.
Onward(c, l, r) ==
    /\ UNCHANGED <<current, stack>>
    /\ pc' = [pc EXCEPT ![stack[c]] = l] /\ ret' = [ret EXCEPT ![stack[c]] = r]
    /\ ready' = ready \/ sched_lock \in {c, NoCPU}
    /\ stack[c] = c => /\ l \in {"user", "switch", "resume"} => ready' = <<>>
                       /\ l \in {"kick", "wakeup"} => r = "irqret"
    /\ KickSound'

LEMMA OnwardStep ==
    ASSUME Inv, NEW c \in CPU, NEW l, NEW r,
           pc[stack[c]] \notin {"schedule", "switch"}, Onward(c, l, r)
    PROVE  Idling(c)
  <1>0. /\ stack[c] = current[c] /\ stack[c] \in Task
        /\ pc \in [Task -> Label] /\ ret \in [Task -> Label]
        /\ \A d \in CPU \ {c} : stack[d] # stack[c] /\ stack[d] \in Task
        /\ stack[c] \in Proc \cup {c} /\ \A d \in CPU : d \in Task /\ d \notin Proc
    BY AtPlace, ConstantsAssumption DEF Inv, TypeOK, Task
  <1>1. /\ pc'[stack[c]] = l /\ ret'[stack[c]] = r
        /\ \A t \in Task \ {stack[c]} : pc'[t] = pc[t] /\ ret'[t] = ret[t]
        /\ UNCHANGED <<current, stack>>
    BY <1>0 DEF Onward
  <1>2. \A d \in CPU \ {c} : current'[d] = current[d] /\ pc'[stack'[d]] = pc[stack[d]]
    BY <1>0, <1>1
  <1>3. current'[c] = c /\ pc'[stack'[c]] \in {"user", "switch", "resume"} => ready' = <<>>
    BY <1>0, <1>1 DEF Onward
  <1>4. \A d \in CPU : \/ pc'[d] = pc[d] /\ ret'[d] = ret[d]
                       \/ pc'[d] \notin {"kick", "wakeup"} \/ ret'[d] = "irqret"
    BY <1>0, <1>1 DEF Onward
  <1>5. KickSound'
    BY <1>1 DEF Onward
  <1> QED
    BY <1>2, <1>3, <1>4, <1>5 DEF Idling, Onward

\* The end of the switch: an idle process goes on with an empty queue.
LEMMA IdlingResume ==
    ASSUME Inv, IdleInv, NEW c \in CPU, resume(c)
    PROVE  Idling(c)
  <1>0. /\ pc[stack[c]] = "resume" /\ stack[c] = current[c] /\ ret \in [Task -> Label]
        /\ stack[c] \in Task
        /\ stack[c] = c => ret[c] \in {"user", "irqret"}
    BY AtPlace DEF resume, At, Inv, TypeOK
  <1>1. stack[c] = c => ready = <<>>
    BY <1>0 DEF IdleInv, IdleQueue
  <1>2. KickSound
    BY DEF IdleInv, NoIdleMachine
  <1>3. Goto(c, IF had[stack[c]] THEN "relock" ELSE ret[stack[c]])
        /\ UNCHANGED <<ready, current, stack, kick_pending, ipi, sending, ret>>
    BY DEF resume, queues, kicks
  <1>4. Onward(c, IF had[stack[c]] THEN "relock" ELSE ret[stack[c]], ret[stack[c]])
    BY <1>0, <1>1, <1>2, <1>3 DEF Onward, Goto, KickSound, OnItsWay
  <1> QED
    BY <1>0, <1>4, OnwardStep

\* process_yield: a CPU stays in its idle loop when nothing is READY.
LEMMA IdlingYield ==
    ASSUME Inv, IdleInv, NEW c \in CPU, tick(c) \/ irq_return(c) \/ resched(c)
    PROVE  Idling(c)
  <1>0. /\ pc[stack[c]] \in {"user", "irqret"} /\ stack[c] = current[c]
        /\ ret \in [Task -> Label] /\ pc \in [Task -> Label] /\ stack[c] \in Task
        /\ kick_pending \in [CPU -> BOOLEAN] /\ ipi \in [CPU -> BOOLEAN]
    BY AtPlace DEF tick, irq_return, resched, At, Inv, TypeOK
  <1>1. KickSound
    BY DEF IdleInv, NoIdleMachine
  <1>2. ASSUME process_yield(c), UNCHANGED ipi \/ ipi' = [ipi EXCEPT ![c] = FALSE]
        PROVE  Idling(c)
    <2>1. /\ kick_pending' = [kick_pending EXCEPT ![c] = FALSE]
          /\ UNCHANGED <<current, stack, sending>> /\ sched_lock = NoCPU
      BY <1>2 DEF process_yield
    <2>2. KickSound'
      BY <1>0, <1>1, <1>2, <2>1 DEF KickSound, OnItsWay
    <2>3. \/ ready = <<>> /\ Goto(c, "user") /\ UNCHANGED <<ready, ret>>
          \/ Goto(c, "schedule") /\ ret' = [ret EXCEPT ![stack[c]] = "user"]
      BY <1>2 DEF process_yield, EnterSwitch
    <2>4. Onward(c, "user", ret[stack[c]]) \/ Onward(c, "schedule", "user")
      BY <1>0, <2>1, <2>2, <2>3 DEF Onward, Goto
    <2> QED
      BY <1>0, <2>4, OnwardStep
  <1>3. CASE tick(c) \/ irq_return(c)
    BY <1>2, <1>3 DEF tick, irq_return
  <1>4. CASE resched(c)
    <2>1. CASE current[c] = c
      BY <1>2, <1>4, <2>1 DEF resched
    <2>2. CASE current[c] # c
      <3>1. /\ UNCHANGED <<ready, current, stack, kick_pending, sending, pc, ret>>
            /\ ipi' = [ipi EXCEPT ![c] = FALSE]
        BY <1>4, <2>2 DEF resched, queues
      <3>2. KickSound'
        BY <1>0, <1>1, <2>2, <3>1 DEF KickSound, OnItsWay
      <3>3. Onward(c, pc[stack[c]], ret[stack[c]])
        BY <1>0, <2>2, <3>1, <3>2 DEF Onward
      <3> QED
        BY <1>0, <3>3, OnwardStep
    <2> QED
      BY <2>1, <2>2
  <1> QED
    BY <1>3, <1>4

\* Waking, in a system call or in the interrupt handler of an idle CPU.
LEMMA IdlingWake ==
    ASSUME Inv, IdleInv, NEW c \in CPU, wakeup_loop(c) \/ irq_wake(c)
    PROVE  Idling(c)
  <1>0. /\ pc[stack[c]] \in {"user", "wakeup"} /\ stack[c] = current[c]
        /\ ret \in [Task -> Label] /\ pc \in [Task -> Label] /\ stack[c] \in Task
    BY AtPlace DEF wakeup_loop, irq_wake, At, Inv, TypeOK
  <1>1. KickSound
    BY DEF IdleInv, NoIdleMachine
  <1>2. UNCHANGED <<current, stack, kick_pending, ipi, sending>>
    BY DEF wakeup_loop, irq_wake, process_wake, kicks
  <1>k. KickSound'
    BY <1>1, <1>2 DEF KickSound, OnItsWay
  <1>3. CASE wakeup_loop(c)
    <2>1. pc[stack[c]] = "wakeup" /\ sched_lock = c
      BY <1>3 DEF wakeup_loop, At, Inv, Control, SchedLock, InSched
    <2>2. stack[c] = c => ret[c] = "irqret"
      BY <2>1 DEF IdleInv, IdleKick
    <2>3. \/ UNCHANGED <<pc, ret>>
          \/ Goto(c, "kick") /\ ret' = [ret EXCEPT ![stack[c]] = ret[stack[c]]]
          \/ Goto(c, ret[stack[c]]) /\ UNCHANGED ret
      BY <1>3 DEF wakeup_loop, BeginKick
    <2>4. \/ Onward(c, "wakeup", ret[stack[c]]) \/ Onward(c, "kick", ret[stack[c]])
          \/ Onward(c, ret[stack[c]], ret[stack[c]])
      BY <1>0, <1>2, <1>k, <2>1, <2>2, <2>3 DEF Onward, Goto
    <2> QED
      BY <1>0, <2>4, OnwardStep
  <1>4. CASE irq_wake(c)
    <2> DEFINE r == IF current[c] = c THEN "irqret" ELSE "user"
    <2>1. PICK p \in Proc : state[p] = "SLEEPING" /\ process_wake(c, p, r)
      BY <1>4 DEF irq_wake
    <2>2. sched_lock = NoCPU /\ BeginKick(c, 1, r)
      BY <2>1 DEF process_wake
    <2>3. Onward(c, "kick", r)
      BY <1>0, <1>2, <1>k, <2>2 DEF Onward, BeginKick, Goto
    <2> QED
      BY <1>0, <2>3, OnwardStep
  <1> QED
    BY <1>3, <1>4

\* The loop of kick_idle_cpus: whoever sets a flag that was clear sends the
\* interrupt.
LEMMA IdlingKick ==
    ASSUME Inv, IdleInv, NEW c \in CPU, kick_idle_cpus(c)
    PROVE  Idling(c)
  <1>a. pc[stack[c]] = "kick" /\ UNCHANGED <<queues, current, stack, ret>>
    BY Zenon DEF kick_idle_cpus, At
  <1>0. /\ pc[stack[c]] = "kick" /\ stack[c] = current[c]
        /\ ret \in [Task -> Label] /\ pc \in [Task -> Label] /\ stack[c] \in Task
        /\ kick_pending \in [CPU -> BOOLEAN] /\ ipi \in [CPU -> BOOLEAN]
        /\ seen \in [CPU -> CPU \cup {NoCPU}] /\ sending \in [CPU -> CPU \cup {NoCPU}]
    BY <1>a, AtPlace DEF Inv, TypeOK
  <1>1. KickSound
    BY DEF IdleInv, NoIdleMachine
  <1>2. UNCHANGED <<ready, current, stack, ret>>
    BY <1>a DEF queues
  <1>3. stack[c] = c => ret[c] = "irqret"
    BY <1>0 DEF IdleInv, IdleKick
  <1>4. KickSound'
    <2>1. CASE UNCHANGED <<kick_pending, ipi, sending>>
      BY <1>1, <1>2, <2>1 DEF KickSound, OnItsWay
    <2>2. ASSUME seen[c] # NoCPU, sending[c] = NoCPU, kick_mark(c, seen[c]), UNCHANGED ipi
          PROVE  KickSound'
      <3>1. seen[c] \in CPU
        BY <1>0, <2>2
      <3>2. ASSUME NEW d \in CPU, kick_pending'[d], current[d] = d, ~ipi[d]
            PROVE  \E e \in CPU : sending'[e] = d
        <4>1. CASE kick_pending[d]
          <5>1. PICK e \in CPU : sending[e] = d
            BY <1>1, <3>2, <4>1 DEF KickSound, OnItsWay
          <5>2. e # c
            BY <2>2, <5>1, ConstantsAssumption
          <5> QED
            BY <1>0, <2>2, <5>1, <5>2 DEF kick_mark
        <4>2. CASE ~kick_pending[d]
          <5>1. d = seen[c]
            BY <1>0, <2>2, <3>1, <3>2, <4>2 DEF kick_mark
          <5> QED
            BY <1>0, <2>2, <4>2, <5>1 DEF kick_mark
        <4> QED
          BY <4>1, <4>2
      <3> QED
        BY <1>2, <2>2, <3>2 DEF KickSound, OnItsWay
    <2>3. ASSUME sending[c] # NoCPU, UNCHANGED kick_pending,
                 ipi' = [ipi EXCEPT ![sending[c]] = TRUE],
                 sending' = [sending EXCEPT ![c] = NoCPU]
          PROVE  KickSound'
      <3>1. sending[c] \in CPU
        BY <1>0, <2>3
      <3>2. ASSUME NEW d \in CPU, kick_pending[d], current[d] = d
            PROVE  ipi'[d] \/ \E e \in CPU : sending'[e] = d
        <4>1. CASE d = sending[c]
          BY <1>0, <2>3, <4>1
        <4>2. CASE d # sending[c]
          <5>1. ipi[d] \/ \E e \in CPU : sending[e] = d /\ e # c
            BY <1>1, <3>2, <4>2 DEF KickSound, OnItsWay
          <5> QED
            BY <1>0, <2>3, <3>1, <5>1
        <4> QED
          BY <4>1, <4>2
      <3> QED
        BY <1>2, <2>3, <3>2 DEF KickSound, OnItsWay
    <2> QED
      BY <2>1, <2>2, <2>3, Zenon DEF kick_idle_cpus, kicks
  <1>5. UNCHANGED pc \/ Goto(c, ret[stack[c]])
    BY Zenon DEF kick_idle_cpus
  <1>6. Onward(c, "kick", ret[stack[c]]) \/ Onward(c, ret[stack[c]], ret[stack[c]])
    BY <1>0, <1>2, <1>3, <1>4, <1>5 DEF Onward, Goto
  <1> QED
    BY <1>0, <1>6, OnwardStep

\* Every step, of any CPU, preserves what idling needs.
LEMMA NextIdle == Inv /\ IdleInv /\ [Next]_vars => IdleInv'
  <1> SUFFICES ASSUME Inv, IdleInv, [Next]_vars PROVE IdleInv'
    OBVIOUS
  <1>1. ASSUME NEW c \in CPU, Kernel(c)  PROVE IdleInv'
    <2>1. CASE schedule(c) \/ switch_process(c) \/ resume(c)
      BY <2>1, IdlingSwitch, IdlingResume, IdlingStep
    <2>2. CASE wakeup_loop(c) \/ kick_idle_cpus(c) \/ irq_return(c)
      BY <2>2, IdlingWake, IdlingKick, IdlingYield, IdlingStep
    <2>3. CASE \/ reap_detached(c) \/ syscall_return(c) \/ sys_sleep(c) \/ sys_wakeup(c)
               \/ sys_start(c) \/ create_process(c) \/ process_clone(c) \/ process_exit(c)
               \/ exit_sigchld(c) \/ exit_wakeup(c) \/ exit_poll(c) \/ exit_killed(c)
               \/ process_wait4(c) \/ wait4_woken(c)
      BY <2>3, BusySyscall, BusyStep
    <2>4. CASE relock(c)
      BY <2>4, BusyEntry, BusyStep
    <2> QED
      BY <1>1, <2>1, <2>2, <2>3, <2>4 DEF Kernel
  <1>2. ASSUME NEW c \in CPU,
               \/ tick(c) \/ resched(c) \/ irq_wake(c) \/ handle_syscall(c) \/ sleep_unlocked(c)
        PROVE  IdleInv'
    BY <1>2, IdlingYield, IdlingWake, IdlingStep, BusyEntry, BusyStep
  <1>3. CASE UNCHANGED vars
    <2>1. UNCHANGED <<ready, current, stack, kick_pending, ipi, sending, pc, ret>>
      BY <1>3 DEF vars, queues, kicks
    <2> QED
      BY <2>1 DEF IdleInv, NoIdleMachine, KickSound, OnItsWay, At, IdleQueue, IdleKick
  <1> QED
    BY <1>1, <1>2, <1>3 DEF Next

\* At boot one CPU runs the shell.
LEMMA InitIdle == Init => IdleInv
  <1> SUFFICES ASSUME Init PROVE IdleInv
    OBVIOUS
  <1>1. /\ ready = <<>> /\ kick_pending = [c \in CPU |-> FALSE]
        /\ \A t \in Task : pc[t] \in {"user", "resume"}
    BY DEF Init
  <1>2. \A c \in CPU : c \in Task
    BY DEF Task
  <1> QED
    BY <1>1, <1>2 DEF IdleInv, NoIdleMachine, KickSound, IdleQueue, IdleKick

\* When all CPUs halt in their idle loops no process is READY, and
\* kick_idle_cpus, whose look, mark and interrupt are steps of their own, leaves
\* out the kick of an idle CPU only where an interrupt is on its way to it.
THEOREM IdleSafe == Spec => []NoIdleMachine
  <1>1. Inv /\ IdleInv /\ [Next]_vars => Inv' /\ IdleInv'
    BY NextInv, NextIdle
  <1>2. Init => Inv /\ IdleInv
    BY InitInv, InitIdle
  <1>3. IdleInv => NoIdleMachine
    BY DEF IdleInv
  <1> QED
    BY <1>1, <1>2, <1>3, PTL DEF Spec

-------------------------------------------------------------------------------
(* The process family, for any number of CPUs, slots and pids: wait4      *)
(* misses no child, every zombie has somebody to reap it, and nobody      *)
(* waits for nobody.                                                      *)

(* Steps that leave pids and parents alone *)

\* No slot is taken or given back, and nobody dies.
SameSlots ==
    \A p \in Proc : /\ \A s \in {"UNUSED", "INIT", "KILLED"} : state'[p] = s <=> state[p] = s
                    /\ Live(p)' <=> Live(p)

\* Nobody goes to sleep in wait4.
SameWaiters ==
    \A p \in Proc : InWait4(p)' => /\ InWait4(p) /\ wait_id'[p] = wait_id[p]
                                   /\ loc'[p].want = loc[p].want

\* What such a step may do to who is exiting.
LEMMA FamilyFrame ==
    ASSUME Inv, FamilyInv, UNCHANGED <<pid, tgid, ppid, detached, next_pid>>,
           SameSlots, SameWaiters,
           \A p \in Proc : Live(p) => (Exiting(p)' <=> Exiting(p)),
           \A p \in Proc : OnExit(p)' =>
              /\ pc'[p] \in ExitLabel \/ (pc'[p] \in {"wakeup", "kick"} /\ ret'[p] \in ExitLabel)
              /\ Tells(p)' => loc'[p].id = ppid[p] /\ loc'[p].left < 0
              /\ Told(p)' /\ ~detached[p] => \A q \in Proc : InWait4(q) => tgid[q] # ppid[p]
    PROVE  FamilyInv'
  <1>1. /\ \A p \in Proc : Leader(p)' <=> Leader(p)
        /\ \A p \in Proc : Alive(p)' <=> Alive(p)
        /\ \A p \in Proc : OnExit(p)' <=> OnExit(p)
    BY DEF Leader, Alive, OnExit, SameSlots
  <1>2. \A n : Finds(n)' <=> Finds(n)
    BY <1>1 DEF Finds
  <1>4. PidInv'
    BY DEF FamilyInv, PidInv, SameSlots
  <1>5. LeaderInv'
    BY <1>1 DEF FamilyInv, LeaderInv, SameSlots
  <1>6. Wait4Inv'
    BY DEF FamilyInv, Wait4Inv, SameWaiters
  <1>7. ExitInv'
    <2> SUFFICES ASSUME NEW p \in Proc, OnExit(p)'
                 PROVE  /\ Leader(p)' => \A q \in Proc : ppid'[q] # pid'[p]
                        /\ ~detached'[p] => Leader(p)' /\ Finds(ppid[p])'
                        /\ Told(p)' /\ ~detached'[p]
                              => \A q \in Proc : InWait4(q)' => tgid'[q] # ppid'[p]
      BY DEF ExitInv
    <2>1. /\ Leader(p) => \A q \in Proc : ppid[q] # pid[p]
          /\ ~detached[p] => Leader(p) /\ Finds(ppid[p])
      BY <1>1 DEF FamilyInv, ExitInv
    <2> QED
      BY <1>1, <1>2, <2>1 DEF SameWaiters
  <1>8. NoLostChild'
    <2> SUFFICES ASSUME NEW p \in Proc, NEW q \in Proc, InWait4(p)',
                        Zombie(q, tgid[p], loc[p].want)'
                 PROVE  FALSE
      BY DEF NoLostChild, InWait4
    <2>1. InWait4(p) /\ ~Zombie(q, tgid[p], loc[p].want)
      BY DEF SameWaiters, FamilyInv, FamilySound, NoLostChild, InWait4
    <2> QED
      BY <1>1, <2>1 DEF Zombie, ChildOf, SameSlots, SameWaiters
  <1>9. ZombieHasParent'
    BY <1>2 DEF FamilyInv, FamilySound, ZombieHasParent, SameSlots
  <1>10. WaiterHasChild'
    <2> SUFFICES ASSUME NEW p \in Proc, InWait4(p)', tgid[p] \notin IgnoresChildren,
                        NEW l \in Proc, pid[l] = tgid[p], Alive(l)', ~Exiting(l)'
                 PROVE  \E q \in Proc : ChildOf(q, tgid[p], loc[p].want)'
      BY DEF WaiterHasChild, InWait4
    <2>1. InWait4(p) /\ loc'[p].want = loc[p].want
      BY DEF SameWaiters
    <2>2. Alive(l) /\ ~Exiting(l)
      <3>1. state[l] # "INIT"
        BY <2>1 DEF FamilyInv, LeaderInv, InWait4
      <3>2. state[l] \in SlotState
        BY DEF Inv, TypeOK, Task
      <3>3. Live(l)
        BY <1>1, <3>1, <3>2 DEF Live, Alive, SlotState
      <3> QED
        BY <1>1, <3>3
    <2>3. PICK q \in Proc : ChildOf(q, tgid[p], loc[p].want)
      BY <2>1, <2>2 DEF FamilyInv, FamilySound, WaiterHasChild, InWait4
    <2>4. ChildOf(q, tgid[p], loc[p].want)'
      BY <1>1, <2>1, <2>3 DEF ChildOf, SameSlots
    <2> QED
      BY <2>4
  <1> QED
    BY <1>4, <1>5, <1>6, <1>7, <1>8, <1>9, <1>10 DEF FamilyInv, FamilySound

\* Where a process is not exiting.
LEMMA NotExiting ==
    ASSUME FamilyInv, NEW p \in Proc, Live(p), pc[p] \notin ExitLabel,
           pc[p] \notin {"wakeup", "kick"} \/ ret[p] \notin ExitLabel
    PROVE  ~Exiting(p)
  BY DEF FamilyInv, ExitInv, OnExit

\* A step of a task that is not exiting before or after it.
LEMMA FamilyAside ==
    ASSUME Inv, FamilyInv, UNCHANGED <<pid, tgid, ppid, detached, next_pid>>, NEW t,
           SameSlots, SameWaiters,
           \A p \in Proc \ {t} : Live(p) => pc'[p] = pc[p] /\ ret'[p] = ret[p] /\ loc'[p] = loc[p],
           t \in Proc /\ Live(t) => ~Exiting(t) /\ ~Exiting(t)'
    PROVE  FamilyInv'
  <1>1. \A p \in Proc : Live(p) => (Exiting(p)' <=> Exiting(p))
    BY DEF Exiting
  <1>2. ASSUME NEW p \in Proc, OnExit(p)'
        PROVE  /\ pc'[p] \in ExitLabel \/ (pc'[p] \in {"wakeup", "kick"} /\ ret'[p] \in ExitLabel)
               /\ Tells(p)' => loc'[p].id = ppid[p] /\ loc'[p].left < 0
               /\ Told(p)' /\ ~detached[p] => \A q \in Proc : InWait4(q) => tgid[q] # ppid[p]
    <2>1. Live(p) /\ p # t /\ OnExit(p)
      BY <1>1, <1>2 DEF OnExit, SameSlots
    <2>2. pc'[p] = pc[p] /\ ret'[p] = ret[p] /\ loc'[p] = loc[p]
      BY <2>1
    <2>3. (Tells(p)' <=> Tells(p)) /\ (Told(p)' <=> Told(p))
      BY <2>2 DEF Tells, Told
    <2> QED
      BY <2>1, <2>2, <2>3 DEF FamilyInv, ExitInv
  <1> QED
    BY <1>1, <1>2, FamilyFrame

\* A process moves between READY, SLEEPING and RUNNING.
LEMMA LiveMove ==
    ASSUME Inv, NEW x \in Task, Live(x), NEW v \in {"READY", "SLEEPING", "RUNNING"},
           state' = [state EXCEPT ![x] = v]
    PROVE  SameSlots /\ \A p \in Proc : state'[p] = IF p = x THEN v ELSE state[p]
  BY DEF SameSlots, Live, Inv, TypeOK, Task

\* As FamilyAside, for a CPU that only goes to another place.
LEMMA FamilyGoto ==
    ASSUME Inv, FamilyInv, NEW c \in CPU, NEW l, pc[stack[c]] \notin ExitLabel \cup {"wakeup", "kick"},
           l \notin ExitLabel \cup {"dead"}, Goto(c, l),
           UNCHANGED <<state, wait_id, pid, tgid, ppid, detached, next_pid, ret, loc>>
    PROVE  FamilyInv'
  <1>1. PICK t \in Task : t = stack[c]
    BY DEF Inv, TypeOK
  <1>2. pc \in [Task -> Label] /\ Proc \subseteq Task /\ pc' = [pc EXCEPT ![t] = l]
    BY <1>1 DEF Inv, TypeOK, Task, Goto
  <1>3. SameSlots /\ SameWaiters
    BY DEF SameSlots, SameWaiters, Live, InWait4
  <1>4. pc'[t] = l /\ \A p \in Proc \ {t} : pc'[p] = pc[p]
    BY <1>2
  <1>5. ASSUME t \in Proc, Live(t)  PROVE ~Exiting(t) /\ ~Exiting(t)'
    <2>1. ~Exiting(t)
      BY <1>1, <1>5, NotExiting
    <2> QED
      BY <1>4, <2>1 DEF Exiting, ExitLabel
  <1> QED
    BY <1>3, <1>4, <1>5, FamilyAside

\* Whoever sleeps slept before, or sleeps elsewhere than in wait4.
SameSleepers ==
    \A p \in Proc : state'[p] = "SLEEPING" => \/ state[p] = "SLEEPING" /\ wait_id'[p] = wait_id[p]
                                              \/ ret'[p] # "wait4r"

\* Other processes stay where they are.
OthersStay(t) ==
    \A p \in Proc \ {t} : Live(p) => pc'[p] = pc[p] /\ ret'[p] = ret[p] /\ loc'[p] = loc[p]

LEMMA WaitersStay ==
    ASSUME NEW t \in Task, state[t] = "RUNNING", SameSleepers, OthersStay(t)
    PROVE  SameWaiters
  <1> SUFFICES ASSUME NEW p \in Proc, InWait4(p)'
               PROVE  InWait4(p) /\ wait_id'[p] = wait_id[p] /\ loc'[p].want = loc[p].want
    BY DEF SameWaiters
  <1>1. state[p] = "SLEEPING" /\ wait_id'[p] = wait_id[p]
    BY DEF SameSleepers, InWait4
  <1>2. p # t /\ Live(p)
    BY <1>1 DEF Live
  <1> QED
    BY <1>1, <1>2 DEF OthersStay, InWait4

\* A step of a running task that is not exiting.
LEMMA FamilyTurn ==
    ASSUME Inv, FamilyInv, UNCHANGED <<pid, tgid, ppid, detached, next_pid>>,
           NEW t \in Task, state[t] = "RUNNING", SameSlots, SameSleepers, OthersStay(t),
           pc[t] \notin ExitLabel, pc[t] \notin {"wakeup", "kick"} \/ ret[t] \notin ExitLabel,
           pc'[t] \notin ExitLabel \cup {"dead"},
           ret'[t] = ret[t] \/ ret'[t] \notin ExitLabel \cup {"dead"}
    PROVE  FamilyInv'
  <1>1. SameWaiters
    BY WaitersStay
  <1>2. ASSUME t \in Proc, Live(t)  PROVE ~Exiting(t) /\ ~Exiting(t)'
    <2>1. ~Exiting(t)
      BY <1>2, NotExiting
    <2> QED
      BY <2>1 DEF Exiting, ExitLabel
  <1> QED
    BY <1>1, <1>2, FamilyAside DEF OthersStay

\* A step of one that is, and stays so.
LEMMA FamilyExits ==
    ASSUME Inv, FamilyInv, UNCHANGED <<pid, tgid, ppid, detached, next_pid>>,
           NEW t \in Proc, state[t] = "RUNNING", SameSlots, SameSleepers, OthersStay(t),
           Exiting(t),
           pc'[t] \in ExitLabel \/ (pc'[t] \in {"wakeup", "kick"} /\ ret'[t] \in ExitLabel),
           Tells(t)' => loc'[t].id = ppid[t] /\ loc'[t].left < 0,
           Told(t)' /\ ~detached[t] => \A q \in Proc : InWait4(q) => tgid[q] # ppid[t]
    PROVE  FamilyInv'
  <1>1. SameWaiters
    <2>1. t \in Task
      BY DEF Task
    <2> QED
      BY <2>1, WaitersStay
  <1>2. Exiting(t)'
    BY DEF Exiting, ExitLabel
  <1>3. \A p \in Proc : Live(p) => (Exiting(p)' <=> Exiting(p))
    BY <1>2 DEF Exiting, OthersStay
  <1>4. ASSUME NEW p \in Proc, OnExit(p)'
        PROVE  /\ pc'[p] \in ExitLabel \/ (pc'[p] \in {"wakeup", "kick"} /\ ret'[p] \in ExitLabel)
               /\ Tells(p)' => loc'[p].id = ppid[p] /\ loc'[p].left < 0
               /\ Told(p)' /\ ~detached[p] => \A q \in Proc : InWait4(q) => tgid[q] # ppid[p]
    <2>1. CASE p = t
      BY <2>1
    <2>2. CASE p # t
      <3>1. Live(p) /\ OnExit(p)
        BY <1>3, <1>4 DEF OnExit, SameSlots
      <3>2. pc'[p] = pc[p] /\ ret'[p] = ret[p] /\ loc'[p] = loc[p]
        BY <2>2, <3>1 DEF OthersStay
      <3>3. (Tells(p)' <=> Tells(p)) /\ (Told(p)' <=> Told(p))
        BY <3>2 DEF Tells, Told
      <3> QED
        BY <3>1, <3>2, <3>3 DEF FamilyInv, ExitInv
    <2> QED
      BY <2>1, <2>2
  <1> QED
    BY <1>1, <1>3, <1>4, FamilyFrame

\* Where state and wait_id do not change.
LEMMA StillSlots ==
    ASSUME UNCHANGED <<state, wait_id>>
    PROVE  SameSlots /\ SameSleepers
  BY DEF SameSlots, SameSleepers, Live

\* MakeReady.
LEMMA ReadySlots ==
    ASSUME Inv, NEW k \in 1 .. Len(waiting), MakeReady(k)
    PROVE  SameSlots /\ SameSleepers
  <1>1. PICK x \in Proc : x = waiting[k] /\ state[x] = "SLEEPING"
    <2>1. waiting \in Seq(Proc) /\ Members(waiting) = {p \in Proc : state[p] = "SLEEPING"}
      BY DEF Inv, TypeOK, OneHome
    <2>2. waiting[k] \in Members(waiting)
      BY DEF Members
    <2> QED
      BY <2>1, <2>2
  <1>2. /\ state' = [state EXCEPT ![x] = "READY"] /\ wait_id' = [wait_id EXCEPT ![x] = 0]
        /\ state \in [Task -> SlotState] /\ wait_id \in [Proc -> WaitId] /\ x \in Task
    BY <1>1 DEF MakeReady, Inv, TypeOK, Task
  <1>3. SameSlots /\ \A p \in Proc : state'[p] = IF p = x THEN "READY" ELSE state[p]
    BY <1>1, <1>2, LiveMove DEF Live
  <1>4. \A p \in Proc \ {x} : wait_id'[p] = wait_id[p]
    BY <1>2
  <1> QED
    BY <1>3, <1>4 DEF SameSleepers

\* Who changes only its own place.
LEMMA Alone ==
    ASSUME Inv, NEW t \in Task, NEW l, pc' = [pc EXCEPT ![t] = l],
           ret' = ret \/ \E r : ret' = [ret EXCEPT ![t] = r],
           loc' = loc \/ \E x : loc' = [loc EXCEPT ![t] = x]
    PROVE  OthersStay(t) /\ pc'[t] = l
  <1>1. pc \in [Task -> Label] /\ ret \in [Task -> Label] /\ loc \in [Task -> Locals]
    BY DEF Inv, TypeOK
  <1>2. Proc \subseteq Task
    BY DEF Task
  <1>3. pc'[t] = l /\ \A p \in Proc \ {t} : pc'[p] = pc[p]
    BY <1>1, <1>2
  <1>4. \A p \in Proc \ {t} : ret'[p] = ret[p]
    BY <1>1, <1>2
  <1>5. \A p \in Proc \ {t} : loc'[p] = loc[p]
    BY <1>1, <1>2
  <1> QED
    BY <1>3, <1>4, <1>5 DEF OthersStay

-------------------------------------------------------------------------------
(* Scheduling, interrupts, system calls *)

LEMMA FamilyYield ==
    ASSUME Inv, FamilyInv, NEW c \in CPU, pc[stack[c]] \in {"user", "irqret"}, process_yield(c)
    PROVE  FamilyInv'
  <1>1. PICK t \in Task : t = stack[c] /\ t = current[c] /\ state[t] = "RUNNING"
    BY AtPlace
  <1>2. UNCHANGED <<pid, tgid, ppid, detached, next_pid, wait_id, loc>>
    BY DEF process_yield, family
  <1>3. CASE Goto(c, "user") /\ UNCHANGED <<state, ret>>
    BY <1>2, <1>3, FamilyGoto DEF ExitLabel
  <1>4. CASE state' = [state EXCEPT ![current[c]] = "READY"] /\ EnterSwitch(c, "user")
    <2>1. /\ pc' = [pc EXCEPT ![t] = "schedule"] /\ ret' = [ret EXCEPT ![t] = "user"]
          /\ state' = [state EXCEPT ![t] = "READY"]
      BY <1>1, <1>4 DEF EnterSwitch, Goto
    <2>2. OthersStay(t) /\ pc'[t] = "schedule"
      BY <1>2, <2>1, Alone
    <2>3. ret'[t] = "user"
      BY <2>1 DEF Inv, TypeOK
    <2>4. SameSlots /\ \A p \in Proc : state'[p] = IF p = t THEN "READY" ELSE state[p]
      BY <1>1, <2>1, LiveMove DEF Live
    <2>5. SameSleepers
      BY <1>2, <2>4 DEF SameSleepers
    <2> QED
      BY <1>1, <1>2, <2>2, <2>3, <2>4, <2>5, FamilyTurn DEF ExitLabel
  <1> QED
    BY <1>3, <1>4 DEF process_yield

LEMMA FamilySleep ==
    ASSUME Inv, FamilyInv, NEW c \in CPU, NEW id, NEW r \in {"user", "sysret"},
           pc[stack[c]] \in {"user", "sys"}, stack[c] \in Proc, process_sleep(c, id, r)
    PROVE  FamilyInv'
  <1>1. PICK t \in Proc : t = stack[c] /\ t = current[c] /\ state[t] = "RUNNING" /\ t \in Task
    BY AtPlace DEF Task
  <1>2. UNCHANGED <<pid, tgid, ppid, detached, next_pid, loc>>
    BY DEF process_sleep, family
  <1>3. /\ pc' = [pc EXCEPT ![t] = "schedule"] /\ ret' = [ret EXCEPT ![t] = r]
        /\ state' = [state EXCEPT ![t] = "SLEEPING"] /\ wait_id' = [wait_id EXCEPT ![t] = id]
    BY <1>1 DEF process_sleep, EnterSwitch, Goto
  <1>4. OthersStay(t) /\ pc'[t] = "schedule"
    BY <1>1, <1>2, <1>3, Alone
  <1>5. ret'[t] = r /\ \A p \in Proc \ {t} : wait_id'[p] = wait_id[p]
    BY <1>1, <1>3 DEF Inv, TypeOK
  <1>6. SameSlots /\ \A p \in Proc : state'[p] = IF p = t THEN "SLEEPING" ELSE state[p]
    BY <1>1, <1>3, LiveMove DEF Live
  <1>7. SameSleepers
    BY <1>5, <1>6 DEF SameSleepers
  <1> QED
    BY <1>1, <1>2, <1>4, <1>5, <1>6, <1>7, FamilyTurn DEF ExitLabel

\* process_wake, as an interrupt handler calls it.
LEMMA FamilyIrqWake ==
    ASSUME Inv, FamilyInv, NEW c \in CPU, irq_wake(c)
    PROVE  FamilyInv'
  <1>1. PICK t \in Task : t = stack[c] /\ state[t] = "RUNNING" /\ pc[t] = "user"
    BY AtPlace DEF irq_wake, At
  <1>2. PICK p \in Proc, r \in {"irqret", "user"} : process_wake(c, p, r)
    BY DEF irq_wake
  <1>3. UNCHANGED <<pid, tgid, ppid, detached, next_pid>>
    BY <1>2 DEF process_wake, family
  <1>4. CASE \E k \in 1 .. Len(waiting) : MakeReady(k) /\ BeginKick(c, 1, r)
    <2>1. SameSlots /\ SameSleepers
      BY <1>4, ReadySlots
    <2>2. /\ pc' = [pc EXCEPT ![t] = "kick"] /\ ret' = [ret EXCEPT ![t] = r]
          /\ \E x : loc' = [loc EXCEPT ![t] = x]
      BY <1>1, <1>4 DEF BeginKick, Goto
    <2>3. OthersStay(t) /\ pc'[t] = "kick"
      BY <2>2, Alone
    <2>4. ret'[t] = r
      BY <2>2 DEF Inv, TypeOK
    <2> QED
      BY <1>1, <1>3, <2>1, <2>3, <2>4, FamilyTurn DEF ExitLabel
  <1>5. CASE Goto(c, r) /\ UNCHANGED <<state, wait_id, ret, loc>>
    BY <1>1, <1>3, <1>5, FamilyGoto DEF ExitLabel
  <1> QED
    BY <1>2, <1>4, <1>5 DEF process_wake

LEMMA FamilySchedule ==
    ASSUME Inv, FamilyInv, NEW c \in CPU, schedule(c) \/ switch_process(c)
    PROVE  FamilyInv'
  <1>1. PICK t \in Task : t = stack[c] /\ pc[t] \in {"schedule", "switch"}
    BY DEF schedule, switch_process, At, Inv, TypeOK
  <1>2. UNCHANGED <<pid, tgid, ppid, detached, next_pid, wait_id, ret, loc>>
    BY DEF schedule, switch_process, family, queues
  <1>3. /\ OthersStay(t) /\ pc'[t] \in {"resume", "switch"}
    <2>1. PICK l \in {"resume", "switch"} : pc' = [pc EXCEPT ![t] = l]
      BY <1>1, Zenon DEF schedule, switch_process, Goto
    <2> QED
      BY <1>2, <2>1, Alone
  <1>4. SameSlots /\ SameWaiters
    <2>1. CASE switch_process(c)
      <3>1. state' = state
        BY <2>1 DEF switch_process, queues
      <3> QED
        BY <1>2, <3>1 DEF SameSlots, SameWaiters, Live, InWait4
    <2>2. CASE schedule(c)
      <3>1. PICK x \in Task : state' = [state EXCEPT ![x] = "RUNNING"] /\ Live(x)
        <4>1. CASE ready = <<>>
          <5>1. state' = [state EXCEPT ![c] = "RUNNING"]
            BY <2>2, <4>1 DEF schedule
          <5>2. c \in Task /\ Live(c)
            BY DEF Task, Live, Inv, Control, Idles
          <5> QED
            BY <5>1, <5>2
        <4>2. CASE ready # <<>>
          <5>1. state' = [state EXCEPT ![Head(ready)] = "RUNNING"]
            BY <2>2, <4>2 DEF schedule
          <5>2. ready \in Seq(Proc) /\ Members(ready) = {p \in Proc : state[p] = "READY"}
            BY DEF Inv, TypeOK, OneHome
          <5>3. Head(ready) \in Members(ready)
            BY <4>2, <5>2 DEF Members
          <5> QED
            BY <5>1, <5>2, <5>3 DEF Task, Live
        <4> QED
          BY <4>1, <4>2
      <3>2. SameSlots /\ \A p \in Proc : state'[p] = IF p = x THEN "RUNNING" ELSE state[p]
        BY <3>1, LiveMove
      <3> QED
        BY <1>2, <3>2 DEF SameWaiters, InWait4
    <2> QED
      BY <2>1, <2>2
  <1>5. ASSUME t \in Proc, Live(t)  PROVE ~Exiting(t) /\ ~Exiting(t)'
    <2>1. ~Exiting(t)
      BY <1>1, <1>5, NotExiting DEF ExitLabel
    <2> QED
      BY <1>2, <1>3, <2>1 DEF Exiting
  <1> QED
    BY <1>2, <1>3, <1>4, <1>5, FamilyAside DEF OthersStay

LEMMA FamilyResume ==
    ASSUME Inv, FamilyInv, NEW c \in CPU, resume(c) \/ relock(c)
    PROVE  FamilyInv'
  <1>1. PICK t \in Task : t = stack[c] /\ state[t] = "RUNNING" /\ pc[t] \in {"resume", "relock"}
    BY AtPlace DEF resume, relock, At
  <1>2. UNCHANGED <<state, wait_id, pid, tgid, ppid, detached, next_pid, ret, loc>>
    BY DEF resume, relock, family, queues
  <1>3. PICK l \in {"relock", "reap", ret[t]} : pc' = [pc EXCEPT ![t] = l]
    BY <1>1 DEF resume, relock, Goto
  <1>4. t \in Proc => ret[t] \notin ExitLabel
    <2>1. t \in Proc => ~Exiting(t)
      BY <1>1, NotExiting DEF Live, ExitLabel
    <2> QED
      BY <2>1 DEF Exiting, ExitLabel
  <1>5. t \notin Proc => ret[t] \notin ExitLabel
    BY <1>1 DEF Inv, Control, Idles, Task, ExitLabel
  <1>6. ret[t] # "dead"
    BY <1>1, AtPlace DEF Returns
  <1>7. SameSlots /\ SameSleepers
    BY <1>2, StillSlots
  <1>8. OthersStay(t) /\ pc'[t] = l
    BY <1>2, <1>3, Alone
  <1> QED
    BY <1>1, <1>2, <1>3, <1>4, <1>5, <1>6, <1>7, <1>8, FamilyTurn DEF ExitLabel

LEMMA FamilySyscall ==
    ASSUME Inv, FamilyInv, NEW c \in CPU,
           handle_syscall(c) \/ syscall_return(c) \/ sys_start(c) \/ wait4_woken(c)
    PROVE  FamilyInv'
  <1>1. PICK t \in Task : /\ t = stack[c] /\ state[t] = "RUNNING"
                          /\ pc[t] \in {"user", "sysret", "sys", "wait4r"}
    BY AtPlace DEF handle_syscall, syscall_return, sys_start, wait4_woken, At
  <1>2. UNCHANGED <<state, wait_id, pid, tgid, ppid, detached, next_pid>>
    BY DEF handle_syscall, syscall_return, sys_start, wait4_woken, family, queues
  <1>3. SameSlots /\ SameSleepers
    BY <1>2, StillSlots
  <1>4. CASE ~(sys_start(c) /\ Goto(c, "exit"))
    <2>1. PICK l \in {"user", "sys", "wait4", "reap", "sysret"} : pc' = [pc EXCEPT ![t] = l]
      BY <1>1, <1>4, Zenon DEF handle_syscall, syscall_return, sys_start, wait4_woken, Goto
    <2>2. ret' = ret \/ \E r \in {"user", "clone"} : ret' = [ret EXCEPT ![t] = r]
      BY <1>1, Zenon DEF handle_syscall, syscall_return, sys_start, wait4_woken
    <2>3. loc' = loc \/ \E x : loc' = [loc EXCEPT ![t] = x]
      BY <1>1, Zenon DEF handle_syscall, syscall_return, sys_start, wait4_woken
    <2>4. OthersStay(t) /\ pc'[t] = l
      BY <2>1, <2>2, <2>3, Alone
    <2>5. ret'[t] = ret[t] \/ ret'[t] \in {"user", "clone"}
      BY <2>2 DEF Inv, TypeOK
    <2> QED
      BY <1>1, <1>2, <1>3, <2>1, <2>4, <2>5, FamilyTurn DEF ExitLabel
  <1>5. CASE sys_start(c) /\ Goto(c, "exit")
    <2>1. pc' = [pc EXCEPT ![t] = "exit"]
      BY <1>1, <1>5 DEF Goto
    <2>2. ret' = ret \/ \E r \in {"clone"} : ret' = [ret EXCEPT ![t] = r]
      BY <1>1, <1>5 DEF sys_start
    <2>3. loc' = loc \/ \E x : loc' = [loc EXCEPT ![t] = x]
      BY <1>1, <1>5, Zenon DEF sys_start
    <2>4. OthersStay(t) /\ pc'[t] = "exit"
      BY <2>1, <2>2, <2>3, Alone
    <2>5. ret'[t] = ret[t] \/ ret'[t] = "clone"
      BY <2>2 DEF Inv, TypeOK
    <2> QED
      BY <1>1, <1>2, <1>3, <2>4, <2>5, FamilyTurn DEF ExitLabel
  <1> QED
    BY <1>4, <1>5

LEMMA FamilySysWakeup ==
    ASSUME Inv, FamilyInv, NEW c \in CPU, sys_wakeup(c)
    PROVE  FamilyInv'
  <1>1. PICK t \in Task : t = stack[c] /\ state[t] = "RUNNING" /\ pc[t] = "sys"
    BY AtPlace DEF sys_wakeup, At
  <1>2. PICK id \in Chan, n \in {-1, 1} : process_wakeup_n(c, id, n, "sysret")
    BY DEF sys_wakeup
  <1>3. /\ UNCHANGED <<state, wait_id, pid, tgid, ppid, detached, next_pid>>
        /\ pc' = [pc EXCEPT ![t] = "wakeup"] /\ ret' = [ret EXCEPT ![t] = "sysret"]
        /\ \E x : loc' = [loc EXCEPT ![t] = x]
    BY <1>1, <1>2 DEF process_wakeup_n, Goto, queues, family
  <1>4. SameSlots /\ SameSleepers
    BY <1>3, StillSlots
  <1>5. OthersStay(t) /\ pc'[t] = "wakeup"
    BY <1>3, Alone
  <1>6. ret'[t] = "sysret"
    BY <1>3 DEF Inv, TypeOK
  <1> QED
    BY <1>1, <1>3, <1>4, <1>5, <1>6, FamilyTurn DEF ExitLabel

-------------------------------------------------------------------------------
(* The wakeup and the kick, in a call, an interrupt or on the way out *)

LEMMA FamilyKick ==
    ASSUME Inv, FamilyInv, NEW c \in CPU, kick_idle_cpus(c)
    PROVE  FamilyInv'
  <1>1. PICK t \in Task : t = stack[c] /\ state[t] = "RUNNING" /\ pc[t] = "kick"
    BY AtPlace DEF kick_idle_cpus, At
  <1>2. /\ UNCHANGED <<state, wait_id, pid, tgid, ppid, detached, next_pid, ret>>
    BY DEF kick_idle_cpus, queues, family
  <1>3. SameSlots /\ SameSleepers
    BY <1>2, StillSlots
  <1>4. PICK l \in {"kick", ret[t]} : pc' = [pc EXCEPT ![t] = l]
    <2>1. pc' = pc \/ Goto(c, ret[t])
      BY <1>1 DEF kick_idle_cpus
    <2>2. pc = [pc EXCEPT ![t] = "kick"]
      BY <1>1 DEF Inv, TypeOK
    <2> QED
      BY <1>1, <2>1, <2>2 DEF Goto
  <1>5. \E x : loc' = [loc EXCEPT ![t] = x]
    <2>1. \/ \E x : loc' = [loc EXCEPT ![stack[c]] = x]
          \/ loc' = loc
      BY Zenon DEF kick_idle_cpus
    <2>2. loc = [loc EXCEPT ![t] = loc[t]]
      BY <1>1 DEF Inv, TypeOK
    <2> QED
      BY <1>1, <2>1, <2>2
  <1>6. OthersStay(t) /\ pc'[t] = l
    BY <1>2, <1>4, <1>5, Alone
  <1>7. ret[t] \in Returns
    BY <1>1, AtPlace
  <1>8. CASE ret[t] \notin ExitLabel
    BY <1>1, <1>2, <1>3, <1>4, <1>6, <1>7, <1>8, FamilyTurn DEF ExitLabel, Returns
  <1>9. CASE ret[t] \in ExitLabel
    <2>1. t \in Proc
      BY <1>1, <1>9 DEF Inv, Control, Idles, Task, ExitLabel
    <2>2. Exiting(t)
      BY <1>9 DEF Exiting, ExitLabel
    <2>3. ~Tells(t)' /\ (Told(t)' => Told(t))
      BY <1>1, <1>2, <1>4, <1>6, <1>7, <1>9 DEF Tells, Told, Returns, ExitLabel
    <2>4. Told(t) /\ ~detached[t] => \A q \in Proc : InWait4(q) => tgid[q] # ppid[t]
      BY <1>1, <2>1, <2>2 DEF FamilyInv, ExitInv, OnExit, Live
    <2> QED
      BY <1>1, <1>2, <1>3, <1>4, <1>6, <1>9, <2>1, <2>2, <2>3, <2>4, FamilyExits
  <1> QED
    BY <1>8, <1>9

LEMMA FamilyWakeup ==
    ASSUME Inv, FamilyInv, NEW c \in CPU, wakeup_loop(c)
    PROVE  FamilyInv'
  <1>1. PICK t \in Task : t = stack[c] /\ state[t] = "RUNNING" /\ pc[t] = "wakeup"
    BY AtPlace DEF wakeup_loop, At
  <1>2. UNCHANGED <<pid, tgid, ppid, detached, next_pid>>
    BY DEF wakeup_loop, family
  <1>3. SameSlots /\ SameSleepers
    <2>1. \/ \E k \in 1 .. Len(waiting) : MakeReady(k)
          \/ UNCHANGED <<state, wait_id>>
      BY DEF wakeup_loop
    <2> QED
      BY <2>1, ReadySlots, StillSlots
  <1>4. PICK l \in {"wakeup", "kick", ret[t]} : pc' = [pc EXCEPT ![t] = l]
    <2>1. pc' = pc \/ Goto(c, ret[t]) \/ Goto(c, "kick")
      BY <1>1, Zenon DEF wakeup_loop, BeginKick
    <2>2. pc = [pc EXCEPT ![t] = "wakeup"]
      BY <1>1 DEF Inv, TypeOK
    <2> QED
      BY <1>1, <2>1, <2>2 DEF Goto
  <1>5. /\ ret' = ret \/ ret' = [ret EXCEPT ![t] = ret[t]]
        /\ \E x : loc' = [loc EXCEPT ![t] = x]
    BY <1>1, Zenon DEF wakeup_loop, BeginKick
  <1>6. OthersStay(t) /\ pc'[t] = l
    BY <1>4, <1>5, Alone
  <1>7. ret[t] \in Returns /\ ret'[t] = ret[t]
    <2>1. ret[t] \in Returns
      BY <1>1, AtPlace
    <2>2. ret'[t] = ret[t]
      BY <1>5 DEF Inv, TypeOK
    <2> QED
      BY <2>1, <2>2
  <1>8. CASE ret[t] \notin ExitLabel
    BY <1>1, <1>2, <1>3, <1>4, <1>6, <1>7, <1>8, FamilyTurn DEF ExitLabel, Returns
  <1>9. CASE ret[t] \in ExitLabel
    <2>1. t \in Proc
      BY <1>1, <1>9 DEF Inv, Control, Idles, Task, ExitLabel
    <2>2. Exiting(t)
      BY <1>9 DEF Exiting, ExitLabel
    <2>3. /\ Tells(t) => loc[t].id = ppid[t] /\ loc[t].left < 0
          /\ Told(t) /\ ~detached[t] => \A q \in Proc : InWait4(q) => tgid[q] # ppid[t]
      BY <1>1, <2>1, <2>2 DEF FamilyInv, ExitInv, OnExit, Live
    <2>4. Tells(t)' => loc'[t].id = ppid[t] /\ loc'[t].left < 0
      <3> SUFFICES ASSUME Tells(t)'
                   PROVE  loc'[t].id = ppid[t] /\ loc'[t].left < 0
        OBVIOUS
      <3>1. Tells(t) /\ l = "wakeup"
        BY <1>1, <1>6, <1>7 DEF Tells
      <3>2. loc[t] \in Locals /\ loc \in [Task -> Locals]
        BY DEF Inv, TypeOK
      <3>3. loc' = [loc EXCEPT ![t] = [loc[t] EXCEPT !.woken = loc[t].woken + 1,
                       !.left = IF loc[t].left > 0 THEN loc[t].left - 1 ELSE loc[t].left]]
        <4>1. ~Goto(c, "kick") /\ ~Goto(c, "exit2")
          BY <1>1, <1>6, <3>1 DEF Goto, Inv, TypeOK
        <4>2. ret[t] = "exit2"
          BY <3>1 DEF Tells
        <4> QED
          BY <1>1, <4>1, <4>2, Zenon DEF wakeup_loop, BeginKick
      <3>4. loc'[t].id = loc[t].id /\ loc'[t].left = loc[t].left
        BY <2>3, <3>1, <3>2, <3>3 DEF Locals
      <3> QED
        BY <2>3, <3>1, <3>4
    <2>5. Told(t)' /\ ~detached[t] => \A q \in Proc : InWait4(q) => tgid[q] # ppid[t]
      <3> SUFFICES ASSUME Told(t)', ~detached[t], ~Told(t), NEW q \in Proc, InWait4(q)
                   PROVE  tgid[q] # ppid[t]
        BY <2>3
      <3>1. Tells(t) /\ l # "wakeup"
        BY <1>1, <1>4, <1>6, <1>7, <1>9 DEF Told, Tells, ExitLabel, Returns
      <3>2. loc[t].id = ppid[t] /\ loc[t].left # 0
        <4>1. loc[t].left \in Int
          BY DEF Inv, TypeOK, Locals
        <4> QED
          BY <2>3, <3>1, <4>1
      <3>3. NoneWaits(ppid[t])
        <4>1. pc' # pc
          BY <1>1, <1>6, <3>1
        <4> QED
          BY <1>1, <3>2, <4>1, Zenon DEF wakeup_loop
      <3>4. PICK k \in 1 .. Len(waiting) : waiting[k] = q
        <4>1. q \in Members(waiting)
          BY DEF InWait4, Inv, OneHome
        <4> QED
          BY <4>1 DEF Members
      <3>5. wait_id[q] # ppid[t]
        BY <3>3, <3>4 DEF NoneWaits
      <3> QED
        BY <3>5 DEF FamilyInv, Wait4Inv
    <2> QED
      BY <1>1, <1>2, <1>3, <1>4, <1>6, <1>7, <1>9, <2>1, <2>2, <2>4, <2>5, FamilyExits
  <1> QED
    BY <1>8, <1>9

-------------------------------------------------------------------------------
(* exit *)

\* Whoever holds the kernel lock is the only one on its way out.
LEMMA ExitAlone ==
    ASSUME Inv, FamilyInv, NEW c \in CPU, HoldsKernel(stack[c]), NEW p \in Proc, OnExit(p)
    PROVE  p = stack[c]
  <1>1. pc[p] \in ExitLabel \/ (pc[p] \in {"wakeup", "kick"} /\ ret[p] \in ExitLabel)
    BY DEF FamilyInv, ExitInv
  <1>2. PICK d \in CPU : stack[d] = p
    BY <1>1 DEF OnExit, Inv, Control, Saved, Task, ExitLabel
  <1>3. HoldsKernel(p)
    BY <1>1 DEF HoldsKernel, ExitLabel, InKernel
  <1>4. kernel_lock = c /\ kernel_lock = d
    BY <1>2, <1>3 DEF Inv, Control, KernelLock
  <1> QED
    BY <1>2, <1>4

\* From the place where SIGCHLD is sent to the last before the end.
LEMMA FamilyTell ==
    ASSUME Inv, FamilyInv, NEW c \in CPU, exit_sigchld(c) \/ exit_wakeup(c) \/ exit_poll(c)
    PROVE  FamilyInv'
  <1>1. PICK t \in Proc : /\ t = stack[c] /\ t = current[c] /\ state[t] = "RUNNING"
                          /\ pc[t] \in {"sigchld", "chldwake", "exit2"} /\ t \in Task
    <2>1. pc[stack[c]] \in {"sigchld", "chldwake", "exit2"}
      BY DEF exit_sigchld, exit_wakeup, exit_poll, At
    <2>2. stack[c] = current[c] /\ state[stack[c]] = "RUNNING" /\ stack[c] \in Proc
      BY <2>1, AtPlace DEF IdleLabel
    <2> QED
      BY <2>1, <2>2 DEF Task
  <1>2. Exiting(t) /\ OnExit(t)
    BY <1>1 DEF Exiting, OnExit, Live
  <1>3. /\ Told(t) /\ ~detached[t] => \A q \in Proc : InWait4(q) => tgid[q] # ppid[t]
        /\ ppid[t] \in Int
    BY <1>1, <1>2 DEF FamilyInv, ExitInv, Inv, TypeOK
  <1>4. CASE exit_sigchld(c)
    <2>0. pc[t] = "sigchld" /\ UNCHANGED <<pid, tgid, ppid, detached, next_pid>>
      BY <1>1, <1>4 DEF exit_sigchld, At, process_wake, family
    <2>1. CASE Goto(c, "chldwake") /\ UNCHANGED <<state, wait_id, ret, loc>>
      <3>1. pc' = [pc EXCEPT ![t] = "chldwake"]
        BY <1>1, <2>1 DEF Goto
      <3>2. OthersStay(t) /\ pc'[t] = "chldwake"
        BY <1>1, <2>1, <3>1, Alone
      <3>3. ~Tells(t)' /\ ~Told(t)'
        BY <3>2 DEF Tells, Told
      <3>4. SameSlots /\ SameSleepers
        BY <2>1, StillSlots
      <3> QED
        BY <1>1, <1>2, <2>0, <3>2, <3>3, <3>4, FamilyExits DEF ExitLabel
    <2>2. CASE \E k \in 1 .. Len(waiting) : MakeReady(k) /\ BeginKick(c, 1, "chldwake")
      <3>1. /\ pc' = [pc EXCEPT ![t] = "kick"] /\ ret' = [ret EXCEPT ![t] = "chldwake"]
            /\ \E x : loc' = [loc EXCEPT ![t] = x]
        BY <1>1, <2>2 DEF BeginKick, Goto
      <3>2. OthersStay(t) /\ pc'[t] = "kick"
        BY <1>1, <3>1, Alone
      <3>3. ret'[t] = "chldwake"
        BY <1>1, <3>1 DEF Inv, TypeOK
      <3>4. ~Tells(t)' /\ ~Told(t)'
        BY <3>2, <3>3 DEF Tells, Told
      <3>5. SameSlots /\ SameSleepers
        BY <2>2, ReadySlots
      <3> QED
        BY <1>1, <1>2, <2>0, <3>2, <3>3, <3>4, <3>5, FamilyExits DEF ExitLabel
    <2> QED
      BY <1>4, <2>1, <2>2, Zenon DEF exit_sigchld, process_wake, queues
  <1>5. ASSUME NEW id, NEW r \in {"exit2", "exit3"}, process_wakeup_n(c, id, -1, r),
               r = "exit2" => id = ppid[t],
               r = "exit3" => Told(t)
        PROVE  FamilyInv'
    <2>1. /\ UNCHANGED <<state, wait_id, pid, tgid, ppid, detached, next_pid>>
          /\ pc' = [pc EXCEPT ![t] = "wakeup"] /\ ret' = [ret EXCEPT ![t] = r]
          /\ loc' = [loc EXCEPT ![t] = [loc[t] EXCEPT !.id = id, !.left = -1]]
      BY <1>1, <1>5 DEF process_wakeup_n, Goto, queues, family
    <2>2. OthersStay(t) /\ pc'[t] = "wakeup"
      BY <1>1, <2>1, Alone
    <2>3. ret'[t] = r
      BY <1>1, <2>1 DEF Inv, TypeOK
    <2>4. loc'[t].id = id /\ loc'[t].left = -1
      BY <1>1, <2>1 DEF Inv, TypeOK, Locals
    <2>5. SameSlots /\ SameSleepers
      BY <2>1, StillSlots
    <2>6. Tells(t)' => loc'[t].id = ppid[t] /\ loc'[t].left < 0
      BY <1>5, <2>3, <2>4 DEF Tells
    <2>7. Told(t)' => Told(t)
      BY <1>5, <2>2, <2>3 DEF Told
    <2> QED
      BY <1>1, <1>2, <1>3, <2>1, <2>2, <2>3, <2>5, <2>6, <2>7, FamilyExits DEF ExitLabel
  <1>6. CASE exit_wakeup(c)
    BY <1>1, <1>5, <1>6 DEF exit_wakeup
  <1>7. CASE exit_poll(c)
    <2>1. pc[t] = "exit2" /\ Told(t)
      BY <1>1, <1>7 DEF exit_poll, At, Told
    <2>2. CASE process_wakeup_n(c, POLL, -1, "exit3")
      BY <1>5, <2>1, <2>2
    <2>3. CASE Goto(c, "exit3") /\ UNCHANGED <<queues, family, ret, loc>>
      <3>1. /\ pc' = [pc EXCEPT ![t] = "exit3"]
            /\ UNCHANGED <<state, wait_id, pid, tgid, ppid, detached, next_pid, ret, loc>>
        BY <1>1, <2>3 DEF Goto, queues, family
      <3>2. OthersStay(t) /\ pc'[t] = "exit3"
        BY <1>1, <3>1, Alone
      <3>3. ~Tells(t)'
        BY <3>2 DEF Tells
      <3>4. SameSlots /\ SameSleepers
        BY <3>1, StillSlots
      <3> QED
        BY <1>1, <1>2, <1>3, <2>1, <3>1, <3>2, <3>3, <3>4, FamilyExits DEF ExitLabel
    <2> QED
      BY <1>7, <2>2, <2>3, Zenon DEF exit_poll
  <1> QED
    BY <1>4, <1>6, <1>7

\* The end: whoever was told finds a zombie, and no child is left behind.
LEMMA FamilyKilled ==
    ASSUME Inv, FamilyInv, NEW c \in CPU, exit_killed(c)
    PROVE  FamilyInv'
  <1>1. PICK t \in Proc : /\ t = stack[c] /\ t = current[c] /\ state[t] = "RUNNING"
                          /\ pc[t] = "exit3" /\ t \in Task
    <2>1. pc[stack[c]] = "exit3"
      BY DEF exit_killed, At
    <2>2. stack[c] = current[c] /\ state[stack[c]] = "RUNNING" /\ stack[c] \in Proc
      BY <2>1, AtPlace DEF IdleLabel
    <2> QED
      BY <2>1, <2>2 DEF Task
  <1>2. /\ UNCHANGED <<pid, tgid, ppid, detached, next_pid, wait_id, loc>>
        /\ state' = [state EXCEPT ![t] = "KILLED"]
        /\ pc' = [pc EXCEPT ![t] = "schedule"] /\ ret' = [ret EXCEPT ![t] = "dead"]
    BY <1>1 DEF exit_killed, EnterSwitch, Goto, family
  <1>3. /\ \A p \in Proc : state'[p] = IF p = t THEN "KILLED" ELSE state[p]
        /\ \A p \in Proc \ {t} : pc'[p] = pc[p] /\ ret'[p] = ret[p]
    BY <1>1, <1>2 DEF Inv, TypeOK, Task
  <1>4. OnExit(t) /\ Told(t) /\ pid[t] # 0
    BY <1>1 DEF OnExit, Exiting, Live, Told, FamilyInv, PidInv
  <1>5. /\ Leader(t) => \A q \in Proc : ppid[q] # pid[t]
        /\ ~detached[t] => Finds(ppid[t])
        /\ ~detached[t] => \A q \in Proc : InWait4(q) => tgid[q] # ppid[t]
    BY <1>4 DEF FamilyInv, ExitInv
  <1>6. \A p \in Proc : InWait4(p)' => p # t /\ InWait4(p)
    BY <1>3 DEF InWait4
  <1>7. \A p \in Proc : /\ Leader(p)' <=> Leader(p)
                        /\ Alive(p)' <=> Alive(p) /\ p # t
    BY <1>1, <1>2, <1>3 DEF Leader, Alive
  <1>8. \A p \in Proc : ~OnExit(p)'
    <2>1. HoldsKernel(stack[c])
      BY <1>1 DEF HoldsKernel, InKernel
    <2>2. ASSUME NEW p \in Proc, OnExit(p)'  PROVE OnExit(p) /\ p # t
      BY <1>3, <2>2 DEF OnExit, Live, Exiting
    <2> QED
      BY <1>1, <2>1, <2>2, ExitAlone
  <1>9. PidInv'
    BY <1>1, <1>2, <1>3 DEF FamilyInv, PidInv
  <1>10. LeaderInv'
    BY <1>1, <1>2, <1>3, <1>7 DEF FamilyInv, LeaderInv
  <1>11. Wait4Inv'
    BY <1>2, <1>6 DEF FamilyInv, Wait4Inv
  <1>12. ExitInv'
    BY <1>8 DEF ExitInv
  <1>13. NoLostChild'
    <2> SUFFICES ASSUME NEW p \in Proc, NEW q \in Proc, InWait4(p)',
                        Zombie(q, tgid[p], loc[p].want)'
                 PROVE  FALSE
      BY DEF NoLostChild, InWait4
    <2>1. InWait4(p) /\ ~Zombie(q, tgid[p], loc[p].want)
      BY <1>6 DEF FamilyInv, FamilySound, NoLostChild, InWait4
    <2>2. CASE q = t
      BY <1>2, <1>5, <2>1, <2>2 DEF Zombie, ChildOf
    <2>3. CASE q # t
      BY <1>2, <1>3, <1>7, <2>1, <2>3 DEF Zombie, ChildOf
    <2> QED
      BY <2>2, <2>3
  <1>14. ZombieHasParent'
    <2> SUFFICES ASSUME NEW q \in Proc, state'[q] = "KILLED", ~detached[q]
                 PROVE  Finds(ppid[q])'
      BY <1>2 DEF ZombieHasParent
    <2>1. Finds(ppid[q])
      BY <1>3, <1>5 DEF FamilyInv, FamilySound, ZombieHasParent
    <2>2. PICK x \in Proc : pid[x] = ppid[q] /\ ppid[q] # 0 /\ Alive(x)
      BY <2>1 DEF Finds
    <2>3. x # t
      BY <1>5, <2>2 DEF FamilyInv, LeaderInv
    <2> QED
      BY <1>2, <1>7, <2>2, <2>3 DEF Finds
  <1>15. WaiterHasChild'
    <2> SUFFICES ASSUME NEW p \in Proc, InWait4(p)', tgid[p] \notin IgnoresChildren,
                        NEW l \in Proc, pid[l] = tgid[p], Alive(l)', ~Exiting(l)'
                 PROVE  \E q \in Proc : ChildOf(q, tgid[p], loc[p].want)'
      BY <1>2 DEF WaiterHasChild, InWait4
    <2>1. InWait4(p) /\ Alive(l) /\ ~Exiting(l)
      BY <1>3, <1>6, <1>7 DEF Exiting
    <2>2. PICK q \in Proc : ChildOf(q, tgid[p], loc[p].want)
      BY <2>1 DEF FamilyInv, FamilySound, WaiterHasChild, InWait4
    <2>3. ChildOf(q, tgid[p], loc[p].want)'
      BY <1>2, <1>3, <1>7, <2>2 DEF ChildOf
    <2> QED
      BY <2>3
  <1> QED
    BY <1>9, <1>10, <1>11, <1>12, <1>13, <1>14, <1>15 DEF FamilyInv, FamilySound

\* Before: the children of a leader are orphaned, and whoever nobody will wait
\* for is detached.
LEMMA FamilyExit ==
    ASSUME Inv, FamilyInv, NEW c \in CPU, process_exit(c)
    PROVE  FamilyInv'
  <1>1. PICK t \in Proc : /\ t = stack[c] /\ t = current[c] /\ state[t] = "RUNNING"
                          /\ pc[t] = "exit" /\ t \in Task
    <2>1. pc[stack[c]] = "exit"
      BY DEF process_exit, At
    <2>2. stack[c] = current[c] /\ state[stack[c]] = "RUNNING" /\ stack[c] \in Proc
      BY <2>1, AtPlace DEF IdleLabel
    <2> QED
      BY <2>1, <2>2 DEF Task
  <1>2. /\ UNCHANGED <<state, pid, tgid, next_pid, wait_id, ret, loc>>
        /\ ppid' = [q \in Proc |-> IF q \in Orphans(t) THEN 0 ELSE ppid[q]]
        /\ detached' = [q \in Proc |-> detached[q] \/ q \in Orphans(t)
                                         \/ (q = t /\ Unattended(t))]
        /\ pc' = [pc EXCEPT ![t] = IF detached[t] \/ Unattended(t) THEN "exit2" ELSE "sigchld"]
    BY <1>1 DEF process_exit, Goto, queues
  <1>3. /\ \A q \in Proc : ppid'[q] = IF q \in Orphans(t) THEN 0 ELSE ppid[q]
        /\ \A q \in Proc : detached'[q] <=> detached[q] \/ q \in Orphans(t)
                                              \/ (q = t /\ Unattended(t))
        /\ \A p \in Proc \ {t} : pc'[p] = pc[p]
        /\ pc'[t] = IF detached[t] \/ Unattended(t) THEN "exit2" ELSE "sigchld"
    BY <1>1, <1>2 DEF Inv, TypeOK, Task
  <1>4. \A q \in Proc : q \in Orphans(t) <=> q # t /\ Leader(t) /\ state[q] # "UNUSED"
                                               /\ ppid[q] = tgid[t]
    BY DEF Orphans
  <1>5. \A p \in Proc : /\ Leader(p)' <=> Leader(p)
                        /\ Alive(p)' <=> Alive(p)
                        /\ InWait4(p)' <=> InWait4(p)
    BY <1>2 DEF Leader, Alive, InWait4
  <1>6. \A n : Finds(n)' <=> Finds(n)
    BY <1>2, <1>5 DEF Finds
  <1>7. \A p \in Proc \ {t} : ~OnExit(p) /\ ~OnExit(p)'
    <2>1. HoldsKernel(stack[c])
      BY <1>1 DEF HoldsKernel, InKernel
    <2>2. \A p \in Proc \ {t} : OnExit(p)' <=> OnExit(p)
      BY <1>2, <1>3 DEF OnExit, Live, Exiting
    <2> QED
      BY <1>1, <2>1, <2>2, ExitAlone
  <1>8. pid[t] # 0
    BY <1>1 DEF FamilyInv, PidInv
  <1>9. next_pid \in Nat \ {0}
    BY ConstantsAssumption DEF Inv, TypeOK
  <1>10. PidInv'
    <2>1. \A p \in Proc : pid'[p] < next_pid' /\ tgid'[p] < next_pid' /\ ppid'[p] < next_pid'
      BY <1>2, <1>3, <1>9 DEF FamilyInv, PidInv
    <2>2. \A p \in Proc : state'[p] \in {"UNUSED", "INIT"} => ppid'[p] = 0
      BY <1>2, <1>3 DEF FamilyInv, PidInv
    <2> QED
      BY <1>2, <2>1, <2>2 DEF FamilyInv, PidInv
  <1>11. LeaderInv'
    <2>1. \A p \in Proc : ppid'[p] = ppid[p] \/ ppid'[p] = 0
      BY <1>3
    <2>2. \A q \in Proc : state[q] = "INIT" => pid[q] # 0
      BY DEF FamilyInv, PidInv
    <2> QED
      BY <1>2, <1>5, <2>1, <2>2 DEF FamilyInv, LeaderInv
  <1>12. Wait4Inv'
    BY <1>2, <1>5 DEF FamilyInv, Wait4Inv
  <1>13. ExitInv'
    <2> SUFFICES ASSUME NEW p \in Proc, OnExit(p)'
                 PROVE  /\ pc'[p] \in ExitLabel \/ (pc'[p] \in {"wakeup", "kick"} /\ ret'[p] \in ExitLabel)
                        /\ Leader(p)' => \A q \in Proc : ppid'[q] # pid'[p]
                        /\ ~detached'[p] => Leader(p)' /\ Finds(ppid[p])'
                        /\ Tells(p)' => loc'[p].id = ppid'[p] /\ loc'[p].left < 0
                        /\ Told(p)' => detached'[p]
      BY DEF ExitInv
    <2>1. p = t
      BY <1>7
    <2>2. Leader(t) => \A q \in Proc : ppid'[q] # pid[t]
      <3> SUFFICES ASSUME Leader(t), NEW q \in Proc, ppid'[q] = pid[t]  PROVE FALSE
        OBVIOUS
      <3>1. q \notin Orphans(t) /\ ppid[q] = pid[t]
        BY <1>3, <1>8
      <3>2. q # t
        BY <1>8, <3>1 DEF FamilyInv, LeaderInv
      <3>3. state[q] # "UNUSED"
        BY <1>8, <3>1 DEF FamilyInv, PidInv
      <3> QED
        BY <1>4, <3>1, <3>2, <3>3 DEF Leader
    <2>3. ~detached'[t] => ~Unattended(t) /\ ppid'[t] = ppid[t]
      BY <1>3, <1>4
    <2>4. ~detached'[t] => Leader(t) /\ Finds(ppid[t])
      BY <2>3 DEF Unattended
    <2>5. ~Tells(t)' /\ (Told(t)' => detached'[t])
      BY <1>3 DEF Tells, Told
    <2>6. ~detached'[t] => Finds(ppid[t])'
      BY <1>2, <1>5, <2>3, <2>4 DEF Finds
    <2> QED
      BY <1>2, <1>3, <1>5, <2>1, <2>2, <2>4, <2>5, <2>6 DEF ExitLabel
  <1>14. NoLostChild'
    <2> SUFFICES ASSUME NEW p \in Proc, NEW q \in Proc, InWait4(p)',
                        Zombie(q, tgid[p], loc[p].want)'
                 PROVE  FALSE
      BY DEF NoLostChild, InWait4
    <2>1. InWait4(p) /\ ~Zombie(q, tgid[p], loc[p].want)
      BY <1>5 DEF FamilyInv, FamilySound, NoLostChild, InWait4
    <2>2. ~detached[q] /\ ppid'[q] = ppid[q]
      BY <1>3 DEF Zombie, ChildOf
    <2> QED
      BY <1>2, <1>5, <2>1, <2>2 DEF Zombie, ChildOf
  <1>15. ZombieHasParent'
    <2> SUFFICES ASSUME NEW q \in Proc, state'[q] = "KILLED", ~detached'[q]
                 PROVE  Finds(ppid[q])'
      BY DEF ZombieHasParent
    <2>1. ~detached[q] /\ ppid'[q] = ppid[q]
      BY <1>3
    <2>2. Finds(ppid[q])
      BY <1>2, <2>1 DEF FamilyInv, FamilySound, ZombieHasParent
    <2> QED
      BY <1>2, <1>5, <2>1, <2>2 DEF Finds
  <1>16. WaiterHasChild'
    <2> SUFFICES ASSUME NEW p \in Proc, InWait4(p), tgid[p] \notin IgnoresChildren,
                        NEW l \in Proc, pid[l] = tgid[p], Alive(l)', ~Exiting(l)'
                 PROVE  \E q \in Proc : ChildOf(q, tgid[p], loc[p].want)'
      BY <1>2, <1>5 DEF WaiterHasChild, InWait4
    <2>1. l # t /\ Alive(l) /\ ~Exiting(l)
      BY <1>2, <1>3, <1>5 DEF Exiting
    <2>2. PICK q \in Proc : ChildOf(q, tgid[p], loc[p].want)
      BY <2>1 DEF FamilyInv, FamilySound, WaiterHasChild, InWait4
    <2>3. pid[l] # 0
      BY <2>1 DEF FamilyInv, PidInv, Alive
    <2>4. q \notin Orphans(t)
      BY <1>4, <2>1, <2>2, <2>3 DEF ChildOf, Leader, FamilyInv, PidInv
    <2>5. ~(q = t /\ Unattended(t))
      <3>1. Finds(ppid[q]) /\ Leader(q) /\ ppid[q] \notin IgnoresChildren
        BY <2>1, <2>2, <2>3 DEF Finds, ChildOf
      <3> QED
        BY <3>1 DEF Unattended
    <2>6. ChildOf(q, tgid[p], loc[p].want)'
      BY <1>2, <1>3, <1>5, <2>2, <2>4, <2>5 DEF ChildOf
    <2> QED
      BY <2>6
  <1> QED
    BY <1>10, <1>11, <1>12, <1>13, <1>14, <1>15, <1>16 DEF FamilyInv, FamilySound

-------------------------------------------------------------------------------
(* clone, wait4 and reaping: under the kernel lock, with nobody exiting *)

LEMMA NoneExits ==
    ASSUME Inv, FamilyInv, NEW c \in CPU, HoldsKernel(stack[c]),
           pc[stack[c]] \notin ExitLabel \cup {"wakeup", "kick"}
    PROVE  \A p \in Proc : Live(p) => ~Exiting(p)
  <1> SUFFICES ASSUME NEW p \in Proc, Live(p), Exiting(p)  PROVE FALSE
    OBVIOUS
  <1>1. p = stack[c]
    BY ExitAlone DEF OnExit
  <1> QED
    BY <1>1, NotExiting

\* Whom a waiter's tgid names is past clone.
LEMMA WaiterLeader ==
    ASSUME Inv, FamilyInv, NEW p \in Proc, InWait4(p), NEW l \in Proc, pid[l] = tgid[p], Alive(l)
    PROVE  Live(l)
  <1>1. state[l] # "INIT"
    BY DEF FamilyInv, LeaderInv, InWait4
  <1>2. state[l] \in SlotState
    BY DEF Inv, TypeOK, Task
  <1> QED
    BY <1>1, <1>2 DEF Live, Alive, SlotState

\* process_free gives back a slot that nobody waits for and whose process is
\* nobody's parent.
LEMMA FamilyFree ==
    ASSUME Inv, FamilyInv, NEW v \in Proc, state[v] \in {"KILLED", "INIT"}, process_free(v),
           UNCHANGED <<ret, loc>>, \A p \in Proc : Live(p) => ~Exiting(p) /\ ~Exiting(p)'
    PROVE  FamilyInv'
  <1>1. /\ \A p \in Proc : state'[p] = IF p = v THEN "UNUSED" ELSE state[p]
        /\ \A p \in Proc : pid'[p] = IF p = v THEN 0 ELSE pid[p]
        /\ \A p \in Proc : tgid'[p] = IF p = v THEN 0 ELSE tgid[p]
        /\ \A p \in Proc : ppid'[p] = IF p = v THEN 0 ELSE ppid[p]
        /\ \A p \in Proc : wait_id'[p] = IF p = v THEN 0 ELSE wait_id[p]
        /\ \A p \in Proc \ {v} : detached'[p] = detached[p]
        /\ next_pid' = next_pid
    BY DEF process_free, Inv, TypeOK, Task
  <1>2. \A p \in Proc : InWait4(p)' => InWait4(p) /\ p # v
    BY <1>1 DEF InWait4
  <1>3. \A p \in Proc \ {v} : (Leader(p)' <=> Leader(p)) /\ (Alive(p)' <=> Alive(p))
    BY <1>1 DEF Leader, Alive
  <1>4. next_pid \in Nat \ {0} /\ pid[v] # 0
    BY ConstantsAssumption DEF Inv, TypeOK, FamilyInv, PidInv
  <1>5. PidInv'
    <2>1. \A p \in Proc : pid'[p] < next_pid' /\ tgid'[p] < next_pid' /\ ppid'[p] < next_pid'
      BY <1>1, <1>4 DEF FamilyInv, PidInv
    <2> QED
      BY <1>1, <2>1 DEF FamilyInv, PidInv
  <1>6. LeaderInv'
    <2>1. \A q \in Proc : pid'[q] # 0 => q # v
      BY <1>1
    <2>2. \A q \in Proc : state'[q] = "INIT" => q # v /\ state[q] = "INIT" /\ pid[q] # 0
      BY <1>1 DEF FamilyInv, PidInv
    <2>3. \A p, q \in Proc : pid'[q] # 0 /\ (tgid'[p] = pid'[q] \/ ppid'[p] = pid'[q]) => Leader(q)'
      BY <1>1, <1>3, <2>1 DEF FamilyInv, LeaderInv
    <2>4. \A p, q \in Proc : state'[q] = "INIT"
                                => ppid'[p] # pid'[q] /\ (p # q => tgid'[p] # pid'[q])
      BY <1>1, <2>2 DEF FamilyInv, LeaderInv
    <2>5. \A p \in Proc : pid'[p] # 0 => ppid'[p] # pid'[p]
      BY <1>1 DEF FamilyInv, LeaderInv
    <2> QED
      BY <2>3, <2>4, <2>5 DEF LeaderInv
  <1>7. Wait4Inv'
    BY <1>1, <1>2 DEF FamilyInv, Wait4Inv
  <1>8. ExitInv'
    <2>1. \A p \in Proc : Live(p)' => Live(p)
      BY <1>1 DEF Live
    <2> QED
      BY <2>1 DEF ExitInv, OnExit
  <1>9. NoLostChild'
    <2> SUFFICES ASSUME NEW p \in Proc, NEW q \in Proc, InWait4(p)',
                        Zombie(q, tgid[p], loc[p].want)'
                 PROVE  FALSE
      BY DEF NoLostChild, InWait4
    <2>1. p # v /\ ~Zombie(q, tgid[p], loc[p].want)
      BY <1>2 DEF FamilyInv, FamilySound, NoLostChild, InWait4
    <2>2. q # v
      BY <1>1 DEF Zombie
    <2> QED
      BY <1>1, <1>3, <2>1, <2>2 DEF Zombie, ChildOf
  <1>10. ZombieHasParent'
    <2> SUFFICES ASSUME NEW q \in Proc, state'[q] = "KILLED", ~detached'[q]
                 PROVE  Finds(ppid[q])'
      BY DEF ZombieHasParent
    <2>1. q # v /\ state[q] = "KILLED" /\ ~detached[q] /\ ppid'[q] = ppid[q]
      BY <1>1
    <2>2. PICK x \in Proc : pid[x] = ppid[q] /\ ppid[q] # 0 /\ Alive(x)
      BY <2>1 DEF FamilyInv, FamilySound, ZombieHasParent, Finds
    <2>3. x # v
      BY <2>2 DEF FamilyInv, LeaderInv, Alive
    <2> QED
      BY <1>1, <1>3, <2>1, <2>2, <2>3 DEF Finds
  <1>11. WaiterHasChild'
    <2> SUFFICES ASSUME NEW p \in Proc, InWait4(p)', tgid'[p] \notin IgnoresChildren,
                        NEW l \in Proc, pid'[l] = tgid'[p], Alive(l)', ~Exiting(l)'
                 PROVE  \E q \in Proc : ChildOf(q, tgid[p], loc[p].want)'
      BY DEF WaiterHasChild, InWait4
    <2>1. /\ InWait4(p) /\ p # v /\ tgid'[p] = tgid[p]
          /\ l # v /\ pid[l] = tgid[p] /\ Alive(l)
      BY <1>1, <1>2, <1>3 DEF Alive
    <2>2. ~Exiting(l)
      BY <2>1, WaiterLeader
    <2>3. PICK q \in Proc : ChildOf(q, tgid[p], loc[p].want)
      BY <2>1, <2>2 DEF FamilyInv, FamilySound, WaiterHasChild, InWait4
    <2>4. q # v
      <3>1. ~Zombie(q, tgid[p], loc[p].want)
        BY <2>1 DEF FamilyInv, FamilySound, NoLostChild, InWait4
      <3>2. tgid[p] # 0
        BY <2>1 DEF FamilyInv, PidInv, InWait4
      <3> QED
        BY <2>3, <3>1, <3>2 DEF Zombie, ChildOf, FamilyInv, PidInv
    <2>5. ChildOf(q, tgid[p], loc[p].want)'
      BY <1>1, <1>3, <2>1, <2>3, <2>4 DEF ChildOf
    <2> QED
      BY <2>5
  <1> QED
    BY <1>5, <1>6, <1>7, <1>8, <1>9, <1>10, <1>11 DEF FamilyInv, FamilySound

\* A process in such a call.
LEMMA CallAlone ==
    ASSUME Inv, FamilyInv, NEW c \in CPU, NEW l \in {"reap", "clone", "clone2", "wait4"},
           pc[stack[c]] = l
    PROVE  \E t \in Proc : /\ t = stack[c] /\ t = current[c] /\ t \in Task
                           /\ state[t] = "RUNNING" /\ ret[t] \in Returns
                           /\ \A p \in Proc : Live(p) => ~Exiting(p)
  <1>1. HoldsKernel(stack[c])
    BY DEF HoldsKernel, InKernel
  <1>2. \A p \in Proc : Live(p) => ~Exiting(p)
    BY <1>1, NoneExits DEF ExitLabel
  <1>3. /\ stack[c] \in Proc /\ stack[c] \in Task /\ stack[c] = current[c]
        /\ state[stack[c]] = "RUNNING" /\ ret[stack[c]] \in Returns
    BY AtPlace DEF IdleLabel
  <1> QED
    BY <1>2, <1>3

LEMMA FamilyReap ==
    ASSUME Inv, FamilyInv, NEW c \in CPU, reap_detached(c)
    PROVE  FamilyInv'
  <1>1. pc[stack[c]] = "reap"
    BY DEF reap_detached, At
  <1>2. PICK t \in Proc : /\ t = stack[c] /\ state[t] = "RUNNING" /\ ret[t] \in Returns
                          /\ \A p \in Proc : Live(p) => ~Exiting(p)
    BY <1>1, CallAlone
  <1>3. CASE \E v \in killed : process_free(v) /\ UNCHANGED pc
    <2>1. PICK v \in killed : process_free(v) /\ UNCHANGED pc
      BY <1>3
    <2>2. v \in Proc /\ state[v] = "KILLED"
      BY <2>1 DEF Inv, OneHome
    <2>3. UNCHANGED <<ret, loc>>
      BY DEF reap_detached
    <2>4. \A p \in Proc : Live(p) => ~Exiting(p) /\ ~Exiting(p)'
      BY <1>2, <2>1, <2>3 DEF Exiting
    <2> QED
      BY <2>1, <2>2, <2>3, <2>4, FamilyFree
  <1>4. CASE Goto(c, ret[stack[c]]) /\ UNCHANGED <<queues, family>>
    <2>1. UNCHANGED <<state, wait_id, pid, tgid, ppid, detached, next_pid, ret, loc>>
      BY <1>4 DEF reap_detached, queues, family
    <2>2. ret[stack[c]] \notin ExitLabel \cup {"dead"}
      BY <1>2 DEF Exiting, ExitLabel, Live, Returns
    <2> QED
      BY <1>1, <1>4, <2>1, <2>2, FamilyGoto DEF ExitLabel
  <1> QED
    BY <1>3, <1>4 DEF reap_detached

LEMMA FamilyWait4 ==
    ASSUME Inv, FamilyInv, NEW c \in CPU, process_wait4(c)
    PROVE  FamilyInv'
  <1>1. pc[stack[c]] = "wait4"
    BY DEF process_wait4, At
  <1>2. PICK t \in Proc : /\ t = stack[c] /\ t = current[c] /\ state[t] = "RUNNING" /\ t \in Task
                          /\ \A p \in Proc : Live(p) => ~Exiting(p)
    BY <1>1, CallAlone
  <1>3. \A p \in Proc : Live(p) => ~Exiting(p)
    BY <1>2
  <1>4. CASE \E q \in Proc : /\ state[q] = "KILLED" /\ process_free(q)
                             /\ Goto(c, "sysret") /\ UNCHANGED <<ret, loc>>
    <2>1. \A p \in Proc : Live(p) => ~Exiting(p)'
      BY <1>2, <1>3, <1>4 DEF Goto, Exiting, Inv, TypeOK, Task
    <2> QED
      BY <1>3, <1>4, <2>1, FamilyFree
  <1>5. CASE Goto(c, "sysret") /\ UNCHANGED <<queues, family, ret, loc>>
    BY <1>1, <1>5, FamilyGoto DEF queues, family, ExitLabel
  <1>6. CASE /\ \E q \in Proc : ChildOf(q, tgid[t], loc[t].want)
             /\ \A q \in Proc : ~Zombie(q, tgid[t], loc[t].want)
             /\ process_sleep(c, tgid[t], "wait4r")
    <2>1. /\ UNCHANGED <<pid, tgid, ppid, detached, next_pid, loc>>
          /\ pc' = [pc EXCEPT ![t] = "schedule"] /\ ret' = [ret EXCEPT ![t] = "wait4r"]
          /\ state' = [state EXCEPT ![t] = "SLEEPING"]
          /\ wait_id' = [wait_id EXCEPT ![t] = tgid[t]]
      BY <1>2, <1>6 DEF process_sleep, EnterSwitch, Goto, family
    <2>2. /\ pc'[t] = "schedule" /\ ret'[t] = "wait4r" /\ wait_id'[t] = tgid[t]
          /\ \A p \in Proc \ {t} : pc'[p] = pc[p] /\ ret'[p] = ret[p] /\ wait_id'[p] = wait_id[p]
          /\ \A p \in Proc : state'[p] = IF p = t THEN "SLEEPING" ELSE state[p]
      BY <1>2, <2>1 DEF Inv, TypeOK, Task
    <2>3. /\ \A p \in Proc : Leader(p)' <=> Leader(p)
          /\ \A p \in Proc : Alive(p)' <=> Alive(p)
      BY <1>2, <2>1, <2>2 DEF Leader, Alive
    <2>4. \A n : Finds(n)' <=> Finds(n)
      BY <2>1, <2>3 DEF Finds
    <2>5. \A p \in Proc : Live(p)' => Live(p) /\ ~Exiting(p)'
      BY <1>2, <1>3, <2>2 DEF Live, Exiting
    <2>6. PidInv'
      BY <1>2, <2>1, <2>2 DEF FamilyInv, PidInv
    <2>7. LeaderInv'
      BY <1>2, <2>1, <2>2, <2>3 DEF FamilyInv, LeaderInv
    <2>8. Wait4Inv'
      BY <2>1, <2>2 DEF FamilyInv, Wait4Inv, InWait4
    <2>9. ExitInv'
      BY <2>5 DEF ExitInv, OnExit
    <2>10. NoLostChild'
      <3> SUFFICES ASSUME NEW p \in Proc, NEW q \in Proc, InWait4(p)',
                          Zombie(q, tgid[p], loc[p].want)'
                   PROVE  FALSE
        BY DEF NoLostChild, InWait4
      <3>1. ~Zombie(q, tgid[p], loc[p].want)
        BY <1>6, <2>2 DEF FamilyInv, FamilySound, NoLostChild, InWait4
      <3> QED
        BY <1>2, <2>1, <2>2, <2>3, <3>1 DEF Zombie, ChildOf
    <2>11. ZombieHasParent'
      BY <2>1, <2>2, <2>4 DEF FamilyInv, FamilySound, ZombieHasParent
    <2>12. WaiterHasChild'
      <3> SUFFICES ASSUME NEW p \in Proc, InWait4(p)', tgid[p] \notin IgnoresChildren,
                          NEW l \in Proc, pid[l] = tgid[p], Alive(l)', ~Exiting(l)'
                   PROVE  \E q \in Proc : ChildOf(q, tgid[p], loc[p].want)'
        BY <2>1 DEF WaiterHasChild, InWait4
      <3>1. CASE p # t
        <4>1. InWait4(p) /\ Alive(l)
          BY <2>2, <2>3, <3>1 DEF InWait4
        <4>2. ~Exiting(l)
          BY <1>3, <4>1, WaiterLeader
        <4>3. PICK q \in Proc : ChildOf(q, tgid[p], loc[p].want)
          BY <4>1, <4>2 DEF FamilyInv, FamilySound, WaiterHasChild, InWait4
        <4>4. ChildOf(q, tgid[p], loc[p].want)'
          BY <2>1, <2>2, <2>3, <4>3 DEF ChildOf
        <4> QED
          BY <4>4
      <3>2. CASE p = t
        <4>1. PICK q \in Proc : ChildOf(q, tgid[p], loc[p].want)
          BY <1>6, <3>2
        <4>2. ChildOf(q, tgid[p], loc[p].want)'
          BY <2>1, <2>2, <2>3, <4>1 DEF ChildOf
        <4> QED
          BY <4>2
      <3> QED
        BY <3>1, <3>2
    <2> QED
      BY <2>6, <2>7, <2>8, <2>9, <2>10, <2>11, <2>12 DEF FamilyInv, FamilySound
  <1> QED
    BY <1>2, <1>4, <1>5, <1>6, Zenon DEF process_wait4, Zombie

LEMMA FamilyCreate ==
    ASSUME Inv, FamilyInv, NEW c \in CPU, create_process(c)
    PROVE  FamilyInv'
  <1>1. pc[stack[c]] = "clone" /\ UNCHANGED <<wait_id, ret>>
    BY DEF create_process, At
  <1>2. PICK t \in Proc : /\ t = stack[c] /\ t = current[c] /\ state[t] = "RUNNING" /\ t \in Task
                          /\ \A p \in Proc : Live(p) => ~Exiting(p)
    BY <1>1, CallAlone
  <1>3. CASE Goto(c, "sysret") /\ UNCHANGED <<state, family, loc>>
    BY <1>1, <1>3, FamilyGoto DEF family, ExitLabel
  <1>4. CASE ~(Goto(c, "sysret") /\ UNCHANGED <<state, family, loc>>)
    <2>1. PICK n \in Proc :
             /\ state[n] = "UNUSED" /\ state' = [state EXCEPT ![n] = "INIT"]
             /\ pid' = [pid EXCEPT ![n] = next_pid] /\ tgid' = [tgid EXCEPT ![n] = next_pid]
             /\ loc' = [loc EXCEPT ![t].child = n] /\ next_pid' = next_pid + 1
             /\ pc' = [pc EXCEPT ![t] = "clone2"] /\ UNCHANGED <<ppid, detached>>
      BY <1>2, <1>4, Zenon DEF create_process, Goto
    <2>2. /\ \A p \in Proc : state'[p] = IF p = n THEN "INIT" ELSE state[p]
          /\ \A p \in Proc : pid'[p] = IF p = n THEN next_pid ELSE pid[p]
          /\ \A p \in Proc : tgid'[p] = IF p = n THEN next_pid ELSE tgid[p]
          /\ pc'[t] = "clone2" /\ \A p \in Proc \ {t} : pc'[p] = pc[p]
      BY <1>2, <2>1 DEF Inv, TypeOK, Task
    <2>3. \A p \in Proc : loc'[p].want = loc[p].want
      BY <1>2, <2>1 DEF Inv, TypeOK, Task, Locals
    <2>4. next_pid \in Nat \ {0} /\ \A p \in Proc : pid[p] \in Nat /\ tgid[p] \in Nat /\ ppid[p] \in Nat
      BY ConstantsAssumption DEF Inv, TypeOK
    <2>5. /\ \A p \in Proc : pid[p] < next_pid /\ tgid[p] < next_pid /\ ppid[p] < next_pid
          /\ ppid[n] = 0
      BY <2>1 DEF FamilyInv, PidInv
    <2>6. \A p \in Proc : pid[p] # next_pid /\ tgid[p] # next_pid /\ ppid[p] # next_pid
      BY <2>4, <2>5
    <2>7. /\ \A p \in Proc : InWait4(p)' <=> InWait4(p)
          /\ \A p \in Proc : InWait4(p) => p # n
      BY <1>1, <2>1, <2>2 DEF InWait4
    <2>8. /\ \A p \in Proc \ {n} : (Leader(p)' <=> Leader(p)) /\ (Alive(p)' <=> Alive(p))
          /\ Leader(n)' /\ Alive(n)' /\ ~Alive(n)
      BY <2>1, <2>2 DEF Leader, Alive
    <2>9. \A p \in Proc : Live(p)' => Live(p) /\ ~Exiting(p)'
      BY <1>1, <1>2, <2>2 DEF Live, Exiting
    <2>10. PidInv'
      <3>1. \A p \in Proc : pid'[p] < next_pid' /\ tgid'[p] < next_pid' /\ ppid'[p] < next_pid'
        BY <2>1, <2>2, <2>4, <2>5
      <3>2. \A p, q \in Proc : pid'[p] = pid'[q] /\ pid'[p] # 0 => p = q
        BY <2>2, <2>6 DEF FamilyInv, PidInv
      <3>3. /\ \A p \in Proc : state'[p] # "UNUSED" => pid'[p] # 0 /\ tgid'[p] # 0
            /\ \A p \in Proc : state'[p] \in {"UNUSED", "INIT"} => ppid'[p] = 0
        BY <2>1, <2>2, <2>4, <2>5 DEF FamilyInv, PidInv
      <3> QED
        BY <3>1, <3>2, <3>3 DEF PidInv
    <2>11. LeaderInv'
      <3>1. \A p, q \in Proc : pid'[q] # 0 /\ (tgid'[p] = pid'[q] \/ ppid'[p] = pid'[q]) => Leader(q)'
        BY <2>1, <2>2, <2>6, <2>8 DEF FamilyInv, LeaderInv
      <3>2. \A p, q \in Proc : state'[q] = "INIT"
                                  => ppid'[p] # pid'[q] /\ (p # q => tgid'[p] # pid'[q])
        BY <2>1, <2>2, <2>6 DEF FamilyInv, LeaderInv
      <3>3. \A p \in Proc : pid'[p] # 0 => ppid'[p] # pid'[p]
        BY <2>1, <2>2, <2>6 DEF FamilyInv, LeaderInv
      <3> QED
        BY <3>1, <3>2, <3>3 DEF LeaderInv
    <2>12. Wait4Inv'
      BY <1>1, <2>2, <2>7 DEF FamilyInv, Wait4Inv
    <2>13. ExitInv'
      BY <2>9 DEF ExitInv, OnExit
    <2>14. NoLostChild'
      <3> SUFFICES ASSUME NEW p \in Proc, NEW q \in Proc, InWait4(p)',
                          Zombie(q, tgid[p], loc[p].want)'
                   PROVE  FALSE
        BY DEF NoLostChild, InWait4
      <3>1. InWait4(p) /\ p # n /\ ~Zombie(q, tgid[p], loc[p].want)
        BY <2>7 DEF FamilyInv, FamilySound, NoLostChild, InWait4
      <3>2. q # n
        BY <2>2 DEF Zombie
      <3> QED
        BY <2>1, <2>2, <2>3, <2>8, <3>1, <3>2 DEF Zombie, ChildOf
    <2>15. ZombieHasParent'
      <3> SUFFICES ASSUME NEW q \in Proc, state'[q] = "KILLED", ~detached[q]
                   PROVE  Finds(ppid[q])'
        BY <2>1 DEF ZombieHasParent
      <3>1. PICK x \in Proc : pid[x] = ppid[q] /\ ppid[q] # 0 /\ Alive(x)
        BY <2>2 DEF FamilyInv, FamilySound, ZombieHasParent, Finds
      <3> QED
        BY <2>1, <2>2, <2>8, <3>1 DEF Finds
    <2>16. WaiterHasChild'
      <3> SUFFICES ASSUME NEW p \in Proc, InWait4(p)', tgid'[p] \notin IgnoresChildren,
                          NEW l \in Proc, pid'[l] = tgid'[p], Alive(l)', ~Exiting(l)'
                   PROVE  \E q \in Proc : ChildOf(q, tgid[p], loc[p].want)'
        BY DEF WaiterHasChild, InWait4
      <3>1. InWait4(p) /\ p # n /\ tgid'[p] = tgid[p]
        BY <2>2, <2>7
      <3>2. l # n /\ pid[l] = tgid[p] /\ Alive(l)
        BY <2>2, <2>6, <2>8, <3>1
      <3>3. ~Exiting(l)
        BY <1>2, <3>1, <3>2, WaiterLeader
      <3>4. PICK q \in Proc : ChildOf(q, tgid[p], loc[p].want)
        BY <3>1, <3>2, <3>3 DEF FamilyInv, FamilySound, WaiterHasChild, InWait4
      <3>5. ChildOf(q, tgid[p], loc[p].want)'
        BY <2>1, <2>2, <2>3, <2>8, <3>1, <3>4 DEF ChildOf
      <3> QED
        BY <3>5
    <2> QED
      BY <2>10, <2>11, <2>12, <2>13, <2>14, <2>15, <2>16 DEF FamilyInv, FamilySound
  <1> QED
    BY <1>3, <1>4

LEMMA FamilyClone ==
    ASSUME Inv, FamilyInv, NEW c \in CPU, process_clone(c)
    PROVE  FamilyInv'
  <1>1. pc[stack[c]] = "clone2"
    BY DEF process_clone, At
  <1>2. PICK t \in Proc : /\ t = stack[c] /\ t = current[c] /\ state[t] = "RUNNING" /\ t \in Task
                          /\ \A p \in Proc : Live(p) => ~Exiting(p)
    BY <1>1, CallAlone
  <1>3. PICK n \in Proc : n = loc[stack[c]].child /\ state[n] = "INIT" /\ n \in Task
    BY <1>1 DEF Inv, Filling, Task
  <1>4. CASE process_free(n) /\ Goto(c, "sysret") /\ UNCHANGED <<ret, loc>>
    <2>1. \A p \in Proc : Live(p) => ~Exiting(p)'
      BY <1>2, <1>4 DEF Goto, Exiting, Inv, TypeOK, Task
    <2> QED
      BY <1>2, <1>3, <1>4, <2>1, FamilyFree
  <1>5. CASE ~(process_free(n) /\ Goto(c, "sysret") /\ UNCHANGED <<ret, loc>>)
    <2>1. /\ state' = [state EXCEPT ![n] = "READY"]
          /\ pc' = [pc EXCEPT ![n] = "resume", ![t] = "kick"]
          /\ ret' = [ret EXCEPT ![n] = "user", ![t] = "sysret"]
          /\ loc' = [loc EXCEPT ![n] = NoLoc, ![t] = [NoLoc EXCEPT !.left = 1, !.todo = CPU \ {c}]]
          /\ UNCHANGED <<pid, detached, next_pid, wait_id>>
      BY <1>2, <1>3, <1>5, Zenon DEF process_clone
    <2>2. /\ tgid' = [tgid EXCEPT ![n] = tgid[t]] \/ tgid' = tgid
          /\ ppid' = [ppid EXCEPT ![n] = ppid[t]] \/ ppid' = [ppid EXCEPT ![n] = tgid[t]]
      BY <1>2, <1>3, <1>5, Zenon DEF process_clone
    <2>3. /\ \A p \in Proc : state'[p] = IF p = n THEN "READY" ELSE state[p]
          /\ t # n /\ pc'[n] = "resume" /\ pc'[t] = "kick" /\ ret'[n] = "user" /\ ret'[t] = "sysret"
          /\ \A p \in Proc \ {t, n} : pc'[p] = pc[p] /\ ret'[p] = ret[p]
      BY <1>2, <1>3, <2>1 DEF Inv, TypeOK, Task
    <2>4. \A p \in Proc \ {t, n} : loc'[p] = loc[p]
      BY <1>2, <1>3, <2>1 DEF Inv, TypeOK, Task
    <2>5. /\ \A p \in Proc \ {n} : tgid'[p] = tgid[p] /\ ppid'[p] = ppid[p]
          /\ tgid'[n] \in {tgid[n], tgid[t]} /\ ppid'[n] \in {ppid[t], tgid[t]}
      BY <1>2, <1>3, <2>2 DEF Inv, TypeOK
    <2>6. \A p \in Proc : /\ InWait4(p)' <=> InWait4(p)
                          /\ InWait4(p) => p \notin {t, n} /\ tgid'[p] = tgid[p] /\ loc'[p] = loc[p]
      BY <1>2, <1>3, <2>3, <2>4, <2>5 DEF InWait4
    <2>7. /\ \A p \in Proc \ {n} : Leader(p)' <=> Leader(p)
          /\ \A p \in Proc : Alive(p)' <=> Alive(p)
      BY <1>3, <2>1, <2>3, <2>5 DEF Leader, Alive
    <2>8. /\ pid[n] # 0 /\ ppid[n] = 0 /\ tgid[t] # 0
          /\ \A p \in Proc : ppid[p] # pid[n]
          /\ \A p \in Proc \ {n} : tgid[p] # pid[n]
      BY <1>2, <1>3 DEF FamilyInv, PidInv, LeaderInv
    <2>9. \A p \in Proc : Live(p)' => ~Exiting(p)'
      <3>1. ~Exiting(n)' /\ ~Exiting(t)'
        BY <2>3 DEF Exiting
      <3>2. \A p \in Proc \ {t, n} : Live(p)' => ~Exiting(p)'
        BY <1>2, <2>3 DEF Exiting, Live
      <3> QED
        BY <3>1, <3>2
    <2>10. PidInv'
      BY <1>2, <1>3, <2>1, <2>3, <2>5, <2>8 DEF FamilyInv, PidInv
    <2>11. LeaderInv'
      <3>1. \A p \in Proc : ppid'[p] # pid[n] /\ (p # n => tgid'[p] # pid[n])
        BY <2>3, <2>5, <2>8
      <3>2. \A p, q \in Proc : pid'[q] # 0 /\ (tgid'[p] = pid'[q] \/ ppid'[p] = pid'[q]) => Leader(q)'
        <4> SUFFICES ASSUME NEW p \in Proc, NEW q \in Proc, pid[q] # 0,
                            tgid'[p] = pid[q] \/ ppid'[p] = pid[q]
                     PROVE  Leader(q)'
          BY <2>1
        <4>1. CASE q = n
          BY <2>1, <3>1, <4>1 DEF Leader
        <4>2. CASE q # n
          BY <2>5, <2>7, <4>2 DEF FamilyInv, LeaderInv
        <4> QED
          BY <4>1, <4>2
      <3>3. \A p, q \in Proc : state'[q] = "INIT"
                                  => ppid'[p] # pid'[q] /\ (p # q => tgid'[p] # pid'[q])
        <4> SUFFICES ASSUME NEW p \in Proc, NEW q \in Proc, state'[q] = "INIT"
                     PROVE  ppid'[p] # pid[q] /\ (p # q => tgid'[p] # pid[q])
          BY <2>1
        <4>1. q # n /\ q # t /\ state[q] = "INIT"
          BY <1>2, <2>3
        <4>2. /\ \A x \in Proc : ppid[x] # pid[q] /\ (x # q => tgid[x] # pid[q])
          BY <4>1 DEF FamilyInv, LeaderInv
        <4> QED
          BY <2>5, <4>1, <4>2
      <3>4. \A p \in Proc : pid'[p] # 0 => ppid'[p] # pid'[p]
        <4>1. \A p \in Proc : pid[p] # 0 => ppid[p] # pid[p]
          BY DEF FamilyInv, LeaderInv
        <4>2. ppid'[n] # pid[n]
          BY <3>1
        <4> QED
          BY <2>1, <2>5, <4>1, <4>2
      <3> QED
        BY <3>2, <3>3, <3>4 DEF LeaderInv
    <2>12. Wait4Inv'
      BY <2>1, <2>6 DEF FamilyInv, Wait4Inv
    <2>13. ExitInv'
      BY <2>9 DEF ExitInv, OnExit
    <2>14. NoLostChild'
      <3> SUFFICES ASSUME NEW p \in Proc, NEW q \in Proc, InWait4(p)',
                          Zombie(q, tgid[p], loc[p].want)'
                   PROVE  FALSE
        BY DEF NoLostChild, InWait4
      <3>1. InWait4(p) /\ ~Zombie(q, tgid[p], loc[p].want)
        BY <2>6 DEF FamilyInv, FamilySound, NoLostChild, InWait4
      <3>2. q # n
        BY <2>3 DEF Zombie
      <3> QED
        <4>1. tgid'[p] = tgid[p] /\ loc'[p] = loc[p]
          BY <2>6, <3>1
        <4>2. /\ ppid'[q] = ppid[q] /\ (Leader(q)' <=> Leader(q)) /\ state'[q] = state[q]
              /\ pid'[q] = pid[q] /\ detached'[q] = detached[q]
          BY <2>1, <2>3, <2>5, <2>7, <3>2
        <4> QED
          BY <3>1, <4>1, <4>2 DEF Zombie, ChildOf
    <2>15. ZombieHasParent'
      <3> SUFFICES ASSUME NEW q \in Proc, state'[q] = "KILLED", ~detached[q]
                   PROVE  Finds(ppid[q])'
        BY <2>1 DEF ZombieHasParent
      <3>1. PICK x \in Proc : pid[x] = ppid[q] /\ ppid[q] # 0 /\ Alive(x) /\ ppid'[q] = ppid[q]
        <4>1. q # n /\ state[q] = "KILLED"
          BY <2>3
        <4>2. Finds(ppid[q]) /\ ppid'[q] = ppid[q]
          BY <2>5, <4>1 DEF FamilyInv, FamilySound, ZombieHasParent
        <4> QED
          BY <4>2 DEF Finds
      <3> QED
        BY <2>1, <2>7, <3>1 DEF Finds
    <2>16. WaiterHasChild'
      <3> SUFFICES ASSUME NEW p \in Proc, InWait4(p)', tgid'[p] \notin IgnoresChildren,
                          NEW l \in Proc, pid[l] = tgid'[p], Alive(l)', ~Exiting(l)'
                   PROVE  \E q \in Proc : ChildOf(q, tgid[p], loc[p].want)'
        BY <2>1 DEF WaiterHasChild, InWait4
      <3>1. InWait4(p) /\ tgid'[p] = tgid[p] /\ loc'[p] = loc[p] /\ Alive(l)
        BY <2>6, <2>7
      <3>2. ~Exiting(l)
        BY <1>2, <3>1, WaiterLeader
      <3>3. PICK q \in Proc : ChildOf(q, tgid[p], loc[p].want)
        BY <3>1, <3>2 DEF FamilyInv, FamilySound, WaiterHasChild, InWait4
      <3>4. q # n
        BY <2>8, <3>1, <3>3 DEF ChildOf, FamilyInv, PidInv, InWait4
      <3>5. ChildOf(q, tgid[p], loc[p].want)'
        <4>1. /\ ppid'[q] = ppid[q] /\ (Leader(q)' <=> Leader(q)) /\ state'[q] = state[q]
              /\ pid'[q] = pid[q] /\ detached'[q] = detached[q]
          BY <2>1, <2>3, <2>5, <2>7, <3>4
        <4> QED
          BY <3>1, <3>3, <4>1 DEF ChildOf
      <3> QED
        BY <3>5
    <2> QED
      BY <2>10, <2>11, <2>12, <2>13, <2>14, <2>15, <2>16 DEF FamilyInv, FamilySound
  <1> QED
    BY <1>4, <1>5

-------------------------------------------------------------------------------
(* The theorem *)

LEMMA FamilyInit == Init => FamilyInv
  <1> SUFFICES ASSUME Init  PROVE FamilyInv
    OBVIOUS
  <1>1. PICK shell \in Proc, boot \in CPU :
           /\ state = [t \in Task |-> IF t = shell \/ t \in CPU \ {boot} THEN "RUNNING"
                                      ELSE IF t = boot THEN "READY" ELSE "UNUSED"]
           /\ pid = [p \in Proc |-> IF p = shell THEN 1 ELSE 0]
           /\ tgid = pid /\ ppid = [p \in Proc |-> 0] /\ next_pid = 2
           /\ pc = [t \in Task |-> IF t = boot THEN "resume" ELSE "user"]
           /\ ret = [t \in Task |-> "user"]
    BY Zenon DEF Init
  <1>2. /\ \A p \in Proc : state[p] = IF p = shell THEN "RUNNING" ELSE "UNUSED"
        /\ \A p \in Proc : pid[p] = IF p = shell THEN 1 ELSE 0
        /\ \A p \in Proc : tgid[p] = pid[p] /\ ppid[p] = 0
        /\ \A p \in Proc : pc[p] = "user" /\ ret[p] = "user"
    BY <1>1, ConstantsAssumption DEF Task
  <1>3. \A p \in Proc : ~InWait4(p) /\ ~Exiting(p) /\ state[p] # "KILLED"
    BY <1>2 DEF InWait4, Exiting
  <1>4. PidInv /\ LeaderInv
    BY <1>1, <1>2 DEF PidInv, LeaderInv, Leader
  <1>5. Wait4Inv /\ ExitInv
    BY <1>3 DEF Wait4Inv, ExitInv, OnExit
  <1>6. FamilySound
    BY <1>3 DEF FamilySound, NoLostChild, ZombieHasParent, WaiterHasChild, InWait4
  <1> QED
    BY <1>4, <1>5, <1>6 DEF FamilyInv

\* Nothing of the family changes.
LEMMA FamilyStill ==
    ASSUME Inv, FamilyInv, UNCHANGED <<queues, family, pc, ret, loc>>
    PROVE  FamilyInv'
  <1>1. /\ UNCHANGED <<pid, tgid, ppid, detached, next_pid>>
        /\ UNCHANGED <<state, wait_id, pc, ret, loc>>
    BY DEF queues, family
  <1>2. SameSlots /\ SameWaiters
    BY <1>1 DEF SameSlots, SameWaiters, Live, InWait4
  <1>3. NoProc \notin Proc
    BY ConstantsAssumption
  <1> QED
    BY <1>1, <1>2, <1>3, FamilyAside

\* Every step of the kernel keeps the family in order.
LEMMA FamilyNext == Inv /\ FamilyInv /\ [Next]_vars => FamilyInv'
  <1> SUFFICES ASSUME Inv, FamilyInv, [Next]_vars  PROVE FamilyInv'
    OBVIOUS
  <1>1. CASE UNCHANGED vars
    BY <1>1, FamilyStill DEF vars
  <1>2. ASSUME NEW c \in CPU, Kernel(c)  PROVE FamilyInv'
    <2>1. CASE irq_return(c)
      BY <2>1, FamilyYield DEF irq_return, At
    <2>2. CASE sys_sleep(c)
      <3>1. pc[stack[c]] = "sys" /\ \E id \in Chan : process_sleep(c, id, "sysret")
        BY <2>2 DEF sys_sleep, At
      <3>2. stack[c] \in Proc
        BY <3>1, AtPlace DEF IdleLabel
      <3> QED
        BY <3>1, <3>2, FamilySleep
    <2> QED
      BY <1>2, <2>1, <2>2, FamilySchedule, FamilyResume, FamilyReap, FamilyWakeup, FamilyKick,
         FamilySyscall, FamilySysWakeup, FamilyCreate, FamilyClone, FamilyExit, FamilyTell,
         FamilyKilled, FamilyWait4, Zenon DEF Kernel
  <1>3. ASSUME NEW c \in CPU, tick(c)  PROVE FamilyInv'
    BY <1>3, FamilyYield DEF tick, At
  <1>4. ASSUME NEW c \in CPU, resched(c)  PROVE FamilyInv'
    <2>1. pc[stack[c]] = "user"
      BY <1>4 DEF resched, At
    <2>2. CASE process_yield(c)
      BY <2>1, <2>2, FamilyYield
    <2>3. CASE UNCHANGED <<queues, family, pc, ret, loc>>
      BY <2>3, FamilyStill
    <2> QED
      BY <1>4, <2>2, <2>3 DEF resched
  <1>5. ASSUME NEW c \in CPU, sleep_unlocked(c)  PROVE FamilyInv'
    <2>1. /\ pc[stack[c]] = "user" /\ current[c] \in Proc
          /\ \E id \in Chan : process_sleep(c, id, "user")
      BY <1>5 DEF sleep_unlocked, At
    <2>2. stack[c] \in Proc
      BY <2>1, AtPlace
    <2> QED
      BY <2>1, <2>2, FamilySleep
  <1> QED
    BY <1>1, <1>2, <1>3, <1>4, <1>5, FamilyIrqWake, FamilySyscall DEF Next

\* The process family of process.c is sound, for every number of CPUs, slots
\* and pids and for any parents that ignore SIGCHLD: wait4 never sleeps on a
\* zombie it should reap, a zombie nobody may reap by itself has a living
\* parent, and whoever sleeps in wait4 still has a child to wait for.
THEOREM FamilySafe == Spec => []FamilySound
  <1>1. FamilyInv => FamilySound
    BY DEF FamilyInv
  <1> QED
    BY <1>1, InvHolds, FamilyInit, FamilyNext, PTL DEF Spec

===============================================================================

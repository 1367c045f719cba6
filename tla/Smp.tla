---------------------------------- MODULE Smp ----------------------------------
(***************************************************************************)
(* What the CPUs do to each other in smp.c: the TLB shootdown, which spins *)
(* until every CPU has flushed, and the owner lock (the kernel lock or the *)
(* net lock), on which CPUs spin with interrupts disabled.  A spinning CPU *)
(* cannot take the interrupt, so every spin loop polls instead.            *)
(*                                                                         *)
(* A CPU that unmaps something unmaps the page of its own name, shoots it  *)
(* down and gives it to the next user (vmm_free_mmio_region).              *)
(***************************************************************************)
EXTENDS Integers, FiniteSets

CONSTANTS
    ncpus,
    Shooter,     \* the CPUs whose processes unmap something
    Locker,      \* the CPUs whose processes take the lock
    MaxCalls     \* bound on system calls and shootdowns

CPU == 0 .. ncpus - 1
NoCPU == -1

ASSUME SmpAssumption == ncpus \in Nat /\ Shooter \subseteq CPU /\ Locker \subseteq CPU
                        /\ MaxCalls \in Nat

VARIABLES
    pc,
    back,               \* where a shootdown returns to
    i,                  \* the CPU its loop has come to
    tlb_flush, ipi,     \* of every CPU; ipi: TLB_SHOOTDOWN_VECTOR is pending
    poll,               \* how far a CPU is in tlb_poll
    mapped, cached,     \* the page table; what the TLB of each CPU holds
    late,               \* ghost: what was loaded after a flush, before its flag was cleared
    locked, owner,      \* the owner_lock
    calls               \* system calls and shootdowns so far

vars == <<pc, back, i, tlb_flush, ipi, poll, mapped, cached, late, locked, owner, calls>>

\* Interrupts are enabled in "run" only.
Label == {"run", "off", "spin", "own", "held", "release", "set", "wait", "done"}

Init ==
    /\ pc = [c \in CPU |-> "run"] /\ back = [c \in CPU |-> "off"] /\ i = [c \in CPU |-> 0]
    /\ tlb_flush = [c \in CPU |-> FALSE] /\ ipi = [c \in CPU |-> FALSE]
    /\ poll = [c \in CPU |-> "no"]
    /\ mapped = Shooter /\ cached = [c \in CPU |-> {}] /\ late = cached
    /\ locked = FALSE /\ owner = NoCPU /\ calls = 0

\* c is at l, and not inside tlb_poll.
At(c, l) == pc[c] = l /\ poll[c] = "no"
Goto(c, l) == pc' = [pc EXCEPT ![c] = l]

-------------------------------------------------------------------------------
(* tlb_poll: test the flag, flush, clear the flag *)

\* Faulty variant: a lock is waited for without polling.
PollsIfWaiting == {"wait"}

\* The loops that call tlb_poll: owner_lock_acquire, smp_tlb_shootdown.
Polls == {"spin", "wait"}

Waits(c) == IF pc[c] = "spin" THEN locked ELSE i[c] < ncpus /\ tlb_flush[i[c]]

poll_test(c) ==
    /\ poll[c] = "no"
    /\ \/ /\ pc[c] \in Polls /\ Waits(c)
          /\ tlb_flush[c]
          /\ poll' = [poll EXCEPT ![c] = "flush"]
          /\ UNCHANGED ipi
       \/ /\ pc[c] = "run" /\ ipi[c]
          /\ ipi' = [ipi EXCEPT ![c] = FALSE]
          /\ poll' = [poll EXCEPT ![c] = IF tlb_flush[c] THEN "flush" ELSE "no"]
    /\ UNCHANGED <<pc, back, i, tlb_flush, mapped, cached, late, locked, owner, calls>>

\* Faulty variant: the flag is cleared first.
poll_cleared_first(c) ==
    /\ \/ /\ poll[c] = "flush"
          /\ tlb_flush' = [tlb_flush EXCEPT ![c] = FALSE]
          /\ poll' = [poll EXCEPT ![c] = "clear"]
          /\ UNCHANGED <<cached, late>>
       \/ /\ poll[c] = "clear"
          /\ cached' = [cached EXCEPT ![c] = {}] /\ late' = [late EXCEPT ![c] = {}]
          /\ poll' = [poll EXCEPT ![c] = "no"]
          /\ UNCHANGED tlb_flush
    /\ UNCHANGED <<pc, back, i, ipi, mapped, locked, owner, calls>>

tlb_poll(c) ==
    /\ \/ /\ poll[c] = "flush"
          /\ cached' = [cached EXCEPT ![c] = {}] /\ late' = [late EXCEPT ![c] = {}]
          /\ poll' = [poll EXCEPT ![c] = "clear"]
          /\ UNCHANGED tlb_flush
       \/ /\ poll[c] = "clear"
          /\ tlb_flush' = [tlb_flush EXCEPT ![c] = FALSE]
          /\ poll' = [poll EXCEPT ![c] = "no"]
          /\ UNCHANGED <<cached, late>>
    /\ UNCHANGED <<pc, back, i, ipi, mapped, locked, owner, calls>>

\* The hardware loads a mapping at any time, speculatively as well, tlb_poll
\* between its flush and its clearing store included.  The entry of a page in
\* the TLB of the CPU that unmaps it is left out: that CPU invalidates it with
\* the mapping.
tlb_load(c) ==
    /\ \E p \in mapped \ (cached[c] \cup {c}) :
          /\ cached' = [cached EXCEPT ![c] = @ \cup {p}]
          /\ late' = IF poll[c] = "clear" THEN [late EXCEPT ![c] = @ \cup {p}] ELSE late
    /\ UNCHANGED <<pc, back, i, tlb_flush, ipi, poll, mapped, locked, owner, calls>>

-------------------------------------------------------------------------------
(* The owner lock *)

\* Interrupts are disabled by a system call or an exception.
enter_kernel(c) ==
    /\ At(c, "run") /\ calls < MaxCalls
    /\ calls' = calls + 1
    /\ Goto(c, "off")
    /\ UNCHANGED <<back, i, tlb_flush, ipi, poll, mapped, cached, late, locked, owner>>

leave_kernel(c) ==
    /\ At(c, "off")
    /\ Goto(c, "run")
    /\ UNCHANGED <<back, i, tlb_flush, ipi, poll, mapped, cached, late, locked, owner, calls>>

\* kernel_lock_enter: nothing when the CPU is the owner already.
kernel_lock_enter(c) ==
    /\ c \in Locker /\ At(c, "off")
    /\ Goto(c, IF owner = c THEN "held" ELSE "spin")
    /\ UNCHANGED <<back, i, tlb_flush, ipi, poll, mapped, cached, late, locked, owner, calls>>

\* The exchange that finds the lock free, then the store of the owner.
owner_lock_acquire(c) ==
    /\ \/ /\ At(c, "spin") /\ ~locked
          /\ locked' = TRUE
          /\ Goto(c, "own")
          /\ UNCHANGED owner
       \/ /\ At(c, "own")
          /\ owner' = c
          /\ Goto(c, "held")
          /\ UNCHANGED locked
    /\ UNCHANGED <<back, i, tlb_flush, ipi, poll, mapped, cached, late, calls>>

owner_lock_release(c) ==
    /\ \/ /\ At(c, "held")
          /\ owner' = NoCPU
          /\ Goto(c, "release")
          /\ UNCHANGED locked
       \/ /\ At(c, "release")
          /\ locked' = FALSE
          /\ Goto(c, "off")
          /\ UNCHANGED owner
    /\ UNCHANGED <<back, i, tlb_flush, ipi, poll, mapped, cached, late, calls>>

-------------------------------------------------------------------------------
(* smp_tlb_shootdown, with the lock or without it *)

unmap(c) ==
    /\ At(c, "off") \/ At(c, "held")
    /\ c \in Shooter /\ calls < MaxCalls
    /\ calls' = calls + 1
    /\ mapped' = mapped \ {c}
    /\ late' = [d \in CPU |-> IF poll[d] = "clear" THEN late[d] ELSE late[d] \ {c}]
    /\ back' = [back EXCEPT ![c] = pc[c]]
    /\ Goto(c, "set")
    /\ UNCHANGED <<i, tlb_flush, ipi, poll, cached, locked, owner>>

\* The two loops of the shootdown go through all CPUs.
InLoop(c) == i[c] < ncpus

\* The loop that sets the flags, and lapic_send_others.
smp_tlb_shootdown(c) ==
    /\ \/ /\ At(c, "set") /\ InLoop(c)
          /\ tlb_flush' = IF i[c] = c THEN tlb_flush ELSE [tlb_flush EXCEPT ![i[c]] = TRUE]
          /\ i' = [i EXCEPT ![c] = @ + 1]
          /\ UNCHANGED <<pc, ipi>>
       \/ /\ At(c, "set") /\ ~InLoop(c)
          /\ ipi' = [d \in CPU |-> IF d = c THEN ipi[d] ELSE TRUE]
          /\ i' = [i EXCEPT ![c] = 0]
          /\ Goto(c, "wait")
          /\ UNCHANGED tlb_flush
    /\ UNCHANGED <<back, poll, mapped, cached, late, locked, owner, calls>>

\* The loop that waits for every CPU, itself included.
shootdown_wait(c) ==
    /\ At(c, "wait")
    /\ \/ /\ InLoop(c) /\ ~tlb_flush[i[c]]
          /\ i' = [i EXCEPT ![c] = @ + 1]
          /\ UNCHANGED pc
       \/ /\ ~InLoop(c)
          /\ i' = [i EXCEPT ![c] = 0]
          /\ Goto(c, "done")
    /\ UNCHANGED <<back, tlb_flush, ipi, poll, mapped, cached, late, locked, owner, calls>>

\* The addresses are used for something else.
reuse(c) ==
    /\ At(c, "done")
    /\ mapped' = mapped \cup {c}
    /\ Goto(c, back[c])
    /\ UNCHANGED <<back, i, tlb_flush, ipi, poll, cached, late, locked, owner, calls>>

-------------------------------------------------------------------------------
Step(c) == \/ poll_test(c) \/ tlb_poll(c) \/ owner_lock_acquire(c) \/ owner_lock_release(c)
           \/ smp_tlb_shootdown(c) \/ shootdown_wait(c)

Next == \E c \in CPU : \/ Step(c) \/ tlb_load(c) \/ enter_kernel(c) \/ leave_kernel(c)
                       \/ kernel_lock_enter(c) \/ unmap(c) \/ reuse(c)

Spec == Init /\ [][Next]_vars

\* Instructions are executed, pending interrupts are taken, system calls end.
\* Strong fairness for those, since a call may take the lock again and again.
Fairness ==
    \A c \in CPU : WF_vars(Step(c)) /\ WF_vars(reuse(c)) /\ SF_vars(leave_kernel(c))

FairSpec == Spec /\ Fairness

-------------------------------------------------------------------------------
(* Properties *)

\* The variables hold what their declarations say.
TypeOK ==
    /\ pc \in [CPU -> Label] /\ back \in [CPU -> {"off", "held"}] /\ i \in [CPU -> 0 .. ncpus]
    /\ tlb_flush \in [CPU -> BOOLEAN] /\ ipi \in [CPU -> BOOLEAN]
    /\ poll \in [CPU -> {"no", "flush", "clear"}]
    /\ mapped \subseteq Shooter /\ cached \in [CPU -> SUBSET Shooter]
    /\ late \in [CPU -> SUBSET Shooter]
    /\ calls \in 0 .. MaxCalls /\ locked \in BOOLEAN /\ owner \in CPU \cup {NoCPU}

\* When a shootdown is over no CPU translates the page any more, also when
\* several CPUs shoot at once and one flush answers two of them.  One window is
\* left, and no other: tlb_poll clears its flag after the flush, so a page that
\* its CPU loads and the initiator unmaps in between, while the flag is still
\* set for somebody else, is answered by a flush that came before the load.
FlushDone == \A c, d \in CPU : pc[c] = "done" /\ c \in cached[d] => c \in late[d]

\* Who holds the lock, in a shootdown or not.
Holds(c) == pc[c] = "held" \/ (pc[c] \in {"set", "wait", "done"} /\ back[c] = "held")

\* The holder, and nobody else, finds itself to be the owner: this is what
\* kernel_lock_enter, kernel_lock_drop and net_lock_held test without a lock.
OwnerKnown == \A c \in CPU : owner = c <=> Holds(c)

\* What holds of shootdowns and of the lock's owner in every state.
SmpSound == TypeOK /\ FlushDone /\ OwnerKnown

\* A shootdown ends, although CPUs that have interrupts disabled spin for the
\* lock its initiator holds, or in a shootdown of their own.
ShootdownEnds == \A c \in Shooter : pc[c] = "set" ~> pc[c] = "done"

-------------------------------------------------------------------------------
(* The inductive invariant behind SmpSound *)

Shooting(c) == pc[c] \in {"set", "wait", "done"}

\* The lock is held from the exchange that takes it to the store that frees it.
Locks(c) == pc[c] \in {"own", "release"} \/ Holds(c)

\* At most one CPU holds the lock, and none while it is free.
LockInv ==
    /\ \A c \in CPU : Locks(c) => locked
    /\ \A c, d \in CPU : Locks(c) /\ Locks(d) => c = d
    /\ OwnerKnown

\* A page that is shot down is not mapped: nobody can load it again.
PageInv ==
    /\ \A c \in CPU : Shooting(c) => c \in Shooter /\ c \notin mapped
    /\ \A c \in CPU : c \notin cached[c]
    /\ \A c \in CPU : poll[c] = "clear" => cached[c] \subseteq late[c]

\* The TLB of d has the page of c, and not by a load in the window.
Stale(c, d) == c \in cached[d] /\ c \notin late[d]

\* Whoever still has the page, the window aside, either is asked to flush, if the
\* loop that asks has passed it, or has not been passed by the loop that waits.
FlushInv ==
    /\ \A c \in CPU : pc[c] \notin {"set", "wait"} => i[c] = 0
    /\ \A c, d \in CPU : pc[c] = "set" /\ Stale(c, d) /\ d < i[c] => c # d /\ tlb_flush[d]
    /\ \A c, d \in CPU : pc[c] = "wait" /\ Stale(c, d) => tlb_flush[d] /\ d >= i[c]
    /\ FlushDone

SmpInv == TypeOK /\ LockInv /\ PageInv /\ FlushInv

===============================================================================

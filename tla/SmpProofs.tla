------------------------------ MODULE SmpProofs ------------------------------
(***************************************************************************)
(* For any number of CPUs, shooters and lockers: a shootdown that is over  *)
(* has removed its page from every TLB, except where it was loaded after   *)
(* the flush and unmapped before the flag was cleared; and the owner       *)
(* stored with the lock is the CPU that holds it.                          *)
(*                                                                         *)
(* The argument for the shootdown: a page being shot down is not mapped    *)
(* (PageInv), so it can only leave a TLB.  A CPU the first loop has passed *)
(* and that still has the page has its flag set, since what is in the TLB  *)
(* when tlb_poll clears the flag was loaded in that window; the second     *)
(* loop passes a CPU only with its flag clear (FlushInv).                  *)
(***************************************************************************)
EXTENDS Smp, TLAPS

\* In the beginning no CPU is in the kernel and all TLBs are empty.
LEMMA InvInit == Init => SmpInv
<1> SUFFICES ASSUME Init PROVE SmpInv
  OBVIOUS
<1>1. TypeOK
  <2>1. back \in [CPU -> {"off", "held"}] /\ i \in [CPU -> 0 .. ncpus]
    BY SmpAssumption DEF Init
  <2>2. /\ cached \in [CPU -> SUBSET Shooter] /\ late \in [CPU -> SUBSET Shooter]
        /\ calls \in 0 .. MaxCalls
    BY SmpAssumption DEF Init
  <2>3. QED
    BY <2>1, <2>2 DEF Init, TypeOK, Label
<1>2. LockInv
  BY SmpAssumption DEF Init, LockInv, OwnerKnown, Locks, Holds, CPU, NoCPU
<1>3. PageInv
  BY DEF Init, PageInv, Shooting
<1>4. FlushInv
  BY DEF Init, FlushInv, FlushDone, Stale
<1>5. QED
  BY <1>1, <1>2, <1>3, <1>4 DEF SmpInv


\* A CPU that finds its flag set, in a spin loop or by the interrupt, is on its
\* way to flush: no flag, page or lock changes.
LEMMA PollTestKeeps ==
    ASSUME SmpInv, NEW c \in CPU, poll_test(c)
    PROVE  SmpInv'
<1> USE SmpAssumption DEF SmpInv
<1>1. TypeOK'
  BY DEF poll_test, TypeOK, Label
<1>2. LockInv'
  BY DEF poll_test, LockInv, OwnerKnown, Locks, Holds, TypeOK
<1>3. PageInv'
  BY DEF poll_test, PageInv, Shooting, TypeOK
<1>4. FlushInv'
  BY DEF poll_test, FlushInv, FlushDone, Stale, TypeOK, PageInv, Shooting
<1>5. QED
  BY <1>1, <1>2, <1>3, <1>4

\* tlb_poll flushes first and clears the flag afterwards: what is in the TLB
\* when the flag goes was loaded in between.
LEMMA TlbPollKeeps ==
    ASSUME SmpInv, NEW c \in CPU, tlb_poll(c)
    PROVE  SmpInv'
<1> USE SmpAssumption DEF SmpInv
<1>1. TypeOK'
  BY DEF tlb_poll, TypeOK, Label
<1>2. LockInv'
  BY DEF tlb_poll, LockInv, OwnerKnown, Locks, Holds, TypeOK
<1>3. PageInv'
  BY DEF tlb_poll, PageInv, Shooting, TypeOK
<1>4. FlushInv'
  <2>1. CASE poll[c] = "flush"
    BY <2>1 DEF tlb_poll, FlushInv, FlushDone, Stale, TypeOK, PageInv, Shooting
  <2>2. CASE poll[c] = "clear"
    BY <2>2 DEF tlb_poll, FlushInv, FlushDone, Stale, TypeOK, PageInv, Shooting
  <2>3. QED
    BY <2>1, <2>2 DEF tlb_poll
<1>5. QED
  BY <1>1, <1>2, <1>3, <1>4

\* The hardware loads only what is mapped, hence nothing that is shot down.
LEMMA TlbLoadKeeps ==
    ASSUME SmpInv, NEW c \in CPU, tlb_load(c)
    PROVE  SmpInv'
<1> USE SmpAssumption DEF SmpInv
<1>1. TypeOK'
  BY DEF tlb_load, TypeOK, Label
<1>2. LockInv'
  BY DEF tlb_load, LockInv, OwnerKnown, Locks, Holds, TypeOK
<1>3. PageInv'
  BY DEF tlb_load, PageInv, Shooting, TypeOK
<1>4. FlushInv'
  BY DEF tlb_load, FlushInv, FlushDone, Stale, TypeOK, PageInv, Shooting
<1>5. QED
  BY <1>1, <1>2, <1>3, <1>4

\* Entering the kernel: interrupts go off, nothing else.
LEMMA EnterKernelKeeps ==
    ASSUME SmpInv, NEW c \in CPU, enter_kernel(c)
    PROVE  SmpInv'
<1> USE SmpAssumption DEF SmpInv
<1>1. TypeOK'
  BY DEF enter_kernel, At, Goto, TypeOK, Label
<1>2. LockInv'
  BY DEF enter_kernel, At, Goto, LockInv, OwnerKnown, Locks, Holds, TypeOK
<1>3. PageInv'
  BY DEF enter_kernel, At, Goto, PageInv, Shooting, TypeOK
<1>4. FlushInv'
  BY DEF enter_kernel, At, Goto, FlushInv, FlushDone, Stale, TypeOK, PageInv, Shooting
<1>5. QED
  BY <1>1, <1>2, <1>3, <1>4

\* Leaving the kernel.
LEMMA LeaveKernelKeeps ==
    ASSUME SmpInv, NEW c \in CPU, leave_kernel(c)
    PROVE  SmpInv'
<1> USE SmpAssumption DEF SmpInv
<1>1. TypeOK'
  BY DEF leave_kernel, At, Goto, TypeOK, Label
<1>2. LockInv'
  BY DEF leave_kernel, At, Goto, LockInv, OwnerKnown, Locks, Holds, TypeOK
<1>3. PageInv'
  BY DEF leave_kernel, At, Goto, PageInv, Shooting, TypeOK
<1>4. FlushInv'
  BY DEF leave_kernel, At, Goto, FlushInv, FlushDone, Stale, TypeOK, PageInv, Shooting
<1>5. QED
  BY <1>1, <1>2, <1>3, <1>4

\* kernel_lock_enter: a CPU outside the lock never finds itself its owner, so
\* it goes to the spin loop.
LEMMA KernelLockEnterKeeps ==
    ASSUME SmpInv, NEW c \in CPU, kernel_lock_enter(c)
    PROVE  SmpInv'
<1> USE SmpAssumption DEF SmpInv
<1>1. TypeOK'
  BY DEF kernel_lock_enter, At, Goto, TypeOK, Label
<1>2. LockInv'
  BY DEF kernel_lock_enter, At, Goto, LockInv, OwnerKnown, Locks, Holds, TypeOK
<1>3. PageInv'
  BY DEF kernel_lock_enter, At, Goto, PageInv, Shooting, TypeOK
<1>4. FlushInv'
  BY DEF kernel_lock_enter, At, Goto, FlushInv, FlushDone, Stale, TypeOK, PageInv, Shooting
<1>5. QED
  BY <1>1, <1>2, <1>3, <1>4

\* owner_lock_acquire: the exchange finds the lock free, so nobody is inside;
\* the owner is stored by the one CPU that is.
LEMMA AcquireKeeps ==
    ASSUME SmpInv, NEW c \in CPU, owner_lock_acquire(c)
    PROVE  SmpInv'
<1> USE SmpAssumption DEF SmpInv
<1>1. TypeOK'
  BY DEF owner_lock_acquire, At, Goto, TypeOK, Label
<1>2. LockInv'
  BY DEF owner_lock_acquire, At, Goto, LockInv, OwnerKnown, Locks, Holds, TypeOK
<1>3. PageInv'
  BY DEF owner_lock_acquire, At, Goto, PageInv, Shooting, TypeOK
<1>4. FlushInv'
  BY DEF owner_lock_acquire, At, Goto, FlushInv, FlushDone, Stale, TypeOK, PageInv, Shooting
<1>5. QED
  BY <1>1, <1>2, <1>3, <1>4

\* owner_lock_release: the owner is cleared by the holder, before the lock.
LEMMA ReleaseKeeps ==
    ASSUME SmpInv, NEW c \in CPU, owner_lock_release(c)
    PROVE  SmpInv'
<1> USE SmpAssumption DEF SmpInv
<1>1. TypeOK'
  BY DEF owner_lock_release, At, Goto, TypeOK, Label
<1>2. LockInv'
  <2>1. CASE pc[c] = "held"
    <3>1. /\ owner' = NoCPU /\ pc' = [pc EXCEPT ![c] = "release"]
          /\ UNCHANGED <<locked, back>>
      BY <2>1 DEF owner_lock_release, At, Goto
    <3>2. \A d \in CPU : Locks(d)' <=> Locks(d)
      BY <2>1, <3>1 DEF Locks, Holds, TypeOK
    <3>3. \A d \in CPU : d # c => ~Holds(d)
      BY <2>1 DEF LockInv, Locks, Holds
    <3>4. \A d \in CPU : ~Holds(d)'
      BY <3>1, <3>3 DEF Holds, TypeOK
    <3>5. NoCPU \notin CPU
      BY DEF CPU, NoCPU
    <3>6. QED
      BY <3>1, <3>2, <3>4, <3>5 DEF LockInv, OwnerKnown
  <2>2. CASE pc[c] = "release"
    BY <2>2 DEF owner_lock_release, At, Goto, LockInv, OwnerKnown, Locks, Holds, TypeOK
  <2>3. QED
    BY <2>1, <2>2 DEF owner_lock_release, At
<1>3. PageInv'
  BY DEF owner_lock_release, At, Goto, PageInv, Shooting, TypeOK
<1>4. FlushInv'
  BY DEF owner_lock_release, At, Goto, FlushInv, FlushDone, Stale, TypeOK, PageInv, Shooting
<1>5. QED
  BY <1>1, <1>2, <1>3, <1>4

\* A shootdown begins: the page is unmapped and no flag of it is set yet.
LEMMA UnmapKeeps ==
    ASSUME SmpInv, NEW c \in CPU, unmap(c)
    PROVE  SmpInv'
<1> USE SmpAssumption DEF SmpInv
<1>1. TypeOK'
  BY DEF unmap, At, Goto, TypeOK, Label
<1>2. LockInv'
  BY DEF unmap, At, Goto, LockInv, OwnerKnown, Locks, Holds, TypeOK
<1>3. PageInv'
  BY DEF unmap, At, Goto, PageInv, Shooting, TypeOK
<1>4. FlushInv'
  BY DEF unmap, At, Goto, FlushInv, FlushDone, Stale, TypeOK, PageInv, Shooting, CPU
<1>5. QED
  BY <1>1, <1>2, <1>3, <1>4

\* The loop that sets the flags: a CPU that has been passed has its flag, and a
\* flush that began earlier has left nothing but later loads in its TLB.
LEMMA ShootdownKeeps ==
    ASSUME SmpInv, NEW c \in CPU, smp_tlb_shootdown(c)
    PROVE  SmpInv'
<1> USE SmpAssumption DEF SmpInv
<1>a. CASE InLoop(c)
  <2>1. i[c] \in 0 .. ncpus
    BY DEF TypeOK
  <2>2. i[c] \in CPU
    BY <1>a, <2>1 DEF InLoop, CPU
  <2>3. /\ i' = [i EXCEPT ![c] = @ + 1]
        /\ tlb_flush' = IF i[c] = c THEN tlb_flush ELSE [tlb_flush EXCEPT ![i[c]] = TRUE]
        /\ pc[c] = "set"
        /\ UNCHANGED <<pc, back, ipi, poll, mapped, cached, late, locked, owner, calls>>
    BY <1>a DEF smp_tlb_shootdown, At
  <2>4. \A d \in CPU : tlb_flush[d] => tlb_flush'[d]
    BY <2>2, <2>3 DEF TypeOK
  <2>5. TypeOK'
    <3>1. i' \in [CPU -> 0 .. ncpus]
      BY <1>a, <2>3 DEF InLoop, TypeOK
    <3>2. tlb_flush' \in [CPU -> BOOLEAN]
      BY <2>2, <2>3 DEF TypeOK
    <3>3. QED
      BY <2>3, <3>1, <3>2 DEF TypeOK
  <2>6. LockInv'
    BY <2>3 DEF LockInv, OwnerKnown, Locks, Holds
  <2>7. PageInv'
    BY <2>3 DEF PageInv, Shooting
  <2>8. FlushInv'
    <3>1. ASSUME NEW d \in CPU, Stale(c, d), d < i'[c]
          PROVE  c # d /\ tlb_flush'[d]
      <4>1. c # d
        BY <3>1 DEF PageInv, Stale
      <4>2. CASE d < i[c]
        BY <2>3, <2>4, <3>1, <4>2 DEF FlushInv
      <4>3. CASE d = i[c]
        BY <2>2, <2>3, <4>1, <4>3 DEF TypeOK
      <4>4. d < i[c] \/ d = i[c]
        BY <2>1, <2>3, <3>1 DEF CPU, TypeOK
      <4>5. QED
        BY <4>1, <4>2, <4>3, <4>4
    <3>2. \A d, e \in CPU : pc'[d] = "set" /\ Stale(d, e)' /\ e < i'[d] => d # e /\ tlb_flush'[e]
      <4>1. SUFFICES ASSUME NEW d \in CPU, NEW e \in CPU, pc[d] = "set", Stale(d, e), e < i'[d]
                     PROVE  d # e /\ tlb_flush'[e]
        BY <2>3 DEF Stale
      <4>2. CASE d = c
        BY <3>1, <4>1, <4>2
      <4>3. CASE d # c
        BY <2>3, <2>4, <4>1, <4>3 DEF FlushInv, TypeOK
      <4>4. QED
        BY <4>2, <4>3
    <3>3. \A d, e \in CPU : pc'[d] = "wait" /\ Stale(d, e)' => tlb_flush'[e] /\ e >= i'[d]
      BY <2>3, <2>4 DEF FlushInv, Stale, TypeOK
    <3>4. QED
      BY <2>3, <3>2, <3>3 DEF FlushInv, FlushDone, Stale, TypeOK
  <2>9. QED
    BY <2>5, <2>6, <2>7, <2>8
<1>b. CASE ~InLoop(c)
  <2>1. i[c] = ncpus
    BY <1>b DEF InLoop, TypeOK
  <2>2. /\ pc[c] = "set" /\ pc' = [pc EXCEPT ![c] = "wait"]
        /\ i' = [i EXCEPT ![c] = 0]
        /\ ipi' = [d \in CPU |-> IF d = c THEN ipi[d] ELSE TRUE]
        /\ UNCHANGED <<back, tlb_flush, poll, mapped, cached, late, locked, owner, calls>>
    BY <1>b DEF smp_tlb_shootdown, At, Goto
  <2>3. TypeOK'
    <3>1. i' \in [CPU -> 0 .. ncpus]
      BY <2>2 DEF TypeOK
    <3>2. ipi' \in [CPU -> BOOLEAN]
      BY <2>2 DEF TypeOK
    <3>3. pc' \in [CPU -> Label]
      BY <2>2 DEF TypeOK, Label
    <3>4. QED
      BY <2>2, <3>1, <3>2, <3>3 DEF TypeOK
  <2>4. LockInv'
    BY <2>2 DEF LockInv, OwnerKnown, Locks, Holds, TypeOK
  <2>5. PageInv'
    BY <2>2 DEF PageInv, Shooting, TypeOK
  <2>6. FlushInv'
    <3>1. \A d \in CPU : Stale(c, d) => tlb_flush[d] /\ d >= 0
      BY <2>1, <2>2 DEF FlushInv, CPU
    <3>2. QED
      BY <2>2, <3>1 DEF FlushInv, FlushDone, Stale, TypeOK
  <2>7. QED
    BY <2>3, <2>4, <2>5, <2>6
<1>c. QED
  BY <1>a, <1>b

\* The loop that waits passes a CPU only when its flag is clear, and then the
\* CPU does not have the page, the window aside.
LEMMA WaitKeeps ==
    ASSUME SmpInv, NEW c \in CPU, shootdown_wait(c)
    PROVE  SmpInv'
<1> USE SmpAssumption DEF SmpInv
<1>a. CASE InLoop(c)
  <2>1. i[c] \in 0 .. ncpus
    BY DEF TypeOK
  <2>2. i[c] \in CPU
    BY <1>a, <2>1 DEF InLoop, CPU
  <2>3. /\ pc[c] = "wait" /\ ~tlb_flush[i[c]]
        /\ i' = [i EXCEPT ![c] = @ + 1]
        /\ UNCHANGED <<pc, back, tlb_flush, ipi, poll, mapped, cached, late, locked, owner, calls>>
    BY <1>a DEF shootdown_wait, At
  <2>4. TypeOK'
    <3>1. i' \in [CPU -> 0 .. ncpus]
      BY <1>a, <2>3 DEF InLoop, TypeOK
    <3>2. QED
      BY <2>3, <3>1 DEF TypeOK
  <2>5. LockInv'
    BY <2>3 DEF LockInv, OwnerKnown, Locks, Holds
  <2>6. PageInv'
    BY <2>3 DEF PageInv, Shooting
  <2>7. FlushInv'
    <3>1. ASSUME NEW d \in CPU, Stale(c, d)
          PROVE  tlb_flush[d] /\ d >= i[c] + 1
      <4>1. tlb_flush[d] /\ d >= i[c]
        BY <2>3, <3>1 DEF FlushInv
      <4>2. d # i[c]
        BY <2>3, <4>1
      <4>3. QED
        BY <2>1, <4>1, <4>2 DEF CPU
    <3>2. i'[c] = i[c] + 1
      BY <2>3 DEF TypeOK
    <3>3. \A d \in CPU : d # c => i'[d] = i[d]
      BY <2>3 DEF TypeOK
    <3>4. QED
      BY <2>3, <3>1, <3>2, <3>3 DEF FlushInv, FlushDone, Stale
  <2>8. QED
    BY <2>4, <2>5, <2>6, <2>7
<1>b. CASE ~InLoop(c)
  <2>1. i[c] = ncpus
    BY <1>b DEF InLoop, TypeOK
  <2>2. /\ pc[c] = "wait" /\ pc' = [pc EXCEPT ![c] = "done"]
        /\ i' = [i EXCEPT ![c] = 0]
        /\ UNCHANGED <<back, tlb_flush, ipi, poll, mapped, cached, late, locked, owner, calls>>
    BY <1>b DEF shootdown_wait, At, Goto
  <2>3. TypeOK'
    BY <2>2 DEF TypeOK, Label
  <2>4. LockInv'
    BY <2>2 DEF LockInv, OwnerKnown, Locks, Holds, TypeOK
  <2>5. PageInv'
    BY <2>2 DEF PageInv, Shooting, TypeOK
  <2>6. FlushInv'
    <3>1. \A d \in CPU : ~Stale(c, d)
      BY <2>1, <2>2 DEF FlushInv, CPU
    <3>2. QED
      BY <2>2, <3>1 DEF FlushInv, FlushDone, Stale, TypeOK
  <2>7. QED
    BY <2>3, <2>4, <2>5, <2>6
<1>c. QED
  BY <1>a, <1>b

\* The page is given to its next user, with the lock as it was before.
LEMMA ReuseKeeps ==
    ASSUME SmpInv, NEW c \in CPU, reuse(c)
    PROVE  SmpInv'
<1> USE SmpAssumption DEF SmpInv
<1>1. TypeOK'
  BY DEF reuse, At, Goto, TypeOK, Label, PageInv, Shooting
<1>2. LockInv'
  BY DEF reuse, At, Goto, LockInv, OwnerKnown, Locks, Holds, TypeOK
<1>3. PageInv'
  BY DEF reuse, At, Goto, PageInv, Shooting, TypeOK
<1>4. FlushInv'
  BY DEF reuse, At, Goto, FlushInv, FlushDone, Stale, TypeOK, PageInv, Shooting
<1>5. QED
  BY <1>1, <1>2, <1>3, <1>4

-------------------------------------------------------------------------------

\* The invariant holds in every state, whatever the CPUs do in between.
THEOREM SmpInvHolds == Spec => []SmpInv
<1>1. ASSUME SmpInv, [Next]_vars
      PROVE  SmpInv'
  <2>1. ASSUME NEW c \in CPU,
               \/ Step(c) \/ tlb_load(c) \/ enter_kernel(c) \/ leave_kernel(c)
               \/ kernel_lock_enter(c) \/ unmap(c) \/ reuse(c)
        PROVE  SmpInv'
    BY <1>1, <2>1, PollTestKeeps, TlbPollKeeps, TlbLoadKeeps, EnterKernelKeeps, LeaveKernelKeeps,
       KernelLockEnterKeeps, AcquireKeeps, ReleaseKeeps, UnmapKeeps, ShootdownKeeps,
       WaitKeeps, ReuseKeeps DEF Step
  <2>2. CASE UNCHANGED vars
    BY <1>1, <2>2 DEF vars, SmpInv, TypeOK, LockInv, OwnerKnown, Locks, Holds, PageInv,
                      Shooting, FlushInv, FlushDone, Stale
  <2>3. QED
    BY <1>1, <2>1, <2>2 DEF Next
<1>2. QED
  BY InvInit, <1>1, PTL DEF Spec

\* When smp_tlb_shootdown returns no CPU translates the page, also when several
\* CPUs shoot at once, unless it loaded the page, and the page was unmapped,
\* between its flush and the store that clears its flag; and owner_lock's owner
\* is its holder at every moment.
THEOREM ShootdownsSafe == Spec => []SmpSound
<1>1. SmpInv => SmpSound
  BY DEF SmpInv, SmpSound, LockInv, FlushInv
<1>2. QED
  BY SmpInvHolds, <1>1, PTL

\* No two CPUs are between the exchange of owner_lock_acquire and the store of
\* owner_lock_release, shootdowns in between included.
MutualExclusion == \A c, d \in CPU : Locks(c) /\ Locks(d) => c = d

\* The owner lock is a lock: it has at most one holder.
THEOREM LockExclusive == Spec => []MutualExclusion
<1>1. SmpInv => MutualExclusion
  BY DEF SmpInv, LockInv, MutualExclusion
<1>2. QED
  BY SmpInvHolds, <1>1, PTL

===============================================================================

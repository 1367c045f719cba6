------------------------------ MODULE FutexProofs ------------------------------
(***************************************************************************)
(* Proofs about module Futex, for any threads, words and values: the       *)
(* inductive invariant FutexInv, from it FutexSound whatever keys clash,   *)
(* and, where none do, that futex.c implements FutexSpec.                  *)
(***************************************************************************)
EXTENDS Futex, TLAPS

-------------------------------------------------------------------------------
(* The tree of sleepers *)

\* Its order, as a property of who is before whom.
Ordered(w) ==
    \A t, u \in Thread : t \in w[t] /\ u \in w[u] =>
        /\ u \in w[t] \/ t \in w[u]
        /\ u \in w[t] => w[u] \subseteq w[t]
        /\ u \in w[t] /\ t \in w[u] => t = u

\* Before a sleeper are only sleepers.
Closed(w) ==
    \A t \in Thread : /\ w[t] # {} => t \in w[t]
                      /\ \A u \in w[t] : u \in Thread /\ u \in w[u]

LEMMA TreeIs ==
    /\ Queued <=> Ordered(waiting)
    /\ TypeOK => (TreeInv <=> Closed(waiting) /\ \A t \in Sleepers : pc[t] = "woken")
  <1>1. Queued <=> Ordered(waiting)
    BY DEF Queued, Ordered, Sleepers, Asleep
  <1>2. TypeOK => (TreeInv <=> Closed(waiting) /\ \A t \in Sleepers : pc[t] = "woken")
    BY DEF TypeOK, TreeInv, Closed, Sleepers, Asleep
  <1> QED
    BY <1>1, <1>2

\* Waking takes threads out and leaves the order of the others.
Woken(w, S) == [t \in Thread |-> IF t \in S THEN {} ELSE w[t] \ S]

LEMMA WakeTree ==
    ASSUME NEW w \in [Thread -> SUBSET Thread], Ordered(w), Closed(w), NEW S
    PROVE  /\ Woken(w, S) \in [Thread -> SUBSET Thread]
           /\ Ordered(Woken(w, S)) /\ Closed(Woken(w, S))
           /\ \A t \in Thread : t \in Woken(w, S)[t] <=> t \in w[t] /\ t \notin S
  <1> DEFINE v == Woken(w, S)
  <1>1. \A t \in Thread : v[t] = IF t \in S THEN {} ELSE w[t] \ S
    BY DEF Woken
  <1>2. v \in [Thread -> SUBSET Thread]
    BY DEF Woken
  <1> HIDE DEF v
  <1>3. \A t \in Thread : t \in v[t] <=> t \in w[t] /\ t \notin S
    BY <1>1
  <1>4. Closed(v)
    BY <1>1, <1>3 DEF Closed
  <1>5. Ordered(v)
    <2> SUFFICES ASSUME NEW t \in Thread, NEW u \in Thread, t \in v[t], u \in v[u]
                 PROVE  /\ u \in v[t] \/ t \in v[u]
                        /\ u \in v[t] => v[u] \subseteq v[t]
                        /\ u \in v[t] /\ t \in v[u] => t = u
      BY DEF Ordered
    <2>1. v[t] = w[t] \ S /\ v[u] = w[u] \ S /\ t \in w[t] \ S /\ u \in w[u] \ S
      BY <1>1, <1>3
    <2>2. /\ u \in w[t] \/ t \in w[u]
          /\ u \in w[t] => w[u] \subseteq w[t]
          /\ u \in w[t] /\ t \in w[u] => t = u
      BY <2>1 DEF Ordered
    <2> QED
      BY <2>1, <2>2
  <1> QED
    BY <1>2, <1>3, <1>4, <1>5 DEF v

\* A thread that sleeps comes behind all others.
Slept(w, t) == [w EXCEPT ![t] = {u \in Thread : u \in w[u]} \cup {t}]

LEMMA SleepTree ==
    ASSUME NEW w \in [Thread -> SUBSET Thread], Ordered(w), Closed(w), NEW t \in Thread,
           t \notin w[t]
    PROVE  /\ Slept(w, t) \in [Thread -> SUBSET Thread]
           /\ Ordered(Slept(w, t)) /\ Closed(Slept(w, t))
           /\ \A u \in Thread : u \in Slept(w, t)[u] <=> u \in w[u] \/ u = t
  <1> DEFINE v == Slept(w, t)
  <1>1. \A u \in Thread : v[u] = IF u = t THEN {x \in Thread : x \in w[x]} \cup {t} ELSE w[u]
    BY DEF Slept
  <1>2. v \in [Thread -> SUBSET Thread]
    BY DEF Slept
  <1> HIDE DEF v
  <1>3. \A u \in Thread : u \in v[u] <=> u \in w[u] \/ u = t
    BY <1>1
  <1>4. \A u \in Thread : t \notin w[u]
    BY DEF Closed
  <1>5. Closed(v)
    <2> SUFFICES ASSUME NEW u \in Thread
                 PROVE  /\ v[u] # {} => u \in v[u]
                        /\ \A x \in v[u] : x \in Thread /\ x \in v[x]
      BY DEF Closed
    <2>1. CASE u = t
      BY <1>1, <1>3, <2>1
    <2>2. CASE u # t
      BY <1>1, <1>3, <2>2 DEF Closed
    <2> QED
      BY <2>1, <2>2
  <1>6. Ordered(v)
    <2> SUFFICES ASSUME NEW x \in Thread, NEW y \in Thread, x \in v[x], y \in v[y]
                 PROVE  /\ y \in v[x] \/ x \in v[y]
                        /\ y \in v[x] => v[y] \subseteq v[x]
                        /\ y \in v[x] /\ x \in v[y] => x = y
      BY DEF Ordered
    <2>1. CASE x = t /\ y = t
      BY <2>1
    <2>2. CASE x = t /\ y # t
      BY <1>1, <1>3, <1>4, <2>2 DEF Closed
    <2>3. CASE x # t /\ y = t
      BY <1>1, <1>3, <1>4, <2>3 DEF Closed
    <2>4. CASE x # t /\ y # t
      BY <1>1, <2>4 DEF Ordered
    <2> QED
      BY <2>1, <2>2, <2>3, <2>4
  <1> QED
    BY <1>2, <1>3, <1>5, <1>6 DEF v

-------------------------------------------------------------------------------
(* The steps *)

\* What has no meaning outside a call still has its type.
LEMMA Fillers == NoWant \in Addr \X Value /\ NoArg \in Addr \X Counts
  <1>1. PICK a \in Addr, n \in Counts : TRUE
    BY FutexAssumption
  <1>2. <<a, 0>> \in Addr \X Value
    BY FutexAssumption
  <1>3. NoWant \in Addr \X Value
    BY <1>2, Zenon DEF NoWant
  <1>4. <<a, n>> \in Addr \X Counts
    OBVIOUS
  <1>5. NoArg \in Addr \X Counts
    BY <1>4, Zenon DEF NoArg
  <1> QED
    BY <1>3, <1>5

\* A step that leaves the tree alone, and its members where they are.
LEMMA StillTree ==
    ASSUME FutexInv, TypeOK', waiting' = waiting, \A t \in Sleepers : pc'[t] = pc[t]
    PROVE  Queued' /\ TreeInv'
  <1>1. Queued'
    BY DEF FutexInv, Queued, Sleepers, Asleep
  <1>2. TreeInv'
    BY DEF FutexInv, TreeInv, Sleepers, Asleep
  <1> QED
    BY <1>1, <1>2

\* A step that wakes the threads in S.
LEMMA WakingTree ==
    ASSUME FutexInv, NEW S, Wake(S), \A t \in Sleepers : pc'[t] = pc[t]
    PROVE  /\ waiting' \in [Thread -> SUBSET Thread] /\ Queued' /\ TreeInv'
           /\ \A t \in Thread : waiting'[t] = IF t \in S THEN {} ELSE waiting[t] \ S
  <1>1. waiting \in [Thread -> SUBSET Thread] /\ Ordered(waiting) /\ Closed(waiting)
    <2>1. TypeOK /\ Queued /\ TreeInv
      BY DEF FutexInv
    <2>2. waiting \in [Thread -> SUBSET Thread]
      BY <2>1 DEF TypeOK
    <2> QED
      BY <2>1, <2>2, TreeIs
  <1>2. waiting' = Woken(waiting, S)
    BY DEF Wake, Woken
  <1>3. /\ waiting' \in [Thread -> SUBSET Thread] /\ Ordered(waiting') /\ Closed(waiting')
        /\ \A t \in Thread : t \in waiting'[t] <=> t \in waiting[t] /\ t \notin S
    BY <1>1, <1>2, WakeTree
  <1>4. Queued'
    BY <1>3 DEF Queued, Ordered, Sleepers, Asleep
  <1>5. \A t \in Thread : t \in waiting[t] => pc[t] = "woken"
    BY DEF FutexInv, TreeInv, Asleep
  <1>6. TreeInv'
    <2>1. \A t \in Thread : waiting'[t] # {} => Asleep(t)' /\ pc'[t] = "woken"
      BY <1>3, <1>5 DEF Closed, Asleep, Sleepers
    <2>2. \A t \in Thread : waiting'[t] \subseteq Sleepers'
      BY <1>3 DEF Closed, Asleep, Sleepers
    <2> QED
      BY <2>1, <2>2 DEF TreeInv
  <1> QED
    BY <1>2, <1>3, <1>4, <1>6 DEF Woken

\* Steps of user code: neither locks nor timers nor sleepers are concerned.
LEMMA UserStep ==
    ASSUME FutexInv, NEW t \in Thread, user_store(t) \/ user_wait(t)
    PROVE  FutexInv'
  <1>0. /\ pc \in [Thread -> {"user", "wait", "sleep", "woken", "wake", "exit", "dead"}]
        /\ timed \in [Thread -> BOOLEAN] /\ pc[t] = "user"
    BY DEF user_store, user_wait, FutexInv, TypeOK
  <1>1. /\ UNCHANGED <<waiting, kernel_lock, timed_out, armed, firing, fired, stale>>
        /\ pc' = [pc EXCEPT ![t] = "wake"] \/ pc' = [pc EXCEPT ![t] = "wait"]
        /\ timed' = timed \/ \E b \in BOOLEAN : timed' = [timed EXCEPT ![t] = b]
    BY DEF user_store, user_wait, Goto, timers
  <1>2. /\ pc'[t] \in {"wake", "wait"}
        /\ \A u \in Thread \ {t} : pc'[u] = pc[u] /\ timed'[u] = timed[u]
    BY <1>0, <1>1
  <1>3. TypeOK'
    <2>1. CASE user_store(t)
      <3>1. PICK a \in Addr, v \in Value, n \in Counts :
              word' = [word EXCEPT ![a] = v] /\ arg' = [arg EXCEPT ![t] = <<a, n>>]
        BY <2>1 DEF user_store
      <3>2. UNCHANGED <<want, timed>> /\ pc' = [pc EXCEPT ![t] = "wake"]
        BY <2>1 DEF user_store, timers, Goto
      <3> QED
        BY <1>1, <3>1, <3>2 DEF FutexInv, TypeOK
    <2>2. CASE user_wait(t)
      <3>1. PICK a \in Addr : want' = [want EXCEPT ![t] = <<a, word[a]>>]
        BY <2>2 DEF user_wait
      <3>2. word[a] \in Value
        BY DEF FutexInv, TypeOK
      <3>3. UNCHANGED <<word, arg>> /\ pc' = [pc EXCEPT ![t] = "wait"]
        BY <2>2 DEF user_wait, Goto
      <3> QED
        BY <1>1, <3>1, <3>2, <3>3 DEF FutexInv, TypeOK
    <2> QED
      BY <2>1, <2>2
  <1>4. Queued' /\ TreeInv'
    <2>1. t \notin Sleepers
      BY <1>0 DEF FutexInv, TreeInv, Sleepers, Asleep
    <2>2. \A u \in Sleepers : pc'[u] = pc[u]
      BY <1>2, <2>1 DEF Sleepers
    <2> QED
      BY <1>1, <1>3, <2>2, StillTree
  <1>5. LockInv'
    BY <1>0, <1>1, <1>2 DEF FutexInv, LockInv
  <1>6. TimerInv'
    BY <1>0, <1>1, <1>2 DEF FutexInv, TimerInv
  <1> QED
    BY <1>1, <1>3, <1>4, <1>5, <1>6 DEF FutexInv

\* The compare, and the return with -EAGAIN.
LEMMA FutexWaitStep ==
    ASSUME FutexInv, NEW t \in Thread, futex_wait(t)
    PROVE  FutexInv'
  <1>0. /\ pc \in [Thread -> {"user", "wait", "sleep", "woken", "wake", "exit", "dead"}]
        /\ timed \in [Thread -> BOOLEAN] /\ timed_out \in [Thread -> BOOLEAN]
        /\ armed \in [Thread -> BOOLEAN] /\ stale \in [Thread -> BOOLEAN]
        /\ want \in [Thread -> Addr \X Value]
        /\ pc[t] = "wait" /\ kernel_lock = NoThread
        /\ UNCHANGED <<word, waiting, arg, firing, fired>>
    BY DEF futex_wait, FutexInv, TypeOK
  <1>1. t \notin Sleepers /\ ~armed[t]
    BY <1>0 DEF FutexInv, TreeInv, TimerInv, Sleepers, Asleep
  <1>2. CASE Return(t) /\ UNCHANGED <<kernel_lock, armed>>
    <2>1. /\ pc' = [pc EXCEPT ![t] = "user"] /\ want' = [want EXCEPT ![t] = NoWant]
          /\ timed' = [timed EXCEPT ![t] = FALSE] /\ stale' = [stale EXCEPT ![t] = FALSE]
          /\ timed_out' = [timed_out EXCEPT ![t] = FALSE]
      BY <1>2 DEF Return, Goto
    <2>2. TypeOK'
      BY <1>0, <1>2, <2>1, Fillers DEF FutexInv, TypeOK
    <2>3. /\ pc'[t] = "user"
          /\ \A u \in Thread \ {t} : /\ pc'[u] = pc[u] /\ timed'[u] = timed[u]
                                     /\ timed_out'[u] = timed_out[u] /\ stale'[u] = stale[u]
      BY <1>0, <2>1
    <2>4. Queued' /\ TreeInv'
      <3>1. \A u \in Sleepers : pc'[u] = pc[u]
        BY <1>1, <2>3 DEF Sleepers
      <3> QED
        BY <1>0, <2>2, <3>1, StillTree
    <2>5. LockInv'
      BY <1>0, <1>2, <2>3 DEF FutexInv, LockInv
    <2>6. TimerInv'
      BY <1>0, <1>1, <1>2, <2>3 DEF FutexInv, TimerInv
    <2> QED
      BY <1>0, <2>2, <2>4, <2>5, <2>6 DEF FutexInv
  <1>3. CASE /\ kernel_lock' = t /\ timed_out' = [timed_out EXCEPT ![t] = FALSE]
             /\ armed' = [armed EXCEPT ![t] = @ \/ timed[t]]
             /\ stale' = [stale EXCEPT ![t] = firing = t]
             /\ Goto(t, "sleep") /\ UNCHANGED <<want, timed>>
    <2>1. pc' = [pc EXCEPT ![t] = "sleep"]
      BY <1>3 DEF Goto
    <2>2. /\ (firing = t) \in BOOLEAN /\ (armed[t] \/ timed[t]) \in BOOLEAN
          /\ stale' \in [Thread -> BOOLEAN] /\ armed' \in [Thread -> BOOLEAN]
          /\ timed_out' \in [Thread -> BOOLEAN]
      BY <1>0, <1>3
    <2>3. TypeOK'
      BY <1>0, <1>3, <2>1, <2>2 DEF FutexInv, TypeOK
    <2>4. /\ pc'[t] = "sleep" /\ timed_out'[t] = FALSE
          /\ armed'[t] = (armed[t] \/ timed[t]) /\ stale'[t] = (firing = t)
          /\ \A u \in Thread \ {t} : /\ pc'[u] = pc[u] /\ armed'[u] = armed[u]
                                     /\ timed_out'[u] = timed_out[u] /\ stale'[u] = stale[u]
      BY <1>0, <1>3, <2>1
    <2>5. Queued' /\ TreeInv'
      <3>1. \A u \in Sleepers : pc'[u] = pc[u]
        BY <1>1, <2>4 DEF Sleepers
      <3> QED
        BY <1>0, <2>3, <3>1, StillTree
    <2>6. LockInv'
      BY <1>0, <1>3, <2>4, FutexAssumption DEF FutexInv, LockInv
    <2>7. TimerInv'
      <3>1. ASSUME NEW u \in Thread \ {t}
            PROVE  /\ armed'[u] => pc'[u] \in {"sleep", "woken"} /\ timed'[u]
                   /\ (firing' = u \/ timed_out'[u]) /\ pc'[u] \in {"sleep", "woken"}
                        => timed'[u] \/ stale'[u]
        BY <1>0, <1>3, <2>4 DEF FutexInv, TimerInv
      <3>2. /\ armed'[t] => pc'[t] \in {"sleep", "woken"} /\ timed'[t]
            /\ (firing' = t \/ timed_out'[t]) /\ pc'[t] \in {"sleep", "woken"}
                 => timed'[t] \/ stale'[t]
        BY <1>0, <1>1, <1>3, <2>4
      <3> QED
        BY <3>1, <3>2 DEF TimerInv
    <2> QED
      BY <1>0, <2>3, <2>5, <2>6, <2>7 DEF FutexInv
  <1> QED
    BY <1>2, <1>3 DEF futex_wait

\* Into the tree, or past it.
LEMMA SleepStep ==
    ASSUME FutexInv, NEW t \in Thread, sleep(t)
    PROVE  FutexInv'
  <1>0. /\ pc \in [Thread -> {"user", "wait", "sleep", "woken", "wake", "exit", "dead"}]
        /\ waiting \in [Thread -> SUBSET Thread]
        /\ pc[t] = "sleep" /\ pc' = [pc EXCEPT ![t] = "woken"] /\ kernel_lock' = NoThread
        /\ UNCHANGED <<word, want, arg, timed, timed_out, armed, firing, fired, stale>>
    BY DEF sleep, FutexInv, TypeOK, Goto, timers
  <1>1. /\ pc'[t] = "woken" /\ kernel_lock = t
        /\ \A u \in Thread \ {t} : pc'[u] = pc[u]
    BY <1>0 DEF FutexInv, LockInv
  <1>2. t \notin waiting[t]
    BY <1>0 DEF FutexInv, TreeInv
  <1>3. Ordered(waiting) /\ Closed(waiting)
    <2>1. TypeOK /\ Queued /\ TreeInv
      BY DEF FutexInv
    <2> QED
      BY <2>1, TreeIs
  <1>4. waiting' = waiting \/ waiting' = Slept(waiting, t)
    BY DEF sleep, Slept, Sleepers, Asleep
  <1>5. /\ waiting' \in [Thread -> SUBSET Thread] /\ Ordered(waiting') /\ Closed(waiting')
        /\ \A u \in Thread : u \in waiting'[u] => u \in waiting[u] \/ u = t
    BY <1>0, <1>2, <1>3, <1>4, SleepTree
  <1>6. TypeOK'
    BY <1>0, <1>5 DEF FutexInv, TypeOK
  <1>7. Queued'
    BY <1>5 DEF Queued, Ordered, Sleepers, Asleep
  <1>8. TreeInv'
    <2>1. \A u \in Thread : u \in waiting'[u] => pc'[u] = "woken"
      BY <1>1, <1>5 DEF FutexInv, TreeInv
    <2>2. \A u \in Thread : waiting'[u] # {} => Asleep(u)' /\ pc'[u] = "woken"
      BY <1>5, <2>1 DEF Closed, Asleep
    <2>3. \A u \in Thread : waiting'[u] \subseteq Sleepers'
      BY <1>5 DEF Closed, Asleep, Sleepers
    <2> QED
      BY <2>2, <2>3 DEF TreeInv
  <1>9. LockInv'
    BY <1>0, <1>1, FutexAssumption DEF FutexInv, LockInv
  <1>10. TimerInv'
    BY <1>0, <1>1 DEF FutexInv, TimerInv
  <1> QED
    BY <1>0, <1>6, <1>7, <1>8, <1>9, <1>10 DEF FutexInv

\* The end of the wait.
LEMMA WokenStep ==
    ASSUME FutexInv, NEW t \in Thread, woken(t)
    PROVE  FutexInv'
  <1>0. /\ pc \in [Thread -> {"user", "wait", "sleep", "woken", "wake", "exit", "dead"}]
        /\ timed \in [Thread -> BOOLEAN] /\ timed_out \in [Thread -> BOOLEAN]
        /\ armed \in [Thread -> BOOLEAN] /\ stale \in [Thread -> BOOLEAN]
        /\ want \in [Thread -> Addr \X Value]
        /\ pc[t] = "woken" /\ t \notin Sleepers /\ kernel_lock = NoThread
        /\ UNCHANGED <<word, waiting, arg, kernel_lock, firing, fired>>
    BY DEF woken, FutexInv, TypeOK, Sleepers
  <1>1. /\ pc' = [pc EXCEPT ![t] = "user"] /\ want' = [want EXCEPT ![t] = NoWant]
        /\ timed' = [timed EXCEPT ![t] = FALSE] /\ stale' = [stale EXCEPT ![t] = FALSE]
        /\ timed_out' = [timed_out EXCEPT ![t] = FALSE] /\ armed' = [armed EXCEPT ![t] = FALSE]
    BY DEF woken, Return, Goto, Stop
  <1>2. TypeOK'
    BY <1>0, <1>1, Fillers DEF FutexInv, TypeOK
  <1>3. /\ pc'[t] = "user" /\ ~armed'[t]
        /\ \A u \in Thread \ {t} : /\ pc'[u] = pc[u] /\ timed'[u] = timed[u]
                                   /\ timed_out'[u] = timed_out[u] /\ stale'[u] = stale[u]
                                   /\ armed'[u] = armed[u]
    BY <1>0, <1>1
  <1>4. Queued' /\ TreeInv'
    <2>1. \A u \in Sleepers : pc'[u] = pc[u]
      BY <1>0, <1>3 DEF Sleepers
    <2> QED
      BY <1>0, <1>2, <2>1, StillTree
  <1>5. LockInv'
    BY <1>0, <1>3 DEF FutexInv, LockInv
  <1>6. TimerInv'
    BY <1>0, <1>3 DEF FutexInv, TimerInv
  <1> QED
    BY <1>0, <1>2, <1>4, <1>5, <1>6 DEF FutexInv

\* The steps that wake: FUTEX_WAKE, the one of process_exit, a signal, and
\* the second half of sleep_timeout.
LEMMA WakeStep ==
    ASSUME FutexInv, NEW t \in Thread, futex_wake(t)
    PROVE  FutexInv'
  <1>0. /\ pc \in [Thread -> {"user", "wait", "sleep", "woken", "wake", "exit", "dead"}]
        /\ arg \in [Thread -> Addr \X (Counts \cup {1})]
        /\ pc[t] = "wake" /\ pc' = [pc EXCEPT ![t] = "user"] /\ arg' = [arg EXCEPT ![t] = NoArg]
        /\ UNCHANGED <<word, want, kernel_lock, timed, timed_out, armed, firing, fired, stale>>
    BY DEF futex_wake, FutexInv, TypeOK, Goto, timers
  <1>1. pc'[t] = "user" /\ \A u \in Thread \ {t} : pc'[u] = pc[u]
    BY <1>0
  <1>2. t \notin Sleepers
    BY <1>0 DEF FutexInv, TreeInv, Sleepers, Asleep
  <1>3. waiting' \in [Thread -> SUBSET Thread] /\ Queued' /\ TreeInv'
    <2>1. PICK S : Wake(S)
      BY DEF futex_wake
    <2>2. \A u \in Sleepers : pc'[u] = pc[u]
      BY <1>1, <1>2 DEF Sleepers
    <2> QED
      BY <2>1, <2>2, WakingTree
  <1>4. TypeOK'
    BY <1>0, <1>3, Fillers DEF FutexInv, TypeOK
  <1>5. LockInv'
    BY <1>0, <1>1 DEF FutexInv, LockInv
  <1>6. TimerInv'
    BY <1>0, <1>1 DEF FutexInv, TimerInv
  <1> QED
    BY <1>0, <1>3, <1>4, <1>5, <1>6 DEF FutexInv

LEMMA ExitWakeStep ==
    ASSUME FutexInv, NEW t \in Thread, exit_wake(t)
    PROVE  FutexInv'
  <1>0. /\ pc \in [Thread -> {"user", "wait", "sleep", "woken", "wake", "exit", "dead"}]
        /\ arg \in [Thread -> Addr \X (Counts \cup {1})]
        /\ pc[t] = "exit" /\ pc' = [pc EXCEPT ![t] = "dead"] /\ arg' = [arg EXCEPT ![t] = NoArg]
        /\ kernel_lock' = NoThread
        /\ UNCHANGED <<word, want, timed, timed_out, armed, firing, fired, stale>>
    BY DEF exit_wake, FutexInv, TypeOK, Goto, timers
  <1>1. pc'[t] = "dead" /\ kernel_lock = t /\ \A u \in Thread \ {t} : pc'[u] = pc[u]
    BY <1>0 DEF FutexInv, LockInv
  <1>2. t \notin Sleepers
    BY <1>0 DEF FutexInv, TreeInv, Sleepers, Asleep
  <1>3. waiting' \in [Thread -> SUBSET Thread] /\ Queued' /\ TreeInv'
    <2>1. PICK S : Wake(S)
      BY DEF exit_wake
    <2>2. \A u \in Sleepers : pc'[u] = pc[u]
      BY <1>1, <1>2 DEF Sleepers
    <2> QED
      BY <2>1, <2>2, WakingTree
  <1>4. TypeOK'
    BY <1>0, <1>3, Fillers DEF FutexInv, TypeOK
  <1>5. LockInv'
    BY <1>0, <1>1, FutexAssumption DEF FutexInv, LockInv
  <1>6. TimerInv'
    BY <1>0, <1>1 DEF FutexInv, TimerInv
  <1> QED
    BY <1>0, <1>3, <1>4, <1>5, <1>6 DEF FutexInv

LEMMA InterruptStep ==
    ASSUME FutexInv, NEW t \in Thread, process_interrupt(t)
    PROVE  FutexInv'
  <1>0. /\ Wake({t})
        /\ UNCHANGED <<word, want, pc, arg, kernel_lock, timed, timed_out, armed, firing,
                       fired, stale>>
    BY DEF process_interrupt, timers
  <1>1. waiting' \in [Thread -> SUBSET Thread] /\ Queued' /\ TreeInv'
    <2>1. \A u \in Sleepers : pc'[u] = pc[u]
      BY <1>0
    <2> QED
      BY <1>0, <2>1, WakingTree
  <1>2. TypeOK'
    BY <1>0, <1>1 DEF FutexInv, TypeOK
  <1>3. LockInv' /\ TimerInv'
    BY <1>0 DEF FutexInv, LockInv, TimerInv
  <1> QED
    BY <1>0, <1>1, <1>2, <1>3 DEF FutexInv

LEMMA ProcessWakeStep ==
    ASSUME FutexInv, process_wake
    PROVE  FutexInv'
  <1>0. /\ Wake({firing}) /\ firing' = NoThread /\ fired' = FALSE
        /\ UNCHANGED <<word, want, pc, arg, kernel_lock, timed, timed_out, armed, stale>>
    BY DEF process_wake
  <1>1. waiting' \in [Thread -> SUBSET Thread] /\ Queued' /\ TreeInv'
    <2>1. \A u \in Sleepers : pc'[u] = pc[u]
      BY <1>0
    <2> QED
      BY <1>0, <2>1, WakingTree
  <1>2. TypeOK'
    BY <1>0, <1>1 DEF FutexInv, TypeOK
  <1>3. LockInv'
    BY <1>0 DEF FutexInv, LockInv
  <1>4. TimerInv'
    BY <1>0, FutexAssumption DEF FutexInv, TimerInv
  <1> QED
    BY <1>0, <1>1, <1>2, <1>3, <1>4 DEF FutexInv

\* process_exit clears the word and holds the kernel lock.
LEMMA ExitStep ==
    ASSUME FutexInv, NEW t \in Thread, process_exit(t)
    PROVE  FutexInv'
  <1>0. /\ pc \in [Thread -> {"user", "wait", "sleep", "woken", "wake", "exit", "dead"}]
        /\ arg \in [Thread -> Addr \X (Counts \cup {1})] /\ word \in [Addr -> Value]
        /\ pc[t] = "user" /\ pc' = [pc EXCEPT ![t] = "exit"]
        /\ kernel_lock = NoThread /\ kernel_lock' = t
        /\ UNCHANGED <<want, waiting, timed, timed_out, armed, firing, fired, stale>>
    BY DEF process_exit, FutexInv, TypeOK, Goto, timers
  <1>1. pc'[t] = "exit" /\ \A u \in Thread \ {t} : pc'[u] = pc[u]
    BY <1>0
  <1>2. TypeOK'
    <2>1. PICK a \in Addr : word' = [word EXCEPT ![a] = 0] /\ arg' = [arg EXCEPT ![t] = <<a, 1>>]
      BY DEF process_exit
    <2> QED
      BY <1>0, <2>1, FutexAssumption DEF FutexInv, TypeOK
  <1>3. Queued' /\ TreeInv'
    <2>1. t \notin Sleepers
      BY <1>0 DEF FutexInv, TreeInv, Sleepers, Asleep
    <2>2. \A u \in Sleepers : pc'[u] = pc[u]
      BY <1>1, <2>1 DEF Sleepers
    <2> QED
      BY <1>0, <1>2, <2>2, StillTree
  <1>4. LockInv'
    BY <1>0, <1>1, FutexAssumption DEF FutexInv, LockInv
  <1>5. TimerInv'
    BY <1>0, <1>1 DEF FutexInv, TimerInv
  <1> QED
    BY <1>0, <1>2, <1>3, <1>4, <1>5 DEF FutexInv

\* The callout leaves the wheel, and its handler sets timed_out.
LEMMA TimerStep ==
    ASSUME FutexInv, sleep_timeout \/ \E t \in Thread : timer_dispatch(t)
    PROVE  FutexInv'
  <1>0. /\ timed_out \in [Thread -> BOOLEAN] /\ armed \in [Thread -> BOOLEAN]
        /\ UNCHANGED <<word, want, waiting, pc, arg, kernel_lock, timed, stale>>
    BY DEF sleep_timeout, timer_dispatch, FutexInv, TypeOK
  <1>1. ASSUME TypeOK'
        PROVE  Queued' /\ TreeInv'
    BY <1>0, <1>1, StillTree
  <1>2. LockInv'
    BY <1>0 DEF FutexInv, LockInv
  <1>3. CASE sleep_timeout
    <2>1. /\ firing \in Thread /\ timed_out' = [timed_out EXCEPT ![firing] = TRUE]
          /\ fired' = TRUE /\ UNCHANGED <<armed, firing>>
      BY <1>3 DEF sleep_timeout
    <2>2. TypeOK'
      BY <1>0, <2>1 DEF FutexInv, TypeOK
    <2>3. \A u \in Thread \ {firing} : timed_out'[u] = timed_out[u]
      BY <1>0, <2>1
    <2>4. TimerInv'
      BY <1>0, <2>1, <2>3 DEF FutexInv, TimerInv
    <2> QED
      BY <1>1, <1>2, <2>1, <2>2, <2>4 DEF FutexInv
  <1>4. ASSUME NEW t \in Thread, timer_dispatch(t)
        PROVE  FutexInv'
    <2>1. /\ armed[t] /\ firing' = t /\ armed' = [armed EXCEPT ![t] = FALSE]
          /\ UNCHANGED <<timed_out, fired>>
      BY <1>4 DEF timer_dispatch
    <2>2. TypeOK'
      BY <1>0, <2>1 DEF FutexInv, TypeOK
    <2>3. ~armed'[t] /\ \A u \in Thread \ {t} : armed'[u] = armed[u]
      BY <1>0, <2>1
    <2>4. TimerInv'
      BY <1>0, <2>1, <2>3 DEF FutexInv, TimerInv
    <2> QED
      BY <1>1, <1>2, <2>1, <2>2, <2>4 DEF FutexInv
  <1> QED
    BY <1>3, <1>4

-------------------------------------------------------------------------------
(* The invariant *)

LEMMA InitFutex == Init => FutexInv
  <1> SUFFICES ASSUME Init PROVE FutexInv
    OBVIOUS
  <1>1. TypeOK
    BY Fillers DEF Init, TypeOK
  <1>2. Queued /\ TreeInv
    BY DEF Init, Queued, TreeInv, Sleepers, Asleep
  <1>3. LockInv
    BY FutexAssumption DEF Init, LockInv
  <1>4. TimerInv
    BY FutexAssumption DEF Init, TimerInv
  <1> QED
    BY <1>1, <1>2, <1>3, <1>4 DEF Init, FutexInv

LEMMA NextFutex == FutexInv /\ [Next]_vars => FutexInv'
  <1> SUFFICES ASSUME FutexInv, [Next]_vars PROVE FutexInv'
    OBVIOUS
  <1>1. ASSUME NEW t \in Thread,
               \/ user_store(t) \/ user_wait(t) \/ futex_wait(t) \/ sleep(t) \/ woken(t)
               \/ futex_wake(t) \/ process_interrupt(t) \/ process_exit(t) \/ exit_wake(t)
               \/ timer_dispatch(t)
        PROVE  FutexInv'
    BY <1>1, UserStep, FutexWaitStep, SleepStep, WokenStep, WakeStep, InterruptStep, ExitStep,
       ExitWakeStep, TimerStep
  <1>2. CASE sleep_timeout \/ process_wake
    BY <1>2, TimerStep, ProcessWakeStep
  <1>3. CASE UNCHANGED vars
    <2>1. UNCHANGED <<word, want, waiting, pc, arg, kernel_lock, timed, timed_out, armed,
                      firing, fired, stale>>
      BY <1>3 DEF vars, timers
    <2>2. TypeOK'
      BY <2>1 DEF FutexInv, TypeOK
    <2>3. Queued' /\ TreeInv'
      BY <2>1, <2>2, StillTree
    <2>4. LockInv' /\ TimerInv'
      BY <2>1 DEF FutexInv, LockInv, TimerInv
    <2> QED
      BY <2>1, <2>2, <2>3, <2>4 DEF FutexInv
  <1> QED
    BY <1>1, <1>2, <1>3 DEF Next

\* FutexInv holds in every state.
THEOREM FutexInvHolds == Spec => []FutexInv
  BY InitFutex, NextFutex, PTL DEF Spec

\* The tree of sleepers stays an order by arrival, and a wait without a
\* timeout reports one only if the handler of an earlier wait was under way
\* when it began; keys may clash.
THEOREM FutexIsSound == Spec => []FutexSound
  <1>1. FutexInv => FutexSound
    <2> SUFFICES ASSUME FutexInv PROVE TimeoutIsOwn
      BY DEF FutexInv, FutexSound
    <2>1. \A t \in Thread : timed_out[t] /\ pc[t] = "woken" => timed[t] \/ stale[t]
      BY DEF FutexInv, TimerInv
    <2> QED
      BY <2>1 DEF TimeoutIsOwn, Result
  <1> QED
    BY <1>1, FutexInvHolds, PTL

-------------------------------------------------------------------------------
(* The refinement *)

LEMMA QueueIs ==
    /\ \A u \in Thread : Queue[u] = {x \in Blocking(u) : want[x][1] = want[u][1]}
    /\ \A u \in Thread : Queue'[u] = {x \in Blocking(u)' : want'[x][1] = want'[u][1]}
    /\ Queue = [u \in Thread |-> Queue[u]] /\ Queue' = [u \in Thread |-> Queue'[u]]
  BY DEF Queue

\* Blocked are the sleepers and who is on the way to sleep.
LEMMA BlockedIs ==
    ASSUME FutexInv
    PROVE  /\ \A u \in Thread : Blocking(u) = IF pc[u] = "sleep" THEN Sleepers \cup {u}
                                                              ELSE waiting[u]
           /\ \A u \in Thread : F!Blocked(u) <=> pc[u] = "sleep" \/ Asleep(u)
           /\ \A u \in Thread : u \in Blocking(u) <=> F!Blocked(u)
  <1>1. \A u \in Thread : Blocking(u) = IF pc[u] = "sleep" THEN Sleepers \cup {u}
                                                           ELSE waiting[u]
    BY DEF Blocking
  <1>2. \A u \in Thread : u \in Queue[u] <=> u \in Blocking(u)
    BY QueueIs
  <1>3. \A u \in Thread : u \in Blocking(u) <=> pc[u] = "sleep" \/ Asleep(u)
    BY <1>1 DEF Asleep
  <1> QED
    BY <1>1, <1>2, <1>3 DEF F!Blocked

LEMMA SameQueue ==
    ASSUME UNCHANGED <<waiting, want>>,
           \A u \in Thread : pc'[u] = "sleep" <=> pc[u] = "sleep"
    PROVE  Queue' = Queue
  <1>1. \A u \in Thread : Blocking(u)' = Blocking(u)
    BY DEF Blocking, Sleepers, Asleep
  <1>2. ASSUME NEW u \in Thread
        PROVE  Queue'[u] = Queue[u]
    <2>1. Queue'[u] = {x \in Blocking(u)' : want'[x][1] = want'[u][1]}
      BY QueueIs
    <2>2. Queue[u] = {x \in Blocking(u) : want[x][1] = want[u][1]}
      BY QueueIs
    <2> QED
      BY <1>1, <2>1, <2>2
  <1> QED
    BY <1>2, QueueIs

\* The arguments of who does not block are in nobody's way.
LEMMA CallQueue ==
    ASSUME FutexInv, NEW t \in Thread, NEW w, want' = [want EXCEPT ![t] = w], waiting' = waiting,
           ~Asleep(t), pc[t] # "sleep",
           \A u \in Thread : pc'[u] = "sleep" <=> pc[u] = "sleep"
    PROVE  Queue' = Queue
  <1>1. \A u \in Thread : Blocking(u)' = Blocking(u)
    BY DEF Blocking, Sleepers, Asleep
  <1>2. want \in [Thread -> Addr \X Value] /\ waiting \in [Thread -> SUBSET Thread]
    BY DEF FutexInv, TypeOK
  <1>3. \A u \in Thread \ {t} : want'[u] = want[u]
    BY <1>2
  <1>4. waiting[t] = {} /\ \A u \in Thread : t \notin waiting[u]
    BY DEF FutexInv, TreeInv, Sleepers, Asleep
  <1>5. Blocking(t) = {}
    BY <1>4 DEF Blocking
  <1>6. \A u \in Thread \ {t} : t \notin Blocking(u) /\ Blocking(u) \subseteq Thread
    BY <1>2, <1>4 DEF Blocking, Sleepers, Asleep
  <1>7. ASSUME NEW u \in Thread \ {t}
        PROVE  Queue'[u] = Queue[u]
    <2>1. Queue'[u] = {x \in Blocking(u)' : want'[x][1] = want'[u][1]}
      BY QueueIs
    <2>2. Queue[u] = {x \in Blocking(u) : want[x][1] = want[u][1]}
      BY QueueIs
    <2>3. want'[u] = want[u] /\ \A x \in Blocking(u) : want'[x] = want[x]
      BY <1>3, <1>6
    <2> QED
      BY <1>1, <2>1, <2>2, <2>3
  <1>8. Queue'[t] = {} /\ Queue[t] = {}
    BY <1>1, <1>5, QueueIs
  <1>9. \A u \in Thread : Queue'[u] = Queue[u]
    BY <1>7, <1>8
  <1> QED
    BY <1>9, QueueIs

\* Waking sleepers takes them out of every queue.
LEMMA WakeQueue ==
    ASSUME FutexInv, NEW S \in SUBSET Sleepers, Wake(S), want' = want,
           \A u \in Thread : pc'[u] = "sleep" <=> pc[u] = "sleep"
    PROVE  Queue' = [u \in Thread |-> IF u \in S THEN {} ELSE Queue[u] \ S]
  <1>1. /\ \A u \in Thread : waiting'[u] = IF u \in S THEN {} ELSE waiting[u] \ S
        /\ \A u \in S : u \in Thread /\ pc[u] # "sleep"
    BY DEF Wake, FutexInv, TreeInv, Sleepers, Asleep
  <1>2. Sleepers' = Sleepers \ S
    BY <1>1 DEF Sleepers, Asleep
  <1>3. \A u \in Thread : Blocking(u)' = IF u \in S THEN {} ELSE Blocking(u) \ S
    BY <1>1, <1>2 DEF Blocking
  <1>4. ASSUME NEW u \in Thread
        PROVE  Queue'[u] = IF u \in S THEN {} ELSE Queue[u] \ S
    <2>1. Queue'[u] = {x \in Blocking(u)' : want[x][1] = want[u][1]}
      BY QueueIs
    <2>2. Queue[u] = {x \in Blocking(u) : want[x][1] = want[u][1]}
      BY QueueIs
    <2> QED
      BY <1>3, <2>1, <2>2
  <1> QED
    BY <1>4, QueueIs

\* A store.
LEMMA StoreRefines ==
    ASSUME NEW a \in Addr, NEW v \in Value, word' = [word EXCEPT ![a] = v],
           UNCHANGED <<want, waiting>>, \A u \in Thread : pc'[u] = "sleep" <=> pc[u] = "sleep"
    PROVE  F!Next
  <1>1. Queue' = Queue
    BY SameQueue
  <1>2. F!Store(a, v)
    BY <1>1 DEF F!Store
  <1> QED
    BY <1>2 DEF F!Next

\* New arguments.
LEMMA CallRefines ==
    ASSUME FutexInv, NEW t \in Thread, NEW w \in Addr \X Value, want' = [want EXCEPT ![t] = w],
           UNCHANGED <<word, waiting>>, ~Asleep(t), pc[t] # "sleep",
           \A u \in Thread : pc'[u] = "sleep" <=> pc[u] = "sleep"
    PROVE  F!Next
  <1>1. Queue' = Queue
    BY CallQueue
  <1>2. ~F!Blocked(t)
    BY BlockedIs
  <1>3. F!Call(t)
    BY <1>1, <1>2 DEF F!Call
  <1> QED
    BY <1>3 DEF F!Next

\* A sleeper woken by a signal or its timer.
LEMMA LeaveRefines ==
    ASSUME FutexInv, NEW t \in Thread, Asleep(t), Wake({t}), UNCHANGED <<word, want, pc>>
    PROVE  F!Next
  <1>1. {t} \in SUBSET Sleepers
    BY DEF Sleepers
  <1>2. Queue' = [u \in Thread |-> IF u \in {t} THEN {} ELSE Queue[u] \ {t}]
    BY <1>1, WakeQueue
  <1>3. F!Leave(t)
    BY <1>2 DEF F!Leave, F!Unblock
  <1> QED
    BY <1>3 DEF F!Next

\* The abstract specification counts as this one does.
LEMMA SameCardinality == \A S : F!Cardinality(S) = Cardinality(S)
  BY Zenon DEF F!Cardinality, Cardinality

\* FUTEX_WAKE: without clashes it takes the first of just this address.
LEMMA WakeRefines ==
    ASSUME FutexInv, Clashes = {}, NEW a \in Addr, NEW n \in Counts \cup {1}, Wake(FirstN(a, n)),
           UNCHANGED <<word, want>>,
           \A u \in Thread : pc[u] # "sleep" /\ pc'[u] # "sleep"
    PROVE  F!Next
  <1>1. \A x, y : SameKey(x, y) <=> x = y
    BY DEF SameKey
  <1>2. \A u \in Thread : Queue[u] = {x \in waiting[u] : want[x][1] = want[u][1]}
    BY QueueIs, BlockedIs
  <1>3. F!On(a) = {u \in Sleepers : want[u][1] = a}
    BY BlockedIs DEF F!On, Sleepers
  <1>4. FirstN(a, n) = F!First(a, n)
    <2>1. FirstN(a, n) = {u \in Sleepers : /\ want[u][1] = a
                                           /\ Cardinality({x \in waiting[u] : want[x][1] = a}) <= n}
      BY <1>1 DEF FirstN
    <2>2. \A u \in Sleepers : want[u][1] = a => Queue[u] = {x \in waiting[u] : want[x][1] = a}
      BY <1>2 DEF Sleepers
    <2>3. F!First(a, n) = {u \in Sleepers : want[u][1] = a /\ Cardinality(Queue[u]) <= n}
      BY <1>3, SameCardinality DEF F!First
    <2>4. \A u \in Sleepers : want[u][1] = a =>
            Cardinality(Queue[u]) = Cardinality({x \in waiting[u] : want[x][1] = a})
      BY <2>2
    <2>5. \A u : u \in FirstN(a, n) <=> u \in F!First(a, n)
      BY <2>1, <2>3, <2>4
    <2> QED
      BY <2>5
  <1>5. FirstN(a, n) \in SUBSET Sleepers
    BY DEF FirstN
  <1>6. Queue' = [u \in Thread |-> IF u \in FirstN(a, n) THEN {} ELSE Queue[u] \ FirstN(a, n)]
    BY <1>5, WakeQueue
  <1>7. F!Wake(a, n)
    BY <1>4, <1>6 DEF F!Wake, F!Unblock
  <1> QED
    BY <1>7 DEF F!Next

\* The compare under the kernel lock: nobody else is on the way to sleep.
LEMMA BlockRefines ==
    ASSUME FutexInv, NEW t \in Thread, futex_wait(t), Expected(t), kernel_lock' = t
    PROVE  F!Next
  <1>0. /\ pc[t] = "wait" /\ kernel_lock = NoThread /\ pc' = [pc EXCEPT ![t] = "sleep"]
        /\ UNCHANGED <<word, waiting, want>>
    BY FutexAssumption DEF futex_wait, Goto
  <1>1. pc \in [Thread -> {"user", "wait", "sleep", "woken", "wake", "exit", "dead"}]
    BY DEF FutexInv, TypeOK
  <1>2. \A u \in Thread : pc[u] # "sleep"
    BY <1>0, FutexAssumption DEF FutexInv, LockInv
  <1>3. pc'[t] = "sleep" /\ \A u \in Thread \ {t} : pc'[u] # "sleep"
    BY <1>0, <1>1, <1>2
  <1>4. ~Asleep(t)
    BY <1>0 DEF FutexInv, TreeInv, Asleep
  <1>5. Sleepers' = Sleepers
    BY <1>0 DEF Sleepers, Asleep
  <1>6. F!On(want[t][1]) = {u \in Sleepers : want[u][1] = want[t][1]}
    BY <1>2, BlockedIs DEF F!On, Sleepers
  <1>7. Queue'[t] = F!On(want[t][1]) \cup {t}
    <2>1. Blocking(t)' = Sleepers \cup {t}
      BY <1>3, <1>5 DEF Blocking
    <2>2. Queue'[t] = {x \in Blocking(t)' : want[x][1] = want[t][1]}
      BY <1>0, QueueIs
    <2> QED
      BY <1>6, <2>1, <2>2
  <1>8. ASSUME NEW u \in Thread \ {t}
        PROVE  Queue'[u] = Queue[u]
    <2>1. Blocking(u)' = Blocking(u)
      BY <1>0, <1>2, <1>3 DEF Blocking
    <2>2. Queue'[u] = {x \in Blocking(u)' : want[x][1] = want[u][1]}
      BY <1>0, QueueIs
    <2>3. Queue[u] = {x \in Blocking(u) : want[x][1] = want[u][1]}
      BY QueueIs
    <2> QED
      BY <2>1, <2>2, <2>3
  <1>9. Queue' = [Queue EXCEPT ![t] = F!On(want[t][1]) \cup {t}]
    BY <1>7, <1>8, QueueIs
  <1>10. F!Block(t)
    <2>1. ~F!Blocked(t)
      BY <1>0, <1>4, BlockedIs
    <2>2. word[want[t][1]] = want[t][2]
      BY DEF Expected
    <2> QED
      BY <1>0, <1>9, <2>1, <2>2 DEF F!Block
  <1> QED
    BY <1>10 DEF F!Next

\* Into the tree changes nothing; past it, the wait ends by itself.
LEMMA SleepRefines ==
    ASSUME FutexInv, NEW t \in Thread, sleep(t)
    PROVE  [F!Next]_(F!vars)
  <1>0. /\ pc[t] = "sleep" /\ pc' = [pc EXCEPT ![t] = "woken"] /\ UNCHANGED <<word, want>>
        /\ \/ waiting' = [waiting EXCEPT ![t] = Sleepers \cup {t}]
           \/ waiting' = waiting
    BY DEF sleep, Goto
  <1>1. /\ pc \in [Thread -> {"user", "wait", "sleep", "woken", "wake", "exit", "dead"}]
        /\ waiting \in [Thread -> SUBSET Thread]
    BY DEF FutexInv, TypeOK
  <1>2. \A u \in Thread \ {t} : pc[u] # "sleep"
    BY <1>0 DEF FutexInv, LockInv
  <1>3. \A u \in Thread : pc'[u] # "sleep"
    BY <1>0, <1>1, <1>2
  <1>4. waiting[t] = {} /\ \A u \in Thread : t \notin waiting[u]
    BY <1>0 DEF FutexInv, TreeInv, Sleepers, Asleep
  <1>5. CASE waiting' = [waiting EXCEPT ![t] = Sleepers \cup {t}]
    <2>1. \A u \in Thread : Blocking(u)' = Blocking(u)
      BY <1>0, <1>1, <1>2, <1>3, <1>5 DEF Blocking
    <2>2. ASSUME NEW u \in Thread
          PROVE  Queue'[u] = Queue[u]
      <3>1. Queue'[u] = {x \in Blocking(u)' : want[x][1] = want[u][1]}
        BY <1>0, QueueIs
      <3>2. Queue[u] = {x \in Blocking(u) : want[x][1] = want[u][1]}
        BY QueueIs
      <3> QED
        BY <2>1, <3>1, <3>2
    <2>3. Queue' = Queue
      BY <2>2, QueueIs
    <2> QED
      BY <1>0, <2>3 DEF F!vars
  <1>6. CASE waiting' = waiting
    <2>1. Blocking(t)' = {} /\ \A u \in Thread \ {t} : Blocking(u)' = Blocking(u) \ {t}
      BY <1>2, <1>3, <1>4, <1>6 DEF Blocking
    <2>2. ASSUME NEW u \in Thread
          PROVE  Queue'[u] = IF u \in {t} THEN {} ELSE Queue[u] \ {t}
      <3>1. Queue'[u] = {x \in Blocking(u)' : want[x][1] = want[u][1]}
        BY <1>0, QueueIs
      <3>2. Queue[u] = {x \in Blocking(u) : want[x][1] = want[u][1]}
        BY QueueIs
      <3> QED
        BY <2>1, <3>1, <3>2
    <2>3. Queue' = [u \in Thread |-> IF u \in {t} THEN {} ELSE Queue[u] \ {t}]
      BY <2>2, QueueIs
    <2>4. F!Leave(t)
      BY <1>0, <2>3 DEF F!Leave, F!Unblock
    <2> QED
      BY <2>4 DEF F!Next
  <1> QED
    BY <1>0, <1>5, <1>6

\* Every step is one of FutexSpec, or changes nothing there.
LEMMA StepRefines ==
    ASSUME FutexInv, Clashes = {}, [Next]_vars
    PROVE  [F!Next]_(F!vars)
  <1>0. /\ pc \in [Thread -> {"user", "wait", "sleep", "woken", "wake", "exit", "dead"}]
        /\ arg \in [Thread -> Addr \X (Counts \cup {1})] /\ word \in [Addr -> Value]
    BY DEF FutexInv, TypeOK
  <1>a. ASSUME NEW t \in Thread, pc[t] # "sleep", NEW l, l # "sleep", pc' = [pc EXCEPT ![t] = l]
        PROVE  \A u \in Thread : pc'[u] = "sleep" <=> pc[u] = "sleep"
    BY <1>0, <1>a
  <1>b. \A t \in Thread : Asleep(t) => pc[t] = "woken"
    BY DEF FutexInv, TreeInv, Asleep
  <1>1. ASSUME NEW t \in Thread, user_store(t) PROVE F!Next
    <2>1. pc[t] = "user" /\ pc' = [pc EXCEPT ![t] = "wake"] /\ UNCHANGED <<want, waiting>>
      BY <1>1 DEF user_store, Goto
    <2>2. PICK a \in Addr, v \in Value : word' = [word EXCEPT ![a] = v]
      BY <1>1 DEF user_store
    <2>3. \A u \in Thread : pc'[u] = "sleep" <=> pc[u] = "sleep"
      BY <1>a, <2>1
    <2> QED
      BY <2>1, <2>2, <2>3, StoreRefines
  <1>2. ASSUME NEW t \in Thread, process_exit(t) PROVE F!Next
    <2>1. pc[t] = "user" /\ pc' = [pc EXCEPT ![t] = "exit"] /\ UNCHANGED <<want, waiting>>
      BY <1>2 DEF process_exit, Goto
    <2>2. PICK a \in Addr : word' = [word EXCEPT ![a] = 0]
      BY <1>2 DEF process_exit
    <2>3. \A u \in Thread : pc'[u] = "sleep" <=> pc[u] = "sleep"
      BY <1>a, <2>1
    <2>4. 0 \in Value
      BY FutexAssumption
    <2> QED
      BY <2>1, <2>2, <2>3, <2>4, StoreRefines
  <1>3. ASSUME NEW t \in Thread, user_wait(t) PROVE F!Next
    <2>1. /\ pc[t] = "user" /\ pc' = [pc EXCEPT ![t] = "wait"] /\ UNCHANGED <<word, waiting>>
          /\ ~Asleep(t)
      BY <1>3, <1>b DEF user_wait, Goto
    <2>2. PICK a \in Addr : want' = [want EXCEPT ![t] = <<a, word[a]>>]
      BY <1>3 DEF user_wait
    <2>3. <<a, word[a]>> \in Addr \X Value
      BY <1>0
    <2>4. \A u \in Thread : pc'[u] = "sleep" <=> pc[u] = "sleep"
      BY <1>a, <2>1
    <2> QED
      BY <2>1, <2>2, <2>3, <2>4, CallRefines
  <1>4. ASSUME NEW t \in Thread, Return(t), pc[t] \in {"wait", "woken"}, ~Asleep(t),
               UNCHANGED <<word, waiting>>
        PROVE  F!Next
    <2>1. pc' = [pc EXCEPT ![t] = "user"] /\ want' = [want EXCEPT ![t] = NoWant]
      BY <1>4 DEF Return, Goto
    <2>2. \A u \in Thread : pc'[u] = "sleep" <=> pc[u] = "sleep"
      BY <1>4, <1>a, <2>1
    <2> QED
      BY <1>4, <2>1, <2>2, Fillers, CallRefines
  <1>5. ASSUME NEW t \in Thread, futex_wait(t) PROVE F!Next
    <2>1. pc[t] = "wait" /\ UNCHANGED <<word, waiting>> /\ ~Asleep(t)
      BY <1>5, <1>b DEF futex_wait
    <2>2. Return(t) \/ (Expected(t) /\ kernel_lock' = t)
      BY <1>5 DEF futex_wait
    <2> QED
      BY <1>4, <1>5, <2>1, <2>2, BlockRefines
  <1>6. ASSUME NEW t \in Thread, woken(t) PROVE F!Next
    <2>1. pc[t] = "woken" /\ UNCHANGED <<word, waiting>> /\ ~Asleep(t) /\ Return(t)
      BY <1>6 DEF woken
    <2> QED
      BY <1>4, <2>1
  <1>7. ASSUME NEW t \in Thread, futex_wake(t) \/ exit_wake(t) PROVE F!Next
    <2>1. /\ Wake(FirstN(arg[t][1], arg[t][2])) /\ UNCHANGED <<word, want>>
          /\ pc' = [pc EXCEPT ![t] = "user"] \/ pc' = [pc EXCEPT ![t] = "dead"]
      BY <1>7 DEF futex_wake, exit_wake, Goto
    <2>2. kernel_lock = NoThread \/ (kernel_lock = t /\ pc[t] = "exit")
      BY <1>7 DEF futex_wake, exit_wake, FutexInv, LockInv
    <2>3. \A u \in Thread : pc[u] # "sleep"
      BY <2>2, FutexAssumption DEF FutexInv, LockInv
    <2>4. \A u \in Thread : pc'[u] # "sleep"
      BY <1>0, <2>1, <2>3
    <2>5. arg[t][1] \in Addr /\ arg[t][2] \in Counts \cup {1}
      BY <1>0
    <2> QED
      BY <2>1, <2>3, <2>4, <2>5, WakeRefines
  <1>8. ASSUME NEW t \in Thread, process_interrupt(t) PROVE F!Next
    BY <1>8, LeaveRefines DEF process_interrupt
  <1>9. CASE process_wake
    <2>1. firing \in Thread /\ Wake({firing}) /\ UNCHANGED <<word, want, pc>>
      <3>1. fired
        BY <1>9 DEF process_wake
      <3> QED
        BY <1>9, <3>1 DEF process_wake, FutexInv
    <2>2. CASE Asleep(firing)
      BY <2>1, <2>2, LeaveRefines
    <2>3. CASE ~Asleep(firing)
      <3>1. waiting \in [Thread -> SUBSET Thread]
        BY DEF FutexInv, TypeOK
      <3>2. waiting[firing] = {} /\ \A u \in Thread : firing \notin waiting[u]
        BY <2>1, <2>3 DEF FutexInv, TreeInv, Sleepers, Asleep
      <3>3. waiting' = waiting
        <4>1. waiting' = [u \in Thread |-> IF u \in {firing} THEN {} ELSE waiting[u] \ {firing}]
          BY <2>1 DEF Wake
        <4>2. \A u \in Thread : waiting'[u] = waiting[u]
          BY <3>2, <4>1
        <4> QED
          BY <3>1, <4>1, <4>2
      <3>4. Queue' = Queue
        BY <2>1, <3>3, SameQueue
      <3> QED
        BY <2>1, <3>4 DEF F!vars
    <2> QED
      BY <2>2, <2>3
  <1>10. ASSUME UNCHANGED <<word, want, waiting, pc>> PROVE UNCHANGED F!vars
    <2>1. Queue' = Queue
      BY <1>10, SameQueue
    <2> QED
      BY <1>10, <2>1 DEF F!vars
  <1>11. ASSUME NEW t \in Thread, timer_dispatch(t) PROVE UNCHANGED F!vars
    BY <1>10, <1>11 DEF timer_dispatch
  <1>12. CASE sleep_timeout \/ UNCHANGED vars
    BY <1>10, <1>12 DEF sleep_timeout, vars
  <1> QED
    BY <1>1, <1>2, <1>3, <1>5, <1>6, <1>7, <1>8, <1>9, <1>11, <1>12, SleepRefines DEF Next

\* Where no two addresses share a key, futex.c implements FutexSpec: a thread
\* blocks only while the word holds what it expects, and a wake that follows
\* a store finds it.
THEOREM FutexRefines ==
    ASSUME Clashes = {}
    PROVE  Spec => ImplementsFutex
  <1>1. Init => F!Init
    <2> SUFFICES ASSUME Init PROVE F!Init
      OBVIOUS
    <2>1. \A u \in Thread : Blocking(u) = {}
      BY DEF Init, Blocking
    <2>2. Queue = [u \in Thread |-> {}]
      BY <2>1 DEF Queue
    <2>3. want \in [Thread -> Addr \X Value] /\ word \in [Addr -> Value]
      BY Fillers DEF Init
    <2> QED
      BY <2>2, <2>3 DEF F!Init
  <1>2. FutexInv /\ [Next]_vars => [F!Next]_(F!vars)
    BY StepRefines
  <1> QED
    BY <1>1, <1>2, FutexInvHolds, PTL DEF Spec, ImplementsFutex, F!Spec

===============================================================================

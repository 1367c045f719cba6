--------------------------------- MODULE Futex ---------------------------------
(***************************************************************************)
(* futex.c on top of process_sleep_timeout and process_wakeup_n: the word  *)
(* is compared under the kernel lock, user code stores to it at any time   *)
(* without one, and sched_switch drops the kernel lock only once the       *)
(* caller is in the tree of sleepers.  All addresses share that tree: a    *)
(* futex is found by its key, 28 bits of a hash, which addresses may share.*)
(*                                                                         *)
(* The callout of a timed wait lies on the caller's stack and is stopped,  *)
(* not drained, so its handler may run into the caller's next wait.        *)
(***************************************************************************)
EXTENDS Integers, FiniteSets, TLC

CONSTANTS
    Thread, Addr, Value,
    Clashes,     \* the sets of addresses for which futex_key gives one key
    Counts,      \* the counts FUTEX_WAKE is called with
    NoThread     \* owner of the free kernel lock

ASSUME FutexAssumption ==
    /\ Counts \subseteq Nat /\ Counts # {} /\ 0 \in Value /\ Addr # {}
    /\ NoThread \notin Thread

VARIABLES
    word, want,
    waiting,         \* waiting[t]: t, if it sleeps, and who sleeps before it
    pc, arg,         \* control; address and count of a wake to come
    kernel_lock,
    timed,           \* the wait under way has a timeout
    timed_out,       \* of the process_t
    armed,           \* callouts on the wheel
    firing, fired,   \* whose sleep_timeout is under way, and its first half done
    stale            \* a handler was under way when the wait began

timers == <<timed, timed_out, armed, firing, fired, stale>>
vars == <<word, want, waiting, pc, arg, kernel_lock, timers>>

NoWant == CHOOSE w \in Addr \X Value : TRUE
NoArg == CHOOSE w \in Addr \X Counts : TRUE

Init ==
    /\ word \in [Addr -> Value] /\ want = [t \in Thread |-> NoWant]
    /\ waiting = [t \in Thread |-> {}]
    /\ pc = [t \in Thread |-> "user"] /\ arg = [t \in Thread |-> NoArg]
    /\ kernel_lock = NoThread
    /\ timed = [t \in Thread |-> FALSE] /\ timed_out = [t \in Thread |-> FALSE]
    /\ armed = [t \in Thread |-> FALSE] /\ firing = NoThread /\ fired = FALSE
    /\ stale = [t \in Thread |-> FALSE]

Goto(t, l) == pc' = [pc EXCEPT ![t] = l]

SameKey(a, b) == a = b \/ \E S \in Clashes : a \in S /\ b \in S

Asleep(t) == t \in waiting[t]
Sleepers == {t \in Thread : Asleep(t)}

-------------------------------------------------------------------------------
(* User code *)

\* A store to a word; its author will wake those who wait for it.
user_store(t) ==
    /\ pc[t] = "user"
    /\ \E a \in Addr, v \in Value, n \in Counts :
          /\ word' = [word EXCEPT ![a] = v]
          /\ arg' = [arg EXCEPT ![t] = <<a, n>>]
    /\ Goto(t, "wake")
    /\ UNCHANGED <<want, waiting, kernel_lock, timers>>

\* A word is read, and FUTEX_WAIT will be called with the value read.
user_wait(t) ==
    /\ pc[t] = "user"
    /\ \E a \in Addr : want' = [want EXCEPT ![t] = <<a, word[a]>>]
    /\ \E b \in BOOLEAN : timed' = [timed EXCEPT ![t] = b]
    /\ Goto(t, "wait")
    /\ UNCHANGED <<word, waiting, arg, kernel_lock, timed_out, armed, firing, fired, stale>>

-------------------------------------------------------------------------------
(* futex_wait *)

\* The call returns; its arguments and locals are forgotten, and
\* timed_out, which the next wait sets before anybody reads it.
Return(t) ==
    /\ Goto(t, "user")
    /\ want' = [want EXCEPT ![t] = NoWant] /\ timed' = [timed EXCEPT ![t] = FALSE]
    /\ stale' = [stale EXCEPT ![t] = FALSE] /\ timed_out' = [timed_out EXCEPT ![t] = FALSE]

\* Faulty variant: a compare that does not matter.
ExpectedOrNot(t) == TRUE

\* The compare of futex_wait.
Expected(t) == word[want[t][1]] = want[t][2]

\* Under the kernel lock: -EAGAIN, or set the timer on the way to sleep.
futex_wait(t) ==
    /\ pc[t] = "wait" /\ kernel_lock = NoThread
    /\ \/ /\ ~Expected(t)
          /\ Return(t)
          /\ UNCHANGED <<kernel_lock, armed>>
       \/ /\ Expected(t)
          /\ kernel_lock' = t
          /\ timed_out' = [timed_out EXCEPT ![t] = FALSE]
          /\ armed' = [armed EXCEPT ![t] = @ \/ timed[t]]
          /\ stale' = [stale EXCEPT ![t] = firing = t]
          /\ Goto(t, "sleep")
          /\ UNCHANGED <<want, timed>>
    /\ UNCHANGED <<word, waiting, arg, firing, fired>>

\* sleep_interruptible: into the tree and off the CPU without the kernel lock
\* (sched_switch), or on at once because signal_wakes() holds.
sleep(t) ==
    /\ pc[t] = "sleep"
    /\ \/ waiting' = [waiting EXCEPT ![t] = Sleepers \cup {t}]
       \/ waiting' = waiting
    /\ kernel_lock' = NoThread
    /\ Goto(t, "woken")
    /\ UNCHANGED <<word, want, arg, timers>>

\* Faulty variant: the callout is left on the wheel.
StopNot(t) == armed' = armed

\* callout_stop
Stop(t) == armed' = [armed EXCEPT ![t] = FALSE]

\* -ETIMEDOUT rather than 0 (a pending signal makes it -EINTR).
Result(t) == IF timed_out[t] THEN "ETIMEDOUT" ELSE "0"

\* The end of sleep_timeout_checked, with the kernel lock taken again.
woken(t) ==
    /\ pc[t] = "woken" /\ ~Asleep(t) /\ kernel_lock = NoThread
    /\ Stop(t)
    /\ Return(t)
    /\ UNCHANGED <<word, waiting, arg, kernel_lock, firing, fired>>

-------------------------------------------------------------------------------
(* futex_wake *)

\* Those process_wakeup_n(key, n) takes: the first n of a's key.
FirstN(a, n) ==
    {t \in Sleepers : /\ SameKey(want[t][1], a)
                      /\ Cardinality({u \in waiting[t] : SameKey(want[u][1], a)}) <= n}

Wake(S) == waiting' = [t \in Thread |-> IF t \in S THEN {} ELSE waiting[t] \ S]

futex_wake(t) ==
    /\ pc[t] = "wake" /\ kernel_lock = NoThread
    /\ Wake(FirstN(arg[t][1], arg[t][2]))
    /\ Goto(t, "user")
    /\ arg' = [arg EXCEPT ![t] = NoArg]
    /\ UNCHANGED <<word, want, kernel_lock, timers>>

\* process_interrupt, for a signal.
process_interrupt(t) ==
    /\ Asleep(t)
    /\ Wake({t})
    /\ UNCHANGED <<word, want, pc, arg, kernel_lock, timers>>

\* process_exit: the word at clear_child_tid, which clone or set_tid_address
\* has set to any address, is cleared ...
process_exit(t) ==
    /\ pc[t] = "user" /\ kernel_lock = NoThread
    /\ kernel_lock' = t
    /\ \E clear_child_tid \in Addr :
          /\ word' = [word EXCEPT ![clear_child_tid] = 0]
          /\ arg' = [arg EXCEPT ![t] = <<clear_child_tid, 1>>]
    /\ Goto(t, "exit")
    /\ UNCHANGED <<want, waiting, timers>>

\* ... and one waiter woken before the kernel lock is dropped for good.
exit_wake(t) ==
    /\ pc[t] = "exit"
    /\ Wake(FirstN(arg[t][1], arg[t][2]))
    /\ kernel_lock' = NoThread
    /\ Goto(t, "dead")
    /\ arg' = [arg EXCEPT ![t] = NoArg]
    /\ UNCHANGED <<word, want, timers>>

-------------------------------------------------------------------------------
(* The timer: sleep_timeout runs on the timer CPU without a lock *)

timer_dispatch(t) ==
    /\ armed[t] /\ firing = NoThread
    /\ armed' = [armed EXCEPT ![t] = FALSE]
    /\ firing' = t
    /\ UNCHANGED <<word, want, waiting, pc, arg, kernel_lock, timed, timed_out, fired, stale>>

\* timed_out is set ...
sleep_timeout ==
    /\ firing \in Thread /\ ~fired
    /\ timed_out' = [timed_out EXCEPT ![firing] = TRUE]
    /\ fired' = TRUE
    /\ UNCHANGED <<word, want, waiting, pc, arg, kernel_lock, timed, armed, firing, stale>>

\* ... and then the process woken, if it sleeps.
process_wake ==
    /\ fired
    /\ Wake({firing})
    /\ firing' = NoThread /\ fired' = FALSE
    /\ UNCHANGED <<word, want, pc, arg, kernel_lock, timed, timed_out, armed, stale>>

-------------------------------------------------------------------------------
Next ==
    \/ \E t \in Thread :
          \/ user_store(t) \/ user_wait(t) \/ futex_wait(t) \/ sleep(t) \/ woken(t)
          \/ futex_wake(t) \/ process_interrupt(t) \/ process_exit(t) \/ exit_wake(t)
          \/ timer_dispatch(t)
    \/ sleep_timeout \/ process_wake

Spec == Init /\ [][Next]_vars

-------------------------------------------------------------------------------
(* Properties *)

\* The variables hold what their declarations say.
TypeOK ==
    /\ word \in [Addr -> Value] /\ want \in [Thread -> Addr \X Value]
    /\ waiting \in [Thread -> SUBSET Thread]
    /\ pc \in [Thread -> {"user", "wait", "sleep", "woken", "wake", "exit", "dead"}]
    /\ arg \in [Thread -> Addr \X (Counts \cup {1})] /\ kernel_lock \in Thread \cup {NoThread}
    /\ timed \in [Thread -> BOOLEAN] /\ timed_out \in [Thread -> BOOLEAN]
    /\ armed \in [Thread -> BOOLEAN] /\ stale \in [Thread -> BOOLEAN]
    /\ firing \in Thread \cup {NoThread} /\ fired \in BOOLEAN

\* The tree orders its members by arrival: of two sleepers exactly one came
\* first, and who came before the first came before the second.
Queued ==
    \A t, u \in Sleepers : /\ u \in waiting[t] \/ t \in waiting[u]
                           /\ u \in waiting[t] => waiting[u] \subseteq waiting[t]
                           /\ u \in waiting[t] /\ t \in waiting[u] => t = u

\* A wait that was given no timeout does not report one, unless the handler
\* of an earlier wait was still under way when it began: callout_stop cannot
\* take that one back.
TimeoutIsOwn ==
    \A t \in Thread :
        pc[t] = "woken" /\ ~Asleep(t) /\ Result(t) = "ETIMEDOUT" => timed[t] \/ stale[t]

\* What holds of the waiters and their timers in every state.
FutexSound == TypeOK /\ Queued /\ TimeoutIsOwn

\* A thread that has compared the word counts as blocked, though it is not
\* in the tree yet; it holds the kernel lock.
Blocking(t) == IF pc[t] = "sleep" THEN Sleepers \cup {t} ELSE waiting[t]

\* Who blocks on t's address before t.
Queue == [t \in Thread |-> {u \in Blocking(t) : want[u][1] = want[t][1]}]

F == INSTANCE FutexSpec WITH queue <- Queue

\* Comparing under the kernel lock and sleeping later, with stores in between
\* and timers and signals at any time, is as good as doing both at once: no
\* wakeup that follows a store is lost, and the oldest waiters of just that
\* address are woken.  This needs keys without collision.
ImplementsFutex == F!Spec

\* Threads are interchangeable.
Symmetry == Permutations(Thread)

-------------------------------------------------------------------------------
(* The inductive invariant behind FutexSound and the refinement *)

\* Who sleeps is at the end of its wait, and before it are only sleepers.
TreeInv ==
    /\ \A t \in Thread : waiting[t] # {} => Asleep(t) /\ pc[t] = "woken"
    /\ \A t \in Thread : waiting[t] \subseteq Sleepers

\* The kernel lock is held on the way from the compare into the tree, and
\* from the clearing of the word to the wake at exit.
LockInv == \A t \in Thread : kernel_lock = t <=> pc[t] \in {"sleep", "exit"}

\* A timer is set for the wait under way; one that fires, or has fired, in a
\* wait is that wait's or was under way before.
TimerInv ==
    \A t \in Thread :
        /\ armed[t] => pc[t] \in {"sleep", "woken"} /\ timed[t]
        /\ (firing = t \/ timed_out[t]) /\ pc[t] \in {"sleep", "woken"} => timed[t] \/ stale[t]

FutexInv == TypeOK /\ Queued /\ TreeInv /\ LockInv /\ TimerInv /\ (fired => firing \in Thread)

===============================================================================

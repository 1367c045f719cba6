-------------------------------- MODULE Callout --------------------------------
(***************************************************************************)
(* The timer wheel of callout.c.  callout_tick runs on the CPU that takes  *)
(* the timer interrupt; it gives up callout_lock around every handler and  *)
(* to take the kernel and the net lock before the first handler that is    *)
(* not mpsafe.  On other CPUs the owners of callouts reset, stop and drain *)
(* them meanwhile, with or without those two locks, and a handler may set  *)
(* its own callout again.                                                  *)
(*                                                                         *)
(* Every stretch under callout_lock is one step.                           *)
(***************************************************************************)
EXTENDS Integers, Sequences, FiniteSets

CONSTANTS
    Callout,
    Mpsafe,      \* the callouts with mpsafe set
    Rearm,       \* the callouts whose handler calls callout_reset on them
    User,        \* the processes that reset, stop and drain callouts, each on a
                 \* CPU of its own and given by the callouts it owns
    Delays,      \* delays callout_reset is called with
    WHEEL_SIZE,
    MaxTicks,    \* bound on ticks
    Timer,       \* the CPU with the timer interrupt
    None

ASSUME CalloutAssumption ==
    /\ Mpsafe \subseteq Callout /\ Rearm \subseteq Callout
    /\ UNION User = Callout /\ \A u, v \in User : u # v => u \cap v = {}
    /\ Timer \notin User /\ None \notin Callout \cup User \cup {Timer}
    /\ WHEEL_SIZE \in Nat \ {0} /\ MaxTicks \in Nat /\ Delays \subseteq Nat

VARIABLES
    ticks,
    expires, pending,   \* of every callout
    wheel,              \* wheel[s]: the callouts in slot s, in order
    running,            \* running[] of the timer CPU
    big_locks,          \* owner of the kernel lock and the net lock
    tick_pc,            \* where callout_tick is
    pc, arg             \* what a process does, and with which callout

vars == <<ticks, expires, pending, wheel, running, big_locks, tick_pc, pc, arg>>

Init ==
    /\ ticks = 0
    /\ expires = [c \in Callout |-> 0] /\ pending = {}
    /\ wheel = [s \in 0 .. WHEEL_SIZE - 1 |-> <<>>]
    /\ running = None /\ big_locks = None /\ tick_pc = "idle"
    /\ pc = [u \in User |-> "idle"] /\ arg = [u \in User |-> None]

Goto(u, l) == pc' = [pc EXCEPT ![u] = l]

-------------------------------------------------------------------------------
(* The wheel *)

Slot(e) == e % WHEEL_SIZE

\* A list without its k-th element, and without c.
Without(s, k) == [i \in 1 .. Len(s) - 1 |-> IF i < k THEN s[i] ELSE s[i + 1]]
Removed(s, c) == Without(s, CHOOSE k \in 1 .. Len(s) : s[k] = c)

\* callout_unlink, where c is pending.
Unlinked(c) == [wheel EXCEPT ![Slot(expires[c])] = Removed(@, c)]

callout_reset(c, delay) ==
    LET e == ticks + (IF delay = 0 THEN 1 ELSE delay)
    IN  /\ expires' = [expires EXCEPT ![c] = e]
        /\ pending' = pending \cup {c}
        /\ wheel' = [(IF c \in pending THEN Unlinked(c) ELSE wheel)
                       EXCEPT ![Slot(e)] = Append(@, c)]

callout_stop(c) ==
    /\ pending' = pending \ {c}
    /\ wheel' = IF c \in pending THEN Unlinked(c) ELSE wheel
    /\ UNCHANGED expires

-------------------------------------------------------------------------------
(* callout_tick *)

tick_begin ==
    /\ tick_pc = "idle" /\ ticks < MaxTicks
    /\ ticks' = ticks + 1
    /\ tick_pc' = "scan"
    /\ UNCHANGED <<expires, pending, wheel, running, big_locks, pc, arg>>

IsDue(c) == expires[c] <= ticks

\* The first entry of the slot that is due.
IsFirstDue(i) ==
    LET s == wheel[Slot(ticks)]
    IN  i \in 1 .. Len(s) /\ IsDue(s[i]) /\ \A j \in 1 .. i - 1 : ~IsDue(s[j])

\* One search of the slot: on to the handler, or to the big locks first.
tick_scan ==
    /\ tick_pc = "scan"
    /\ \E i \in 1 .. Len(wheel[Slot(ticks)]) :
          LET due == wheel[Slot(ticks)][i]
          IN  /\ IsFirstDue(i)
              /\ \/ /\ due \notin Mpsafe /\ big_locks # Timer
                    /\ tick_pc' = "locks"
                    /\ UNCHANGED <<pending, wheel, running>>
                 \/ /\ due \in Mpsafe \/ big_locks = Timer
                    /\ pending' = pending \ {due}
                    /\ wheel' = Unlinked(due)
                    /\ running' = due
                    /\ tick_pc' = "func"
    /\ UNCHANGED <<ticks, expires, big_locks, pc, arg>>

\* kernel_lock_enter and net_lock_enter; the slot is searched anew.
tick_locks ==
    /\ tick_pc = "locks" /\ big_locks = None
    /\ big_locks' = Timer
    /\ tick_pc' = "scan"
    /\ UNCHANGED <<ticks, expires, pending, wheel, running, pc, arg>>

\* The handler: it may set its callout again.
func ==
    /\ tick_pc = "func"
    /\ \/ /\ running \in Rearm
          /\ \E d \in Delays : callout_reset(running, d)
       \/ UNCHANGED <<expires, pending, wheel>>
    /\ tick_pc' = "returned"
    /\ UNCHANGED <<ticks, running, big_locks, pc, arg>>

\* Faulty variant: the callout counts as running for ever.
func_running ==
    /\ tick_pc = "returned"
    /\ tick_pc' = "scan"
    /\ UNCHANGED <<ticks, expires, pending, wheel, running, big_locks, pc, arg>>

func_returned ==
    /\ tick_pc = "returned"
    /\ running' = None
    /\ tick_pc' = "scan"
    /\ UNCHANGED <<ticks, expires, pending, wheel, big_locks, pc, arg>>

\* Nothing is due any more.
tick_end ==
    /\ tick_pc = "scan"
    /\ \A i \in 1 .. Len(wheel[Slot(ticks)]) : ~IsDue(wheel[Slot(ticks)][i])
    /\ big_locks' = IF big_locks = Timer THEN None ELSE big_locks
    /\ tick_pc' = "idle"
    /\ UNCHANGED <<ticks, expires, pending, wheel, running, pc, arg>>

-------------------------------------------------------------------------------
(* The owners of callouts *)

lock(u) ==
    /\ pc[u] = "idle" /\ big_locks = None
    /\ big_locks' = u
    /\ UNCHANGED <<ticks, expires, pending, wheel, running, tick_pc, pc, arg>>

unlock(u) ==
    /\ pc[u] = "idle" /\ big_locks = u
    /\ big_locks' = None
    /\ UNCHANGED <<ticks, expires, pending, wheel, running, tick_pc, pc, arg>>

user_reset(u) ==
    /\ pc[u] = "idle"
    /\ \E c \in u, d \in Delays : callout_reset(c, d)
    /\ UNCHANGED <<ticks, running, big_locks, tick_pc, pc, arg>>

user_stop(u) ==
    /\ pc[u] = "idle"
    /\ \E c \in u : c \in pending /\ callout_stop(c)
    /\ UNCHANGED <<ticks, running, big_locks, tick_pc, pc, arg>>

user_drain(u) ==
    /\ pc[u] = "idle"
    /\ \E c \in u : arg' = [arg EXCEPT ![u] = c]
    /\ Goto(u, "drain")
    /\ UNCHANGED <<ticks, expires, pending, wheel, running, big_locks, tick_pc>>

\* The body of callout_drain's loop ...
drain_stop(u) ==
    /\ pc[u] = "drain"
    /\ callout_stop(arg[u])
    /\ Goto(u, "spin")
    /\ UNCHANGED <<ticks, running, big_locks, tick_pc, arg>>

\* Faulty variant: it does not wait for the handler.
drain_nospin(u) ==
    /\ pc[u] = "spin"
    /\ Goto(u, "again")
    /\ UNCHANGED <<ticks, expires, pending, wheel, running, big_locks, tick_pc, arg>>

\* ... which spins while the handler runs ...
drain_spin(u) ==
    /\ pc[u] = "spin" /\ running # arg[u]
    /\ Goto(u, "again")
    /\ UNCHANGED <<ticks, expires, pending, wheel, running, big_locks, tick_pc, arg>>

\* ... and its condition.
drain_again(u) ==
    /\ pc[u] = "again"
    /\ Goto(u, IF arg[u] \in pending THEN "drain" ELSE "drained")
    /\ UNCHANGED <<ticks, expires, pending, wheel, running, big_locks, tick_pc, arg>>

\* The caller goes on; it may free the callout.
drained(u) ==
    /\ pc[u] = "drained"
    /\ Goto(u, "idle")
    /\ arg' = [arg EXCEPT ![u] = None]
    /\ UNCHANGED <<ticks, expires, pending, wheel, running, big_locks, tick_pc>>

-------------------------------------------------------------------------------
Tick == tick_scan \/ tick_locks \/ func \/ func_returned \/ tick_end

Drain(u) == drain_stop(u) \/ drain_spin(u) \/ drain_again(u)

Next ==
    \/ tick_begin \/ Tick
    \/ \E u \in User : \/ lock(u) \/ unlock(u) \/ user_reset(u) \/ user_stop(u)
                       \/ user_drain(u) \/ Drain(u) \/ drained(u)

Spec == Init /\ [][Next]_vars

\* Timer interrupts come, callout_tick and callout_drain go on, and nobody
\* keeps the big locks for ever.  Who spins on them gets them when they are
\* free again and again: strong fairness.
Fairness ==
    /\ WF_vars(tick_begin) /\ SF_vars(Tick)
    /\ \A u \in User : WF_vars(Drain(u)) /\ WF_vars(drained(u)) /\ SF_vars(unlock(u))

FairSpec == Spec /\ Fairness

-------------------------------------------------------------------------------
(* Properties *)

\* The variables hold what their declarations say.
TypeOK ==
    /\ ticks \in 0 .. MaxTicks /\ expires \in [Callout -> Nat] /\ pending \subseteq Callout
    /\ wheel \in [0 .. WHEEL_SIZE - 1 -> Seq(Callout)]
    /\ running \in Callout \cup {None} /\ big_locks \in User \cup {Timer, None}
    /\ tick_pc \in {"idle", "scan", "locks", "func", "returned"}
    /\ pc \in [User -> {"idle", "drain", "spin", "again", "drained"}]
    /\ arg \in [User -> Callout \cup {None}]

\* A callout is on the wheel iff it is pending, once, in the slot where
\* callout_unlink looks for it.
OnWheel ==
    \A c \in Callout, s \in 0 .. WHEEL_SIZE - 1 :
        Cardinality({i \in 1 .. Len(wheel[s]) : wheel[s][i] = c})
            = IF c \in pending /\ s = Slot(expires[c]) THEN 1 ELSE 0

\* No callout is forgotten: between two ticks, everything that is pending
\* expires later.  What is due while callout_tick has given up its lock is
\* found by the same tick.
NoneOverdue == tick_pc = "idle" => \A c \in pending : expires[c] > ticks

\* No handler runs early: at a slot's turn, the callouts of later rounds of
\* the wheel stay.
OnTime == [][running' # running /\ running' # None => expires[running'] = ticks]_vars

\* callout_drain keeps its word: when it returns the callout is neither
\* pending nor running, so that its owner may free it.  For a callout that
\* sets itself again this needs the caller to hold the locks the handler
\* runs under: otherwise a handler that comes and goes between the spin and
\* the condition of the loop is missed.
DrainDone ==
    \A u \in User :
        /\ pc[u] = "drained"
        /\ arg[u] \in Rearm => arg[u] \notin Mpsafe /\ big_locks = u
        => arg[u] \notin pending /\ running # arg[u]

\* What holds of the wheel, of running handlers and of drains in every state
\* and step.
CalloutSound == [](TypeOK /\ OnWheel /\ NoneOverdue /\ DrainDone) /\ OnTime

\* Draining comes to an end: the caller may hold the big locks while the
\* timer CPU waits for them, or spin for a handler, but never both.
DrainEnds == \A u \in User : pc[u] = "drain" ~> pc[u] = "idle"

\* Every callout goes off, is stopped or is set anew.
PendingFires == \A c \in Callout : c \in pending /\ expires[c] <= MaxTicks
                                      ~> c \notin pending \/ expires[c] > MaxTicks

\* Nobody waits for ever: neither a drain nor a callout on the wheel.
CalloutLive == DrainEnds /\ PendingFires

-------------------------------------------------------------------------------
(* The inductive invariant behind CalloutSound *)

\* The slots hold the pending callouts, each once.
WheelInv ==
    \A s \in 0 .. WHEEL_SIZE - 1 :
        /\ \A i, j \in 1 .. Len(wheel[s]) : wheel[s][i] = wheel[s][j] => i = j
        /\ {wheel[s][i] : i \in 1 .. Len(wheel[s])} = {c \in pending : Slot(expires[c]) = s}

\* Nothing is overdue; within callout_tick what is due now may be left.
DueInv == \A c \in pending : expires[c] >= ticks /\ (tick_pc = "idle" => expires[c] > ticks)

\* A handler runs between its start and its return, and one that is not
\* mpsafe runs under the big locks.
RunInv ==
    /\ running # None <=> tick_pc \in {"func", "returned"}
    /\ running # None /\ running \notin Mpsafe => big_locks = Timer

\* Somebody who drains c, where c does not set itself again, or cannot run
\* because the drainer holds the big locks.
Kept(u) == arg[u] \in Rearm => arg[u] \notin Mpsafe /\ big_locks = u

\* The owner of a callout drains it; from the stop on it is not pending, and
\* from the spin on it does not run.
DrainInv ==
    \A u \in User :
        /\ pc[u] # "idle" => arg[u] \in u
        /\ pc[u] \in {"spin", "again", "drained"} /\ Kept(u) => arg[u] \notin pending
        /\ pc[u] \in {"again", "drained"} /\ Kept(u) => running # arg[u]

CalloutInv == TypeOK /\ WheelInv /\ DueInv /\ RunInv /\ DrainInv

===============================================================================

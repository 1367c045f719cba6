--------------------------------- MODULE Poll ---------------------------------
(***************************************************************************)
(* Waiting for readiness: the loop of poll_wait (sys_poll.c) that scans    *)
(* files without a lock against those that become ready, and the sequence  *)
(* number poll_wake_seq by which process_wakeup_poll (process.c) tells a   *)
(* poller that was not asleep yet.                                         *)
(*                                                                         *)
(* A set of bits stands for the 64-bit masks poll_interest and interest; a *)
(* socket has the bit sock_poll_bit() hashes it to, other files have none  *)
(* and wake with ~0.  epoll_scan narrows poll_interest to the bits of the  *)
(* sockets watched, so an epoll that watches no socket has interest 0 and  *)
(* is woken by nobody: it lives on the recheck timer.                      *)
(***************************************************************************)
EXTENDS Integers, FiniteSets

CONSTANTS
    Poller,      \* processes in poll_wait
    Epoll,       \* the pollers whose scan is epoll_scan
    File,        \* files that can become ready
    Socket,      \* the files that are sockets
    AllBits,     \* ~0ULL: each bit is given by the sockets that hash to it
    PollSets,    \* the sets of files that may be polled ...
    EpollSets,   \* ... and watched by an epoll
    MaxSeq       \* bound on poll_wake_seq

ASSUME PollAssumption ==
    /\ Epoll \subseteq Poller /\ Socket \subseteq File
    /\ AllBits # {} /\ UNION AllBits = Socket
    /\ PollSets \subseteq SUBSET File /\ EpollSets \subseteq SUBSET File
    /\ IsFiniteSet(File) /\ MaxSeq \in Nat

VARIABLES
    watch,           \* watch[p]: the files p polls
    ready,           \* ready[f]: fops->poll reports an event
    poll_wake_seq,
    pc,              \* where the poller is in poll_wait
    seq, todo, count, acc,   \* its locals: seq, files to scan, events, interest
    poll_interest,   \* of its process_t
    state,           \* of its process_t
    armed,           \* armed[p]: the callout on its stack is pending
    firing,          \* the processes sleep_timeout has been called for
    notify,          \* notify[f]: how far the wakeup after f became ready is
    early            \* can a delay run out between callout_reset and the sleep?

timers == <<armed, firing>>
inputs == <<watch, early>>
locals == <<seq, todo, count, acc>>
vars == <<ready, poll_wake_seq, pc, locals, poll_interest, state, timers, notify, inputs>>

Init ==
    /\ watch \in [Poller -> PollSets \cup EpollSets]
    /\ \A p \in Poller : watch[p] \in IF p \in Epoll THEN EpollSets ELSE PollSets
    /\ ready = [f \in File |-> FALSE] /\ poll_wake_seq = 0
    /\ pc = [p \in Poller |-> "idle"]
    /\ seq = [p \in Poller |-> 0] /\ todo = [p \in Poller |-> {}]
    /\ count = [p \in Poller |-> 0] /\ acc = [p \in Poller |-> {}]
    /\ poll_interest = [p \in Poller |-> {}]
    /\ state = [p \in Poller |-> "RUNNING"]
    /\ armed = [p \in Poller |-> FALSE] /\ firing = {}
    /\ notify = [f \in File |-> "none"]
    /\ early \in BOOLEAN

Goto(p, l) == pc' = [pc EXCEPT ![p] = l]

\* sock_poll_bit: the mask of a socket.
Bit(f) == {b \in AllBits : f \in b}

\* The mask the owner of f wakes pollers with.
Interest(f) == IF f \in Socket THEN Bit(f) ELSE AllBits

-------------------------------------------------------------------------------
(* The poller *)

\* The sequence number is read before the files are.
ReadSeq(p) == seq' = [seq EXCEPT ![p] = poll_wake_seq]

\* A new call, or another round of the loop.
poll_wait(p) ==
    /\ pc[p] \in {"idle", "again"}
    /\ ReadSeq(p)
    /\ poll_interest' = [poll_interest EXCEPT ![p] = AllBits]
    /\ todo' = [todo EXCEPT ![p] = watch[p]]
    /\ Goto(p, "scan")
    /\ UNCHANGED <<ready, poll_wake_seq, count, acc, state, timers, notify, inputs>>

\* One file of the scan: poll_one, or the body of epoll_collect_locked.
scan_file(p) ==
    /\ pc[p] = "scan"
    /\ \E f \in todo[p] :
          /\ todo' = [todo EXCEPT ![p] = @ \ {f}]
          /\ count' = [count EXCEPT ![p] = IF ready[f] THEN @ + 1 ELSE @]
          /\ acc' = [acc EXCEPT ![p] = IF f \in Socket THEN @ \cup Bit(f) ELSE @]
    /\ UNCHANGED <<ready, poll_wake_seq, pc, seq, poll_interest, state, timers, notify, inputs>>

\* Faulty variant: the sleep is not bounded.
ArmNot(p) == armed' = armed

\* callout_reset with POLL_RECHECK_MS, or the rest of the timeout.
Arm(p) == armed' = [armed EXCEPT ![p] = TRUE]

\* The end of the scan: return the events, or 0 when the time is up, or arm
\* the recheck timer on the way to sleep.
scan_end(p) ==
    /\ pc[p] = "scan" /\ todo[p] = {}
    /\ poll_interest' = IF p \in Epoll THEN [poll_interest EXCEPT ![p] = acc[p]] ELSE poll_interest
    /\ \/ /\ count[p] > 0
          /\ Goto(p, "events")
          /\ UNCHANGED armed
       \/ /\ count[p] = 0
          /\ Goto(p, "expired")
          /\ UNCHANGED armed
       \/ /\ count[p] = 0
          /\ Goto(p, "sleep")
          /\ Arm(p)
    /\ count' = [count EXCEPT ![p] = 0] /\ acc' = [acc EXCEPT ![p] = {}]
    /\ UNCHANGED <<ready, poll_wake_seq, seq, todo, state, firing, notify, inputs>>

\* Faulty variant: a change of the sequence number is not looked for.
sleep_blindly(p) ==
    /\ pc[p] = "sleep"
    /\ state' = [state EXCEPT ![p] = "SLEEPING"]
    /\ Goto(p, "woken")
    /\ UNCHANGED <<ready, poll_wake_seq, locals, poll_interest, timers, notify, inputs>>

\* sleep_interruptible under sched_lock: sleep unless the number has moved,
\* and forget the number.
process_sleep_poll(p) ==
    /\ pc[p] = "sleep"
    /\ seq' = [seq EXCEPT ![p] = 0]
    /\ state' = [state EXCEPT ![p] = IF seq[p] = poll_wake_seq THEN "SLEEPING" ELSE @]
    /\ Goto(p, "woken")
    /\ UNCHANGED <<ready, poll_wake_seq, todo, count, acc, poll_interest, timers, notify, inputs>>

\* A signal that is not blocked: it ends the sleep, or prevents it, and it is
\* looked for once more when the process runs again.
process_interrupt(p) ==
    /\ pc[p] \in {"sleep", "woken"}
    /\ state' = [state EXCEPT ![p] = "RUNNING"]
    /\ Goto(p, "eintr")
    /\ UNCHANGED <<ready, poll_wake_seq, locals, poll_interest, timers, notify, inputs>>

\* Running again: callout_stop, which leaves a handler that has begun alone.
\* Then another round, or -EINTR; poll_interest, which is read of sleepers
\* only, is forgotten.
poll_woken(p) ==
    /\ pc[p] \in {"woken", "eintr"} /\ state[p] = "RUNNING"
    /\ armed' = [armed EXCEPT ![p] = FALSE]
    /\ Goto(p, IF pc[p] = "woken" THEN "again" ELSE "expired")
    /\ poll_interest' = [poll_interest EXCEPT ![p] = {}]
    /\ UNCHANGED <<ready, poll_wake_seq, locals, state, firing, notify, inputs>>

\* The caller uses what poll returned, or goes on after 0 or -EINTR.
poll_done(p) ==
    /\ pc[p] \in {"events", "expired"}
    /\ Goto(p, "idle")
    /\ \E used \in SUBSET watch[p] :
          ready' = [f \in File |-> ready[f] /\ ~(pc[p] = "events" /\ f \in used)]
    /\ UNCHANGED <<poll_wake_seq, locals, poll_interest, state, timers, notify, inputs>>

\* callout_tick takes the callout off the wheel and calls sleep_timeout,
\* which wakes the process whatever it does by then.  Timer interrupts come
\* to one CPU: one handler runs at a time.
timer_dispatch(p) ==
    /\ armed[p] /\ firing = {} /\ (early \/ pc[p] # "sleep")
    /\ armed' = [armed EXCEPT ![p] = FALSE]
    /\ firing' = {p}
    /\ UNCHANGED <<ready, poll_wake_seq, pc, locals, poll_interest, state, notify, inputs>>

sleep_timeout(p) ==
    /\ p \in firing
    /\ firing' = firing \ {p}
    /\ state' = [state EXCEPT ![p] = "RUNNING"]
    /\ UNCHANGED <<ready, poll_wake_seq, pc, locals, poll_interest, armed, notify, inputs>>

-------------------------------------------------------------------------------
(* The files *)

\* A file becomes ready and its owner calls process_wakeup_poll.
file_event(f) ==
    /\ notify[f] = "none" /\ ~ready[f]
    /\ poll_wake_seq + Cardinality({g \in File : notify[g] = "count"}) < MaxSeq
    /\ ready' = [ready EXCEPT ![f] = TRUE]
    /\ notify' = [notify EXCEPT ![f] = "count"]
    /\ UNCHANGED <<poll_wake_seq, pc, locals, poll_interest, state, timers, inputs>>

\* The number is moved before sched_lock is taken.
wakeup_poll_seq(f) ==
    /\ notify[f] = "count"
    /\ poll_wake_seq' = poll_wake_seq + 1
    /\ notify' = [notify EXCEPT ![f] = "wake"]
    /\ UNCHANGED <<ready, pc, locals, poll_interest, state, timers, inputs>>

\* Under sched_lock: wake the sleepers on WAIT_CHANNEL_POLL it concerns.
process_wakeup_poll(f) ==
    /\ notify[f] = "wake"
    /\ state' = [p \in Poller |-> IF poll_interest[p] \cap Interest(f) # {} THEN "RUNNING" ELSE state[p]]
    /\ notify' = [notify EXCEPT ![f] = "none"]
    /\ UNCHANGED <<ready, poll_wake_seq, pc, locals, poll_interest, timers, inputs>>

-------------------------------------------------------------------------------
Step(p) == poll_wait(p) \/ scan_file(p) \/ scan_end(p) \/ process_sleep_poll(p) \/ poll_woken(p)

Next ==
    \/ \E p \in Poller : Step(p) \/ poll_done(p) \/ process_interrupt(p) \/ timer_dispatch(p) \/ sleep_timeout(p)
    \/ \E f \in File : file_event(f) \/ wakeup_poll_seq(f) \/ process_wakeup_poll(f)

Spec == Init /\ [][Next]_vars

\* Processes run, and the timer interrupt goes on: callout_tick comes to every
\* callout that stays on the wheel (strong fairness, for one that is set again
\* and again by quick rounds of the loop is due at some of them).
Fairness ==
    /\ \A f \in File : WF_vars(wakeup_poll_seq(f)) /\ WF_vars(process_wakeup_poll(f))
    /\ \A p \in Poller : WF_vars(Step(p)) /\ SF_vars(timer_dispatch(p))
                         /\ WF_vars(sleep_timeout(p))

FairSpec == Spec /\ Fairness

-------------------------------------------------------------------------------
(* Properties *)

\* The variables hold what their declarations say.
TypeOK ==
    /\ ready \in [File -> BOOLEAN] /\ poll_wake_seq \in 0 .. MaxSeq
    /\ pc \in [Poller -> {"idle", "scan", "sleep", "woken", "eintr", "again", "events", "expired"}]
    /\ seq \in [Poller -> 0 .. MaxSeq] /\ todo \in [Poller -> SUBSET File]
    /\ count \in [Poller -> Nat] /\ acc \in [Poller -> SUBSET AllBits]
    /\ poll_interest \in [Poller -> SUBSET AllBits]
    /\ state \in [Poller -> {"RUNNING", "SLEEPING"}]
    /\ armed \in [Poller -> BOOLEAN] /\ firing \subseteq Poller
    /\ notify \in [File -> {"none", "count", "wake"}] /\ early \in BOOLEAN

\* A wakeup for any of its files concerns the poller: all but the epolls
\* without a socket, whose interest is 0.
Concerned(p) == p \in Epoll => watch[p] \cap Socket # {}

\* No lost wakeup: a poller does not sleep on while a file it watches is
\* ready and the wakeup for it is over, although it scanned the files without
\* any lock, and an epoll narrowed its interest to the bits of its sockets.
NoLostEvent ==
    \A p \in Poller : \A f \in watch[p] :
        state[p] = "SLEEPING" /\ Concerned(p) /\ ready[f] => notify[f] # "none"

\* A sleeping poller's recheck timer is set or going off, whatever stale
\* timers did before.  This needs ~early: sleep_interruptible does not look at
\* timed_out, so a timer that goes off before the sleep is lost.
SleepIsTimed ==
    ~early => \A p \in Poller : state[p] = "SLEEPING" => armed[p] \/ p \in firing

\* What holds of the pollers in every state.
PollSound == TypeOK /\ NoLostEvent /\ SleepIsTimed

SomeReady(p) == \E f \in watch[p] : ready[f]

\* A poller returns once a file it watches is ready, even if the recheck timer
\* is lost; an epoll whose interest is 0 only if no timer is lost.
EventSeen ==
    \A p \in Poller :
        /\ SomeReady(p) /\ pc[p] # "idle"
        /\ Concerned(p) \/ ~early
        ~> pc[p] \in {"events", "expired"} \/ ~SomeReady(p)

-------------------------------------------------------------------------------
(* The inductive invariant behind PollSound *)

\* Events that became ready since the number last moved are still to be counted.
Counting == {f \in File : notify[f] = "count"}

SeqInv ==
    /\ watch \in [Poller -> SUBSET File]
    /\ poll_wake_seq + Cardinality(Counting) <= MaxSeq
    /\ \A p \in Poller : seq[p] <= poll_wake_seq

\* A file scanned and not found ready became ready since, if at all, and while
\* the number has not moved that event has yet to move it.
ScanInv ==
    /\ \A p \in Poller : \A f \in watch[p] :
          /\ \/ pc[p] = "scan" /\ count[p] = 0 /\ f \notin todo[p]
             \/ pc[p] = "sleep"
          /\ seq[p] = poll_wake_seq /\ ready[f]
          => notify[f] = "count"
    /\ \A p \in Poller : \A f \in watch[p] \cap Socket :
          pc[p] = "scan" /\ f \notin todo[p] => Bit(f) \subseteq acc[p]

\* Whoever sleeps, or is about to, is within reach of every event it is
\* concerned with, and its timer is set.
SleepInv ==
    \A p \in Poller :
        /\ state[p] = "SLEEPING" => pc[p] = "woken"
        /\ pc[p] = "scan" => poll_interest[p] = AllBits
        /\ pc[p] \in {"sleep", "woken"} /\ Concerned(p)
              => \A f \in watch[p] : poll_interest[p] \cap Interest(f) # {}
        /\ pc[p] = "sleep" /\ ~early => armed[p]

PollInv == PollSound /\ SeqInv /\ ScanInv /\ SleepInv

===============================================================================

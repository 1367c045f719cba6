-------------------------------- MODULE Signals --------------------------------
(***************************************************************************)
(* signal.c for the threads of one thread group: posting, the calls that   *)
(* change a mask or sleep for a signal, delivery on the way back to user   *)
(* mode, and the end of the group.                                         *)
(*                                                                         *)
(* Every poster holds the kernel lock, and so do delivery and all calls    *)
(* but rt_sigprocmask, epoll_pwait, nanosleep (runs_unlocked) and those on *)
(* a socket (socket_rw_fast, socket_call_fast).  signal_post writes        *)
(* sig_pending and reads sig_blocked with nothing between the two that     *)
(* keeps the compiler or the store buffer from swapping them: both orders  *)
(* are behaviours of the model.                                            *)
(***************************************************************************)
EXTENDS Naturals, Sequences, FiniteSets, FiniteSetsExt

CONSTANTS
    Thread,
    Sigs, SIGKILL,       \* signal numbers; delivery takes the lowest first
    Unblockable,         \* SIGKILL and SIGSTOP
    DefaultIgnored,      \* SIGCHLD and its like
    Actions,             \* what user code passes to rt_sigaction
    Masks,               \* what it passes as a mask or as a set to wait for
    Calls,               \* Calls[t]: the calls the program of t makes
    Irq,                 \* the poster that is no thread: a tty, an alarm
    MaxPosts             \* bound: signals posted in a run

\* struct k_sigaction: the handler, sa_mask and sa_flags.
Action == [h : {"dfl", "ign", "fn"}, mask : SUBSET Sigs, restart : BOOLEAN,
           nodefer : BOOLEAN, reset : BOOLEAN]

ASSUME SignalsAssumption ==
    /\ Sigs \subseteq Nat /\ SIGKILL \in Unblockable /\ Unblockable \subseteq Sigs
    /\ Irq \notin Thread /\ MaxPosts \in Nat /\ Masks \subseteq SUBSET Sigs
    /\ Actions \subseteq Action

VARIABLES
    pending, blocked, waiting,   \* sig_pending, sig_blocked, sig_waiting
    saved, restore,              \* sig_saved_blocked, sig_restore_mask
    action,                      \* sig_actions: each thread has its own
    group_exit,
    pc,
    call,                        \* the sleeping call: operation, set, old mask
    timed_out,
    context,                     \* rax, and the call rip is back at, if any
    frames,                      \* the signal frames on the user stack
    base,                        \* the mask user code has asked for
    overtaken,                   \* ghost: signals written to sig_pending of a sleeper
                                 \* that will not be interrupted for them
    post,                        \* the signal_post under way
    posts

masks == <<pending, blocked, waiting, saved, restore>>
flow == <<pc, call, timed_out, context, frames>>
outside == <<base, overtaken, post, posts>>
vars == <<masks, action, group_exit, flow, outside>>

Dfl == [h |-> "dfl", mask |-> {}, restart |-> FALSE, nodefer |-> FALSE, reset |-> FALSE]
NoCall == [op |-> "none", set |-> {}, old |-> {}, timed |-> FALSE]
Done(r) == [rax |-> r, again |-> "no"]
Restarts(op) == [rax |-> "erestart", again |-> op]
NoPost == [by |-> Irq, to |-> Irq, sig |-> 0, wrote |-> FALSE, seen |-> "?"]

Init ==
    /\ pending = [t \in Thread |-> {}] /\ waiting = [t \in Thread |-> {}]
    /\ blocked = [t \in Thread |-> {}]
    /\ saved = [t \in Thread |-> {}] /\ restore = [t \in Thread |-> FALSE]
    /\ action = [t \in Thread |-> [s \in Sigs |-> Dfl]]
    /\ group_exit = [t \in Thread |-> FALSE]
    /\ pc = [t \in Thread |-> "user"] /\ call = [t \in Thread |-> NoCall]
    /\ timed_out = [t \in Thread |-> FALSE]
    /\ context = [t \in Thread |-> Done("ok")] /\ frames = [t \in Thread |-> <<>>]
    /\ base = blocked /\ overtaken = [t \in Thread |-> {}]
    /\ post = NoPost /\ posts = 0

Goto(t, l) == pc' = [pc EXCEPT ![t] = l]
LockFree == post = NoPost
\* A call returns, on its way to deliver_syscall_signals.
ReturnWith(t, c) == Goto(t, "check") /\ context' = [context EXCEPT ![t] = c]
Return(t, r) == ReturnWith(t, Done(r))
\* User code, about to make the call c rather than to restart one.
User(t, c) == pc[t] = "user" /\ context[t].again = "no" /\ c \in Calls[t]
Again(t, op) == pc[t] = "user" /\ context[t].again = op

signal_ignored(t, s) ==
    \/ action[t][s].h = "ign"
    \/ action[t][s].h = "dfl" /\ s \in DefaultIgnored

-------------------------------------------------------------------------------
(* Posting *)

\* process_interrupt: a sleeper in an interruptible sleep is made ready.
Interrupted(U) == [t \in Thread |-> IF t \in U /\ pc[t] = "sleep" THEN "woken" ELSE pc[t]]

\* signal_post up to its first access to the target's masks.
Posting(by, u, s) ==
    /\ LockFree /\ posts < MaxPosts /\ pc[u] # "dead" /\ ~signal_ignored(u, s)
    /\ post' = [NoPost EXCEPT !.by = by, !.to = u, !.sig = s]
    /\ posts' = posts + 1

signal_send(u, s) ==
    /\ Posting(Irq, u, s)
    /\ UNCHANGED <<masks, action, group_exit, flow, base, overtaken>>

\* kill and tgkill; their errors and ignored signals change nothing.
sys_kill(t, u, s) ==
    /\ User(t, "kill") /\ Posting(t, u, s)
    /\ Goto(t, "kill")
    /\ context' = [context EXCEPT ![t] = Done("ok")]
    /\ UNCHANGED <<masks, action, group_exit, call, timed_out, frames, base, overtaken>>

Seen(u, s) == s \notin blocked[u] \/ s \in waiting[u]

\* The mask was read too early: its signal was blocked then, but the target
\* has unblocked it since and gone to sleep.
Overtaken(u) == post.seen = "no" /\ pc[u] = "sleep" /\ Seen(u, post.sig)

post_pending ==
    /\ post.to \in Thread /\ ~post.wrote
    /\ pending' = [pending EXCEPT ![post.to] = @ \cup {post.sig}]
    /\ overtaken' = IF Overtaken(post.to)
                    THEN [overtaken EXCEPT ![post.to] = @ \cup {post.sig}] ELSE overtaken
    /\ post' = [post EXCEPT !.wrote = TRUE]
    /\ UNCHANGED <<blocked, waiting, saved, restore, action, group_exit, flow, base, posts>>

post_test ==
    /\ post.to \in Thread /\ post.seen = "?"
    /\ post' = [post EXCEPT !.seen = IF Seen(post.to, post.sig) THEN "yes" ELSE "no"]
    /\ UNCHANGED <<masks, action, group_exit, flow, base, posts, overtaken>>

post_interrupt ==
    /\ post.wrote /\ post.seen # "?"
    /\ LET ready == Interrupted(IF post.seen = "yes" THEN {post.to} ELSE {})
       IN  pc' = IF post.by = Irq THEN ready ELSE [ready EXCEPT ![post.by] = "check"]
    /\ post' = NoPost
    /\ UNCHANGED <<masks, action, group_exit, call, timed_out, context, frames, base, posts, overtaken>>

\* An exception in user mode is posted to its thread, unless the program
\* does not handle it (the thread group ends, as sys_exit_group).
signal_fault(t, s) ==
    /\ User(t, "fault") /\ LockFree /\ posts < MaxPosts
    /\ action[t][s].h = "fn" /\ s \notin blocked[t]
    /\ pending' = [pending EXCEPT ![t] = @ \cup {s}]
    /\ posts' = posts + 1
    /\ Goto(t, "deliver")
    /\ UNCHANGED <<blocked, waiting, saved, restore, action, group_exit, call, timed_out,
                   context, frames, base, post, overtaken>>

-------------------------------------------------------------------------------
(* The end of a thread group *)

Others(t) == {u \in Thread \ {t} : pc[u] # "dead"}

\* The caller is gone; P is what it leaves pending in its own thread.
Gone(t, P) ==
    /\ pc' = [Interrupted(Others(t)) EXCEPT ![t] = "dead"]
    /\ pending' = [u \in Thread |-> CASE u = t -> P
                                      [] pc[u] = "dead" -> pending[u]
                                      [] OTHER -> pending[u] \cup {SIGKILL}]
    /\ group_exit' = [u \in Thread |-> group_exit[u] \/ u = t \/ pc[u] # "dead"]
    /\ UNCHANGED <<blocked, waiting, saved, restore, action, call, timed_out, context,
                   frames, outside>>

process_exit_group(t) == User(t, "exit_group") /\ LockFree /\ Gone(t, pending[t])

\* exit: this thread only.
process_exit(t) ==
    /\ User(t, "exit") /\ LockFree /\ Goto(t, "dead")
    /\ UNCHANGED <<masks, action, group_exit, call, timed_out, context, frames, outside>>

-------------------------------------------------------------------------------
(* Actions and masks *)

sys_rt_sigaction(t) ==
    /\ User(t, "sigaction") /\ LockFree
    /\ \E s \in Sigs \ Unblockable, a \in Actions :
          /\ action' = [action EXCEPT ![t][s] = [a EXCEPT !.mask = @ \ Unblockable]]
          /\ pending' = IF signal_ignored(t, s)'
                        THEN [pending EXCEPT ![t] = @ \ {s}] ELSE pending
    /\ Return(t, "ok")
    /\ UNCHANGED <<blocked, waiting, saved, restore, group_exit, call, timed_out,
                   frames, outside>>

\* rt_sigprocmask, which runs unlocked: the mask is set, ...
sys_rt_sigprocmask(t) ==
    /\ User(t, "sigprocmask")
    /\ \E s \in Masks :
          blocked' \in {[blocked EXCEPT ![t] = @ \cup s], [blocked EXCEPT ![t] = @ \ s],
                        [blocked EXCEPT ![t] = s]}
    /\ Goto(t, "mask")
    /\ UNCHANGED <<pending, waiting, saved, restore, action, group_exit, call, timed_out,
                   context, frames, outside>>

Blockable(m) == m \ Unblockable

\* ... and then the signals nobody may block are taken out of it.
sigprocmask_strip(t) ==
    /\ pc[t] = "mask"
    /\ blocked' = [blocked EXCEPT ![t] = Blockable(@)]
    /\ base' = IF frames[t] = <<>> THEN [base EXCEPT ![t] = blocked'[t]] ELSE base
    /\ Return(t, "ok")
    /\ UNCHANGED <<pending, waiting, saved, restore, action, group_exit, call, timed_out,
                   frames, post, posts, overtaken>>

\* The top frame is popped.
sys_rt_sigreturn(t) ==
    /\ User(t, "sigaction") /\ LockFree /\ frames[t] # <<>>
    /\ LET f == frames[t][Len(frames[t])]
       IN  /\ blocked' = [blocked EXCEPT ![t] = Blockable(f.mask)]
           /\ context' = [context EXCEPT ![t] = f.context]
    /\ frames' = [frames EXCEPT ![t] = SubSeq(@, 1, Len(@) - 1)]
    /\ Goto(t, "check")
    /\ UNCHANGED <<pending, waiting, saved, restore, action, group_exit, call, timed_out,
                   outside>>

\* execve: handlers are gone, and with them the stack their frames were on.
process_exec(t) ==
    /\ User(t, "execve") /\ LockFree
    /\ action' = [action EXCEPT ![t] =
                    [s \in Sigs |-> IF @[s].h = "ign" THEN @[s] ELSE Dfl]]
    /\ frames' = [frames EXCEPT ![t] = <<>>] /\ base' = [base EXCEPT ![t] = blocked[t]]
    /\ Return(t, "ok")
    /\ UNCHANGED <<masks, group_exit, call, timed_out, post, posts, overtaken>>

-------------------------------------------------------------------------------
(* Calls that sleep *)

signal_wakes(t) == pending[t] \cap ((Sigs \ blocked[t]) \cup waiting[t]) # {}

\* A call under the mask B begins to sleep, or returns with c because a
\* signal is there already.
SleepOr(t, c, B) ==
    IF pending[t] \subseteq B THEN Goto(t, "sleep") /\ UNCHANGED context ELSE ReturnWith(t, c)

sys_pause(t) ==
    /\ User(t, "pause") /\ LockFree
    /\ call' = [call EXCEPT ![t] = [NoCall EXCEPT !.op = "pause"]]
    /\ SleepOr(t, Done("eintr"), blocked[t])
    /\ UNCHANGED <<masks, action, group_exit, timed_out, frames, outside>>

sys_rt_sigsuspend(t) ==
    /\ User(t, "sigsuspend") /\ LockFree
    /\ saved' = [saved EXCEPT ![t] = blocked[t]]
    /\ restore' = [restore EXCEPT ![t] = TRUE]
    /\ \E m \in Masks :
          /\ blocked' = [blocked EXCEPT ![t] = m \ Unblockable]
          /\ SleepOr(t, Done("eintr"), m \ Unblockable)
    /\ call' = [call EXCEPT ![t] = [NoCall EXCEPT !.op = "pause"]]
    /\ UNCHANGED <<pending, waiting, action, group_exit, timed_out, frames, outside>>

\* A call with something to wait for that can be restarted (wait4, a tty,
\* an eventfd, inotify): the program's own call, or again after a signal.
sys_read(t) ==
    /\ User(t, "read") \/ Again(t, "read")
    /\ LockFree
    /\ call' = [call EXCEPT ![t] = [NoCall EXCEPT !.op = "read"]]
    /\ SleepOr(t, Restarts("read"), blocked[t])
    /\ UNCHANGED <<masks, action, group_exit, timed_out, frames, outside>>

\* A call on a socket, and nanosleep, which sleeps like a call with a timeout
\* that no event ends: without the kernel lock.  Only a call without a timeout
\* is restarted (sockbuf_timedwait).
RecvInterrupted(b) == IF b THEN Done("eintr") ELSE Restarts("recv")

sys_recv(t) ==
    /\ \E b \in BOOLEAN :
          /\ User(t, "recv") \/ (~b /\ Again(t, "recv"))
          /\ call' = [call EXCEPT ![t] = [NoCall EXCEPT !.op = "recv", !.timed = b]]
          /\ SleepOr(t, RecvInterrupted(b), blocked[t])
    /\ UNCHANGED <<masks, action, group_exit, timed_out, frames, outside>>

NotWaiting(t) == {}

\* One turn of the loop of rt_sigtimedwait with the set W.
TakeOrWait(t, W) ==
    IF pending[t] \cap W # {}
    THEN /\ pending' = [pending EXCEPT ![t] = @ \ {Min(pending[t] \cap W)}]
         /\ waiting' = [waiting EXCEPT ![t] = NotWaiting(t)]
         /\ Return(t, "ok")
    ELSE IF pending[t] \ blocked[t] # {}
    THEN /\ waiting' = [waiting EXCEPT ![t] = NotWaiting(t)]
         /\ Return(t, "eintr") /\ UNCHANGED pending
    ELSE /\ waiting' = [waiting EXCEPT ![t] = W]
         /\ Goto(t, "sleep") /\ UNCHANGED <<pending, context>>

sys_rt_sigtimedwait(t) ==
    /\ User(t, "sigtimedwait") /\ LockFree
    /\ \E m \in Masks, b \in BOOLEAN :
          /\ call' = [call EXCEPT ![t] =
                        [NoCall EXCEPT !.op = "timedwait", !.set = m \ Unblockable, !.timed = b]]
          /\ TakeOrWait(t, m \ Unblockable)
    /\ timed_out' = [timed_out EXCEPT ![t] = FALSE]
    /\ UNCHANGED <<blocked, saved, restore, action, group_exit, frames, outside>>

\* A timeout of 0 only looks.
sigtimedwait_poll(t) ==
    /\ User(t, "sigtimedwait") /\ LockFree
    /\ \E m \in Masks :
          LET R == (m \ Unblockable) \cap pending[t]
          IN  pending' = [pending EXCEPT ![t] = IF R = {} THEN @ ELSE @ \ {Min(R)}]
    /\ Return(t, "ok")
    /\ UNCHANGED <<blocked, waiting, saved, restore, action, group_exit, call, timed_out,
                   frames, outside>>

\* Faulty variant: a poll without a timeout sleeps without a timer.
NoRecheck == FALSE

\* poll_wait sleeps at most POLL_RECHECK_MS at a time.
Recheck == TRUE

\* epoll_pwait, which runs unlocked: the mask of the call is put in place, ...
sys_epoll_pwait(t) ==
    /\ User(t, "epoll_pwait")
    /\ call' = [call EXCEPT ![t] = [NoCall EXCEPT !.op = "epoll", !.old = blocked[t], !.timed = Recheck]]
    /\ \E m \in Masks : blocked' = [blocked EXCEPT ![t] = m \ Unblockable]
    /\ Goto(t, "scan")
    /\ UNCHANGED <<pending, waiting, saved, restore, action, group_exit, timed_out, context,
                   frames, outside>>

\* poll_wait_sigmask once poll_wait is through: after -EINTR delivery will
\* restore the mask, after anything else it is put back here.
PutBack(t) == blocked' = [blocked EXCEPT ![t] = call[t].old]

EpollDone(t) == PutBack(t) /\ Return(t, "ok") /\ UNCHANGED <<saved, restore>>

EpollInterrupted(t) ==
    /\ saved' = [saved EXCEPT ![t] = call[t].old] /\ restore' = [restore EXCEPT ![t] = TRUE]
    /\ Return(t, "eintr") /\ UNCHANGED blocked

\* ... and poll_wait finds something or sleeps, unless a signal is there.
epoll_scan(t) ==
    /\ pc[t] = "scan"
    /\ \/ EpollDone(t)
       \/ signal_wakes(t) /\ EpollInterrupted(t)
       \/ ~signal_wakes(t) /\ Goto(t, "sleep") /\ UNCHANGED <<blocked, saved, restore, context>>
    /\ timed_out' = [timed_out EXCEPT ![t] = FALSE]
    /\ UNCHANGED <<pending, waiting, action, group_exit, call, frames, outside>>

\* The callout of the sleep; that it never goes off before the sleep is
\* assumed here and the subject of module Poll.
sleep_timeout(t) ==
    /\ pc[t] = "sleep" /\ call[t].timed
    /\ timed_out' = [timed_out EXCEPT ![t] = TRUE]
    /\ Goto(t, "woken")
    /\ UNCHANGED <<masks, action, group_exit, call, context, frames, outside>>

\* What the call waits for has happened.
event(t) ==
    /\ pc[t] = "sleep" /\ call[t].op \in {"read", "recv", "epoll"}
    /\ Goto(t, "woken")
    /\ UNCHANGED <<masks, action, group_exit, call, timed_out, context, frames, outside>>

\* sched_switch has returned to the sleeper; all but epoll_pwait and recv have
\* taken the kernel lock again before they look at the signals.
resume_pause(t) ==
    /\ pc[t] = "woken" /\ call[t].op = "pause" /\ LockFree
    /\ IF signal_wakes(t) THEN Return(t, "eintr") ELSE Goto(t, "sleep") /\ UNCHANGED context
    /\ UNCHANGED <<masks, action, group_exit, call, timed_out, frames, outside>>

resume_read(t) ==
    /\ pc[t] = "woken" /\ call[t].op = "read" /\ LockFree
    /\ IF signal_wakes(t) THEN ReturnWith(t, Restarts("read"))
       ELSE Return(t, "ok") \/ (Goto(t, "sleep") /\ UNCHANGED context)
    /\ UNCHANGED <<masks, action, group_exit, call, timed_out, frames, outside>>

resume_recv(t) ==
    /\ pc[t] = "woken" /\ call[t].op = "recv"
    /\ IF signal_wakes(t) THEN ReturnWith(t, RecvInterrupted(call[t].timed))
       ELSE Return(t, "ok") \/ (Goto(t, "sleep") /\ UNCHANGED context)
    /\ timed_out' = [timed_out EXCEPT ![t] = FALSE]
    /\ UNCHANGED <<masks, action, group_exit, call, frames, outside>>

resume_timedwait(t) ==
    /\ pc[t] = "woken" /\ call[t].op = "timedwait" /\ LockFree
    /\ IF timed_out[t] /\ ~signal_wakes(t)
       THEN /\ waiting' = [waiting EXCEPT ![t] = NotWaiting(t)]
            /\ Return(t, "ok") /\ UNCHANGED pending
       ELSE TakeOrWait(t, call[t].set)
    /\ timed_out' = [timed_out EXCEPT ![t] = FALSE]
    /\ UNCHANGED <<blocked, saved, restore, action, group_exit, call, frames, outside>>

resume_epoll(t) ==
    /\ pc[t] = "woken" /\ call[t].op = "epoll"
    /\ IF signal_wakes(t) THEN EpollInterrupted(t)
       ELSE Goto(t, "scan") /\ UNCHANGED <<blocked, saved, restore, context>>
    /\ UNCHANGED <<pending, waiting, action, group_exit, call, timed_out, frames, outside>>

-------------------------------------------------------------------------------
(* Delivery.  sig_saved_blocked is forgotten with sig_restore_mask: nobody *)
(* reads it before it is set again.                                        *)

\* deliver_syscall_signals: the look without the lock.  The locals of the
\* call and timed_out are forgotten: no later call reads them.
syscall_return(t) ==
    /\ pc[t] = "check"
    /\ Goto(t, IF context[t].rax # "erestart" /\ pending[t] \subseteq blocked[t] /\ ~restore[t]
               THEN "user" ELSE "deliver")
    /\ call' = [call EXCEPT ![t] = NoCall] /\ timed_out' = [timed_out EXCEPT ![t] = FALSE]
    /\ overtaken' = [overtaken EXCEPT ![t] = {}]
    /\ UNCHANGED <<masks, action, group_exit, context, frames, base, post, posts>>

\* deliver_pending_signals, at the end of an interrupt of user mode.
interrupt_return(t) ==
    /\ pc[t] = "user"
    /\ ~(pending[t] \subseteq blocked[t]) \/ restore[t]
    /\ Goto(t, "deliver")
    /\ UNCHANGED <<masks, action, group_exit, call, timed_out, context, frames, outside>>

Deliverable(t) == pending[t] \ blocked[t]
Live(t) == {s \in Deliverable(t) : ~signal_ignored(t, s)}
\* The signal delivery takes, and the ignored ones it drops on the way.
Chosen(t) == Min(Live(t))
Dropped(t) == {s \in Deliverable(t) : Live(t) = {} \/ s <= Chosen(t)}
Restartable(t) == context[t].rax = "erestart"

\* Nothing to deliver: the call is restarted, the mask restored.
deliver_none(t) ==
    /\ pc[t] = "deliver" /\ LockFree /\ Live(t) = {}
    /\ pending' = [pending EXCEPT ![t] = @ \ Dropped(t)]
    /\ context' = [context EXCEPT ![t] =
                     IF Restartable(t) THEN [@ EXCEPT !.rax = "ok"] ELSE @]
    /\ blocked' = [blocked EXCEPT ![t] = IF restore[t] THEN saved[t] ELSE @]
    /\ restore' = [restore EXCEPT ![t] = FALSE] /\ saved' = [saved EXCEPT ![t] = {}]
    /\ Goto(t, "user")
    /\ UNCHANGED <<waiting, action, group_exit, call, timed_out, frames, outside>>

\* The default action of every signal not ignored: the end.
deliver_default(t) ==
    /\ pc[t] = "deliver" /\ LockFree /\ Live(t) # {} /\ action[t][Chosen(t)].h = "dfl"
    /\ IF group_exit[t]
       THEN /\ Goto(t, "dead") /\ pending' = [pending EXCEPT ![t] = {}]
            /\ UNCHANGED <<blocked, waiting, saved, restore, action, group_exit, call, timed_out,
                           context, frames, outside>>
       ELSE Gone(t, {})

\* Faulty variant: the frame keeps the mask of the call.
CurrentMask(t) == blocked[t]

\* The mask sigreturn will put back.
return_mask(t) == IF restore[t] THEN saved[t] ELSE blocked[t]

\* What the interrupted context will find: the call again, or -EINTR.
interrupted_context(t, a) ==
    IF ~Restartable(t) THEN context[t]
    ELSE IF a.restart THEN [context[t] EXCEPT !.rax = "ok"] ELSE Done("eintr")

\* signal_setup_frame.
deliver_handler(t) ==
    /\ pc[t] = "deliver" /\ LockFree /\ Live(t) # {} /\ action[t][Chosen(t)].h = "fn"
    /\ LET s == Chosen(t)
           a == action[t][s]
       IN  /\ pending' = [pending EXCEPT ![t] = @ \ Dropped(t)]
           /\ frames' = [frames EXCEPT ![t] =
                           Append(@, [mask |-> return_mask(t), context |-> interrupted_context(t, a)])]
           /\ blocked' = [blocked EXCEPT ![t] =
                            (@ \cup a.mask \cup (IF a.nodefer THEN {} ELSE {s})) \ Unblockable]
           /\ action' = IF a.reset THEN [action EXCEPT ![t][s] = Dfl] ELSE action
    /\ restore' = [restore EXCEPT ![t] = FALSE] /\ saved' = [saved EXCEPT ![t] = {}]
    /\ context' = [context EXCEPT ![t] = Done("ok")]
    /\ Goto(t, "user")
    /\ UNCHANGED <<waiting, group_exit, call, timed_out, outside>>

\* The frame does not fit on the stack.
deliver_overflow(t) ==
    /\ pc[t] = "deliver" /\ LockFree /\ Live(t) # {} /\ action[t][Chosen(t)].h = "fn"
    /\ Gone(t, pending[t] \ Dropped(t))

-------------------------------------------------------------------------------
(* The specification *)

UserStep(t) ==
    \/ \E u \in Thread, s \in Sigs : sys_kill(t, u, s)
    \/ \E s \in Sigs : signal_fault(t, s)
    \/ process_exit_group(t) \/ process_exit(t) \/ process_exec(t)
    \/ sys_rt_sigaction(t) \/ sys_rt_sigprocmask(t) \/ sys_rt_sigreturn(t)
    \/ sys_pause(t) \/ sys_rt_sigsuspend(t) \/ sys_read(t) \/ sys_recv(t)
    \/ sys_rt_sigtimedwait(t) \/ sigtimedwait_poll(t) \/ sys_epoll_pwait(t)

\* What a thread does in the kernel once it has the CPU.
KernelStep(t) ==
    \/ sigprocmask_strip(t) \/ epoll_scan(t)
    \/ resume_pause(t) \/ resume_read(t) \/ resume_recv(t)
    \/ resume_timedwait(t) \/ resume_epoll(t)
    \/ syscall_return(t) \/ interrupt_return(t)
    \/ deliver_none(t) \/ deliver_default(t) \/ deliver_handler(t) \/ deliver_overflow(t)

PostStep == post_pending \/ post_test \/ post_interrupt

Next ==
    \/ PostStep
    \/ \E u \in Thread, s \in Sigs : signal_send(u, s)
    \/ \E t \in Thread : UserStep(t) \/ KernelStep(t) \/ sleep_timeout(t) \/ event(t)

Spec == Init /\ [][Next]_vars

\* Timers fire, the scheduler is fair (module Scheduler), and user code runs
\* until the next interrupt.
Fairness ==
    /\ WF_vars(PostStep)
    /\ \A t \in Thread : WF_vars(KernelStep(t)) /\ WF_vars(sleep_timeout(t))

LiveSpec == Spec /\ Fairness

-------------------------------------------------------------------------------
(* Properties *)

Context == [rax : {"ok", "eintr", "erestart"}, again : {"no", "read", "recv"}]

\* Types; sig_waiting is only ever set during a sleep of rt_sigtimedwait,
\* and outside rt_sigprocmask no mask holds a signal nobody may block.
TypeOK ==
    /\ pending \in [Thread -> SUBSET Sigs] /\ saved \in [Thread -> SUBSET (Sigs \ Unblockable)]
    /\ \A t \in Thread :
          /\ blocked[t] \subseteq IF pc[t] = "mask" THEN Sigs ELSE Sigs \ Unblockable
          /\ waiting[t] \subseteq
                IF pc[t] \in {"sleep", "woken"} /\ call[t].op = "timedwait" THEN call[t].set ELSE {}
          /\ \A i \in 1 .. Len(frames[t]) :
                frames[t][i].mask \subseteq Sigs \ Unblockable /\ frames[t][i].context \in Context
    /\ restore \in [Thread -> BOOLEAN] /\ group_exit \in [Thread -> BOOLEAN]
    /\ pc \in [Thread -> {"user", "kill", "mask", "scan", "sleep", "woken", "check", "deliver", "dead"}]
    /\ context \in [Thread -> Context] /\ base \in [Thread -> SUBSET (Sigs \ Unblockable)]
    /\ posts \in 0 .. MaxPosts

\* The post under way will interrupt t for s.
Coming(t, s) == post.to = t /\ post.wrote /\ post.sig = s /\ post.seen # "no"

\* The calls that sleep without the kernel lock.
Unlocked == {"recv", "epoll"}

\* No thread sleeps over a signal it should have been woken by: the post will
\* still interrupt it.  The one exception is a call that sleeps unlocked, and
\* one signal: signal_post read the mask while the signal was blocked and wrote
\* sig_pending after the thread had unblocked it and gone to sleep.
NoMissedSignal ==
    \A t \in Thread :
        pc[t] = "sleep" =>
            \A s \in pending[t] :
                Seen(t, s) => Coming(t, s) \/ (call[t].op \in Unlocked /\ s \in overtaken[t])

\* Whatever calls with a mask of their own, handlers and restarts came
\* between, user code outside any handler runs under the mask it asked for.
MaskRestored ==
    \A t \in Thread :
        (pc[t] = "user" /\ frames[t] = <<>>) => blocked[t] = base[t]

\* User code never sees -ERESTARTSYS, not even after a handler.
NoRestartLeak ==
    \A t \in Thread :
        /\ pc[t] = "user" => context[t].rax # "erestart"
        /\ \A i \in 1 .. Len(frames[t]) : frames[t][i].context.rax # "erestart"

\* What holds of signals, masks and restarts in every state.
SignalSound == TypeOK /\ NoMissedSignal /\ MaskRestored /\ NoRestartLeak

\* A thread marked by the end of its group dies, wherever it was.
GroupDies == \A t \in Thread : group_exit[t] ~> pc[t] = "dead"

\* Asleep on a socket without a timeout, over a signal nobody will wake it for.
Stranded(t) ==
    pc[t] = "sleep" /\ call[t].op = "recv" /\ ~call[t].timed /\ overtaken[t] # {}

\* Signals that are not blocked are delivered, taken or dropped, all of
\* them: no sleep, mask change or late post leaves one behind, but the one
\* NoMissedSignal excepts, if no timer bounds the sleep.
Delivered ==
    \A t \in Thread :
        ~(pending[t] \subseteq blocked[t])
            ~> (pending[t] \subseteq blocked[t] \/ pc[t] = "dead" \/ Stranded(t))

\* What signals ask for happens in the end.
SignalLive == GroupDies /\ Delivered

-------------------------------------------------------------------------------
(* The inductive invariant behind SignalSound *)

MaySet == SUBSET (Sigs \ Unblockable)
Call == [op : {"none", "pause", "read", "recv", "timedwait", "epoll"}, set : MaySet, old : MaySet,
         timed : BOOLEAN]
Frame == [mask : MaySet, context : Context]
Place == {"user", "kill", "mask", "scan", "sleep", "woken", "check", "deliver", "dead"}

\* What TypeOK leaves out.
Types ==
    /\ pending \in [Thread -> SUBSET Sigs] /\ blocked \in [Thread -> SUBSET Sigs]
    /\ waiting \in [Thread -> SUBSET Sigs] /\ saved \in [Thread -> MaySet]
    /\ restore \in [Thread -> BOOLEAN] /\ group_exit \in [Thread -> BOOLEAN]
    /\ action \in [Thread -> [Sigs -> Action]] /\ pc \in [Thread -> Place]
    /\ call \in [Thread -> Call] /\ timed_out \in [Thread -> BOOLEAN]
    /\ context \in [Thread -> Context] /\ frames \in [Thread -> Seq(Frame)]
    /\ base \in [Thread -> MaySet] /\ overtaken \in [Thread -> SUBSET Sigs] /\ posts \in 0 .. MaxPosts
    /\ post \in [by : Thread \cup {Irq}, to : Thread \cup {Irq}, sig : Sigs \cup {0},
                 wrote : BOOLEAN, seen : {"?", "yes", "no"}]

InEpoll(t) == pc[t] \in {"scan", "sleep", "woken"} /\ call[t].op = "epoll"

MasksInv(t) ==
    /\ pc[t] # "mask" => blocked[t] \subseteq Sigs \ Unblockable
    /\ waiting[t] \subseteq
          IF pc[t] \in {"sleep", "woken"} /\ call[t].op = "timedwait" THEN call[t].set ELSE {}
    /\ pc[t] = "scan" => call[t].op = "epoll"

\* A sleeper was awake to every signal before its sleep; since then only the
\* one post under way can have come, for it holds the kernel lock.  What it has
\* read of the mask is still true of a call that had the lock to go to sleep.
SleepInv(t) ==
    pc[t] = "sleep" =>
        /\ \A s \in pending[t] :
              Seen(t, s) => Coming(t, s) \/ (call[t].op \in Unlocked /\ s \in overtaken[t])
        /\ (call[t].op \notin Unlocked /\ post.to = t /\ post.seen = "no") => ~Seen(t, post.sig)

\* sig_restore_mask is set from a call that sleeps to the delivery after it.
RestoreInv(t) ==
    restore[t] => \/ pc[t] \in {"check", "deliver", "dead"}
                  \/ pc[t] \in {"sleep", "woken"} /\ call[t].op = "pause"

\* The mask the code outside any handler will have again.
Outer(t) ==
    IF restore[t] THEN saved[t] ELSE IF InEpoll(t) THEN call[t].old ELSE blocked[t]

BaseInv(t) ==
    IF frames[t] # <<>> THEN base[t] = frames[t][1].mask
    ELSE pc[t] \notin {"mask", "dead"} => base[t] = Outer(t)

\* -ERESTARTSYS lives between the end of a call and the delivery.
RestartInv(t) ==
    /\ context[t].rax = "erestart" => pc[t] \in {"check", "deliver", "dead"}
    /\ \A i \in 1 .. Len(frames[t]) : frames[t][i].context.rax # "erestart"

ThreadInv(t) == MasksInv(t) /\ SleepInv(t) /\ RestoreInv(t) /\ BaseInv(t) /\ RestartInv(t)

\* Who posts by a call is in it; what is posted is a signal.
PostInv ==
    /\ post.by \in Thread => pc[post.by] = "kill"
    /\ post.to \in Thread => post.sig \in Sigs

SignalInv == Types /\ PostInv /\ \A t \in Thread : ThreadInv(t)

===============================================================================

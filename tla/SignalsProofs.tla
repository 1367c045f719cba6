----------------------------- MODULE SignalsProofs -----------------------------
(***************************************************************************)
(* Proofs about module Signals, for any threads, signals, handlers, masks  *)
(* and programs: no sleeper misses a signal, masks come back, and restarts *)
(* are invisible.                                                          *)
(***************************************************************************)
EXTENDS Signals, WellFoundedInduction, TLAPS

\* The lowest signal of a set is one of them.
LEMMA MinIn == ASSUME NEW S \in SUBSET Nat, S # {}  PROVE Min(S) \in S
  <1> DEFINE R == {ss \in Nat \X Nat : ss[1] < ss[2]}
  <1>0. IsWellFoundedOn(R, Nat)
    BY NatLessThanWellFounded DEF OpToRel
  <1> HIDE DEF R
  <1>1. PICK x \in S : \A y \in S : ~(<<y, x>> \in R)
    BY <1>0, WFMin
  <1>2. \A y \in S : x =< y
    <2> SUFFICES ASSUME NEW y \in S  PROVE x =< y
      OBVIOUS
    <2>1. x \in Nat /\ y \in Nat
      OBVIOUS
    <2>2. y < x => <<y, x>> \in R
      BY <2>1 DEF R
    <2> QED
      BY <1>1, <2>1, <2>2
  <1> QED
    BY <1>2 DEF Min

\* Only thread t takes part in the step.
SameBut(t) ==
    \A u \in Thread \ {t} :
        /\ pending'[u] = pending[u] /\ blocked'[u] = blocked[u] /\ waiting'[u] = waiting[u]
        /\ saved'[u] = saved[u] /\ restore'[u] = restore[u] /\ pc'[u] = pc[u]
        /\ call'[u] = call[u] /\ context'[u] = context[u] /\ frames'[u] = frames[u]
        /\ base'[u] = base[u] /\ overtaken'[u] = overtaken[u]

\* A thread nothing changes for keeps its invariant.
LEMMA OtherThread ==
    ASSUME NEW u \in Thread, ThreadInv(u), post' = post,
           pending'[u] = pending[u], blocked'[u] = blocked[u], waiting'[u] = waiting[u],
           saved'[u] = saved[u], restore'[u] = restore[u], pc'[u] = pc[u],
           call'[u] = call[u], context'[u] = context[u], frames'[u] = frames[u],
           base'[u] = base[u], overtaken'[u] = overtaken[u]
    PROVE  ThreadInv(u)'
  <1>1. MasksInv(u)'
    BY DEF ThreadInv, MasksInv
  <1>2. SleepInv(u)'
    BY DEF ThreadInv, SleepInv, Coming, Seen
  <1>3. RestoreInv(u)'
    BY DEF ThreadInv, RestoreInv
  <1>4. BaseInv(u)'
    BY DEF ThreadInv, BaseInv, Outer, InEpoll
  <1>5. RestartInv(u)'
    BY DEF ThreadInv, RestartInv
  <1> QED
    BY <1>1, <1>2, <1>3, <1>4, <1>5 DEF ThreadInv

\* A step of one thread, outside kill.
LEMMA Turn ==
    ASSUME SignalInv, NEW t \in Thread, pc[t] # "kill", SameBut(t), post' = post, Types',
           ThreadInv(t)'
    PROVE  SignalInv'
  <1>1. \A u \in Thread : ThreadInv(u)'
    <2> SUFFICES ASSUME NEW u \in Thread, u # t  PROVE ThreadInv(u)'
      OBVIOUS
    <2> QED
      BY OtherThread DEF SignalInv, SameBut
  <1>2. PostInv'
    BY DEF SignalInv, PostInv, SameBut
  <1> QED
    BY <1>1, <1>2 DEF SignalInv

\* In user mode nothing of a call is left.
LEMMA InUser ==
    ASSUME SignalInv, NEW t \in Thread, pc[t] = "user"
    PROVE  /\ waiting[t] = {} /\ ~restore[t] /\ context[t].rax # "erestart"
           /\ blocked[t] \in MaySet
           /\ frames[t] = <<>> => base[t] = blocked[t]
           /\ frames[t] # <<>> => base[t] = frames[t][1].mask
           /\ \A i \in 1 .. Len(frames[t]) : frames[t][i].context.rax # "erestart"
  <1>1. ThreadInv(t) /\ Types
    BY DEF SignalInv
  <1>2. waiting[t] = {} /\ blocked[t] \in MaySet
    BY <1>1 DEF ThreadInv, MasksInv, MaySet
  <1>3. ~restore[t]
    BY <1>1 DEF ThreadInv, RestoreInv
  <1> QED
    BY <1>1, <1>2, <1>3 DEF ThreadInv, BaseInv, RestartInv, Outer, InEpoll

\* Values of calls and contexts.
LEMMA Calling ==
    \A o \in {"pause", "read"} : [NoCall EXCEPT !.op = o] \in Call /\ [NoCall EXCEPT !.op = o].op = o
  BY DEF NoCall, Call, MaySet

LEMMA CallingRecv ==
    \A b \in BOOLEAN : \E c \in Call :
        c.op = "recv" /\ c = [NoCall EXCEPT !.op = "recv", !.timed = b]
  BY DEF NoCall, Call, MaySet

LEMMA CallingEpoll ==
    \A m \in MaySet : \E c \in Call :
        c.op = "epoll" /\ c.old = m /\ c = [NoCall EXCEPT !.op = "epoll", !.old = m, !.timed = TRUE]
  BY DEF NoCall, Call, MaySet

LEMMA CallingTimed ==
    \A m \in MaySet, b \in BOOLEAN : \E c \in Call :
        c.op = "timedwait" /\ c.set = m /\ c = [NoCall EXCEPT !.op = "timedwait", !.set = m, !.timed = b]
  BY DEF NoCall, Call, MaySet

LEMMA Returning ==
    /\ \A r \in {"ok", "eintr"} : Done(r) \in Context /\ Done(r).rax = r
    /\ \A op \in {"read", "recv"} : Restarts(op) \in Context
    /\ \A c \in Context : [c EXCEPT !.rax = "ok"] \in Context /\ [c EXCEPT !.rax = "ok"].rax = "ok"
  BY DEF Done, Restarts, Context

LEMMA Receiving == \A b \in BOOLEAN : RecvInterrupted(b) \in Context
  BY Returning DEF RecvInterrupted

\* A thread goes on to another place; the others stay.
LEMMA Goes ==
    ASSUME Types, NEW t \in Thread, NEW l \in Place, Goto(t, l)
    PROVE  pc' \in [Thread -> Place] /\ pc'[t] = l /\ \A u \in Thread \ {t} : pc'[u] = pc[u]
  BY DEF Types, Goto

\* A call returns with the context c, or with the value r.
LEMMA ReturnsWith ==
    ASSUME Types, NEW t \in Thread, NEW c \in Context, ReturnWith(t, c)
    PROVE  /\ pc' \in [Thread -> Place] /\ context' \in [Thread -> Context]
           /\ pc'[t] = "check" /\ context'[t] = c
           /\ \A u \in Thread \ {t} : pc'[u] = pc[u] /\ context'[u] = context[u]
  <1>1. "check" \in Place
    BY DEF Place
  <1> QED
    BY <1>1, Goes DEF ReturnWith, Types

LEMMA Returns ==
    ASSUME Types, NEW t \in Thread, NEW r \in {"ok", "eintr"}, Return(t, r)
    PROVE  /\ pc' \in [Thread -> Place] /\ context' \in [Thread -> Context]
           /\ pc'[t] = "check" /\ context'[t] = Done(r)
           /\ \A u \in Thread \ {t} : pc'[u] = pc[u] /\ context'[u] = context[u]
  <1>1. Done(r) \in Context
    BY Returning
  <1> QED
    BY <1>1, ReturnsWith DEF Return

\* A call sleeps, with no signal it would see, or returns.
LEMMA SleepsOrReturns ==
    ASSUME Types, NEW t \in Thread, NEW c \in Context, NEW B, SleepOr(t, c, B)
    PROVE  /\ pc' \in [Thread -> Place] /\ context' \in [Thread -> Context]
           /\ \/ pc'[t] = "sleep" /\ context' = context /\ pending[t] \subseteq B
              \/ pc'[t] = "check" /\ context'[t] = c
           /\ \A u \in Thread \ {t} : pc'[u] = pc[u] /\ context'[u] = context[u]
  <1>1. CASE pending[t] \subseteq B
    BY <1>1, Goes DEF SleepOr, Types, Place
  <1>2. CASE ~(pending[t] \subseteq B)
    BY <1>2, ReturnsWith DEF SleepOr
  <1> QED
    BY <1>1, <1>2

\* A turn of rt_sigtimedwait: it sleeps with nothing to take or to see, or returns.
LEMMA TakesOrWaits ==
    ASSUME Types, NEW t \in Thread, NEW W \in MaySet, TakeOrWait(t, W)
    PROVE  /\ pc' \in [Thread -> Place] /\ context' \in [Thread -> Context]
           /\ pending' \in [Thread -> SUBSET Sigs] /\ waiting' \in [Thread -> SUBSET Sigs]
           /\ \/ /\ pc'[t] = "sleep" /\ context' = context /\ pending' = pending
                 /\ waiting'[t] = W /\ pending[t] \subseteq blocked[t] \ waiting'[t]
              \/ /\ pc'[t] = "check" /\ context'[t] \in {Done("ok"), Done("eintr")}
                 /\ waiting'[t] = {}
           /\ \A u \in Thread \ {t} : /\ pc'[u] = pc[u] /\ context'[u] = context[u]
                                      /\ pending'[u] = pending[u] /\ waiting'[u] = waiting[u]
  <1> DEFINE Left(V) == waiting' = [waiting EXCEPT ![t] = V]
  <1>1. ASSUME NEW V \in SUBSET Sigs, Left(V)
        PROVE  /\ waiting' \in [Thread -> SUBSET Sigs] /\ waiting'[t] = V
               /\ \A u \in Thread \ {t} : waiting'[u] = waiting[u]
    BY <1>1 DEF Types
  <1>2. CASE pending[t] \cap W # {}
    <2>1. /\ pending' = [pending EXCEPT ![t] = @ \ {Min(pending[t] \cap W)}]
          /\ Left({}) /\ Return(t, "ok")
      BY <1>2 DEF TakeOrWait, NotWaiting
    <2>2. /\ pending' \in [Thread -> SUBSET Sigs]
          /\ \A u \in Thread \ {t} : pending'[u] = pending[u]
      BY <2>1 DEF Types
    <2>3. /\ waiting' \in [Thread -> SUBSET Sigs] /\ waiting'[t] = {}
          /\ \A u \in Thread \ {t} : waiting'[u] = waiting[u]
      BY <2>1 DEF Types
    <2>4. /\ pc' \in [Thread -> Place] /\ context' \in [Thread -> Context]
          /\ pc'[t] = "check" /\ context'[t] = Done("ok")
          /\ \A u \in Thread \ {t} : pc'[u] = pc[u] /\ context'[u] = context[u]
      BY <2>1, Returns
    <2> QED
      BY <2>2, <2>3, <2>4
  <1>3. CASE pending[t] \cap W = {} /\ pending[t] \ blocked[t] # {}
    <2>1. Left({}) /\ Return(t, "eintr") /\ pending' = pending
      BY <1>3 DEF TakeOrWait, NotWaiting
    <2> QED
      BY <1>1, <2>1, Returns DEF Types
  <1>4. CASE pending[t] \cap W = {} /\ pending[t] \ blocked[t] = {}
    <2>1. Left(W) /\ Goto(t, "sleep") /\ pending' = pending /\ context' = context
      BY <1>4 DEF TakeOrWait
    <2>2. W \in SUBSET Sigs /\ "sleep" \in Place /\ pending[t] \subseteq blocked[t] \ W
      BY <1>4 DEF MaySet, Place
    <2> QED
      BY <1>1, <2>1, <2>2, Goes DEF Types
  <1> QED
    BY <1>2, <1>3, <1>4

\* epoll_pwait ends with -EINTR and leaves its mask to delivery.
LEMMA Interrupts ==
    ASSUME Types, NEW t \in Thread, call[t].old \in MaySet, EpollInterrupted(t)
    PROVE  /\ pc' \in [Thread -> Place] /\ context' \in [Thread -> Context]
           /\ blocked' = blocked /\ blocked' \in [Thread -> SUBSET Sigs]
           /\ pc'[t] = "check" /\ context'[t] = Done("eintr")
           /\ saved' \in [Thread -> MaySet] /\ restore' \in [Thread -> BOOLEAN]
           /\ saved'[t] = call[t].old /\ restore'[t]
           /\ \A u \in Thread \ {t} : /\ pc'[u] = pc[u] /\ context'[u] = context[u]
                                      /\ blocked'[u] = blocked[u]
                                      /\ saved'[u] = saved[u] /\ restore'[u] = restore[u]
  <1>1. Return(t, "eintr") /\ blocked' = blocked
    BY DEF EpollInterrupted
  <1>2. /\ saved' \in [Thread -> MaySet] /\ restore' \in [Thread -> BOOLEAN]
        /\ saved'[t] = call[t].old /\ restore'[t]
        /\ \A u \in Thread \ {t} : saved'[u] = saved[u] /\ restore'[u] = restore[u]
    BY DEF EpollInterrupted, Types
  <1> QED
    BY <1>1, <1>2, Returns DEF Types

\* A post under way is of another thread, or of none.
LEMMA NotPosting == ASSUME LockFree  PROVE \A t \in Thread : post.to # t
  BY SignalsAssumption DEF LockFree, NoPost

-------------------------------------------------------------------------------
(* One lemma per operation of a thread: the values the step leaves, and from *)
(* them each part of the invariant.                                        *)

\* sys_pause keeps the invariant.
LEMMA SysPause == ASSUME SignalInv, NEW t \in Thread, sys_pause(t)  PROVE SignalInv'
  <1>1. Types /\ ThreadInv(t)
    BY DEF SignalInv
  <1>2. UNCHANGED <<pending, blocked, waiting, saved, restore, action, group_exit, timed_out,
                    frames, base, overtaken, post, posts>>
    BY DEF sys_pause, masks, flow, outside
  <1>3. /\ pc[t] = "user" /\ pc' \in [Thread -> Place] /\ context' \in [Thread -> Context]
        /\ \/ pc'[t] = "sleep" /\ context' = context /\ pending[t] \subseteq blocked[t]
           \/ pc'[t] = "check" /\ context'[t] = Done("eintr")
        /\ \A u \in Thread \ {t} : pc'[u] = pc[u] /\ context'[u] = context[u] /\ call'[u] = call[u]
        /\ call' \in [Thread -> Call] /\ call'[t].op = "pause" /\ waiting[t] = {} /\ post.to # t
    <2>1. pc[t] = "user" /\ SleepOr(t, Done("eintr"), blocked[t])
      BY DEF sys_pause, User
    <2>2. /\ call' \in [Thread -> Call] /\ call'[t].op = "pause"
          /\ \A u \in Thread \ {t} : call'[u] = call[u]
      BY <1>1, Calling DEF Types, sys_pause
    <2>3. waiting[t] = {} /\ post.to # t
      BY <2>1, InUser, NotPosting DEF sys_pause
    <2> QED
      BY <1>1, <2>1, <2>2, <2>3, SleepsOrReturns, Returning
  <1>4. Types'
    BY <1>1, <1>2, <1>3 DEF Types
  <1>5. SameBut(t)
    BY <1>1, <1>2, <1>3 DEF SameBut, Types
  <1>6. MasksInv(t)'
    BY <1>1, <1>2, <1>3 DEF ThreadInv, MasksInv, Types
  <1>7. SleepInv(t)'
    BY <1>1, <1>2, <1>3 DEF ThreadInv, SleepInv, Coming, Seen
  <1>8. RestoreInv(t)'
    BY <1>1, <1>2, <1>3 DEF ThreadInv, RestoreInv
  <1>9. BaseInv(t)'
    BY <1>1, <1>2, <1>3 DEF ThreadInv, BaseInv, Outer, InEpoll
  <1>10. RestartInv(t)'
    BY <1>1, <1>2, <1>3, Returning DEF ThreadInv, RestartInv
  <1> QED
    BY <1>2, <1>3, <1>4, <1>5, <1>6, <1>7, <1>8, <1>9, <1>10, Turn DEF ThreadInv

\* sys_read keeps the invariant.
LEMMA SysRead == ASSUME SignalInv, NEW t \in Thread, sys_read(t)  PROVE SignalInv'
  <1>1. Types /\ ThreadInv(t)
    BY DEF SignalInv
  <1>2. UNCHANGED <<pending, blocked, waiting, saved, restore, action, group_exit, timed_out,
                    frames, base, overtaken, post, posts>>
    BY DEF sys_read, masks, flow, outside
  <1>3. /\ pc[t] = "user" /\ pc' \in [Thread -> Place] /\ context' \in [Thread -> Context]
        /\ \/ pc'[t] = "sleep" /\ context' = context /\ pending[t] \subseteq blocked[t]
           \/ pc'[t] = "check" /\ context'[t] = Restarts("read")
        /\ \A u \in Thread \ {t} : pc'[u] = pc[u] /\ context'[u] = context[u] /\ call'[u] = call[u]
        /\ call' \in [Thread -> Call] /\ call'[t].op = "read" /\ waiting[t] = {} /\ post.to # t
    <2>1. pc[t] = "user" /\ SleepOr(t, Restarts("read"), blocked[t])
      BY DEF sys_read, User, Again
    <2>2. /\ call' \in [Thread -> Call] /\ call'[t].op = "read"
          /\ \A u \in Thread \ {t} : call'[u] = call[u]
      BY <1>1, Calling DEF Types, sys_read
    <2>3. waiting[t] = {} /\ post.to # t
      BY <2>1, InUser, NotPosting DEF sys_read
    <2> QED
      BY <1>1, <2>1, <2>2, <2>3, SleepsOrReturns, Returning
  <1>4. Types'
    BY <1>1, <1>2, <1>3 DEF Types
  <1>5. SameBut(t)
    BY <1>1, <1>2, <1>3 DEF SameBut, Types
  <1>6. MasksInv(t)'
    BY <1>1, <1>2, <1>3 DEF ThreadInv, MasksInv, Types
  <1>7. SleepInv(t)'
    BY <1>1, <1>2, <1>3 DEF ThreadInv, SleepInv, Coming, Seen
  <1>8. RestoreInv(t)'
    BY <1>1, <1>2, <1>3 DEF ThreadInv, RestoreInv
  <1>9. BaseInv(t)'
    BY <1>1, <1>2, <1>3 DEF ThreadInv, BaseInv, Outer, InEpoll
  <1>10. RestartInv(t)'
    BY <1>1, <1>2, <1>3, Returning DEF ThreadInv, RestartInv
  <1> QED
    BY <1>2, <1>3, <1>4, <1>5, <1>6, <1>7, <1>8, <1>9, <1>10, Turn DEF ThreadInv

\* sys_recv keeps the invariant.
LEMMA SysRecv == ASSUME SignalInv, NEW t \in Thread, sys_recv(t)  PROVE SignalInv'
  <1>1. Types /\ ThreadInv(t)
    BY DEF SignalInv
  <1>2. UNCHANGED <<pending, blocked, waiting, saved, restore, action, group_exit, timed_out,
                    frames, base, overtaken, post, posts>>
    BY DEF sys_recv, masks, flow, outside
  <1>3. /\ pc[t] = "user" /\ pc' \in [Thread -> Place] /\ context' \in [Thread -> Context]
        /\ \/ pc'[t] = "sleep" /\ context' = context /\ pending[t] \subseteq blocked[t]
           \/ pc'[t] = "check"
        /\ \A u \in Thread \ {t} : pc'[u] = pc[u] /\ context'[u] = context[u] /\ call'[u] = call[u]
        /\ call' \in [Thread -> Call] /\ call'[t].op = "recv" /\ waiting[t] = {}
    <2>1. PICK b \in BOOLEAN :
            /\ pc[t] = "user" /\ SleepOr(t, RecvInterrupted(b), blocked[t])
            /\ call' = [call EXCEPT ![t] = [NoCall EXCEPT !.op = "recv", !.timed = b]]
      BY DEF sys_recv, User, Again
    <2>2. PICK c \in Call : c.op = "recv" /\ call' = [call EXCEPT ![t] = c]
      BY <2>1, CallingRecv
    <2>3. /\ call' \in [Thread -> Call] /\ call'[t] = c
          /\ \A u \in Thread \ {t} : call'[u] = call[u]
      BY <1>1, <2>2 DEF Types
    <2>4. waiting[t] = {}
      BY <2>1, InUser
    <2> QED
      BY <1>1, <2>1, <2>2, <2>3, <2>4, SleepsOrReturns, Receiving
  <1>4. Types'
    BY <1>1, <1>2, <1>3 DEF Types
  <1>5. SameBut(t)
    BY <1>1, <1>2, <1>3 DEF SameBut, Types
  <1>6. MasksInv(t)'
    BY <1>1, <1>2, <1>3 DEF ThreadInv, MasksInv, Types
  <1>7. SleepInv(t)'
    BY <1>1, <1>2, <1>3 DEF ThreadInv, SleepInv, Coming, Seen, Unlocked
  <1>8. RestoreInv(t)'
    BY <1>1, <1>2, <1>3 DEF ThreadInv, RestoreInv
  <1>9. BaseInv(t)'
    BY <1>1, <1>2, <1>3 DEF ThreadInv, BaseInv, Outer, InEpoll
  <1>10. RestartInv(t)'
    BY <1>1, <1>2, <1>3, Returning DEF ThreadInv, RestartInv
  <1> QED
    BY <1>2, <1>3, <1>4, <1>5, <1>6, <1>7, <1>8, <1>9, <1>10, Turn DEF ThreadInv

\* sleep_timeout keeps the invariant.
LEMMA SleepTimeout == ASSUME SignalInv, NEW t \in Thread, sleep_timeout(t)  PROVE SignalInv'
  <1>1. Types /\ ThreadInv(t)
    BY DEF SignalInv
  <1>2. UNCHANGED <<pending, blocked, waiting, saved, restore, action, group_exit, call,
                    context, frames, base, overtaken, post, posts>>
    BY DEF sleep_timeout, masks, flow, outside
  <1>3. /\ pc[t] = "sleep" /\ pc' \in [Thread -> Place] /\ pc'[t] = "woken"
        /\ \A u \in Thread \ {t} : pc'[u] = pc[u]
        /\ timed_out' \in [Thread -> BOOLEAN]
    <2>1. "woken" \in Place
      BY DEF Place
    <2> QED
      BY <1>1, <2>1, Goes DEF sleep_timeout, Types
  <1>4. Types'
    BY <1>1, <1>2, <1>3 DEF Types
  <1>5. SameBut(t)
    BY <1>1, <1>2, <1>3 DEF SameBut, Types
  <1>6. MasksInv(t)'
    BY <1>1, <1>2, <1>3 DEF ThreadInv, MasksInv, Types
  <1>7. SleepInv(t)'
    BY <1>1, <1>2, <1>3 DEF ThreadInv, SleepInv, Coming, Seen
  <1>8. RestoreInv(t)'
    BY <1>1, <1>2, <1>3 DEF ThreadInv, RestoreInv
  <1>9. BaseInv(t)'
    BY <1>1, <1>2, <1>3 DEF ThreadInv, BaseInv, Outer, InEpoll
  <1>10. RestartInv(t)'
    BY <1>1, <1>2, <1>3, Returning DEF ThreadInv, RestartInv
  <1> QED
    BY <1>2, <1>3, <1>4, <1>5, <1>6, <1>7, <1>8, <1>9, <1>10, Turn DEF ThreadInv

\* event keeps the invariant.
LEMMA Event == ASSUME SignalInv, NEW t \in Thread, event(t)  PROVE SignalInv'
  <1>1. Types /\ ThreadInv(t)
    BY DEF SignalInv
  <1>2. UNCHANGED <<pending, blocked, waiting, saved, restore, action, group_exit, call,
                    timed_out, context, frames, base, overtaken, post, posts>>
    BY DEF event, masks, flow, outside
  <1>3. /\ pc[t] = "sleep" /\ pc' \in [Thread -> Place] /\ pc'[t] = "woken"
        /\ \A u \in Thread \ {t} : pc'[u] = pc[u]
    <2>1. "woken" \in Place
      BY DEF Place
    <2> QED
      BY <1>1, <2>1, Goes DEF event, Types
  <1>4. Types'
    BY <1>1, <1>2, <1>3 DEF Types
  <1>5. SameBut(t)
    BY <1>1, <1>2, <1>3 DEF SameBut, Types
  <1>6. MasksInv(t)'
    BY <1>1, <1>2, <1>3 DEF ThreadInv, MasksInv, Types
  <1>7. SleepInv(t)'
    BY <1>1, <1>2, <1>3 DEF ThreadInv, SleepInv, Coming, Seen
  <1>8. RestoreInv(t)'
    BY <1>1, <1>2, <1>3 DEF ThreadInv, RestoreInv
  <1>9. BaseInv(t)'
    BY <1>1, <1>2, <1>3 DEF ThreadInv, BaseInv, Outer, InEpoll
  <1>10. RestartInv(t)'
    BY <1>1, <1>2, <1>3, Returning DEF ThreadInv, RestartInv
  <1> QED
    BY <1>2, <1>3, <1>4, <1>5, <1>6, <1>7, <1>8, <1>9, <1>10, Turn DEF ThreadInv

\* process_exit keeps the invariant.
LEMMA ProcessExit == ASSUME SignalInv, NEW t \in Thread, process_exit(t)  PROVE SignalInv'
  <1>1. Types /\ ThreadInv(t)
    BY DEF SignalInv
  <1>2. UNCHANGED <<pending, blocked, waiting, saved, restore, action, group_exit, call,
                    timed_out, context, frames, base, overtaken, post, posts>>
    BY DEF process_exit, masks, flow, outside
  <1>3. /\ pc[t] = "user" /\ pc' \in [Thread -> Place] /\ pc'[t] = "dead"
        /\ \A u \in Thread \ {t} : pc'[u] = pc[u]
    <2>1. "dead" \in Place
      BY DEF Place
    <2> QED
      BY <1>1, <2>1, Goes DEF process_exit, User
  <1>4. Types'
    BY <1>1, <1>2, <1>3 DEF Types
  <1>5. SameBut(t)
    BY <1>1, <1>2, <1>3 DEF SameBut, Types
  <1>6. MasksInv(t)'
    BY <1>1, <1>2, <1>3 DEF ThreadInv, MasksInv, Types
  <1>7. SleepInv(t)'
    BY <1>1, <1>2, <1>3 DEF ThreadInv, SleepInv, Coming, Seen
  <1>8. RestoreInv(t)'
    BY <1>1, <1>2, <1>3 DEF ThreadInv, RestoreInv
  <1>9. BaseInv(t)'
    BY <1>1, <1>2, <1>3 DEF ThreadInv, BaseInv, Outer, InEpoll
  <1>10. RestartInv(t)'
    BY <1>1, <1>2, <1>3, Returning DEF ThreadInv, RestartInv
  <1> QED
    BY <1>2, <1>3, <1>4, <1>5, <1>6, <1>7, <1>8, <1>9, <1>10, Turn DEF ThreadInv

\* sys_rt_sigprocmask keeps the invariant.
LEMMA SysRtSigprocmask == ASSUME SignalInv, NEW t \in Thread, sys_rt_sigprocmask(t)  PROVE SignalInv'
  <1>1. Types /\ ThreadInv(t)
    BY DEF SignalInv
  <1>2. UNCHANGED <<pending, waiting, saved, restore, action, group_exit, call, timed_out,
                    context, frames, base, overtaken, post, posts>>
    BY DEF sys_rt_sigprocmask, masks, flow, outside
  <1>3. /\ pc[t] = "user" /\ pc' \in [Thread -> Place] /\ pc'[t] = "mask"
        /\ blocked' \in [Thread -> SUBSET Sigs]
        /\ \A u \in Thread \ {t} : pc'[u] = pc[u] /\ blocked'[u] = blocked[u]
    <2>1. "mask" \in Place
      BY DEF Place
    <2>2. PICK s \in Masks : blocked' \in {[blocked EXCEPT ![t] = @ \cup s], [blocked EXCEPT ![t] = @ \ s],
                                           [blocked EXCEPT ![t] = s]}
      BY DEF sys_rt_sigprocmask
    <2>3. PICK m \in SUBSET Sigs : blocked' = [blocked EXCEPT ![t] = m]
      <3>1. s \subseteq Sigs /\ blocked[t] \subseteq Sigs
        BY <1>1, SignalsAssumption DEF Types
      <3>2. CASE blocked' = [blocked EXCEPT ![t] = @ \cup s]
        BY <3>1, <3>2
      <3>3. CASE blocked' = [blocked EXCEPT ![t] = @ \ s]
        BY <3>1, <3>3
      <3>4. CASE blocked' = [blocked EXCEPT ![t] = s]
        BY <3>1, <3>4
      <3> QED
        BY <2>2, <3>2, <3>3, <3>4
    <2>4. /\ blocked' \in [Thread -> SUBSET Sigs]
          /\ \A u \in Thread \ {t} : blocked'[u] = blocked[u]
      BY <1>1, <2>3 DEF Types
    <2> QED
      BY <1>1, <2>1, <2>4, Goes DEF sys_rt_sigprocmask, User
  <1>4. Types'
    BY <1>1, <1>2, <1>3 DEF Types
  <1>5. SameBut(t)
    BY <1>1, <1>2, <1>3 DEF SameBut, Types
  <1>6. MasksInv(t)'
    BY <1>1, <1>2, <1>3 DEF ThreadInv, MasksInv, Types
  <1>7. SleepInv(t)'
    BY <1>1, <1>2, <1>3 DEF ThreadInv, SleepInv, Coming, Seen
  <1>8. RestoreInv(t)'
    BY <1>1, <1>2, <1>3 DEF ThreadInv, RestoreInv
  <1>9. BaseInv(t)'
    BY <1>1, <1>2, <1>3 DEF ThreadInv, BaseInv, Outer, InEpoll
  <1>10. RestartInv(t)'
    BY <1>1, <1>2, <1>3, Returning DEF ThreadInv, RestartInv
  <1> QED
    BY <1>2, <1>3, <1>4, <1>5, <1>6, <1>7, <1>8, <1>9, <1>10, Turn DEF ThreadInv

\* sigprocmask_strip keeps the invariant.
LEMMA SigprocmaskStrip == ASSUME SignalInv, NEW t \in Thread, sigprocmask_strip(t)  PROVE SignalInv'
  <1>1. Types /\ ThreadInv(t)
    BY DEF SignalInv
  <1>2. UNCHANGED <<pending, waiting, saved, restore, action, group_exit, call, timed_out,
                    frames, overtaken, post, posts>>
    BY DEF sigprocmask_strip, masks, flow, outside
  <1>3. /\ pc[t] = "mask" /\ pc' \in [Thread -> Place] /\ context' \in [Thread -> Context]
        /\ pc'[t] = "check" /\ context'[t] = Done("ok")
        /\ blocked' \in [Thread -> SUBSET Sigs] /\ blocked'[t] \in MaySet
        /\ base' \in [Thread -> MaySet]
        /\ IF frames[t] = <<>> THEN base'[t] = blocked'[t] ELSE base'[t] = base[t]
        /\ \A u \in Thread \ {t} : /\ pc'[u] = pc[u] /\ context'[u] = context[u]
                                   /\ blocked'[u] = blocked[u] /\ base'[u] = base[u]
    <2>1. blocked' = [blocked EXCEPT ![t] = @ \ Unblockable]
      BY DEF sigprocmask_strip, Blockable
    <2>2. /\ blocked' \in [Thread -> SUBSET Sigs] /\ blocked'[t] \in MaySet
          /\ \A u \in Thread \ {t} : blocked'[u] = blocked[u]
      BY <1>1, <2>1 DEF Types, MaySet
    <2>3. /\ base' \in [Thread -> MaySet]
          /\ IF frames[t] = <<>> THEN base'[t] = blocked'[t] ELSE base'[t] = base[t]
          /\ \A u \in Thread \ {t} : base'[u] = base[u]
      BY <1>1, <2>2 DEF Types, sigprocmask_strip
    <2>4. pc[t] = "mask" /\ Return(t, "ok")
      BY DEF sigprocmask_strip
    <2> QED
      BY <1>1, <2>2, <2>3, <2>4, Returns
  <1>4. Types'
    BY <1>1, <1>2, <1>3 DEF Types
  <1>5. SameBut(t)
    BY <1>1, <1>2, <1>3 DEF SameBut, Types
  <1>6. MasksInv(t)'
    BY <1>1, <1>2, <1>3 DEF ThreadInv, MasksInv, MaySet
  <1>7. SleepInv(t)'
    BY <1>1, <1>2, <1>3 DEF ThreadInv, SleepInv, Coming, Seen
  <1>8. RestoreInv(t)'
    BY <1>1, <1>2, <1>3 DEF ThreadInv, RestoreInv
  <1>9. BaseInv(t)'
    BY <1>1, <1>2, <1>3 DEF ThreadInv, BaseInv, RestoreInv, Outer, InEpoll
  <1>10. RestartInv(t)'
    BY <1>1, <1>2, <1>3, Returning DEF ThreadInv, RestartInv
  <1> QED
    BY <1>2, <1>3, <1>4, <1>5, <1>6, <1>7, <1>8, <1>9, <1>10, Turn DEF ThreadInv

\* sys_epoll_pwait keeps the invariant.
LEMMA SysEpollPwait == ASSUME SignalInv, NEW t \in Thread, sys_epoll_pwait(t)  PROVE SignalInv'
  <1>1. Types /\ ThreadInv(t)
    BY DEF SignalInv
  <1>2. UNCHANGED <<pending, waiting, saved, restore, action, group_exit, timed_out, context,
                    frames, base, overtaken, post, posts>>
    BY DEF sys_epoll_pwait, masks, flow, outside
  <1>3. /\ pc[t] = "user" /\ pc' \in [Thread -> Place] /\ pc'[t] = "scan"
        /\ blocked' \in [Thread -> SUBSET Sigs] /\ blocked'[t] \in MaySet /\ waiting[t] = {} /\ ~restore[t]
        /\ call' \in [Thread -> Call] /\ call'[t].op = "epoll" /\ call'[t].old = blocked[t]
        /\ \A u \in Thread \ {t} : pc'[u] = pc[u] /\ blocked'[u] = blocked[u] /\ call'[u] = call[u]
    <2>1. pc[t] = "user"
      BY DEF sys_epoll_pwait, User
    <2>2. waiting[t] = {} /\ ~restore[t] /\ blocked[t] \in MaySet
      BY <2>1, InUser
    <2>3. PICK m \in Masks : blocked' = [blocked EXCEPT ![t] = m \ Unblockable]
      BY DEF sys_epoll_pwait
    <2>4. m \ Unblockable \in MaySet
      BY SignalsAssumption DEF MaySet
    <2>5. /\ blocked' \in [Thread -> SUBSET Sigs] /\ blocked'[t] \in MaySet
          /\ \A u \in Thread \ {t} : blocked'[u] = blocked[u]
      BY <1>1, <2>3, <2>4 DEF Types, MaySet
    <2>6. PICK c \in Call : c.op = "epoll" /\ c.old = blocked[t] /\ call' = [call EXCEPT ![t] = c]
      BY <2>2, CallingEpoll DEF sys_epoll_pwait, Recheck
    <2>7. /\ call' \in [Thread -> Call] /\ call'[t] = c
          /\ \A u \in Thread \ {t} : call'[u] = call[u]
      BY <1>1, <2>6 DEF Types
    <2>8. "scan" \in Place
      BY DEF Place
    <2> QED
      BY <1>1, <2>1, <2>2, <2>5, <2>6, <2>7, <2>8, Goes DEF sys_epoll_pwait
  <1>4. Types'
    BY <1>1, <1>2, <1>3 DEF Types
  <1>5. SameBut(t)
    BY <1>1, <1>2, <1>3 DEF SameBut, Types
  <1>6. MasksInv(t)'
    BY <1>1, <1>2, <1>3 DEF ThreadInv, MasksInv, MaySet
  <1>7. SleepInv(t)'
    BY <1>1, <1>2, <1>3 DEF ThreadInv, SleepInv, Coming, Seen
  <1>8. RestoreInv(t)'
    BY <1>1, <1>2, <1>3 DEF ThreadInv, RestoreInv
  <1>9. BaseInv(t)'
    BY <1>1, <1>2, <1>3 DEF ThreadInv, BaseInv, Outer, InEpoll
  <1>10. RestartInv(t)'
    BY <1>1, <1>2, <1>3, Returning DEF ThreadInv, RestartInv
  <1> QED
    BY <1>2, <1>3, <1>4, <1>5, <1>6, <1>7, <1>8, <1>9, <1>10, Turn DEF ThreadInv

\* sys_rt_sigaction keeps the invariant.
LEMMA SysRtSigaction == ASSUME SignalInv, NEW t \in Thread, sys_rt_sigaction(t)  PROVE SignalInv'
  <1>1. Types /\ ThreadInv(t)
    BY DEF SignalInv
  <1>2. UNCHANGED <<blocked, waiting, saved, restore, group_exit, call, timed_out, frames,
                    base, overtaken, post, posts>>
    BY DEF sys_rt_sigaction, masks, flow, outside
  <1>3. /\ pc[t] = "user"
        /\ pc' \in [Thread -> Place] /\ context' \in [Thread -> Context]
        /\ pc'[t] = "check" /\ context'[t] = Done("ok")
        /\ action' \in [Thread -> [Sigs -> Action]] /\ pending' \in [Thread -> SUBSET Sigs]
        /\ \A u \in Thread \ {t} : pc'[u] = pc[u] /\ context'[u] = context[u] /\ pending'[u] = pending[u]
    <2>1. pc[t] = "user" /\ Return(t, "ok")
      BY DEF sys_rt_sigaction, User
    <2>2. PICK s \in Sigs \ Unblockable, a \in Actions :
            /\ action' = [action EXCEPT ![t][s] = [a EXCEPT !.mask = @ \ Unblockable]]
            /\ pending' = IF signal_ignored(t, s)' THEN [pending EXCEPT ![t] = @ \ {s}] ELSE pending
      BY DEF sys_rt_sigaction
    <2>3. [a EXCEPT !.mask = @ \ Unblockable] \in Action
      BY SignalsAssumption DEF Action
    <2>4. action' \in [Thread -> [Sigs -> Action]]
      BY <1>1, <2>2, <2>3 DEF Types
    <2>5. pending' \in [Thread -> SUBSET Sigs] /\ \A u \in Thread \ {t} : pending'[u] = pending[u]
      <3>1. CASE pending' = pending
        BY <1>1, <3>1 DEF Types
      <3>2. CASE pending' = [pending EXCEPT ![t] = @ \ {s}]
        BY <1>1, <3>2 DEF Types
      <3> QED
        BY <2>2, <3>1, <3>2
    <2> QED
      BY <1>1, <2>1, <2>4, <2>5, Returns
  <1>4. Types'
    BY <1>1, <1>2, <1>3 DEF Types
  <1>5. SameBut(t)
    BY <1>1, <1>2, <1>3 DEF SameBut, Types
  <1>6. MasksInv(t)'
    BY <1>1, <1>2, <1>3 DEF ThreadInv, MasksInv, Types
  <1>7. SleepInv(t)'
    BY <1>1, <1>2, <1>3 DEF ThreadInv, SleepInv, Coming, Seen
  <1>8. RestoreInv(t)'
    BY <1>1, <1>2, <1>3 DEF ThreadInv, RestoreInv
  <1>9. BaseInv(t)'
    BY <1>1, <1>2, <1>3 DEF ThreadInv, BaseInv, Outer, InEpoll
  <1>10. RestartInv(t)'
    BY <1>1, <1>2, <1>3, Returning DEF ThreadInv, RestartInv
  <1> QED
    BY <1>2, <1>3, <1>4, <1>5, <1>6, <1>7, <1>8, <1>9, <1>10, Turn DEF ThreadInv

\* process_exec keeps the invariant.
LEMMA ProcessExec == ASSUME SignalInv, NEW t \in Thread, process_exec(t)  PROVE SignalInv'
  <1>1. Types /\ ThreadInv(t)
    BY DEF SignalInv
  <1>2. UNCHANGED <<pending, blocked, waiting, saved, restore, group_exit, call, timed_out,
                    overtaken, post, posts>>
    BY DEF process_exec, masks, flow, outside
  <1>3. /\ pc[t] = "user"
        /\ pc' \in [Thread -> Place] /\ context' \in [Thread -> Context]
        /\ pc'[t] = "check" /\ context'[t] = Done("ok")
        /\ action' \in [Thread -> [Sigs -> Action]] /\ frames' \in [Thread -> Seq(Frame)]
        /\ base' \in [Thread -> MaySet] /\ frames'[t] = <<>> /\ base'[t] = blocked[t] /\ ~restore[t]
        /\ \A u \in Thread \ {t} : /\ pc'[u] = pc[u] /\ context'[u] = context[u]
                                   /\ frames'[u] = frames[u] /\ base'[u] = base[u]
    <2>1. pc[t] = "user" /\ Return(t, "ok")
      BY DEF process_exec, User
    <2>2. blocked[t] \in MaySet /\ ~restore[t]
      BY <2>1, InUser
    <2>3. Dfl \in Action
      BY DEF Dfl, Action
    <2>4. action' \in [Thread -> [Sigs -> Action]]
      BY <1>1, <2>3 DEF Types, process_exec
    <2>5. /\ frames' \in [Thread -> Seq(Frame)] /\ frames'[t] = <<>>
          /\ \A u \in Thread \ {t} : frames'[u] = frames[u]
      BY <1>1 DEF Types, process_exec
    <2>6. /\ base' \in [Thread -> MaySet] /\ base'[t] = blocked[t]
          /\ \A u \in Thread \ {t} : base'[u] = base[u]
      BY <1>1, <2>2 DEF Types, process_exec
    <2> QED
      BY <1>1, <2>1, <2>2, <2>4, <2>5, <2>6, Returns
  <1>4. Types'
    BY <1>1, <1>2, <1>3 DEF Types
  <1>5. SameBut(t)
    BY <1>1, <1>2, <1>3 DEF SameBut, Types
  <1>6. MasksInv(t)'
    BY <1>1, <1>2, <1>3 DEF ThreadInv, MasksInv, Types
  <1>7. SleepInv(t)'
    BY <1>1, <1>2, <1>3 DEF ThreadInv, SleepInv, Coming, Seen
  <1>8. RestoreInv(t)'
    BY <1>1, <1>2, <1>3 DEF ThreadInv, RestoreInv
  <1>9. BaseInv(t)'
    BY <1>1, <1>2, <1>3 DEF ThreadInv, BaseInv, Outer, InEpoll
  <1>10. RestartInv(t)'
    BY <1>1, <1>2, <1>3, Returning DEF ThreadInv, RestartInv
  <1> QED
    BY <1>2, <1>3, <1>4, <1>5, <1>6, <1>7, <1>8, <1>9, <1>10, Turn DEF ThreadInv

\* sys_rt_sigsuspend keeps the invariant.
LEMMA SysRtSigsuspend == ASSUME SignalInv, NEW t \in Thread, sys_rt_sigsuspend(t)  PROVE SignalInv'
  <1>1. Types /\ ThreadInv(t)
    BY DEF SignalInv
  <1>2. UNCHANGED <<pending, waiting, action, group_exit, timed_out, frames, base, overtaken, post, posts>>
    BY DEF sys_rt_sigsuspend, masks, flow, outside
  <1>3. /\ pc[t] = "user"
        /\ pc' \in [Thread -> Place] /\ context' \in [Thread -> Context]
        /\ \/ pc'[t] = "sleep" /\ context' = context /\ pending[t] \subseteq blocked'[t]
           \/ pc'[t] = "check" /\ context'[t] = Done("eintr")
        /\ blocked' \in [Thread -> SUBSET Sigs] /\ blocked'[t] \in MaySet
        /\ saved' \in [Thread -> MaySet] /\ restore' \in [Thread -> BOOLEAN] /\ call' \in [Thread -> Call]
        /\ saved'[t] = blocked[t] /\ restore'[t] /\ call'[t].op = "pause"
        /\ waiting[t] = {} /\ ~restore[t] /\ post.to # t
        /\ \A u \in Thread \ {t} : /\ pc'[u] = pc[u] /\ context'[u] = context[u] /\ blocked'[u] = blocked[u]
                                   /\ saved'[u] = saved[u] /\ restore'[u] = restore[u] /\ call'[u] = call[u]
    <2>1. pc[t] = "user" /\ LockFree
      BY DEF sys_rt_sigsuspend, User
    <2>2. waiting[t] = {} /\ ~restore[t] /\ blocked[t] \in MaySet /\ post.to # t
      BY <2>1, InUser, NotPosting
    <2>3. PICK m \in Masks : /\ blocked' = [blocked EXCEPT ![t] = m \ Unblockable]
                             /\ SleepOr(t, Done("eintr"), m \ Unblockable)
      BY DEF sys_rt_sigsuspend
    <2>4. m \ Unblockable \in MaySet
      BY SignalsAssumption DEF MaySet
    <2>5. /\ blocked' \in [Thread -> SUBSET Sigs] /\ blocked'[t] \in MaySet /\ blocked'[t] = m \ Unblockable
          /\ \A u \in Thread \ {t} : blocked'[u] = blocked[u]
      BY <1>1, <2>3, <2>4 DEF Types, MaySet
    <2>6. /\ saved' \in [Thread -> MaySet] /\ restore' \in [Thread -> BOOLEAN]
          /\ saved'[t] = blocked[t] /\ restore'[t]
          /\ \A u \in Thread \ {t} : saved'[u] = saved[u] /\ restore'[u] = restore[u]
      BY <1>1, <2>2 DEF Types, sys_rt_sigsuspend
    <2>7. /\ call' \in [Thread -> Call] /\ call'[t].op = "pause"
          /\ \A u \in Thread \ {t} : call'[u] = call[u]
      BY <1>1, Calling DEF Types, sys_rt_sigsuspend
    <2>8. /\ pc' \in [Thread -> Place] /\ context' \in [Thread -> Context]
          /\ \/ pc'[t] = "sleep" /\ context' = context /\ pending[t] \subseteq m \ Unblockable
             \/ pc'[t] = "check" /\ context'[t] = Done("eintr")
          /\ \A u \in Thread \ {t} : pc'[u] = pc[u] /\ context'[u] = context[u]
      BY <1>1, <2>3, SleepsOrReturns, Returning
    <2> QED
      BY <2>1, <2>2, <2>5, <2>6, <2>7, <2>8
  <1>4. Types'
    BY <1>1, <1>2, <1>3 DEF Types
  <1>5. SameBut(t)
    BY <1>1, <1>2, <1>3 DEF SameBut, Types
  <1>6. MasksInv(t)'
    BY <1>1, <1>2, <1>3 DEF ThreadInv, MasksInv, MaySet
  <1>7. SleepInv(t)'
    BY <1>1, <1>2, <1>3 DEF ThreadInv, SleepInv, Coming, Seen
  <1>8. RestoreInv(t)'
    BY <1>1, <1>2, <1>3 DEF ThreadInv, RestoreInv
  <1>9. BaseInv(t)'
    BY <1>1, <1>2, <1>3 DEF ThreadInv, BaseInv, Outer, InEpoll
  <1>10. RestartInv(t)'
    BY <1>1, <1>2, <1>3, Returning DEF ThreadInv, RestartInv
  <1> QED
    BY <1>2, <1>3, <1>4, <1>5, <1>6, <1>7, <1>8, <1>9, <1>10, Turn DEF ThreadInv

\* sigtimedwait_poll keeps the invariant.
LEMMA SigtimedwaitPoll == ASSUME SignalInv, NEW t \in Thread, sigtimedwait_poll(t)  PROVE SignalInv'
  <1>1. Types /\ ThreadInv(t)
    BY DEF SignalInv
  <1>2. UNCHANGED <<blocked, waiting, saved, restore, action, group_exit, call, timed_out,
                    frames, base, overtaken, post, posts>>
    BY DEF sigtimedwait_poll, masks, flow, outside
  <1>3. /\ pc[t] = "user"
        /\ pc' \in [Thread -> Place] /\ context' \in [Thread -> Context]
        /\ pc'[t] = "check" /\ context'[t] = Done("ok") /\ pending' \in [Thread -> SUBSET Sigs]
        /\ \A u \in Thread \ {t} : pc'[u] = pc[u] /\ context'[u] = context[u] /\ pending'[u] = pending[u]
    <2>1. pc[t] = "user" /\ Return(t, "ok")
      BY DEF sigtimedwait_poll, User
    <2>2. PICK m \in Masks :
            LET R == (m \ Unblockable) \cap pending[t]
            IN  pending' = [pending EXCEPT ![t] = IF R = {} THEN @ ELSE @ \ {Min(R)}]
      BY DEF sigtimedwait_poll
    <2>3. pending' \in [Thread -> SUBSET Sigs] /\ \A u \in Thread \ {t} : pending'[u] = pending[u]
      BY <1>1, <2>2 DEF Types
    <2> QED
      BY <1>1, <2>1, <2>3, Returns
  <1>4. Types'
    BY <1>1, <1>2, <1>3 DEF Types
  <1>5. SameBut(t)
    BY <1>1, <1>2, <1>3 DEF SameBut, Types
  <1>6. MasksInv(t)'
    BY <1>1, <1>2, <1>3 DEF ThreadInv, MasksInv, Types
  <1>7. SleepInv(t)'
    BY <1>1, <1>2, <1>3 DEF ThreadInv, SleepInv, Coming, Seen
  <1>8. RestoreInv(t)'
    BY <1>1, <1>2, <1>3 DEF ThreadInv, RestoreInv
  <1>9. BaseInv(t)'
    BY <1>1, <1>2, <1>3 DEF ThreadInv, BaseInv, Outer, InEpoll
  <1>10. RestartInv(t)'
    BY <1>1, <1>2, <1>3, Returning DEF ThreadInv, RestartInv
  <1> QED
    BY <1>2, <1>3, <1>4, <1>5, <1>6, <1>7, <1>8, <1>9, <1>10, Turn DEF ThreadInv

\* sys_rt_sigtimedwait keeps the invariant.
LEMMA SysRtSigtimedwait == ASSUME SignalInv, NEW t \in Thread, sys_rt_sigtimedwait(t)  PROVE SignalInv'
  <1>1. Types /\ ThreadInv(t)
    BY DEF SignalInv
  <1>2. UNCHANGED <<blocked, saved, restore, action, group_exit, frames, base, overtaken, post, posts>>
    BY DEF sys_rt_sigtimedwait, masks, flow, outside
  <1>3. /\ pc[t] = "user"
        /\ pc' \in [Thread -> Place] /\ context' \in [Thread -> Context]
        /\ pending' \in [Thread -> SUBSET Sigs] /\ waiting' \in [Thread -> SUBSET Sigs]
        /\ call' \in [Thread -> Call] /\ call'[t].op = "timedwait" /\ timed_out' \in [Thread -> BOOLEAN]
        /\ \/ /\ pc'[t] = "sleep" /\ context' = context /\ pending' = pending
              /\ waiting'[t] = call'[t].set /\ pending[t] \subseteq blocked[t] \ waiting'[t]
           \/ /\ pc'[t] = "check" /\ context'[t] \in {Done("ok"), Done("eintr")}
              /\ waiting'[t] = {}
        /\ post.to # t /\ ~restore[t]
        /\ \A u \in Thread \ {t} : /\ pc'[u] = pc[u] /\ context'[u] = context[u] /\ pending'[u] = pending[u]
                                   /\ waiting'[u] = waiting[u] /\ call'[u] = call[u]
    <2>1. pc[t] = "user" /\ LockFree
      BY DEF sys_rt_sigtimedwait, User
    <2>2. post.to # t /\ ~restore[t]
      BY <2>1, InUser, NotPosting
    <2>3. PICK m \in Masks, b \in BOOLEAN :
            /\ call' = [call EXCEPT ![t] =
                          [NoCall EXCEPT !.op = "timedwait", !.set = m \ Unblockable, !.timed = b]]
            /\ TakeOrWait(t, m \ Unblockable)
      BY DEF sys_rt_sigtimedwait
    <2>4. m \ Unblockable \in MaySet
      BY SignalsAssumption DEF MaySet
    <2>5. PICK c \in Call : /\ c.op = "timedwait" /\ c.set = m \ Unblockable
                            /\ call' = [call EXCEPT ![t] = c]
      BY <2>3, <2>4, CallingTimed
    <2>6. /\ call' \in [Thread -> Call] /\ call'[t] = c
          /\ \A u \in Thread \ {t} : call'[u] = call[u]
      BY <1>1, <2>5 DEF Types
    <2>7. timed_out' \in [Thread -> BOOLEAN]
      BY <1>1 DEF Types, sys_rt_sigtimedwait
    <2>8. /\ pc' \in [Thread -> Place] /\ context' \in [Thread -> Context]
          /\ pending' \in [Thread -> SUBSET Sigs] /\ waiting' \in [Thread -> SUBSET Sigs]
          /\ \/ /\ pc'[t] = "sleep" /\ context' = context /\ pending' = pending
                /\ waiting'[t] = m \ Unblockable /\ pending[t] \subseteq blocked[t] \ waiting'[t]
             \/ /\ pc'[t] = "check" /\ context'[t] \in {Done("ok"), Done("eintr")}
                /\ waiting'[t] = {}
          /\ \A u \in Thread \ {t} : /\ pc'[u] = pc[u] /\ context'[u] = context[u]
                                     /\ pending'[u] = pending[u] /\ waiting'[u] = waiting[u]
      BY <1>1, <2>3, <2>4, TakesOrWaits
    <2> QED
      BY <2>1, <2>2, <2>5, <2>6, <2>7, <2>8
  <1>4. Types'
    BY <1>1, <1>2, <1>3 DEF Types
  <1>5. SameBut(t)
    BY <1>1, <1>2, <1>3 DEF SameBut, Types
  <1>6. MasksInv(t)'
    BY <1>1, <1>2, <1>3 DEF ThreadInv, MasksInv, Types
  <1>7. SleepInv(t)'
    BY <1>1, <1>2, <1>3 DEF ThreadInv, SleepInv, Coming, Seen
  <1>8. RestoreInv(t)'
    BY <1>1, <1>2, <1>3 DEF ThreadInv, RestoreInv
  <1>9. BaseInv(t)'
    BY <1>1, <1>2, <1>3 DEF ThreadInv, BaseInv, Outer, InEpoll
  <1>10. RestartInv(t)'
    BY <1>1, <1>2, <1>3, Returning DEF ThreadInv, RestartInv
  <1> QED
    BY <1>2, <1>3, <1>4, <1>5, <1>6, <1>7, <1>8, <1>9, <1>10, Turn DEF ThreadInv

\* epoll_scan keeps the invariant.
LEMMA EpollScan == ASSUME SignalInv, NEW t \in Thread, epoll_scan(t)  PROVE SignalInv'
  <1>1. Types /\ ThreadInv(t)
    BY DEF SignalInv
  <1>2. UNCHANGED <<pending, waiting, action, group_exit, call, frames, base, overtaken, post, posts>>
    BY DEF epoll_scan, masks, flow, outside
  <1>3. /\ pc[t] = "scan"
        /\ pc' \in [Thread -> Place] /\ context' \in [Thread -> Context]
        /\ timed_out' \in [Thread -> BOOLEAN] /\ blocked' \in [Thread -> SUBSET Sigs]
        /\ \/ /\ pc'[t] = "check" /\ context'[t] = Done("ok") /\ blocked'[t] = call[t].old /\ ~restore'[t]
           \/ /\ pc'[t] = "check" /\ context'[t] = Done("eintr") /\ saved'[t] = call[t].old /\ restore'[t] /\ blocked' = blocked
           \/ /\ pc'[t] = "sleep" /\ context' = context /\ blocked' = blocked /\ ~restore'[t]
              /\ ~signal_wakes(t)
        /\ saved' \in [Thread -> MaySet] /\ restore' \in [Thread -> BOOLEAN]
        /\ \A u \in Thread \ {t} : /\ pc'[u] = pc[u] /\ context'[u] = context[u] /\ blocked'[u] = blocked[u]
                                   /\ saved'[u] = saved[u] /\ restore'[u] = restore[u]
    <2>1. pc[t] = "scan" /\ timed_out' \in [Thread -> BOOLEAN]
      BY <1>1 DEF epoll_scan, Types
    <2>2. call[t].old \in MaySet /\ ~restore[t] /\ MaySet \subseteq SUBSET Sigs
      BY <1>1, <2>1 DEF ThreadInv, RestoreInv, Types, Call, MaySet
    <2>3. \/ EpollDone(t) \/ EpollInterrupted(t)
          \/ Goto(t, "sleep") /\ UNCHANGED <<blocked, saved, restore, context>> /\ ~signal_wakes(t)
      BY DEF epoll_scan
    <2>4. CASE EpollDone(t)
      <3>1. Return(t, "ok") /\ saved' = saved /\ restore' = restore
        BY <2>4 DEF EpollDone
      <3>2. /\ blocked' \in [Thread -> SUBSET Sigs] /\ blocked'[t] = call[t].old
            /\ \A u \in Thread \ {t} : blocked'[u] = blocked[u]
        BY <1>1, <2>2, <2>4 DEF EpollDone, PutBack, Types
      <3> QED
        BY <1>1, <2>1, <2>2, <3>1, <3>2, Returns DEF Types
    <2>5. CASE EpollInterrupted(t)
      BY <1>1, <2>1, <2>2, <2>5, Interrupts
    <2>6. CASE Goto(t, "sleep") /\ UNCHANGED <<blocked, saved, restore, context>> /\ ~signal_wakes(t)
      <3>1. "sleep" \in Place
        BY DEF Place
      <3> QED
        BY <1>1, <2>1, <2>2, <2>6, <3>1, Goes DEF Types
    <2> QED
      BY <2>3, <2>4, <2>5, <2>6
  <1>4. Types'
    BY <1>1, <1>2, <1>3 DEF Types
  <1>5. SameBut(t)
    BY <1>1, <1>2, <1>3 DEF SameBut, Types
  <1>6. MasksInv(t)'
    BY <1>1, <1>2, <1>3 DEF ThreadInv, MasksInv, MaySet, Types, Call
  <1>7. SleepInv(t)'
    BY <1>1, <1>2, <1>3 DEF ThreadInv, MasksInv, SleepInv, Coming, Seen, signal_wakes, Types, Unlocked
  <1>8. RestoreInv(t)'
    BY <1>1, <1>2, <1>3 DEF ThreadInv, RestoreInv
  <1>9. BaseInv(t)'
    BY <1>1, <1>2, <1>3 DEF ThreadInv, BaseInv, RestoreInv, MasksInv, Outer, InEpoll
  <1>10. RestartInv(t)'
    BY <1>1, <1>2, <1>3, Returning DEF ThreadInv, RestartInv
  <1> QED
    BY <1>2, <1>3, <1>4, <1>5, <1>6, <1>7, <1>8, <1>9, <1>10, Turn DEF ThreadInv

\* resume_epoll keeps the invariant.
LEMMA ResumeEpoll == ASSUME SignalInv, NEW t \in Thread, resume_epoll(t)  PROVE SignalInv'
  <1>1. Types /\ ThreadInv(t)
    BY DEF SignalInv
  <1>2. UNCHANGED <<pending, waiting, action, group_exit, call, timed_out, frames, base, overtaken, post,
                    posts>>
    BY DEF resume_epoll, masks, flow, outside
  <1>3. /\ pc[t] = "woken" /\ call[t].op = "epoll"
        /\ pc' \in [Thread -> Place] /\ context' \in [Thread -> Context]
        /\ blocked' = blocked /\ ~restore[t]
        /\ \/ /\ pc'[t] = "check" /\ context'[t] = Done("eintr") /\ saved'[t] = call[t].old /\ restore'[t]
           \/ pc'[t] = "scan" /\ context' = context /\ ~restore'[t]
        /\ saved' \in [Thread -> MaySet] /\ restore' \in [Thread -> BOOLEAN]
        /\ \A u \in Thread \ {t} : /\ pc'[u] = pc[u] /\ context'[u] = context[u] /\ blocked'[u] = blocked[u]
                                   /\ saved'[u] = saved[u] /\ restore'[u] = restore[u]
    <2>1. pc[t] = "woken" /\ call[t].op = "epoll"
      BY DEF resume_epoll
    <2>2. call[t].old \in MaySet /\ ~restore[t]
      BY <1>1, <2>1 DEF ThreadInv, RestoreInv, Types, Call
    <2>3. \/ EpollInterrupted(t)
          \/ Goto(t, "scan") /\ UNCHANGED <<blocked, saved, restore, context>>
      BY DEF resume_epoll
    <2>4. CASE EpollInterrupted(t)
      BY <1>1, <2>1, <2>2, <2>4, Interrupts
    <2>5. CASE Goto(t, "scan") /\ UNCHANGED <<blocked, saved, restore, context>>
      <3>1. "scan" \in Place
        BY DEF Place
      <3> QED
        BY <1>1, <2>1, <2>2, <2>5, <3>1, Goes DEF Types
    <2> QED
      BY <2>3, <2>4, <2>5
  <1>4. Types'
    BY <1>1, <1>2, <1>3 DEF Types
  <1>5. SameBut(t)
    BY <1>1, <1>2, <1>3 DEF SameBut, Types
  <1>6. MasksInv(t)'
    BY <1>1, <1>2, <1>3 DEF ThreadInv, MasksInv, Types
  <1>7. SleepInv(t)'
    BY <1>1, <1>2, <1>3 DEF ThreadInv, SleepInv, Coming, Seen
  <1>8. RestoreInv(t)'
    BY <1>1, <1>2, <1>3 DEF ThreadInv, RestoreInv
  <1>9. BaseInv(t)'
    BY <1>1, <1>2, <1>3 DEF ThreadInv, BaseInv, Outer, InEpoll
  <1>10. RestartInv(t)'
    BY <1>1, <1>2, <1>3, Returning DEF ThreadInv, RestartInv
  <1> QED
    BY <1>2, <1>3, <1>4, <1>5, <1>6, <1>7, <1>8, <1>9, <1>10, Turn DEF ThreadInv

\* resume_pause keeps the invariant.
LEMMA ResumePause == ASSUME SignalInv, NEW t \in Thread, resume_pause(t)  PROVE SignalInv'
  <1>1. Types /\ ThreadInv(t)
    BY DEF SignalInv
  <1>2. UNCHANGED <<pending, blocked, waiting, saved, restore, action, group_exit, call,
                    timed_out, frames, base, overtaken, post, posts>>
    BY DEF resume_pause, masks, flow, outside
  <1>3. /\ pc[t] = "woken" /\ call[t].op = "pause" /\ waiting[t] = {} /\ post.to # t
        /\ pc' \in [Thread -> Place] /\ context' \in [Thread -> Context]
        /\ \/ /\ pc'[t] = "check" /\ context'[t] = Done("eintr")
           \/ pc'[t] = "sleep" /\ context' = context /\ ~signal_wakes(t)
        /\ \A u \in Thread \ {t} : pc'[u] = pc[u] /\ context'[u] = context[u]
    <2>1. pc[t] = "woken" /\ call[t].op = "pause" /\ LockFree
      BY DEF resume_pause
    <2>2. waiting[t] = {} /\ post.to # t
      BY <1>1, <2>1, NotPosting DEF ThreadInv, MasksInv
    <2>3. \/ Return(t, "eintr")
          \/ Goto(t, "sleep") /\ UNCHANGED context /\ ~signal_wakes(t)
      BY DEF resume_pause
    <2>4. CASE Goto(t, "sleep") /\ UNCHANGED context /\ ~signal_wakes(t)
      <3>1. "sleep" \in Place
        BY DEF Place
      <3> QED
        BY <1>1, <2>1, <2>2, <2>4, <3>1, Goes DEF Types
    <2>5. CASE Return(t, "eintr")
      BY <1>1, <2>1, <2>2, <2>5, Returns
    <2> QED
      BY <2>3, <2>4, <2>5
  <1>4. Types'
    BY <1>1, <1>2, <1>3 DEF Types
  <1>5. SameBut(t)
    BY <1>1, <1>2, <1>3 DEF SameBut, Types
  <1>6. MasksInv(t)'
    BY <1>1, <1>2, <1>3 DEF ThreadInv, MasksInv, Types
  <1>7. SleepInv(t)'
    BY <1>1, <1>2, <1>3 DEF SleepInv, Coming, Seen, signal_wakes, Types
  <1>8. RestoreInv(t)'
    BY <1>1, <1>2, <1>3 DEF ThreadInv, RestoreInv
  <1>9. BaseInv(t)'
    BY <1>1, <1>2, <1>3 DEF ThreadInv, BaseInv, Outer, InEpoll
  <1>10. RestartInv(t)'
    BY <1>1, <1>2, <1>3, Returning DEF ThreadInv, RestartInv
  <1> QED
    BY <1>2, <1>3, <1>4, <1>5, <1>6, <1>7, <1>8, <1>9, <1>10, Turn DEF ThreadInv

\* resume_read keeps the invariant.
LEMMA ResumeRead == ASSUME SignalInv, NEW t \in Thread, resume_read(t)  PROVE SignalInv'
  <1>1. Types /\ ThreadInv(t)
    BY DEF SignalInv
  <1>2. UNCHANGED <<pending, blocked, waiting, saved, restore, action, group_exit, call,
                    timed_out, frames, base, overtaken, post, posts>>
    BY DEF resume_read, masks, flow, outside
  <1>3. /\ pc[t] = "woken" /\ call[t].op = "read" /\ waiting[t] = {} /\ post.to # t
        /\ pc' \in [Thread -> Place] /\ context' \in [Thread -> Context]
        /\ \/ /\ pc'[t] = "check" /\ context'[t] = Restarts("read")
           \/ /\ pc'[t] = "check" /\ context'[t] = Done("ok")
           \/ pc'[t] = "sleep" /\ context' = context /\ ~signal_wakes(t)
        /\ \A u \in Thread \ {t} : pc'[u] = pc[u] /\ context'[u] = context[u]
    <2>1. pc[t] = "woken" /\ call[t].op = "read" /\ LockFree
      BY DEF resume_read
    <2>2. waiting[t] = {} /\ post.to # t
      BY <1>1, <2>1, NotPosting DEF ThreadInv, MasksInv
    <2>3. \/ ReturnWith(t, Restarts("read")) \/ Return(t, "ok")
          \/ Goto(t, "sleep") /\ UNCHANGED context /\ ~signal_wakes(t)
      BY DEF resume_read
    <2>4. CASE Goto(t, "sleep") /\ UNCHANGED context /\ ~signal_wakes(t)
      <3>1. "sleep" \in Place
        BY DEF Place
      <3> QED
        BY <1>1, <2>1, <2>2, <2>4, <3>1, Goes DEF Types
    <2>5. CASE ReturnWith(t, Restarts("read"))
      BY <1>1, <2>1, <2>2, <2>5, ReturnsWith, Returning
    <2>6. CASE Return(t, "ok")
      BY <1>1, <2>1, <2>2, <2>6, Returns
    <2> QED
      BY <2>3, <2>4, <2>5, <2>6
  <1>4. Types'
    BY <1>1, <1>2, <1>3 DEF Types
  <1>5. SameBut(t)
    BY <1>1, <1>2, <1>3 DEF SameBut, Types
  <1>6. MasksInv(t)'
    BY <1>1, <1>2, <1>3 DEF ThreadInv, MasksInv, Types
  <1>7. SleepInv(t)'
    BY <1>1, <1>2, <1>3 DEF SleepInv, Coming, Seen, signal_wakes, Types
  <1>8. RestoreInv(t)'
    BY <1>1, <1>2, <1>3 DEF ThreadInv, RestoreInv
  <1>9. BaseInv(t)'
    BY <1>1, <1>2, <1>3 DEF ThreadInv, BaseInv, Outer, InEpoll
  <1>10. RestartInv(t)'
    BY <1>1, <1>2, <1>3, Returning DEF ThreadInv, RestartInv
  <1> QED
    BY <1>2, <1>3, <1>4, <1>5, <1>6, <1>7, <1>8, <1>9, <1>10, Turn DEF ThreadInv

\* resume_recv keeps the invariant.
LEMMA ResumeRecv == ASSUME SignalInv, NEW t \in Thread, resume_recv(t)  PROVE SignalInv'
  <1>1. Types /\ ThreadInv(t)
    BY DEF SignalInv
  <1>2. UNCHANGED <<pending, blocked, waiting, saved, restore, action, group_exit, call,
                    frames, base, overtaken, post, posts>>
    BY DEF resume_recv, masks, flow, outside
  <1>3. /\ pc[t] = "woken" /\ call[t].op = "recv" /\ waiting[t] = {}
        /\ pc' \in [Thread -> Place] /\ context' \in [Thread -> Context]
        /\ timed_out' \in [Thread -> BOOLEAN]
        /\ \/ pc'[t] = "check"
           \/ pc'[t] = "sleep" /\ context' = context /\ ~signal_wakes(t)
        /\ \A u \in Thread \ {t} : pc'[u] = pc[u] /\ context'[u] = context[u]
    <2>1. pc[t] = "woken" /\ call[t].op = "recv"
      BY DEF resume_recv
    <2>2. waiting[t] = {} /\ call[t].timed \in BOOLEAN /\ timed_out' \in [Thread -> BOOLEAN]
      BY <1>1, <2>1 DEF ThreadInv, MasksInv, resume_recv, Types, Call
    <2>3. \/ ReturnWith(t, RecvInterrupted(call[t].timed)) \/ Return(t, "ok")
          \/ Goto(t, "sleep") /\ UNCHANGED context /\ ~signal_wakes(t)
      BY DEF resume_recv
    <2>4. CASE Goto(t, "sleep") /\ UNCHANGED context /\ ~signal_wakes(t)
      <3>1. "sleep" \in Place
        BY DEF Place
      <3> QED
        BY <1>1, <2>1, <2>2, <2>4, <3>1, Goes DEF Types
    <2>5. CASE ReturnWith(t, RecvInterrupted(call[t].timed))
      BY <1>1, <2>1, <2>2, <2>5, ReturnsWith, Receiving
    <2>6. CASE Return(t, "ok")
      BY <1>1, <2>1, <2>2, <2>6, Returns
    <2> QED
      BY <2>3, <2>4, <2>5, <2>6
  <1>4. Types'
    BY <1>1, <1>2, <1>3 DEF Types
  <1>5. SameBut(t)
    BY <1>1, <1>2, <1>3 DEF SameBut, Types
  <1>6. MasksInv(t)'
    BY <1>1, <1>2, <1>3 DEF ThreadInv, MasksInv, Types
  <1>7. SleepInv(t)'
    BY <1>1, <1>2, <1>3 DEF SleepInv, Coming, Seen, signal_wakes, Types, Unlocked
  <1>8. RestoreInv(t)'
    BY <1>1, <1>2, <1>3 DEF ThreadInv, RestoreInv
  <1>9. BaseInv(t)'
    BY <1>1, <1>2, <1>3 DEF ThreadInv, BaseInv, Outer, InEpoll
  <1>10. RestartInv(t)'
    BY <1>1, <1>2, <1>3, Returning DEF ThreadInv, RestartInv
  <1> QED
    BY <1>2, <1>3, <1>4, <1>5, <1>6, <1>7, <1>8, <1>9, <1>10, Turn DEF ThreadInv

\* resume_timedwait keeps the invariant.
LEMMA ResumeTimedwait == ASSUME SignalInv, NEW t \in Thread, resume_timedwait(t)  PROVE SignalInv'
  <1>1. Types /\ ThreadInv(t)
    BY DEF SignalInv
  <1>2. UNCHANGED <<blocked, saved, restore, action, group_exit, call, frames, base, overtaken, post,
                    posts>>
    BY DEF resume_timedwait, masks, flow, outside
  <1>3. /\ pc[t] = "woken" /\ call[t].op = "timedwait" /\ post.to # t /\ timed_out' \in [Thread -> BOOLEAN]
        /\ pc' \in [Thread -> Place] /\ context' \in [Thread -> Context]
        /\ pending' \in [Thread -> SUBSET Sigs] /\ waiting' \in [Thread -> SUBSET Sigs]
        /\ \/ /\ pc'[t] = "sleep" /\ context' = context /\ pending' = pending
              /\ waiting'[t] = call[t].set /\ pending[t] \subseteq blocked[t] \ waiting'[t]
           \/ /\ pc'[t] = "check" /\ context'[t] \in {Done("ok"), Done("eintr")}
              /\ waiting'[t] = {}
        /\ \A u \in Thread \ {t} : /\ pc'[u] = pc[u] /\ context'[u] = context[u]
                                   /\ pending'[u] = pending[u] /\ waiting'[u] = waiting[u]
    <2>1. /\ pc[t] = "woken" /\ call[t].op = "timedwait" /\ LockFree
          /\ timed_out' \in [Thread -> BOOLEAN]
      BY <1>1 DEF resume_timedwait, Types
    <2>2. post.to # t /\ call[t].set \in MaySet
      BY <1>1, <2>1, NotPosting DEF Types, Call
    <2>3. \/ waiting' = [waiting EXCEPT ![t] = {}] /\ Return(t, "ok") /\ pending' = pending
          \/ TakeOrWait(t, call[t].set)
      BY DEF resume_timedwait, NotWaiting
    <2>4. CASE waiting' = [waiting EXCEPT ![t] = {}] /\ Return(t, "ok") /\ pending' = pending
      <3>1. /\ waiting' \in [Thread -> SUBSET Sigs] /\ waiting'[t] = {}
            /\ \A u \in Thread \ {t} : waiting'[u] = waiting[u]
        BY <1>1, <2>4 DEF Types
      <3> QED
        BY <1>1, <2>1, <2>2, <2>4, <3>1, Returns DEF Types
    <2>5. CASE TakeOrWait(t, call[t].set)
      BY <1>1, <2>1, <2>2, <2>5, TakesOrWaits
    <2> QED
      BY <2>3, <2>4, <2>5
  <1>4. Types'
    BY <1>1, <1>2, <1>3 DEF Types
  <1>5. SameBut(t)
    BY <1>1, <1>2, <1>3 DEF SameBut, Types
  <1>6. MasksInv(t)'
    BY <1>1, <1>2, <1>3 DEF ThreadInv, MasksInv, Types
  <1>7. SleepInv(t)'
    BY <1>1, <1>2, <1>3 DEF ThreadInv, SleepInv, Coming, Seen
  <1>8. RestoreInv(t)'
    BY <1>1, <1>2, <1>3 DEF ThreadInv, RestoreInv
  <1>9. BaseInv(t)'
    BY <1>1, <1>2, <1>3 DEF ThreadInv, BaseInv, Outer, InEpoll
  <1>10. RestartInv(t)'
    BY <1>1, <1>2, <1>3, Returning DEF ThreadInv, RestartInv
  <1> QED
    BY <1>2, <1>3, <1>4, <1>5, <1>6, <1>7, <1>8, <1>9, <1>10, Turn DEF ThreadInv

\* syscall_return keeps the invariant.
LEMMA SyscallReturn == ASSUME SignalInv, NEW t \in Thread, syscall_return(t)  PROVE SignalInv'
  <1>1. Types /\ ThreadInv(t)
    BY DEF SignalInv
  <1>2. UNCHANGED <<pending, blocked, waiting, saved, restore, action, group_exit, context,
                    frames, base, post, posts>>
    BY DEF syscall_return, masks, flow, outside
  <1>3. /\ pc[t] = "check" /\ pc' \in [Thread -> Place]
        /\ call' \in [Thread -> Call] /\ timed_out' \in [Thread -> BOOLEAN]
        /\ overtaken' \in [Thread -> SUBSET Sigs]
        /\ \/ pc'[t] = "user" /\ context[t].rax # "erestart" /\ ~restore[t]
           \/ pc'[t] = "deliver"
        /\ \A u \in Thread \ {t} : /\ pc'[u] = pc[u] /\ call'[u] = call[u]
                                   /\ overtaken'[u] = overtaken[u]
    <2>1. NoCall \in Call
      BY DEF NoCall, Call, MaySet
    <2>2. /\ call' \in [Thread -> Call] /\ timed_out' \in [Thread -> BOOLEAN]
          /\ overtaken' \in [Thread -> SUBSET Sigs]
          /\ \A u \in Thread \ {t} : call'[u] = call[u] /\ overtaken'[u] = overtaken[u]
      BY <1>1, <2>1 DEF syscall_return, Types
    <2>3. "user" \in Place /\ "deliver" \in Place
      BY DEF Place
    <2>4. /\ pc[t] = "check"
          /\ \/ Goto(t, "user") /\ context[t].rax # "erestart" /\ ~restore[t]
             \/ Goto(t, "deliver")
      BY DEF syscall_return
    <2> QED
      BY <1>1, <2>2, <2>3, <2>4, Goes
  <1>4. Types'
    BY <1>1, <1>2, <1>3 DEF Types
  <1>5. SameBut(t)
    BY <1>1, <1>2, <1>3 DEF SameBut, Types
  <1>6. MasksInv(t)'
    BY <1>1, <1>2, <1>3 DEF ThreadInv, MasksInv, Types
  <1>7. SleepInv(t)'
    BY <1>1, <1>2, <1>3 DEF ThreadInv, SleepInv, Coming, Seen
  <1>8. RestoreInv(t)'
    BY <1>1, <1>2, <1>3 DEF ThreadInv, RestoreInv
  <1>9. BaseInv(t)'
    BY <1>1, <1>2, <1>3 DEF ThreadInv, BaseInv, Outer, InEpoll
  <1>10. RestartInv(t)'
    BY <1>1, <1>2, <1>3, Returning DEF ThreadInv, RestartInv
  <1> QED
    BY <1>2, <1>3, <1>4, <1>5, <1>6, <1>7, <1>8, <1>9, <1>10, Turn DEF ThreadInv

\* interrupt_return keeps the invariant.
LEMMA InterruptReturn == ASSUME SignalInv, NEW t \in Thread, interrupt_return(t)  PROVE SignalInv'
  <1>1. Types /\ ThreadInv(t)
    BY DEF SignalInv
  <1>2. UNCHANGED <<pending, blocked, waiting, saved, restore, action, group_exit, call,
                    timed_out, context, frames, base, overtaken, post, posts>>
    BY DEF interrupt_return, masks, flow, outside
  <1>3. /\ pc[t] = "user" /\ pc' \in [Thread -> Place] /\ pc'[t] = "deliver"
        /\ \A u \in Thread \ {t} : pc'[u] = pc[u]
    <2>1. "deliver" \in Place
      BY DEF Place
    <2> QED
      BY <1>1, <2>1, Goes DEF interrupt_return
  <1>4. Types'
    BY <1>1, <1>2, <1>3 DEF Types
  <1>5. SameBut(t)
    BY <1>1, <1>2, <1>3 DEF SameBut, Types
  <1>6. MasksInv(t)'
    BY <1>1, <1>2, <1>3 DEF ThreadInv, MasksInv, Types
  <1>7. SleepInv(t)'
    BY <1>1, <1>2, <1>3 DEF ThreadInv, SleepInv, Coming, Seen
  <1>8. RestoreInv(t)'
    BY <1>1, <1>2, <1>3 DEF ThreadInv, RestoreInv
  <1>9. BaseInv(t)'
    BY <1>1, <1>2, <1>3 DEF ThreadInv, BaseInv, Outer, InEpoll
  <1>10. RestartInv(t)'
    BY <1>1, <1>2, <1>3, Returning DEF ThreadInv, RestartInv
  <1> QED
    BY <1>2, <1>3, <1>4, <1>5, <1>6, <1>7, <1>8, <1>9, <1>10, Turn DEF ThreadInv

\* signal_fault keeps the invariant.
LEMMA SignalFault == ASSUME SignalInv, NEW t \in Thread, NEW s \in Sigs, signal_fault(t, s)  PROVE SignalInv'
  <1>1. Types /\ ThreadInv(t)
    BY DEF SignalInv
  <1>2. UNCHANGED <<blocked, waiting, saved, restore, action, group_exit, call, timed_out,
                    context, frames, base, overtaken, post>>
    BY DEF signal_fault, masks, flow, outside
  <1>3. /\ pc[t] = "user" /\ pc' \in [Thread -> Place] /\ pc'[t] = "deliver"
        /\ pending' \in [Thread -> SUBSET Sigs] /\ posts' \in 0 .. MaxPosts
        /\ \A u \in Thread \ {t} : pc'[u] = pc[u] /\ pending'[u] = pending[u]
    <2>1. "deliver" \in Place
      BY DEF Place
    <2>2. /\ pending' \in [Thread -> SUBSET Sigs]
          /\ \A u \in Thread \ {t} : pending'[u] = pending[u]
      BY <1>1 DEF signal_fault, Types
    <2>3. posts' \in 0 .. MaxPosts
      BY <1>1, SignalsAssumption DEF signal_fault, Types
    <2> QED
      BY <1>1, <2>1, <2>2, <2>3, Goes DEF signal_fault, User
  <1>4. Types'
    BY <1>1, <1>2, <1>3 DEF Types
  <1>5. SameBut(t)
    BY <1>1, <1>2, <1>3 DEF SameBut, Types
  <1>6. MasksInv(t)'
    BY <1>1, <1>2, <1>3 DEF ThreadInv, MasksInv, Types
  <1>7. SleepInv(t)'
    BY <1>1, <1>2, <1>3 DEF ThreadInv, SleepInv, Coming, Seen
  <1>8. RestoreInv(t)'
    BY <1>1, <1>2, <1>3 DEF ThreadInv, RestoreInv
  <1>9. BaseInv(t)'
    BY <1>1, <1>2, <1>3 DEF ThreadInv, BaseInv, Outer, InEpoll
  <1>10. RestartInv(t)'
    BY <1>1, <1>2, <1>3, Returning DEF ThreadInv, RestartInv
  <1> QED
    BY <1>2, <1>3, <1>4, <1>5, <1>6, <1>7, <1>8, <1>9, <1>10, Turn DEF ThreadInv

\* deliver_none keeps the invariant.
LEMMA DeliverNone == ASSUME SignalInv, NEW t \in Thread, deliver_none(t)  PROVE SignalInv'
  <1>1. Types /\ ThreadInv(t)
    BY DEF SignalInv
  <1>2. UNCHANGED <<waiting, action, group_exit, call, timed_out, frames, base, overtaken, post, posts>>
    BY DEF deliver_none, masks, flow, outside
  <1>3. /\ pc[t] = "deliver"
        /\ pc' \in [Thread -> Place] /\ context' \in [Thread -> Context]
        /\ pc'[t] = "user" /\ context'[t].rax # "erestart" /\ pending' \in [Thread -> SUBSET Sigs]
        /\ blocked' \in [Thread -> SUBSET Sigs] /\ blocked'[t] = IF restore[t] THEN saved[t] ELSE blocked[t]
        /\ saved' \in [Thread -> MaySet] /\ restore' \in [Thread -> BOOLEAN] /\ ~restore'[t]
        /\ \A u \in Thread \ {t} : /\ pc'[u] = pc[u] /\ context'[u] = context[u] /\ blocked'[u] = blocked[u]
                                   /\ saved'[u] = saved[u] /\ restore'[u] = restore[u]
                                   /\ pending'[u] = pending[u]
    <2>1. pc[t] = "deliver" /\ Goto(t, "user") /\ "user" \in Place
      BY DEF deliver_none, Place
    <2>2. /\ pending' \in [Thread -> SUBSET Sigs]
          /\ \A u \in Thread \ {t} : pending'[u] = pending[u]
      BY <1>1 DEF deliver_none, Types
    <2>3. /\ context' \in [Thread -> Context] /\ context'[t].rax # "erestart"
          /\ \A u \in Thread \ {t} : context'[u] = context[u]
      <3>1. PICK c \in Context : c.rax # "erestart" /\ context' = [context EXCEPT ![t] = c]
        <4>1. CASE Restartable(t)
          BY <1>1, <4>1, Returning DEF deliver_none, Types
        <4>2. CASE ~Restartable(t)
          BY <1>1, <4>2 DEF deliver_none, Restartable, Types
        <4> QED
          BY <4>1, <4>2
      <3> QED
        BY <1>1, <3>1 DEF Types
    <2>4. /\ blocked' \in [Thread -> SUBSET Sigs] /\ blocked'[t] = IF restore[t] THEN saved[t] ELSE blocked[t]
          /\ \A u \in Thread \ {t} : blocked'[u] = blocked[u]
      BY <1>1 DEF deliver_none, Types, MaySet
    <2>5. /\ saved' \in [Thread -> MaySet] /\ restore' \in [Thread -> BOOLEAN] /\ ~restore'[t]
          /\ \A u \in Thread \ {t} : saved'[u] = saved[u] /\ restore'[u] = restore[u]
      BY <1>1 DEF deliver_none, Types, MaySet
    <2> QED
      BY <1>1, <2>1, <2>2, <2>3, <2>4, <2>5, Goes
  <1>4. Types'
    BY <1>1, <1>2, <1>3 DEF Types
  <1>5. SameBut(t)
    BY <1>1, <1>2, <1>3 DEF SameBut, Types
  <1>6. MasksInv(t)'
    BY <1>1, <1>2, <1>3 DEF ThreadInv, MasksInv, MaySet, Types
  <1>7. SleepInv(t)'
    BY <1>1, <1>2, <1>3 DEF ThreadInv, SleepInv, Coming, Seen
  <1>8. RestoreInv(t)'
    BY <1>1, <1>2, <1>3 DEF ThreadInv, RestoreInv
  <1>9. BaseInv(t)'
    BY <1>1, <1>2, <1>3 DEF ThreadInv, BaseInv, Outer, InEpoll
  <1>10. RestartInv(t)'
    BY <1>1, <1>2, <1>3, Returning DEF ThreadInv, RestartInv
  <1> QED
    BY <1>2, <1>3, <1>4, <1>5, <1>6, <1>7, <1>8, <1>9, <1>10, Turn DEF ThreadInv

\* sys_rt_sigreturn keeps the invariant.
LEMMA SysRtSigreturn == ASSUME SignalInv, NEW t \in Thread, sys_rt_sigreturn(t)  PROVE SignalInv'
  <1>1. Types /\ ThreadInv(t)
    BY DEF SignalInv
  <1>2. UNCHANGED <<pending, waiting, saved, restore, action, group_exit, call, timed_out,
                    base, overtaken, post, posts>>
    BY DEF sys_rt_sigreturn, masks, flow, outside
  <1>3. /\ pc[t] = "user" /\ frames[t] # <<>> /\ ~restore[t]
        /\ pc' \in [Thread -> Place] /\ context' \in [Thread -> Context]
        /\ pc'[t] = "check" /\ context'[t].rax # "erestart"
        /\ blocked' \in [Thread -> SUBSET Sigs] /\ blocked'[t] \in MaySet /\ frames' \in [Thread -> Seq(Frame)]
        /\ frames'[t] = <<>> => base[t] = blocked'[t]
        /\ frames'[t] # <<>> => base[t] = frames'[t][1].mask
        /\ \A i \in 1 .. Len(frames'[t]) : frames'[t][i].context.rax # "erestart"
        /\ \A u \in Thread \ {t} : /\ pc'[u] = pc[u] /\ context'[u] = context[u]
                                   /\ blocked'[u] = blocked[u] /\ frames'[u] = frames[u]
    <2>1. pc[t] = "user" /\ frames[t] # <<>> /\ Goto(t, "check") /\ "check" \in Place
      BY DEF sys_rt_sigreturn, User, Place
    <2>2. /\ ~restore[t] /\ base[t] = frames[t][1].mask
          /\ \A i \in 1 .. Len(frames[t]) : frames[t][i].context.rax # "erestart"
      BY <2>1, InUser
    <2>3. PICK n \in Nat : n + 1 = Len(frames[t])
      <3>1. frames[t] \in Seq(Frame) /\ frames[t] # <<>>
        BY <1>1, <2>1 DEF Types
      <3>2. Len(frames[t]) \in Nat /\ Len(frames[t]) # 0
        BY <3>1
      <3>3. Len(frames[t]) - 1 \in Nat /\ (Len(frames[t]) - 1) + 1 = Len(frames[t])
        BY <3>2
      <3> QED
        BY <3>3
    <2>4. frames[t] \in Seq(Frame) /\ frames[t][n + 1] \in Frame
      BY <1>1, <2>3 DEF Types
    <2>5. PICK f \in Frame : f = frames[t][n + 1]
      BY <2>4
    <2>6. f.mask \in MaySet /\ f.mask \ Unblockable = f.mask /\ f.context \in Context
      BY DEF Frame, MaySet
    <2>7. /\ blocked' = [blocked EXCEPT ![t] = f.mask] /\ context' = [context EXCEPT ![t] = f.context]
          /\ frames' = [frames EXCEPT ![t] = SubSeq(frames[t], 1, n)]
      <3>1. /\ blocked' = [blocked EXCEPT ![t] = frames[t][Len(frames[t])].mask \ Unblockable]
            /\ context' = [context EXCEPT ![t] = frames[t][Len(frames[t])].context]
        BY DEF sys_rt_sigreturn, Blockable
      <3>2. frames' = [frames EXCEPT ![t] = SubSeq(frames[t], 1, Len(frames[t]) - 1)]
        BY <1>1 DEF sys_rt_sigreturn, Types
      <3>3. Len(frames[t]) - 1 = n /\ frames[t][Len(frames[t])] = f
        BY <2>3, <2>5
      <3> QED
        BY <2>6, <3>1, <3>2, <3>3
    <2>8. /\ blocked' \in [Thread -> SUBSET Sigs] /\ blocked'[t] = f.mask
          /\ context' \in [Thread -> Context] /\ context'[t] = f.context
          /\ \A u \in Thread \ {t} : blocked'[u] = blocked[u] /\ context'[u] = context[u]
      BY <1>1, <2>6, <2>7 DEF Types, MaySet
    <2>9. /\ SubSeq(frames[t], 1, n) \in Seq(Frame) /\ Len(SubSeq(frames[t], 1, n)) = n
          /\ \A i \in 1 .. n : SubSeq(frames[t], 1, n)[i] = frames[t][i]
      BY <2>3, <2>4
    <2>10. /\ frames' \in [Thread -> Seq(Frame)] /\ frames'[t] = SubSeq(frames[t], 1, n)
          /\ \A u \in Thread \ {t} : frames'[u] = frames[u]
      BY <1>1, <2>7, <2>9 DEF Types
    <2>11. context'[t].rax # "erestart"
      BY <2>2, <2>3, <2>5, <2>8
    <2>12. frames'[t] = <<>> => base[t] = blocked'[t]
      <3>1. frames'[t] = <<>> => n = 0
        BY <2>3, <2>9, <2>10
      <3>2. n = 0 => f = frames[t][1]
        BY <2>5
      <3> QED
        BY <2>2, <2>8, <3>1, <3>2
    <2>13. frames'[t] # <<>> => base[t] = frames'[t][1].mask
      BY <2>2, <2>3, <2>9, <2>10
    <2>14. \A i \in 1 .. Len(frames'[t]) : frames'[t][i].context.rax # "erestart"
      BY <2>2, <2>3, <2>9, <2>10
    <2> QED
      BY <1>1, <2>1, <2>2, <2>6, <2>8, <2>10, <2>11, <2>12, <2>13, <2>14, Goes
  <1>4. Types'
    BY <1>1, <1>2, <1>3 DEF Types
  <1>5. SameBut(t)
    BY <1>1, <1>2, <1>3 DEF SameBut, Types
  <1>6. MasksInv(t)'
    BY <1>1, <1>2, <1>3 DEF ThreadInv, MasksInv, MaySet
  <1>7. SleepInv(t)'
    BY <1>1, <1>2, <1>3 DEF ThreadInv, SleepInv, Coming, Seen
  <1>8. RestoreInv(t)'
    BY <1>1, <1>2, <1>3 DEF ThreadInv, RestoreInv
  <1>9. BaseInv(t)'
    BY <1>1, <1>2, <1>3 DEF ThreadInv, BaseInv, Outer, InEpoll
  <1>10. RestartInv(t)'
    BY <1>1, <1>2, <1>3, Returning DEF ThreadInv, RestartInv
  <1> QED
    BY <1>2, <1>3, <1>4, <1>5, <1>6, <1>7, <1>8, <1>9, <1>10, Turn DEF ThreadInv

\* deliver_handler keeps the invariant.
LEMMA DeliverHandler == ASSUME SignalInv, NEW t \in Thread, deliver_handler(t)  PROVE SignalInv'
  <1>1. Types /\ ThreadInv(t)
    BY DEF SignalInv
  <1>2. UNCHANGED <<waiting, group_exit, call, timed_out, base, overtaken, post, posts>>
    BY DEF deliver_handler, masks, flow, outside
  <1>3. /\ pc[t] = "deliver"
        /\ pc' \in [Thread -> Place] /\ context' \in [Thread -> Context]
        /\ pc'[t] = "user" /\ context'[t].rax # "erestart"
        /\ pending' \in [Thread -> SUBSET Sigs] /\ action' \in [Thread -> [Sigs -> Action]]
        /\ blocked' \in [Thread -> SUBSET Sigs] /\ blocked'[t] \in MaySet /\ frames' \in [Thread -> Seq(Frame)]
        /\ frames'[t] # <<>> /\ base[t] = frames'[t][1].mask
        /\ \A i \in 1 .. Len(frames'[t]) : frames'[t][i].context.rax # "erestart"
        /\ saved' \in [Thread -> MaySet] /\ restore' \in [Thread -> BOOLEAN] /\ ~restore'[t]
        /\ \A u \in Thread \ {t} : /\ pc'[u] = pc[u] /\ context'[u] = context[u] /\ blocked'[u] = blocked[u]
                                   /\ saved'[u] = saved[u] /\ restore'[u] = restore[u]
                                   /\ pending'[u] = pending[u] /\ frames'[u] = frames[u]
    <2>1. pc[t] = "deliver" /\ Goto(t, "user") /\ "user" \in Place
      BY DEF deliver_handler, Place
    <2>2. /\ pending' \in [Thread -> SUBSET Sigs]
          /\ \A u \in Thread \ {t} : pending'[u] = pending[u]
      BY <1>1 DEF deliver_handler, Types
    <2>3. /\ context' \in [Thread -> Context] /\ context'[t] = Done("ok")
          /\ \A u \in Thread \ {t} : context'[u] = context[u]
      BY <1>1, Returning DEF deliver_handler, Types
    <2>4. /\ saved' \in [Thread -> MaySet] /\ restore' \in [Thread -> BOOLEAN] /\ ~restore'[t]
          /\ \A u \in Thread \ {t} : saved'[u] = saved[u] /\ restore'[u] = restore[u]
      BY <1>1 DEF deliver_handler, Types, MaySet
    <2>5. PICK s \in Sigs : s = Chosen(t)
      <3>1. Live(t) # {} /\ Live(t) \subseteq Sigs /\ Live(t) \in SUBSET Nat
        BY <1>1, SignalsAssumption DEF deliver_handler, Live, Deliverable, Types
      <3>2. Chosen(t) \in Live(t)
        BY <3>1, MinIn DEF Chosen
      <3> QED
        BY <3>1, <3>2
    <2>6. PICK a \in Action : a = action[t][s]
      BY <1>1 DEF Types
    <2>7. PICK f : f = [mask |-> return_mask(t), context |-> interrupted_context(t, a)]
      OBVIOUS
    <2>8. /\ frames' = [frames EXCEPT ![t] = Append(@, f)]
          /\ blocked' = [blocked EXCEPT ![t] =
                           (@ \cup a.mask \cup (IF a.nodefer THEN {} ELSE {s})) \ Unblockable]
          /\ action' = IF a.reset THEN [action EXCEPT ![t][s] = Dfl] ELSE action
      BY <2>5, <2>6, <2>7 DEF deliver_handler
    <2>9. /\ blocked' \in [Thread -> SUBSET Sigs] /\ blocked'[t] \in MaySet
          /\ \A u \in Thread \ {t} : blocked'[u] = blocked[u]
      <3>1. PICK b \in MaySet : blocked' = [blocked EXCEPT ![t] = b]
        <4>1. a.mask \subseteq Sigs /\ blocked[t] \subseteq Sigs
          BY <1>1 DEF Action, Types
        <4>2. (blocked[t] \cup a.mask \cup (IF a.nodefer THEN {} ELSE {s})) \ Unblockable \in MaySet
          BY <4>1 DEF MaySet
        <4> QED
          BY <2>8, <4>2
      <3> QED
        BY <1>1, <3>1 DEF Types, MaySet
    <2>10. action' \in [Thread -> [Sigs -> Action]]
      <3>1. Dfl \in Action
        BY DEF Dfl, Action
      <3> QED
        BY <1>1, <2>8, <3>1 DEF Types
    <2>11. return_mask(t) \in MaySet /\ (frames[t] = <<>> => base[t] = return_mask(t))
      <3>1. blocked[t] \in MaySet /\ saved[t] \in MaySet
        BY <1>1, <2>1 DEF ThreadInv, MasksInv, Types, MaySet
      <3> QED
        BY <1>1, <2>1, <3>1 DEF return_mask, ThreadInv, BaseInv, Outer, InEpoll
    <2>12. interrupted_context(t, a) \in Context /\ interrupted_context(t, a).rax # "erestart"
      <3>1. CASE ~Restartable(t)
        <4>1. context[t] \in Context /\ context[t].rax # "erestart"
          BY <1>1, <3>1 DEF Restartable, Types
        <4>2. interrupted_context(t, a) = context[t]
          BY <3>1 DEF interrupted_context
        <4> QED
          BY <4>1, <4>2
      <3>2. CASE Restartable(t) /\ a.restart
        BY <1>1, <3>2, Returning DEF interrupted_context, Types
      <3>3. CASE Restartable(t) /\ ~a.restart
        BY <3>3, Returning DEF interrupted_context
      <3> QED
        BY <3>1, <3>2, <3>3
    <2>13. f \in Frame /\ f.mask = return_mask(t) /\ f.context.rax # "erestart"
      BY <2>7, <2>11, <2>12 DEF Frame
    <2>14. PICK g \in Seq(Frame) : g = frames[t]
      BY <1>1 DEF Types
    <2>15. /\ Append(g, f) \in Seq(Frame) /\ Len(Append(g, f)) = Len(g) + 1 /\ Len(g) \in Nat
          /\ Append(g, f)[Len(g) + 1] = f /\ \A i \in 1 .. Len(g) : Append(g, f)[i] = g[i]
      BY <2>13
    <2>16. /\ frames' \in [Thread -> Seq(Frame)] /\ frames'[t] = Append(g, f)
          /\ \A u \in Thread \ {t} : frames'[u] = frames[u]
      BY <1>1, <2>8, <2>14, <2>15 DEF Types
    <2>17. frames'[t] # <<>> /\ base[t] = frames'[t][1].mask
      <3>1. CASE g = <<>>
        BY <2>11, <2>13, <2>14, <2>15, <2>16, <3>1
      <3>2. CASE g # <<>>
        <4>1. base[t] = g[1].mask
          BY <1>1, <2>14, <3>2 DEF ThreadInv, BaseInv
        <4>2. Len(g) > 0
          BY <3>2
        <4> QED
          BY <2>15, <2>16, <4>1, <4>2
      <3> QED
        BY <3>1, <3>2
    <2>18. \A i \in 1 .. Len(frames'[t]) : frames'[t][i].context.rax # "erestart"
      <3>1. \A i \in 1 .. Len(g) : g[i].context.rax # "erestart"
        BY <1>1, <2>14 DEF ThreadInv, RestartInv
      <3> SUFFICES ASSUME NEW i \in 1 .. Len(g) + 1  PROVE Append(g, f)[i].context.rax # "erestart"
        BY <2>15, <2>16
      <3>2. i \in 1 .. Len(g) \/ i = Len(g) + 1
        BY <2>15
      <3> QED
        BY <2>13, <2>15, <3>1, <3>2
    <2> QED
      BY <1>1, <2>1, <2>2, <2>3, <2>4, <2>9, <2>10, <2>16, <2>17, <2>18, Returning, Goes
  <1>4. Types'
    BY <1>1, <1>2, <1>3 DEF Types
  <1>5. SameBut(t)
    BY <1>1, <1>2, <1>3 DEF SameBut, Types
  <1>6. MasksInv(t)'
    BY <1>1, <1>2, <1>3 DEF ThreadInv, MasksInv, MaySet
  <1>7. SleepInv(t)'
    BY <1>1, <1>2, <1>3 DEF ThreadInv, SleepInv, Coming, Seen
  <1>8. RestoreInv(t)'
    BY <1>1, <1>2, <1>3 DEF ThreadInv, RestoreInv
  <1>9. BaseInv(t)'
    BY <1>1, <1>2, <1>3 DEF ThreadInv, BaseInv, Outer, InEpoll
  <1>10. RestartInv(t)'
    BY <1>1, <1>2, <1>3, Returning DEF ThreadInv, RestartInv
  <1> QED
    BY <1>2, <1>3, <1>4, <1>5, <1>6, <1>7, <1>8, <1>9, <1>10, Turn DEF ThreadInv

\* A thread that is not asleep after the step, whatever became pending.
LEMMA Awake ==
    ASSUME Types, NEW u \in Thread, ThreadInv(u),
           pc'[u] = IF pc[u] = "sleep" THEN "woken" ELSE pc[u],
           blocked'[u] = blocked[u], waiting'[u] = waiting[u],
           saved'[u] = saved[u], restore'[u] = restore[u],
           call'[u] = call[u], context'[u] = context[u], frames'[u] = frames[u],
           base'[u] = base[u]
    PROVE  ThreadInv(u)'
  <1>1. MasksInv(u)'
    BY DEF ThreadInv, MasksInv
  <1>2. SleepInv(u)'
    BY DEF SleepInv
  <1>3. RestoreInv(u)'
    BY DEF ThreadInv, RestoreInv
  <1>4. BaseInv(u)'
    BY DEF ThreadInv, BaseInv, Outer, InEpoll
  <1>5. RestartInv(u)'
    BY DEF ThreadInv, RestartInv
  <1> QED
    BY <1>1, <1>2, <1>3, <1>4, <1>5 DEF ThreadInv

\* A thread whose masks, flow and pending signals stay: only the post changes.
LEMMA Bystander ==
    ASSUME NEW u \in Thread, ThreadInv(u), SleepInv(u)',
           blocked'[u] = blocked[u], waiting'[u] = waiting[u],
           saved'[u] = saved[u], restore'[u] = restore[u], pc'[u] = pc[u],
           call'[u] = call[u], context'[u] = context[u], frames'[u] = frames[u],
           base'[u] = base[u]
    PROVE  ThreadInv(u)'
  <1>1. MasksInv(u)'
    BY DEF ThreadInv, MasksInv
  <1>3. RestoreInv(u)'
    BY DEF ThreadInv, RestoreInv
  <1>4. BaseInv(u)'
    BY DEF ThreadInv, BaseInv, Outer, InEpoll
  <1>5. RestartInv(u)'
    BY DEF ThreadInv, RestartInv
  <1> QED
    BY <1>1, <1>3, <1>4, <1>5 DEF ThreadInv

\* The end of the group, from user mode or from delivery.
LEMMA GoneKeeps ==
    ASSUME SignalInv, NEW t \in Thread, NEW P \in SUBSET Sigs, LockFree,
           pc[t] \in {"user", "deliver"}, Gone(t, P)
    PROVE  SignalInv'
  <1>1. Types
    BY DEF SignalInv
  <1>2. UNCHANGED <<blocked, waiting, saved, restore, action, call, timed_out, context,
                    frames, base, overtaken, posts, post>>
    BY DEF Gone, outside
  <1>3. /\ pc' \in [Thread -> Place] /\ pc'[t] = "dead"
        /\ \A u \in Thread \ {t} : pc'[u] = IF pc[u] = "sleep" THEN "woken" ELSE pc[u]
    <2>1. pc' = [Interrupted(Others(t)) EXCEPT ![t] = "dead"]
      BY DEF Gone
    <2>2. /\ Interrupted(Others(t)) \in [Thread -> Place]
          /\ \A u \in Thread \ {t} :
                Interrupted(Others(t))[u] = IF pc[u] = "sleep" THEN "woken" ELSE pc[u]
      BY <1>1 DEF Interrupted, Others, Types, Place
    <2>3. "dead" \in Place
      BY DEF Place
    <2> QED
      BY <2>1, <2>2, <2>3
  <1>4. pending' \in [Thread -> SUBSET Sigs] /\ group_exit' \in [Thread -> BOOLEAN]
    <2>1. group_exit' \in [Thread -> BOOLEAN]
      BY DEF Gone
    <2>2. \A u \in Thread : (CASE u = t -> P
                               [] pc[u] = "dead" -> pending[u]
                               [] OTHER -> pending[u] \cup {SIGKILL}) \in SUBSET Sigs
      BY <1>1, SignalsAssumption DEF Types
    <2> QED
      BY <2>1, <2>2 DEF Gone
  <1>5. Types'
    BY <1>1, <1>2, <1>3, <1>4 DEF Types
  <1>6. ASSUME NEW u \in Thread, u # t  PROVE ThreadInv(u)'
    BY <1>1, <1>2, <1>3, <1>6, Awake DEF SignalInv
  <1>7. ThreadInv(t)'
    <2>1. ThreadInv(t)
      BY DEF SignalInv
    <2>2. MasksInv(t)'
      BY <1>2, <1>3, <2>1 DEF ThreadInv, MasksInv
    <2>3. SleepInv(t)' /\ RestoreInv(t)'
      BY <1>3 DEF SleepInv, RestoreInv
    <2>4. BaseInv(t)'
      BY <1>2, <1>3, <2>1 DEF ThreadInv, BaseInv
    <2>5. RestartInv(t)'
      BY <1>2, <1>3, <2>1 DEF ThreadInv, RestartInv
    <2> QED
      BY <2>2, <2>3, <2>4, <2>5 DEF ThreadInv
  <1>8. PostInv'
    BY <1>2, SignalsAssumption DEF LockFree, NoPost, PostInv
  <1> QED
    BY <1>5, <1>6, <1>7, <1>8 DEF SignalInv

LEMMA ExitGroup == ASSUME SignalInv, NEW t \in Thread, process_exit_group(t)  PROVE SignalInv'
  BY GoneKeeps DEF process_exit_group, User, SignalInv, Types

LEMMA DeliverOverflow == ASSUME SignalInv, NEW t \in Thread, deliver_overflow(t)  PROVE SignalInv'
  <1>1. pending[t] \ Dropped(t) \in SUBSET Sigs
    BY DEF SignalInv, Types
  <1> QED
    BY <1>1, GoneKeeps DEF deliver_overflow

LEMMA DeliverDefault == ASSUME SignalInv, NEW t \in Thread, deliver_default(t)  PROVE SignalInv'
  <1>1. Types /\ ThreadInv(t) /\ pc[t] = "deliver" /\ LockFree
    BY DEF SignalInv, deliver_default
  <1>2. CASE ~group_exit[t]
    BY <1>1, <1>2, GoneKeeps DEF deliver_default
  <1>3. CASE group_exit[t]
    <2>1. /\ UNCHANGED <<blocked, waiting, saved, restore, action, group_exit, call, timed_out,
                         context, frames, base, overtaken, post, posts>>
          /\ Goto(t, "dead") /\ pending' = [pending EXCEPT ![t] = {}]
      BY <1>3 DEF deliver_default, outside
    <2>2. /\ pc' \in [Thread -> Place] /\ pc'[t] = "dead"
          /\ \A u \in Thread \ {t} : pc'[u] = pc[u]
      <3>1. "dead" \in Place
        BY DEF Place
      <3> QED
        BY <1>1, <2>1, <3>1, Goes
    <2>3. /\ pending' \in [Thread -> SUBSET Sigs]
          /\ \A u \in Thread \ {t} : pending'[u] = pending[u]
      BY <1>1, <2>1 DEF Types
    <2>4. Types'
      BY <1>1, <2>1, <2>2, <2>3 DEF Types
    <2>5. SameBut(t)
      BY <2>1, <2>2, <2>3 DEF SameBut
    <2>6. MasksInv(t)'
      BY <1>1, <2>1, <2>2 DEF ThreadInv, MasksInv
    <2>7. SleepInv(t)' /\ RestoreInv(t)'
      BY <2>2 DEF SleepInv, RestoreInv
    <2>8. BaseInv(t)'
      BY <1>1, <2>1, <2>2 DEF ThreadInv, BaseInv
    <2>9. RestartInv(t)'
      BY <1>1, <2>1, <2>2 DEF ThreadInv, RestartInv
    <2> QED
      BY <1>1, <2>1, <2>4, <2>5, <2>6, <2>7, <2>8, <2>9, Turn DEF ThreadInv
  <1> QED
    BY <1>2, <1>3

-------------------------------------------------------------------------------
(* Posting *)

\* Nobody posts: a sleeper has no signal it would have to see, unless one
\* overtook it.
LEMMA Unposted ==
    ASSUME SignalInv, LockFree, NEW u \in Thread, pc[u] = "sleep"
    PROVE  \A s \in pending[u] : Seen(u, s) => call[u].op \in Unlocked /\ s \in overtaken[u]
  BY NotPosting DEF SignalInv, ThreadInv, SleepInv, Coming

\* What a post is when it starts.
LEMMA PostStarts ==
    ASSUME NEW by \in Thread \cup {Irq}, NEW u \in Thread, NEW s \in Sigs, Types, Posting(by, u, s)
    PROVE  /\ post'.by = by /\ post'.to = u /\ post'.sig = s /\ ~post'.wrote /\ post'.seen = "?"
           /\ post' \in [by : Thread \cup {Irq}, to : Thread \cup {Irq}, sig : Sigs \cup {0},
                         wrote : BOOLEAN, seen : {"?", "yes", "no"}]
           /\ posts' \in 0 .. MaxPosts
  <1>1. post' = [by |-> by, to |-> u, sig |-> s, wrote |-> FALSE, seen |-> "?"]
    BY DEF Posting, NoPost
  <1>2. posts' \in 0 .. MaxPosts
    BY SignalsAssumption DEF Posting, Types
  <1> QED
    BY <1>1, <1>2

LEMMA SignalSend ==
    ASSUME SignalInv, NEW u \in Thread, NEW s \in Sigs, signal_send(u, s)
    PROVE  SignalInv'
  <1>1. Types /\ Posting(Irq, u, s) /\ LockFree
    BY DEF SignalInv, signal_send, Posting
  <1>2. UNCHANGED <<pending, blocked, waiting, saved, restore, action, group_exit, pc, call,
                    timed_out, context, frames, base, overtaken>>
    BY DEF signal_send, masks, flow, outside
  <1>3. Types'
    BY <1>1, <1>2, PostStarts DEF Types
  <1>4. PostInv'
    BY <1>1, PostStarts, SignalsAssumption DEF PostInv
  <1>5. ASSUME NEW v \in Thread  PROVE ThreadInv(v)'
    <2>1. SleepInv(v)'
      BY <1>1, <1>2, PostStarts, Unposted DEF SleepInv, Coming, Seen
    <2> QED
      BY <1>2, <2>1, Bystander DEF SignalInv
  <1> QED
    BY <1>3, <1>4, <1>5 DEF SignalInv

LEMMA SysKill ==
    ASSUME SignalInv, NEW t \in Thread, NEW u \in Thread, NEW s \in Sigs, sys_kill(t, u, s)
    PROVE  SignalInv'
  <1>1. Types /\ Posting(t, u, s) /\ LockFree /\ pc[t] = "user"
    BY DEF SignalInv, sys_kill, Posting, User
  <1>2. UNCHANGED <<pending, blocked, waiting, saved, restore, action, group_exit, call,
                    timed_out, frames, base, overtaken>>
    BY DEF sys_kill, masks
  <1>3. /\ pc' \in [Thread -> Place] /\ pc'[t] = "kill"
        /\ context' \in [Thread -> Context] /\ context'[t] = Done("ok")
        /\ \A v \in Thread \ {t} : pc'[v] = pc[v] /\ context'[v] = context[v]
    <2>1. "kill" \in Place
      BY DEF Place
    <2>2. /\ context' \in [Thread -> Context] /\ context'[t] = Done("ok")
          /\ \A v \in Thread \ {t} : context'[v] = context[v]
      BY <1>1, Returning DEF sys_kill, Types
    <2> QED
      BY <1>1, <2>1, <2>2, Goes DEF sys_kill
  <1>4. Types'
    BY <1>1, <1>2, <1>3, PostStarts DEF Types
  <1>5. PostInv'
    BY <1>1, <1>3, PostStarts DEF PostInv
  <1>6. ASSUME NEW v \in Thread, v # t  PROVE ThreadInv(v)'
    <2>1. SleepInv(v)'
      BY <1>1, <1>2, <1>3, <1>6, PostStarts, Unposted DEF SleepInv, Coming, Seen
    <2> QED
      BY <1>2, <1>3, <1>6, <2>1, Bystander DEF SignalInv
  <1>7. ThreadInv(t)'
    <2>1. ThreadInv(t)
      BY DEF SignalInv
    <2>2. MasksInv(t)'
      BY <1>1, <1>2, <1>3, <2>1 DEF ThreadInv, MasksInv
    <2>3. SleepInv(t)'
      BY <1>3 DEF SleepInv
    <2>4. RestoreInv(t)'
      BY <1>1, <1>2, <1>3, <2>1 DEF ThreadInv, RestoreInv
    <2>5. BaseInv(t)'
      BY <1>1, <1>2, <1>3, <2>1 DEF ThreadInv, BaseInv, Outer, InEpoll
    <2>6. RestartInv(t)'
      BY <1>2, <1>3, <2>1, Returning DEF ThreadInv, RestartInv
    <2> QED
      BY <2>2, <2>3, <2>4, <2>5, <2>6 DEF ThreadInv
  <1> QED
    BY <1>4, <1>5, <1>6, <1>7 DEF SignalInv

LEMMA PostPending == ASSUME SignalInv, post_pending  PROVE SignalInv'
  <1>1. Types /\ PostInv
    BY DEF SignalInv
  <1>2. UNCHANGED <<blocked, waiting, saved, restore, action, group_exit, pc, call,
                    timed_out, context, frames, base, posts>>
    BY DEF post_pending, flow
  <1>3. PICK u \in Thread : u = post.to
    BY DEF post_pending
  <1>4. PICK s \in Sigs : s = post.sig
    BY <1>1, <1>3 DEF PostInv
  <1>5. /\ ~post.wrote /\ post'.wrote /\ post'.to = u /\ post'.sig = s
        /\ post'.seen = post.seen /\ post'.by = post.by
        /\ post' \in [by : Thread \cup {Irq}, to : Thread \cup {Irq}, sig : Sigs \cup {0},
                      wrote : BOOLEAN, seen : {"?", "yes", "no"}]
    BY <1>1, <1>3, <1>4 DEF post_pending, Types
  <1>6. /\ pending' \in [Thread -> SUBSET Sigs] /\ pending'[u] = pending[u] \cup {s}
        /\ \A v \in Thread \ {u} : pending'[v] = pending[v]
    BY <1>1, <1>3, <1>4 DEF post_pending, Types
  <1>0. /\ overtaken' \in [Thread -> SUBSET Sigs]
        /\ \A v \in Thread : overtaken[v] \subseteq overtaken'[v]
        /\ (post.seen = "no" /\ pc[u] = "sleep" /\ Seen(u, s)) => s \in overtaken'[u]
    <2>1. CASE Overtaken(u)
      BY <1>1, <1>3, <1>4, <2>1 DEF post_pending, Types
    <2>2. CASE ~Overtaken(u)
      BY <1>1, <1>3, <1>4, <2>2 DEF post_pending, Types, Overtaken
    <2> QED
      BY <2>1, <2>2
  <1>7. Types'
    BY <1>0, <1>1, <1>2, <1>5, <1>6 DEF Types
  <1>8. PostInv'
    BY <1>1, <1>2, <1>4, <1>5 DEF PostInv
  <1>9. ASSUME NEW v \in Thread  PROVE ThreadInv(v)'
    <2>1. ThreadInv(v)
      BY DEF SignalInv
    <2>2. SleepInv(v)'
      <3> SUFFICES ASSUME pc[v] = "sleep"
                   PROVE  /\ \A r \in pending'[v] : Seen(v, r) =>
                                \/ post'.to = v /\ post'.wrote /\ post'.sig = r /\ post'.seen # "no"
                                \/ call[v].op \in Unlocked /\ r \in overtaken'[v]
                          /\ call[v].op \notin Unlocked /\ post'.to = v /\ post'.seen = "no"
                                => ~Seen(v, s)
        BY <1>2, <1>5 DEF SleepInv, Coming, Seen
      <3>2. \A r \in pending[v] : Seen(v, r) => call[v].op \in Unlocked /\ r \in overtaken'[v]
        BY <1>0, <1>5, <2>1 DEF ThreadInv, SleepInv, Coming
      <3>3. call[v].op \notin Unlocked /\ post.to = v /\ post.seen = "no" => ~Seen(v, s)
        BY <1>4, <2>1 DEF ThreadInv, SleepInv
      <3>4. CASE v = u
        BY <1>0, <1>3, <1>5, <1>6, <3>2, <3>3, <3>4
      <3>5. CASE v # u
        BY <1>5, <1>6, <3>2, <3>5
      <3> QED
        BY <3>4, <3>5
    <2> QED
      BY <1>2, <2>1, <2>2, Bystander
  <1> QED
    BY <1>7, <1>8, <1>9 DEF SignalInv

LEMMA PostTest == ASSUME SignalInv, post_test  PROVE SignalInv'
  <1>1. Types /\ PostInv
    BY DEF SignalInv
  <1>2. UNCHANGED <<pending, blocked, waiting, saved, restore, action, group_exit, pc, call,
                    timed_out, context, frames, base, overtaken, posts>>
    BY DEF post_test, masks, flow, outside
  <1>3. PICK u \in Thread : u = post.to
    BY DEF post_test
  <1>4. PICK s \in Sigs : s = post.sig
    BY <1>1, <1>3 DEF PostInv
  <1>5. /\ post'.to = u /\ post'.sig = s /\ post'.wrote = post.wrote /\ post'.by = post.by
        /\ post'.seen = IF Seen(u, s) THEN "yes" ELSE "no"
        /\ post' \in [by : Thread \cup {Irq}, to : Thread \cup {Irq}, sig : Sigs \cup {0},
                      wrote : BOOLEAN, seen : {"?", "yes", "no"}]
    BY <1>1, <1>3, <1>4 DEF post_test, Types
  <1>6. Types'
    BY <1>1, <1>2, <1>5 DEF Types
  <1>7. PostInv'
    BY <1>1, <1>2, <1>4, <1>5 DEF PostInv
  <1>8. ASSUME NEW v \in Thread  PROVE ThreadInv(v)'
    <2>1. ThreadInv(v)
      BY DEF SignalInv
    <2>2. SleepInv(v)'
      <3> SUFFICES ASSUME pc[v] = "sleep"
                   PROVE  /\ \A r \in pending[v] : Seen(v, r) =>
                                \/ post'.to = v /\ post'.wrote /\ post'.sig = r /\ post'.seen # "no"
                                \/ call[v].op \in Unlocked /\ r \in overtaken[v]
                          /\ call[v].op \notin Unlocked /\ post'.to = v /\ post'.seen = "no"
                                => ~Seen(v, s)
        BY <1>2, <1>5 DEF SleepInv, Coming, Seen
      <3>1. \A r \in pending[v] : Seen(v, r) => \/ u = v /\ post.wrote /\ s = r
                                                \/ call[v].op \in Unlocked /\ r \in overtaken[v]
        BY <1>3, <1>4, <2>1 DEF ThreadInv, SleepInv, Coming
      <3> QED
        BY <1>5, <3>1
    <2> QED
      BY <1>2, <2>1, <2>2, Bystander
  <1> QED
    BY <1>6, <1>7, <1>8 DEF SignalInv

LEMMA PostInterrupt == ASSUME SignalInv, post_interrupt  PROVE SignalInv'
  <1> DEFINE U == IF post.seen = "yes" THEN {post.to} ELSE {}
  <1>1. Types /\ PostInv /\ post.wrote /\ post.seen # "?"
    BY DEF SignalInv, post_interrupt
  <1>2. UNCHANGED <<pending, blocked, waiting, saved, restore, action, group_exit, call,
                    timed_out, context, frames, base, overtaken, posts>>
    BY DEF post_interrupt, masks
  <1>3. /\ post' = NoPost /\ \A v \in Thread : post'.to # v /\ post'.by # v
        /\ post' \in [by : Thread \cup {Irq}, to : Thread \cup {Irq}, sig : Sigs \cup {0},
                      wrote : BOOLEAN, seen : {"?", "yes", "no"}]
    BY SignalsAssumption DEF post_interrupt, NoPost
  <1>4. /\ Interrupted(U) \in [Thread -> Place]
        /\ \A v \in Thread : Interrupted(U)[v] = IF v \in U /\ pc[v] = "sleep" THEN "woken" ELSE pc[v]
    BY <1>1 DEF Interrupted, Types, Place
  <1>5. pc' = IF post.by = Irq THEN Interrupted(U) ELSE [Interrupted(U) EXCEPT ![post.by] = "check"]
    BY DEF post_interrupt
  <1>6. /\ pc' \in [Thread -> Place]
        /\ \A v \in Thread : v # post.by => pc'[v] = Interrupted(U)[v]
        /\ post.by \in Thread => pc'[post.by] = "check"
    <2>1. "check" \in Place
      BY DEF Place
    <2> QED
      BY <1>4, <1>5, <2>1, SignalsAssumption
  <1>7. Types'
    BY <1>1, <1>2, <1>3, <1>6 DEF Types
  <1>8. PostInv'
    BY <1>3 DEF PostInv
  <1>9. ASSUME NEW v \in Thread  PROVE ThreadInv(v)'
    <2>1. ThreadInv(v)
      BY DEF SignalInv
    <2>2. CASE v = post.by
      <3>1. pc[v] = "kill" /\ pc'[v] = "check"
        BY <1>1, <1>6, <2>2 DEF PostInv
      <3>2. MasksInv(v)'
        BY <1>2, <2>1, <3>1 DEF ThreadInv, MasksInv
      <3>3. SleepInv(v)'
        BY <3>1 DEF SleepInv
      <3>4. RestoreInv(v)'
        BY <3>1 DEF RestoreInv
      <3>5. BaseInv(v)'
        BY <1>2, <2>1, <3>1 DEF ThreadInv, BaseInv, Outer, InEpoll
      <3>6. RestartInv(v)'
        BY <1>2, <2>1, <3>1 DEF ThreadInv, RestartInv
      <3> QED
        BY <3>2, <3>3, <3>4, <3>5, <3>6 DEF ThreadInv
    <2>3. CASE v # post.by /\ v \in U
      BY <1>1, <1>2, <1>4, <1>6, <2>1, <2>3, Awake
    <2>4. CASE v # post.by /\ v \notin U
      <3>1. pc'[v] = pc[v]
        BY <1>4, <1>6, <2>4
      <3>2. pc[v] = "sleep" => \A r \in pending[v] :
                                  Seen(v, r) => call[v].op \in Unlocked /\ r \in overtaken[v]
        BY <1>1, <2>1, <2>4 DEF ThreadInv, SleepInv, Coming, Types
      <3>3. SleepInv(v)'
        BY <1>2, <1>3, <3>1, <3>2 DEF SleepInv, Coming, Seen
      <3> QED
        BY <1>2, <2>1, <3>1, <3>3, Bystander
    <2> QED
      BY <2>2, <2>3, <2>4
  <1> QED
    BY <1>7, <1>8, <1>9 DEF SignalInv

-------------------------------------------------------------------------------
(* The theorems *)

LEMMA InitSig == Init => SignalInv
  <1> SUFFICES ASSUME Init  PROVE SignalInv
    OBVIOUS
  <1>1. NoCall \in Call /\ Done("ok") \in Context /\ Done("ok").rax = "ok" /\ Dfl \in Action
    BY Returning DEF NoCall, Call, MaySet, Dfl, Action
  <1>2. NoPost \in [by : Thread \cup {Irq}, to : Thread \cup {Irq}, sig : Sigs \cup {0},
                    wrote : BOOLEAN, seen : {"?", "yes", "no"}]
    BY DEF NoPost
  <1>3. Types
    BY <1>1, <1>2, SignalsAssumption DEF Init, Types, MaySet, Place
  <1>4. PostInv
    BY SignalsAssumption DEF Init, PostInv, NoPost
  <1>5. ASSUME NEW t \in Thread  PROVE ThreadInv(t)
    BY <1>1 DEF Init, ThreadInv, MasksInv, SleepInv, RestoreInv, BaseInv, Outer, InEpoll,
                RestartInv
  <1> QED
    BY <1>3, <1>4, <1>5 DEF SignalInv

LEMMA StutterSig == ASSUME SignalInv, UNCHANGED vars  PROVE SignalInv'
  <1>1. UNCHANGED <<pending, blocked, waiting, saved, restore, action, group_exit, pc, call,
                    timed_out, context, frames, base, overtaken, post, posts>>
    BY DEF vars, masks, flow, outside
  <1>2. Types' /\ PostInv'
    BY <1>1 DEF SignalInv, Types, PostInv
  <1>3. ASSUME NEW u \in Thread  PROVE ThreadInv(u)'
    BY <1>1, OtherThread DEF SignalInv
  <1> QED
    BY <1>2, <1>3 DEF SignalInv

LEMMA NextSig == ASSUME SignalInv, [Next]_vars  PROVE SignalInv'
  <1>1. CASE UNCHANGED vars
    BY <1>1, StutterSig
  <1>2. CASE PostStep
    BY <1>2, PostPending, PostTest, PostInterrupt DEF PostStep
  <1>3. ASSUME NEW u \in Thread, NEW s \in Sigs, signal_send(u, s)  PROVE SignalInv'
    BY <1>3, SignalSend
  <1>4. ASSUME NEW t \in Thread, UserStep(t)  PROVE SignalInv'
    BY <1>4, SysKill, SignalFault, ExitGroup, ProcessExit, ProcessExec, SysRtSigaction,
       SysRtSigprocmask, SysRtSigreturn, SysPause, SysRtSigsuspend, SysRead, SysRecv, SysRtSigtimedwait,
       SigtimedwaitPoll, SysEpollPwait DEF UserStep
  <1>5. ASSUME NEW t \in Thread, KernelStep(t)  PROVE SignalInv'
    BY <1>5, SigprocmaskStrip, EpollScan, ResumePause, ResumeRead, ResumeRecv, ResumeTimedwait, ResumeEpoll,
       SyscallReturn, InterruptReturn, DeliverNone, DeliverDefault, DeliverHandler,
       DeliverOverflow DEF KernelStep
  <1>6. ASSUME NEW t \in Thread, sleep_timeout(t) \/ event(t)  PROVE SignalInv'
    BY <1>6, SleepTimeout, Event
  <1> QED
    BY <1>1, <1>2, <1>3, <1>4, <1>5, <1>6 DEF Next

\* Every reachable state satisfies the inductive invariant: what a post under
\* way owes its target, who holds whose saved mask, where -ERESTARTSYS may be.
THEOREM SignalInvHolds == Spec => []SignalInv
  BY InitSig, NextSig, PTL DEF Spec

\* For any threads, signals, handlers, masks and programs: no thread sleeps
\* through a signal it must see, but for the one that overtakes a sleep without
\* the kernel lock; user code outside handlers runs under the mask
\* it asked for, and it never sees -ERESTARTSYS.
THEOREM SignalIsSound == Spec => []SignalSound
  <1>1. ASSUME SignalInv  PROVE SignalSound
    <2>1. Types /\ \A t \in Thread : ThreadInv(t)
      BY <1>1 DEF SignalInv
    <2>2. TypeOK
      <3>1. ASSUME NEW t \in Thread, NEW i \in 1 .. Len(frames[t])
            PROVE  frames[t][i].mask \subseteq Sigs \ Unblockable /\ frames[t][i].context \in Context
        <4>1. frames[t][i] \in Frame
          BY <2>1, <3>1 DEF Types
        <4> QED
          BY <4>1 DEF Frame, MaySet
      <3>2. ASSUME NEW t \in Thread
            PROVE  blocked[t] \subseteq IF pc[t] = "mask" THEN Sigs ELSE Sigs \ Unblockable
        BY <2>1 DEF ThreadInv, MasksInv, Types
      <3>3. ASSUME NEW t \in Thread
            PROVE  waiting[t] \subseteq
                      IF pc[t] \in {"sleep", "woken"} /\ call[t].op = "timedwait" THEN call[t].set ELSE {}
        BY <2>1 DEF ThreadInv, MasksInv
      <3> QED
        BY <2>1, <3>1, <3>2, <3>3 DEF TypeOK, Types, MaySet, Place
    <2>3. NoMissedSignal
      BY <2>1 DEF NoMissedSignal, ThreadInv, SleepInv
    <2>4. MaskRestored
      BY <1>1, InUser DEF MaskRestored
    <2>5. NoRestartLeak
      BY <2>1 DEF NoRestartLeak, ThreadInv, RestartInv
    <2> QED
      BY <2>2, <2>3, <2>4, <2>5 DEF SignalSound
  <1> QED
    BY <1>1, SignalInvHolds, PTL

===============================================================================

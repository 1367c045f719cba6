---------------------------------- MODULE Pipe ----------------------------------
(***************************************************************************)
(* pipe.c: a ring buffer, its two ends, and the processes that sleep on    *)
(* the one wait id of the pipe, readers and writers alike.  System calls   *)
(* hold the kernel lock except while they sleep, so what a call does up to *)
(* its sleep or its return is one step.                                    *)
(*                                                                         *)
(* The file is not held by the call that uses it: here an end is closed    *)
(* only when no call is inside it, as in processes of one thread.          *)
(***************************************************************************)
EXTENDS Integers, Sequences, FiniteSets

CONSTANTS
    Reader, Writer,
    Nonblock,            \* the processes whose file has O_NONBLOCK
    Lengths,             \* lengths read and write are called with
    PIPE_BUFFER_SIZE, PIPE_ATOMIC,
    MaxWrites,           \* how many times each writer writes
    NoByte               \* what the buffer holds in the beginning

ASSUME PipeAssumption ==
    /\ Reader \cap Writer = {} /\ Nonblock \subseteq Reader \cup Writer
    /\ Lengths \subseteq Nat \ {0} /\ MaxWrites \in Nat
    /\ PIPE_BUFFER_SIZE \in Nat /\ PIPE_ATOMIC \in 1 .. PIPE_BUFFER_SIZE

Process == Reader \cup Writer
Byte == Writer \X Nat \X Lengths

VARIABLES
    buf, head, len,      \* the ring
    readers, writers,    \* are the ends open?
    freed,
    asleep,              \* the processes on pipe_wait_id
    arg, written,        \* length of the call under way, 0: none; bytes done
    writes               \* writes each writer has still to do

ring == <<buf, head, len>>
ends == <<readers, writers, freed>>
vars == <<ring, ends, asleep, arg, written, writes>>

\* pipe_create
Init ==
    /\ buf = [i \in 0 .. PIPE_BUFFER_SIZE - 1 |-> NoByte] /\ head = 0 /\ len = 0
    /\ readers = 1 /\ writers = 1 /\ freed = FALSE
    /\ asleep = {} /\ arg = [p \in Process |-> 0] /\ written = [w \in Writer |-> 0]
    /\ writes = [w \in Writer |-> MaxWrites]

MinOf(a, b) == IF a < b THEN a ELSE b
Running(p) == arg[p] # 0 /\ p \notin asleep
Return(p) == arg' = [arg EXCEPT ![p] = 0]

-------------------------------------------------------------------------------
(* read *)

sys_read(r) ==
    /\ readers = 1 /\ arg[r] = 0
    /\ \E n \in Lengths : arg' = [arg EXCEPT ![r] = n]
    /\ UNCHANGED <<ring, ends, asleep, written, writes>>

\* Faulty variant: only readers are told.
OnlyReadersWake == asleep \ Reader

\* Who sleeps on after process_wakeup(pipe_wait_id(p)).
StillAsleep == {}

pipe_notify == asleep' = StillAsleep

\* The buffer is empty: end of file, -EAGAIN, -ERESTARTSYS, or sleep.
read_empty(r) ==
    /\ r \in Reader /\ Running(r) /\ len = 0
    /\ \/ /\ writers = 0 \/ r \in Nonblock
          /\ Return(r)
          /\ UNCHANGED asleep
       \/ /\ writers # 0 /\ r \notin Nonblock
          /\ asleep' = asleep \cup {r}
          /\ UNCHANGED arg
    /\ UNCHANGED <<ring, ends, written, writes>>

Advanced(n) == (head + n) % PIPE_BUFFER_SIZE

pipe_read(r) ==
    LET n == MinOf(len, arg[r])
    IN  /\ r \in Reader /\ Running(r) /\ len # 0
        /\ head' = Advanced(n)
        /\ len' = len - n
        /\ pipe_notify
        /\ Return(r)
        /\ UNCHANGED <<buf, ends, written, writes>>

-------------------------------------------------------------------------------
(* write *)

sys_write(w) ==
    /\ writers = 1 /\ arg[w] = 0 /\ writes[w] > 0
    /\ \E n \in Lengths : arg' = [arg EXCEPT ![w] = n]
    /\ writes' = [writes EXCEPT ![w] = @ - 1]
    /\ UNCHANGED <<ring, ends, asleep, written>>

Rest(w) == arg[w] - written[w]
Space == PIPE_BUFFER_SIZE - len

\* Faulty variant: every write is content with some space.
NeedOne(w) == 1

\* A write with at most PIPE_ATOMIC bytes left waits until they all fit.
Need(w) == IF Rest(w) <= PIPE_ATOMIC THEN Rest(w) ELSE 1

WriteEnds(w) ==
    /\ Return(w)
    /\ written' = [written EXCEPT ![w] = 0]

\* SIGPIPE and -EPIPE, or the bytes written so far.
write_broken(w) ==
    /\ w \in Writer /\ Running(w) /\ readers = 0
    /\ WriteEnds(w)
    /\ UNCHANGED <<ring, ends, asleep, writes>>

\* Not enough space: return what was written (or -EAGAIN), or sleep.
write_full(w) ==
    /\ w \in Writer /\ Running(w) /\ readers # 0 /\ Space < Need(w)
    /\ \/ w \in Nonblock /\ WriteEnds(w) /\ UNCHANGED asleep
       \/ w \notin Nonblock /\ asleep' = asleep \cup {w} /\ UNCHANGED <<arg, written>>
    /\ UNCHANGED <<ring, ends, writes>>

\* The bytes are copied behind those in the ring.  If some are left the next
\* round of the loop finds the buffer full: the writer returns or sleeps.
pipe_write(w) ==
    LET n == MinOf(Rest(w), Space)
        place == [i \in 0 .. n - 1 |-> (head + len + i) % PIPE_BUFFER_SIZE]
    IN  /\ w \in Writer /\ Running(w) /\ readers # 0 /\ Space >= Need(w)
        /\ buf' = [j \in DOMAIN buf |->
                     IF \E i \in DOMAIN place : place[i] = j
                     THEN <<w, written[w] + 1 + (CHOOSE i \in DOMAIN place : place[i] = j), arg[w]>>
                     ELSE buf[j]]
        /\ len' = len + n
        /\ \/ /\ n = Rest(w) \/ w \in Nonblock
              /\ pipe_notify
              /\ WriteEnds(w)
           \/ /\ n # Rest(w) /\ w \notin Nonblock
              /\ asleep' = StillAsleep \cup {w}
              /\ written' = [written EXCEPT ![w] = @ + n]
              /\ UNCHANGED arg
        /\ UNCHANGED <<head, ends, writes>>

\* A signal: process_interrupt, or signal_wakes() before the sleep; the call
\* returns what it has done, or -ERESTARTSYS.
interrupted(p) ==
    /\ p \in asleep
    /\ asleep' = asleep \ {p}
    /\ Return(p)
    /\ written' = [w \in Writer |-> IF w = p THEN 0 ELSE written[w]]
    /\ UNCHANGED <<ring, ends, writes>>

-------------------------------------------------------------------------------
(* close *)

pipe_close ==
    /\ \/ /\ readers = 1 /\ \A r \in Reader : arg[r] = 0
          /\ readers' = 0
          /\ UNCHANGED writers
       \/ /\ writers = 1 /\ \A w \in Writer : arg[w] = 0
          /\ writers' = 0
          /\ UNCHANGED readers
    /\ freed' = (readers' = 0 /\ writers' = 0)
    /\ pipe_notify
    /\ UNCHANGED <<ring, arg, written, writes>>

-------------------------------------------------------------------------------
Step(p) == read_empty(p) \/ pipe_read(p) \/ write_broken(p) \/ write_full(p) \/ pipe_write(p)

Next ==
    \/ \E r \in Reader : sys_read(r)
    \/ \E w \in Writer : sys_write(w)
    \/ \E p \in Process : Step(p) \/ interrupted(p)
    \/ pipe_close

Spec == Init /\ [][Next]_vars

\* Processes run, and readers go on reading while their end is open.
Fairness ==
    /\ \A p \in Process : WF_vars(Step(p))
    /\ \A r \in Reader : WF_vars(sys_read(r))

FairSpec == Spec /\ Fairness

-------------------------------------------------------------------------------
(* Properties *)

\* The variables hold what their declarations say: len within the buffer,
\* head inside it.
TypeOK ==
    /\ buf \in [0 .. PIPE_BUFFER_SIZE - 1 -> Byte \cup {NoByte}]
    /\ head \in 0 .. PIPE_BUFFER_SIZE - 1 /\ len \in 0 .. PIPE_BUFFER_SIZE
    /\ readers \in 0 .. 1 /\ writers \in 0 .. 1 /\ freed \in BOOLEAN
    /\ asleep \subseteq Process /\ arg \in [Process -> Lengths \cup {0}]
    /\ written \in [Writer -> Nat] /\ writes \in [Writer -> 0 .. MaxWrites]

\* No lost wakeup, although one wait id serves all: a reader sleeps only on an
\* empty pipe that somebody can write to, a writer only while its bytes do
\* not fit and somebody can read.
SleepersWait ==
    /\ \A r \in Reader \cap asleep : len = 0 /\ writers # 0
    /\ \A w \in Writer \cap asleep : Space < Need(w) /\ readers # 0

\* What holds of the ring and of its sleepers in every state.
PipeSound == TypeOK /\ SleepersWait

\* The bytes in the ring, the oldest first.
Queue == [i \in 1 .. len |-> buf[(head + i - 1) % PIPE_BUFFER_SIZE]]

P == INSTANCE PipeSpec WITH queue <- Queue

\* The ring with its wrap-around and its partial writes is a queue of bytes
\* in which short writes stay in one piece.
ImplementsPipe == P!Spec

\* A write comes to an end as long as readers read: a writer that waits for
\* room is told of every byte taken.
WriteCompletes == \A w \in Writer : arg[w] # 0 ~> arg[w] = 0

-------------------------------------------------------------------------------
(* The inductive invariant behind PipeSound and ImplementsPipe *)

\* Calls under way: a sleeper is in a call, a write under way has bytes left,
\* and a short one has none written yet.
CallInv ==
    /\ \A p \in asleep : arg[p] # 0
    /\ \A w \in Writer : IF arg[w] = 0 THEN written[w] = 0 ELSE written[w] < arg[w]
    /\ \A w \in Writer : arg[w] <= PIPE_ATOMIC => written[w] = 0

PipeInv == TypeOK /\ SleepersWait /\ CallInv

===============================================================================

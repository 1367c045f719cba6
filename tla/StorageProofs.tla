------------------------------ MODULE StorageProofs ------------------------------
(***************************************************************************)
(* Where bytes stay between a write and a read, the pipe and the buffer    *)
(* cache: theorems about pipe.c as Pipe models it, for every number of     *)
(* readers and writers, every buffer size and every size of an atomic      *)
(* write (its sleepers really have to wait, and its ring implements        *)
(* PipeSpec), and about bcache.c as Bcache models it, for any devices,     *)
(* blocks, buffers and disk errors.                                        *)
(***************************************************************************)
EXTENDS Pipe, Bcache, SequenceTheorems, FiniteSetTheorems, TLAPS

(* The pipe (pipe.c): arithmetic of the ring *)

\* (head + n) % PIPE_BUFFER_SIZE wraps around at most once.
LEMMA ModSmall ==
    ASSUME NEW S \in Nat, S > 0, NEW a \in Nat, a < 2 * S
    PROVE  a % S = IF a < S THEN a ELSE a - S
  OBVIOUS

\* The length of a call, 0 when there is none, is a natural number.
LEMMA LengthNat == \A x \in Lengths \cup {0} : x \in Nat
  BY PipeAssumption

\* What a read or a write moves is within both its bounds.
LEMMA MinBounds ==
    ASSUME NEW a \in Nat, NEW b \in Nat
    PROVE  MinOf(a, b) \in 0 .. a /\ MinOf(a, b) \in 0 .. b /\ MinOf(a, b) \in Nat
  BY DEF MinOf

\* The slot of the byte i places behind the oldest.
Place(i) == (head + i) % PIPE_BUFFER_SIZE

\* Different offsets from head are different slots of the buffer.
LEMMA Places ==
    ASSUME TypeOK
    PROVE  /\ \A i \in 0 .. PIPE_BUFFER_SIZE - 1 : Place(i) \in 0 .. PIPE_BUFFER_SIZE - 1
           /\ \A i, j \in 0 .. PIPE_BUFFER_SIZE - 1 : Place(i) = Place(j) => i = j
<1>1. \A i \in 0 .. PIPE_BUFFER_SIZE - 1 :
        Place(i) = IF head + i < PIPE_BUFFER_SIZE THEN head + i ELSE (head + i) - PIPE_BUFFER_SIZE
  BY ModSmall, PipeAssumption DEF Place, TypeOK
<1>2. ASSUME NEW i \in 0 .. PIPE_BUFFER_SIZE - 1
      PROVE  Place(i) \in 0 .. PIPE_BUFFER_SIZE - 1
  <2>1. CASE head + i < PIPE_BUFFER_SIZE
    BY <1>1, <2>1, PipeAssumption DEF TypeOK
  <2>2. CASE ~(head + i < PIPE_BUFFER_SIZE)
    BY <1>1, <2>2, PipeAssumption DEF TypeOK
  <2> QED
    BY <2>1, <2>2
<1>3. ASSUME NEW i \in 0 .. PIPE_BUFFER_SIZE - 1, NEW j \in 0 .. PIPE_BUFFER_SIZE - 1,
             Place(i) = Place(j)
      PROVE  i = j
  <2> DEFINE S == PIPE_BUFFER_SIZE
  <2>1. S \in Nat /\ head \in 0 .. S - 1 /\ i \in 0 .. S - 1 /\ j \in 0 .. S - 1
    BY PipeAssumption DEF TypeOK
  <2>2. (IF head + i < S THEN head + i ELSE (head + i) - S)
          = (IF head + j < S THEN head + j ELSE (head + j) - S)
    BY <1>1, <1>3
  <2> HIDE DEF S
  <2> QED
    BY <2>1, <2>2
<1> QED
  BY <1>2, <1>3

\* What one round of pipe_write copies: at least a byte, no more than fits or
\* is left, and all of a short write.
LEMMA Chunk ==
    ASSUME PipeInv, NEW w \in Writer, Running(w), Space >= Need(w)
    PROVE  LET n == MinOf(Rest(w), Space)
           IN  /\ n \in 1 .. PIPE_BUFFER_SIZE /\ n <= Rest(w) /\ n <= Space
               /\ n # Rest(w) => n = Space
               /\ arg[w] \in Lengths /\ Rest(w) = arg[w] - written[w]
               /\ arg[w] <= PIPE_ATOMIC => n = arg[w] /\ written[w] = 0
               /\ n # Rest(w) => arg[w] > PIPE_ATOMIC
<1>1. arg[w] \in Lengths /\ arg[w] \in Nat \ {0} /\ written[w] \in Nat /\ written[w] < arg[w]
  BY PipeAssumption DEF PipeInv, TypeOK, CallInv, Process, Running
<1>2. Rest(w) \in Nat \ {0} /\ Rest(w) = arg[w] - written[w]
  BY <1>1 DEF Rest
<1>3. Space \in 0 .. PIPE_BUFFER_SIZE
  BY PipeAssumption DEF PipeInv, TypeOK, Space
<1>4. Need(w) \in Nat \ {0} /\ (Rest(w) <= PIPE_ATOMIC => Need(w) = Rest(w))
  BY <1>2, PipeAssumption DEF Need
<1>5. arg[w] <= PIPE_ATOMIC => written[w] = 0
  BY DEF PipeInv, CallInv
<1>6. QED
  BY <1>1, <1>2, <1>3, <1>4, <1>5, PipeAssumption DEF MinOf

\* pipe_write leaves the bytes in the ring alone and puts its own behind them.
LEMMA WrittenBytes ==
    ASSUME PipeInv, NEW w \in Writer, pipe_write(w)
    PROVE  LET n == MinOf(Rest(w), Space)
           IN  /\ DOMAIN buf' = 0 .. PIPE_BUFFER_SIZE - 1
               /\ \A k \in 0 .. len - 1 : buf'[Place(k)] = buf[Place(k)]
               /\ \A k \in 0 .. n - 1 : buf'[Place(len + k)] = <<w, written[w] + 1 + k, arg[w]>>
               /\ buf' \in [0 .. PIPE_BUFFER_SIZE - 1 -> Byte \cup {NoByte}]
<1> DEFINE n == MinOf(Rest(w), Space)
           S == PIPE_BUFFER_SIZE
           place == [i \in 0 .. n - 1 |-> (head + len + i) % PIPE_BUFFER_SIZE]
<1>1. /\ n \in 1 .. S /\ n <= Space /\ arg[w] \in Lengths
  BY Chunk DEF pipe_write
<1>2. len \in 0 .. S /\ len + n <= S /\ S \in Nat
  BY <1>1, PipeAssumption DEF PipeInv, TypeOK, Space
<1>3. \A i \in 0 .. n - 1 : place[i] = Place(len + i) /\ len + i \in 0 .. S - 1
  <2>1. \A i \in 0 .. n - 1 : (head + len) + i = head + (len + i)
    BY <1>1, <1>2 DEF PipeInv, TypeOK
  <2>2. QED 
    BY <1>1, <1>2, <2>1 DEF Place
<1>4. buf' = [j \in DOMAIN buf |->
                     IF \E i \in 0 .. n - 1 : place[i] = j
                     THEN <<w, written[w] + 1 + (CHOOSE i \in 0 .. n - 1 : place[i] = j), arg[w]>>
                     ELSE buf[j]]
  BY DEF pipe_write
<1>5. DOMAIN buf = 0 .. S - 1
  BY DEF PipeInv, TypeOK
<1> HIDE DEF n, place
<1>6. ASSUME NEW k \in 0 .. len - 1
      PROVE  buf'[Place(k)] = buf[Place(k)]
  <2>1. k \in 0 .. S - 1
    BY <1>2
  <2>2. Place(k) \in 0 .. S - 1
    BY <2>1, Places DEF PipeInv
  <2>3. \A i \in 0 .. n - 1 : place[i] # Place(k)
    <3>1. SUFFICES ASSUME NEW i \in 0 .. n - 1, place[i] = Place(k) PROVE FALSE
      OBVIOUS
    <3>2. len + i \in 0 .. S - 1 /\ Place(len + i) = Place(k)
      BY <1>3, <3>1
    <3>3. len + i = k
      BY <3>2, <2>1, Places DEF PipeInv
    <3>4. QED
      BY <3>3, <1>1, <1>2
  <2>4. QED
    BY <1>4, <1>5, <2>2, <2>3
<1>7. ASSUME NEW k \in 0 .. n - 1
      PROVE  buf'[Place(len + k)] = <<w, written[w] + 1 + k, arg[w]>>
  <2>1. place[k] = Place(len + k) /\ len + k \in 0 .. S - 1
    BY <1>3
  <2>2. Place(len + k) \in 0 .. S - 1
    BY <2>1, Places DEF PipeInv
  <2>3. \A i \in 0 .. n - 1 : place[i] = Place(len + k) => i = k
    <3>1. SUFFICES ASSUME NEW i \in 0 .. n - 1, place[i] = Place(len + k) PROVE i = k
      OBVIOUS
    <3>2. len + i \in 0 .. S - 1 /\ Place(len + i) = Place(len + k)
      BY <1>3, <3>1
    <3>3. len + i = len + k
      BY <3>2, <2>1, Places DEF PipeInv
    <3>4. QED
      BY <3>3, <1>1, <1>2
  <2>4. (CHOOSE i \in 0 .. n - 1 : place[i] = Place(len + k)) = k
    BY <2>1, <2>3
  <2>5. QED
    BY <1>4, <1>5, <2>1, <2>2, <2>4
<1>8. buf' \in [0 .. S - 1 -> Byte \cup {NoByte}]
  <2>1. SUFFICES ASSUME NEW j \in 0 .. S - 1 PROVE buf'[j] \in Byte \cup {NoByte}
    BY <1>4, <1>5
  <2>2. CASE \E i \in 0 .. n - 1 : place[i] = j
    <3>1. PICK k \in 0 .. n - 1 : place[k] = j
      BY <2>2
    <3>2. buf'[j] = <<w, written[w] + 1 + k, arg[w]>>
      BY <3>1, <1>3, <1>7
    <3>3. written[w] + 1 + k \in Nat
      BY <1>1 DEF PipeInv, TypeOK
    <3>4. QED
      BY <1>1, <3>2, <3>3 DEF Byte
  <2>3. CASE ~\E i \in 0 .. n - 1 : place[i] = j
    BY <1>4, <1>5, <2>3 DEF PipeInv, TypeOK
  <2>4. QED
    BY <2>2, <2>3
<1>9. QED
  BY <1>4, <1>5, <1>6, <1>7, <1>8 DEF n

-------------------------------------------------------------------------------
(* The inductive invariant *)

\* pipe_create establishes the invariant.
LEMMA InvInit == Init => PipeInv
<1> SUFFICES ASSUME Init PROVE PipeInv
  OBVIOUS
<1> USE PipeAssumption DEF Init
<1>1. TypeOK
  <2>1. buf \in [0 .. PIPE_BUFFER_SIZE - 1 -> Byte \cup {NoByte}]
    OBVIOUS
  <2>2. head \in 0 .. PIPE_BUFFER_SIZE - 1 /\ len \in 0 .. PIPE_BUFFER_SIZE
    OBVIOUS
  <2>3. readers \in 0 .. 1 /\ writers \in 0 .. 1
    OBVIOUS
  <2>6. freed \in BOOLEAN
    OBVIOUS
  <2>4. asleep \subseteq Process /\ arg \in [Process -> Lengths \cup {0}]
    OBVIOUS
  <2>5. written \in [Writer -> Nat] /\ writes \in [Writer -> 0 .. MaxWrites]
    OBVIOUS
  <2> QED
    BY <2>1, <2>2, <2>3, <2>4, <2>5, <2>6 DEF TypeOK
<1>2. SleepersWait
  BY DEF SleepersWait
<1>3. CallInv
  BY DEF CallInv, Process
<1> QED
  BY <1>1, <1>2, <1>3 DEF PipeInv

\* Every action keeps it.
LEMMA SysReadKeeps ==
    ASSUME PipeInv, NEW r \in Reader, sys_read(r)
    PROVE  PipeInv'
<1> USE PipeAssumption DEF PipeInv, sys_read, ring, ends
<1>1. TypeOK'
  BY DEF TypeOK, Process
<1>2. SleepersWait'
  BY DEF SleepersWait, TypeOK, CallInv, Process, Space, Need, Rest
<1>3. CallInv'
  BY DEF CallInv, TypeOK, Process
<1> QED
  BY <1>1, <1>2, <1>3

LEMMA SysWriteKeeps ==
    ASSUME PipeInv, NEW w \in Writer, sys_write(w)
    PROVE  PipeInv'
<1> USE PipeAssumption DEF PipeInv, sys_write, ring, ends
<1>1. TypeOK'
  BY DEF TypeOK, Process
<1>2. SleepersWait'
  BY DEF SleepersWait, TypeOK, CallInv, Process, Space, Need, Rest
<1>3. CallInv'
  BY DEF CallInv, TypeOK, Process
<1> QED
  BY <1>1, <1>2, <1>3

LEMMA ReadEmptyKeeps ==
    ASSUME PipeInv, NEW r \in Process, read_empty(r)
    PROVE  PipeInv'
<1> USE PipeAssumption DEF PipeInv, read_empty, Running, Return, ring, ends
<1>1. TypeOK'
  BY DEF TypeOK, Process
<1>2. SleepersWait'
  BY DEF SleepersWait, TypeOK, CallInv, Process, Space, Need, Rest
<1>3. CallInv'
  BY DEF CallInv, TypeOK, Process
<1> QED
  BY <1>1, <1>2, <1>3

LEMMA PipeReadKeeps ==
    ASSUME PipeInv, NEW r \in Process, pipe_read(r)
    PROVE  PipeInv'
<1> USE PipeAssumption DEF PipeInv
<1> DEFINE n == MinOf(len, arg[r])
<1>1. /\ r \in Reader /\ head' = Place(n) /\ len' = len - n /\ asleep' = {}
      /\ arg' = [arg EXCEPT ![r] = 0]
      /\ UNCHANGED <<buf, readers, writers, freed, written, writes>>
  BY DEF pipe_read, pipe_notify, StillAsleep, Return, ends, Advanced, Place
<1>2. n \in 0 .. len /\ n \in Nat
  <2>1. len \in Nat
    BY DEF TypeOK
  <2>2. arg[r] \in Nat
    BY LengthNat DEF TypeOK
  <2> QED
    BY <2>1, <2>2, MinBounds
<1> HIDE DEF n
<1>3. head' \in 0 .. PIPE_BUFFER_SIZE - 1
  BY <1>1, <1>2 DEF Place, TypeOK
<1>4. TypeOK'
  BY <1>1, <1>2, <1>3 DEF TypeOK, Process
<1>5. SleepersWait'
  BY <1>1 DEF SleepersWait
<1>6. CallInv'
  BY <1>1 DEF CallInv, TypeOK, Process
<1> QED
  BY <1>4, <1>5, <1>6

LEMMA WriteBrokenKeeps ==
    ASSUME PipeInv, NEW w \in Process, write_broken(w)
    PROVE  PipeInv'
<1> USE PipeAssumption DEF PipeInv, write_broken, WriteEnds, Running, Return, ring, ends
<1>1. TypeOK'
  BY DEF TypeOK, Process
<1>2. SleepersWait'
  BY DEF SleepersWait, TypeOK, CallInv, Process, Space, Need, Rest
<1>3. CallInv'
  BY DEF CallInv, TypeOK, Process
<1> QED
  BY <1>1, <1>2, <1>3

LEMMA WriteFullKeeps ==
    ASSUME PipeInv, NEW w \in Process, write_full(w)
    PROVE  PipeInv'
<1> USE PipeAssumption DEF PipeInv
<1>1. /\ w \in Writer /\ Running(w) /\ readers # 0 /\ Space < Need(w)
      /\ UNCHANGED <<buf, head, len, readers, writers, freed, writes>>
  BY DEF write_full, ring, ends
<1>2. CASE w \in Nonblock
  <2>1. /\ arg' = [arg EXCEPT ![w] = 0] /\ written' = [written EXCEPT ![w] = 0]
        /\ UNCHANGED asleep
    BY <1>2 DEF write_full, WriteEnds, Return
  <2>2. TypeOK'
    BY <1>1, <2>1 DEF TypeOK
  <2>3. SleepersWait'
    BY <1>1, <2>1 DEF SleepersWait, TypeOK, Process, Running, Space, Need, Rest
  <2>4. CallInv'
    BY <1>1, <2>1 DEF CallInv, TypeOK, Process, Running
  <2> QED
    BY <2>2, <2>3, <2>4
<1>3. CASE w \notin Nonblock
  <2>1. asleep' = asleep \cup {w} /\ UNCHANGED <<arg, written>>
    BY <1>3 DEF write_full
  <2>2. TypeOK'
    BY <1>1, <2>1 DEF TypeOK
  <2>3. SleepersWait'
    BY <1>1, <2>1 DEF SleepersWait, Space, Need, Rest
  <2>4. CallInv'
    BY <1>1, <2>1 DEF CallInv, Running
  <2> QED
    BY <2>2, <2>3, <2>4
<1> QED
  BY <1>2, <1>3

LEMMA PipeWriteKeeps ==
    ASSUME PipeInv, NEW w \in Process, pipe_write(w)
    PROVE  PipeInv'
<1> USE PipeAssumption DEF PipeInv
<1> DEFINE n == MinOf(Rest(w), Space)
<1>1. /\ w \in Writer /\ Running(w) /\ readers # 0 /\ Space >= Need(w)
      /\ len' = len + n
      /\ UNCHANGED <<head, readers, writers, freed, writes>>
  BY DEF pipe_write, ends
<1>2. buf' \in [0 .. PIPE_BUFFER_SIZE - 1 -> Byte \cup {NoByte}]
  BY <1>1, WrittenBytes
<1>3. /\ n \in 1 .. PIPE_BUFFER_SIZE /\ n <= Rest(w) /\ n <= Space
      /\ n # Rest(w) => n = Space /\ arg[w] > PIPE_ATOMIC
      /\ arg[w] \in Lengths /\ Rest(w) = arg[w] - written[w]
  BY <1>1, Chunk
<1>4. \/ /\ asleep' = {}
         /\ arg' = [arg EXCEPT ![w] = 0] /\ written' = [written EXCEPT ![w] = 0]
      \/ /\ n # Rest(w) /\ asleep' = {w}
         /\ written' = [written EXCEPT ![w] = @ + n] /\ UNCHANGED arg
  BY DEF pipe_write, pipe_notify, StillAsleep, WriteEnds, Return
<1>5. len' \in 0 .. PIPE_BUFFER_SIZE
  BY <1>1, <1>3 DEF TypeOK, Space
<1> HIDE DEF n
<1>6. CASE /\ asleep' = {}
           /\ arg' = [arg EXCEPT ![w] = 0] /\ written' = [written EXCEPT ![w] = 0]
  <2>1. TypeOK'
    BY <1>1, <1>2, <1>5, <1>6 DEF TypeOK
  <2>2. SleepersWait'
    BY <1>6 DEF SleepersWait
  <2>3. CallInv'
    BY <1>1, <1>6 DEF CallInv, TypeOK
  <2> QED
    BY <2>1, <2>2, <2>3
<1>7. CASE /\ n # Rest(w) /\ asleep' = {w}
           /\ written' = [written EXCEPT ![w] = @ + n] /\ UNCHANGED arg
  <2>1. /\ written[w] \in Nat /\ arg[w] \in Nat /\ n \in Nat
        /\ written'[w] = written[w] + n /\ written[w] + n < arg[w]
    <3>1. written[w] \in Nat /\ written'[w] = written[w] + n
      BY <1>1, <1>7 DEF TypeOK
    <3>2. arg[w] \in Nat
      BY <1>3, LengthNat
    <3>3. n \in Nat
      BY <1>3
    <3> QED
      BY <3>1, <3>2, <3>3, <1>3, <1>7
  <2>2. TypeOK'
    BY <1>1, <1>2, <1>5, <1>7, <2>1 DEF TypeOK
  <2>3. Space' = 0
    BY <1>1, <1>3, <1>7 DEF Space, TypeOK
  <2>4. Need(w)' > 0
    BY <1>7, <2>1 DEF Need, Rest
  <2>5. SleepersWait'
    BY <1>1, <1>7, <2>3, <2>4 DEF SleepersWait
  <2>6. CallInv'
    BY <1>1, <1>3, <1>7, <2>1 DEF CallInv, TypeOK, Running
  <2> QED
    BY <2>2, <2>5, <2>6
<1> QED
  BY <1>4, <1>6, <1>7

LEMMA InterruptedKeeps ==
    ASSUME PipeInv, NEW p \in Process, interrupted(p)
    PROVE  PipeInv'
<1> USE PipeAssumption DEF PipeInv, interrupted, Return, ring, ends
<1>1. TypeOK'
  BY DEF TypeOK, Process
<1>2. SleepersWait'
  BY DEF SleepersWait, TypeOK, CallInv, Process, Space, Need, Rest
<1>3. CallInv'
  BY DEF CallInv, TypeOK, Process
<1> QED
  BY <1>1, <1>2, <1>3

LEMMA CloseKeeps ==
    ASSUME PipeInv, pipe_close
    PROVE  PipeInv'
<1> USE PipeAssumption DEF PipeInv, pipe_close, pipe_notify, StillAsleep, ring, ends
<1>1. TypeOK'
  BY DEF TypeOK, Process
<1>2. SleepersWait'
  BY DEF SleepersWait
<1>3. CallInv'
  BY DEF CallInv
<1> QED
  BY <1>1, <1>2, <1>3

LEMMA StutterKeeps ==
    ASSUME PipeInv, UNCHANGED vars
    PROVE  PipeInv'
  BY DEF PipeInv, vars, ring, ends, TypeOK, SleepersWait, CallInv, Space, Need, Rest

\* Every reachable state satisfies the inductive invariant, whatever the sizes
\* of the buffer and of an atomic write, and however many processes there are.
THEOREM PipeInvHolds == Spec => []PipeInv
<1>1. Init => PipeInv
  BY InvInit
<1>2. PipeInv /\ [Next]_vars => PipeInv'
  <2> SUFFICES ASSUME PipeInv, [Next]_vars PROVE PipeInv'
    OBVIOUS
  <2>1. ASSUME NEW r \in Reader, sys_read(r) PROVE PipeInv'
    BY <2>1, SysReadKeeps
  <2>2. ASSUME NEW w \in Writer, sys_write(w) PROVE PipeInv'
    BY <2>2, SysWriteKeeps
  <2>3. ASSUME NEW p \in Process, Step(p) PROVE PipeInv'
    BY <2>3, ReadEmptyKeeps, PipeReadKeeps, WriteBrokenKeeps, WriteFullKeeps, PipeWriteKeeps
       DEF Step
  <2>4. ASSUME NEW p \in Process, interrupted(p) PROVE PipeInv'
    BY <2>4, InterruptedKeeps
  <2>5. CASE pipe_close
    BY <2>5, CloseKeeps
  <2>6. CASE UNCHANGED vars
    BY <2>6, StutterKeeps
  <2> QED
    BY <2>1, <2>2, <2>3, <2>4, <2>5, <2>6 DEF Next
<1> QED
  BY <1>1, <1>2, PTL DEF Spec

\* pipe.c never loses a wakeup and never leaves its buffer: a process sleeps on
\* the pipe only while what it waits for is not there.
THEOREM PipeIsSound == Spec => []PipeSound
<1>1. PipeInv => PipeSound
  BY DEF PipeInv, PipeSound
<1> QED
  BY <1>1, PipeInvHolds, PTL

-------------------------------------------------------------------------------
(* The refinement: what each step does to the queue of bytes *)

\* Slots are natural numbers, and % gives a slot.
LEMMA RangeNat == \A i \in 0 .. PIPE_BUFFER_SIZE - 1 : i \in Nat
  OBVIOUS

LEMMA ModRange == \A a \in Nat : a % PIPE_BUFFER_SIZE \in 0 .. PIPE_BUFFER_SIZE - 1
  BY PipeAssumption

\* The bytes in the ring as a sequence, now and after a step.
LEMMA QueueIsSeq ==
    ASSUME TypeOK
    PROVE  /\ Queue \in Seq(Byte \cup {NoByte}) /\ Len(Queue) = len
           /\ \A i \in 1 .. len : Queue[i] = buf[(head + (i - 1)) % PIPE_BUFFER_SIZE]
<1>1. len \in Nat /\ \A i \in 1 .. len : head + (i - 1) \in Nat
  BY PipeAssumption DEF TypeOK
<1>2. \A i \in 1 .. len : Queue[i] = buf[(head + (i - 1)) % PIPE_BUFFER_SIZE]
  BY DEF Queue
<1>3. \A i \in 1 .. len : Queue[i] \in Byte \cup {NoByte}
  BY <1>1, <1>2, ModRange DEF TypeOK
<1>4. Queue \in [1 .. len -> Byte \cup {NoByte}]
  <2>1. Queue = [i \in 1 .. len |-> Queue[i]]
    BY DEF Queue
  <2> QED
    BY <1>3, <2>1
<1> QED
  BY <1>1, <1>2, <1>4

LEMMA NextQueueIsSeq ==
    ASSUME TypeOK'
    PROVE  /\ Queue' \in Seq(Byte \cup {NoByte}) /\ Len(Queue') = len'
           /\ \A i \in 1 .. len' : Queue'[i] = buf'[(head' + (i - 1)) % PIPE_BUFFER_SIZE]
<1>1. len' \in Nat /\ \A i \in 1 .. len' : head' + (i - 1) \in Nat
  <2>1. len' \in Nat
    BY PipeAssumption DEF TypeOK
  <2>2. head' \in 0 .. PIPE_BUFFER_SIZE - 1
    BY DEF TypeOK
  <2>3. head' \in Nat
    BY <2>2, RangeNat
  <2>4. \A h, l \in Nat : \A i \in 1 .. l : h + (i - 1) \in Nat
    OBVIOUS
  <2> QED
    BY <2>1, <2>3, <2>4
<1>2. \A i \in 1 .. len' : Queue'[i] = buf'[(head' + (i - 1)) % PIPE_BUFFER_SIZE]
  BY DEF Queue
<1>3. \A i \in 1 .. len' : Queue'[i] \in Byte \cup {NoByte}
  BY <1>1, <1>2, ModRange DEF TypeOK
<1>4. Queue' \in [1 .. len' -> Byte \cup {NoByte}]
  <2>1. Queue' = [i \in 1 .. len' |-> Queue'[i]]
    BY DEF Queue
  <2> QED
    BY <1>3, <2>1
<1> QED
  BY <1>1, <1>2, <1>4

\* A step that leaves the ring alone leaves the queue alone.
LEMMA QueueSame ==
    ASSUME UNCHANGED ring
    PROVE  UNCHANGED Queue
  BY DEF ring, Queue

\* The end of a write is End of PipeSpec.
LEMMA EndsWrite ==
    ASSUME UNCHANGED ring, NEW w \in Writer, arg[w] \in Lengths,
           written' = [written EXCEPT ![w] = 0]
    PROVE  P!Next
<1>1. P!End(w)
  BY QueueSame DEF P!End
<1> QED
  BY <1>1 DEF P!Next

\* pipe_read is Take: the ring without its first n bytes is the rest of the queue.
LEMMA TakesBytes ==
    ASSUME PipeInv, PipeInv', NEW r \in Process, pipe_read(r)
    PROVE  P!Next
<1> DEFINE n == MinOf(len, arg[r])
           S == PIPE_BUFFER_SIZE
           Rem == SubSeq(Queue, n + 1, Len(Queue))
<1>1. /\ head' = Place(n) /\ len' = len - n /\ buf' = buf /\ written' = written
      /\ arg[r] # 0 /\ len # 0
  BY DEF pipe_read, Advanced, Place, Running
<1>2. n \in 1 .. len
  <2>1. len \in Nat /\ len # 0
    BY <1>1 DEF PipeInv, TypeOK
  <2>2. arg[r] \in Nat /\ arg[r] # 0
    BY <1>1, LengthNat DEF PipeInv, TypeOK
  <2> QED
    BY <2>1, <2>2 DEF MinOf
<1>3. S \in Nat /\ len \in 1 .. S /\ head \in 0 .. S - 1
  BY <1>1, PipeAssumption DEF PipeInv, TypeOK
<1> HIDE DEF n, S
<1>4. Rem \in Seq(Byte \cup {NoByte}) /\ Len(Rem) = len' /\ \A i \in 1 .. len' : Rem[i] = Queue[n + i]
  <2>1. Queue \in Seq(Byte \cup {NoByte}) /\ Len(Queue) = len
    BY QueueIsSeq DEF PipeInv
  <2>2. n + 1 \in 1 .. len + 1 /\ len \in Nat /\ n \in Nat
    BY <1>2, <1>3
  <2> QED
    BY <2>1, <2>2, <1>1
<1>5. ASSUME NEW i \in 1 .. len'
      PROVE  Queue'[i] = Rem[i]
  <2>1. Queue'[i] = buf[(head' + (i - 1)) % S]
    BY <1>1, NextQueueIsSeq DEF PipeInv, S
  <2>2. n + i \in 1 .. len /\ (n + i) - 1 = n + (i - 1)
    BY <1>1, <1>2, <1>3
  <2>3. Rem[i] = buf[(head + (n + (i - 1))) % S]
    <3>1. Rem[i] = Queue[n + i]
      BY <1>4
    <3>2. Queue[n + i] = buf[(head + ((n + i) - 1)) % S]
      BY <2>2, QueueIsSeq DEF PipeInv, S
    <3> HIDE DEF Rem
    <3> QED
      BY <2>2, <3>1, <3>2
  <2>4. (head' + (i - 1)) % S = (head + (n + (i - 1))) % S
    <3>1. head' = IF head + n < S THEN head + n ELSE (head + n) - S
      BY <1>1, <1>2, <1>3, ModSmall DEF Place, S
    <3>2. n \in Nat /\ i \in Nat /\ i - 1 \in Nat /\ n + (i - 1) < S /\ n + (i - 1) \in Nat
      BY <1>1, <1>2, <1>3
    <3>3. CASE head + n < S
      BY <3>1, <3>2, <3>3, <1>3
    <3>4. CASE ~(head + n < S)
      <4> DEFINE a == ((head + n) - S) + (i - 1)
      <4>1. a \in Nat /\ a < S /\ head' + (i - 1) = a /\ head + (n + (i - 1)) = a + S
        BY <3>1, <3>2, <3>4, <1>3
      <4> HIDE DEF a
      <4>2. a % S = a
        BY <4>1, <1>3
      <4>3. (a + S) % S = a
        BY <4>1, <1>3, ModSmall
      <4> QED
        BY <4>1, <4>2, <4>3
    <3> QED
      BY <3>3, <3>4
  <2> QED
    BY <2>1, <2>3, <2>4
<1>6. Queue' = Rem
  <2>1. Queue' \in Seq(Byte \cup {NoByte}) /\ Len(Queue') = len'
    BY NextQueueIsSeq DEF PipeInv
  <2> QED
    BY <2>1, <1>4, <1>5, SeqEqual
<1>7. P!Take(n)
  BY <1>6, <1>1 DEF P!Take
<1>8. n \in 1 .. Len(Queue)
  BY <1>2, QueueIsSeq DEF PipeInv
<1> QED
  BY <1>7, <1>8 DEF P!Next

\* A round of pipe_write is Put.
LEMMA PutsBytes ==
    ASSUME PipeInv, PipeInv', NEW w \in Process, pipe_write(w)
    PROVE  P!Next
<1> DEFINE n == MinOf(Rest(w), Space)
           S == PIPE_BUFFER_SIZE
           B == Byte \cup {NoByte}
           new == P!Bytes(w, written[w], written[w] + n, arg[w])
<1>1. /\ w \in Writer /\ Running(w) /\ Space >= Need(w) /\ head' = head /\ len' = len + n
      /\ \/ written' = [written EXCEPT ![w] = 0]
         \/ written' = [written EXCEPT ![w] = @ + n]
  BY DEF pipe_write, WriteEnds
<1>2. /\ n \in 1 .. S /\ n <= Rest(w) /\ n <= Space /\ arg[w] \in Lengths
      /\ Rest(w) = arg[w] - written[w]
      /\ arg[w] <= PIPE_ATOMIC => n = arg[w]
  BY <1>1, Chunk
<1>3. /\ \A k \in 0 .. len - 1 : buf'[Place(k)] = buf[Place(k)]
      /\ \A k \in 0 .. n - 1 : buf'[Place(len + k)] = <<w, written[w] + 1 + k, arg[w]>>
  BY <1>1, WrittenBytes
<1>4. S \in Nat /\ len \in 0 .. S /\ len + n <= S /\ written[w] \in Nat /\ n \in Nat /\ len \in Nat
  BY <1>1, <1>2, PipeAssumption DEF PipeInv, TypeOK, Space
<1> HIDE DEF n, S, B
<1>5. /\ new = [i \in 1 .. n |-> <<w, written[w] + i, arg[w]>>]
      /\ new \in Seq(B) /\ Len(new) = n
  <2>1. (written[w] + n) - written[w] = n
    BY <1>4
  <2>2. new = [i \in 1 .. (written[w] + n) - written[w] |-> <<w, written[w] + i, arg[w]>>]
    BY DEF P!Bytes
  <2>4. new = [i \in 1 .. n |-> <<w, written[w] + i, arg[w]>>]
    BY <2>1, <2>2
  <2>3. \A i \in 1 .. n : <<w, written[w] + i, arg[w]>> \in B
    BY <1>1, <1>2, <1>4 DEF B, Byte
  <2> QED
    BY <2>4, <2>3, <1>4
<1> HIDE DEF new
<1>6. Queue \in Seq(B) /\ Len(Queue) = len /\ \A i \in 1 .. len : Queue[i] = buf[Place(i - 1)]
  BY QueueIsSeq DEF PipeInv, B, Place
<1>7. /\ Queue' \in Seq(B) /\ Len(Queue') = len + n
      /\ \A i \in 1 .. len + n : Queue'[i] = buf'[Place(i - 1)]
  BY <1>1, NextQueueIsSeq DEF PipeInv, B, Place
<1>8. /\ Queue \o new \in Seq(B) /\ Len(Queue \o new) = len + n
      /\ \A i \in 1 .. len + n : (Queue \o new)[i] = IF i <= len THEN Queue[i] ELSE new[i - len]
  <2>1. /\ Queue \o new \in Seq(B) /\ Len(Queue \o new) = Len(Queue) + Len(new)
        /\ \A i \in 1 .. Len(Queue) + Len(new) :
             (Queue \o new)[i] = IF i <= Len(Queue) THEN Queue[i] ELSE new[i - Len(Queue)]
    <3>1. Queue \in Seq(B) /\ new \in Seq(B)
      BY <1>5, <1>6
    <3> QED
      BY <3>1, ConcatProperties
  <2> QED
    BY <1>5, <1>6, <2>1
<1>9. ASSUME NEW i \in 1 .. len + n
      PROVE  Queue'[i] = (Queue \o new)[i]
  <2>1. CASE i <= len
    <3>1. i - 1 \in 0 .. len - 1 /\ i \in 1 .. len
      BY <1>4, <2>1
    <3> QED
      BY <1>3, <1>6, <1>7, <1>8, <2>1, <3>1
  <2>2. CASE ~(i <= len)
    <3> DEFINE k == (i - len) - 1
    <3>1. k \in 0 .. n - 1 /\ i - 1 = len + k /\ i - len \in 1 .. n
          /\ written[w] + 1 + k = written[w] + (i - len)
      BY <1>4, <2>2
    <3> HIDE DEF k
    <3>2. Queue'[i] = <<w, written[w] + 1 + k, arg[w]>>
      BY <1>3, <1>7, <3>1
    <3>3. (Queue \o new)[i] = <<w, written[w] + (i - len), arg[w]>>
      BY <1>5, <1>8, <2>2, <3>1
    <3> QED
      BY <3>1, <3>2, <3>3
  <2> QED
    BY <2>1, <2>2
<1>10. Queue' = Queue \o new
  BY <1>7, <1>8, <1>9, SeqEqual
<1>11. P!Put(w, arg[w], n)
  <2>1. /\ arg[w] <= PIPE_ATOMIC => n = arg[w]
        /\ n <= arg[w] - written[w] /\ Len(Queue) + n <= PIPE_BUFFER_SIZE
    BY <1>2, <1>4, <1>6 DEF S
  <2>2. Queue' = Queue \o P!Bytes(w, written[w], written[w] + n, arg[w])
    BY <1>10 DEF new
  <2>3. \E m \in {0, written[w] + n} : written' = [written EXCEPT ![w] = m]
    BY <1>1
  <2> QED
    BY <2>1, <2>2, <2>3 DEF P!Put
<1> QED
  BY <1>1, <1>2, <1>11 DEF P!Next, S

\* Every step is a step of PipeSpec or leaves its variables alone.
LEMMA StepRefines ==
    ASSUME PipeInv, PipeInv', [Next]_vars
    PROVE  [P!Next]_(P!vars)
<1> USE DEF PipeInv
<1>1. ASSUME UNCHANGED ring, UNCHANGED written PROVE UNCHANGED P!vars
  BY <1>1, QueueSame DEF P!vars
<1>2. ASSUME NEW r \in Reader, sys_read(r) PROVE UNCHANGED P!vars
  BY <1>1, <1>2 DEF sys_read
<1>3. ASSUME NEW w \in Writer, sys_write(w) PROVE UNCHANGED P!vars
  BY <1>1, <1>3 DEF sys_write
<1>4. ASSUME NEW p \in Process, read_empty(p) PROVE UNCHANGED P!vars
  BY <1>1, <1>4 DEF read_empty
<1>5. ASSUME NEW p \in Process, write_broken(p) PROVE P!Next
  <2>1. /\ p \in Writer /\ arg[p] \in Lengths /\ UNCHANGED ring
        /\ written' = [written EXCEPT ![p] = 0]
    BY <1>5 DEF write_broken, WriteEnds, Running, TypeOK
  <2> QED
    BY <2>1, EndsWrite
<1>6. ASSUME NEW p \in Process, write_full(p) PROVE [P!Next]_(P!vars)
  <2>1. p \in Writer /\ arg[p] \in Lengths /\ UNCHANGED ring
    BY <1>6 DEF write_full, Running, TypeOK
  <2>2. CASE written' = [written EXCEPT ![p] = 0]
    BY <2>1, <2>2, EndsWrite
  <2>3. CASE UNCHANGED written
    BY <1>1, <2>1, <2>3
  <2> QED
    BY <1>6, <2>2, <2>3 DEF write_full, WriteEnds
<1>7. ASSUME NEW p \in Process, interrupted(p) PROVE [P!Next]_(P!vars)
  <2>1. /\ p \in asleep /\ UNCHANGED ring
        /\ written' = [w \in Writer |-> IF w = p THEN 0 ELSE written[w]]
        /\ written \in [Writer -> Nat]
    BY <1>7 DEF interrupted, TypeOK
  <2>2. CASE p \in Writer
    <3>1. arg[p] \in Lengths
      BY <2>1 DEF CallInv, TypeOK
    <3>2. written' = [written EXCEPT ![p] = 0]
      BY <2>1
    <3> QED
      BY <2>1, <2>2, <3>1, <3>2, EndsWrite
  <2>3. CASE p \notin Writer
    <3>1. written' = written
      BY <2>1, <2>3
    <3> QED
      BY <1>1, <2>1, <3>1
  <2> QED
    BY <2>2, <2>3
<1>8. CASE pipe_close
  BY <1>1, <1>8 DEF pipe_close
<1>9. CASE UNCHANGED vars
  BY <1>1, <1>9 DEF vars
<1> QED
  BY <1>2, <1>3, <1>4, <1>5, <1>6, <1>7, <1>8, <1>9, TakesBytes, PutsBytes DEF Next, Step

\* pipe.c implements the queue of bytes of PipeSpec: its ring, with its wrap-around,
\* partial writes, sleeps and interrupted calls, loses, doubles and reorders no
\* byte, and a write of at most PIPE_ATOMIC bytes is never mixed with another.
THEOREM PipeRefines == Spec => ImplementsPipe
<1>1. Init => P!Init
  <2> SUFFICES ASSUME Init PROVE P!Init
    OBVIOUS
  <2>1. Queue = <<>>
    BY DEF Init, Queue
  <2>2. written = [w \in Writer |-> 0]
    BY DEF Init
  <2> QED
    BY <2>1, <2>2 DEF P!Init
<1>2. PipeInv /\ PipeInv' /\ [Next]_vars => [P!Next]_(P!vars)
  BY StepRefines
<1> QED
  BY <1>1, <1>2, PipeInvHolds, PTL DEF Spec, ImplementsPipe, P!Spec

-------------------------------------------------------------------------------
(* The buffer cache (bcache.c) *)

(* What the cells of the model hold.                                        *)
Data == Nat \X Nat
Buf == [dev : Devs \cup {0}, blk : Nat, valid : BOOLEAN, dirty : BOOLEAN, busy : BOOLEAN, data : Data]
BcOps == {"none", "read", "direct", "whole", "part", "flush", "flusher", "detach"}
BcPcs == {"idle", "getblk", "wait", "evict", "store", "fill", "written", "direct", "raw", "flush",
          "barrier", "flushed", "detach", "detached", "done", "failed"}
Res == {<<>>} \cup UNION {[S -> Data] : S \in SUBSET Nat}
Thread == [pc : BcPcs, op : BcOps, blk : Nat, val : Nat, slot : BcSlots \cup {0},
           back : {"idle", "getblk", "flush", "detach"}, run : Seq(BcSlots), res : Res, gone : SUBSET Nat, left : SUBSET Nat]
Store == [Devs -> [Blocks -> Data]]

(* The buffers: no block twice, and nothing in a buffer that is not there.  *)
BufsOK(B) ==
  /\ B \in [BcSlots -> Buf]
  /\ \A s \in BcSlots : B[s].dev = 0 => B[s] = NoBuf
  /\ \A s \in BcSlots : B[s].dev # 0 => B[s].blk \in Blocks
  /\ \A s \in BcSlots : B[s].dirty => B[s].valid
  /\ \A s, x \in BcSlots : B[s].dev # 0 /\ B[s].dev = B[x].dev /\ B[s].blk = B[x].blk => s = x

(* The list of idle buffers. *)
LruOK(B, q) ==
  /\ q \in Seq(BcSlots) /\ IsInjective(q)
  /\ Range(q) = {s \in BcSlots : B[s].dev # 0 /\ ~B[s].busy}

(* A busy buffer is in the run of one thread. *)
BusyOK(B, T) ==
  /\ \A s \in BcSlots : B[s].busy <=> \E t \in BcThreads : s \in Range(T[t].run)
  /\ \A t, u \in BcThreads, s \in BcSlots : s \in Range(T[t].run) /\ s \in Range(T[u].run) => t = u

(* What a valid buffer holds was written last; where the disk is behind, a  *)
(* dirty buffer has the block.                                              *)
DataOK(B, dk, lt) ==
  /\ \A s \in BcSlots : B[s].valid => B[s].data = lt[B[s].dev][B[s].blk]
  /\ \A d \in Devs, b \in Blocks : dk[d][b] = lt[d][b] \/ \E s \in BcSlots : B[s].dev = d /\ B[s].blk = b /\ B[s].dirty

(* A thread r = th[t]: what its program counter says of the rest.           *)
RunsOK(B, t, r) ==
  /\ r.pc \notin {"evict", "store", "fill"} => r.run = <<>>
  /\ r.pc \in {"evict", "store"} =>
       /\ r.slot \in Range(r.run) /\ IsInjective(r.run)
       /\ \A x \in Range(r.run) : B[x].dirty /\ B[x].dev = B[r.slot].dev
  /\ r.pc = "fill" =>
       /\ t \in Devs /\ r.op \in {"read", "part"} /\ Len(r.run) >= 1 /\ r.run[1] = r.slot /\ IsInjective(r.run)
       /\ \A i \in 1..Len(r.run) : B[r.run[i]].dev = t /\ B[r.run[i]].blk = r.blk + i - 1 /\ ~B[r.run[i]].valid
CallOK(r) ==
  /\ r.op \in {"read", "whole", "part"} => r.blk \in Blocks
  /\ r.pc \in {"getblk", "evict"} \/ (r.pc = "wait" /\ r.back = "getblk") => r.op \in {"read", "whole", "part"}
  /\ r.pc = "written" => r.op \in {"whole", "part"}
  /\ r.pc \in {"direct", "raw"} => r.op = "direct"
  /\ r.pc = "wait" => r.back # "idle"
  /\ r.pc = "barrier" => r.op \in {"flush", "detach"}
  /\ r.pc \in {"barrier", "flushed"} => r.left = {}
ReadOK(B, lt, t, r) ==
  /\ r.pc = "done" /\ r.op \in {"read", "direct"} => \A b \in DOMAIN r.res \ r.gone : r.res[b] = lt[t][b]
  /\ r.pc = "raw" =>
       /\ r.res \in [Blocks -> Data]
       /\ \A b \in Blocks \ r.gone : r.res[b] = lt[t][b] \/ \E s \in BcSlots : B[s].dev = t /\ B[s].blk = b /\ B[s].valid
FlushOK(dk, lt, t, r) ==
  r.val = 0 /\ (r.pc = "detach" \/ (r.pc = "wait" /\ r.back = "detach") \/ (r.pc = "barrier" /\ r.op = "detach")) => dk[t] = lt[t]
WaitOK(B, q, r) == r.pc = "wait" => IF r.slot = 0 THEN q = <<>> ELSE B[r.slot].busy
ThreadOK(B, q, dk, lt, t, r) ==
  /\ RunsOK(B, t, r) /\ CallOK(r) /\ WaitOK(B, q, r)
  /\ t \in Devs => ReadOK(B, lt, t, r) /\ FlushOK(dk, lt, t, r)

TypesOK ==
  /\ nextSeq \in [Devs -> Int] /\ th \in [BcThreads -> Thread] /\ disk \in Store /\ latest \in Store
  /\ bcCase \in [calls : [BcThreads -> Seq(BcCalls)], errors : Nat, vals : SUBSET Nat]

(* The inductive invariant. *)
BcInv ==
  /\ TypesOK /\ BufsOK(bufs) /\ LruOK(bufs, lru) /\ BusyOK(bufs, th) /\ DataOK(bufs, disk, latest)
  /\ \A t \in BcThreads : ThreadOK(bufs, lru, disk, latest, t, th[t])
------------------------------------------------------------------------------
(* Sequences: the members of a list that are in a set.                      *)

(* Induction over numbers, for a set of them. *)
LEMMA NatSet == ASSUME NEW T, 0 \in T, \A n \in Nat : n \in T => n + 1 \in T  PROVE Nat \subseteq T
  <1> DEFINE R == {ss \in Nat \X Nat : ss[1] < ss[2]}
  <1> DEFINE Out == Nat \ T
  <1>0. IsWellFoundedOn(R, Nat)
    BY NatLessThanWellFounded DEF OpToRel
  <1> HIDE DEF R
  <1>1. SUFFICES ASSUME Out # {}  PROVE FALSE
    OBVIOUS
  <1>2. PICK n \in Out : \A y \in Out : ~(<<y, n>> \in R)
    BY <1>0, <1>1, WFMin
  <1>3. n # 0 /\ n \in Nat /\ n - 1 \in Nat
    OBVIOUS
  <1>4. <<n - 1, n>> \in R
    BY <1>3 DEF R
  <1>5. n - 1 \in T
    BY <1>2, <1>3, <1>4
  <1> QED
    BY <1>3, <1>5

(* The recursion of Those has a solution. *)
LEMMA ThoseDefined ==
  ASSUME NEW X, NEW q \in Seq(X), NEW S
  PROVE  \E F : F = [i \in 0..Len(q) |-> IF i = 0 THEN <<>> ELSE IF q[i] \in S THEN Append(F[i - 1], q[i]) ELSE F[i - 1]]
  <1> DEFINE Picks(f, i) == IF i = 0 THEN <<>> ELSE IF q[i] \in S THEN Append(f[i - 1], q[i]) ELSE f[i - 1]
  <1> DEFINE T == {n \in Nat : \E F : F = [i \in 0..n |-> Picks(F, i)]}
  <1>1. 0 \in T
    <2> DEFINE G == [i \in 0..0 |-> <<>>]
    <2>1. G = [i \in 0..0 |-> Picks(G, i)]
      OBVIOUS
    <2> QED
      BY <2>1
  <1>2. ASSUME NEW n \in Nat, n \in T  PROVE n + 1 \in T
    <2>1. PICK F : F = [i \in 0..n |-> Picks(F, i)]
      BY <1>2
    <2> DEFINE G == [i \in 0..(n + 1) |-> IF i = n + 1 THEN Picks(F, i) ELSE F[i]]
    <2>2. ASSUME NEW i \in 0..(n + 1)  PROVE G[i] = Picks(G, i)
      <3>1. CASE i = 0
        BY <2>1, <3>1
      <3>2. CASE i # 0 /\ i # n + 1
        <4>1. i \in 0..n /\ i - 1 \in 0..n /\ i - 1 \in 0..(n + 1) /\ i - 1 # n + 1
          BY <3>2
        <4>2. G[i] = F[i] /\ G[i - 1] = F[i - 1] /\ F[i] = Picks(F, i)
          BY <2>1, <3>2, <4>1
        <4> QED
          BY <4>2, <3>2
      <3>3. CASE i = n + 1
        <4>1. i - 1 \in 0..(n + 1) /\ i - 1 # n + 1 /\ i # 0
          BY <3>3
        <4>2. G[i] = Picks(F, i) /\ G[i - 1] = F[i - 1]
          BY <3>3, <4>1
        <4> QED
          BY <4>1, <4>2
      <3> QED
        BY <3>1, <3>2, <3>3
    <2>3. G = [i \in 0..(n + 1) |-> Picks(G, i)]
      BY <2>2
    <2> HIDE DEF G
    <2> QED
      BY <2>3
  <1>3. Nat \subseteq T
    <2> HIDE DEF T
    <2> QED
      BY <1>1, <1>2, NatSet
  <1> QED
    BY <1>3, LenProperties

LEMMA ThoseProperties ==
  ASSUME NEW X, NEW q \in Seq(X), NEW S
  PROVE  /\ Those(q, S) \in Seq(X)
         /\ Range(Those(q, S)) = Range(q) \cap S
         /\ IsInjective(q) => IsInjective(Those(q, S))
  <1> DEFINE Picks(f, i) == IF i = 0 THEN <<>> ELSE IF q[i] \in S THEN Append(f[i - 1], q[i]) ELSE f[i - 1]
  <1> DEFINE F == CHOOSE F : F = [i \in 0..Len(q) |-> Picks(F, i)]
  <1>1. Those(q, S) = F[Len(q)]
    BY DEF Those
  <1>0. \E G : G = [i \in 0..Len(q) |-> Picks(G, i)]
    BY ThoseDefined
  <1>2. F = [i \in 0..Len(q) |-> Picks(F, i)]
    <2> HIDE DEF Picks
    <2> QED
      BY <1>0
  <1>3. Len(q) \in Nat /\ \A i \in 1..Len(q) : q[i] \in X
    OBVIOUS
  <1> HIDE DEF F
  <1> DEFINE Good(n) == /\ F[n] \in Seq(X)
                        /\ Range(F[n]) = {q[j] : j \in 1..n} \cap S
                        /\ IsInjective(q) => IsInjective(F[n])
  <1> DEFINE T == {n \in Nat : n <= Len(q) => Good(n)}
  <1>4. 0 \in T
    <2>1. F[0] = <<>>
      BY <1>2, <1>3
    <2>2. F[0] \in Seq(X) /\ DOMAIN F[0] = {}
      BY <2>1
    <2>3. Range(F[0]) = {} /\ IsInjective(F[0]) /\ {q[j] : j \in 1..0} = {}
      BY <2>2 DEF Range, IsInjective
    <2> QED
      BY <2>2, <2>3
  <1>5. ASSUME NEW n \in Nat, n \in T  PROVE n + 1 \in T
    <2>1. SUFFICES ASSUME n + 1 <= Len(q)  PROVE Good(n + 1)
      OBVIOUS
    <2>2. Good(n)
      BY <1>3, <1>5, <2>1
    <2>3. F[n + 1] = IF q[n + 1] \in S THEN Append(F[n], q[n + 1]) ELSE F[n]
      <3>1. n + 1 \in 0..Len(q) /\ n + 1 # 0 /\ (n + 1) - 1 = n
        BY <1>3, <2>1
      <3>2. F[n + 1] = Picks(F, n + 1)
        BY <1>2, <3>1
      <3> QED
        BY <3>1, <3>2
    <2>4. {q[j] : j \in 1..(n + 1)} = {q[j] : j \in 1..n} \cup {q[n + 1]}
      OBVIOUS
    <2>5. CASE q[n + 1] \notin S
      BY <2>2, <2>3, <2>4, <2>5
    <2>6. CASE q[n + 1] \in S
      <3>1. F[n + 1] = Append(F[n], q[n + 1]) /\ q[n + 1] \in X
        BY <2>3, <2>6, <1>3, <2>1
      <3>2. F[n + 1] \in Seq(X) /\ Len(F[n + 1]) = Len(F[n]) + 1 /\ DOMAIN F[n + 1] = 1..(Len(F[n]) + 1)
        BY <3>1, <2>2
      <3>3. F[n + 1][Len(F[n]) + 1] = q[n + 1] /\ \A i \in 1..Len(F[n]) : F[n + 1][i] = F[n][i]
        BY <3>1, <2>2
      <3>4. DOMAIN F[n] = 1..Len(F[n]) /\ Len(F[n]) \in Nat
        BY <2>2
      <3>5. Range(F[n + 1]) = Range(F[n]) \cup {q[n + 1]}
        <4>1. Range(F[n + 1]) \subseteq Range(F[n]) \cup {q[n + 1]}
          BY <3>2, <3>3, <3>4 DEF Range
        <4>2. Range(F[n]) \subseteq Range(F[n + 1])
          <5> SUFFICES ASSUME NEW i \in DOMAIN F[n]  PROVE F[n][i] \in Range(F[n + 1])
            BY DEF Range
          <5>1. i \in DOMAIN F[n + 1] /\ F[n + 1][i] = F[n][i]
            BY <3>2, <3>3, <3>4
          <5> QED
            BY <5>1 DEF Range
        <4>3. q[n + 1] \in Range(F[n + 1])
          <5>1. Len(F[n]) + 1 \in DOMAIN F[n + 1]
            BY <3>2, <3>4
          <5> QED
            BY <5>1, <3>3 DEF Range
        <4> QED
          BY <4>1, <4>2, <4>3
      <3>6. Range(F[n + 1]) = {q[j] : j \in 1..(n + 1)} \cap S
        BY <3>5, <2>2, <2>4, <2>6
      <3>7. ASSUME IsInjective(q)  PROVE IsInjective(F[n + 1])
        <4>1. q[n + 1] \notin Range(F[n])
          <5>1. \A j \in 1..n : q[j] # q[n + 1]
            BY <3>7, <2>1, <1>3 DEF IsInjective
          <5> QED
            BY <5>1, <2>2
        <4>2. \A i \in 1..Len(F[n]) : F[n][i] # q[n + 1]
          BY <4>1, <3>4 DEF Range
        <4>3. IsInjective(F[n])
          BY <3>7, <2>2
        <4>4. ASSUME NEW i \in 1..(Len(F[n]) + 1), NEW j \in 1..(Len(F[n]) + 1), F[n + 1][i] = F[n + 1][j]  PROVE i = j
          <5>1. CASE i = Len(F[n]) + 1 \/ j = Len(F[n]) + 1
            BY <4>2, <4>4, <5>1, <3>3, <3>4
          <5>2. CASE i # Len(F[n]) + 1 /\ j # Len(F[n]) + 1
            <6>1. i \in 1..Len(F[n]) /\ j \in 1..Len(F[n])
              BY <5>2, <3>4
            <6>2. F[n][i] = F[n][j]
              BY <6>1, <4>4, <3>3
            <6> QED
              BY <6>1, <6>2, <4>3, <3>4 DEF IsInjective
          <5> QED
            BY <5>1, <5>2
        <4> QED
          BY <4>4, <3>2 DEF IsInjective
      <3> QED
        BY <3>2, <3>6, <3>7
    <2> QED
      BY <2>5, <2>6
  <1>6. Nat \subseteq T
    <2> HIDE DEF T
    <2> QED
      BY <1>4, <1>5, NatSet
  <1>7. Good(Len(q))
    <2>1. Len(q) \in T
      BY <1>3, <1>6
    <2> HIDE DEF Good
    <2> QED
      BY <2>1, <1>3
  <1>8. {q[j] : j \in 1..Len(q)} = Range(q)
    BY DEF Range
  <1> QED
    BY <1>1, <1>7, <1>8

LEMMA RangeIn == ASSUME NEW X, NEW q \in Seq(X)  PROVE Range(q) \subseteq X /\ (q = <<>> <=> Range(q) = {}) /\ DOMAIN q = 1..Len(q) /\ Len(q) \in Nat
  <1>1. DOMAIN q = 1..Len(q) /\ Len(q) \in Nat /\ \A i \in 1..Len(q) : q[i] \in X
    OBVIOUS
  <1>2. Range(q) \subseteq X
    BY <1>1 DEF Range
  <1>3. ASSUME q # <<>>  PROVE Range(q) # {}
    <2>1. 1 \in DOMAIN q
      BY <1>3, <1>1
    <2> QED
      BY <2>1 DEF Range
  <1>4. ASSUME q = <<>>  PROVE Range(q) = {}
    <2>1. DOMAIN q = {}
      BY <1>4
    <2> QED
      BY <2>1 DEF Range
  <1> QED
    BY <1>1, <1>2, <1>3, <1>4

LEMMA WithoutProperties ==
  ASSUME NEW q \in Seq(BcSlots), NEW S
  PROVE  /\ Without(q, S) \in Seq(BcSlots)
         /\ Range(Without(q, S)) = Range(q) \ S
         /\ IsInjective(q) => IsInjective(Without(q, S))
  <1>1. Range(q) \subseteq BcSlots
    BY RangeIn
  <1> QED
    <2> DEFINE K == BcSlots \ S
    <2>1. /\ Those(q, K) \in Seq(BcSlots) /\ Range(Those(q, K)) = Range(q) \cap K
          /\ IsInjective(q) => IsInjective(Those(q, K))
      <3> HIDE DEF K
      <3> QED
        BY ThoseProperties
    <2>2. Without(q, S) = Those(q, K)
      BY DEF Without
    <2>3. Range(q) \cap K = Range(q) \ S
      BY <1>1
    <2> QED
      BY <2>1, <2>2, <2>3

(* Two lists one after the other. *)
LEMMA JoinedProperties ==
  ASSUME NEW X, NEW p \in Seq(X), NEW q \in Seq(X)
  PROVE  /\ p \o q \in Seq(X) /\ Range(p \o q) = Range(p) \cup Range(q)
         /\ IsInjective(p) /\ IsInjective(q) /\ Range(p) \cap Range(q) = {} => IsInjective(p \o q)
  <1> DEFINE r == p \o q
  <1>1. r \in Seq(X) /\ DOMAIN r = 1..(Len(p) + Len(q)) /\ DOMAIN p = 1..Len(p) /\ DOMAIN q = 1..Len(q) /\ Len(p) \in Nat /\ Len(q) \in Nat
    OBVIOUS
  <1>2. \A i \in 1..Len(p) : r[i] = p[i] /\ i \in DOMAIN r
    OBVIOUS
  <1>3. \A i \in 1..(Len(p) + Len(q)) : i > Len(p) => i - Len(p) \in 1..Len(q) /\ r[i] = q[i - Len(p)]
    OBVIOUS
  <1>4. \A i \in 1..Len(q) : Len(p) + i \in DOMAIN r /\ r[Len(p) + i] = q[i]
    <2> TAKE i \in 1..Len(q)
    <2>1. Len(p) + i \in 1..(Len(p) + Len(q)) /\ Len(p) + i > Len(p) /\ (Len(p) + i) - Len(p) = i
      BY <1>1
    <2> QED
      BY <2>1, <1>1, <1>3
  <1> HIDE DEF r
  <1>5. Range(r) \subseteq Range(p) \cup Range(q)
    <2> SUFFICES ASSUME NEW i \in DOMAIN r  PROVE r[i] \in Range(p) \cup Range(q)
      BY DEF Range
    <2>1. CASE i <= Len(p)
      BY <2>1, <1>1, <1>2 DEF Range
    <2>2. CASE i > Len(p)
      BY <2>2, <1>1, <1>3 DEF Range
    <2> QED
      BY <2>1, <2>2, <1>1
  <1>6. Range(p) \subseteq Range(r)
    BY <1>1, <1>2 DEF Range
  <1>7. Range(q) \subseteq Range(r)
    BY <1>1, <1>4 DEF Range
  <1>8. ASSUME IsInjective(p), IsInjective(q), Range(p) \cap Range(q) = {}  PROVE IsInjective(r)
    <2> SUFFICES ASSUME NEW i \in DOMAIN r, NEW j \in DOMAIN r, r[i] = r[j], i <= j  PROVE i = j
      BY <1>1 DEF IsInjective
    <2>1. CASE j <= Len(p)
      BY <2>1, <1>1, <1>2, <1>8 DEF IsInjective
    <2>2. CASE i > Len(p)
      <3>1. i - Len(p) \in DOMAIN q /\ r[i] = q[i - Len(p)]
        BY <2>2, <1>1, <1>3
      <3>2. j - Len(p) \in DOMAIN q /\ r[j] = q[j - Len(p)]
        BY <2>2, <1>1, <1>3
      <3>3. i - Len(p) = j - Len(p)
        BY <3>1, <3>2, <1>8 DEF IsInjective
      <3> QED
        BY <3>3, <1>1
    <2>3. CASE i <= Len(p) /\ j > Len(p)
      <3>1. r[i] = p[i] /\ i \in DOMAIN p /\ r[j] = q[j - Len(p)] /\ j - Len(p) \in DOMAIN q
        BY <2>3, <1>1, <1>2, <1>3
      <3>2. r[i] \in Range(p) /\ r[j] \in Range(q)
        BY <3>1 DEF Range
      <3> QED
        BY <3>2, <1>8
    <2> QED
      BY <2>1, <2>2, <2>3, <1>1
  <1> QED
    BY <1>1, <1>5, <1>6, <1>7, <1>8 DEF r

LEMMA OneProperties == ASSUME NEW X, NEW x \in X  PROVE <<x>> \in Seq(X) /\ Range(<<x>>) = {x} /\ IsInjective(<<x>>)
  BY DEF Range, IsInjective

LEMMA AppendedProperties ==
  ASSUME NEW X, NEW q \in Seq(X), NEW x \in X
  PROVE  /\ Append(q, x) \in Seq(X) /\ Range(Append(q, x)) = Range(q) \cup {x} /\ Append(q, x) # <<>>
         /\ IsInjective(q) /\ x \notin Range(q) => IsInjective(Append(q, x))
  <1>1. Append(q, x) = q \o <<x>>
    OBVIOUS
  <1>2. /\ Append(q, x) \in Seq(X) /\ Range(Append(q, x)) = Range(q) \cup {x}
        /\ IsInjective(q) /\ x \notin Range(q) => IsInjective(Append(q, x))
    <2>1. <<x>> \in Seq(X) /\ Range(<<x>>) = {x} /\ IsInjective(<<x>>)
      BY OneProperties
    <2> DEFINE one == <<x>>
    <2>2. one \in Seq(X) /\ Range(one) = {x} /\ IsInjective(one) /\ Append(q, x) = q \o one
      BY <1>1, <2>1
    <2> HIDE DEF one
    <2>3. /\ q \o one \in Seq(X) /\ Range(q \o one) = Range(q) \cup Range(one)
          /\ IsInjective(q) /\ IsInjective(one) /\ Range(q) \cap Range(one) = {} => IsInjective(q \o one)
      BY <2>2, JoinedProperties
    <2> QED
      BY <2>2, <2>3
  <1>3. Append(q, x) # <<>>
    BY <1>2, RangeIn
  <1> QED
    BY <1>2, <1>3

LEMMA TailProperties ==
  ASSUME NEW X, NEW q \in Seq(X), q # <<>>, IsInjective(q)
  PROVE  /\ Head(q) \in X /\ Head(q) \in Range(q) /\ Tail(q) \in Seq(X)
         /\ Range(Tail(q)) = Range(q) \ {Head(q)} /\ IsInjective(Tail(q))
  <1>1. /\ Head(q) = q[1] /\ Len(q) \in Nat /\ Len(q) >= 1 /\ DOMAIN q = 1..Len(q) /\ Tail(q) \in Seq(X)
        /\ DOMAIN Tail(q) = 1..(Len(q) - 1) /\ \A i \in 1..(Len(q) - 1) : Tail(q)[i] = q[i + 1]
    OBVIOUS
  <1>2. \A i, j \in 1..Len(q) : q[i] = q[j] => i = j
    BY <1>1 DEF IsInjective
  <1>3. Head(q) \in X /\ Head(q) \in Range(q)
    BY <1>1 DEF Range
  <1>4. IsInjective(Tail(q))
    BY <1>1, <1>2 DEF IsInjective
  <1>5. Range(Tail(q)) \subseteq Range(q) \ {Head(q)}
    <2> SUFFICES ASSUME NEW i \in 1..(Len(q) - 1)  PROVE Tail(q)[i] \in Range(q) \ {Head(q)}
      BY <1>1 DEF Range
    <2>1. i + 1 \in 1..Len(q) /\ i + 1 # 1 /\ 1 \in 1..Len(q)
      BY <1>1
    <2> QED
      BY <2>1, <1>1, <1>2 DEF Range
  <1>6. Range(q) \ {Head(q)} \subseteq Range(Tail(q))
    <2> SUFFICES ASSUME NEW i \in 1..Len(q), i # 1  PROVE q[i] \in Range(Tail(q))
      BY <1>1 DEF Range
    <2>1. i - 1 \in 1..(Len(q) - 1) /\ (i - 1) + 1 = i
      BY <1>1
    <2>2. Tail(q)[i - 1] = q[i]
      BY <2>1, <1>1
    <2> QED
      BY <2>1, <2>2, <1>1 DEF Range
  <1> QED
    BY <1>1, <1>3, <1>4, <1>5, <1>6

LEMMA InOrderProperties ==
  ASSUME NEW run \in Seq(BcSlots), NEW s \in Range(run), IsInjective(run)
  PROVE  /\ InOrder(run, s) \in Seq(BcSlots) /\ IsInjective(InOrder(run, s))
         /\ Range(InOrder(run, s)) = Range(run) /\ InOrder(run, s) # <<>>
  <1>1. s \in BcSlots
    BY RangeIn
  <1>2. /\ Without(run, {s}) \in Seq(BcSlots) /\ IsInjective(Without(run, {s}))
        /\ Range(Without(run, {s})) = Range(run) \ {s}
    BY WithoutProperties
  <1> DEFINE rest == Without(run, {s})
  <1>3. rest \in Seq(BcSlots) /\ IsInjective(rest) /\ Range(rest) = Range(run) \ {s} /\ InOrder(run, s) = Append(rest, s)
    BY <1>2 DEF InOrder
  <1> HIDE DEF rest
  <1>4. /\ Append(rest, s) \in Seq(BcSlots) /\ Range(Append(rest, s)) = Range(rest) \cup {s} /\ Append(rest, s) # <<>>
        /\ IsInjective(rest) /\ s \notin Range(rest) => IsInjective(Append(rest, s))
    BY <1>1, <1>3, AppendedProperties
  <1> QED
    BY <1>3, <1>4

LEMMA SlotsFinite == ASSUME NEW S, S \subseteq BcSlots  PROVE IsFiniteSet(S)
  <1>1. IsFiniteSet(1..MaxBlocks)
    BY BcAssumption, FS_Interval
  <1> QED
    BY <1>1, FS_Subset DEF BcSlots

LEMMA SetToSeqProperties ==
  ASSUME NEW S, IsFiniteSet(S)
  PROVE  SetToSeq(S) \in Seq(S) /\ IsInjective(SetToSeq(S)) /\ Range(SetToSeq(S)) \subseteq S
  <1>1. Cardinality(S) \in Nat /\ ExistsBijection(1..Cardinality(S), S)
    BY FS_CardinalityType
  <1>2. PICK g \in Bijection(1..Cardinality(S), S) : TRUE
    BY <1>1, Zenon DEF ExistsBijection
  <1>3. g \in [1..Cardinality(S) -> S] /\ IsInjective(g)
    BY <1>2 DEF Bijection, Injection, IsInjective
  <1> DEFINE f == SetToSeq(S)
  <1>4. f \in [1..Cardinality(S) -> S] /\ IsInjective(f)
    BY <1>3, Zenon DEF SetToSeq
  <1> HIDE DEF f
  <1>5. f \in Seq(S)
    BY <1>1, <1>4
  <1> QED
    BY <1>4, <1>5, RangeIn DEF f

(* Buffers a read may take on the way. *)
LEMMA SpareProperties ==
  ASSUME NEW B, NEW q, LruOK(B, q)
  PROVE  /\ Spare(B, q) \in Seq(BcSlots) /\ IsInjective(Spare(B, q))
         /\ \A x \in Range(Spare(B, q)) : x \in BcSlots /\ (B[x].dev = 0 \/ (x \in Range(q) /\ ~B[x].dirty))
  <1> DEFINE free == SetToSeq(FreeSlots(B))  clean == Those(q, {x \in BcSlots : ~B[x].dirty})
  <1>1. q \in Seq(BcSlots) /\ IsInjective(q) /\ \A x \in Range(q) : B[x].dev # 0
    BY DEF LruOK
  <1>2. FreeSlots(B) \subseteq BcSlots /\ IsFiniteSet(FreeSlots(B)) /\ \A x \in FreeSlots(B) : B[x].dev = 0
    BY SlotsFinite DEF FreeSlots
  <1>3. free \in Seq(FreeSlots(B)) /\ IsInjective(free) /\ Range(free) \subseteq FreeSlots(B)
    BY <1>2, SetToSeqProperties
  <1>4. free \in Seq(BcSlots)
    BY <1>2, <1>3
  <1>5. clean \in Seq(BcSlots) /\ IsInjective(clean) /\ Range(clean) = Range(q) \cap {x \in BcSlots : ~B[x].dirty}
    BY <1>1, ThoseProperties
  <1>6. Spare(B, q) = free \o clean
    BY DEF Spare
  <1> HIDE DEF free, clean
  <1>7. Range(free) \cap Range(clean) = {}
    BY <1>1, <1>2, <1>3, <1>5
  <1>8. Spare(B, q) \in Seq(BcSlots) /\ IsInjective(Spare(B, q)) /\ Range(Spare(B, q)) = Range(free) \cup Range(clean)
    BY <1>3, <1>4, <1>5, <1>6, <1>7, JoinedProperties
  <1> QED
    BY <1>1, <1>2, <1>3, <1>5, <1>8
------------------------------------------------------------------------------
(* Threads that a step of another thread wakes or leaves alone.             *)

(* r2 is r, maybe woken, maybe with more blocks out of its sight. *)
Same(r, r2) ==
  /\ r2.op = r.op /\ r2.blk = r.blk /\ r2.val = r.val /\ r2.slot = r.slot /\ r2.back = r.back
  /\ r2.run = r.run /\ r2.res = r.res /\ r2.left = r.left
Carried(r, r2) ==
  /\ Same(r, r2)
  /\ r2.pc = r.pc \/ (r.pc = "wait" /\ r2.pc = r.back)
  /\ r.gone \subseteq r2.gone /\ (r.pc # "raw" => r2.gone = r.gone)

LEMMA WokenThread ==
  ASSUME NEW T \in [BcThreads -> Thread], NEW ss
  PROVE  /\ Wakeup(T, ss) \in [BcThreads -> Thread]
         /\ \A u \in BcThreads :
              LET r == T[u]  r2 == Wakeup(T, ss)[u] IN
                /\ Same(r, r2) /\ r2.gone = r.gone
                /\ r2.pc = IF r.pc = "wait" /\ ss # <<>> /\ r.slot \in Range(ss) \cup {0} THEN r.back ELSE r.pc
  <1> DEFINE W(u) == T[u].pc = "wait" /\ ss # <<>> /\ T[u].slot \in Range(ss) \cup {0}
  <1> DEFINE R(u) == [T[u] EXCEPT !.pc = T[u].back]
  <1>1. Wakeup(T, ss) = [u \in BcThreads |-> IF W(u) THEN R(u) ELSE T[u]]
    BY DEF Wakeup
  <1>2. ASSUME NEW u \in BcThreads  PROVE R(u) \in Thread /\ Same(T[u], R(u)) /\ R(u).gone = T[u].gone /\ R(u).pc = T[u].back
    <2>1. T[u] \in Thread
      OBVIOUS
    <2>2. T[u].back \in BcPcs
      BY <2>1 DEF Thread, BcPcs
    <2>3. R(u) \in Thread /\ R(u).pc = T[u].back
      BY <2>1, <2>2 DEF Thread
    <2>4. Same(T[u], R(u)) /\ R(u).gone = T[u].gone
      BY <2>1 DEF Same, Thread
    <2> QED
      BY <2>3, <2>4
  <1>3. ASSUME NEW u \in BcThreads  PROVE T[u] \in Thread /\ Same(T[u], T[u])
    BY DEF Same
  <1> HIDE DEF R, W
  <1>4. Wakeup(T, ss) \in [BcThreads -> Thread]
    BY <1>1, <1>2, <1>3
  <1>5. \A u \in BcThreads : Wakeup(T, ss)[u] = IF W(u) THEN R(u) ELSE T[u]
    BY <1>1
  <1>6. ASSUME NEW u \in BcThreads
        PROVE  /\ Same(T[u], Wakeup(T, ss)[u]) /\ Wakeup(T, ss)[u].gone = T[u].gone
               /\ Wakeup(T, ss)[u].pc = IF W(u) THEN T[u].back ELSE T[u].pc
    BY <1>2, <1>3, <1>5
  <1> QED
    BY <1>4, <1>6 DEF W

LEMMA LostThread ==
  ASSUME NEW T \in [BcThreads -> Thread], NEW B, BufsOK(bufs)
  PROVE  /\ Lost(T, B) \in [BcThreads -> Thread]
         /\ \A u \in BcThreads :
              LET r == T[u]  r2 == Lost(T, B)[u] IN
                /\ Same(r, r2) /\ r2.pc = r.pc /\ r.gone \subseteq r2.gone /\ (r.pc # "raw" => r2.gone = r.gone)
                /\ r.pc = "raw" => \A x \in BcSlots : bufs[x].dev = u /\ (B[x].dev # u \/ B[x].blk # bufs[x].blk) => bufs[x].blk \in r2.gone
  <1> DEFINE G(u) == {bufs[s].blk : s \in {x \in BcSlots : bufs[x].dev = u /\ (B[x].dev # u \/ B[x].blk # bufs[x].blk)}}
  <1> DEFINE R(u) == [T[u] EXCEPT !.gone = T[u].gone \cup G(u)]
  <1>1. Lost(T, B) = [u \in BcThreads |-> IF T[u].pc = "raw" THEN R(u) ELSE T[u]]
    BY DEF Lost
  <1>2. ASSUME NEW u \in BcThreads  PROVE R(u) \in Thread /\ Same(T[u], R(u)) /\ R(u).gone = T[u].gone \cup G(u) /\ R(u).pc = T[u].pc
    <2>1. T[u] \in Thread
      OBVIOUS
    <2>2. G(u) \subseteq Nat
      BY DEF BufsOK, Buf
    <2> HIDE DEF G
    <2>3. T[u].gone \cup G(u) \in SUBSET Nat
      BY <2>1, <2>2 DEF Thread
    <2>4. R(u) \in Thread /\ R(u).pc = T[u].pc /\ R(u).gone = T[u].gone \cup G(u)
      BY <2>1, <2>3 DEF Thread
    <2>5. Same(T[u], R(u))
      BY <2>1 DEF Same, Thread
    <2> QED
      BY <2>4, <2>5
  <1>3. ASSUME NEW u \in BcThreads  PROVE T[u] \in Thread /\ Same(T[u], T[u])
    BY DEF Same
  <1>4. \A u \in BcThreads, x \in BcSlots : bufs[x].dev = u /\ (B[x].dev # u \/ B[x].blk # bufs[x].blk) => bufs[x].blk \in G(u)
    OBVIOUS
  <1> HIDE DEF R, G
  <1>5. Lost(T, B) \in [BcThreads -> Thread]
    BY <1>1, <1>2, <1>3
  <1>6. \A u \in BcThreads : Lost(T, B)[u] = IF T[u].pc = "raw" THEN R(u) ELSE T[u]
    BY <1>1
  <1> QED
    BY <1>2, <1>3, <1>4, <1>5, <1>6

(* What a thread knows stays true if the buffers of its run, what was       *)
(* written last to its device and the valid buffers it has yet to look at   *)
(* stay, and if it is woken when what it waits for is over.                 *)
LEMMA OtherThread ==
  ASSUME NEW B, NEW B2, NEW q, NEW q2, NEW dk, NEW dk2, NEW lt, NEW lt2,
         NEW u \in BcThreads, NEW r \in Thread, NEW r2 \in Thread,
         ThreadOK(B, q, dk, lt, u, r), Carried(r, r2),
         \A x \in Range(r.run) : B2[x] = B[x],
         u \in Devs => lt2[u] = lt[u] /\ (dk[u] = lt[u] => dk2[u] = lt[u]),
         r.pc = "raw" => \A x \in BcSlots : B[x].dev = u /\ B[x].valid =>
                           \/ B[x].blk \in r2.gone
                           \/ B2[x].dev = u /\ B2[x].blk = B[x].blk /\ B2[x].valid,
         r2.pc = "wait" => IF r.slot = 0 THEN q2 = <<>> ELSE B2[r.slot].busy
  PROVE  ThreadOK(B2, q2, dk2, lt2, u, r2)
  <1>1. /\ r2.op = r.op /\ r2.blk = r.blk /\ r2.val = r.val /\ r2.slot = r.slot /\ r2.back = r.back
        /\ r2.run = r.run /\ r2.res = r.res /\ r2.left = r.left
    BY DEF Carried, Same
  <1>2. /\ r2.pc = r.pc \/ (r.pc = "wait" /\ r2.pc = r.back)
        /\ r.gone \subseteq r2.gone /\ (r.pc # "raw" => r2.gone = r.gone)
    BY DEF Carried
  <1>3. RunsOK(B, u, r) /\ CallOK(r) /\ WaitOK(B, q, r) /\ (u \in Devs => ReadOK(B, lt, u, r) /\ FlushOK(dk, lt, u, r))
    BY DEF ThreadOK
  <1>4. r.back \in {"idle", "getblk", "flush", "detach"} /\ r.run \in Seq(BcSlots)
    BY DEF Thread
  <1>5. r.pc = "wait" => r.back \in {"getblk", "flush", "detach"} /\ r.run = <<>>
    BY <1>3, <1>4 DEF CallOK, RunsOK
  <1>6. RunsOK(B2, u, r2)
    <2>1. r2.pc \notin {"evict", "store", "fill"} => r2.run = <<>>
      BY <1>1, <1>2, <1>3, <1>5 DEF RunsOK
    <2>2. ASSUME r2.pc \in {"evict", "store"}
          PROVE  /\ r2.slot \in Range(r2.run) /\ IsInjective(r2.run)
                 /\ \A x \in Range(r2.run) : B2[x].dirty /\ B2[x].dev = B2[r2.slot].dev
      <3>1. r.pc \in {"evict", "store"}
        BY <1>2, <1>5, <2>2
      <3> QED
        BY <1>1, <1>3, <3>1 DEF RunsOK
    <2>3. ASSUME r2.pc = "fill"
          PROVE  /\ u \in Devs /\ r2.op \in {"read", "part"} /\ Len(r2.run) >= 1 /\ r2.run[1] = r2.slot /\ IsInjective(r2.run)
                 /\ \A i \in 1..Len(r2.run) : B2[r2.run[i]].dev = u /\ B2[r2.run[i]].blk = r2.blk + i - 1 /\ ~B2[r2.run[i]].valid
      <3>1. r.pc = "fill"
        BY <1>2, <1>5, <2>3
      <3>2. \A i \in 1..Len(r.run) : r.run[i] \in Range(r.run)
        BY <1>4 DEF Range
      <3>3. /\ u \in Devs /\ r.op \in {"read", "part"} /\ Len(r.run) >= 1 /\ r.run[1] = r.slot /\ IsInjective(r.run)
            /\ \A i \in 1..Len(r.run) : B[r.run[i]].dev = u /\ B[r.run[i]].blk = r.blk + i - 1 /\ ~B[r.run[i]].valid
        BY <1>3, <3>1 DEF RunsOK
      <3>4. \A i \in 1..Len(r.run) : B2[r.run[i]] = B[r.run[i]]
        BY <3>2
      <3>5. \A i \in 1..Len(r.run) : B2[r.run[i]].dev = u /\ B2[r.run[i]].blk = r.blk + i - 1 /\ ~B2[r.run[i]].valid
        BY <3>3, <3>4
      <3> QED
        BY <1>1, <3>3, <3>5
    <2> QED
      BY <2>1, <2>2, <2>3 DEF RunsOK
  <1>7. CallOK(r2)
    BY <1>1, <1>2, <1>3, <1>5 DEF CallOK
  <1>8. WaitOK(B2, q2, r2)
    BY <1>1 DEF WaitOK
  <1>9. ASSUME u \in Devs  PROVE ReadOK(B2, lt2, u, r2)
    <2>1. ReadOK(B, lt, u, r) /\ lt2[u] = lt[u]
      BY <1>3, <1>9
    <2>2. r2.pc = "done" /\ r2.op \in {"read", "direct"} => \A b \in DOMAIN r2.res \ r2.gone : r2.res[b] = lt2[u][b]
      BY <1>1, <1>2, <1>5, <2>1 DEF ReadOK
    <2>3. ASSUME r2.pc = "raw"
          PROVE  /\ r2.res \in [Blocks -> Data]
                 /\ \A b \in Blocks \ r2.gone : r2.res[b] = lt2[u][b] \/ \E s \in BcSlots : B2[s].dev = u /\ B2[s].blk = b /\ B2[s].valid
      <3>1. r.pc = "raw"
        BY <1>2, <1>5, <2>3
      <3>2. /\ r.res \in [Blocks -> Data]
            /\ \A b \in Blocks \ r.gone : r.res[b] = lt[u][b] \/ \E s \in BcSlots : B[s].dev = u /\ B[s].blk = b /\ B[s].valid
        BY <3>1, <2>1 DEF ReadOK
      <3>3. ASSUME NEW b \in Blocks \ r2.gone, r2.res[b] # lt2[u][b]
            PROVE  \E s \in BcSlots : B2[s].dev = u /\ B2[s].blk = b /\ B2[s].valid
        <4>1. b \in Blocks \ r.gone /\ r.res[b] # lt[u][b]
          BY <1>1, <1>2, <2>1, <3>3
        <4>2. PICK s \in BcSlots : B[s].dev = u /\ B[s].blk = b /\ B[s].valid
          BY <3>2, <4>1
        <4>3. B2[s].dev = u /\ B2[s].blk = b /\ B2[s].valid
          BY <4>2, <3>1, <3>3
        <4> QED
          BY <4>3
      <3> QED
        BY <1>1, <3>2, <3>3
    <2> QED
      BY <2>2, <2>3 DEF ReadOK
  <1>10. ASSUME u \in Devs  PROVE FlushOK(dk2, lt2, u, r2)
    <2>1. FlushOK(dk, lt, u, r) /\ lt2[u] = lt[u] /\ (dk[u] = lt[u] => dk2[u] = lt[u])
      BY <1>3, <1>10
    <2> QED
      BY <1>1, <1>2, <1>5, <2>1 DEF FlushOK
  <1> QED
    BY <1>6, <1>7, <1>8, <1>9, <1>10 DEF ThreadOK
------------------------------------------------------------------------------
(* Steps that change one thread and no buffer.                              *)

LEMMA OnlyThread ==
  ASSUME BcInv, NEW t \in BcThreads, NEW r \in Thread, th' = [th EXCEPT ![t] = r],
         th[t].run = <<>>, r.run = <<>>, ThreadOK(bufs, lru, disk, latest, t, r),
         UNCHANGED <<bufs, lru, nextSeq, disk, latest>>,
         bcCase' \in [calls : [BcThreads -> Seq(BcCalls)], errors : Nat, vals : SUBSET Nat]
  PROVE  BcInv'
  <1>1. TypesOK /\ th \in [BcThreads -> Thread]
    BY DEF BcInv, TypesOK
  <1>2. th' \in [BcThreads -> Thread] /\ th'[t] = r /\ \A u \in BcThreads : u # t => th'[u] = th[u]
    BY <1>1
  <1>3. TypesOK'
    BY <1>1, <1>2 DEF TypesOK
  <1>4. BusyOK(bufs, th')
    <2>1. \A u \in BcThreads : th'[u].run = th[u].run
      BY <1>2
    <2> QED
      BY <2>1 DEF BcInv, BusyOK
  <1>5. \A u \in BcThreads : ThreadOK(bufs, lru, disk, latest, u, th'[u])
    BY <1>2 DEF BcInv
  <1>6. BufsOK(bufs) /\ LruOK(bufs, lru) /\ DataOK(bufs, disk, latest)
    BY DEF BcInv
  <1>7. BufsOK(bufs)' /\ LruOK(bufs, lru)' /\ DataOK(bufs, disk, latest)'
    BY <1>6, Zenon
  <1>8. BusyOK(bufs, th)'
    BY <1>4, Zenon
  <1>9. \A u \in BcThreads : ThreadOK(bufs, lru, disk, latest, u, th[u])'
    BY <1>5, Zenon
  <1> QED
    BY <1>3, <1>7, <1>8, <1>9 DEF BcInv

LEMMA EmptyLists == <<>> \in Res /\ <<>> \in Seq(BcSlots)
  BY DEF Res

LEMMA TailInSeq == ASSUME NEW X, NEW q \in Seq(X), q # <<>>  PROVE Tail(q) \in Seq(X)
  OBVIOUS

LEMMA IdleThread == BcIdle \in Thread /\ BcIdle.pc = "idle" /\ BcIdle.run = <<>> /\ BcIdle.op = "none"
  BY EmptyLists DEF BcIdle, Thread, BcPcs, BcOps

(* The beginning of a call. *)
LEMMA Begins ==
  ASSUME BcInv, NEW t \in BcThreads, NEW r \in Thread, Begin(t, r), CallOK(r), r.run = <<>>,
         r.pc \in {"getblk", "flush", "direct"}
  PROVE  BcInv'
  <1>1. th' = [th EXCEPT ![t] = r] /\ UNCHANGED <<bufs, lru, nextSeq, disk, latest>>
    BY DEF Begin
  <1>2. th[t] \in Thread /\ th[t].pc \in {"idle", "done", "failed", "flushed"} /\ RunsOK(bufs, t, th[t])
    BY DEF Begin, BcInv, TypesOK, ThreadOK
  <1>3. th[t].run = <<>>
    BY <1>2 DEF RunsOK
  <1>4. ThreadOK(bufs, lru, disk, latest, t, r)
    BY DEF ThreadOK, RunsOK, WaitOK, ReadOK, FlushOK
  <1>5. bcCase' \in [calls : [BcThreads -> Seq(BcCalls)], errors : Nat, vals : SUBSET Nat]
    <2>1. bcCase \in [calls : [BcThreads -> Seq(BcCalls)], errors : Nat, vals : SUBSET Nat]
      BY DEF BcInv, TypesOK
    <2>2. bcCase.calls[t] \in Seq(BcCalls) /\ bcCase.calls[t] # <<>>
      BY <2>1 DEF Begin
    <2>3. Tail(bcCase.calls[t]) \in Seq(BcCalls)
      BY <2>2, TailInSeq
    <2>4. [bcCase.calls EXCEPT ![t] = Tail(bcCase.calls[t])] \in [BcThreads -> Seq(BcCalls)]
      BY <2>1, <2>3
    <2>5. bcCase' = [bcCase EXCEPT !.calls = [bcCase.calls EXCEPT ![t] = Tail(bcCase.calls[t])]]
      BY DEF Begin
    <2> QED
      BY <2>1, <2>4, <2>5
  <1> QED
    BY <1>1, <1>2, <1>3, <1>4, <1>5, OnlyThread

LEMMA BlocksNat == Blocks \subseteq Nat /\ BcSlots \subseteq Nat /\ 0 \notin BcSlots /\ 0 \notin Devs /\ Devs \subseteq Nat /\ Devs \subseteq BcThreads /\ 0 \in BcThreads
                   /\ Syncers \subseteq BcThreads /\ (\A t \in Devs : DevOf(t) = t) /\ (\A t \in BcThreads : t # 0 => DevOf(t) \in Devs)
  BY BcAssumption DEF Blocks, BcSlots, BcThreads, DevOf

LEMMA bc_readStep ==
  ASSUME BcInv, NEW t \in Devs, NEW b \in Blocks, NEW flush \in BOOLEAN, NEW op \in {"read", "direct"}, bc_read(t, op, b, flush)
  PROVE  BcInv'
  <1> DEFINE pc == IF flush THEN "flush" ELSE IF op = "direct" THEN "direct" ELSE "getblk"
  <1> DEFINE r == [BcIdle EXCEPT !.op = op, !.blk = b, !.pc = pc]
  <1>1. pc \in {"getblk", "flush", "direct"} /\ pc \in BcPcs /\ op \in BcOps /\ (pc = "direct" => op = "direct") /\ (pc = "getblk" => op = "read")
    BY DEF BcPcs, BcOps
  <1>2. Begin(t, r)
    BY DEF bc_read
  <1> HIDE DEF pc
  <1>4. r \in Thread /\ r.op = op /\ r.blk = b /\ r.pc = pc /\ r.run = <<>>
    BY <1>1, BlocksNat, EmptyLists DEF BcIdle, Thread
  <1> HIDE DEF r
  <1>5. CallOK(r)
    BY <1>1, <1>4 DEF CallOK
  <1> QED
    BY <1>1, <1>2, <1>4, <1>5, BlocksNat, Begins

LEMMA bc_writeStep ==
  ASSUME BcInv, NEW t \in Devs, NEW b \in Blocks, NEW v \in bcCase.vals, NEW op \in {"whole", "part"}, bc_write(t, op, b, v)
  PROVE  BcInv'
  <1> DEFINE r == [BcIdle EXCEPT !.op = op, !.blk = b, !.val = v, !.pc = "getblk"]
  <1>1. Begin(t, r)
    BY DEF bc_write
  <1>2. v \in Nat
    BY DEF BcInv, TypesOK
  <1>3. r \in Thread /\ r.op = op /\ r.blk = b /\ r.val = v /\ r.pc = "getblk" /\ r.run = <<>>
    BY <1>2, BlocksNat, EmptyLists DEF BcIdle, Thread, BcPcs, BcOps
  <1> HIDE DEF r
  <1>4. CallOK(r)
    BY <1>3 DEF CallOK
  <1> QED
    BY <1>1, <1>3, <1>4, BlocksNat, Begins

LEMMA FlushCall ==
  ASSUME BcInv, NEW t \in BcThreads, NEW op \in {"flush", "flusher", "detach"}, Begin(t, [BcIdle EXCEPT !.op = op, !.pc = "flush"])
  PROVE  BcInv'
  <1> DEFINE r == [BcIdle EXCEPT !.op = op, !.pc = "flush"]
  <1>2. r \in Thread /\ r.op = op /\ r.pc = "flush" /\ r.run = <<>>
    BY EmptyLists DEF BcIdle, Thread, BcPcs, BcOps
  <1> HIDE DEF r
  <1>3. CallOK(r)
    BY <1>2 DEF CallOK
  <1> QED
    BY <1>2, <1>3, Begins DEF r

(* What the invariant says of the thread that takes a step. *)
LEMMA ThreadFacts ==
  ASSUME BcInv, NEW t \in BcThreads
  PROVE  /\ th \in [BcThreads -> Thread] /\ th[t] \in Thread /\ ThreadOK(bufs, lru, disk, latest, t, th[t])
         /\ RunsOK(bufs, t, th[t]) /\ CallOK(th[t]) /\ WaitOK(bufs, lru, th[t])
         /\ (t \in Devs => ReadOK(bufs, latest, t, th[t]) /\ FlushOK(disk, latest, t, th[t]))
         /\ BufsOK(bufs) /\ LruOK(bufs, lru) /\ BusyOK(bufs, th) /\ DataOK(bufs, disk, latest)
         /\ disk \in Store /\ latest \in Store /\ nextSeq \in [Devs -> Int]
         /\ bcCase \in [calls : [BcThreads -> Seq(BcCalls)], errors : Nat, vals : SUBSET Nat]
  BY DEF BcInv, TypesOK, ThreadOK

LEMMA WaitStep ==
  ASSUME BcInv, NEW t \in BcThreads, NEW s \in BcSlots \cup {0}, NEW back \in {"getblk", "flush", "detach"},
         th' = [th EXCEPT ![t] = [th[t] EXCEPT !.pc = "wait", !.slot = s, !.back = back]],
         th[t].pc = back, IF s = 0 THEN lru = <<>> ELSE bufs[s].busy,
         UNCHANGED <<bufs, lru, nextSeq, disk, latest, bcCase>>
  PROVE  BcInv'
  <1> DEFINE r == [th[t] EXCEPT !.pc = "wait", !.slot = s, !.back = back]
  <1>1. /\ th[t] \in Thread /\ RunsOK(bufs, t, th[t]) /\ CallOK(th[t])
        /\ (t \in Devs => FlushOK(disk, latest, t, th[t]))
    BY ThreadFacts
  <1>2. /\ r \in Thread /\ r.pc = "wait" /\ r.slot = s /\ r.op = th[t].op /\ r.blk = th[t].blk /\ r.val = th[t].val
        /\ r.back = back /\ r.run = th[t].run
    BY <1>1 DEF Thread, BcPcs
  <1>3. th' = [th EXCEPT ![t] = r]
    OBVIOUS
  <1> HIDE DEF r
  <1>4. th[t].run = <<>>
    BY <1>1 DEF RunsOK
  <1>5. RunsOK(bufs, t, r) /\ CallOK(r) /\ WaitOK(bufs, lru, r)
    BY <1>1, <1>2, <1>4 DEF RunsOK, CallOK, WaitOK
  <1>6. t \in Devs => ReadOK(bufs, latest, t, r) /\ FlushOK(disk, latest, t, r)
    BY <1>1, <1>2 DEF ReadOK, FlushOK
  <1>7. ThreadOK(bufs, lru, disk, latest, t, r)
    BY <1>5, <1>6 DEF ThreadOK
  <1>8. bcCase' \in [calls : [BcThreads -> Seq(BcCalls)], errors : Nat, vals : SUBSET Nat]
    BY ThreadFacts
  <1>9. r \in Thread /\ r.run = <<>> /\ UNCHANGED <<bufs, lru, nextSeq, disk, latest>>
    BY <1>2, <1>4
  <1> QED
    BY <1>3, <1>4, <1>7, <1>8, <1>9, OnlyThread

LEMMA AnswerType == ASSUME BcInv, NEW ok \in BOOLEAN, Answer(ok)  PROVE bcCase' \in [calls : [BcThreads -> Seq(BcCalls)], errors : Nat, vals : SUBSET Nat]
  <1>1. bcCase \in [calls : [BcThreads -> Seq(BcCalls)], errors : Nat, vals : SUBSET Nat]
    BY DEF BcInv, TypesOK
  <1>2. CASE ok
    BY <1>1, <1>2 DEF Answer
  <1>3. CASE ~ok
    <2>1. bcCase.errors - 1 \in Nat /\ bcCase' = [bcCase EXCEPT !.errors = bcCase.errors - 1]
      BY <1>1, <1>3 DEF Answer
    <2> QED
      BY <1>1, <2>1
  <1> QED
    BY <1>2, <1>3

LEMMA WrittenStep == ASSUME BcInv, NEW t \in Devs, NEW flush \in BOOLEAN, Written(t, flush)  PROVE BcInv'
  <1> DEFINE pc == IF flush THEN "flush" ELSE "done"
  <1> DEFINE r == [th[t] EXCEPT !.pc = pc, !.slot = 0]
  <1>0. t \in BcThreads
    BY BlocksNat
  <1>1. th[t] \in Thread /\ RunsOK(bufs, t, th[t]) /\ CallOK(th[t])
    BY <1>0, ThreadFacts
  <1>2. pc \in {"flush", "done"} /\ pc \in BcPcs
    BY DEF BcPcs
  <1>3. th' = [th EXCEPT ![t] = r] /\ th[t].pc = "written" /\ UNCHANGED <<bufs, lru, nextSeq, disk, latest, bcCase>>
    BY DEF Written
  <1> HIDE DEF pc
  <1>4. r \in Thread /\ r.pc = pc /\ r.slot = 0 /\ r.op = th[t].op /\ r.blk = th[t].blk /\ r.run = th[t].run
    BY <1>1, <1>2 DEF Thread
  <1> HIDE DEF r
  <1>5. th[t].run = <<>>
    BY <1>1, <1>3 DEF RunsOK
  <1>6. RunsOK(bufs, t, r) /\ CallOK(r) /\ WaitOK(bufs, lru, r)
    BY <1>1, <1>2, <1>4, <1>5 DEF RunsOK, CallOK, WaitOK
  <1>7. ReadOK(bufs, latest, t, r) /\ FlushOK(disk, latest, t, r)
    BY <1>1, <1>2, <1>3, <1>4 DEF ReadOK, FlushOK, CallOK
  <1>8. ThreadOK(bufs, lru, disk, latest, t, r)
    BY <1>6, <1>7 DEF ThreadOK
  <1>9. bcCase' \in [calls : [BcThreads -> Seq(BcCalls)], errors : Nat, vals : SUBSET Nat]
    BY <1>0, <1>3, ThreadFacts
  <1> QED
    BY <1>0, <1>3, <1>4, <1>5, <1>8, <1>9, OnlyThread

(* A block of which the cache has no valid buffer is up to date on disk. *)
LEMMA UncachedOnDisk ==
  ASSUME BufsOK(bufs), DataOK(bufs, disk, latest), NEW d \in Devs, NEW b \in Blocks,
         \A s \in BcSlots : ~(bufs[s].dev = d /\ bufs[s].blk = b /\ bufs[s].valid)
  PROVE  disk[d][b] = latest[d][b]
  <1>1. \A s \in BcSlots : ~(bufs[s].dev = d /\ bufs[s].blk = b /\ bufs[s].dirty)
    BY DEF BufsOK
  <1> QED
    BY <1>1 DEF DataOK

LEMMA raw_readStep == ASSUME BcInv, NEW t \in Devs, NEW ok \in BOOLEAN, raw_read(t, ok)  PROVE BcInv'
  <1> DEFINE r == IF ok THEN [th[t] EXCEPT !.pc = "raw", !.res = disk[t]] ELSE [th[t] EXCEPT !.pc = "failed"]
  <1>0. t \in BcThreads
    BY BlocksNat
  <1>1. /\ th[t] \in Thread /\ RunsOK(bufs, t, th[t]) /\ CallOK(th[t]) /\ BufsOK(bufs) /\ DataOK(bufs, disk, latest)
        /\ disk[t] \in [Blocks -> Data]
    BY <1>0, ThreadFacts DEF Store
  <1>2. th' = [th EXCEPT ![t] = r] /\ th[t].pc = "direct" /\ UNCHANGED <<bufs, lru, nextSeq, disk, latest>> /\ Answer(ok)
    BY DEF raw_read
  <1>3. disk[t] \in Res
    BY <1>1, BlocksNat DEF Res
  <1>4. /\ r \in Thread /\ r.op = th[t].op /\ r.blk = th[t].blk /\ r.run = th[t].run
        /\ r.pc \in {"raw", "failed"} /\ (r.pc = "raw" => r.res = disk[t])
    <2>1. CASE ok
      BY <2>1, <1>1, <1>3 DEF Thread, BcPcs
    <2>2. CASE ~ok
      BY <2>2, <1>1 DEF Thread, BcPcs
    <2> QED
      BY <2>1, <2>2
  <1> HIDE DEF r
  <1>5. th[t].run = <<>>
    BY <1>1, <1>2 DEF RunsOK
  <1>6. RunsOK(bufs, t, r) /\ CallOK(r) /\ WaitOK(bufs, lru, r) /\ FlushOK(disk, latest, t, r)
    BY <1>1, <1>2, <1>4, <1>5 DEF RunsOK, CallOK, WaitOK, FlushOK
  <1>7. \A b \in Blocks : disk[t][b] = latest[t][b] \/ \E s \in BcSlots : bufs[s].dev = t /\ bufs[s].blk = b /\ bufs[s].valid
    BY <1>1, UncachedOnDisk
  <1>8. ReadOK(bufs, latest, t, r)
    BY <1>1, <1>4, <1>7 DEF ReadOK
  <1>9. ThreadOK(bufs, lru, disk, latest, t, r)
    BY <1>6, <1>8 DEF ThreadOK
  <1>10. bcCase' \in [calls : [BcThreads -> Seq(BcCalls)], errors : Nat, vals : SUBSET Nat]
    BY <1>2, AnswerType
  <1> QED
    BY <1>0, <1>2, <1>4, <1>5, <1>9, <1>10, OnlyThread

LEMMA direct_readStep == ASSUME BcInv, NEW t \in Devs, direct_read(t)  PROVE BcInv'
  <1> DEFINE r == [th[t] EXCEPT !.pc = "done", !.res = Overlay(t)]
  <1>0. t \in BcThreads
    BY BlocksNat
  <1>1. /\ th[t] \in Thread /\ RunsOK(bufs, t, th[t]) /\ CallOK(th[t]) /\ BufsOK(bufs) /\ DataOK(bufs, disk, latest)
        /\ ReadOK(bufs, latest, t, th[t])
    BY <1>0, ThreadFacts
  <1>2. th' = [th EXCEPT ![t] = r] /\ th[t].pc = "raw" /\ UNCHANGED <<bufs, lru, nextSeq, disk, latest, bcCase>>
    BY DEF direct_read
  <1>3. /\ th[t].res \in [Blocks -> Data]
        /\ \A b \in Blocks \ th[t].gone : th[t].res[b] = latest[t][b] \/ \E s \in BcSlots : bufs[s].dev = t /\ bufs[s].blk = b /\ bufs[s].valid
    BY <1>1, <1>2 DEF ReadOK
  <1>4. ASSUME NEW b \in Blocks
        PROVE  /\ Overlay(t)[b] \in Data
               /\ b \notin th[t].gone => Overlay(t)[b] = latest[t][b]
    <2>1. Overlay(t)[b] = IF \E s \in lookup(t, b) : bufs[s].valid THEN bufs[CHOOSE s \in lookup(t, b) : TRUE].data ELSE th[t].res[b]
      BY DEF Overlay
    <2>2. CASE \E s \in lookup(t, b) : bufs[s].valid
      <3>1. PICK s \in lookup(t, b) : bufs[s].valid
        BY <2>2
      <3>2. s \in BcSlots /\ bufs[s].dev = t /\ bufs[s].blk = b
        BY DEF lookup
      <3>3. \A x \in lookup(t, b) : x = s
        BY <1>1, <3>2, BlocksNat DEF lookup, BufsOK
      <3>4. (CHOOSE x \in lookup(t, b) : TRUE) = s
        BY <3>3, Zenon
      <3>5. bufs[s].data = latest[t][b] /\ bufs[s].data \in Data
        BY <1>1, <3>1, <3>2 DEF DataOK, BufsOK, Buf
      <3> QED
        BY <2>1, <2>2, <3>4, <3>5
    <2>3. CASE ~\E s \in lookup(t, b) : bufs[s].valid
      <3>1. ~\E s \in BcSlots : bufs[s].dev = t /\ bufs[s].blk = b /\ bufs[s].valid
        BY <2>3 DEF lookup
      <3> QED
        BY <1>3, <2>1, <2>3, <3>1
    <2> QED
      BY <2>2, <2>3
  <1>5. Overlay(t) \in [Blocks -> Data]
    BY <1>4 DEF Overlay
  <1>6. Overlay(t) \in Res /\ DOMAIN Overlay(t) = Blocks
    BY <1>5, BlocksNat DEF Res
  <1>7. /\ r \in Thread /\ r.pc = "done" /\ r.op = th[t].op /\ r.blk = th[t].blk
        /\ r.run = th[t].run /\ r.res = Overlay(t) /\ r.gone = th[t].gone
    BY <1>1, <1>6 DEF Thread, BcPcs
  <1> HIDE DEF r
  <1>8. th[t].run = <<>>
    BY <1>1, <1>2 DEF RunsOK
  <1>9. RunsOK(bufs, t, r) /\ CallOK(r) /\ WaitOK(bufs, lru, r) /\ FlushOK(disk, latest, t, r)
    BY <1>1, <1>2, <1>7, <1>8 DEF RunsOK, CallOK, WaitOK, FlushOK
  <1>10. ReadOK(bufs, latest, t, r)
    BY <1>4, <1>6, <1>7 DEF ReadOK
  <1>11. ThreadOK(bufs, lru, disk, latest, t, r)
    BY <1>9, <1>10 DEF ThreadOK
  <1>12. bcCase' \in [calls : [BcThreads -> Seq(BcCalls)], errors : Nat, vals : SUBSET Nat]
    BY <1>0, <1>2, ThreadFacts
  <1> QED
    BY <1>0, <1>2, <1>7, <1>8, <1>11, <1>12, OnlyThread

(* Without a dirty buffer everything written to the device is on the disk. *)
LEMMA AfterFacts ==
  ASSUME NEW op \in BcOps
  PROVE  /\ AfterFlush(op) \in {"barrier", "getblk", "direct", "idle", "done"}
         /\ (AfterFlush(op) = "barrier" <=> op \in {"flush", "detach"})
         /\ (AfterFlush(op) = "getblk" <=> op = "read") /\ (AfterFlush(op) = "direct" <=> op = "direct")
         /\ AfterError(op) = IF op = "flush" THEN "failed" ELSE IF op = "detach" THEN "detach" ELSE AfterFlush(op)
  BY DEF AfterFlush, AfterError

LEMMA FlushEnd ==
  ASSUME BcInv, NEW t \in BcThreads, t # 0, th[t].pc = "flush", Unwritten(t) = {},
         NEW left, left = {b \in Blocks : disk[DevOf(t)][b] # latest[DevOf(t)][b]},
         th' = [th EXCEPT ![t] = [th[t] EXCEPT !.pc = AfterFlush(th[t].op), !.left = left]],
         UNCHANGED <<bufs, lru, nextSeq, disk, latest, bcCase>>
  PROVE  BcInv'
  <1> DEFINE pc == AfterFlush(th[t].op)
  <1> DEFINE r == [th[t] EXCEPT !.pc = pc, !.left = left]
  <1>1. /\ th[t] \in Thread /\ RunsOK(bufs, t, th[t]) /\ CallOK(th[t]) /\ BufsOK(bufs) /\ DataOK(bufs, disk, latest)
        /\ disk \in Store /\ latest \in Store /\ th[t].op \in BcOps
    BY ThreadFacts DEF Thread
  <1>2. /\ pc \in {"barrier", "getblk", "direct", "idle", "done"} /\ pc \in BcPcs
        /\ (pc = "barrier" <=> th[t].op \in {"flush", "detach"})
        /\ (pc = "getblk" <=> th[t].op = "read") /\ (pc = "direct" <=> th[t].op = "direct")
    BY <1>1, AfterFacts DEF BcPcs
  <1> HIDE DEF pc
  <1>3. left = {}
    BY <1>1, BlocksNat DEF DataOK, Unwritten
  <1>4. /\ r \in Thread /\ r.pc = pc /\ r.op = th[t].op /\ r.blk = th[t].blk /\ r.run = th[t].run /\ r.left = {}
    BY <1>1, <1>2, <1>3 DEF Thread
  <1>5. th' = [th EXCEPT ![t] = r]
    BY DEF pc
  <1> HIDE DEF r
  <1>6. th[t].run = <<>>
    BY <1>1 DEF RunsOK
  <1>7. t \in Devs => disk[t] = latest[t]
    <2> SUFFICES ASSUME t \in Devs  PROVE disk[t] = latest[t]
      OBVIOUS
    <2>1. \A b \in Blocks : disk[t][b] = latest[t][b]
      BY <1>3, BlocksNat
    <2>2. disk[t] \in [Blocks -> Data] /\ latest[t] \in [Blocks -> Data]
      BY <1>1 DEF Store
    <2> QED
      BY <2>1, <2>2
  <1>8. RunsOK(bufs, t, r) /\ CallOK(r) /\ WaitOK(bufs, lru, r)
    BY <1>1, <1>2, <1>4, <1>6 DEF RunsOK, CallOK, WaitOK
  <1>9. t \in Devs => ReadOK(bufs, latest, t, r) /\ FlushOK(disk, latest, t, r)
    BY <1>2, <1>4, <1>7 DEF ReadOK, FlushOK
  <1>10. ThreadOK(bufs, lru, disk, latest, t, r)
    BY <1>8, <1>9 DEF ThreadOK
  <1>11. bcCase' \in [calls : [BcThreads -> Seq(BcCalls)], errors : Nat, vals : SUBSET Nat]
    BY ThreadFacts
  <1> QED
    BY <1>4, <1>5, <1>6, <1>10, <1>11, OnlyThread

LEMMA raw_flushStep == ASSUME BcInv, NEW t \in BcThreads, NEW ok \in BOOLEAN, raw_flush(t, ok)  PROVE BcInv'
  <1> DEFINE pc == IF th[t].op = "detach" THEN "detach" ELSE IF ok THEN "flushed" ELSE "failed"
  <1> DEFINE r == [th[t] EXCEPT !.pc = pc]
  <1>1. /\ th[t] \in Thread /\ RunsOK(bufs, t, th[t]) /\ CallOK(th[t]) /\ (t \in Devs => FlushOK(disk, latest, t, th[t]))
    BY ThreadFacts
  <1>2. th[t].pc = "barrier" /\ th' = [th EXCEPT ![t] = r] /\ Answer(ok) /\ UNCHANGED <<bufs, lru, nextSeq, disk, latest>>
    BY DEF raw_flush
  <1>3. pc \in {"detach", "flushed", "failed"} /\ pc \in BcPcs /\ (pc = "detach" <=> th[t].op = "detach")
    BY DEF BcPcs
  <1> HIDE DEF pc
  <1>4. /\ r \in Thread /\ r.pc = pc /\ r.op = th[t].op /\ r.blk = th[t].blk /\ r.run = th[t].run /\ r.left = th[t].left /\ r.val = th[t].val
    BY <1>1, <1>3 DEF Thread
  <1> HIDE DEF r
  <1>5. th[t].run = <<>>
    BY <1>1, <1>2 DEF RunsOK
  <1>6. RunsOK(bufs, t, r) /\ CallOK(r) /\ WaitOK(bufs, lru, r)
    BY <1>1, <1>2, <1>3, <1>4, <1>5 DEF RunsOK, CallOK, WaitOK
  <1>7. t \in Devs => ReadOK(bufs, latest, t, r) /\ FlushOK(disk, latest, t, r)
    BY <1>1, <1>2, <1>3, <1>4 DEF ReadOK, FlushOK
  <1>8. ThreadOK(bufs, lru, disk, latest, t, r)
    BY <1>6, <1>7 DEF ThreadOK
  <1>9. bcCase' \in [calls : [BcThreads -> Seq(BcCalls)], errors : Nat, vals : SUBSET Nat]
    BY <1>2, AnswerType
  <1> QED
    BY <1>2, <1>4, <1>5, <1>8, <1>9, OnlyThread

LEMMA GoesIdle ==
  ASSUME BcInv, NEW t \in BcThreads, th[t].pc = "flush", th' = [th EXCEPT ![t] = BcIdle],
         UNCHANGED <<bufs, lru, nextSeq, disk, latest, bcCase>>
  PROVE  BcInv'
  <1>1. th[t].run = <<>>
    BY ThreadFacts DEF RunsOK
  <1>2. ThreadOK(bufs, lru, disk, latest, t, BcIdle)
    BY IdleThread DEF ThreadOK, RunsOK, CallOK, WaitOK, ReadOK, FlushOK
  <1>3. bcCase' \in [calls : [BcThreads -> Seq(BcCalls)], errors : Nat, vals : SUBSET Nat]
    BY ThreadFacts
  <1> QED
    BY <1>1, <1>2, <1>3, IdleThread, OnlyThread
------------------------------------------------------------------------------
(* Steps that change buffers.                                               *)

LEMMA Assemble ==
  ASSUME nextSeq' \in [Devs -> Int], th' \in [BcThreads -> Thread], disk' \in Store, latest' \in Store,
         bcCase' \in [calls : [BcThreads -> Seq(BcCalls)], errors : Nat, vals : SUBSET Nat],
         BufsOK(bufs'), LruOK(bufs', lru'), BusyOK(bufs', th'), DataOK(bufs', disk', latest'),
         \A u \in BcThreads : ThreadOK(bufs', lru', disk', latest', u, th'[u])
  PROVE  BcInv'
  BY DEF BcInv, TypesOK

(* A change of flags and contents leaves the blocks where they are. *)
LEMMA SameBlocks ==
  ASSUME NEW B, BufsOK(B), NEW B2 \in [BcSlots -> Buf],
         \A x \in BcSlots : B2[x].dev = B[x].dev /\ B2[x].blk = B[x].blk /\ (B2[x].dirty => B2[x].valid) /\ (B[x].dev = 0 => B2[x] = B[x])
  PROVE  BufsOK(B2)
  BY DEF BufsOK

(* A thread is busy with what is in no other run. *)
LEMMA NewRun ==
  ASSUME NEW T \in [BcThreads -> Thread], NEW T2 \in [BcThreads -> Thread], NEW B, NEW B2, BusyOK(B, T), NEW t \in BcThreads,
         T[t].run = <<>>,
         \A u \in BcThreads : u # t => T2[u].run = T[u].run,
         \A x \in Range(T2[t].run) : ~B[x].busy,
         \A x \in BcSlots : B2[x].busy <=> (B[x].busy \/ x \in Range(T2[t].run))
  PROVE  BusyOK(B2, T2)
  <1> DEFINE R == Range(T2[t].run)
  <1>1. Range(T[t].run) = {}
    BY RangeIn DEF Thread
  <1>2. ASSUME NEW x \in BcSlots  PROVE B2[x].busy <=> \E u \in BcThreads : x \in Range(T2[u].run)
    <2>1. ASSUME x \in R  PROVE B2[x].busy /\ \E u \in BcThreads : x \in Range(T2[u].run)
      BY <2>1
    <2>2. ASSUME x \notin R  PROVE B2[x].busy <=> \E u \in BcThreads : x \in Range(T2[u].run)
      <3>1. B2[x].busy <=> \E u \in BcThreads : x \in Range(T[u].run)
        BY <2>2 DEF BusyOK
      <3>2. \A u \in BcThreads : x \in Range(T2[u].run) <=> x \in Range(T[u].run)
        BY <1>1, <2>2
      <3> QED
        BY <3>1, <3>2
    <2> QED
      BY <2>1, <2>2
  <1>3. ASSUME NEW u \in BcThreads, NEW v \in BcThreads, NEW x \in BcSlots, x \in Range(T2[u].run), x \in Range(T2[v].run)  PROVE u = v
    <2>1. \A w \in BcThreads : w # t /\ x \in Range(T2[w].run) => B[x].busy /\ x \in Range(T[w].run)
      BY DEF BusyOK
    <2>2. x \in Range(T2[t].run) => ~B[x].busy
      OBVIOUS
    <2> QED
      BY <1>3, <2>1, <2>2 DEF BusyOK
  <1> QED
    BY <1>2, <1>3 DEF BusyOK

(* A thread gives back its run. *)
LEMMA RunOver ==
  ASSUME NEW T \in [BcThreads -> Thread], NEW T2 \in [BcThreads -> Thread], NEW B, NEW B2, BusyOK(B, T), NEW t \in BcThreads,
         T2[t].run = <<>>,
         \A u \in BcThreads : u # t => T2[u].run = T[u].run,
         \A x \in BcSlots : B2[x].busy <=> (B[x].busy /\ x \notin Range(T[t].run))
  PROVE  BusyOK(B2, T2)
  <1>1. Range(T2[t].run) = {}
    BY RangeIn DEF Thread
  <1>2. ASSUME NEW x \in BcSlots  PROVE B2[x].busy <=> \E u \in BcThreads : x \in Range(T2[u].run)
    <2>1. ASSUME B2[x].busy  PROVE \E u \in BcThreads : x \in Range(T2[u].run)
      <3>1. PICK u \in BcThreads : x \in Range(T[u].run)
        BY <2>1 DEF BusyOK
      <3>2. u # t
        BY <2>1, <3>1
      <3> QED
        BY <3>1, <3>2
    <2>2. ASSUME NEW u \in BcThreads, x \in Range(T2[u].run)  PROVE B2[x].busy
      <3>1. u # t /\ x \in Range(T[u].run)
        BY <1>1, <2>2
      <3>2. B[x].busy /\ x \notin Range(T[t].run)
        BY <3>1 DEF BusyOK
      <3> QED
        BY <3>2
    <2> QED
      BY <2>1, <2>2
  <1>3. \A u, v \in BcThreads, x \in BcSlots : x \in Range(T2[u].run) /\ x \in Range(T2[v].run) => u = v
    BY <1>1 DEF BusyOK
  <1> QED
    BY <1>2, <1>3 DEF BusyOK

(* The buffers of another thread's run. *)
LEMMA OtherRun ==
  ASSUME NEW T \in [BcThreads -> Thread], NEW B, BusyOK(B, T), NEW t \in BcThreads, NEW u \in BcThreads, u # t, NEW x \in Range(T[u].run)
  PROVE  x \in BcSlots /\ B[x].busy /\ x \notin Range(T[t].run)
  <1>1. x \in BcSlots
    BY RangeIn DEF Thread
  <1> QED
    BY <1>1 DEF BusyOK

(* The run that starts at s: dirty, idle buffers of one device. *)
LEMMA ClusterFacts ==
  ASSUME BufsOK(bufs), NEW s \in BcSlots, bufs[s].dirty, ~bufs[s].busy, NEW first \in Blocks, NEW last \in Blocks,
         first <= bufs[s].blk, bufs[s].blk <= last, IsCluster(bufs[s].dev, bufs[s].blk, first, last)
  PROVE  LET run == Cluster(s, first, last) IN
           /\ run \in Seq(BcSlots) /\ IsInjective(run) /\ s \in Range(run)
           /\ \A x \in Range(run) : x \in BcSlots /\ bufs[x].dirty /\ ~bufs[x].busy /\ bufs[x].dev = bufs[s].dev /\ bufs[x].dev # 0
  <1> DEFINE run == Cluster(s, first, last)  n == last - first + 1  d == bufs[s].dev
  <1>1. first \in Nat /\ last \in Nat /\ n \in Nat /\ bufs[s].blk \in Nat
    BY BlocksNat DEF BufsOK, Buf
  <1>2. d # 0
    BY DEF BufsOK, NoBuf
  <1>3. ASSUME NEW i \in 1..n
        PROVE  /\ run[i] \in BcSlots /\ bufs[run[i]].dirty /\ ~bufs[run[i]].busy /\ bufs[run[i]].dev = d
               /\ bufs[run[i]].blk = first + i - 1
    <2>1. run[i] = IF first + i - 1 = bufs[s].blk THEN s ELSE CHOOSE x \in lookup(d, first + i - 1) : TRUE
      BY DEF Cluster
    <2>2. CASE first + i - 1 = bufs[s].blk
      BY <2>1, <2>2
    <2>3. CASE first + i - 1 # bufs[s].blk
      <3>1. first + i - 1 \in first..last
        BY <1>1
      <3>2. PICK x \in lookup(d, first + i - 1) : ~bufs[x].busy /\ bufs[x].dirty
        BY <2>3, <3>1 DEF IsCluster, cluster_member
      <3>3. x \in BcSlots /\ bufs[x].dev = d /\ bufs[x].blk = first + i - 1
        BY DEF lookup
      <3>4. \A y \in lookup(d, first + i - 1) : y = x
        BY <1>2, <3>3 DEF lookup, BufsOK
      <3>5. (CHOOSE y \in lookup(d, first + i - 1) : TRUE) = x
        BY <3>4, Zenon
      <3> QED
        BY <2>1, <2>3, <3>2, <3>3, <3>5
    <2> QED
      BY <2>2, <2>3
  <1>4. run = [i \in 1..n |-> run[i]]
    BY DEF Cluster
  <1> HIDE DEF run
  <1>5. run \in [1..n -> BcSlots]
    BY <1>3, <1>4
  <1>6. run \in Seq(BcSlots) /\ DOMAIN run = 1..n
    BY <1>1, <1>5
  <1>7. IsInjective(run)
    <2> SUFFICES ASSUME NEW i \in 1..n, NEW j \in 1..n, run[i] = run[j]  PROVE i = j
      BY <1>6 DEF IsInjective
    <2>1. first + i - 1 = first + j - 1
      BY <1>3
    <2> QED
      BY <1>1, <2>1
  <1>8. s \in Range(run)
    <2> DEFINE k == bufs[s].blk - first + 1
    <2>1. k \in 1..n /\ first + k - 1 = bufs[s].blk
      BY <1>1
    <2>2. bufs[run[k]].dev = d /\ bufs[run[k]].blk = bufs[s].blk /\ run[k] \in BcSlots
      BY <1>3, <2>1
    <2>3. run[k] = s
      BY <1>2, <2>2 DEF BufsOK
    <2> QED
      BY <1>6, <2>1, <2>3 DEF Range
  <1>9. \A x \in Range(run) : x \in BcSlots /\ bufs[x].dirty /\ ~bufs[x].busy /\ bufs[x].dev = d
    BY <1>3, <1>6 DEF Range
  <1> QED
    BY <1>2, <1>6, <1>7, <1>8, <1>9 DEF run

(* Claimed buffers. *)
LEMMA ClaimFacts ==
  ASSUME NEW B \in [BcSlots -> Buf], NEW S
  PROVE  /\ buf_claim(B, S) \in [BcSlots -> Buf]
         /\ \A x \in BcSlots :
              LET b2 == buf_claim(B, S)[x] IN
                /\ b2.dev = B[x].dev /\ b2.blk = B[x].blk /\ b2.valid = B[x].valid /\ b2.dirty = B[x].dirty /\ b2.data = B[x].data
                /\ b2.busy <=> (B[x].busy \/ x \in S)
                /\ x \notin S => b2 = B[x]
  <1> DEFINE C(x) == [B[x] EXCEPT !.busy = TRUE]
  <1>1. buf_claim(B, S) = [x \in BcSlots |-> IF x \in S THEN C(x) ELSE B[x]]
    BY DEF buf_claim
  <1>2. ASSUME NEW x \in BcSlots
        PROVE  /\ C(x) \in Buf /\ C(x).dev = B[x].dev /\ C(x).blk = B[x].blk /\ C(x).valid = B[x].valid
               /\ C(x).dirty = B[x].dirty /\ C(x).data = B[x].data /\ C(x).busy
    <2>1. B[x] \in Buf
      OBVIOUS
    <2> QED
      BY <2>1 DEF Buf
  <1> HIDE DEF C
  <1>3. \A x \in BcSlots : buf_claim(B, S)[x] = IF x \in S THEN C(x) ELSE B[x]
    BY <1>1
  <1>4. buf_claim(B, S) \in [BcSlots -> Buf]
    BY <1>1, <1>2
  <1> QED
    BY <1>2, <1>3, <1>4

(* Released buffers. *)
LEMMA ReleaseFacts ==
  ASSUME NEW B \in [BcSlots -> Buf], NEW ss
  PROVE  /\ buf_release(B, ss) \in [BcSlots -> Buf]
         /\ \A x \in BcSlots :
              LET b2 == buf_release(B, ss)[x] IN
                /\ b2.dev = B[x].dev /\ b2.blk = B[x].blk /\ b2.valid = B[x].valid /\ b2.dirty = B[x].dirty /\ b2.data = B[x].data
                /\ b2.busy <=> (B[x].busy /\ x \notin Range(ss))
                /\ x \notin Range(ss) => b2 = B[x]
  <1> DEFINE C(x) == [B[x] EXCEPT !.busy = FALSE]
  <1>1. buf_release(B, ss) = [x \in BcSlots |-> IF x \in Range(ss) THEN C(x) ELSE B[x]]
    BY DEF buf_release
  <1>2. ASSUME NEW x \in BcSlots
        PROVE  /\ C(x) \in Buf /\ C(x).dev = B[x].dev /\ C(x).blk = B[x].blk /\ C(x).valid = B[x].valid
               /\ C(x).dirty = B[x].dirty /\ C(x).data = B[x].data /\ ~C(x).busy
    <2>1. B[x] \in Buf
      OBVIOUS
    <2> QED
      BY <2>1 DEF Buf
  <1> HIDE DEF C
  <1>3. \A x \in BcSlots : buf_release(B, ss)[x] = IF x \in Range(ss) THEN C(x) ELSE B[x]
    BY <1>1
  <1>4. buf_release(B, ss) \in [BcSlots -> Buf]
    BY <1>1, <1>2
  <1> QED
    BY <1>2, <1>3, <1>4

LEMMA NotHere == ASSUME NEW B, BufsOK(B), NEW x \in BcSlots, B[x].dev = 0  PROVE ~B[x].valid /\ ~B[x].dirty /\ ~B[x].busy
  BY DEF BufsOK, NoBuf

LEMMA CarriedSame == ASSUME NEW r  PROVE Carried(r, r)
  BY DEF Carried, Same

LEMMA StartsWriteStep ==
  ASSUME BcInv, NEW t \in BcThreads, NEW s \in BcSlots, bufs[s].dirty, ~bufs[s].busy, NEW pc \in {"evict", "store"},
         th[t].pc \in {"getblk", "flush"}, pc = "evict" => th[t].pc = "getblk", StartsWrite(t, s, pc)
  PROVE  BcInv'
  <1>1. PICK first \in Blocks, last \in Blocks :
          LET run == Cluster(s, first, last)
          IN /\ first <= bufs[s].blk /\ bufs[s].blk <= last /\ IsCluster(bufs[s].dev, bufs[s].blk, first, last)
             /\ bufs' = buf_claim(bufs, Range(run)) /\ lru' = Without(lru, Range(run))
             /\ th' = [th EXCEPT ![t] = [th[t] EXCEPT !.pc = pc, !.slot = s, !.run = run]]
             /\ UNCHANGED <<nextSeq, disk, latest, bcCase>>
    BY DEF StartsWrite
  <1> DEFINE run == Cluster(s, first, last)  R == Range(run)
  <1> DEFINE r == [th[t] EXCEPT !.pc = pc, !.slot = s, !.run = run]
  <1>2. /\ bufs' = buf_claim(bufs, R) /\ lru' = Without(lru, R) /\ th' = [th EXCEPT ![t] = r]
        /\ UNCHANGED <<nextSeq, disk, latest, bcCase>>
    BY <1>1
  <1>3. /\ th \in [BcThreads -> Thread] /\ th[t] \in Thread /\ BufsOK(bufs) /\ LruOK(bufs, lru) /\ BusyOK(bufs, th)
        /\ DataOK(bufs, disk, latest) /\ RunsOK(bufs, t, th[t]) /\ CallOK(th[t]) /\ bufs \in [BcSlots -> Buf]
    BY ThreadFacts DEF BufsOK
  <1>4. /\ run \in Seq(BcSlots) /\ IsInjective(run) /\ s \in R
        /\ \A x \in R : x \in BcSlots /\ bufs[x].dirty /\ ~bufs[x].busy /\ bufs[x].dev = bufs[s].dev /\ bufs[x].dev # 0
    BY <1>1, <1>3, ClusterFacts
  <1> HIDE DEF run
  <1>5. /\ r \in Thread /\ r.pc = pc /\ r.slot = s /\ r.run = run /\ r.op = th[t].op /\ r.blk = th[t].blk
    BY <1>3, <1>4 DEF Thread, BcPcs
  <1> HIDE DEF r, R
  <1>6. th' \in [BcThreads -> Thread] /\ th'[t] = r /\ \A u \in BcThreads : u # t => th'[u] = th[u]
    BY <1>2, <1>3, <1>5
  <1>7. /\ bufs' \in [BcSlots -> Buf]
        /\ \A x \in BcSlots :
             /\ bufs'[x].dev = bufs[x].dev /\ bufs'[x].blk = bufs[x].blk /\ bufs'[x].valid = bufs[x].valid
             /\ bufs'[x].dirty = bufs[x].dirty /\ bufs'[x].data = bufs[x].data
             /\ bufs'[x].busy <=> (bufs[x].busy \/ x \in R)
             /\ x \notin R => bufs'[x] = bufs[x]
    BY <1>2, <1>3, ClaimFacts
  <1>8. BufsOK(bufs')
    <2>1. \A x \in BcSlots : /\ bufs'[x].dev = bufs[x].dev /\ bufs'[x].blk = bufs[x].blk /\ (bufs'[x].dirty => bufs'[x].valid)
                             /\ (bufs[x].dev = 0 => bufs'[x] = bufs[x])
      BY <1>3, <1>4, <1>7 DEF BufsOK
    <2> QED
      BY <1>3, <1>7, <2>1, SameBlocks
  <1>9. LruOK(bufs', lru')
    <2>1. lru \in Seq(BcSlots) /\ IsInjective(lru) /\ Range(lru) = {x \in BcSlots : bufs[x].dev # 0 /\ ~bufs[x].busy}
      BY <1>3 DEF LruOK
    <2>2. lru' \in Seq(BcSlots) /\ IsInjective(lru') /\ Range(lru') = Range(lru) \ R
      BY <1>2, <2>1, WithoutProperties
    <2>3. Range(lru') = {x \in BcSlots : bufs'[x].dev # 0 /\ ~bufs'[x].busy}
      BY <1>7, <2>1, <2>2
    <2> QED
      BY <2>2, <2>3 DEF LruOK
  <1>10. BusyOK(bufs', th')
    <2>1. th[t].run = <<>> /\ Range(th'[t].run) = R
      BY <1>3, <1>4, <1>5, <1>6 DEF RunsOK, R
    <2>2. \A u \in BcThreads : u # t => th'[u].run = th[u].run
      BY <1>6
    <2>3. \A x \in Range(th'[t].run) : ~bufs[x].busy
      BY <1>4, <2>1
    <2>4. \A x \in BcSlots : bufs'[x].busy <=> (bufs[x].busy \/ x \in Range(th'[t].run))
      BY <1>7, <2>1
    <2> QED
      <3>1. th \in [BcThreads -> Thread] /\ th' \in [BcThreads -> Thread] /\ BusyOK(bufs, th)
        BY <1>3, <1>6
      <3> QED
        BY <3>1, <2>1, <2>2, <2>3, <2>4, NewRun
  <1>11. DataOK(bufs', disk', latest')
    BY <1>2, <1>3, <1>7 DEF DataOK
  <1>12. ThreadOK(bufs', lru', disk', latest', t, r)
    <2>1. RunsOK(bufs', t, r)
      <3>1. r.slot \in Range(r.run) /\ IsInjective(r.run) /\ \A x \in Range(r.run) : bufs'[x].dirty /\ bufs'[x].dev = bufs'[r.slot].dev
        BY <1>4, <1>5, <1>7 DEF R
      <3> QED
        BY <1>5, <3>1 DEF RunsOK
    <2>2. CallOK(r) /\ WaitOK(bufs', lru', r) /\ ReadOK(bufs', latest', t, r) /\ FlushOK(disk', latest', t, r)
      BY <1>3, <1>5 DEF CallOK, WaitOK, ReadOK, FlushOK
    <2> QED
      BY <2>1, <2>2 DEF ThreadOK
  <1>13. ASSUME NEW u \in BcThreads, u # t  PROVE ThreadOK(bufs', lru', disk', latest', u, th'[u])
    <2>1. ThreadOK(bufs, lru, disk, latest, u, th[u]) /\ th[u] \in Thread /\ WaitOK(bufs, lru, th[u]) /\ th'[u] = th[u]
      BY <1>6, <1>13, ThreadFacts
    <2>2. \A x \in Range(th[u].run) : bufs'[x] = bufs[x]
      <3> TAKE x \in Range(th[u].run)
      <3>1. x \in BcSlots /\ bufs[x].busy
        BY <1>3, <1>13, OtherRun
      <3> QED
        BY <1>4, <1>7, <3>1
    <2>3. th[u].pc = "wait" => IF th[u].slot = 0 THEN lru' = <<>> ELSE bufs'[th[u].slot].busy
      <3>1. s \in Range(lru) /\ lru \in Seq(BcSlots)
        BY <1>3, <1>4 DEF LruOK
      <3>2. lru # <<>>
        BY <3>1, RangeIn
      <3>3. th[u].slot \in BcSlots \cup {0}
        BY <2>1 DEF Thread
      <3> QED
        BY <1>7, <2>1, <3>2, <3>3 DEF WaitOK
    <2>4. u \in Devs => latest'[u] = latest[u] /\ (disk[u] = latest[u] => disk'[u] = latest[u])
      BY <1>2
    <2>5. th[u].pc = "raw" => \A x \in BcSlots : bufs[x].dev = u /\ bufs[x].valid =>
                                \/ bufs[x].blk \in th[u].gone
                                \/ bufs'[x].dev = u /\ bufs'[x].blk = bufs[x].blk /\ bufs'[x].valid
      BY <1>7
    <2>6. ThreadOK(bufs', lru', disk', latest', u, th[u])
      BY <2>1, <2>2, <2>3, <2>4, <2>5, CarriedSame, OtherThread
    <2> QED
      BY <2>1, <2>6
  <1>14. /\ nextSeq' \in [Devs -> Int] /\ disk' \in Store /\ latest' \in Store
         /\ bcCase' \in [calls : [BcThreads -> Seq(BcCalls)], errors : Nat, vals : SUBSET Nat]
    BY <1>2, ThreadFacts
  <1> QED
    BY <1>6, <1>8, <1>9, <1>10, <1>11, <1>12, <1>13, <1>14, Assemble

------------------------------------------------------------------------------
(* The disk has answered.                                                   *)

LEMMA CleanFacts ==
  ASSUME NEW B \in [BcSlots -> Buf], NEW run, NEW ok \in BOOLEAN
  PROVE  /\ mark_clean(B, run, ok) \in [BcSlots -> Buf]
         /\ \A x \in BcSlots :
              LET b2 == mark_clean(B, run, ok)[x] IN
                /\ b2.dev = B[x].dev /\ b2.blk = B[x].blk /\ b2.valid = B[x].valid /\ b2.busy = B[x].busy /\ b2.data = B[x].data
                /\ b2.dirty <=> (B[x].dirty /\ ~(ok /\ x \in Range(run)))
                /\ x \notin Range(run) => b2 = B[x]
  <1> DEFINE C(x) == [B[x] EXCEPT !.dirty = FALSE]
  <1>1. mark_clean(B, run, ok) = [x \in BcSlots |-> IF x \in Range(run) /\ ok THEN C(x) ELSE B[x]]
    BY DEF mark_clean
  <1>2. ASSUME NEW x \in BcSlots
        PROVE  /\ C(x) \in Buf /\ C(x).dev = B[x].dev /\ C(x).blk = B[x].blk /\ C(x).valid = B[x].valid
               /\ C(x).busy = B[x].busy /\ C(x).data = B[x].data /\ ~C(x).dirty
    <2>1. B[x] \in Buf
      OBVIOUS
    <2> QED
      BY <2>1 DEF Buf
  <1> HIDE DEF C
  <1>3. \A x \in BcSlots : mark_clean(B, run, ok)[x] = IF x \in Range(run) /\ ok THEN C(x) ELSE B[x]
    BY <1>1
  <1>4. mark_clean(B, run, ok) \in [BcSlots -> Buf]
    BY <1>1, <1>2
  <1> QED
    BY <1>2, <1>3, <1>4

(* A thread t that gives back a run: it goes on as r, others are woken. *)
LEMMA GivesBack ==
  ASSUME th \in [BcThreads -> Thread], NEW t \in BcThreads, NEW U \in [BcThreads -> Thread], NEW out,
         \A u \in BcThreads : u # t => U[u] = th[u], U[t].pc # "wait", th' = Wakeup(U, out)
  PROVE  /\ th' \in [BcThreads -> Thread] /\ Same(U[t], th'[t]) /\ th'[t].pc = U[t].pc /\ th'[t].gone = U[t].gone
         /\ \A u \in BcThreads : u # t => /\ Carried(th[u], th'[u]) /\ th'[u].run = th[u].run /\ th'[u].gone = th[u].gone
                                          /\ th'[u].pc = "wait" /\ out # <<>> => th[u].pc = "wait" /\ th[u].slot \notin Range(out) \cup {0}
  <1>1. \A u \in BcThreads : u # t => U[u] = th[u]
    OBVIOUS
  <1>2. th' = Wakeup(U, out)
    OBVIOUS
  <1>3. /\ th' \in [BcThreads -> Thread]
        /\ \A u \in BcThreads :
             /\ Same(U[u], th'[u]) /\ th'[u].gone = U[u].gone
             /\ th'[u].pc = IF U[u].pc = "wait" /\ out # <<>> /\ U[u].slot \in Range(out) \cup {0} THEN U[u].back ELSE U[u].pc
    <2>1. /\ Wakeup(U, out) \in [BcThreads -> Thread]
          /\ \A u \in BcThreads :
               /\ Same(U[u], Wakeup(U, out)[u]) /\ Wakeup(U, out)[u].gone = U[u].gone
               /\ Wakeup(U, out)[u].pc = IF U[u].pc = "wait" /\ out # <<>> /\ U[u].slot \in Range(out) \cup {0} THEN U[u].back ELSE U[u].pc
      BY <1>1, WokenThread
    <2> QED
      BY <1>2, <2>1
  <1>4. Same(U[t], th'[t]) /\ th'[t].pc = U[t].pc /\ th'[t].gone = U[t].gone
    BY <1>1, <1>3
  <1>5. ASSUME NEW u \in BcThreads, u # t
        PROVE  /\ Carried(th[u], th'[u]) /\ th'[u].run = th[u].run /\ th'[u].gone = th[u].gone
               /\ th'[u].pc = "wait" /\ out # <<>> => th[u].pc = "wait" /\ th[u].slot \notin Range(out) \cup {0}
    <2>1. /\ Same(th[u], th'[u]) /\ th'[u].gone = th[u].gone
          /\ th'[u].pc = IF th[u].pc = "wait" /\ out # <<>> /\ th[u].slot \in Range(out) \cup {0} THEN th[u].back ELSE th[u].pc
      BY <1>1, <1>3, <1>5
    <2>2. th[u] \in Thread
      OBVIOUS
    <2>3. th[u].back # "wait" /\ th[u].back # "raw"
      BY <2>2 DEF Thread
    <2> QED
      BY <2>1, <2>3 DEF Carried, Same
  <1> QED
    BY <1>3, <1>4, <1>5

LEMMA SameThread ==
  ASSUME NEW r \in Thread, NEW r2 \in Thread, Same(r, r2), r2.pc = r.pc, r2.gone = r.gone, NEW B, NEW q, NEW dk, NEW lt, NEW t,
         ThreadOK(B, q, dk, lt, t, r)
  PROVE  ThreadOK(B, q, dk, lt, t, r2)
  <1>1. r = r2
    BY DEF Thread, Same
  <1> QED
    BY <1>1

(* Released buffers are on the list of idle ones. *)
LEMMA ReleasedLru ==
  ASSUME NEW B, NEW q, LruOK(B, q), NEW B2, NEW out \in Seq(BcSlots), IsInjective(out), NEW q2, q2 = q \o out,
         \A x \in Range(out) : B[x].busy,
         \A x \in BcSlots : (B2[x].dev # 0 /\ ~B2[x].busy) <=> (B[x].dev # 0 /\ ~B[x].busy) \/ x \in Range(out)
  PROVE  LruOK(B2, q2)
  <1>1. q \in Seq(BcSlots) /\ IsInjective(q) /\ Range(q) = {s \in BcSlots : B[s].dev # 0 /\ ~B[s].busy}
    BY DEF LruOK
  <1>2. Range(out) \subseteq BcSlots
    BY RangeIn
  <1>3. Range(q) \cap Range(out) = {}
    BY <1>1
  <1>4. q2 \in Seq(BcSlots) /\ IsInjective(q2) /\ Range(q2) = Range(q) \cup Range(out)
    BY <1>1, <1>3, JoinedProperties
  <1>5. Range(q2) = {s \in BcSlots : B2[s].dev # 0 /\ ~B2[s].busy}
    BY <1>1, <1>2, <1>4
  <1> QED
    BY <1>4, <1>5 DEF LruOK

LEMMA WritebackDisk ==
  ASSUME BcInv, NEW t \in BcThreads, NEW ok \in BOOLEAN, writeback_cluster(t, ok)
  PROVE  /\ disk' \in Store /\ bufs[th[t].slot].dev \in Devs /\ (~ok => disk' = disk)
         /\ \A e \in Devs, b \in Blocks :
              \/ disk'[e][b] = disk[e][b] /\ ~(ok /\ \E x \in Range(th[t].run) : bufs[x].dev = e /\ bufs[x].blk = b)
              \/ disk'[e][b] = latest[e][b]
  <1> DEFINE me == th[t]  d == bufs[me.slot].dev  R == Range(me.run)
  <1> DEFINE row == [b \in Blocks |-> IF \E x \in R : bufs[x].blk = b
                                      THEN bufs[CHOOSE x \in R : bufs[x].blk = b].data ELSE disk[d][b]]
  <1>1. me.pc \in {"evict", "store"} /\ disk' = IF ~ok THEN disk ELSE [disk EXCEPT ![d] = row]
    BY DEF writeback_cluster
  <1>2. /\ me \in Thread /\ RunsOK(bufs, t, me) /\ BufsOK(bufs) /\ DataOK(bufs, disk, latest) /\ disk \in Store /\ latest \in Store
        /\ bufs \in [BcSlots -> Buf]
    BY ThreadFacts DEF BufsOK
  <1>3. me.slot \in R /\ R \subseteq BcSlots /\ \A x \in R : x \in BcSlots /\ bufs[x].dirty /\ bufs[x].dev = d
    BY <1>1, <1>2, RangeIn DEF RunsOK, Thread
  <1>4. d \in Devs
    <2>1. bufs[me.slot] \in Buf /\ bufs[me.slot].dirty /\ me.slot \in BcSlots
      BY <1>2, <1>3
    <2>2. d # 0
      BY <1>2, <2>1, NotHere
    <2> QED
      BY <2>1, <2>2 DEF Buf
  <1>5. ASSUME NEW x \in R  PROVE bufs[x].blk \in Blocks /\ bufs[x].data = latest[d][bufs[x].blk] /\ row[bufs[x].blk] = bufs[x].data
    <2>1. x \in BcSlots /\ bufs[x].dirty /\ bufs[x].dev = d /\ d # 0
      BY <1>3, <1>4, BlocksNat
    <2>2. bufs[x].blk \in Blocks /\ bufs[x].valid
      BY <1>2, <2>1 DEF BufsOK
    <2>3. bufs[x].data = latest[d][bufs[x].blk]
      BY <1>2, <2>1, <2>2 DEF DataOK
    <2>4. \A y \in R : bufs[y].blk = bufs[x].blk => y = x
      BY <1>2, <1>3, <2>1 DEF BufsOK
    <2>5. (CHOOSE y \in R : bufs[y].blk = bufs[x].blk) = x
      BY <1>5, <2>4, Zenon
    <2> QED
      BY <2>2, <2>3, <2>5
  <1>6. ASSUME NEW b \in Blocks  PROVE row[b] \in Data /\ (row[b] = latest[d][b] \/ (row[b] = disk[d][b] /\ ~\E x \in R : bufs[x].blk = b))
    <2>1. CASE \E x \in R : bufs[x].blk = b
      <3>1. PICK x \in R : bufs[x].blk = b
        BY <2>1
      <3>2. row[b] = latest[d][b]
        BY <1>5, <3>1
      <3>3. latest[d][b] \in Data
        BY <1>2, <1>4 DEF Store
      <3> QED
        BY <3>2, <3>3
    <2>2. CASE ~\E x \in R : bufs[x].blk = b
      <3>1. row[b] = disk[d][b]
        BY <2>2
      <3>2. disk[d][b] \in Data
        BY <1>2, <1>4 DEF Store
      <3> QED
        BY <2>2, <3>1, <3>2
    <2> QED
      BY <2>1, <2>2
  <1>7. row = [b \in Blocks |-> row[b]]
    OBVIOUS
  <1> HIDE DEF row
  <1>8. row \in [Blocks -> Data]
    BY <1>6, <1>7
  <1>9. CASE ~ok
    BY <1>1, <1>2, <1>4, <1>9
  <1>10. CASE ok
    <2>1. disk' = [disk EXCEPT ![d] = row]
      BY <1>1, <1>10
    <2>2. disk' \in Store
      BY <1>2, <1>4, <1>8, <2>1 DEF Store
    <2>3. disk'[d] = row /\ \A e \in Devs : e # d => disk'[e] = disk[e]
      BY <1>2, <1>4, <2>1 DEF Store
    <2>4. ASSUME NEW e \in Devs, NEW b \in Blocks
          PROVE  \/ disk'[e][b] = disk[e][b] /\ ~(ok /\ \E x \in R : bufs[x].dev = e /\ bufs[x].blk = b)
                 \/ disk'[e][b] = latest[e][b]
      <3>1. CASE e = d
        BY <1>6, <2>3, <3>1
      <3>2. CASE e # d
        BY <1>3, <2>3, <3>2
      <3> QED
        BY <3>1, <3>2
    <2> QED
      BY <1>4, <1>10, <2>2, <2>4
  <1> QED
    BY <1>9, <1>10

LEMMA writeback_clusterStep == ASSUME BcInv, NEW t \in BcThreads, NEW ok \in BOOLEAN, writeback_cluster(t, ok)  PROVE BcInv'
  <1> DEFINE me == th[t]  R == Range(me.run)  out == InOrder(me.run, me.slot)
  <1> DEFINE pc == IF me.pc = "evict" THEN "getblk" ELSE IF ok THEN "flush" ELSE AfterError(me.op)
  <1> DEFINE val == IF me.op = "detach" /\ ~ok THEN 1 ELSE me.val
  <1> DEFINE r == [th[t] EXCEPT !.pc = pc, !.run = <<>>, !.slot = 0, !.val = val]
  <1>1. /\ me.pc \in {"evict", "store"} /\ Answer(ok) /\ bufs' = buf_release(mark_clean(bufs, me.run, ok), me.run)
        /\ lru' = lru \o out /\ th' = Wakeup([th EXCEPT ![t] = r], out) /\ nextSeq' = nextSeq /\ latest' = latest
    BY DEF writeback_cluster
  <1>2. /\ th \in [BcThreads -> Thread] /\ me \in Thread /\ BufsOK(bufs) /\ LruOK(bufs, lru) /\ BusyOK(bufs, th)
        /\ DataOK(bufs, disk, latest) /\ RunsOK(bufs, t, me) /\ CallOK(me) /\ bufs \in [BcSlots -> Buf]
        /\ disk \in Store /\ latest \in Store
    BY ThreadFacts DEF BufsOK
  <1>3. /\ disk' \in Store /\ (~ok => disk' = disk)
        /\ \A e \in Devs, b \in Blocks :
             \/ disk'[e][b] = disk[e][b] /\ ~(ok /\ \E x \in R : bufs[x].dev = e /\ bufs[x].blk = b)
             \/ disk'[e][b] = latest[e][b]
    BY WritebackDisk
  <1>4. me.run \in Seq(BcSlots) /\ IsInjective(me.run) /\ me.slot \in R /\ R \subseteq BcSlots /\ \A x \in R : x \in BcSlots /\ bufs[x].dirty
    BY <1>1, <1>2, RangeIn DEF RunsOK, Thread
  <1>5. out \in Seq(BcSlots) /\ IsInjective(out) /\ Range(out) = R /\ out # <<>>
    BY <1>4, InOrderProperties
  <1>6. \A x \in R : x \in BcSlots /\ bufs[x].busy /\ bufs[x].dev # 0
    <2> TAKE x \in R
    <2>1. x \in BcSlots /\ bufs[x].busy
      BY <1>2, <1>4 DEF BusyOK
    <2> QED
      BY <1>2, <2>1, NotHere
  <1>7. /\ pc \in {"getblk", "flush", "idle", "direct", "done", "detach", "failed"} /\ pc \in BcPcs
        /\ (pc = "getblk" => me.op \in {"read", "whole", "part"}) /\ (pc = "direct" => me.op = "direct")
        /\ (pc = "done" => me.op \notin {"read", "direct"}) /\ (pc = "detach" => val = 1) /\ val \in Nat
    <2>1. me.op \in BcOps /\ me.val \in Nat /\ (me.pc = "evict" => me.op \in {"read", "whole", "part"})
      BY <1>2 DEF Thread, CallOK
    <2>2. /\ AfterError(me.op) \in {"getblk", "direct", "idle", "done", "detach", "failed"}
          /\ (AfterError(me.op) = "getblk" <=> me.op = "read") /\ (AfterError(me.op) = "direct" <=> me.op = "direct")
          /\ (AfterError(me.op) = "detach" <=> me.op = "detach")
      BY <2>1, AfterFacts
    <2> QED
      BY <1>1, <2>1, <2>2 DEF BcPcs
  <1> HIDE DEF pc, val, out
  <1>8. r \in Thread /\ r.pc = pc /\ r.run = <<>> /\ r.slot = 0 /\ r.op = me.op /\ r.blk = me.blk /\ r.val = val
    BY <1>2, <1>7, EmptyLists DEF Thread
  <1> HIDE DEF r
  <1>9. /\ th' \in [BcThreads -> Thread] /\ Same(r, th'[t]) /\ th'[t].pc = r.pc /\ th'[t].gone = r.gone
        /\ \A u \in BcThreads : u # t => /\ Carried(th[u], th'[u]) /\ th'[u].run = th[u].run /\ th'[u].gone = th[u].gone
                                         /\ th'[u].pc = "wait" /\ out # <<>> => th[u].pc = "wait" /\ th[u].slot \notin Range(out) \cup {0}
    <2>1. r.pc # "wait"
      BY <1>7, <1>8
    <2> QED
      <3> DEFINE U == [th EXCEPT ![t] = r]
      <3>1. U \in [BcThreads -> Thread] /\ U[t] = r /\ (\A u \in BcThreads : u # t => U[u] = th[u]) /\ th' = Wakeup(U, out)
        BY <1>1, <1>2, <1>8
      <3> HIDE DEF U
      <3> QED
        BY <1>2, <2>1, <3>1, GivesBack
  <1>10. /\ bufs' \in [BcSlots -> Buf]
         /\ \A x \in BcSlots :
              /\ bufs'[x].dev = bufs[x].dev /\ bufs'[x].blk = bufs[x].blk /\ bufs'[x].valid = bufs[x].valid
              /\ bufs'[x].data = bufs[x].data /\ (bufs'[x].dirty <=> (bufs[x].dirty /\ ~(ok /\ x \in R)))
              /\ bufs'[x].busy <=> (bufs[x].busy /\ x \notin R)
              /\ x \notin R => bufs'[x] = bufs[x]
    <2> DEFINE C == mark_clean(bufs, me.run, ok)
    <2>1. /\ C \in [BcSlots -> Buf]
          /\ \A x \in BcSlots :
               /\ C[x].dev = bufs[x].dev /\ C[x].blk = bufs[x].blk /\ C[x].valid = bufs[x].valid /\ C[x].busy = bufs[x].busy
               /\ C[x].data = bufs[x].data /\ (C[x].dirty <=> (bufs[x].dirty /\ ~(ok /\ x \in R)))
               /\ x \notin R => C[x] = bufs[x]
      BY <1>2, CleanFacts
    <2>2. bufs' = buf_release(C, me.run)
      BY <1>1
    <2> HIDE DEF C
    <2>3. /\ bufs' \in [BcSlots -> Buf]
          /\ \A x \in BcSlots :
               /\ bufs'[x].dev = C[x].dev /\ bufs'[x].blk = C[x].blk /\ bufs'[x].valid = C[x].valid
               /\ bufs'[x].dirty = C[x].dirty /\ bufs'[x].data = C[x].data
               /\ bufs'[x].busy <=> (C[x].busy /\ x \notin R)
               /\ x \notin R => bufs'[x] = C[x]
      BY <2>1, <2>2, ReleaseFacts
    <2> QED
      BY <2>1, <2>3
  <1>11. BufsOK(bufs')
    <2>1. \A x \in BcSlots : /\ bufs'[x].dev = bufs[x].dev /\ bufs'[x].blk = bufs[x].blk /\ (bufs'[x].dirty => bufs'[x].valid)
                             /\ (bufs[x].dev = 0 => bufs'[x] = bufs[x])
      BY <1>2, <1>6, <1>10 DEF BufsOK
    <2> QED
      BY <1>2, <1>10, <2>1, SameBlocks
  <1>12. LruOK(bufs', lru')
    <2>1. \A x \in Range(out) : bufs[x].busy
      BY <1>5, <1>6
    <2>2. \A x \in BcSlots : (bufs'[x].dev # 0 /\ ~bufs'[x].busy) <=> (bufs[x].dev # 0 /\ ~bufs[x].busy) \/ x \in Range(out)
      BY <1>5, <1>6, <1>10
    <2> QED
      BY <1>1, <1>2, <1>5, <2>1, <2>2, ReleasedLru
  <1>13. BusyOK(bufs', th')
    <2>1. th'[t].run = <<>> /\ \A u \in BcThreads : u # t => th'[u].run = th[u].run
      BY <1>8, <1>9 DEF Same
    <2>2. \A x \in BcSlots : bufs'[x].busy <=> (bufs[x].busy /\ x \notin Range(th[t].run))
      BY <1>10
    <2> QED
      BY <1>2, <1>9, <2>1, <2>2, RunOver
  <1>14. DataOK(bufs', disk', latest')
    <2>1. \A x \in BcSlots : bufs'[x].valid => bufs'[x].data = latest'[bufs'[x].dev][bufs'[x].blk]
      BY <1>1, <1>2, <1>10 DEF DataOK
    <2>2. ASSUME NEW e \in Devs, NEW b \in Blocks, disk'[e][b] # latest'[e][b]
          PROVE  \E x \in BcSlots : bufs'[x].dev = e /\ bufs'[x].blk = b /\ bufs'[x].dirty
      <3>1. disk'[e][b] = disk[e][b] /\ ~(ok /\ \E x \in R : bufs[x].dev = e /\ bufs[x].blk = b) /\ disk[e][b] # latest[e][b]
        BY <1>1, <1>3, <2>2
      <3>2. PICK x \in BcSlots : bufs[x].dev = e /\ bufs[x].blk = b /\ bufs[x].dirty
        BY <1>2, <3>1 DEF DataOK
      <3> QED
        BY <1>10, <3>1, <3>2
    <2> QED
      BY <2>1, <2>2 DEF DataOK
  <1>15. ThreadOK(bufs', lru', disk', latest', t, th'[t])
    <2>1. RunsOK(bufs', t, r) /\ CallOK(r) /\ WaitOK(bufs', lru', r)
      BY <1>2, <1>7, <1>8 DEF RunsOK, CallOK, WaitOK
    <2>2. ReadOK(bufs', latest', t, r) /\ FlushOK(disk', latest', t, r)
      BY <1>7, <1>8 DEF ReadOK, FlushOK
    <2>3. ThreadOK(bufs', lru', disk', latest', t, r)
      BY <2>1, <2>2 DEF ThreadOK
    <2> QED
      BY <1>8, <1>9, <2>3, SameThread
  <1>16. ASSUME NEW u \in BcThreads, u # t  PROVE ThreadOK(bufs', lru', disk', latest', u, th'[u])
    <2>1. ThreadOK(bufs, lru, disk, latest, u, th[u]) /\ th[u] \in Thread /\ WaitOK(bufs, lru, th[u]) /\ th'[u] \in Thread
      BY <1>9, ThreadFacts
    <2>2. \A x \in Range(th[u].run) : bufs'[x] = bufs[x]
      <3> TAKE x \in Range(th[u].run)
      <3>1. x \in BcSlots /\ x \notin R
        BY <1>2, <1>16, OtherRun
      <3> QED
        BY <1>10, <3>1
    <2>3. Carried(th[u], th'[u]) /\ (th'[u].pc = "wait" => th[u].pc = "wait" /\ th[u].slot \notin R \cup {0})
      BY <1>5, <1>9, <1>16
    <2>4. th'[u].pc = "wait" => IF th[u].slot = 0 THEN lru' = <<>> ELSE bufs'[th[u].slot].busy
      <3>1. th[u].slot \in BcSlots \cup {0}
        BY <2>1 DEF Thread
      <3> QED
        BY <1>10, <2>1, <2>3, <3>1 DEF WaitOK
    <2>5. u \in Devs => latest'[u] = latest[u] /\ (disk[u] = latest[u] => disk'[u] = latest[u])
      <3> SUFFICES ASSUME u \in Devs, disk[u] = latest[u]  PROVE disk'[u] = latest[u]
        BY <1>1
      <3>1. \A b \in Blocks : disk'[u][b] = latest[u][b]
        BY <1>3
      <3>2. disk'[u] \in [Blocks -> Data] /\ latest[u] \in [Blocks -> Data]
        BY <1>2, <1>3 DEF Store
      <3> QED
        BY <3>1, <3>2
    <2>6. th[u].pc = "raw" => \A x \in BcSlots : bufs[x].dev = u /\ bufs[x].valid =>
                                \/ bufs[x].blk \in th'[u].gone
                                \/ bufs'[x].dev = u /\ bufs'[x].blk = bufs[x].blk /\ bufs'[x].valid
      BY <1>10
    <2> QED
      BY <2>1, <2>2, <2>3, <2>4, <2>5, <2>6, OtherThread
  <1>17. /\ nextSeq' \in [Devs -> Int] /\ latest' \in Store
         /\ bcCase' \in [calls : [BcThreads -> Seq(BcCalls)], errors : Nat, vals : SUBSET Nat]
    BY <1>1, ThreadFacts, AnswerType
  <1> QED
    BY <1>3, <1>9, <1>11, <1>12, <1>13, <1>14, <1>15, <1>16, <1>17, Assemble

LEMMA HalfData == ASSUME NEW data \in Data, NEW v \in Nat, NEW op \in BcOps  PROVE Half(data, op, v) \in Data
  BY DEF Half, Data

(* The buffers of a run that is read: the disk has what was written last. *)
LEMMA FillFacts ==
  ASSUME BcInv, NEW t \in Devs, th[t].pc = "fill"
  PROVE  LET me == th[t]  R == Range(me.run) IN
           /\ me.run \in Seq(BcSlots) /\ IsInjective(me.run) /\ me.run # <<>> /\ Head(me.run) = me.slot /\ me.slot \in R /\ me.slot \in BcSlots
           /\ me.op \in {"read", "part"} /\ me.blk \in Blocks /\ bufs[me.slot].blk = me.blk
           /\ \A x \in R : /\ x \in BcSlots /\ bufs[x].dev = t /\ bufs[x].busy /\ ~bufs[x].valid /\ ~bufs[x].dirty
                           /\ bufs[x].blk \in Blocks /\ disk[t][bufs[x].blk] = latest[t][bufs[x].blk]
                           /\ disk[t][bufs[x].blk] \in Data /\ (bufs[x].blk = me.blk => x = me.slot)
  <1> DEFINE me == th[t]  R == Range(me.run)
  <1>0. t \in BcThreads /\ t # 0
    BY BlocksNat
  <1>1. /\ me \in Thread /\ BufsOK(bufs) /\ BusyOK(bufs, th) /\ DataOK(bufs, disk, latest) /\ RunsOK(bufs, t, me) /\ CallOK(me) /\ disk \in Store
        /\ bufs \in [BcSlots -> Buf]
    BY <1>0, ThreadFacts DEF BufsOK
  <1>2. me.run \in Seq(BcSlots) /\ R \subseteq BcSlots /\ DOMAIN me.run = 1..Len(me.run) /\ Len(me.run) \in Nat /\ me.blk \in Nat
    BY <1>1, RangeIn DEF Thread
  <1>3. /\ me.op \in {"read", "part"} /\ Len(me.run) >= 1 /\ me.run[1] = me.slot /\ IsInjective(me.run)
        /\ \A i \in 1..Len(me.run) : bufs[me.run[i]].dev = t /\ bufs[me.run[i]].blk = me.blk + i - 1 /\ ~bufs[me.run[i]].valid
    BY <1>1 DEF RunsOK
  <1>4. me.run # <<>> /\ Head(me.run) = me.slot /\ me.slot \in R
    <2>1. 1 \in DOMAIN me.run
      BY <1>2, <1>3
    <2>2. me.slot \in R
      BY <1>3, <2>1 DEF Range
    <2>3. me.run # <<>>
      BY <1>2, <2>2, RangeIn
    <2> QED
      BY <1>2, <1>3, <2>2, <2>3
  <1>5. me.blk \in Blocks /\ bufs[me.slot].blk = me.blk /\ bufs[me.slot].dev = t
    BY <1>1, <1>2, <1>3 DEF CallOK
  <1>6. ASSUME NEW x \in R
        PROVE  /\ x \in BcSlots /\ bufs[x].dev = t /\ bufs[x].busy /\ ~bufs[x].valid /\ ~bufs[x].dirty
               /\ bufs[x].blk \in Blocks /\ disk[t][bufs[x].blk] = latest[t][bufs[x].blk]
               /\ disk[t][bufs[x].blk] \in Data /\ (bufs[x].blk = me.blk => x = me.slot)
    <2>1. x \in BcSlots /\ bufs[x].dev = t /\ ~bufs[x].valid
      BY <1>2, <1>3 DEF Range
    <2>2. bufs[x].busy
      BY <1>0, <1>1, <2>1 DEF BusyOK
    <2>3. ~bufs[x].dirty /\ bufs[x].blk \in Blocks
      BY <1>0, <1>1, <2>1 DEF BufsOK
    <2>4. \A y \in BcSlots : bufs[y].dev = t /\ bufs[y].blk = bufs[x].blk => y = x
      BY <1>0, <1>1, <2>1 DEF BufsOK
    <2>5. \A y \in BcSlots : ~(bufs[y].dev = t /\ bufs[y].blk = bufs[x].blk /\ bufs[y].valid)
      BY <2>1, <2>4
    <2>6. disk[t][bufs[x].blk] = latest[t][bufs[x].blk]
      BY <1>1, <2>3, <2>5, UncachedOnDisk
    <2>7. disk[t][bufs[x].blk] \in Data
      BY <1>1, <2>3 DEF Store
    <2>8. bufs[x].blk = me.blk => x = me.slot
      BY <1>2, <1>4, <1>5, <2>4
    <2> QED
      BY <2>1, <2>2, <2>3, <2>6, <2>7, <2>8
  <1> QED
    BY <1>2, <1>3, <1>4, <1>5, <1>6

LEMMA FilledBufs ==
  ASSUME BcInv, NEW t \in Devs, NEW ok \in BOOLEAN, bread(t, ok)
  PROVE  LET me == th[t]  R == Range(me.run)  part == ok /\ me.op = "part"  old == disk[t][me.blk] IN
           /\ bufs' \in [BcSlots -> Buf]
           /\ \A x \in BcSlots :
                /\ bufs'[x].dev = bufs[x].dev /\ bufs'[x].blk = bufs[x].blk
                /\ bufs'[x].busy <=> (bufs[x].busy /\ x \notin R)
                /\ x \notin R => bufs'[x] = bufs[x]
                /\ x \in R => (bufs'[x].valid <=> ok) /\ (bufs'[x].dirty <=> part /\ x = me.slot)
                /\ x \in R /\ ok /\ ~(part /\ x = me.slot) => bufs'[x].data = disk[t][bufs[x].blk]
           /\ part => bufs'[me.slot].data = Half(old, "part", me.val)
           /\ latest' = (IF part THEN [latest EXCEPT ![t][me.blk] = Half(old, "part", me.val)] ELSE latest)
           /\ \E r : /\ r = [me EXCEPT !.run = <<>>, !.slot = 0, !.pc = IF ~ok THEN "failed" ELSE IF me.op = "part" THEN "written" ELSE "done",
                                       !.res = IF ok /\ me.op = "read" THEN [x \in {me.blk} |-> old] ELSE <<>>]
                     /\ th' = Wakeup([th EXCEPT ![t] = r], me.run)
  <1> DEFINE me == th[t]  R == Range(me.run)  part == ok /\ me.op = "part"  old == disk[t][me.blk]  s == me.slot
  <1> DEFINE F(x) == [bufs[x] EXCEPT !.data = disk[t][bufs[x].blk], !.valid = TRUE]
  <1> DEFINE B == [x \in BcSlots |-> IF x \in R /\ ok THEN F(x) ELSE bufs[x]]
  <1> DEFINE Changed == [B[s] EXCEPT !.data = Half(B[s].data, "part", me.val), !.dirty = TRUE]
  <1> DEFINE C == IF part THEN [B EXCEPT ![s] = Changed] ELSE B
  <1> DEFINE r == [me EXCEPT !.run = <<>>, !.slot = 0, !.pc = IF ~ok THEN "failed" ELSE IF me.op = "part" THEN "written" ELSE "done",
                             !.res = IF ok /\ me.op = "read" THEN [x \in {me.blk} |-> B[s].data] ELSE <<>>]
  <1>0. t \in BcThreads
    BY BlocksNat
  <1>1. /\ me.pc = "fill" /\ bufs' = buf_release(C, me.run)
        /\ latest' = IF part THEN [latest EXCEPT ![t][me.blk] = C[s].data] ELSE latest
        /\ th' = Wakeup([th EXCEPT ![t] = r], me.run)
    BY DEF bread
  <1>2. /\ me \in Thread /\ bufs \in [BcSlots -> Buf] /\ me.val \in Nat
    BY <1>0, ThreadFacts DEF BufsOK, Thread
  <1>3. /\ s \in R /\ s \in BcSlots /\ bufs[s].blk = me.blk
        /\ \A x \in R : /\ x \in BcSlots /\ bufs[x].dev = t /\ bufs[x].busy /\ ~bufs[x].valid /\ ~bufs[x].dirty /\ disk[t][bufs[x].blk] \in Data
    BY <1>1, FillFacts
  <1>4. ASSUME NEW x \in R
        PROVE  /\ F(x) \in Buf /\ F(x).dev = bufs[x].dev /\ F(x).blk = bufs[x].blk /\ F(x).busy = bufs[x].busy
               /\ F(x).dirty = bufs[x].dirty /\ F(x).valid /\ F(x).data = disk[t][bufs[x].blk]
    <2>1. bufs[x] \in Buf /\ disk[t][bufs[x].blk] \in Data
      BY <1>2, <1>3
    <2> QED
      BY <2>1 DEF Buf
  <1> HIDE DEF F
  <1>5. B \in [BcSlots -> Buf] /\ \A x \in BcSlots : B[x] = IF x \in R /\ ok THEN F(x) ELSE bufs[x]
    BY <1>2, <1>4
  <1> HIDE DEF B
  <1>6. ASSUME part
        PROVE  /\ Changed \in Buf /\ Changed.dev = bufs[s].dev /\ Changed.blk = bufs[s].blk /\ Changed.busy = bufs[s].busy
               /\ Changed.dirty /\ Changed.valid /\ Changed.data = Half(old, "part", me.val)
    <2>1. B[s] = F(s) /\ F(s) \in Buf /\ F(s).data = old /\ F(s).valid /\ old \in Data
      BY <1>3, <1>4, <1>5, <1>6
    <2>2. Half(old, "part", me.val) \in Data
      BY <1>2, <2>1, HalfData DEF BcOps
    <2>3. Changed = [F(s) EXCEPT !.data = Half(old, "part", me.val), !.dirty = TRUE]
      BY <2>1
    <2>4. F(s).dev = bufs[s].dev /\ F(s).blk = bufs[s].blk /\ F(s).busy = bufs[s].busy
      BY <1>3, <1>4
    <2> HIDE DEF Changed
    <2> QED
      BY <2>1, <2>2, <2>3, <2>4 DEF Buf
  <1> HIDE DEF Changed
  <1>7. /\ C \in [BcSlots -> Buf]
        /\ \A x \in BcSlots : C[x] = IF part /\ x = s THEN Changed ELSE IF x \in R /\ ok THEN F(x) ELSE bufs[x]
    <2>1. CASE part
      BY <2>1, <1>3, <1>5, <1>6
    <2>2. CASE ~part
      BY <2>2, <1>5
    <2> QED
      BY <2>1, <2>2
  <1>8. r = [me EXCEPT !.run = <<>>, !.slot = 0, !.pc = IF ~ok THEN "failed" ELSE IF me.op = "part" THEN "written" ELSE "done",
                       !.res = IF ok /\ me.op = "read" THEN [x \in {me.blk} |-> old] ELSE <<>>]
    <2>1. ok => B[s].data = old
      BY <1>3, <1>4, <1>5
    <2>2. CASE ok
      BY <2>1, <2>2
    <2>3. CASE ~ok
      BY <2>3
    <2> QED
      BY <2>2, <2>3
  <1> HIDE DEF C, r
  <1>9. /\ bufs' \in [BcSlots -> Buf]
        /\ \A x \in BcSlots :
             /\ bufs'[x].dev = C[x].dev /\ bufs'[x].blk = C[x].blk /\ bufs'[x].valid = C[x].valid
             /\ bufs'[x].dirty = C[x].dirty /\ bufs'[x].data = C[x].data
             /\ bufs'[x].busy <=> (C[x].busy /\ x \notin R)
             /\ x \notin R => bufs'[x] = C[x]
    BY <1>1, <1>7, ReleaseFacts
  <1>10. ASSUME NEW x \in BcSlots
         PROVE  /\ bufs'[x].dev = bufs[x].dev /\ bufs'[x].blk = bufs[x].blk
                /\ bufs'[x].busy <=> (bufs[x].busy /\ x \notin R)
                /\ x \notin R => bufs'[x] = bufs[x]
                /\ x \in R => (bufs'[x].valid <=> ok) /\ (bufs'[x].dirty <=> part /\ x = s)
                /\ x \in R /\ ok /\ ~(part /\ x = s) => bufs'[x].data = disk[t][bufs[x].blk]
    <2>1. CASE x \notin R
      BY <1>3, <1>7, <1>9, <2>1
    <2>2. CASE x \in R /\ part /\ x = s
      BY <1>3, <1>6, <1>7, <1>9, <2>2
    <2>3. CASE x \in R /\ ~(part /\ x = s) /\ ok
      <3>1. C[x] = F(x)
        BY <1>7, <2>3
      <3> QED
        BY <1>3, <1>4, <1>9, <2>3, <3>1
    <2>4. CASE x \in R /\ ~ok
      <3>1. C[x] = bufs[x]
        BY <1>7, <2>4
      <3> QED
        BY <1>3, <1>9, <2>4, <3>1
    <2> QED
      BY <2>1, <2>2, <2>3, <2>4
  <1>11. part => bufs'[s].data = Half(old, "part", me.val) /\ C[s].data = Half(old, "part", me.val)
    BY <1>3, <1>6, <1>7, <1>9
  <1>12. latest' = IF part THEN [latest EXCEPT ![t][me.blk] = Half(old, "part", me.val)] ELSE latest
    BY <1>1, <1>11
  <1> QED
    BY <1>1, <1>8, <1>9, <1>10, <1>11, <1>12

LEMMA breadStep == ASSUME BcInv, NEW t \in Devs, NEW ok \in BOOLEAN, bread(t, ok)  PROVE BcInv'
  <1> DEFINE me == th[t]  R == Range(me.run)  part == ok /\ me.op = "part"  old == disk[t][me.blk]  s == me.slot
  <1> DEFINE new == Half(old, "part", me.val)
  <1> DEFINE res == IF ok /\ me.op = "read" THEN [x \in {me.blk} |-> old] ELSE <<>>
  <1> DEFINE pc == IF ~ok THEN "failed" ELSE IF me.op = "part" THEN "written" ELSE "done"
  <1> DEFINE out == Append(Tail(me.run), s)
  <1>0. t \in BcThreads /\ t # 0
    BY BlocksNat
  <1>1. /\ me.pc = "fill" /\ Answer(ok) /\ disk' = disk
        /\ nextSeq' = [nextSeq EXCEPT ![t] = me.blk + Len(me.run)] /\ lru' = lru \o out
    BY DEF bread
  <1>2. /\ th \in [BcThreads -> Thread] /\ me \in Thread /\ BufsOK(bufs) /\ LruOK(bufs, lru) /\ BusyOK(bufs, th)
        /\ DataOK(bufs, disk, latest) /\ CallOK(me) /\ disk \in Store /\ latest \in Store /\ nextSeq \in [Devs -> Int]
    BY <1>0, ThreadFacts DEF BufsOK
  <1>3. /\ me.run \in Seq(BcSlots) /\ IsInjective(me.run) /\ me.run # <<>> /\ Head(me.run) = s /\ s \in R /\ s \in BcSlots
        /\ me.op \in {"read", "part"} /\ me.blk \in Blocks /\ bufs[s].blk = me.blk
        /\ \A x \in R : /\ x \in BcSlots /\ bufs[x].dev = t /\ bufs[x].busy /\ ~bufs[x].valid /\ ~bufs[x].dirty
                        /\ bufs[x].blk \in Blocks /\ disk[t][bufs[x].blk] = latest[t][bufs[x].blk]
                        /\ disk[t][bufs[x].blk] \in Data /\ (bufs[x].blk = me.blk => x = s)
    BY <1>1, FillFacts
  <1>4. /\ bufs' \in [BcSlots -> Buf]
        /\ \A x \in BcSlots :
             /\ bufs'[x].dev = bufs[x].dev /\ bufs'[x].blk = bufs[x].blk
             /\ bufs'[x].busy <=> (bufs[x].busy /\ x \notin R)
             /\ x \notin R => bufs'[x] = bufs[x]
             /\ x \in R => (bufs'[x].valid <=> ok) /\ (bufs'[x].dirty <=> part /\ x = s)
             /\ x \in R /\ ok /\ ~(part /\ x = s) => bufs'[x].data = disk[t][bufs[x].blk]
        /\ part => bufs'[s].data = new
        /\ latest' = (IF part THEN [latest EXCEPT ![t][me.blk] = new] ELSE latest)
    BY FilledBufs
  <1> DEFINE r == [me EXCEPT !.run = <<>>, !.slot = 0, !.pc = pc, !.res = res]
  <1>5. th' = Wakeup([th EXCEPT ![t] = r], me.run)
    BY FilledBufs
  <1>6. /\ old \in Data /\ old = latest[t][me.blk] /\ new \in Data /\ me.val \in Nat /\ me.blk \in Nat
    <2>1. old \in Data /\ old = latest[t][me.blk] /\ me.val \in Nat /\ me.blk \in Nat
      BY <1>2, <1>3 DEF Thread
    <2> QED
      BY <2>1, HalfData DEF BcOps
  <1>7. /\ pc \in {"failed", "written", "done"} /\ pc \in BcPcs /\ (pc = "written" => me.op = "part") /\ (pc = "done" => ok /\ me.op = "read")
    BY <1>3 DEF BcPcs
  <1>8. res \in Res /\ (pc = "done" => DOMAIN res = {me.blk} /\ res[me.blk] = old)
    <2>1. CASE ok /\ me.op = "read"
      <3>1. res = [x \in {me.blk} |-> old]
        BY <2>1
      <3>2. res \in [{me.blk} -> Data] /\ {me.blk} \in SUBSET Nat
        BY <3>1, <1>6
      <3> QED
        BY <3>1, <3>2 DEF Res
    <2>2. CASE ~(ok /\ me.op = "read")
      <3>1. res = <<>>
        BY <2>2
      <3> QED
        BY <1>7, <2>2, <3>1, EmptyLists
    <2> QED
      BY <2>1, <2>2
  <1> HIDE DEF pc, res, new
  <1>9. r \in Thread /\ r.pc = pc /\ r.run = <<>> /\ r.slot = 0 /\ r.op = me.op /\ r.blk = me.blk /\ r.res = res
    BY <1>2, <1>7, <1>8, EmptyLists DEF Thread
  <1> HIDE DEF r
  <1>10. /\ th' \in [BcThreads -> Thread] /\ Same(r, th'[t]) /\ th'[t].pc = r.pc /\ th'[t].gone = r.gone
         /\ \A u \in BcThreads : u # t => /\ Carried(th[u], th'[u]) /\ th'[u].run = th[u].run /\ th'[u].gone = th[u].gone
                                          /\ th'[u].pc = "wait" /\ me.run # <<>> => th[u].pc = "wait" /\ th[u].slot \notin R \cup {0}
    <2> DEFINE U == [th EXCEPT ![t] = r]
    <2>1. r.pc # "wait"
      BY <1>7, <1>9
    <2>2. U \in [BcThreads -> Thread] /\ U[t] = r /\ (\A u \in BcThreads : u # t => U[u] = th[u]) /\ th' = Wakeup(U, me.run)
      BY <1>0, <1>2, <1>5, <1>9
    <2> HIDE DEF U
    <2> QED
      BY <1>0, <1>2, <2>1, <2>2, GivesBack
  <1>11. out \in Seq(BcSlots) /\ IsInjective(out) /\ Range(out) = R
    <2> DEFINE rest == Tail(me.run)
    <2>1. rest \in Seq(BcSlots) /\ Range(rest) = R \ {s} /\ IsInjective(rest)
      BY <1>3, TailProperties
    <2> HIDE DEF rest
    <2>2. out = Append(rest, s) /\ s \notin Range(rest)
      BY <2>1 DEF rest
    <2> HIDE DEF out
    <2>3. out \in Seq(BcSlots) /\ Range(out) = Range(rest) \cup {s} /\ IsInjective(out)
      BY <1>3, <2>1, <2>2, AppendedProperties
    <2> QED
      BY <1>3, <2>1, <2>3
  <1> HIDE DEF out
  <1>12. BufsOK(bufs')
    <2>1. \A x \in BcSlots : /\ bufs'[x].dev = bufs[x].dev /\ bufs'[x].blk = bufs[x].blk /\ (bufs'[x].dirty => bufs'[x].valid)
                             /\ (bufs[x].dev = 0 => bufs'[x] = bufs[x])
      BY <1>0, <1>2, <1>3, <1>4 DEF BufsOK
    <2> QED
      BY <1>2, <1>4, <2>1, SameBlocks
  <1>13. LruOK(bufs', lru')
    <2>1. \A x \in Range(out) : bufs[x].busy
      BY <1>3, <1>11
    <2>2. \A x \in BcSlots : (bufs'[x].dev # 0 /\ ~bufs'[x].busy) <=> (bufs[x].dev # 0 /\ ~bufs[x].busy) \/ x \in Range(out)
      BY <1>0, <1>3, <1>4, <1>11
    <2> QED
      BY <1>1, <1>2, <1>11, <2>1, <2>2, ReleasedLru
  <1>14. BusyOK(bufs', th')
    <2>1. th'[t].run = <<>> /\ \A u \in BcThreads : u # t => th'[u].run = th[u].run
      BY <1>9, <1>10 DEF Same
    <2>2. \A x \in BcSlots : bufs'[x].busy <=> (bufs[x].busy /\ x \notin Range(th[t].run))
      BY <1>4
    <2> QED
      BY <1>0, <1>2, <1>10, <2>1, <2>2, RunOver
  <1>15. /\ latest' \in Store /\ (part => latest'[t][me.blk] = new)
         /\ \A e \in Devs : e # t => latest'[e] = latest[e]
         /\ \A e \in Devs, b \in Blocks : ~(part /\ e = t /\ b = me.blk) => latest'[e][b] = latest[e][b]
    <2>1. CASE part
      <3> DEFINE row == [latest[t] EXCEPT ![me.blk] = new]
      <3>1. latest' = [latest EXCEPT ![t] = row]
        BY <1>4, <2>1
      <3>2. latest[t] \in [Blocks -> Data]
        BY <1>2 DEF Store
      <3>3. row \in [Blocks -> Data] /\ row[me.blk] = new /\ \A b \in Blocks : b # me.blk => row[b] = latest[t][b]
        BY <1>3, <1>6, <3>2
      <3> HIDE DEF row
      <3> QED
        BY <1>2, <2>1, <3>1, <3>3 DEF Store
    <2>2. CASE ~part
      BY <1>2, <1>4, <2>2
    <2> QED
      BY <2>1, <2>2
  <1>16. DataOK(bufs', disk', latest')
    <2>1. ASSUME NEW x \in BcSlots, bufs'[x].valid  PROVE bufs'[x].data = latest'[bufs'[x].dev][bufs'[x].blk]
      <3>0. bufs'[x].dev = bufs[x].dev /\ bufs'[x].blk = bufs[x].blk
        BY <1>4
      <3>1. CASE x \notin R
        <4>1. bufs'[x] = bufs[x] /\ bufs[x].valid
          BY <1>4, <2>1, <3>1
        <4>2. bufs[x].data = latest[bufs[x].dev][bufs[x].blk]
          BY <1>2, <4>1 DEF DataOK
        <4>3. bufs[x].dev # 0 /\ bufs[x] \in Buf
          BY <1>2, <4>1, NotHere DEF BufsOK
        <4>4. bufs[x].dev \in Devs /\ bufs[x].blk \in Blocks
          BY <1>2, <4>3 DEF BufsOK, Buf
        <4>5. ~(bufs[x].dev = t /\ bufs[x].blk = me.blk)
          BY <1>2, <1>3, <3>1, <4>3 DEF BufsOK
        <4> QED
          BY <1>15, <4>1, <4>2, <4>4, <4>5
      <3>2. CASE x \in R /\ part /\ x = s
        BY <1>3, <1>4, <1>15, <3>0, <3>2
      <3>3. CASE x \in R /\ ~(part /\ x = s)
        <4>1. ok /\ bufs'[x].data = disk[t][bufs[x].blk] /\ bufs[x].blk \in Blocks /\ bufs[x].dev = t
          BY <1>3, <1>4, <2>1, <3>3
        <4>2. disk[t][bufs[x].blk] = latest[t][bufs[x].blk] /\ ~(part /\ bufs[x].blk = me.blk)
          BY <1>3, <3>3
        <4>3. latest'[t][bufs[x].blk] = latest[t][bufs[x].blk]
          BY <1>15, <4>1, <4>2
        <4> QED
          BY <3>0, <4>1, <4>2, <4>3
      <3> QED
        BY <3>1, <3>2, <3>3
    <2>2. ASSUME NEW e \in Devs, NEW b \in Blocks, disk'[e][b] # latest'[e][b]
          PROVE  \E x \in BcSlots : bufs'[x].dev = e /\ bufs'[x].blk = b /\ bufs'[x].dirty
      <3>1. CASE part /\ e = t /\ b = me.blk
        <4>1. s \in BcSlots /\ bufs'[s].dev = e /\ bufs'[s].blk = b /\ bufs'[s].dirty
          BY <1>3, <1>4, <3>1
        <4> QED
          BY <4>1
      <3>2. CASE ~(part /\ e = t /\ b = me.blk)
        <4>1. disk[e][b] # latest[e][b]
          BY <1>1, <1>15, <2>2, <3>2
        <4>2. PICK x \in BcSlots : bufs[x].dev = e /\ bufs[x].blk = b /\ bufs[x].dirty
          BY <1>2, <4>1 DEF DataOK
        <4>3. x \notin R
          BY <1>3, <4>2
        <4> QED
          BY <1>4, <4>2, <4>3
      <3> QED
        BY <3>1, <3>2
    <2> QED
      BY <2>1, <2>2 DEF DataOK
  <1>17. ThreadOK(bufs', lru', disk', latest', t, th'[t])
    <2>1. RunsOK(bufs', t, r) /\ CallOK(r) /\ WaitOK(bufs', lru', r) /\ FlushOK(disk', latest', t, r)
      BY <1>3, <1>7, <1>9 DEF RunsOK, CallOK, WaitOK, FlushOK
    <2>2. ReadOK(bufs', latest', t, r)
      <3>1. ASSUME r.pc = "done", NEW b \in DOMAIN r.res \ r.gone  PROVE r.res[b] = latest'[t][b]
        <4>1. ok /\ me.op = "read" /\ b = me.blk /\ r.res[b] = old
          BY <1>7, <1>8, <1>9, <3>1
        <4>2. latest'[t][me.blk] = latest[t][me.blk]
          BY <1>3, <1>15, <4>1
        <4> QED
          BY <1>6, <4>1, <4>2
      <3> QED
        BY <1>7, <1>9, <3>1 DEF ReadOK
    <2>3. ThreadOK(bufs', lru', disk', latest', t, r)
      BY <2>1, <2>2 DEF ThreadOK
    <2> QED
      BY <1>0, <1>9, <1>10, <2>3, SameThread
  <1>18. ASSUME NEW u \in BcThreads, u # t  PROVE ThreadOK(bufs', lru', disk', latest', u, th'[u])
    <2>1. ThreadOK(bufs, lru, disk, latest, u, th[u]) /\ th[u] \in Thread /\ WaitOK(bufs, lru, th[u]) /\ th'[u] \in Thread
      BY <1>10, ThreadFacts
    <2>2. \A x \in Range(th[u].run) : bufs'[x] = bufs[x]
      <3> TAKE x \in Range(th[u].run)
      <3>1. x \in BcSlots /\ x \notin R
        BY <1>0, <1>2, <1>18, OtherRun
      <3> QED
        BY <1>4, <3>1
    <2>3. Carried(th[u], th'[u]) /\ (th'[u].pc = "wait" => th[u].pc = "wait" /\ th[u].slot \notin R \cup {0})
      BY <1>3, <1>10, <1>18
    <2>4. th'[u].pc = "wait" => IF th[u].slot = 0 THEN lru' = <<>> ELSE bufs'[th[u].slot].busy
      <3>1. th[u].slot \in BcSlots \cup {0}
        BY <2>1 DEF Thread
      <3> QED
        BY <1>4, <2>1, <2>3, <3>1 DEF WaitOK
    <2>5. u \in Devs => latest'[u] = latest[u] /\ (disk[u] = latest[u] => disk'[u] = latest[u])
      BY <1>1, <1>15, <1>18
    <2>6. th[u].pc = "raw" => \A x \in BcSlots : bufs[x].dev = u /\ bufs[x].valid =>
                                \/ bufs[x].blk \in th'[u].gone
                                \/ bufs'[x].dev = u /\ bufs'[x].blk = bufs[x].blk /\ bufs'[x].valid
      BY <1>3, <1>4, <1>18
    <2> QED
      BY <2>1, <2>2, <2>3, <2>4, <2>5, <2>6, OtherThread
  <1>19. /\ nextSeq' \in [Devs -> Int] /\ disk' \in Store
         /\ bcCase' \in [calls : [BcThreads -> Seq(BcCalls)], errors : Nat, vals : SUBSET Nat]
    <2>1. me.blk + Len(me.run) \in Int
      BY <1>3, <1>6
    <2>2. nextSeq' \in [Devs -> Int]
      BY <1>1, <1>2, <2>1
    <2> QED
      BY <1>1, <1>2, <2>2, AnswerType
  <1> QED
    BY <1>10, <1>12, <1>13, <1>14, <1>15, <1>16, <1>17, <1>18, <1>19, Assemble

------------------------------------------------------------------------------
(* getblk.                                                                  *)

(* Buffer s is the caller's: B are the buffers, q the list of idle ones. *)
Claimed(t, B, q, s) ==
  /\ s \in BcSlots /\ BufsOK(B) /\ LruOK(B, q) /\ DataOK(B, disk, latest)
  /\ B[s].dev = t /\ B[s].blk = th[t].blk /\ B[s].busy /\ ~bufs[s].busy
  /\ \A x \in BcSlots : x # s => B[x] = bufs[x]
  /\ B[s].valid => bufs[s].dev = t /\ bufs[s].blk = th[t].blk
  /\ lru = <<>> => q = <<>>

LEMMA SameRuns ==
  ASSUME NEW T, NEW T2, NEW B, NEW B2, BusyOK(B, T),
         \A u \in BcThreads : T2[u].run = T[u].run, \A x \in BcSlots : B2[x].busy <=> B[x].busy
  PROVE  BusyOK(B2, T2)
  BY DEF BusyOK

(* As GivesBack, and a direct read loses sight of what B no longer has. *)
LEMMA GivesBackLost ==
  ASSUME th \in [BcThreads -> Thread], BufsOK(bufs), NEW t \in BcThreads, NEW U \in [BcThreads -> Thread], NEW out, NEW B,
         \A u \in BcThreads : u # t => U[u] = th[u], U[t].pc \notin {"wait", "raw"}, th' = Lost(Wakeup(U, out), B)
  PROVE  /\ th' \in [BcThreads -> Thread] /\ Same(U[t], th'[t]) /\ th'[t].pc = U[t].pc /\ th'[t].gone = U[t].gone
         /\ \A u \in BcThreads : u # t =>
              /\ Carried(th[u], th'[u]) /\ th'[u].run = th[u].run
              /\ th'[u].pc = "wait" /\ out # <<>> => th[u].pc = "wait" /\ th[u].slot \notin Range(out) \cup {0}
              /\ th[u].pc = "raw" => \A x \in BcSlots : bufs[x].dev = u /\ (B[x].dev # u \/ B[x].blk # bufs[x].blk) => bufs[x].blk \in th'[u].gone
  <1> DEFINE W == Wakeup(U, out)
  <1>1. /\ W \in [BcThreads -> Thread]
        /\ \A u \in BcThreads :
             /\ Same(U[u], W[u]) /\ W[u].gone = U[u].gone
             /\ W[u].pc = IF U[u].pc = "wait" /\ out # <<>> /\ U[u].slot \in Range(out) \cup {0} THEN U[u].back ELSE U[u].pc
    BY WokenThread
  <1>2. th' = Lost(W, B)
    OBVIOUS
  <1> HIDE DEF W
  <1>3. /\ Lost(W, B) \in [BcThreads -> Thread]
        /\ \A u \in BcThreads :
             /\ Same(W[u], Lost(W, B)[u]) /\ Lost(W, B)[u].pc = W[u].pc /\ W[u].gone \subseteq Lost(W, B)[u].gone
             /\ W[u].pc # "raw" => Lost(W, B)[u].gone = W[u].gone
             /\ W[u].pc = "raw" => \A x \in BcSlots : bufs[x].dev = u /\ (B[x].dev # u \/ B[x].blk # bufs[x].blk) => bufs[x].blk \in Lost(W, B)[u].gone
    BY <1>1, LostThread
  <1>4. /\ th' \in [BcThreads -> Thread]
        /\ \A u \in BcThreads :
             /\ Same(W[u], th'[u]) /\ th'[u].pc = W[u].pc /\ W[u].gone \subseteq th'[u].gone
             /\ W[u].pc # "raw" => th'[u].gone = W[u].gone
             /\ W[u].pc = "raw" => \A x \in BcSlots : bufs[x].dev = u /\ (B[x].dev # u \/ B[x].blk # bufs[x].blk) => bufs[x].blk \in th'[u].gone
    BY <1>2, <1>3
  <1>5. Same(U[t], th'[t]) /\ th'[t].pc = U[t].pc /\ th'[t].gone = U[t].gone
    <2>1. W[t].pc = U[t].pc /\ W[t].pc # "raw"
      BY <1>1
    <2> QED
      BY <1>1, <1>4, <2>1 DEF Same
  <1>6. ASSUME NEW u \in BcThreads, u # t
        PROVE  /\ Carried(th[u], th'[u]) /\ th'[u].run = th[u].run
               /\ th'[u].pc = "wait" /\ out # <<>> => th[u].pc = "wait" /\ th[u].slot \notin Range(out) \cup {0}
               /\ th[u].pc = "raw" => \A x \in BcSlots : bufs[x].dev = u /\ (B[x].dev # u \/ B[x].blk # bufs[x].blk) => bufs[x].blk \in th'[u].gone
    <2>1. /\ Same(th[u], W[u]) /\ W[u].gone = th[u].gone
          /\ W[u].pc = IF th[u].pc = "wait" /\ out # <<>> /\ th[u].slot \in Range(out) \cup {0} THEN th[u].back ELSE th[u].pc
      BY <1>1, <1>6
    <2>2. th[u] \in Thread
      OBVIOUS
    <2>3. th[u].back # "wait" /\ th[u].back # "raw"
      BY <2>2 DEF Thread
    <2>4. /\ Same(W[u], th'[u]) /\ th'[u].pc = W[u].pc /\ W[u].gone \subseteq th'[u].gone
          /\ W[u].pc # "raw" => th'[u].gone = W[u].gone
          /\ W[u].pc = "raw" => \A x \in BcSlots : bufs[x].dev = u /\ (B[x].dev # u \/ B[x].blk # bufs[x].blk) => bufs[x].blk \in th'[u].gone
      BY <1>4
    <2>5. Same(th[u], th'[u])
      BY <2>1, <2>4 DEF Same
    <2>6. Carried(th[u], th'[u])
      BY <2>1, <2>3, <2>4, <2>5 DEF Carried
    <2> QED
      BY <2>1, <2>3, <2>4, <2>5, <2>6 DEF Same
  <1> QED
    BY <1>4, <1>5, <1>6

LEMMA OnlyLost ==
  ASSUME th \in [BcThreads -> Thread], BufsOK(bufs), NEW t \in BcThreads, NEW U \in [BcThreads -> Thread], NEW B,
         \A u \in BcThreads : u # t => U[u] = th[u], U[t].pc \notin {"wait", "raw"}, th' = Lost(U, B)
  PROVE  /\ th' \in [BcThreads -> Thread] /\ Same(U[t], th'[t]) /\ th'[t].pc = U[t].pc /\ th'[t].gone = U[t].gone
         /\ \A u \in BcThreads : u # t =>
              /\ Carried(th[u], th'[u]) /\ th'[u].run = th[u].run /\ th'[u].pc = th[u].pc
              /\ th[u].pc = "raw" => \A x \in BcSlots : bufs[x].dev = u /\ (B[x].dev # u \/ B[x].blk # bufs[x].blk) => bufs[x].blk \in th'[u].gone
  <1>1. /\ Lost(U, B) \in [BcThreads -> Thread]
        /\ \A u \in BcThreads :
             /\ Same(U[u], Lost(U, B)[u]) /\ Lost(U, B)[u].pc = U[u].pc /\ U[u].gone \subseteq Lost(U, B)[u].gone
             /\ U[u].pc # "raw" => Lost(U, B)[u].gone = U[u].gone
             /\ U[u].pc = "raw" => \A x \in BcSlots : bufs[x].dev = u /\ (B[x].dev # u \/ B[x].blk # bufs[x].blk) => bufs[x].blk \in Lost(U, B)[u].gone
    BY LostThread
  <1>2. /\ th' \in [BcThreads -> Thread]
        /\ \A u \in BcThreads :
             /\ Same(U[u], th'[u]) /\ th'[u].pc = U[u].pc /\ U[u].gone \subseteq th'[u].gone
             /\ U[u].pc # "raw" => th'[u].gone = U[u].gone
             /\ U[u].pc = "raw" => \A x \in BcSlots : bufs[x].dev = u /\ (B[x].dev # u \/ B[x].blk # bufs[x].blk) => bufs[x].blk \in th'[u].gone
    BY <1>1
  <1>3. \A u \in BcThreads : u # t => Carried(th[u], th'[u]) /\ th'[u].run = th[u].run
    BY <1>2 DEF Carried, Same
  <1> QED
    BY <1>2, <1>3

(* A buffer that is written at once, or read at once: it is idle again. *)
LEMMA ReadyLru ==
  ASSUME NEW B, NEW q, LruOK(B, q), NEW s \in BcSlots, B[s].busy, B[s].dev # 0, NEW B2, NEW q2, q2 = Append(q, s),
         \A x \in BcSlots : B2[x].dev = B[x].dev /\ (B2[x].busy <=> (B[x].busy /\ x # s))
  PROVE  LruOK(B2, q2)
  <1> DEFINE out == <<s>>
  <1>1. out \in Seq(BcSlots) /\ IsInjective(out) /\ Range(out) = {s}
    BY OneProperties
  <1>2. q2 = q \o out
    BY DEF LruOK
  <1> HIDE DEF out
  <1>3. \A x \in Range(out) : B[x].busy
    BY <1>1
  <1>4. \A x \in BcSlots : (B2[x].dev # 0 /\ ~B2[x].busy) <=> (B[x].dev # 0 /\ ~B[x].busy) \/ x \in Range(out)
    BY <1>1
  <1>5. LruOK(B2, q \o out)
    BY <1>1, <1>3, <1>4, ReleasedLru
  <1> QED
    BY <1>2, <1>5

(* The threads that do not take the step. *)
LEMMA ReadyOthers ==
  ASSUME BcInv, NEW t \in Devs, NEW s \in BcSlots, ~bufs[s].busy, disk' = disk,
         \A x \in BcSlots : x # s => bufs'[x] = bufs[x], bufs'[s].dev = t,
         \A e \in Devs : e # t => latest'[e] = latest[e], th' \in [BcThreads -> Thread],
         \A u \in BcThreads : u # t =>
           /\ Carried(th[u], th'[u])
           /\ th'[u].pc = "wait" => th[u].pc = "wait" /\ th[u].slot \notin {s, 0}
           /\ th[u].pc = "raw" /\ bufs[s].dev = u => bufs[s].blk \in th'[u].gone
  PROVE  \A u \in BcThreads : u # t => ThreadOK(bufs', lru', disk', latest', u, th'[u])
  <1> SUFFICES ASSUME NEW u \in BcThreads, u # t  PROVE ThreadOK(bufs', lru', disk', latest', u, th'[u])
    OBVIOUS
  <1>0. t \in BcThreads
    BY BlocksNat
  <1>1. ThreadOK(bufs, lru, disk, latest, u, th[u]) /\ th[u] \in Thread /\ WaitOK(bufs, lru, th[u]) /\ th'[u] \in Thread
        /\ BusyOK(bufs, th) /\ th \in [BcThreads -> Thread]
    BY ThreadFacts
  <1>2. \A x \in Range(th[u].run) : bufs'[x] = bufs[x]
    <2> TAKE x \in Range(th[u].run)
    <2>1. x \in BcSlots /\ bufs[x].busy
      BY <1>0, <1>1, OtherRun
    <2> QED
      BY <2>1
  <1>3. th'[u].pc = "wait" => IF th[u].slot = 0 THEN lru' = <<>> ELSE bufs'[th[u].slot].busy
    <2>1. th[u].slot \in BcSlots \cup {0}
      BY <1>1 DEF Thread
    <2> QED
      BY <1>1, <2>1 DEF WaitOK
  <1>4. u \in Devs => latest'[u] = latest[u] /\ (disk[u] = latest[u] => disk'[u] = latest[u])
    OBVIOUS
  <1>5. th[u].pc = "raw" => \A x \in BcSlots : bufs[x].dev = u /\ bufs[x].valid =>
                              \/ bufs[x].blk \in th'[u].gone
                              \/ bufs'[x].dev = u /\ bufs'[x].blk = bufs[x].blk /\ bufs'[x].valid
    OBVIOUS
  <1>6. Carried(th[u], th'[u])
    OBVIOUS
  <1> QED
    BY <1>1, <1>2, <1>3, <1>4, <1>5, <1>6, OtherThread

LEMMA WriteReady ==
  ASSUME BcInv, NEW t \in Devs, th[t].pc = "getblk", NEW B, NEW q, NEW s, Claimed(t, B, q, s),
         UNCHANGED <<disk, bcCase>>, BufReady(t, B, q, s),
         th[t].op \in {"whole", "part"} /\ (th[t].op = "whole" \/ B[s].valid)
  PROVE  BcInv'
  <1> DEFINE me == th[t]  new == Half(B[s].data, me.op, me.val)
  <1> DEFINE Changed == [B[s] EXCEPT !.data = new, !.valid = TRUE, !.dirty = TRUE]
  <1> DEFINE stored == [B EXCEPT ![s] = Changed]  r == [me EXCEPT !.pc = "written"]
  <1>0. t \in BcThreads /\ t # 0
    BY BlocksNat
  <1>1. /\ th \in [BcThreads -> Thread] /\ me \in Thread /\ BufsOK(bufs) /\ BusyOK(bufs, th) /\ RunsOK(bufs, t, me)
        /\ CallOK(me) /\ disk \in Store /\ latest \in Store /\ nextSeq \in [Devs -> Int]
        /\ bcCase \in [calls : [BcThreads -> Seq(BcCalls)], errors : Nat, vals : SUBSET Nat]
    BY <1>0, ThreadFacts
  <1>2. /\ s \in BcSlots /\ BufsOK(B) /\ LruOK(B, q) /\ DataOK(B, disk, latest) /\ B \in [BcSlots -> Buf]
        /\ B[s].dev = t /\ B[s].blk = me.blk /\ B[s].busy /\ ~bufs[s].busy
        /\ \A x \in BcSlots : x # s => B[x] = bufs[x]
    BY DEF Claimed, BufsOK
  <1>3. /\ bufs' = buf_release(stored, <<s>>) /\ lru' = Append(q, s)
        /\ latest' = [latest EXCEPT ![B[s].dev][me.blk] = stored[s].data]
        /\ th' = Lost(Wakeup([th EXCEPT ![t] = r], <<s>>), B) /\ nextSeq' = nextSeq
    BY DEF BufReady
  <1>4. new \in Data /\ me.val \in Nat /\ me.blk \in Blocks
    <2>1. B[s].data \in Data /\ me.val \in Nat /\ me.op \in BcOps
      BY <1>1, <1>2 DEF Buf, Thread
    <2> QED
      BY <1>1, <2>1, HalfData DEF CallOK
  <1> HIDE DEF new
  <1>5. Changed \in Buf /\ Changed.dev = t /\ Changed.blk = me.blk /\ Changed.valid /\ Changed.dirty /\ Changed.busy /\ Changed.data = new
    <2>1. B[s] \in Buf
      BY <1>2
    <2> QED
      BY <1>2, <1>4, <2>1 DEF Buf
  <1> HIDE DEF Changed
  <1>6. stored \in [BcSlots -> Buf] /\ stored[s] = Changed /\ \A x \in BcSlots : x # s => stored[x] = B[x]
    BY <1>2, <1>5
  <1> HIDE DEF stored
  <1>7. /\ bufs' \in [BcSlots -> Buf] /\ bufs'[s].dev = t /\ bufs'[s].blk = me.blk /\ bufs'[s].valid /\ bufs'[s].dirty
        /\ ~bufs'[s].busy /\ bufs'[s].data = new /\ \A x \in BcSlots : x # s => bufs'[x] = B[x]
    <2>1. /\ bufs' \in [BcSlots -> Buf]
          /\ \A x \in BcSlots :
               /\ bufs'[x].dev = stored[x].dev /\ bufs'[x].blk = stored[x].blk /\ bufs'[x].valid = stored[x].valid
               /\ bufs'[x].dirty = stored[x].dirty /\ bufs'[x].data = stored[x].data
               /\ bufs'[x].busy <=> (stored[x].busy /\ x \notin Range(<<s>>))
               /\ x \notin Range(<<s>>) => bufs'[x] = stored[x]
      BY <1>3, <1>6, ReleaseFacts
    <2>2. Range(<<s>>) = {s}
      BY <1>2, OneProperties
    <2> QED
      BY <1>2, <1>5, <1>6, <2>1, <2>2
  <1>8. r \in Thread /\ r.pc = "written" /\ r.op = me.op /\ r.blk = me.blk /\ r.run = me.run
    BY <1>1 DEF Thread, BcPcs
  <1> HIDE DEF r
  <1>9. /\ th' \in [BcThreads -> Thread] /\ Same(r, th'[t]) /\ th'[t].pc = r.pc /\ th'[t].gone = r.gone
        /\ \A u \in BcThreads : u # t =>
             /\ Carried(th[u], th'[u]) /\ th'[u].run = th[u].run
             /\ th'[u].pc = "wait" => th[u].pc = "wait" /\ th[u].slot \notin {s, 0}
             /\ th[u].pc = "raw" /\ bufs[s].dev = u => bufs[s].blk \in th'[u].gone
    <2> DEFINE U == [th EXCEPT ![t] = r]  out == <<s>>
    <2>1. U \in [BcThreads -> Thread] /\ U[t] = r /\ \A u \in BcThreads : u # t => U[u] = th[u]
      BY <1>0, <1>1, <1>8
    <2>2. U[t].pc \notin {"wait", "raw"}
      BY <1>8, <2>1
    <2>3. th' = Lost(Wakeup(U, out), B)
      BY <1>3
    <2>4. Range(out) = {s} /\ out # <<>>
      BY <1>2, OneProperties
    <2> HIDE DEF U, out
    <2>5. /\ th' \in [BcThreads -> Thread] /\ Same(U[t], th'[t]) /\ th'[t].pc = U[t].pc /\ th'[t].gone = U[t].gone
          /\ \A u \in BcThreads : u # t =>
               /\ Carried(th[u], th'[u]) /\ th'[u].run = th[u].run
               /\ th'[u].pc = "wait" /\ out # <<>> => th[u].pc = "wait" /\ th[u].slot \notin Range(out) \cup {0}
               /\ th[u].pc = "raw" => \A x \in BcSlots : bufs[x].dev = u /\ (B[x].dev # u \/ B[x].blk # bufs[x].blk) => bufs[x].blk \in th'[u].gone
      BY <1>0, <1>1, <2>1, <2>2, <2>3, GivesBackLost
    <2> QED
      BY <1>2, <2>1, <2>4, <2>5
  <1>10. BufsOK(bufs')
    <2>1. \A x \in BcSlots : /\ bufs'[x].dev = B[x].dev /\ bufs'[x].blk = B[x].blk /\ (bufs'[x].dirty => bufs'[x].valid)
                             /\ (B[x].dev = 0 => bufs'[x] = B[x])
      BY <1>0, <1>2, <1>7 DEF BufsOK
    <2> QED
      BY <1>2, <1>7, <2>1, SameBlocks
  <1>11. LruOK(bufs', lru')
    <2>1. \A x \in BcSlots : bufs'[x].dev = B[x].dev /\ (bufs'[x].busy <=> (B[x].busy /\ x # s))
      BY <1>2, <1>7
    <2>2. B[s].dev # 0
      BY <1>0, <1>2
    <2> QED
      BY <1>2, <1>3, <2>1, <2>2, ReadyLru
  <1>12. BusyOK(bufs', th')
    <2>1. \A u \in BcThreads : th'[u].run = th[u].run
      BY <1>8, <1>9 DEF Same
    <2>2. \A x \in BcSlots : bufs'[x].busy <=> bufs[x].busy
      BY <1>2, <1>7
    <2> QED
      BY <1>1, <2>1, <2>2, SameRuns
  <1>13. /\ latest' \in Store /\ latest'[t][me.blk] = new
         /\ \A e \in Devs : e # t => latest'[e] = latest[e]
         /\ \A e \in Devs, b \in Blocks : ~(e = t /\ b = me.blk) => latest'[e][b] = latest[e][b]
    <2> DEFINE row == [latest[t] EXCEPT ![me.blk] = new]
    <2>1. latest' = [latest EXCEPT ![t] = row]
      BY <1>2, <1>3, <1>5, <1>6
    <2>2. latest[t] \in [Blocks -> Data]
      BY <1>1 DEF Store
    <2>3. row \in [Blocks -> Data] /\ row[me.blk] = new /\ \A b \in Blocks : b # me.blk => row[b] = latest[t][b]
      BY <1>4, <2>2
    <2> HIDE DEF row
    <2> QED
      BY <1>1, <2>1, <2>3 DEF Store
  <1>14. DataOK(bufs', disk', latest')
    <2>1. ASSUME NEW x \in BcSlots, bufs'[x].valid  PROVE bufs'[x].data = latest'[bufs'[x].dev][bufs'[x].blk]
      <3>1. CASE x = s
        BY <1>7, <1>13, <3>1
      <3>2. CASE x # s
        <4>1. bufs'[x] = B[x] /\ B[x].valid
          BY <1>7, <2>1, <3>2
        <4>2. B[x].data = latest[B[x].dev][B[x].blk]
          BY <1>2, <4>1 DEF DataOK
        <4>3. B[x].dev # 0 /\ B[x] \in Buf
          BY <1>2, <4>1, NotHere
        <4>4. B[x].dev \in Devs /\ B[x].blk \in Blocks
          BY <1>2, <4>3 DEF BufsOK, Buf
        <4>5. ~(B[x].dev = t /\ B[x].blk = me.blk)
          BY <1>2, <3>2, <4>3 DEF BufsOK
        <4> QED
          BY <1>13, <4>1, <4>2, <4>4, <4>5
      <3> QED
        BY <3>1, <3>2
    <2>2. ASSUME NEW e \in Devs, NEW b \in Blocks, disk'[e][b] # latest'[e][b]
          PROVE  \E x \in BcSlots : bufs'[x].dev = e /\ bufs'[x].blk = b /\ bufs'[x].dirty
      <3>1. CASE e = t /\ b = me.blk
        BY <1>2, <1>7, <3>1
      <3>2. CASE ~(e = t /\ b = me.blk)
        <4>1. disk[e][b] # latest[e][b]
          BY <1>13, <2>2, <3>2
        <4>2. PICK x \in BcSlots : B[x].dev = e /\ B[x].blk = b /\ B[x].dirty
          BY <1>2, <4>1 DEF DataOK
        <4>3. x # s
          BY <1>2, <3>2, <4>2
        <4> QED
          BY <1>7, <4>2, <4>3
      <3> QED
        BY <3>1, <3>2
    <2> QED
      BY <2>1, <2>2 DEF DataOK
  <1>15. ThreadOK(bufs', lru', disk', latest', t, th'[t])
    <2>1. RunsOK(bufs', t, r) /\ CallOK(r) /\ WaitOK(bufs', lru', r) /\ FlushOK(disk', latest', t, r) /\ ReadOK(bufs', latest', t, r)
      BY <1>1, <1>4, <1>8 DEF RunsOK, CallOK, WaitOK, FlushOK, ReadOK
    <2>2. ThreadOK(bufs', lru', disk', latest', t, r)
      BY <2>1 DEF ThreadOK
    <2> QED
      BY <1>0, <1>8, <1>9, <2>2, SameThread
  <1>16. \A u \in BcThreads : u # t => ThreadOK(bufs', lru', disk', latest', u, th'[u])
    <2>1. \A x \in BcSlots : x # s => bufs'[x] = bufs[x]
      BY <1>2, <1>7
    <2> QED
      BY <1>2, <1>7, <1>9, <1>13, <2>1, ReadyOthers
  <1>17. \A u \in BcThreads : ThreadOK(bufs', lru', disk', latest', u, th'[u])
    BY <1>15, <1>16
  <1>18. /\ nextSeq' \in [Devs -> Int] /\ disk' \in Store
         /\ bcCase' \in [calls : [BcThreads -> Seq(BcCalls)], errors : Nat, vals : SUBSET Nat]
    BY <1>1, <1>3
  <1> QED
    BY <1>9, <1>10, <1>11, <1>12, <1>13, <1>14, <1>17, <1>18, Assemble

LEMMA ReadReady ==
  ASSUME BcInv, NEW t \in Devs, th[t].pc = "getblk", NEW B, NEW q, NEW s, Claimed(t, B, q, s),
         UNCHANGED <<disk, bcCase>>, BufReady(t, B, q, s),
         ~(th[t].op \in {"whole", "part"} /\ (th[t].op = "whole" \/ B[s].valid)), B[s].valid
  PROVE  BcInv'
  <1> DEFINE me == th[t]  res == [b \in {me.blk} |-> B[s].data]
  <1> DEFINE r == [me EXCEPT !.pc = "done", !.res = res]
  <1>0. t \in BcThreads /\ t # 0
    BY BlocksNat
  <1>1. /\ th \in [BcThreads -> Thread] /\ me \in Thread /\ BufsOK(bufs) /\ BusyOK(bufs, th) /\ RunsOK(bufs, t, me)
        /\ CallOK(me) /\ disk \in Store /\ latest \in Store /\ nextSeq \in [Devs -> Int]
        /\ bcCase \in [calls : [BcThreads -> Seq(BcCalls)], errors : Nat, vals : SUBSET Nat]
    BY <1>0, ThreadFacts
  <1>2. /\ s \in BcSlots /\ BufsOK(B) /\ LruOK(B, q) /\ DataOK(B, disk, latest) /\ B \in [BcSlots -> Buf]
        /\ B[s].dev = t /\ B[s].blk = me.blk /\ B[s].busy /\ ~bufs[s].busy /\ bufs[s].dev = t
        /\ \A x \in BcSlots : x # s => B[x] = bufs[x]
    BY DEF Claimed, BufsOK
  <1>3. /\ bufs' = buf_release(B, <<s>>) /\ lru' = Append(q, s)
        /\ th' = Wakeup([th EXCEPT ![t] = r], <<s>>) /\ nextSeq' = nextSeq /\ latest' = latest
    BY DEF BufReady
  <1>4. res \in Res /\ DOMAIN res = {me.blk} /\ res[me.blk] = B[s].data
    <2>1. B[s].data \in Data /\ me.blk \in Nat
      BY <1>1, <1>2 DEF Buf, Thread
    <2>2. res \in [{me.blk} -> Data] /\ {me.blk} \in SUBSET Nat
      BY <2>1
    <2> QED
      BY <2>2 DEF Res
  <1> HIDE DEF res
  <1>5. B[s].data = latest[t][me.blk]
    BY <1>2 DEF DataOK
  <1>7. /\ bufs' \in [BcSlots -> Buf]
        /\ \A x \in BcSlots :
             /\ bufs'[x].dev = B[x].dev /\ bufs'[x].blk = B[x].blk /\ bufs'[x].valid = B[x].valid
             /\ bufs'[x].dirty = B[x].dirty /\ bufs'[x].data = B[x].data
             /\ bufs'[x].busy <=> (B[x].busy /\ x # s)
             /\ x # s => bufs'[x] = B[x]
    <2>1. /\ bufs' \in [BcSlots -> Buf]
          /\ \A x \in BcSlots :
               /\ bufs'[x].dev = B[x].dev /\ bufs'[x].blk = B[x].blk /\ bufs'[x].valid = B[x].valid
               /\ bufs'[x].dirty = B[x].dirty /\ bufs'[x].data = B[x].data
               /\ bufs'[x].busy <=> (B[x].busy /\ x \notin Range(<<s>>))
               /\ x \notin Range(<<s>>) => bufs'[x] = B[x]
      BY <1>2, <1>3, ReleaseFacts
    <2>2. Range(<<s>>) = {s}
      BY <1>2, OneProperties
    <2> QED
      BY <2>1, <2>2
  <1>8. r \in Thread /\ r.pc = "done" /\ r.op = me.op /\ r.blk = me.blk /\ r.run = me.run /\ r.res = res
    BY <1>1, <1>4 DEF Thread, BcPcs
  <1> HIDE DEF r
  <1>9. /\ th' \in [BcThreads -> Thread] /\ Same(r, th'[t]) /\ th'[t].pc = r.pc /\ th'[t].gone = r.gone
        /\ \A u \in BcThreads : u # t =>
             /\ Carried(th[u], th'[u]) /\ th'[u].run = th[u].run
             /\ th'[u].pc = "wait" => th[u].pc = "wait" /\ th[u].slot \notin {s, 0}
             /\ th[u].pc = "raw" /\ bufs[s].dev = u => bufs[s].blk \in th'[u].gone
    <2> DEFINE U == [th EXCEPT ![t] = r]  out == <<s>>
    <2>1. U \in [BcThreads -> Thread] /\ U[t] = r /\ \A u \in BcThreads : u # t => U[u] = th[u]
      BY <1>0, <1>1, <1>8
    <2>2. U[t].pc # "wait"
      BY <1>8, <2>1
    <2>3. th' = Wakeup(U, out)
      BY <1>3
    <2>4. Range(out) = {s} /\ out # <<>>
      BY <1>2, OneProperties
    <2> HIDE DEF U, out
    <2>5. /\ th' \in [BcThreads -> Thread] /\ Same(U[t], th'[t]) /\ th'[t].pc = U[t].pc /\ th'[t].gone = U[t].gone
          /\ \A u \in BcThreads : u # t =>
               /\ Carried(th[u], th'[u]) /\ th'[u].run = th[u].run
               /\ th'[u].pc = "wait" /\ out # <<>> => th[u].pc = "wait" /\ th[u].slot \notin Range(out) \cup {0}
      BY <1>0, <1>1, <2>1, <2>2, <2>3, GivesBack
    <2> QED
      BY <1>2, <2>1, <2>4, <2>5
  <1>10. BufsOK(bufs')
    <2>1. \A x \in BcSlots : /\ bufs'[x].dev = B[x].dev /\ bufs'[x].blk = B[x].blk /\ (bufs'[x].dirty => bufs'[x].valid)
                             /\ (B[x].dev = 0 => bufs'[x] = B[x])
      BY <1>0, <1>2, <1>7 DEF BufsOK
    <2> QED
      BY <1>2, <1>7, <2>1, SameBlocks
  <1>11. LruOK(bufs', lru')
    <2>1. \A x \in BcSlots : bufs'[x].dev = B[x].dev /\ (bufs'[x].busy <=> (B[x].busy /\ x # s))
      BY <1>7
    <2>2. B[s].dev # 0
      BY <1>0, <1>2
    <2> QED
      <3>1. LruOK(B, q) /\ s \in BcSlots /\ B[s].busy /\ lru' = Append(q, s)
        BY <1>2, <1>3
      <3> QED
        BY <2>1, <2>2, <3>1, ReadyLru
  <1>12. BusyOK(bufs', th')
    <2>1. \A u \in BcThreads : th'[u].run = th[u].run
      BY <1>8, <1>9 DEF Same
    <2>2. \A x \in BcSlots : bufs'[x].busy <=> bufs[x].busy
      BY <1>2, <1>7
    <2> QED
      BY <1>1, <2>1, <2>2, SameRuns
  <1>14. DataOK(bufs', disk', latest')
    BY <1>2, <1>3, <1>7 DEF DataOK
  <1>15. ThreadOK(bufs', lru', disk', latest', t, th'[t])
    <2>1. RunsOK(bufs', t, r) /\ CallOK(r) /\ WaitOK(bufs', lru', r) /\ FlushOK(disk', latest', t, r)
      BY <1>1, <1>8 DEF RunsOK, CallOK, WaitOK, FlushOK
    <2>2. ReadOK(bufs', latest', t, r)
      BY <1>3, <1>4, <1>5, <1>8 DEF ReadOK
    <2>3. ThreadOK(bufs', lru', disk', latest', t, r)
      BY <2>1, <2>2 DEF ThreadOK
    <2> QED
      BY <1>0, <1>8, <1>9, <2>3, SameThread
  <1>16. \A u \in BcThreads : u # t => ThreadOK(bufs', lru', disk', latest', u, th'[u])
    <2>1. \A x \in BcSlots : x # s => bufs'[x] = bufs[x]
      BY <1>2, <1>7
    <2>2. bufs'[s].dev = t /\ \A e \in Devs : e # t => latest'[e] = latest[e]
      BY <1>2, <1>3, <1>7
    <2> QED
      BY <1>2, <1>9, <2>1, <2>2, ReadyOthers
  <1>17. \A u \in BcThreads : ThreadOK(bufs', lru', disk', latest', u, th'[u])
    BY <1>15, <1>16
  <1>18. /\ nextSeq' \in [Devs -> Int] /\ disk' \in Store /\ latest' \in Store
         /\ bcCase' \in [calls : [BcThreads -> Seq(BcCalls)], errors : Nat, vals : SUBSET Nat]
    BY <1>1, <1>3
  <1> QED
    BY <1>9, <1>10, <1>11, <1>12, <1>14, <1>17, <1>18, Assemble

(* The buffers a read takes along: their blocks follow the first and are    *)
(* not in the cache; what was in them is clean.                             *)
LEMMA RunAhead ==
  ASSUME BcInv, NEW t \in Devs, th[t].pc = "getblk", NEW B, NEW q, NEW s, Claimed(t, B, q, s),
         NEW n \in 0..Len(Spare(B, q)), \A k \in 1..n : ReadsAhead(t, th[t].blk, Len(Spare(B, q)), k),
         NEW run, run = [i \in 1..(n + 1) |-> IF i = 1 THEN s ELSE Spare(B, q)[i - 1]]
  PROVE  /\ run \in Seq(BcSlots) /\ IsInjective(run) /\ Len(run) = n + 1 /\ run[1] = s /\ n \in Nat
         /\ \A i \in 2..(n + 1) : /\ run[i] \in BcSlots /\ run[i] # s /\ th[t].blk + i - 1 \in Blocks
                                  /\ \A x \in BcSlots : ~(bufs[x].dev = t /\ bufs[x].blk = th[t].blk + i - 1)
                                  /\ B[run[i]].dev = 0 \/ (run[i] \in Range(q) /\ ~B[run[i]].dirty)
                                  /\ ~B[run[i]].busy /\ ~B[run[i]].dirty
  <1> DEFINE spare == Spare(B, q)
  <1>1. /\ s \in BcSlots /\ BufsOK(B) /\ LruOK(B, q) /\ B[s].dev = t /\ B[s].busy /\ t # 0
    BY BlocksNat DEF Claimed
  <1>2. /\ spare \in Seq(BcSlots) /\ IsInjective(spare)
        /\ \A x \in Range(spare) : x \in BcSlots /\ (B[x].dev = 0 \/ (x \in Range(q) /\ ~B[x].dirty))
    BY <1>1, SpareProperties
  <1>3. n \in Nat /\ run = [i \in 1..(n + 1) |-> IF i = 1 THEN s ELSE spare[i - 1]] /\ n <= Len(spare) /\ Len(spare) \in Nat
    BY <1>2
  <1> HIDE DEF spare
  <1>4. ASSUME NEW i \in 1..n
        PROVE  spare[i] \in Range(spare) /\ spare[i] \in BcSlots /\ spare[i] # s /\ ~B[spare[i]].busy /\ ~B[spare[i]].dirty
    <2>1. spare[i] \in Range(spare)
      BY <1>2, <1>3 DEF Range
    <2>2. spare[i] \in BcSlots /\ (B[spare[i]].dev = 0 \/ (spare[i] \in Range(q) /\ ~B[spare[i]].dirty))
      BY <1>2, <2>1
    <2>3. ~B[spare[i]].busy /\ ~B[spare[i]].dirty
      BY <1>1, <2>2, NotHere DEF LruOK
    <2> QED
      BY <1>1, <2>1, <2>2, <2>3
  <1>5. ASSUME NEW i \in 2..(n + 1)
        PROVE  i - 1 \in 1..n /\ i \in 1..(n + 1) /\ run[i] = spare[i - 1]
    <2>1. i - 1 \in 1..n /\ i \in 1..(n + 1) /\ i # 1
      BY <1>3
    <2>2. run[i] = IF i = 1 THEN s ELSE spare[i - 1]
      BY <1>3, <2>1
    <2> QED
      BY <2>1, <2>2
  <1>6. run[1] = s
    BY <1>3
  <1>7. run \in [1..(n + 1) -> BcSlots]
    <2>1. ASSUME NEW i \in 1..(n + 1)  PROVE run[i] \in BcSlots
      <3>1. CASE i = 1
        BY <1>1, <1>6, <3>1
      <3>2. CASE i # 1
        <4>1. i \in 2..(n + 1)
          BY <1>3, <3>2
        <4> QED
          BY <1>4, <1>5, <4>1
      <3> QED
        BY <3>1, <3>2
    <2> QED
      BY ONLY <1>3, <2>1
  <1>8. run \in Seq(BcSlots) /\ Len(run) = n + 1 /\ DOMAIN run = 1..(n + 1)
    <2>1. n + 1 \in Nat
      BY ONLY <1>3
    <2> QED
      BY ONLY <1>7, <2>1
  <1>9. IsInjective(run)
    <2>1. \A i \in 2..(n + 1) : run[i] # s
      BY <1>4, <1>5
    <2>2. \A i, j \in 2..(n + 1) : run[i] = run[j] => i = j
      <3> TAKE i, j \in 2..(n + 1)
      <3>1. i - 1 \in DOMAIN spare /\ j - 1 \in DOMAIN spare /\ run[i] = spare[i - 1] /\ run[j] = spare[j - 1]
        <4>1. DOMAIN spare = 1..Len(spare)
          BY <1>2, RangeIn
        <4>2. i - 1 \in 1..n /\ j - 1 \in 1..n /\ run[i] = spare[i - 1] /\ run[j] = spare[j - 1]
          BY <1>5
        <4> QED
          BY <1>3, <4>1, <4>2
      <3>2. run[i] = run[j] => i - 1 = j - 1
        BY <1>2, <3>1 DEF IsInjective
      <3> QED
        BY <3>2
    <2> SUFFICES ASSUME NEW i \in 1..(n + 1), NEW j \in 1..(n + 1), run[i] = run[j]  PROVE i = j
      BY <1>8 DEF IsInjective
    <2>3. (i = 1 \/ i \in 2..(n + 1)) /\ (j = 1 \/ j \in 2..(n + 1))
      BY <1>3
    <2> QED
      BY <1>6, <2>1, <2>2, <2>3
  <1>10. ASSUME NEW i \in 2..(n + 1)
         PROVE  th[t].blk + i - 1 \in Blocks /\ \A x \in BcSlots : ~(bufs[x].dev = t /\ bufs[x].blk = th[t].blk + i - 1)
    <2>1. i - 1 \in 1..n
      BY <1>5
    <2>2. ReadsAhead(t, th[t].blk, Len(Spare(B, q)), i - 1)
      BY <2>1
    <2>3. th[t].blk + (i - 1) = th[t].blk + i - 1
      <3>1. th[t].blk \in Nat
        BY BlocksNat, ThreadFacts DEF Thread
      <3> QED
        BY <3>1, <1>3
    <2>4. block_len(th[t].blk + i - 1) = 1 /\ lookup(t, th[t].blk + i - 1) = {}
      BY <2>2, <2>3 DEF ReadsAhead
    <2> QED
      BY <2>4 DEF block_len, lookup
  <1>11. ASSUME NEW i \in 2..(n + 1)
         PROVE  /\ run[i] \in BcSlots /\ run[i] # s /\ ~B[run[i]].busy /\ ~B[run[i]].dirty
                /\ B[run[i]].dev = 0 \/ (run[i] \in Range(q) /\ ~B[run[i]].dirty)
    BY <1>2, <1>4, <1>5
  <1> QED
    BY <1>3, <1>6, <1>8, <1>9, <1>10, <1>11

TakesAlong(B, B2, d, b, run) ==
  /\ B2 \in [BcSlots -> Buf]
  /\ \A x \in BcSlots : (\A i \in 2..Len(run) : run[i] # x) => B2[x] = B[x]
  /\ \A i \in 2..Len(run) : /\ run[i] \in BcSlots /\ B2[run[i]].dev = d /\ B2[run[i]].blk = b + i - 1
                            /\ B2[run[i]].busy /\ ~B2[run[i]].valid /\ ~B2[run[i]].dirty
LEMMA AssignedFacts ==
  ASSUME NEW B \in [BcSlots -> Buf], NEW d \in Devs, NEW b \in Nat, NEW run \in Seq(BcSlots), IsInjective(run),
         NEW B2, B2 = Assigned(B, d, b, run)
  PROVE  TakesAlong(B, B2, d, b, run)
  <1> DEFINE N(i) == [NoBuf EXCEPT !.dev = d, !.blk = b + i - 1, !.busy = TRUE]
  <1> DEFINE I == 2..Len(run)
  <1>1. B2 = [x \in BcSlots |-> IF \E i \in I : run[i] = x THEN N(CHOOSE i \in I : run[i] = x) ELSE B[x]]
    BY DEF Assigned
  <1>2. ASSUME NEW i \in I
        PROVE  /\ N(i) \in Buf /\ N(i).dev = d /\ N(i).blk = b + i - 1 /\ N(i).busy /\ ~N(i).valid /\ ~N(i).dirty
               /\ run[i] \in BcSlots
    <2>1. b + i - 1 \in Nat /\ i \in DOMAIN run /\ run[i] \in BcSlots
      OBVIOUS
    <2>2. N(i) \in Buf /\ N(i).dev = d /\ N(i).blk = b + i - 1 /\ N(i).busy /\ ~N(i).valid /\ ~N(i).dirty
      BY <2>1 DEF Buf, NoBuf, Data
    <2> QED
      BY <2>1, <2>2
  <1>5. \A i, j \in I : run[j] = run[i] => j = i
    <2>1. \A i \in I : i \in DOMAIN run
      OBVIOUS
    <2> QED
      BY <2>1 DEF IsInjective
  <1> HIDE DEF N, I
  <1>3. ASSUME NEW x \in BcSlots
        PROVE  /\ (\A i \in I : run[i] # x) => B2[x] = B[x]
               /\ \A i \in I : run[i] = x => B2[x] = N(i)
    <2>1. B2[x] = IF \E i \in I : run[i] = x THEN N(CHOOSE i \in I : run[i] = x) ELSE B[x]
      BY <1>1
    <2>2. ASSUME NEW i \in I, run[i] = x  PROVE B2[x] = N(i)
      <3>1. \A j \in I : run[j] = x => j = i
        BY <1>2, <2>2, <1>5
      <3>2. (CHOOSE j \in I : run[j] = x) = i
        BY <2>2, <3>1, Zenon
      <3> QED
        BY <2>1, <2>2, <3>2
    <2> QED
      BY <2>1, <2>2
  <1>4. B2 \in [BcSlots -> Buf]
    <2>1. \A x \in BcSlots : B2[x] \in Buf
      BY <1>2, <1>3
    <2>2. B2 = [x \in BcSlots |-> B2[x]]
      BY DEF Assigned
    <2> QED
      BY <2>1, <2>2
  <1> QED
    BY <1>2, <1>3, <1>4 DEF I, TakesAlong

LEMMA FillReady ==
  ASSUME BcInv, NEW t \in Devs, th[t].pc = "getblk", NEW B, NEW q, NEW s, Claimed(t, B, q, s),
         UNCHANGED <<disk, bcCase>>, BufReady(t, B, q, s),
         ~(th[t].op \in {"whole", "part"} /\ (th[t].op = "whole" \/ B[s].valid)), ~B[s].valid
  PROVE  BcInv'
  <1> DEFINE me == th[t]  spare == Spare(B, q)
  <1>0. t \in BcThreads /\ t # 0
    BY BlocksNat
  <1>1. /\ th \in [BcThreads -> Thread] /\ me \in Thread /\ BufsOK(bufs) /\ BusyOK(bufs, th) /\ RunsOK(bufs, t, me)
        /\ CallOK(me) /\ disk \in Store /\ latest \in Store /\ nextSeq \in [Devs -> Int]
        /\ bcCase \in [calls : [BcThreads -> Seq(BcCalls)], errors : Nat, vals : SUBSET Nat]
    BY <1>0, ThreadFacts
  <1>2. /\ s \in BcSlots /\ BufsOK(B) /\ LruOK(B, q) /\ DataOK(B, disk, latest) /\ B \in [BcSlots -> Buf]
        /\ B[s].dev = t /\ B[s].blk = me.blk /\ B[s].busy /\ ~bufs[s].busy /\ (lru = <<>> => q = <<>>)
        /\ \A x \in BcSlots : x # s => B[x] = bufs[x]
    BY DEF Claimed, BufsOK
  <1>3. PICK n \in 0..Len(spare) :
          LET run == [i \in 1..(n + 1) |-> IF i = 1 THEN s ELSE spare[i - 1]]
              B2 == Assigned(B, t, me.blk, run)
          IN /\ \A k \in 1..n : ReadsAhead(t, me.blk, Len(spare), k)
             /\ bufs' = B2 /\ lru' = Without(q, Range(run))
             /\ th' = Lost([th EXCEPT ![t] = [th[t] EXCEPT !.pc = "fill", !.slot = s, !.run = run]], B2)
             /\ UNCHANGED <<nextSeq, latest>>
    BY <1>2 DEF BufReady
  <1> DEFINE run == [i \in 1..(n + 1) |-> IF i = 1 THEN s ELSE spare[i - 1]]  R == Range(run)
  <1> DEFINE r == [me EXCEPT !.pc = "fill", !.slot = s, !.run = run]
  <1>4. /\ \A k \in 1..n : ReadsAhead(t, me.blk, Len(spare), k)
        /\ bufs' = Assigned(B, t, me.blk, run) /\ lru' = Without(q, R)
        /\ th' = Lost([th EXCEPT ![t] = r], bufs') /\ nextSeq' = nextSeq /\ latest' = latest
    BY <1>3
  <1>5. /\ run \in Seq(BcSlots) /\ IsInjective(run) /\ Len(run) = n + 1 /\ run[1] = s /\ n \in Nat
        /\ \A i \in 2..(n + 1) : /\ run[i] \in BcSlots /\ run[i] # s /\ me.blk + i - 1 \in Blocks
                                 /\ \A x \in BcSlots : ~(bufs[x].dev = t /\ bufs[x].blk = me.blk + i - 1)
                                 /\ B[run[i]].dev = 0 \/ (run[i] \in Range(q) /\ ~B[run[i]].dirty)
                                 /\ ~B[run[i]].busy /\ ~B[run[i]].dirty
    BY <1>4, RunAhead
  <1> HIDE DEF run
  <1>6. me.blk \in Blocks /\ me.blk \in Nat /\ me.op \in {"read", "part"}
    BY <1>1 DEF CallOK, Thread
  <1>7. /\ bufs' \in [BcSlots -> Buf]
        /\ \A x \in BcSlots : (\A i \in 2..(n + 1) : run[i] # x) => bufs'[x] = B[x]
        /\ \A i \in 2..(n + 1) : /\ bufs'[run[i]].dev = t /\ bufs'[run[i]].blk = me.blk + i - 1
                                 /\ bufs'[run[i]].busy /\ ~bufs'[run[i]].valid /\ ~bufs'[run[i]].dirty
    <2>0. PICK B2 : B2 = Assigned(B, t, me.blk, run)
      OBVIOUS
    <2>1. /\ B2 \in [BcSlots -> Buf]
          /\ \A x \in BcSlots : (\A i \in 2..Len(run) : run[i] # x) => B2[x] = B[x]
          /\ \A i \in 2..Len(run) : /\ run[i] \in BcSlots /\ B2[run[i]].dev = t /\ B2[run[i]].blk = me.blk + i - 1
                                    /\ B2[run[i]].busy /\ ~B2[run[i]].valid /\ ~B2[run[i]].dirty
      <3>1. B \in [BcSlots -> Buf] /\ t \in Devs /\ me.blk \in Nat /\ run \in Seq(BcSlots) /\ IsInjective(run)
        BY <1>2, <1>5, <1>6
      <3>2. TakesAlong(B, B2, t, me.blk, run)
        BY ONLY <3>1, <2>0, AssignedFacts, Zenon
      <3> QED
        BY <3>2 DEF TakesAlong
    <2>2. bufs' = B2 /\ Len(run) = n + 1
      BY <1>4, <1>5, <2>0
    <2> QED
      BY <2>1, <2>2
  <1>8. DOMAIN run = 1..(n + 1) /\ \A i \in 1..(n + 1) : i = 1 \/ i \in 2..(n + 1)
    BY <1>5, RangeIn
  <1>9. \A x \in R : x = s \/ \E i \in 2..(n + 1) : run[i] = x
    BY <1>5, <1>8 DEF Range
  <1>10. s \in R /\ \A i \in 2..(n + 1) : run[i] \in R
    <2>1. 1 \in DOMAIN run /\ \A i \in 2..(n + 1) : i \in DOMAIN run
      BY <1>5, <1>8
    <2> QED
      BY <1>5, <2>1 DEF Range
  <1>11. bufs'[s] = B[s]
    BY <1>2, <1>5, <1>7
  <1>12. /\ \A x \in R : x \in BcSlots /\ bufs'[x].dev = t /\ bufs'[x].busy /\ ~bufs'[x].valid /\ ~bufs[x].busy
         /\ \A x \in R : x # s => ~B[x].dirty
    <2>1. ~bufs'[s].valid /\ bufs'[s].dev = t /\ bufs'[s].busy
      BY <1>2, <1>11
    <2>2. ASSUME NEW i \in 2..(n + 1)  PROVE LET x == run[i] IN x \in BcSlots /\ bufs'[x].dev = t /\ bufs'[x].busy /\ ~bufs'[x].valid /\ ~bufs[x].busy /\ ~B[x].dirty
      BY <1>2, <1>5, <1>7
    <2> QED
      BY <1>2, <1>9, <2>1, <2>2
  <1>13. \A x \in BcSlots : x \notin R => bufs'[x] = bufs[x] /\ bufs'[x] = B[x]
    <2> SUFFICES ASSUME NEW x \in BcSlots, x \notin R  PROVE bufs'[x] = bufs[x] /\ bufs'[x] = B[x]
      OBVIOUS
    <2>1. x # s /\ \A i \in 2..(n + 1) : run[i] # x
      BY <1>10
    <2> QED
      BY <1>2, <1>7, <2>1
  <1>14. r \in Thread /\ r.pc = "fill" /\ r.slot = s /\ r.run = run /\ r.op = me.op /\ r.blk = me.blk
    BY <1>1, <1>2, <1>5 DEF Thread, BcPcs
  <1> HIDE DEF r, R
  <1>15. /\ th' \in [BcThreads -> Thread] /\ Same(r, th'[t]) /\ th'[t].pc = r.pc /\ th'[t].gone = r.gone
         /\ \A u \in BcThreads : u # t =>
              /\ Carried(th[u], th'[u]) /\ th'[u].run = th[u].run /\ th'[u].pc = th[u].pc
              /\ th[u].pc = "raw" => \A x \in BcSlots : bufs[x].dev = u /\ (bufs'[x].dev # u \/ bufs'[x].blk # bufs[x].blk) => bufs[x].blk \in th'[u].gone
    <2> DEFINE U == [th EXCEPT ![t] = r]
    <2>1. U \in [BcThreads -> Thread] /\ U[t] = r /\ \A u \in BcThreads : u # t => U[u] = th[u]
      BY <1>0, <1>1, <1>14
    <2>2. U[t].pc \notin {"wait", "raw"}
      BY <1>14, <2>1
    <2>0. PICK B2 : B2 = bufs'
      OBVIOUS
    <2>3. th' = Lost(U, B2)
      BY <1>4, <2>0
    <2> HIDE DEF U
    <2>4. /\ th' \in [BcThreads -> Thread] /\ Same(U[t], th'[t]) /\ th'[t].pc = U[t].pc /\ th'[t].gone = U[t].gone
          /\ \A u \in BcThreads : u # t =>
               /\ Carried(th[u], th'[u]) /\ th'[u].run = th[u].run /\ th'[u].pc = th[u].pc
               /\ th[u].pc = "raw" => \A x \in BcSlots : bufs[x].dev = u /\ (B2[x].dev # u \/ B2[x].blk # bufs[x].blk) => bufs[x].blk \in th'[u].gone
      <3>1. th \in [BcThreads -> Thread] /\ BufsOK(bufs) /\ t \in BcThreads
        BY <1>0, <1>1
      <3> QED
        BY ONLY <3>1, <2>1, <2>2, <2>3, OnlyLost
    <2> QED
      BY <2>0, <2>1, <2>4
  <1>16. BufsOK(bufs')
    <2>1. \A x \in BcSlots : bufs'[x].dev = 0 => bufs'[x] = NoBuf
      BY <1>0, <1>2, <1>12, <1>13 DEF BufsOK
    <2>2. \A x \in BcSlots : bufs'[x].dev # 0 => bufs'[x].blk \in Blocks
      <3> SUFFICES ASSUME NEW x \in BcSlots, bufs'[x].dev # 0  PROVE bufs'[x].blk \in Blocks
        OBVIOUS
      <3>1. CASE x \notin R
        BY <1>2, <1>13, <3>1 DEF BufsOK
      <3>2. CASE x = s
        BY <1>2, <1>6, <1>11, <3>2
      <3>3. CASE x \in R /\ x # s
        <4>1. PICK i \in 2..(n + 1) : run[i] = x
          BY <1>9, <3>3
        <4> QED
          BY <1>5, <1>7, <4>1
      <3> QED
        BY <3>1, <3>2, <3>3
    <2>3. \A x \in BcSlots : bufs'[x].dirty => bufs'[x].valid
      <3> SUFFICES ASSUME NEW x \in BcSlots, bufs'[x].dirty  PROVE bufs'[x].valid
        OBVIOUS
      <3>1. CASE x \notin R \/ x = s
        BY <1>2, <1>11, <1>13, <3>1 DEF BufsOK
      <3>2. CASE x \in R /\ x # s
        BY <1>7, <1>9, <3>2
      <3> QED
        BY <3>1, <3>2
    <2>4. ASSUME NEW x \in BcSlots, NEW y \in BcSlots, bufs'[x].dev # 0, bufs'[x].dev = bufs'[y].dev, bufs'[x].blk = bufs'[y].blk,
                 x \in R, x # s
          PROVE  x = y
      <3>1. PICK i \in 2..(n + 1) : run[i] = x
        BY <1>9, <2>4
      <3>2. bufs'[x].dev = t /\ bufs'[x].blk = me.blk + i - 1
        BY <1>7, <3>1
      <3>3. CASE y \notin R
        <4>1. ~(bufs[y].dev = t /\ bufs[y].blk = me.blk + i - 1) /\ bufs'[y] = bufs[y]
          BY <1>5, <1>13, <3>3
        <4> QED
          BY <2>4, <3>2, <4>1
      <3>4. CASE y = s
        <4>1. me.blk = me.blk + i - 1 /\ n \in Nat
          BY <1>2, <1>5, <1>11, <2>4, <3>2, <3>4
        <4> QED
          BY <1>6, <4>1
      <3>5. CASE y \in R /\ y # s
        <4>1. PICK j \in 2..(n + 1) : run[j] = y
          BY <1>9, <3>5
        <4>2. bufs'[y].blk = me.blk + j - 1
          BY <1>7, <4>1
        <4>3. i = j
          <5>1. me.blk + i - 1 = me.blk + j - 1 /\ n \in Nat
            BY <1>5, <2>4, <3>2, <4>2
          <5> QED
            BY <1>6, <5>1
        <4> QED
          BY <3>1, <4>1, <4>3
      <3> QED
        BY <3>3, <3>4, <3>5
    <2>5. ASSUME NEW x \in BcSlots, NEW y \in BcSlots, bufs'[x].dev # 0, bufs'[x].dev = bufs'[y].dev, bufs'[x].blk = bufs'[y].blk
          PROVE  x = y
      <3>1. CASE x \in R /\ x # s
        BY <2>4, <2>5, <3>1
      <3>2. CASE y \in R /\ y # s
        BY <2>4, <2>5, <3>2
      <3>3. CASE ~(x \in R /\ x # s) /\ ~(y \in R /\ y # s)
        <4>1. bufs'[x] = B[x] /\ bufs'[y] = B[y]
          BY <1>11, <1>13, <3>3
        <4> QED
          BY <1>2, <2>5, <4>1 DEF BufsOK
      <3> QED
        BY <3>1, <3>2, <3>3
    <2> QED
      BY <1>7, <2>1, <2>2, <2>3, <2>5 DEF BufsOK
  <1>17. LruOK(bufs', lru')
    <2>1. q \in Seq(BcSlots) /\ IsInjective(q) /\ Range(q) = {x \in BcSlots : B[x].dev # 0 /\ ~B[x].busy}
      BY <1>2 DEF LruOK
    <2>2. lru' \in Seq(BcSlots) /\ IsInjective(lru') /\ Range(lru') = Range(q) \ R
      BY <1>4, <2>1, WithoutProperties
    <2>3. Range(lru') = {x \in BcSlots : bufs'[x].dev # 0 /\ ~bufs'[x].busy}
      BY <1>12, <1>13, <2>1, <2>2
    <2> QED
      BY <2>2, <2>3 DEF LruOK
  <1>18. BusyOK(bufs', th')
    <2>1. me.run = <<>> /\ Range(th'[t].run) = R
      BY <1>1, <1>14, <1>15 DEF RunsOK, Same, R
    <2>2. \A u \in BcThreads : u # t => th'[u].run = th[u].run
      BY <1>15
    <2>3. \A x \in Range(th'[t].run) : ~bufs[x].busy
      BY <1>12, <2>1
    <2>4. \A x \in BcSlots : bufs'[x].busy <=> (bufs[x].busy \/ x \in Range(th'[t].run))
      BY <1>12, <1>13, <2>1
    <2> QED
      BY <1>0, <1>1, <1>15, <2>1, <2>2, <2>3, <2>4, NewRun
  <1>19. DataOK(bufs', disk', latest')
    <2>1. ASSUME NEW x \in BcSlots, bufs'[x].valid  PROVE bufs'[x].data = latest'[bufs'[x].dev][bufs'[x].blk]
      <3>1. bufs'[x] = B[x]
        BY <1>12, <1>13, <2>1
      <3> QED
        BY <1>2, <1>4, <2>1, <3>1 DEF DataOK
    <2>2. ASSUME NEW e \in Devs, NEW b \in Blocks, disk'[e][b] # latest'[e][b]
          PROVE  \E x \in BcSlots : bufs'[x].dev = e /\ bufs'[x].blk = b /\ bufs'[x].dirty
      <3>1. PICK x \in BcSlots : B[x].dev = e /\ B[x].blk = b /\ B[x].dirty
        BY <1>2, <1>4, <2>2 DEF DataOK
      <3>2. bufs'[x] = B[x]
        BY <1>11, <1>12, <1>13, <3>1
      <3> QED
        BY <3>1, <3>2
    <2> QED
      BY <2>1, <2>2 DEF DataOK
  <1>20. ThreadOK(bufs', lru', disk', latest', t, th'[t])
    <2>1. ASSUME NEW i \in 1..Len(run)  PROVE bufs'[run[i]].dev = t /\ bufs'[run[i]].blk = me.blk + i - 1 /\ ~bufs'[run[i]].valid
      <3>1. CASE i = 1
        BY <1>2, <1>5, <1>6, <1>11, <3>1
      <3>2. CASE i # 1
        <4>1. i \in 2..(n + 1)
          BY <1>5, <3>2
        <4> QED
          BY <1>7, <4>1
      <3> QED
        BY <3>1, <3>2
    <2>2. RunsOK(bufs', t, r)
      BY <1>5, <1>6, <1>14, <2>1 DEF RunsOK
    <2>3. CallOK(r) /\ WaitOK(bufs', lru', r) /\ FlushOK(disk', latest', t, r) /\ ReadOK(bufs', latest', t, r)
      BY <1>6, <1>14 DEF CallOK, WaitOK, FlushOK, ReadOK
    <2>4. ThreadOK(bufs', lru', disk', latest', t, r)
      BY <2>2, <2>3 DEF ThreadOK
    <2> QED
      BY <1>0, <1>14, <1>15, <2>4, SameThread
  <1>21. ASSUME NEW u \in BcThreads, u # t  PROVE ThreadOK(bufs', lru', disk', latest', u, th'[u])
    <2>1. ThreadOK(bufs, lru, disk, latest, u, th[u]) /\ th[u] \in Thread /\ WaitOK(bufs, lru, th[u]) /\ th'[u] \in Thread
      BY <1>15, ThreadFacts
    <2>2. \A x \in Range(th[u].run) : bufs'[x] = bufs[x]
      <3> TAKE x \in Range(th[u].run)
      <3>1. x \in BcSlots /\ bufs[x].busy
        BY <1>0, <1>1, <1>21, OtherRun
      <3> QED
        BY <1>12, <1>13, <3>1
    <2>3. Carried(th[u], th'[u]) /\ th'[u].pc = th[u].pc
      BY <1>15, <1>21
    <2>4. th'[u].pc = "wait" => IF th[u].slot = 0 THEN lru' = <<>> ELSE bufs'[th[u].slot].busy
      <3>1. th[u].slot \in BcSlots \cup {0}
        BY <2>1 DEF Thread
      <3>2. q = <<>> => lru' = <<>>
        <4> SUFFICES ASSUME q = <<>>  PROVE lru' = <<>>
          OBVIOUS
        <4>1. q \in Seq(BcSlots) /\ lru' \in Seq(BcSlots)
          BY <1>2, <1>17 DEF LruOK
        <4>2. Range(q) = {}
          BY <4>1, RangeIn
        <4>3. Range(lru') = {}
          BY <1>4, <4>1, <4>2, WithoutProperties
        <4> QED
          BY <4>1, <4>3, RangeIn
      <3> QED
        BY <1>2, <1>12, <1>13, <2>1, <2>3, <3>1, <3>2 DEF WaitOK
    <2>5. u \in Devs => latest'[u] = latest[u] /\ (disk[u] = latest[u] => disk'[u] = latest[u])
      BY <1>4
    <2>6. th[u].pc = "raw" => \A x \in BcSlots : bufs[x].dev = u /\ bufs[x].valid =>
                                \/ bufs[x].blk \in th'[u].gone
                                \/ bufs'[x].dev = u /\ bufs'[x].blk = bufs[x].blk /\ bufs'[x].valid
      <3> SUFFICES ASSUME th[u].pc = "raw", NEW x \in BcSlots, bufs[x].dev = u, bufs[x].valid, bufs[x].blk \notin th'[u].gone
                   PROVE  bufs'[x].dev = u /\ bufs'[x].blk = bufs[x].blk /\ bufs'[x].valid
        OBVIOUS
      <3>1. bufs'[x].dev = u /\ bufs'[x].blk = bufs[x].blk
        BY <1>15, <1>21
      <3>2. x \notin R
        BY <1>12, <1>21, <3>1
      <3> QED
        BY <1>13, <3>1, <3>2
    <2> QED
      BY <2>1, <2>2, <2>3, <2>4, <2>5, <2>6, OtherThread
  <1>22. /\ nextSeq' \in [Devs -> Int] /\ disk' \in Store /\ latest' \in Store
         /\ bcCase' \in [calls : [BcThreads -> Seq(BcCalls)], errors : Nat, vals : SUBSET Nat]
    BY <1>1, <1>4
  <1> QED
    BY <1>15, <1>16, <1>17, <1>18, <1>19, <1>20, <1>21, <1>22, Assemble

LEMMA ReadyStep ==
  ASSUME BcInv, NEW t \in Devs, th[t].pc = "getblk", NEW B, NEW q, NEW s, Claimed(t, B, q, s),
         UNCHANGED <<disk, bcCase>>, BufReady(t, B, q, s)
  PROVE  BcInv'
  <1>1. CASE th[t].op \in {"whole", "part"} /\ (th[t].op = "whole" \/ B[s].valid)
    BY <1>1, WriteReady, Zenon
  <1>2. CASE ~(th[t].op \in {"whole", "part"} /\ (th[t].op = "whole" \/ B[s].valid)) /\ B[s].valid
    BY <1>2, ReadReady, Zenon
  <1>3. CASE ~(th[t].op \in {"whole", "part"} /\ (th[t].op = "whole" \/ B[s].valid)) /\ ~B[s].valid
    BY <1>3, FillReady, Zenon
  <1> QED
    BY <1>1, <1>2, <1>3

LEMMA ClaimsFound ==
  ASSUME BcInv, NEW t \in Devs, NEW s \in lookup(t, th[t].blk), ~bufs[s].busy, NEW B, B = buf_claim(bufs, {s}), NEW q, q = Without(lru, {s})
  PROVE  Claimed(t, B, q, s)
  <1>0. t \in BcThreads /\ t # 0
    BY BlocksNat
  <1>1. /\ BufsOK(bufs) /\ LruOK(bufs, lru) /\ DataOK(bufs, disk, latest) /\ bufs \in [BcSlots -> Buf]
        /\ s \in BcSlots /\ bufs[s].dev = t /\ bufs[s].blk = th[t].blk
    BY <1>0, ThreadFacts DEF BufsOK, lookup
  <1>2. /\ B \in [BcSlots -> Buf]
        /\ \A x \in BcSlots :
             /\ B[x].dev = bufs[x].dev /\ B[x].blk = bufs[x].blk /\ B[x].valid = bufs[x].valid
             /\ B[x].dirty = bufs[x].dirty /\ B[x].data = bufs[x].data
             /\ B[x].busy <=> (bufs[x].busy \/ x = s)
             /\ x # s => B[x] = bufs[x]
    <2>1. /\ B \in [BcSlots -> Buf]
          /\ \A x \in BcSlots :
               /\ B[x].dev = bufs[x].dev /\ B[x].blk = bufs[x].blk /\ B[x].valid = bufs[x].valid
               /\ B[x].dirty = bufs[x].dirty /\ B[x].data = bufs[x].data
               /\ B[x].busy <=> (bufs[x].busy \/ x \in {s})
               /\ x \notin {s} => B[x] = bufs[x]
      BY <1>1, ClaimFacts
    <2> QED
      BY <2>1
  <1>3. BufsOK(B)
    <2>1. \A x \in BcSlots : /\ B[x].dev = bufs[x].dev /\ B[x].blk = bufs[x].blk /\ (B[x].dirty => B[x].valid)
                             /\ (bufs[x].dev = 0 => B[x] = bufs[x])
      BY <1>0, <1>1, <1>2 DEF BufsOK
    <2>2. BufsOK(bufs) /\ B \in [BcSlots -> Buf]
      BY <1>1, <1>2
    <2> QED
      BY ONLY <2>1, <2>2, SameBlocks
  <1>4. lru \in Seq(BcSlots) /\ IsInjective(lru) /\ Range(lru) = {x \in BcSlots : bufs[x].dev # 0 /\ ~bufs[x].busy}
    BY <1>1 DEF LruOK
  <1>5. q \in Seq(BcSlots) /\ IsInjective(q) /\ Range(q) = Range(lru) \ {s}
    BY <1>4, WithoutProperties
  <1>6. LruOK(B, q)
    <2>1. Range(q) = {x \in BcSlots : B[x].dev # 0 /\ ~B[x].busy}
      <3>1. \A x \in BcSlots : (B[x].dev # 0 /\ ~B[x].busy) <=> (bufs[x].dev # 0 /\ ~bufs[x].busy /\ x # s)
        BY ONLY <1>2
      <3> QED
        BY ONLY <1>4, <1>5, <3>1
    <2> QED
      BY <1>5, <2>1 DEF LruOK
  <1>7. DataOK(B, disk, latest)
    BY ONLY <1>1, <1>2 DEF DataOK
  <1>8. lru = <<>> => q = <<>>
    <2>1. s \in Range(lru)
      BY <1>0, <1>1, <1>4
    <2> QED
      BY <1>4, <2>1, RangeIn
  <1> QED
    BY <1>1, <1>2, <1>3, <1>6, <1>7, <1>8 DEF Claimed

(* A free buffer, or one whose block is given up. *)
LEMMA ClaimsOther ==
  ASSUME BcInv, NEW t \in Devs, th[t].blk \in Blocks, lookup(t, th[t].blk) = {}, NEW s \in BcSlots, ~bufs[s].busy, ~bufs[s].dirty,
         NEW B, B = buf_reassign(s, t, th[t].blk), NEW q \in Seq(BcSlots), IsInjective(q), Range(q) = Range(lru) \ {s}
  PROVE  Claimed(t, B, q, s)
  <1>0. t \in BcThreads /\ t # 0
    BY BlocksNat
  <1>1. /\ BufsOK(bufs) /\ LruOK(bufs, lru) /\ DataOK(bufs, disk, latest) /\ bufs \in [BcSlots -> Buf] /\ th[t].blk \in Nat
        /\ \A x \in BcSlots : ~(bufs[x].dev = t /\ bufs[x].blk = th[t].blk)
    BY <1>0, BlocksNat, ThreadFacts DEF BufsOK, lookup
  <1> DEFINE N == [NoBuf EXCEPT !.dev = t, !.blk = th[t].blk, !.busy = TRUE]
  <1>2. N \in Buf /\ N.dev = t /\ N.blk = th[t].blk /\ N.busy /\ ~N.valid /\ ~N.dirty
    BY <1>1 DEF NoBuf, Buf, Data
  <1>3. B = [bufs EXCEPT ![s] = N]
    BY DEF buf_reassign
  <1> HIDE DEF N
  <1>4. B \in [BcSlots -> Buf] /\ B[s] = N /\ \A x \in BcSlots : x # s => B[x] = bufs[x]
    BY <1>1, <1>2, <1>3
  <1>5. BufsOK(B)
    <2>1. /\ \A x \in BcSlots : B[x].dev = 0 => B[x] = NoBuf
          /\ \A x \in BcSlots : B[x].dev # 0 => B[x].blk \in Blocks
          /\ \A x \in BcSlots : B[x].dirty => B[x].valid
      BY <1>0, <1>1, <1>2, <1>4 DEF BufsOK
    <2>2. \A x, y \in BcSlots : B[x].dev # 0 /\ B[x].dev = B[y].dev /\ B[x].blk = B[y].blk => x = y
      BY <1>1, <1>2, <1>4 DEF BufsOK
    <2> QED
      BY <1>4, <2>1, <2>2 DEF BufsOK
  <1>6. LruOK(B, q)
    <2>1. Range(lru) = {x \in BcSlots : bufs[x].dev # 0 /\ ~bufs[x].busy}
      BY <1>1 DEF LruOK
    <2>2. Range(q) = {x \in BcSlots : B[x].dev # 0 /\ ~B[x].busy}
      BY <1>2, <1>4, <2>1
    <2> QED
      BY <2>2 DEF LruOK
  <1>7. DataOK(B, disk, latest)
    <2>1. \A x \in BcSlots : B[x].valid => B[x].data = latest[B[x].dev][B[x].blk]
      BY <1>1, <1>2, <1>4 DEF DataOK
    <2>2. \A d \in Devs, b \in Blocks : disk[d][b] = latest[d][b] \/ \E x \in BcSlots : B[x].dev = d /\ B[x].blk = b /\ B[x].dirty
      BY <1>1, <1>4 DEF DataOK
    <2> QED
      BY <2>1, <2>2 DEF DataOK
  <1>8. lru = <<>> => q = <<>>
    <2>1. lru \in Seq(BcSlots)
      BY <1>1 DEF LruOK
    <2>2. lru = <<>> => Range(lru) = {}
      BY <2>1, RangeIn
    <2>3. Range(q) = {} => q = <<>>
      BY RangeIn
    <2> QED
      BY <2>2, <2>3
  <1> QED
    BY <1>2, <1>4, <1>5, <1>6, <1>7, <1>8 DEF Claimed

LEMMA getblkStep == ASSUME BcInv, NEW t \in Devs, getblk(t)  PROVE BcInv'
  <1> DEFINE me == th[t]  found == lookup(t, me.blk)
  <1>0. t \in BcThreads /\ t # 0
    BY BlocksNat
  <1>1. /\ me \in Thread /\ CallOK(me) /\ BufsOK(bufs) /\ LruOK(bufs, lru) /\ me.pc = "getblk"
    BY <1>0, ThreadFacts DEF getblk
  <1>2. me.blk \in Blocks
    BY <1>1 DEF CallOK
  <1>3. lru \in Seq(BcSlots) /\ IsInjective(lru) /\ Range(lru) = {x \in BcSlots : bufs[x].dev # 0 /\ ~bufs[x].busy}
    BY <1>1 DEF LruOK
  <1>4. ASSUME NEW s \in found, bufs[s].busy, th' = [th EXCEPT ![t] = [th[t] EXCEPT !.pc = "wait", !.slot = s, !.back = "getblk"]],
               UNCHANGED <<bufs, lru, nextSeq, disk, latest, bcCase>>
        PROVE  BcInv'
    <2>1. s \in BcSlots /\ s # 0
      BY BlocksNat DEF lookup
    <2>2. s \in BcSlots \cup {0} /\ (IF s = 0 THEN lru = <<>> ELSE bufs[s].busy)
      BY <1>4, <2>1
    <2> QED
      BY <1>0, <1>1, <1>4, <2>2, WaitStep
  <1>5. ASSUME NEW s \in found, ~bufs[s].busy, BufReady(t, buf_claim(bufs, {s}), Without(lru, {s}), s), UNCHANGED <<disk, bcCase>>
        PROVE  BcInv'
    <2>1. PICK B : B = buf_claim(bufs, {s})
      OBVIOUS
    <2>2. PICK q : q = Without(lru, {s})
      OBVIOUS
    <2>3. Claimed(t, B, q, s)
      BY <1>5, <2>1, <2>2, ClaimsFound
    <2>4. BufReady(t, B, q, s)
      BY <1>5, <2>1, <2>2
    <2> QED
      BY <1>1, <1>5, <2>3, <2>4, ReadyStep
  <1>6. ASSUME found = {}, NEW s \in FreeSlots(bufs), BufReady(t, buf_reassign(s, t, me.blk), lru, s), UNCHANGED <<disk, bcCase>>
        PROVE  BcInv'
    <2>1. PICK B : B = buf_reassign(s, t, me.blk)
      OBVIOUS
    <2>2. PICK q : q = lru
      OBVIOUS
    <2>3. s \in BcSlots /\ bufs[s].dev = 0
      BY DEF FreeSlots
    <2>4. ~bufs[s].busy /\ ~bufs[s].dirty
      BY <1>1, <2>3, NotHere
    <2>5. q \in Seq(BcSlots) /\ IsInjective(q) /\ Range(q) = Range(lru) \ {s}
      BY <1>3, <2>2, <2>3
    <2>6. Claimed(t, B, q, s)
      BY <1>2, <1>6, <2>1, <2>3, <2>4, <2>5, ClaimsOther
    <2>7. BufReady(t, B, q, s)
      BY <1>6, <2>1, <2>2
    <2> QED
      BY <1>1, <1>6, <2>6, <2>7, ReadyStep
  <1>7. ASSUME lru = <<>>, th' = [th EXCEPT ![t] = [th[t] EXCEPT !.pc = "wait", !.slot = 0, !.back = "getblk"]],
               UNCHANGED <<bufs, lru, nextSeq, disk, latest, bcCase>>
        PROVE  BcInv'
    <2>1. 0 \in BcSlots \cup {0} /\ (IF 0 = 0 THEN lru = <<>> ELSE bufs[0].busy)
      BY <1>7
    <2> QED
      BY <1>0, <1>1, <1>7, <2>1, WaitStep
  <1>8. ASSUME lru # <<>>, bufs[Head(lru)].dirty, StartsWrite(t, Head(lru), "evict")
        PROVE  BcInv'
    <2>1. Head(lru) \in Range(lru)
      BY <1>3, <1>8, TailProperties
    <2>2. PICK s : s = Head(lru)
      OBVIOUS
    <2>3. s \in BcSlots /\ ~bufs[s].busy /\ bufs[s].dirty /\ StartsWrite(t, s, "evict")
      BY <1>3, <1>8, <2>1, <2>2
    <2> QED
      BY <1>0, <1>1, <2>3, StartsWriteStep
  <1>9. ASSUME found = {}, lru # <<>>, ~bufs[Head(lru)].dirty, NEW s \in {Head(lru)},
               BufReady(t, buf_reassign(s, t, me.blk), Tail(lru), s), UNCHANGED <<disk, bcCase>>
        PROVE  BcInv'
    <2>1. PICK B : B = buf_reassign(s, t, me.blk)
      OBVIOUS
    <2>2. PICK q : q = Tail(lru)
      OBVIOUS
    <2>3. s \in Range(lru) /\ q \in Seq(BcSlots) /\ IsInjective(q) /\ Range(q) = Range(lru) \ {s}
      BY <1>3, <1>9, <2>2, TailProperties
    <2>4. s \in BcSlots /\ ~bufs[s].busy /\ ~bufs[s].dirty
      BY <1>3, <1>9, <2>3
    <2>5. Claimed(t, B, q, s)
      BY <1>2, <1>9, <2>1, <2>3, <2>4, ClaimsOther
    <2>6. BufReady(t, B, q, s)
      BY <1>9, <2>1, <2>2
    <2> QED
      BY <1>1, <1>9, <2>5, <2>6, ReadyStep
  <1> QED
    BY <1>4, <1>5, <1>6, <1>7, <1>8, <1>9 DEF getblk

------------------------------------------------------------------------------
(* The other steps, and the theorems.                                       *)

LEMMA flush_dirtyStep == ASSUME BcInv, NEW t \in BcThreads, flush_dirty(t)  PROVE BcInv'
  <1> DEFINE me == th[t]  idle == {s \in Unwritten(t) : ~bufs[s].busy}  busy == Unwritten(t) \ idle
             left == {b \in Blocks : disk[DevOf(t)][b] # latest[DevOf(t)][b]}
  <1>1. /\ me.pc = "flush"
        /\ \/ \E s \in idle : StartsWrite(t, s, "store")
           \/ /\ \E s \in busy : th' = [th EXCEPT ![t] = [th[t] EXCEPT !.pc = "wait", !.slot = s, !.back = "flush"]]
              /\ UNCHANGED <<bufs, lru, nextSeq, disk, latest, bcCase>>
           \/ /\ idle = {} /\ busy = {}
              /\ th' = [th EXCEPT ![t] = IF t = 0 THEN BcIdle ELSE [th[t] EXCEPT !.pc = AfterFlush(me.op), !.left = left]]
              /\ UNCHANGED <<bufs, lru, nextSeq, disk, latest, bcCase>>
    BY DEF flush_dirty
  <1>2. idle \subseteq BcSlots /\ busy \subseteq BcSlots /\ (\A s \in idle : bufs[s].dirty /\ ~bufs[s].busy) /\ (\A s \in busy : bufs[s].busy)
        /\ (idle = {} /\ busy = {} => Unwritten(t) = {})
    BY DEF Unwritten
  <1> HIDE DEF idle, busy, left
  <1>4. ASSUME NEW s \in idle, StartsWrite(t, s, "store")  PROVE BcInv'
    BY <1>1, <1>2, <1>4, StartsWriteStep
  <1>5. ASSUME NEW s \in busy, th' = [th EXCEPT ![t] = [th[t] EXCEPT !.pc = "wait", !.slot = s, !.back = "flush"]],
               UNCHANGED <<bufs, lru, nextSeq, disk, latest, bcCase>>
        PROVE  BcInv'
    <2>1. s \in BcSlots \cup {0} /\ (IF s = 0 THEN lru = <<>> ELSE bufs[s].busy)
      BY <1>2, BlocksNat
    <2> QED
      BY <1>1, <1>5, <2>1, WaitStep
  <1>6. ASSUME idle = {}, busy = {}, UNCHANGED <<bufs, lru, nextSeq, disk, latest, bcCase>>,
               th' = [th EXCEPT ![t] = IF t = 0 THEN BcIdle ELSE [th[t] EXCEPT !.pc = AfterFlush(me.op), !.left = left]]
        PROVE  BcInv'
    <2>1. CASE t = 0
      <3>1. th' = [th EXCEPT ![t] = BcIdle]
        BY <1>6, <2>1
      <3> QED
        BY <1>1, <1>6, <3>1, GoesIdle
    <2>2. CASE t # 0
      <3>1. th' = [th EXCEPT ![t] = [th[t] EXCEPT !.pc = AfterFlush(me.op), !.left = left]] /\ Unwritten(t) = {}
        BY <1>2, <1>6, <2>2
      <3>2. left = {b \in Blocks : disk[DevOf(t)][b] # latest[DevOf(t)][b]}
        BY DEF left
      <3> QED
        BY <1>1, <1>6, <2>2, <3>1, <3>2, FlushEnd
    <2> QED
      BY <2>1, <2>2
  <1> QED
    BY <1>1, <1>4, <1>5, <1>6

LEMMA bc_releaseStep == ASSUME BcInv, NEW t \in Devs, bc_release(t)  PROVE BcInv'
  <1> DEFINE me == th[t]  own == {s \in BcSlots : bufs[s].dev = t}  busy == {s \in own : bufs[s].busy}
  <1> DEFINE r == [me EXCEPT !.pc = "detached"]
  <1>0. t \in BcThreads /\ t # 0
    BY BlocksNat
  <1>1. /\ me.pc = "detach" /\ nextSeq' = nextSeq /\ disk' = disk /\ bcCase' = bcCase
        /\ \/ /\ \E s \in busy : th' = [th EXCEPT ![t] = [th[t] EXCEPT !.pc = "wait", !.slot = s, !.back = "detach"]]
              /\ UNCHANGED <<bufs, lru, latest>>
           \/ /\ busy = {} /\ bufs' = [s \in BcSlots |-> IF s \in own THEN NoBuf ELSE bufs[s]] /\ lru' = Without(lru, own)
              /\ th' = [th EXCEPT ![t] = r] /\ latest' = [latest EXCEPT ![t] = disk[t]]
    BY DEF bc_release
  <1>2. /\ th \in [BcThreads -> Thread] /\ me \in Thread /\ BufsOK(bufs) /\ LruOK(bufs, lru) /\ BusyOK(bufs, th) /\ RunsOK(bufs, t, me)
        /\ DataOK(bufs, disk, latest) /\ CallOK(me) /\ disk \in Store /\ latest \in Store /\ nextSeq \in [Devs -> Int]
        /\ bufs \in [BcSlots -> Buf] /\ bcCase \in [calls : [BcThreads -> Seq(BcCalls)], errors : Nat, vals : SUBSET Nat]
    BY <1>0, ThreadFacts DEF BufsOK
  <1>3. ASSUME NEW s \in busy, th' = [th EXCEPT ![t] = [th[t] EXCEPT !.pc = "wait", !.slot = s, !.back = "detach"]], UNCHANGED <<bufs, lru, latest>>
        PROVE  BcInv'
    <2>1. s \in BcSlots \cup {0} /\ (IF s = 0 THEN lru = <<>> ELSE bufs[s].busy)
      BY BlocksNat
    <2>2. UNCHANGED <<bufs, lru, nextSeq, disk, latest, bcCase>>
      BY <1>1, <1>3
    <2> QED
      BY <1>0, <1>1, <1>3, <2>1, <2>2, WaitStep
  <1>4. ASSUME busy = {}, bufs' = [s \in BcSlots |-> IF s \in own THEN NoBuf ELSE bufs[s]], lru' = Without(lru, own),
               th' = [th EXCEPT ![t] = r], latest' = [latest EXCEPT ![t] = disk[t]]
        PROVE  BcInv'
    <2>1. NoBuf \in Buf /\ NoBuf.dev = 0 /\ ~NoBuf.valid /\ ~NoBuf.dirty /\ ~NoBuf.busy
      BY DEF NoBuf, Buf, Data
    <2>2. /\ bufs' \in [BcSlots -> Buf]
          /\ \A x \in BcSlots : (bufs[x].dev = t => bufs'[x] = NoBuf /\ ~bufs[x].busy) /\ (bufs[x].dev # t => bufs'[x] = bufs[x])
      BY <1>2, <1>4, <2>1
    <2>3. /\ r \in Thread /\ r.pc = "detached" /\ r.run = me.run /\ r.op = me.op /\ r.blk = me.blk
      BY <1>2 DEF Thread, BcPcs
    <2> HIDE DEF r
    <2>4. th' \in [BcThreads -> Thread] /\ th'[t] = r /\ \A u \in BcThreads : u # t => th'[u] = th[u]
      BY <1>0, <1>2, <1>4, <2>3
    <2>5. BufsOK(bufs')
      BY <1>2, <2>1, <2>2 DEF BufsOK
    <2>6. lru \in Seq(BcSlots) /\ IsInjective(lru) /\ Range(lru) = {x \in BcSlots : bufs[x].dev # 0 /\ ~bufs[x].busy}
      BY <1>2 DEF LruOK
    <2>7. lru' \in Seq(BcSlots) /\ IsInjective(lru') /\ Range(lru') = Range(lru) \ own
      BY <1>4, <2>6, WithoutProperties
    <2>8. LruOK(bufs', lru')
      <3>1. Range(lru') = {x \in BcSlots : bufs'[x].dev # 0 /\ ~bufs'[x].busy}
        BY <2>1, <2>2, <2>6, <2>7
      <3> QED
        BY <2>7, <3>1 DEF LruOK
    <2>9. BusyOK(bufs', th')
      <3>1. \A u \in BcThreads : th'[u].run = th[u].run
        BY <2>3, <2>4
      <3>2. \A x \in BcSlots : bufs'[x].busy <=> bufs[x].busy
        BY <2>1, <2>2
      <3> QED
        BY <1>2, <3>1, <3>2, SameRuns
    <2>10. latest' \in Store /\ latest'[t] = disk[t] /\ \A e \in Devs : e # t => latest'[e] = latest[e]
      BY <1>2, <1>4 DEF Store
    <2>11. DataOK(bufs', disk', latest')
      <3>1. ASSUME NEW x \in BcSlots, bufs'[x].valid  PROVE bufs'[x].data = latest'[bufs'[x].dev][bufs'[x].blk]
        <4>1. bufs[x].dev # t /\ bufs'[x] = bufs[x] /\ bufs[x].valid
          BY <2>1, <2>2, <3>1
        <4>2. bufs[x].dev \in Devs
          <5>1. bufs[x].dev # 0 /\ bufs[x] \in Buf
            BY <1>2, <4>1, NotHere
          <5> QED
            BY <5>1 DEF Buf
        <4> QED
          BY <1>2, <2>10, <4>1, <4>2 DEF DataOK
      <3>2. ASSUME NEW e \in Devs, NEW b \in Blocks, disk'[e][b] # latest'[e][b]
            PROVE  \E x \in BcSlots : bufs'[x].dev = e /\ bufs'[x].blk = b /\ bufs'[x].dirty
        <4>1. e # t /\ disk[e][b] # latest[e][b]
          BY <1>1, <2>10, <3>2
        <4>2. PICK x \in BcSlots : bufs[x].dev = e /\ bufs[x].blk = b /\ bufs[x].dirty
          BY <1>2, <4>1 DEF DataOK
        <4> QED
          BY <2>2, <4>1, <4>2
      <3> QED
        BY <3>1, <3>2 DEF DataOK
    <2>12. ThreadOK(bufs', lru', disk', latest', t, th'[t])
      <3>1. RunsOK(bufs', t, r) /\ CallOK(r) /\ WaitOK(bufs', lru', r) /\ FlushOK(disk', latest', t, r) /\ ReadOK(bufs', latest', t, r)
        BY <1>1, <1>2, <2>3 DEF RunsOK, CallOK, WaitOK, FlushOK, ReadOK
      <3> QED
        BY <2>4, <3>1 DEF ThreadOK
    <2>13. ASSUME NEW u \in BcThreads, u # t  PROVE ThreadOK(bufs', lru', disk', latest', u, th'[u])
      <3>1. ThreadOK(bufs, lru, disk, latest, u, th[u]) /\ th[u] \in Thread /\ WaitOK(bufs, lru, th[u]) /\ th'[u] = th[u]
        BY <2>4, <2>13, ThreadFacts
      <3>2. \A x \in Range(th[u].run) : bufs'[x] = bufs[x]
        <4> TAKE x \in Range(th[u].run)
        <4>1. x \in BcSlots /\ bufs[x].busy
          BY <1>0, <1>2, <2>13, OtherRun
        <4> QED
          BY <2>2, <4>1
      <3>3. th[u].pc = "wait" => IF th[u].slot = 0 THEN lru' = <<>> ELSE bufs'[th[u].slot].busy
        <4>1. th[u].slot \in BcSlots \cup {0}
          BY <3>1 DEF Thread
        <4>2. lru = <<>> => lru' = <<>>
          <5>1. lru = <<>> => Range(lru) = {}
            BY <2>6, RangeIn
          <5>2. Range(lru') = {} => lru' = <<>>
            BY <2>7, RangeIn
          <5> QED
            BY <2>7, <5>1, <5>2
        <4> QED
          BY <2>2, <3>1, <4>1, <4>2 DEF WaitOK
      <3>4. u \in Devs => latest'[u] = latest[u] /\ (disk[u] = latest[u] => disk'[u] = latest[u])
        BY <1>1, <2>10, <2>13
      <3>5. th[u].pc = "raw" => \A x \in BcSlots : bufs[x].dev = u /\ bufs[x].valid =>
                                  \/ bufs[x].blk \in th[u].gone
                                  \/ bufs'[x].dev = u /\ bufs'[x].blk = bufs[x].blk /\ bufs'[x].valid
        BY <2>2, <2>13
      <3>6. ThreadOK(bufs', lru', disk', latest', u, th[u])
        BY <3>1, <3>2, <3>3, <3>4, <3>5, CarriedSame, OtherThread
      <3> QED
        BY <3>1, <3>6
    <2>14. /\ nextSeq' \in [Devs -> Int] /\ disk' \in Store
           /\ bcCase' \in [calls : [BcThreads -> Seq(BcCalls)], errors : Nat, vals : SUBSET Nat]
      BY <1>1, <1>2
    <2> QED
      BY <2>4, <2>5, <2>8, <2>9, <2>10, <2>11, <2>12, <2>13, <2>14, Assemble
  <1> QED
    BY <1>1, <1>3, <1>4

LEMMA BcInitOK == BcInit(BcCases) => BcInv
  <1> SUFFICES ASSUME BcInit(BcCases)  PROVE BcInv
    OBVIOUS
  <1>1. /\ bcCase \in BcCases /\ bufs = [s \in BcSlots |-> NoBuf] /\ lru = <<>> /\ nextSeq = [d \in Devs |-> -1]
        /\ th = [t \in BcThreads |-> BcIdle] /\ disk = [d \in Devs |-> [b \in Blocks |-> <<0, 0>>]] /\ latest = disk
    BY DEF BcInit
  <1>2. NoBuf \in Buf /\ NoBuf.dev = 0 /\ ~NoBuf.valid /\ ~NoBuf.dirty /\ ~NoBuf.busy
    BY DEF NoBuf, Buf, Data
  <1>3. disk \in Store
    <2>1. <<0, 0>> \in Data
      BY DEF Data
    <2> QED
      BY <1>1, <2>1 DEF Store
  <1>4. TypesOK
    <2>1. bcCase \in [calls : [BcThreads -> Seq(BcCalls)], errors : Nat, vals : SUBSET Nat]
      BY <1>1, BcAssumption DEF BcThreads
    <2>2. nextSeq \in [Devs -> Int] /\ th \in [BcThreads -> Thread]
      BY <1>1, IdleThread
    <2> QED
      BY <1>1, <1>3, <2>1, <2>2 DEF TypesOK
  <1>5. BufsOK(bufs)
    BY <1>1, <1>2 DEF BufsOK
  <1>6. LruOK(bufs, lru)
    <2>1. lru \in Seq(BcSlots) /\ DOMAIN lru = {}
      BY <1>1
    <2>2. Range(lru) = {} /\ IsInjective(lru)
      BY <2>1 DEF Range, IsInjective
    <2>3. {s \in BcSlots : bufs[s].dev # 0 /\ ~bufs[s].busy} = {}
      BY <1>1, <1>2
    <2> QED
      BY <2>1, <2>2, <2>3 DEF LruOK
  <1>7. BusyOK(bufs, th)
    <2>1. \A t \in BcThreads : Range(th[t].run) = {}
      <3> TAKE t \in BcThreads
      <3>1. th[t].run = <<>>
        BY <1>1, IdleThread
      <3> QED
        BY <3>1, EmptyLists, RangeIn
    <2> QED
      BY <1>1, <1>2, <2>1 DEF BusyOK
  <1>8. DataOK(bufs, disk, latest)
    BY <1>1, <1>2 DEF DataOK
  <1>9. \A t \in BcThreads : ThreadOK(bufs, lru, disk, latest, t, th[t])
    <2> TAKE t \in BcThreads
    <2>1. th[t] = BcIdle
      BY <1>1
    <2> QED
      BY <2>1, IdleThread DEF ThreadOK, RunsOK, CallOK, WaitOK, ReadOK, FlushOK
  <1> QED
    BY <1>4, <1>5, <1>6, <1>7, <1>8, <1>9 DEF BcInv

LEMMA BcStutter == ASSUME BcInv, UNCHANGED bcVars  PROVE BcInv'
  BY DEF BcInv, TypesOK, bcVars

LEMMA BcStep == ASSUME BcInv, BcNext  PROVE BcInv'
  <1>0. \A t \in Devs : t \in BcThreads
    BY BlocksNat
  <1>1. CASE flusher
    <2>1. Begin(0, [BcIdle EXCEPT !.op = "flusher", !.pc = "flush"]) /\ 0 \in BcThreads
      BY <1>1, BlocksNat DEF flusher
    <2> QED
      BY <2>1, FlushCall
  <1>2. ASSUME NEW t \in BcThreads, flush_dirty(t)  PROVE BcInv'
    BY <1>2, flush_dirtyStep
  <1>3. ASSUME NEW t \in BcThreads, NEW ok \in BOOLEAN, writeback_cluster(t, ok)  PROVE BcInv'
    BY <1>3, writeback_clusterStep
  <1>4. ASSUME NEW t \in Syncers, bc_flush(t)  PROVE BcInv'
    BY <1>4, BlocksNat, FlushCall DEF bc_flush
  <1>11. ASSUME NEW t \in BcThreads, NEW ok \in BOOLEAN, raw_flush(t, ok)  PROVE BcInv'
    BY <1>11, raw_flushStep
  <1>5. ASSUME NEW t \in Devs, Detach(t)  PROVE BcInv'
    BY <1>0, <1>5, FlushCall DEF Detach
  <1>6. ASSUME NEW t \in Devs, getblk(t) \/ direct_read(t) \/ bc_release(t)  PROVE BcInv'
    BY <1>6, getblkStep, direct_readStep, bc_releaseStep
  <1>7. ASSUME NEW t \in Devs, NEW ok \in BOOLEAN, bread(t, ok) \/ raw_read(t, ok)  PROVE BcInv'
    BY <1>7, breadStep, raw_readStep
  <1>8. ASSUME NEW t \in Devs, NEW flush \in BOOLEAN, Written(t, flush)  PROVE BcInv'
    BY <1>8, WrittenStep
  <1>9. ASSUME NEW t \in Devs, NEW flush \in BOOLEAN, NEW b \in Blocks, bc_read(t, "read", b, flush) \/ bc_read(t, "direct", b, flush)  PROVE BcInv'
    BY <1>9, bc_readStep
  <1>10. ASSUME NEW t \in Devs, NEW b \in Blocks, NEW v \in bcCase.vals, bc_write(t, "whole", b, v) \/ bc_write(t, "part", b, v)  PROVE BcInv'
    BY <1>10, bc_writeStep
  <1> QED
    BY <1>1, <1>2, <1>3, <1>4, <1>5, <1>6, <1>7, <1>8, <1>9, <1>10, <1>11 DEF BcNext

(* The inductive invariant of the buffer cache (bcache.c): it holds for any *)
(* number of devices, blocks, buffers, syncs and calls, and any number of   *)
(* errors.                                                                  *)
THEOREM BcInvHolds == BcSpec => []BcInv
  <1>1. BcInv /\ [BcNext]_bcVars => BcInv'
    BY BcStep, BcStutter
  <1> QED
    BY <1>1, BcInitOK, PTL DEF BcSpec

LEMMA SoundState == BcInv => BcacheSound
  <1> SUFFICES ASSUME BcInv  PROVE BcacheSound
    OBVIOUS
  <1>1. /\ BufsOK(bufs) /\ LruOK(bufs, lru) /\ BusyOK(bufs, th) /\ DataOK(bufs, disk, latest) /\ th \in [BcThreads -> Thread]
    BY DEF BcInv, TypesOK
  <1>2. BcTypeOK
    <2>1. \A s, x \in BcSlots : s # x /\ bufs[s].dev # 0 => <<bufs[s].dev, bufs[s].blk>> # <<bufs[x].dev, bufs[x].blk>>
      BY <1>1 DEF BufsOK
    <2>2. \A t, u \in BcThreads : t # u => Range(th[t].run) \cap Range(th[u].run) = {}
      <3>1. \A t \in BcThreads : Range(th[t].run) \subseteq BcSlots
        BY <1>1, RangeIn DEF Thread
      <3> QED
        BY <1>1, <3>1 DEF BusyOK
    <2> QED
      BY <1>1, <2>1, <2>2 DEF BcTypeOK, LruOK, BusyOK, BufsOK
  <1>3. NothingLost
    <2> SUFFICES ASSUME NEW d \in Devs, NEW b \in Blocks
                 PROVE  LET S == {s \in lookup(d, b) : bufs[s].valid}
                        IN IF S = {} THEN disk[d][b] = latest[d][b]
                           ELSE \A s \in S : bufs[s].data = latest[d][b] /\ (~bufs[s].dirty => disk[d][b] = latest[d][b])
      BY DEF NothingLost
    <2>1. ASSUME {s \in lookup(d, b) : bufs[s].valid} = {}  PROVE disk[d][b] = latest[d][b]
      <3>1. \A s \in BcSlots : ~(bufs[s].dev = d /\ bufs[s].blk = b /\ bufs[s].valid)
        BY <2>1 DEF lookup
      <3> QED
        BY <1>1, <3>1, UncachedOnDisk
    <2>2. ASSUME NEW s \in lookup(d, b), bufs[s].valid  PROVE bufs[s].data = latest[d][b] /\ (~bufs[s].dirty => disk[d][b] = latest[d][b])
      <3>1. s \in BcSlots /\ bufs[s].dev = d /\ bufs[s].blk = b /\ d # 0
        BY BlocksNat DEF lookup
      <3>2. \A x \in BcSlots : bufs[x].dev = d /\ bufs[x].blk = b => x = s
        BY <1>1, <3>1 DEF BufsOK
      <3> QED
        BY <1>1, <2>2, <3>1, <3>2 DEF DataOK
    <2> QED
      BY <2>1, <2>2
  <1>4. ReadsLatest /\ FlushDurable
    <2>1. \A d \in Devs : ReadOK(bufs, latest, d, th[d]) /\ FlushOK(disk, latest, d, th[d])
      BY BlocksNat DEF BcInv, ThreadOK
    <2>2. \A t \in BcThreads : CallOK(th[t])
      BY DEF BcInv, ThreadOK
    <2> QED
      BY <2>1, <2>2 DEF ReadsLatest, FlushDurable, ReadOK, FlushOK, CallOK
  <1>5. WaitsForBusy
    BY DEF WaitsForBusy, BcInv, ThreadOK, WaitOK
  <1> QED
    BY <1>2, <1>3, <1>4, <1>5 DEF BcacheSound

(* The buffer cache is sound: no block is cached twice and a buffer is busy *)
(* for one thread only; what was written last is in the cache or on disk; a *)
(* read returns it; a flush that succeeds has it on disk when it asks the   *)
(* device for its barrier, whoever else writes, writes back or evicts; and  *)
(* who waits, waits for a busy buffer.                                      *)
THEOREM BcacheIsSound == BcSpec => []BcacheSound
  BY BcInvHolds, SoundState, PTL
===============================================================================

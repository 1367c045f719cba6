------------------------------ MODULE PollProofs ------------------------------
(***************************************************************************)
(* Theorems about poll_wait and process_wakeup_poll as Poll models them,   *)
(* for any pollers, files and hash of sockets to bits: PollInv holds, one  *)
(* lemma per action, and with it PollSound.                                *)
(***************************************************************************)
EXTENDS Poll, FiniteSetTheorems, TLAPS

\* Every socket has a bit of its own or shared.
LEMMA BitFacts == \A f : Bit(f) \subseteq AllBits /\ (f \in Socket => Bit(f) # {})
  BY PollAssumption DEF Bit

\* Who has yet to count its event: a finite set.
LEMMA CountingFinite ==
    IsFiniteSet(Counting) /\ Cardinality(Counting) \in Nat
<1>1. Counting \subseteq File
  BY DEF Counting
<1> QED
  BY <1>1, PollAssumption, FS_Subset, FS_CardinalityType

\* A round begins: nothing is scanned yet.
LEMMA PollWaitKeeps ==
    ASSUME PollInv, NEW p \in Poller, poll_wait(p)
    PROVE  PollInv'
<1> USE PollAssumption DEF PollInv, PollSound
<1>1. /\ pc[p] \in {"idle", "again"}
      /\ seq' = [seq EXCEPT ![p] = poll_wake_seq]
      /\ poll_interest' = [poll_interest EXCEPT ![p] = AllBits]
      /\ todo' = [todo EXCEPT ![p] = watch[p]]
      /\ pc' = [pc EXCEPT ![p] = "scan"]
      /\ UNCHANGED <<watch, ready, poll_wake_seq, count, acc, state, armed, firing, notify, early>>
  BY DEF poll_wait, ReadSeq, Goto, timers, inputs, locals
<1>2. TypeOK'
  <2>1. seq' \in [Poller -> 0 .. MaxSeq]
    BY <1>1 DEF TypeOK
  <2>2. todo' \in [Poller -> SUBSET File]
    BY <1>1 DEF TypeOK, SeqInv
  <2>3. poll_interest' \in [Poller -> SUBSET AllBits]
    BY <1>1 DEF TypeOK
  <2>4. pc' \in [Poller -> {"idle", "scan", "sleep", "woken", "eintr", "again", "events", "expired"}]
    BY <1>1 DEF TypeOK
  <2> QED
    BY <1>1, <2>1, <2>2, <2>3, <2>4 DEF TypeOK
<1>3. NoLostEvent'
  BY <1>1 DEF NoLostEvent, Concerned, TypeOK
<1>4. SleepIsTimed'
  BY <1>1 DEF SleepIsTimed, TypeOK
<1>5. SeqInv'
  BY <1>1 DEF SeqInv, Counting, TypeOK
<1>6. ScanInv'
  BY <1>1 DEF ScanInv, TypeOK
<1>7. SleepInv'
  BY <1>1 DEF SleepInv, Concerned, Interest, TypeOK
<1> QED
  BY <1>2, <1>3, <1>4, <1>5, <1>6, <1>7

\* A file found ready makes the count positive.
LEMMA ScanFileKeeps ==
    ASSUME PollInv, NEW p \in Poller, scan_file(p)
    PROVE  PollInv'
<1> USE PollAssumption DEF PollInv, PollSound
<1>1. PICK f \in todo[p] :
        /\ pc[p] = "scan" /\ todo' = [todo EXCEPT ![p] = todo[p] \ {f}]
        /\ count' = [count EXCEPT ![p] = IF ready[f] THEN count[p] + 1 ELSE count[p]]
        /\ acc' = [acc EXCEPT ![p] = IF f \in Socket THEN acc[p] \cup Bit(f) ELSE acc[p]]
        /\ UNCHANGED <<watch, ready, poll_wake_seq, pc, seq, poll_interest, state, armed, firing, notify, early>>
  BY DEF scan_file, timers, inputs
<1>2. f \in File
  BY DEF TypeOK
<1>3. TypeOK'
  <2>1. todo' \in [Poller -> SUBSET File]
    BY <1>1 DEF TypeOK
  <2>2. count' \in [Poller -> Nat]
    BY <1>1 DEF TypeOK
  <2>3. acc' \in [Poller -> SUBSET AllBits]
    BY <1>1, BitFacts DEF TypeOK
  <2> QED
    BY <1>1, <2>1, <2>2, <2>3 DEF TypeOK
<1>4. NoLostEvent'
  BY <1>1 DEF NoLostEvent, Concerned
<1>5. SleepIsTimed'
  BY <1>1 DEF SleepIsTimed
<1>6. SeqInv'
  BY <1>1 DEF SeqInv, Counting
<1>7. ScanInv'
  <2>1. ASSUME NEW q \in Poller, NEW g \in watch[q], seq[q] = poll_wake_seq, ready[g],
               \/ pc[q] = "scan" /\ count'[q] = 0 /\ g \notin todo'[q]
               \/ pc[q] = "sleep"
        PROVE  notify[g] = "count"
    <3>1. CASE q # p
      BY <1>1, <2>1, <3>1 DEF ScanInv, TypeOK
    <3>2. CASE q = p /\ g = f
      BY <1>1, <2>1, <3>2 DEF TypeOK
    <3>3. CASE q = p /\ g # f
      <4>1. count[p] \in Nat /\ count'[p] = 0 /\ g \notin todo[p]
        BY <1>1, <2>1, <3>3 DEF TypeOK
      <4>2. count[p] = 0
        BY <1>1, <4>1 DEF TypeOK
      <4> QED
        BY <1>1, <2>1, <3>3, <4>1, <4>2 DEF ScanInv
    <3> QED
      BY <3>1, <3>2, <3>3
  <2>2. ASSUME NEW q \in Poller, NEW g \in watch[q] \cap Socket,
               pc[q] = "scan", g \notin todo'[q]
        PROVE  Bit(g) \subseteq acc'[q]
    BY <1>1, <2>2 DEF ScanInv, TypeOK
  <2> QED
    BY <1>1, <2>1, <2>2 DEF ScanInv
<1>8. SleepInv'
  BY <1>1 DEF SleepInv, Concerned, Interest
<1> QED
  BY <1>3, <1>4, <1>5, <1>6, <1>7, <1>8

\* With no event found, a wake that is yet to come moves the number.
LEMMA ScanEndKeeps ==
    ASSUME PollInv, NEW p \in Poller, scan_end(p)
    PROVE  PollInv'
<1> USE PollAssumption DEF PollInv, PollSound
<1>1. /\ pc[p] = "scan" /\ todo[p] = {}
      /\ poll_interest' = IF p \in Epoll THEN [poll_interest EXCEPT ![p] = acc[p]] ELSE poll_interest
      /\ count' = [count EXCEPT ![p] = 0] /\ acc' = [acc EXCEPT ![p] = {}]
      /\ UNCHANGED <<watch, ready, poll_wake_seq, seq, todo, state, firing, notify, early>>
  BY DEF scan_end, inputs
<1>2. \/ /\ pc' = [pc EXCEPT ![p] = "events"] /\ UNCHANGED armed
      \/ /\ pc' = [pc EXCEPT ![p] = "expired"] /\ UNCHANGED armed
      \/ /\ count[p] = 0 /\ pc' = [pc EXCEPT ![p] = "sleep"] /\ armed' = [armed EXCEPT ![p] = TRUE]
  BY DEF scan_end, Goto, Arm
<1>3. \A q \in Poller : q # p => pc'[q] = pc[q] /\ armed'[q] = armed[q]
  BY <1>2 DEF TypeOK
<1>4. pc'[p] \in {"events", "expired", "sleep"}
  BY <1>2 DEF TypeOK
<1>5. pc'[p] = "sleep" => count[p] = 0 /\ armed'[p]
  BY <1>2 DEF TypeOK
<1>6. TypeOK'
  <2>1. pc' \in [Poller -> {"idle", "scan", "sleep", "woken", "eintr", "again", "events", "expired"}]
    BY <1>2 DEF TypeOK
  <2>2. armed' \in [Poller -> BOOLEAN]
    BY <1>2 DEF TypeOK
  <2>3. count' \in [Poller -> Nat]
    BY <1>1 DEF TypeOK
  <2>4. acc' \in [Poller -> SUBSET AllBits]
    BY <1>1 DEF TypeOK
  <2>5. poll_interest' \in [Poller -> SUBSET AllBits]
    BY <1>1 DEF TypeOK
  <2> QED
    BY <1>1, <2>1, <2>2, <2>3, <2>4, <2>5 DEF TypeOK
<1>7. NoLostEvent'
  BY <1>1 DEF NoLostEvent, Concerned
<1>8. SleepIsTimed'
  BY <1>1, <1>3 DEF SleepIsTimed, SleepInv
<1>9. SeqInv'
  BY <1>1 DEF SeqInv, Counting
<1>10. ScanInv'
  <2>1. ASSUME NEW q \in Poller, NEW g \in watch[q], seq[q] = poll_wake_seq, ready[g],
               \/ pc'[q] = "scan" /\ count'[q] = 0 /\ g \notin todo[q]
               \/ pc'[q] = "sleep"
        PROVE  notify[g] = "count"
    <3>1. CASE q # p
      BY <1>1, <1>3, <2>1, <3>1 DEF ScanInv, TypeOK
    <3>2. CASE q = p
      BY <1>1, <1>4, <1>5, <2>1, <3>2 DEF ScanInv
    <3> QED
      BY <3>1, <3>2
  <2>2. ASSUME NEW q \in Poller, NEW g \in watch[q] \cap Socket,
               pc'[q] = "scan", g \notin todo[q]
        PROVE  Bit(g) \subseteq acc'[q]
    <3>1. q # p
      BY <1>4, <2>2
    <3> QED
      BY <1>1, <1>3, <2>2, <3>1 DEF ScanInv, TypeOK
  <2> QED
    BY <1>1, <2>1, <2>2 DEF ScanInv
<1>11. SleepInv'
  <2> SUFFICES ASSUME NEW q \in Poller
               PROVE  /\ state'[q] = "SLEEPING" => pc'[q] = "woken"
                      /\ pc'[q] = "scan" => poll_interest'[q] = AllBits
                      /\ pc'[q] \in {"sleep", "woken"} /\ Concerned(q)'
                            => \A f \in watch'[q] : poll_interest'[q] \cap Interest(f) # {}
                      /\ pc'[q] = "sleep" /\ ~early' => armed'[q]
    BY DEF SleepInv, Interest
  <2>1. CASE q # p
    BY <1>1, <1>3, <2>1 DEF SleepInv, Concerned, TypeOK
  <2>2. CASE q = p
    <3>1. state[p] # "SLEEPING"
      BY <1>1 DEF SleepInv
    <3>2. ASSUME Concerned(p), NEW f \in watch[p] PROVE poll_interest'[p] \cap Interest(f) # {}
      <4>1. f \in File /\ watch[p] \subseteq File
        BY DEF SeqInv
      <4>2. CASE p \notin Epoll
        <5>1. poll_interest'[p] = AllBits
          BY <1>1, <4>2 DEF SleepInv
        <5> QED
          BY <5>1, <4>1, BitFacts DEF Interest
      <4>3. CASE p \in Epoll
        <5>1. poll_interest'[p] = acc[p] /\ acc[p] \subseteq AllBits
          BY <1>1, <4>3 DEF TypeOK
        <5>2. \A g \in watch[p] \cap Socket : Bit(g) \subseteq acc[p] /\ Bit(g) # {}
          BY <1>1, BitFacts DEF ScanInv
        <5>3. CASE f \in Socket
          BY <5>1, <5>2, <5>3 DEF Interest
        <5>4. CASE f \notin Socket
          <6>1. PICK g \in watch[p] \cap Socket : TRUE
            BY <3>2, <4>3 DEF Concerned
          <6> QED
            BY <5>1, <5>2, <5>4, <6>1 DEF Interest
        <5> QED
          BY <5>3, <5>4
      <4> QED
        BY <4>2, <4>3
    <3> QED
      BY <1>1, <1>4, <1>5, <2>2, <3>1, <3>2 DEF Concerned
  <2> QED
    BY <2>1, <2>2
<1> QED
  BY <1>6, <1>7, <1>8, <1>9, <1>10, <1>11

\* It sleeps only if the number has not moved since the scan.
LEMMA SleepPollKeeps ==
    ASSUME PollInv, NEW p \in Poller, process_sleep_poll(p)
    PROVE  PollInv'
<1> USE PollAssumption DEF PollInv, PollSound
<1>1. /\ pc[p] = "sleep"
      /\ seq' = [seq EXCEPT ![p] = 0]
      /\ state' = [state EXCEPT ![p] = IF seq[p] = poll_wake_seq THEN "SLEEPING" ELSE state[p]]
      /\ pc' = [pc EXCEPT ![p] = "woken"]
      /\ UNCHANGED <<watch, ready, poll_wake_seq, todo, count, acc, poll_interest, armed, firing, notify, early>>
  BY DEF process_sleep_poll, Goto, timers, inputs, locals
<1>2. TypeOK'
  BY <1>1 DEF TypeOK
<1>3. NoLostEvent'
  <2> SUFFICES ASSUME NEW q \in Poller, NEW f \in watch[q],
                      state'[q] = "SLEEPING", Concerned(q), ready[f]
               PROVE  notify[f] # "none"
    BY <1>1 DEF NoLostEvent, Concerned
  <2>1. CASE q = p
    <3>1. seq[p] = poll_wake_seq
      BY <1>1, <2>1 DEF SleepInv, TypeOK
    <3> QED
      BY <1>1, <2>1, <3>1 DEF ScanInv
  <2>2. CASE q # p
    BY <1>1, <2>2 DEF NoLostEvent, TypeOK
  <2> QED
    BY <2>1, <2>2
<1>4. SleepIsTimed'
  BY <1>1 DEF SleepIsTimed, SleepInv, TypeOK
<1>5. SeqInv'
  BY <1>1 DEF SeqInv, Counting, TypeOK
<1>6. ScanInv'
  BY <1>1 DEF ScanInv, TypeOK
<1>7. SleepInv'
  BY <1>1 DEF SleepInv, Concerned, Interest, TypeOK
<1> QED
  BY <1>2, <1>3, <1>4, <1>5, <1>6, <1>7

\* A signal ends the sleep.
LEMMA InterruptKeeps ==
    ASSUME PollInv, NEW p \in Poller, process_interrupt(p)
    PROVE  PollInv'
<1> USE PollAssumption DEF PollInv, PollSound
<1>1. /\ pc[p] \in {"sleep", "woken"}
      /\ state' = [state EXCEPT ![p] = "RUNNING"]
      /\ pc' = [pc EXCEPT ![p] = "eintr"]
      /\ UNCHANGED <<watch, ready, poll_wake_seq, seq, todo, count, acc, poll_interest, armed, firing, notify, early>>
  BY DEF process_interrupt, Goto, timers, inputs, locals
<1>2. TypeOK'
  BY <1>1 DEF TypeOK
<1>3. NoLostEvent'
  BY <1>1 DEF NoLostEvent, Concerned, TypeOK
<1>4. SleepIsTimed'
  BY <1>1 DEF SleepIsTimed, TypeOK
<1>5. SeqInv'
  BY <1>1 DEF SeqInv, Counting, TypeOK
<1>6. ScanInv'
  BY <1>1 DEF ScanInv, TypeOK
<1>7. SleepInv'
  BY <1>1 DEF SleepInv, Concerned, Interest, TypeOK
<1> QED
  BY <1>2, <1>3, <1>4, <1>5, <1>6, <1>7

\* The timer is stopped only when nobody sleeps on it.
LEMMA WokenKeeps ==
    ASSUME PollInv, NEW p \in Poller, poll_woken(p)
    PROVE  PollInv'
<1> USE PollAssumption DEF PollInv, PollSound
<1>1. /\ pc[p] \in {"woken", "eintr"}
      /\ state[p] = "RUNNING"
      /\ armed' = [armed EXCEPT ![p] = FALSE]
      /\ pc' = [pc EXCEPT ![p] = IF pc[p] = "woken" THEN "again" ELSE "expired"]
      /\ poll_interest' = [poll_interest EXCEPT ![p] = {}]
      /\ UNCHANGED <<watch, ready, poll_wake_seq, seq, todo, count, acc, state, firing, notify, early>>
  BY DEF poll_woken, Goto, timers, inputs, locals
<1>2. TypeOK'
  BY <1>1 DEF TypeOK
<1>3. NoLostEvent'
  BY <1>1 DEF NoLostEvent, Concerned, TypeOK
<1>4. SleepIsTimed'
  BY <1>1 DEF SleepIsTimed, TypeOK
<1>5. SeqInv'
  BY <1>1 DEF SeqInv, Counting, TypeOK
<1>6. ScanInv'
  BY <1>1 DEF ScanInv, TypeOK
<1>7. SleepInv'
  BY <1>1 DEF SleepInv, Concerned, Interest, TypeOK
<1> QED
  BY <1>2, <1>3, <1>4, <1>5, <1>6, <1>7

\* Files become unready only.
LEMMA DoneKeeps ==
    ASSUME PollInv, NEW p \in Poller, poll_done(p)
    PROVE  PollInv'
<1> USE PollAssumption DEF PollInv, PollSound
<1>1. /\ pc[p] \in {"events", "expired"} /\ pc' = [pc EXCEPT ![p] = "idle"]
      /\ UNCHANGED <<watch, poll_wake_seq, seq, todo, count, acc, poll_interest, state, armed, firing, notify, early>>
  BY DEF poll_done, Goto, timers, inputs, locals
<1>2. PICK used \in SUBSET watch[p] :
        ready' = [f \in File |-> ready[f] /\ ~(pc[p] = "events" /\ f \in used)]
  BY DEF poll_done
<1>3. \A f \in File : ready'[f] => ready[f]
  BY <1>2
<1>4. ready' \in [File -> BOOLEAN]
  BY <1>2 DEF TypeOK
<1>5. \A q \in Poller : watch[q] \subseteq File
  BY DEF SeqInv
<1>6. TypeOK'
  BY <1>1, <1>4 DEF TypeOK
<1>7. NoLostEvent'
  BY <1>1, <1>3, <1>5 DEF NoLostEvent, Concerned
<1>8. SleepIsTimed'
  BY <1>1 DEF SleepIsTimed
<1>9. SeqInv'
  BY <1>1 DEF SeqInv, Counting
<1>10. ScanInv'
  BY <1>1, <1>3, <1>5 DEF ScanInv, TypeOK
<1>11. SleepInv'
  BY <1>1 DEF SleepInv, Concerned, Interest, TypeOK
<1> QED
  BY <1>6, <1>7, <1>8, <1>9, <1>10, <1>11

\* The timer of a sleeper passes from the wheel to the handler.
LEMMA DispatchKeeps ==
    ASSUME PollInv, NEW p \in Poller, timer_dispatch(p)
    PROVE  PollInv'
<1> USE PollAssumption DEF PollInv, PollSound
<1>1. /\ armed[p]
      /\ firing = {}
      /\ early \/ pc[p] # "sleep"
      /\ armed' = [armed EXCEPT ![p] = FALSE]
      /\ firing' = {p}
      /\ UNCHANGED <<watch, ready, poll_wake_seq, pc, seq, todo, count, acc, poll_interest, state, notify, early>>
  BY DEF timer_dispatch, timers, inputs, locals
<1>2. TypeOK'
  BY <1>1 DEF TypeOK
<1>3. NoLostEvent'
  BY <1>1 DEF NoLostEvent, Concerned, TypeOK
<1>4. SleepIsTimed'
  BY <1>1 DEF SleepIsTimed, TypeOK
<1>5. SeqInv'
  BY <1>1 DEF SeqInv, Counting, TypeOK
<1>6. ScanInv'
  BY <1>1 DEF ScanInv, TypeOK
<1>7. SleepInv'
  BY <1>1 DEF SleepInv, Concerned, Interest, TypeOK
<1> QED
  BY <1>2, <1>3, <1>4, <1>5, <1>6, <1>7

\* The handler wakes its process.
LEMMA TimeoutKeeps ==
    ASSUME PollInv, NEW p \in Poller, sleep_timeout(p)
    PROVE  PollInv'
<1> USE PollAssumption DEF PollInv, PollSound
<1>1. /\ firing' = firing \ {p}
      /\ state' = [state EXCEPT ![p] = "RUNNING"]
      /\ UNCHANGED <<watch, ready, poll_wake_seq, pc, seq, todo, count, acc, poll_interest, armed, notify, early>>
  BY DEF sleep_timeout, timers, inputs, locals
<1>2. TypeOK'
  BY <1>1 DEF TypeOK
<1>3. NoLostEvent'
  BY <1>1 DEF NoLostEvent, Concerned, TypeOK
<1>4. SleepIsTimed'
  BY <1>1 DEF SleepIsTimed, TypeOK
<1>5. SeqInv'
  BY <1>1 DEF SeqInv, Counting, TypeOK
<1>6. ScanInv'
  BY <1>1 DEF ScanInv, TypeOK
<1>7. SleepInv'
  BY <1>1 DEF SleepInv, Concerned, Interest, TypeOK
<1> QED
  BY <1>2, <1>3, <1>4, <1>5, <1>6, <1>7

\* A file that becomes ready has yet to count its event.
LEMMA FileEventKeeps ==
    ASSUME PollInv, NEW f \in File, file_event(f)
    PROVE  PollInv'
<1> USE PollAssumption DEF PollInv, PollSound
<1>1. /\ notify[f] = "none"
      /\ ~ready[f]
      /\ poll_wake_seq + Cardinality(Counting) < MaxSeq
      /\ ready' = [ready EXCEPT ![f] = TRUE]
      /\ notify' = [notify EXCEPT ![f] = "count"]
      /\ UNCHANGED <<watch, poll_wake_seq, pc, seq, todo, count, acc, poll_interest, state, armed, firing, early>>
  BY DEF file_event, Counting, timers, inputs, locals
<1>2. TypeOK'
  BY <1>1 DEF TypeOK
<1>3. NoLostEvent'
  BY <1>1 DEF NoLostEvent, Concerned, TypeOK
<1>4. SleepIsTimed'
  BY <1>1 DEF SleepIsTimed, TypeOK
<1>5. SeqInv'
  <2>1. Counting' = Counting \cup {f} /\ f \notin Counting
    BY <1>1 DEF Counting, TypeOK
  <2>2. Cardinality(Counting') = Cardinality(Counting) + 1
    BY <2>1, CountingFinite, FS_AddElement
  <2>3. poll_wake_seq + Cardinality(Counting') <= MaxSeq
    BY <1>1, <2>2, CountingFinite DEF TypeOK
  <2> QED
    BY <1>1, <2>3 DEF SeqInv
<1>6. ScanInv'
  BY <1>1 DEF ScanInv, TypeOK
<1>7. SleepInv'
  BY <1>1 DEF SleepInv, Concerned, Interest, TypeOK
<1> QED
  BY <1>2, <1>3, <1>4, <1>5, <1>6, <1>7

\* Moving the number outdates every scan under way.
LEMMA WakeSeqKeeps ==
    ASSUME PollInv, NEW f \in File, wakeup_poll_seq(f)
    PROVE  PollInv'
<1> USE PollAssumption DEF PollInv, PollSound
<1>1. /\ notify[f] = "count"
      /\ poll_wake_seq' = poll_wake_seq + 1
      /\ notify' = [notify EXCEPT ![f] = "wake"]
      /\ UNCHANGED <<watch, ready, pc, seq, todo, count, acc, poll_interest, state, armed, firing, early>>
  BY DEF wakeup_poll_seq, timers, inputs, locals
<1>2. TypeOK'
  <2>1. f \in Counting
    BY <1>1 DEF Counting
  <2>2. Cardinality(Counting) # 0
    BY <2>1, CountingFinite, FS_EmptySet
  <2>3. poll_wake_seq' \in 0 .. MaxSeq
    BY <1>1, <2>2, CountingFinite DEF TypeOK, SeqInv
  <2>4. notify' \in [File -> {"none", "count", "wake"}]
    BY <1>1 DEF TypeOK
  <2> QED
    BY <1>1, <2>3, <2>4 DEF TypeOK
<1>3. NoLostEvent'
  BY <1>1 DEF NoLostEvent, Concerned, TypeOK
<1>4. SleepIsTimed'
  BY <1>1 DEF SleepIsTimed, TypeOK
<1>5. SeqInv'
  <2>1. Counting' = Counting \ {f} /\ f \in Counting
    BY <1>1 DEF Counting, TypeOK
  <2>2. Cardinality(Counting') = Cardinality(Counting) - 1
    BY <2>1, CountingFinite, FS_RemoveElement
  <2>3. poll_wake_seq' + Cardinality(Counting') <= MaxSeq
    BY <1>1, <2>2, CountingFinite DEF TypeOK, SeqInv
  <2>4. \A q \in Poller : seq'[q] <= poll_wake_seq'
    BY <1>1 DEF TypeOK, SeqInv
  <2> QED
    BY <1>1, <2>3, <2>4 DEF SeqInv
<1>6. ScanInv'
  <2>1. \A q \in Poller : seq'[q] # poll_wake_seq'
    BY <1>1 DEF SeqInv, TypeOK
  <2> QED
    BY <1>1, <2>1 DEF ScanInv
<1>7. SleepInv'
  BY <1>1 DEF SleepInv, Concerned, Interest, TypeOK
<1> QED
  BY <1>2, <1>3, <1>4, <1>5, <1>6, <1>7

\* Whoever sleeps on and watches the file would have been woken.
LEMMA WakePollKeeps ==
    ASSUME PollInv, NEW f \in File, process_wakeup_poll(f)
    PROVE  PollInv'
<1> USE PollAssumption DEF PollInv, PollSound
<1>1. /\ notify[f] = "wake"
      /\ state' = [q \in Poller |-> IF poll_interest[q] \cap Interest(f) # {} THEN "RUNNING" ELSE state[q]]
      /\ notify' = [notify EXCEPT ![f] = "none"]
      /\ UNCHANGED <<watch, ready, poll_wake_seq, pc, seq, todo, count, acc, poll_interest, armed, firing, early>>
  BY DEF process_wakeup_poll, timers, inputs, locals
<1>2. TypeOK'
  BY <1>1 DEF TypeOK
<1>3. NoLostEvent'
  <2> SUFFICES ASSUME NEW q \in Poller, NEW g \in watch[q],
                      state'[q] = "SLEEPING", Concerned(q), ready[g]
               PROVE  notify'[g] # "none"
    BY <1>1 DEF NoLostEvent, Concerned
  <2>1. state[q] = "SLEEPING" /\ poll_interest[q] \cap Interest(f) = {}
    BY <1>1 DEF TypeOK
  <2>2. g # f
    BY <2>1 DEF SleepInv
  <2>3. notify[g] # "none" /\ g \in File
    BY <2>1 DEF NoLostEvent, SeqInv
  <2> QED
    BY <1>1, <2>2, <2>3 DEF TypeOK
<1>4. SleepIsTimed'
  BY <1>1 DEF SleepIsTimed, TypeOK
<1>5. SeqInv'
  BY <1>1 DEF SeqInv, Counting, TypeOK
<1>6. ScanInv'
  BY <1>1 DEF ScanInv, TypeOK
<1>7. SleepInv'
  BY <1>1 DEF SleepInv, Concerned, Interest, TypeOK
<1> QED
  BY <1>2, <1>3, <1>4, <1>5, <1>6, <1>7

\* The initial states satisfy the invariant.
LEMMA InvInit == Init => PollInv
<1> SUFFICES ASSUME Init PROVE PollInv
  OBVIOUS
<1> USE PollAssumption DEF Init
<1>1. TypeOK
  <2>1. pc \in [Poller -> {"idle", "scan", "sleep", "woken", "eintr", "again", "events", "expired"}]
    OBVIOUS
  <2>2. poll_wake_seq \in 0 .. MaxSeq /\ seq \in [Poller -> 0 .. MaxSeq] /\ count \in [Poller -> Nat]
    OBVIOUS
  <2>3. /\ todo \in [Poller -> SUBSET File] /\ acc \in [Poller -> SUBSET AllBits]
        /\ poll_interest \in [Poller -> SUBSET AllBits]
    OBVIOUS
  <2>4. ready \in [File -> BOOLEAN] /\ armed \in [Poller -> BOOLEAN] /\ early \in BOOLEAN
    OBVIOUS
  <2>5. state \in [Poller -> {"RUNNING", "SLEEPING"}] /\ firing \subseteq Poller
    OBVIOUS
  <2>6. notify \in [File -> {"none", "count", "wake"}]
    OBVIOUS
  <2> QED
    BY <2>1, <2>2, <2>3, <2>4, <2>5, <2>6 DEF TypeOK
<1>2. NoLostEvent /\ SleepIsTimed
  BY DEF NoLostEvent, SleepIsTimed
<1>3. SeqInv
  <2>1. Counting = {}
    BY DEF Counting
  <2>2. Cardinality(Counting) = 0
    BY <2>1, FS_EmptySet
  <2> QED
    BY <2>2 DEF SeqInv
<1>4. ScanInv
  BY DEF ScanInv
<1>5. SleepInv
  BY DEF SleepInv
<1> QED
  BY <1>1, <1>2, <1>3, <1>4, <1>5 DEF PollInv, PollSound

\* A step that changes nothing keeps it.
LEMMA StutterKeeps ==
    ASSUME PollInv, UNCHANGED vars
    PROVE  PollInv'
<1> USE DEF PollInv, PollSound, vars, timers, inputs, locals
<1>1. TypeOK' /\ NoLostEvent' /\ SleepIsTimed'
  BY DEF TypeOK, NoLostEvent, SleepIsTimed, Concerned
<1>2. SeqInv'
  BY DEF SeqInv, Counting
<1>3. ScanInv'
  BY DEF ScanInv
<1>4. SleepInv'
  BY DEF SleepInv, Concerned, Interest
<1> QED
  BY <1>1, <1>2, <1>3, <1>4

\* Every reachable state satisfies the inductive invariant, however many pollers
\* and files there are and whatever bits the sockets hash to.
THEOREM PollInvHolds == Spec => []PollInv
<1>1. PollInv /\ [Next]_vars => PollInv'
  <2> SUFFICES ASSUME PollInv, [Next]_vars PROVE PollInv'
    OBVIOUS
  <2>1. ASSUME NEW p \in Poller, Step(p) PROVE PollInv'
    BY <2>1, PollWaitKeeps, ScanFileKeeps, ScanEndKeeps, SleepPollKeeps, WokenKeeps DEF Step
  <2>2. ASSUME NEW p \in Poller,
               \/ poll_done(p) \/ process_interrupt(p) \/ timer_dispatch(p) \/ sleep_timeout(p)
        PROVE  PollInv'
    BY <2>2, DoneKeeps, InterruptKeeps, DispatchKeeps, TimeoutKeeps
  <2>3. ASSUME NEW f \in File,
               \/ file_event(f) \/ wakeup_poll_seq(f) \/ process_wakeup_poll(f)
        PROVE  PollInv'
    BY <2>3, FileEventKeeps, WakeSeqKeeps, WakePollKeeps
  <2>4. CASE UNCHANGED vars
    BY <2>4, StutterKeeps
  <2> QED
    BY <2>1, <2>2, <2>3, <2>4 DEF Next
<1> QED
  BY <1>1, InvInit, PTL DEF Spec

\* poll_wait loses no event: although it scans its files without a lock, and an
\* epoll narrows its interest to the bits of its sockets, nobody sleeps on while
\* a file it watches is ready and the wakeup for it over, and whoever sleeps has
\* its recheck timer set unless that can go off before the sleep.
THEOREM PollIsSound == Spec => []PollSound
<1>1. PollInv => PollSound
  BY DEF PollInv
<1> QED
  BY <1>1, PollInvHolds, PTL

===============================================================================

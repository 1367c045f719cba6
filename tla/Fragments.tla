------------------------------ MODULE Fragments ------------------------------
(* Fragments of IPv4 and IPv6 datagrams: what a sender makes of a datagram   *)
(* and the receiver's reassembly queues, over a network that loses, repeats  *)
(* and reorders.  Lengths and offsets count units of eight bytes; a unit of  *)
(* data is the name of its datagram and its place in it.  A step is one      *)
(* fragment handled by ipv4_input or ipv6_input, a run of the timer, or an   *)
(* interface that goes; all of them under the net lock.                      *)
EXTENDS Integers, Sequences, FiniteSets, SequencesExt

CONSTANTS
  MaxQueues,      \* IPV4_REASSEMBLE_MAX_QUEUES
  MaxFrags,       \* IPV4_REASSEMBLE_MAX_FRAGS
  MaxUnits,       \* the longest payload
  FragTimeout,    \* IPV4_REASSEMBLE_TIMEOUT_S in runs of the timer
  FragIfs,
  MaxFragTime,
  FragCases       \* scenarios: version, the fragments that may come, how many steps

VARIABLES
  fragQ,       \* the queues, oldest first
  fragUp,      \* interfaces that are attached
  fragDone,   \* ghost: datagrams handed to the protocols
  fragBuf,     \* ghost: buffers received, freed and delivered
  fragNow, fragCase
fragVars == <<fragQ, fragUp, fragDone, fragBuf, fragNow, fragCase>>

FragInit(cases) ==
  /\ fragQ = <<>> /\ fragUp = FragIfs /\ fragDone = {}
  /\ fragBuf = [in |-> 0, freed |-> 0, out |-> 0]
  /\ fragNow = 0 /\ fragCase \in cases

-----------------------------------------------------------------------------
(* The sender: a datagram d of d.len units in fragments of chunk units. *)

Units(d, off, len) == [i \in 1..len |-> <<d.name, off + i - 1>>]
FragmentAt(d, off, chunk) ==
  LET len == IF off + chunk >= d.len THEN d.len - off ELSE chunk
  IN [key |-> d.key, off |-> off, cells |-> Units(d, off, len), more |-> off + len < d.len, odd |-> FALSE]
ipv4_fragment(d, chunk) == {FragmentAt(d, k * chunk, chunk) : k \in {j \in 0..(d.len - 1) : j * chunk < d.len}}
(* IPv6 cuts what follows the part that every fragment repeats. *)
ipv6_fragment(d, chunk) == {FragmentAt(d, k * chunk, chunk) : k \in {j \in 0..(d.len - 1) : j * chunk < d.len}}

-----------------------------------------------------------------------------
End(f) == f.off + Len(f.cells)
Buffers(q) == Len(q.frags)
ipv4_reassemble_find(key) == {i \in DOMAIN fragQ : fragQ[i].key = key}
NewQueue(key) == [key |-> key, frags |-> <<>>, total |-> 0, expires |-> fragNow + FragTimeout, born |-> fragNow,
                  first |-> FALSE, nif |-> "none"]
QueueOf(key) == IF ipv4_reassemble_find(key) = {} THEN NewQueue(key) ELSE fragQ[CHOOSE i \in ipv4_reassemble_find(key) : TRUE]
Others(key) == SelectSeq(fragQ, LAMBDA q : q.key # key)
(* A new queue pushes out the oldest when there are too many. *)
Evicts(key) == ipv4_reassemble_find(key) = {} /\ Len(fragQ) >= MaxQueues
Base(key) == IF Evicts(key) THEN Tail(fragQ) ELSE fragQ
Evicted(key) == IF Evicts(key) THEN Buffers(Head(fragQ)) ELSE 0
(* A queue that gets a fragment keeps its time. *)
Stored(q) == IF ipv4_reassemble_find(q.key) = {} THEN Append(Base(q.key), q)
             ELSE [i \in DOMAIN fragQ |-> IF fragQ[i].key = q.key THEN q ELSE fragQ[i]]
Without4(key) == IF ipv4_reassemble_find(key) = {} THEN Base(key) ELSE Others(key)

(* Faulty variant: a hole in the data does not matter. *)
HolesIgnored(q) == q.total # 0 /\ q.frags # <<>> /\ Head(q.frags).off = 0 /\ End(Last(q.frags)) = q.total
(* The fragments follow one another from 0 to the end. *)
ipv4_reassemble_complete(q) ==
  /\ q.total # 0 /\ q.frags # <<>> /\ Head(q.frags).off = 0
  /\ \A i \in 1..(Len(q.frags) - 1) : End(q.frags[i]) = q.frags[i + 1].off
  /\ End(Last(q.frags)) = q.total
ipv6_reassemble_complete(q) == q.first /\ ipv4_reassemble_complete(q)
Whole(q) == FoldLeft(LAMBDA acc, f : acc \o f.cells, <<>>, q.frags)

Outcome(queues, freed, whole, nif) ==
  /\ fragQ' = queues
  /\ fragBuf' = [in |-> fragBuf.in + 1, freed |-> fragBuf.freed + freed,
                 out |-> fragBuf.out + IF whole = {} THEN 0 ELSE Buffers(CHOOSE q \in whole : TRUE)]
  /\ fragDone' = fragDone \cup {[key |-> q.key, cells |-> Whole(q), total |-> q.total, alive |-> nif \in fragUp] : q \in whole}
  /\ UNCHANGED <<fragUp, fragNow>>
Refused == Outcome(fragQ, 1, {}, "none")
DropFragment(q) == Outcome(Stored(q), 1 + Evicted(q.key), {}, "none")
DropQueue(q) == Outcome(Without4(q.key), 1 + Buffers(q) + Evicted(q.key), {}, "none")
Accept(q, done, nif) == Outcome(IF done THEN Without4(q.key) ELSE Stored(q), Evicted(q.key), IF done THEN {q} ELSE {}, nif)

FragStep(op) == op \in fragCase.ops /\ fragCase.left > 0 /\ fragCase' = [fragCase EXCEPT !.left = @ - 1]

(* IPv4: a fragment is cut to what is missing, in front and behind. *)
ipv4_reassemble(f, nif) ==
  LET old == QueueOf(f.key)
      len == Len(f.cells)
      q == [old EXCEPT !.total = IF f.more THEN @ ELSE End(f)]
      before == SelectSeq(q.frags, LAMBDA x : x.off < f.off)
      after == SelectSeq(q.frags, LAMBDA x : x.off >= f.off)
      front == IF before # <<>> /\ End(Last(before)) > f.off THEN End(Last(before)) - f.off ELSE 0
      back == IF after # <<>> /\ Head(after).off < End(f) THEN End(f) - Head(after).off ELSE 0
      with == [q EXCEPT !.frags = before \o <<[off |-> f.off + front, nif |-> nif,
                                               cells |-> SubSeq(f.cells, front + 1, len - back)]>> \o after]
  IN IF (f.more /\ (f.odd \/ len = 0)) \/ End(f) > MaxUnits THEN Refused
     ELSE IF (~f.more /\ old.total # 0 /\ old.total # End(f)) \/ Len(old.frags) >= MaxFrags THEN DropQueue(old)
     ELSE IF front > 0 /\ front >= len THEN DropFragment(q)
     ELSE IF back > 0 /\ (back >= len - front \/ Head(after).off = f.off + front) THEN DropFragment(q)
     ELSE \E done \in {ipv4_reassemble_complete(with)} : Accept(with, done, nif)

(* IPv6: an overlap, or data past the end, ends the whole queue. *)
ipv6_reassemble(f, nif) ==
  LET old == QueueOf(f.key)
      total == IF f.more THEN old.total ELSE End(f)
      bad == \/ Len(old.frags) >= MaxFrags
             \/ ~f.more /\ old.total # 0 /\ old.total # End(f)
             \/ \E i \in DOMAIN old.frags : \/ f.off < End(old.frags[i]) /\ old.frags[i].off < End(f)
                                            \/ total # 0 /\ End(old.frags[i]) > total
             \/ total # 0 /\ End(f) > total
      before == SelectSeq(old.frags, LAMBDA x : x.off < f.off)
      after == SelectSeq(old.frags, LAMBDA x : x.off >= f.off)
      with == [old EXCEPT !.frags = before \o <<[off |-> f.off, cells |-> f.cells, nif |-> nif]>> \o after,
                          !.total = total, !.first = @ \/ f.off = 0, !.nif = IF f.off = 0 THEN nif ELSE @]
  IN IF (f.more /\ (f.odd \/ f.cells = <<>>)) \/ End(f) > MaxUnits THEN Refused
     ELSE IF bad THEN DropQueue(old)
     ELSE \E done \in {ipv6_reassemble_complete(with)} : Accept(with, done, with.nif)

FragmentInput(f, nif) ==
  /\ FragStep("input") /\ nif \in fragUp
  /\ IF fragCase.ver = 4 THEN ipv4_reassemble(f, nif) ELSE ipv6_reassemble(f, nif)

Kept(queues) ==
  /\ fragQ' = queues
  /\ fragBuf' = [fragBuf EXCEPT !.freed = @ + FoldLeft(LAMBDA n, q : n + Buffers(q), 0, fragQ)
                                            - FoldLeft(LAMBDA n, q : n + Buffers(q), 0, queues)]
ipv4_reassemble_timer == Kept(SelectSeq(fragQ, LAMBDA q : q.expires > fragNow + 1))
FragTick ==
  /\ fragNow < MaxFragTime /\ fragNow' = fragNow + 1
  /\ ipv4_reassemble_timer
  /\ UNCHANGED <<fragUp, fragDone, fragCase>>

(* An interface goes: IPv4 looks at every fragment, IPv6 at the first one. *)
From(q, nif) == IF fragCase.ver = 4 THEN \E i \in DOMAIN q.frags : q.frags[i].nif = nif ELSE q.nif = nif
ipv4_ifdetach(nif) ==
  /\ FragStep("detach") /\ nif \in fragUp
  /\ fragUp' = fragUp \ {nif}
  /\ Kept(SelectSeq(fragQ, LAMBDA q : ~From(q, nif)))
  /\ UNCHANGED <<fragDone, fragNow>>

FragNext ==
  \/ FragTick
  \/ \E nif \in FragIfs : ipv4_ifdetach(nif) \/ \E f \in fragCase.inputs : FragmentInput(f, nif)

-----------------------------------------------------------------------------
(* Type: the limits hold, one queue for a key, and the fragments of a queue  *)
(* are in order and never overlap.                                           *)
FragTypeOK ==
  /\ Len(fragQ) <= MaxQueues
  /\ \A i, j \in DOMAIN fragQ : fragQ[i].key = fragQ[j].key => i = j
  /\ \A i \in DOMAIN fragQ : LET fs == fragQ[i].frags
       IN Len(fs) <= MaxFrags /\ \A k \in 1..(Len(fs) - 1) : End(fs[k]) <= fs[k + 1].off

(* Every datagram that is delivered is complete and in order; when only one  *)
(* datagram was sent under its key it is that datagram, in whatever order,   *)
(* how often and cut in whatever way its fragments came.                     *)
FragIntact ==
  \A d \in fragDone :
    /\ Len(d.cells) = d.total /\ \A i \in DOMAIN d.cells : d.cells[i][2] = i - 1
    /\ \A n \in fragCase.sole : d.key = n.key => d.cells = Units(n, 0, n.len)

(* Every buffer that came in is held by a queue, was delivered or was freed. *)
FragBuffersOwned == fragBuf.in = fragBuf.freed + fragBuf.out + FoldLeft(LAMBDA n, q : n + Buffers(q), 0, fragQ)

(* No queue outlives its timeout, however many fragments keep coming.        *)
FragExpire == \A i \in DOMAIN fragQ : fragNow - fragQ[i].born < FragTimeout

(* A datagram is never delivered as received by an interface that has gone.  *)
FragAlive == \A d \in fragDone : d.alive
=============================================================================

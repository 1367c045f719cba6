----------------------------- MODULE CalloutProofs -----------------------------
(***************************************************************************)
(* Proofs about module Callout, for any callouts, owners, delays and size  *)
(* of the wheel: the inductive invariant CalloutInv, and from it that      *)
(* callouts are on the wheel exactly while they are pending, that none is  *)
(* overdue and none runs early, and that callout_drain keeps its word.     *)
(***************************************************************************)
EXTENDS Callout, FiniteSetTheorems, TLAPS

-------------------------------------------------------------------------------
(* Lists *)

Slots == 0 .. WHEEL_SIZE - 1
Distinct(s) == \A i, j \in 1 .. Len(s) : s[i] = s[j] => i = j
Members(s) == {s[i] : i \in 1 .. Len(s)}

\* What dlist_insert_tail does to a list.
LEMMA InsertTail ==
    ASSUME NEW S, NEW s \in Seq(S), NEW x \in S, Distinct(s), x \notin Members(s)
    PROVE  /\ Append(s, x) \in Seq(S) /\ Distinct(Append(s, x))
           /\ Members(Append(s, x)) = Members(s) \cup {x}
  <1>1. /\ Append(s, x) \in Seq(S) /\ Len(Append(s, x)) = Len(s) + 1
        /\ \A i \in 1 .. Len(s) : Append(s, x)[i] = s[i]
        /\ Append(s, x)[Len(s) + 1] = x /\ Len(s) \in Nat
    OBVIOUS
  <1>2. Distinct(Append(s, x))
    BY <1>1 DEF Distinct, Members
  <1>3. Members(Append(s, x)) = Members(s) \cup {x}
    BY <1>1 DEF Members
  <1> QED
    BY <1>1, <1>2, <1>3

\* What dlist_remove does to one.
LEMMA ListRemove ==
    ASSUME NEW S, NEW s \in Seq(S), NEW x \in Members(s), Distinct(s)
    PROVE  /\ Removed(s, x) \in Seq(S) /\ Distinct(Removed(s, x))
           /\ Members(Removed(s, x)) = Members(s) \ {x}
  <1> DEFINE k == CHOOSE i \in 1 .. Len(s) : s[i] = x
             w == Removed(s, x)
  <1>1. k \in 1 .. Len(s) /\ s[k] = x
    BY DEF Members
  <1> HIDE DEF k
  <1>2. Len(s) \in Nat /\ Len(s) - 1 \in Nat
    BY <1>1
  <1>3. w = Without(s, k)
    BY DEF Removed, k
  <1>4. \A i \in 1 .. Len(s) - 1 : w[i] = IF i < k THEN s[i] ELSE s[i + 1]
    BY <1>3 DEF Without
  <1>5. \A i \in 1 .. Len(s) - 1 : w[i] \in S
    BY <1>1, <1>2, <1>4
  <1>6. w \in Seq(S) /\ Len(w) = Len(s) - 1
    BY <1>2, <1>3, <1>5 DEF Without
  <1> HIDE DEF w
  <1>7. Distinct(w)
    BY <1>1, <1>2, <1>4, <1>6 DEF Distinct
  <1>8. \A y \in Members(w) : y \in Members(s) \ {x}
    BY <1>1, <1>2, <1>4, <1>6 DEF Members, Distinct
  <1>9. ASSUME NEW y \in Members(s) \ {x}  PROVE y \in Members(w)
    <2>1. PICK i \in 1 .. Len(s) : s[i] = y /\ i # k
      BY <1>1, <1>9 DEF Members
    <2>2. CASE i < k
      BY <1>1, <1>2, <1>4, <1>6, <2>1, <2>2 DEF Members
    <2>3. CASE i > k
      <3>1. i - 1 \in 1 .. Len(s) - 1 /\ w[i - 1] = y
        BY <1>1, <1>2, <1>4, <2>1, <2>3
      <3> QED
        BY <1>6, <3>1 DEF Members
    <2> QED
      BY <1>1, <2>1, <2>2, <2>3
  <1> QED
    BY <1>6, <1>7, <1>8, <1>9 DEF w

-------------------------------------------------------------------------------
(* The wheel *)

LEMMA SlotIn == \A e \in Nat : Slot(e) \in Slots
  BY CalloutAssumption DEF Slot, Slots

\* A wheel that holds the callouts P, which expire at E.
Holds(W, P, E) ==
    /\ W \in [Slots -> Seq(Callout)] /\ P \subseteq Callout /\ E \in [Callout -> Nat]
    /\ \A s \in Slots : Distinct(W[s]) /\ Members(W[s]) = {c \in P : Slot(E[c]) = s}

LEMMA WheelHolds == TypeOK => (WheelInv <=> Holds(wheel, pending, expires))
  BY DEF TypeOK, WheelInv, Holds, Slots, Distinct, Members

\* callout_unlink takes just c off the wheel.
LEMMA UnlinkHolds ==
    ASSUME NEW c \in pending, Holds(wheel, pending, expires)
    PROVE  Holds(Unlinked(c), pending \ {c}, expires)
  <1> DEFINE k == Slot(expires[c])
  <1>1. k \in Slots /\ c \in Callout
    BY SlotIn DEF Holds
  <1>2. c \in Members(wheel[k]) /\ wheel[k] \in Seq(Callout) /\ Distinct(wheel[k])
    BY <1>1 DEF Holds
  <1>3. /\ Removed(wheel[k], c) \in Seq(Callout) /\ Distinct(Removed(wheel[k], c))
        /\ Members(Removed(wheel[k], c)) = Members(wheel[k]) \ {c}
    BY <1>2, ListRemove
  <1>4. Unlinked(c) = [wheel EXCEPT ![k] = Removed(wheel[k], c)]
    BY DEF Unlinked
  <1>5. \A s \in Slots : Unlinked(c)[s] = IF s = k THEN Removed(wheel[k], c) ELSE wheel[s]
    BY <1>1, <1>4 DEF Holds
  <1>6. Unlinked(c) \in [Slots -> Seq(Callout)]
    BY <1>1, <1>3, <1>4 DEF Holds
  <1>7. ASSUME NEW s \in Slots
        PROVE  /\ Distinct(Unlinked(c)[s])
               /\ Members(Unlinked(c)[s]) = {d \in pending \ {c} : Slot(expires[d]) = s}
    BY <1>3, <1>5 DEF Holds
  <1> QED
    BY <1>6, <1>7 DEF Holds

\* dlist_insert_tail puts c, which is not on the wheel, where it expires.
LEMMA InsertHolds ==
    ASSUME NEW W, NEW P, NEW c \in Callout, NEW e \in Nat, c \notin P, Holds(W, P, expires)
    PROVE  Holds([W EXCEPT ![Slot(e)] = Append(@, c)], P \cup {c}, [expires EXCEPT ![c] = e])
  <1> DEFINE k == Slot(e)
             V == [W EXCEPT ![k] = Append(W[k], c)]
             E == [expires EXCEPT ![c] = e]
  <1>1. k \in Slots
    BY SlotIn
  <1>2. W[k] \in Seq(Callout) /\ Distinct(W[k]) /\ c \notin Members(W[k])
    BY <1>1 DEF Holds
  <1>3. /\ Append(W[k], c) \in Seq(Callout) /\ Distinct(Append(W[k], c))
        /\ Members(Append(W[k], c)) = Members(W[k]) \cup {c}
    BY <1>2, InsertTail
  <1>4. \A s \in Slots : V[s] = IF s = k THEN Append(W[k], c) ELSE W[s]
    BY <1>1 DEF Holds
  <1>5. /\ V \in [Slots -> Seq(Callout)] /\ E \in [Callout -> Nat] /\ P \cup {c} \subseteq Callout
        /\ \A d \in Callout : E[d] = IF d = c THEN e ELSE expires[d]
    BY <1>1, <1>3 DEF Holds
  <1> HIDE DEF V, E
  <1>6. ASSUME NEW s \in Slots
        PROVE  Distinct(V[s]) /\ Members(V[s]) = {d \in P \cup {c} : Slot(E[d]) = s}
    <2>1. Members(W[s]) = {d \in P : Slot(expires[d]) = s} /\ Distinct(W[s])
      BY DEF Holds
    <2>2. \A d \in P : d \in Callout /\ E[d] = expires[d]
      BY <1>5 DEF Holds
    <2>3. Slot(E[c]) = k
      BY <1>5
    <2>4. CASE s = k
      BY <1>3, <1>4, <2>1, <2>2, <2>3, <2>4
    <2>5. CASE s # k
      BY <1>4, <2>1, <2>2, <2>3, <2>5
    <2> QED
      BY <2>4, <2>5
  <1>7. Holds(V, P \cup {c}, E)
    BY <1>5, <1>6 DEF Holds
  <1> QED
    BY <1>7 DEF V, E

\* callout_reset: c is pending, once, where it expires, which is later.
LEMMA ResetStep ==
    ASSUME TypeOK, WheelInv, NEW c \in Callout, NEW d \in Delays, callout_reset(c, d)
    PROVE  /\ Holds(wheel', pending', expires')
           /\ pending' = pending \cup {c} /\ expires'[c] > ticks
           /\ \A b \in Callout \ {c} : expires'[b] = expires[b]
  <1> DEFINE e == ticks + (IF d = 0 THEN 1 ELSE d)
  <1>1. e \in Nat /\ e > ticks
    BY CalloutAssumption DEF TypeOK
  <1>2. Holds(wheel, pending, expires)
    BY WheelHolds
  <1> DEFINE W == IF c \in pending THEN Unlinked(c) ELSE wheel
  <1>3. Holds(W, pending \ {c}, expires)
    <2>1. CASE c \in pending
      BY <1>2, <2>1, UnlinkHolds
    <2>2. CASE c \notin pending
      <3>1. pending \ {c} = pending
        BY <2>2
      <3> QED
        BY <1>2, <2>2, <3>1
    <2> QED
      BY <2>1, <2>2
  <1>4. /\ wheel' = [W EXCEPT ![Slot(e)] = Append(@, c)]
        /\ pending' = (pending \ {c}) \cup {c} /\ expires' = [expires EXCEPT ![c] = e]
    BY DEF callout_reset
  <1> HIDE DEF e, W
  <1>5. Holds(wheel', pending', expires')
    BY <1>1, <1>3, <1>4, InsertHolds
  <1> QED
    BY <1>1, <1>4, <1>5 DEF TypeOK

\* callout_stop: c is pending no more.
LEMMA StopStep ==
    ASSUME TypeOK, WheelInv, NEW c \in Callout, callout_stop(c)
    PROVE  Holds(wheel', pending', expires') /\ pending' = pending \ {c} /\ expires' = expires
  <1>1. Holds(wheel, pending, expires)
    BY WheelHolds
  <1>2. CASE c \in pending
    BY <1>1, <1>2, UnlinkHolds DEF callout_stop
  <1>3. CASE c \notin pending
    <2>1. pending' = pending /\ wheel' = wheel /\ expires' = expires
      BY <1>3 DEF callout_stop
    <2> QED
      BY <1>1, <1>3, <2>1
  <1> QED
    BY <1>2, <1>3

-------------------------------------------------------------------------------
(* The steps *)

\* The part of the invariant about the wheel survives when the wheel does.
LEMMA WheelStep ==
    ASSUME CalloutInv, Holds(wheel', pending', expires'),
           ticks' = ticks, tick_pc' = tick_pc \/ tick_pc' # "idle",
           \A c \in pending' : \/ c \in pending /\ expires'[c] = expires[c]
                               \/ expires'[c] > ticks
    PROVE  WheelInv' /\ DueInv'
  <1>1. WheelInv'
    BY DEF WheelInv, Holds, Slots, Distinct, Members
  <1>2. \A c \in pending' : c \in Callout /\ expires'[c] \in Nat
    BY DEF Holds
  <1>3. ticks \in Nat /\ \A c \in pending : expires[c] \in Nat
    BY DEF CalloutInv, TypeOK
  <1>4. DueInv'
    BY <1>2, <1>3 DEF CalloutInv, DueInv
  <1> QED
    BY <1>1, <1>4

\* What a step that leaves the drainers alone must keep.
LEMMA DrainersStep ==
    ASSUME CalloutInv, UNCHANGED <<pc, arg>>,
           \A u \in User : pc[u] # "idle" => (big_locks' = u => big_locks = u),
           \A u \in User : pc[u] # "idle" /\ Kept(u) =>
               /\ arg[u] \in pending' => arg[u] \in pending
               /\ running' = arg[u] => running = arg[u] \/ arg[u] \in pending
    PROVE  DrainInv'
  <1> SUFFICES ASSUME NEW u \in User
               PROVE  /\ pc[u] # "idle" => arg[u] \in u
                      /\ pc[u] \in {"spin", "again", "drained"} /\ Kept(u)' => arg[u] \notin pending'
                      /\ pc[u] \in {"again", "drained"} /\ Kept(u)' => running' # arg[u]
    BY DEF DrainInv
  <1>1. pc[u] # "idle" /\ Kept(u)' => Kept(u)
    BY DEF Kept
  <1> QED
    BY <1>1 DEF CalloutInv, DrainInv

\* The steps that change neither the wheel nor who drains what.
LEMMA QuietStep ==
    ASSUME CalloutInv, UNCHANGED <<ticks, expires, pending, wheel>>,
           tick_pc' = tick_pc \/ tick_pc' # "idle"
    PROVE  WheelInv' /\ DueInv'
  <1>1. Holds(wheel, pending, expires)
    BY WheelHolds DEF CalloutInv
  <1> QED
    BY <1>1, WheelStep

LEMMA TickBeginStep == ASSUME CalloutInv, tick_begin  PROVE CalloutInv'
  <1>1. /\ ticks' = ticks + 1 /\ ticks < MaxTicks /\ tick_pc = "idle" /\ tick_pc' = "scan"
        /\ UNCHANGED <<expires, pending, wheel, running, big_locks, pc, arg>>
    BY DEF tick_begin
  <1>2. TypeOK'
    BY <1>1, CalloutAssumption DEF CalloutInv, TypeOK
  <1>3. WheelInv'
    BY <1>1 DEF CalloutInv, WheelInv
  <1>4. ticks \in Nat /\ \A c \in pending : expires[c] \in Nat
    BY DEF CalloutInv, TypeOK
  <1>5. DueInv'
    BY <1>1, <1>4 DEF CalloutInv, DueInv
  <1>6. RunInv'
    BY <1>1 DEF CalloutInv, RunInv
  <1>7. DrainInv'
    BY <1>1, DrainersStep
  <1> QED
    BY <1>2, <1>3, <1>5, <1>6, <1>7 DEF CalloutInv

\* A callout that callout_tick starts is pending and due exactly now.
LEMMA DueNow ==
    ASSUME CalloutInv, NEW i \in 1 .. Len(wheel[Slot(ticks)]), IsFirstDue(i)
    PROVE  LET due == wheel[Slot(ticks)][i]
           IN  due \in pending /\ due \in Callout /\ expires[due] = ticks
  <1> DEFINE due == wheel[Slot(ticks)][i]
  <1>1. ticks \in Nat /\ Slot(ticks) \in Slots
    BY SlotIn DEF CalloutInv, TypeOK
  <1>2. due \in pending
    <2>1. due \in {wheel[Slot(ticks)][j] : j \in 1 .. Len(wheel[Slot(ticks)])}
      OBVIOUS
    <2> QED
      BY <1>1, <2>1 DEF CalloutInv, WheelInv, Slots
  <1>3. due \in Callout /\ expires[due] \in Nat
    BY <1>2 DEF CalloutInv, TypeOK
  <1>4. expires[due] <= ticks
    BY DEF IsFirstDue, IsDue
  <1>5. expires[due] >= ticks
    BY <1>2 DEF CalloutInv, DueInv
  <1> QED
    BY <1>1, <1>2, <1>3, <1>4, <1>5

LEMMA TickScanStep == ASSUME CalloutInv, tick_scan  PROVE CalloutInv'
  <1>1. PICK i \in 1 .. Len(wheel[Slot(ticks)]) :
          LET due == wheel[Slot(ticks)][i]
          IN  /\ IsFirstDue(i)
              /\ \/ /\ due \notin Mpsafe /\ big_locks # Timer
                    /\ tick_pc' = "locks"
                    /\ UNCHANGED <<pending, wheel, running>>
                 \/ /\ due \in Mpsafe \/ big_locks = Timer
                    /\ pending' = pending \ {due}
                    /\ wheel' = Unlinked(due)
                    /\ running' = due
                    /\ tick_pc' = "func"
    BY DEF tick_scan
  <1>2. tick_pc = "scan" /\ UNCHANGED <<ticks, expires, big_locks, pc, arg>>
    BY DEF tick_scan
  <1> DEFINE due == wheel[Slot(ticks)][i]
  <1>3. due \in pending /\ due \in Callout
    BY <1>1, DueNow
  <1>4. running = None
    BY <1>2 DEF CalloutInv, RunInv
  <1>5. CASE tick_pc' = "locks" /\ UNCHANGED <<pending, wheel, running>>
    <2>1. TypeOK'
      BY <1>2, <1>5 DEF CalloutInv, TypeOK
    <2>2. WheelInv' /\ DueInv'
      BY <1>2, <1>5, QuietStep
    <2>3. RunInv'
      BY <1>2, <1>4, <1>5 DEF CalloutInv, RunInv
    <2>4. DrainInv'
      BY <1>2, <1>5, DrainersStep
    <2> QED
      BY <2>1, <2>2, <2>3, <2>4 DEF CalloutInv
  <1>6. CASE /\ due \in Mpsafe \/ big_locks = Timer
             /\ pending' = pending \ {due} /\ wheel' = Unlinked(due)
             /\ running' = due /\ tick_pc' = "func"
    <2> HIDE DEF due
    <2>1. Holds(wheel, pending, expires)
      BY WheelHolds DEF CalloutInv
    <2>2. Holds(wheel', pending', expires')
      BY <1>2, <1>3, <1>6, <2>1, UnlinkHolds
    <2>3. TypeOK'
      BY <1>2, <1>3, <1>6, <2>2 DEF CalloutInv, TypeOK, Holds, Slots
    <2>4. WheelInv' /\ DueInv'
      BY <1>2, <1>6, <2>2, WheelStep
    <2>5. RunInv'
      BY <1>2, <1>3, <1>6, CalloutAssumption DEF RunInv
    <2>6. DrainInv'
      BY <1>2, <1>3, <1>6, DrainersStep
    <2> QED
      BY <2>3, <2>4, <2>5, <2>6 DEF CalloutInv
  <1> QED
    BY <1>1, <1>5, <1>6

LEMMA TickLocksStep == ASSUME CalloutInv, tick_locks  PROVE CalloutInv'
  <1>1. /\ tick_pc = "locks" /\ tick_pc' = "scan" /\ big_locks' = Timer
        /\ UNCHANGED <<ticks, expires, pending, wheel, running, pc, arg>>
    BY DEF tick_locks
  <1>2. TypeOK'
    BY <1>1 DEF CalloutInv, TypeOK
  <1>3. WheelInv' /\ DueInv'
    BY <1>1, QuietStep
  <1>4. RunInv'
    BY <1>1 DEF CalloutInv, RunInv
  <1>5. DrainInv'
    BY <1>1, DrainersStep, CalloutAssumption
  <1> QED
    BY <1>2, <1>3, <1>4, <1>5 DEF CalloutInv

\* The handler: what it sets again is not drained by somebody who may rely on
\* the outcome.
LEMMA FuncStep == ASSUME CalloutInv, func  PROVE CalloutInv'
  <1>1. /\ tick_pc = "func" /\ tick_pc' = "returned"
        /\ UNCHANGED <<ticks, running, big_locks, pc, arg>>
    BY DEF func
  <1>2. running \in Callout /\ running # None
    BY <1>1 DEF CalloutInv, RunInv, TypeOK
  <1>3. RunInv'
    BY <1>1 DEF CalloutInv, RunInv
  <1>4. CASE UNCHANGED <<expires, pending, wheel>>
    <2>1. TypeOK'
      BY <1>1, <1>4 DEF CalloutInv, TypeOK
    <2>2. WheelInv' /\ DueInv'
      BY <1>1, <1>4, QuietStep
    <2>3. DrainInv'
      BY <1>1, <1>4, DrainersStep
    <2> QED
      BY <1>3, <2>1, <2>2, <2>3 DEF CalloutInv
  <1>5. ASSUME NEW d \in Delays, running \in Rearm, callout_reset(running, d)  PROVE CalloutInv'
    <2>1. /\ Holds(wheel', pending', expires')
          /\ pending' = pending \cup {running} /\ expires'[running] > ticks
          /\ \A b \in Callout \ {running} : expires'[b] = expires[b]
      BY <1>2, <1>5, ResetStep DEF CalloutInv
    <2>2. TypeOK'
      BY <1>1, <2>1 DEF CalloutInv, TypeOK, Holds, Slots
    <2>3. \A c \in pending' : \/ c \in pending /\ expires'[c] = expires[c]
                              \/ expires'[c] > ticks
      BY <2>1 DEF CalloutInv, TypeOK
    <2>4. WheelInv' /\ DueInv'
      BY <1>1, <2>1, <2>3, WheelStep
    <2>5. \A u \in User : pc[u] # "idle" /\ Kept(u) => arg[u] # running
      BY <1>2, <1>5, CalloutAssumption DEF CalloutInv, RunInv, Kept
    <2>6. DrainInv'
      BY <1>1, <2>1, <2>5, DrainersStep
    <2> QED
      BY <1>3, <2>2, <2>4, <2>6 DEF CalloutInv
  <1> QED
    BY <1>4, <1>5 DEF func

LEMMA ReturnedStep == ASSUME CalloutInv, func_returned  PROVE CalloutInv'
  <1>1. /\ tick_pc = "returned" /\ tick_pc' = "scan" /\ running' = None
        /\ UNCHANGED <<ticks, expires, pending, wheel, big_locks, pc, arg>>
    BY DEF func_returned
  <1>2. TypeOK'
    BY <1>1 DEF CalloutInv, TypeOK
  <1>3. WheelInv' /\ DueInv'
    BY <1>1, QuietStep
  <1>4. RunInv'
    BY <1>1 DEF RunInv
  <1>5. \A u \in User : pc[u] # "idle" => arg[u] # None
    BY CalloutAssumption DEF CalloutInv, DrainInv
  <1>6. DrainInv'
    BY <1>1, <1>5, DrainersStep
  <1> QED
    BY <1>2, <1>3, <1>4, <1>6 DEF CalloutInv

\* The tick ends when nothing in its slot is due, and what is due is in its
\* slot.
LEMMA TickEndStep == ASSUME CalloutInv, tick_end  PROVE CalloutInv'
  <1>1. /\ tick_pc = "scan" /\ tick_pc' = "idle"
        /\ big_locks' = IF big_locks = Timer THEN None ELSE big_locks
        /\ UNCHANGED <<ticks, expires, pending, wheel, running, pc, arg>>
    BY DEF tick_end
  <1>2. TypeOK'
    BY <1>1 DEF CalloutInv, TypeOK
  <1>3. WheelInv'
    BY <1>1 DEF CalloutInv, WheelInv
  <1>4. ASSUME NEW c \in pending  PROVE expires[c] > ticks
    <2>1. ticks \in Nat /\ expires[c] \in Nat /\ expires[c] >= ticks
      BY DEF CalloutInv, TypeOK, DueInv
    <2>2. expires[c] # ticks
      <3> SUFFICES ASSUME expires[c] = ticks PROVE FALSE
        OBVIOUS
      <3>1. Slot(ticks) \in Slots
        BY <2>1, SlotIn
      <3>2. c \in {wheel[Slot(ticks)][i] : i \in 1 .. Len(wheel[Slot(ticks)])}
        BY <3>1 DEF CalloutInv, WheelInv, Slots
      <3>3. PICK i \in 1 .. Len(wheel[Slot(ticks)]) : wheel[Slot(ticks)][i] = c
        BY <3>2
      <3>4. IsDue(c)
        BY <2>1 DEF IsDue
      <3> QED
        BY <3>3, <3>4 DEF tick_end
    <2> QED
      BY <2>1, <2>2
  <1>5. DueInv'
    <2>1. \A c \in pending : expires[c] >= ticks
      BY DEF CalloutInv, DueInv
    <2> QED
      BY <1>1, <1>4, <2>1 DEF DueInv
  <1>6. RunInv'
    BY <1>1 DEF CalloutInv, RunInv
  <1>7. DrainInv'
    BY <1>1, DrainersStep, CalloutAssumption
  <1> QED
    BY <1>2, <1>3, <1>5, <1>6, <1>7 DEF CalloutInv

\* Only who drains nothing takes or gives up the big locks.
LEMMA LockStep == ASSUME CalloutInv, NEW u \in User, lock(u) \/ unlock(u)  PROVE CalloutInv'
  <1>1. /\ pc[u] = "idle" /\ big_locks # Timer /\ big_locks' \in {u, None}
        /\ UNCHANGED <<ticks, expires, pending, wheel, running, tick_pc, pc, arg>>
    BY CalloutAssumption DEF lock, unlock
  <1>2. TypeOK'
    BY <1>1 DEF CalloutInv, TypeOK
  <1>3. WheelInv' /\ DueInv'
    BY <1>1, QuietStep
  <1>4. RunInv'
    BY <1>1 DEF CalloutInv, RunInv
  <1>5. DrainInv'
    BY <1>1, DrainersStep, CalloutAssumption
  <1> QED
    BY <1>2, <1>3, <1>4, <1>5 DEF CalloutInv

\* An owner that is not draining sets or stops its callouts.
LEMMA UserResetStep == ASSUME CalloutInv, NEW u \in User, user_reset(u)  PROVE CalloutInv'
  <1>1. pc[u] = "idle" /\ UNCHANGED <<ticks, running, big_locks, tick_pc, pc, arg>>
    BY DEF user_reset
  <1>2. PICK c \in Callout, d \in Delays : c \in u /\ callout_reset(c, d)
    BY CalloutAssumption DEF user_reset
  <1>3. /\ Holds(wheel', pending', expires')
        /\ pending' = pending \cup {c} /\ expires'[c] > ticks
        /\ \A b \in Callout \ {c} : expires'[b] = expires[b]
    BY <1>2, ResetStep DEF CalloutInv
  <1>4. TypeOK'
    BY <1>1, <1>3 DEF CalloutInv, TypeOK, Holds, Slots
  <1>5. \A b \in pending' : (b \in pending /\ expires'[b] = expires[b]) \/ expires'[b] > ticks
    BY <1>3 DEF CalloutInv, TypeOK
  <1>6. WheelInv' /\ DueInv'
    BY <1>1, <1>3, <1>5, WheelStep
  <1>7. RunInv'
    BY <1>1 DEF CalloutInv, RunInv
  <1>8. \A v \in User : pc[v] # "idle" => arg[v] # c
    BY <1>1, <1>2, CalloutAssumption DEF CalloutInv, DrainInv
  <1>9. DrainInv'
    BY <1>1, <1>3, <1>8, DrainersStep
  <1> QED
    BY <1>4, <1>6, <1>7, <1>9 DEF CalloutInv

LEMMA UserStopStep == ASSUME CalloutInv, NEW u \in User, user_stop(u)  PROVE CalloutInv'
  <1>1. pc[u] = "idle" /\ UNCHANGED <<ticks, running, big_locks, tick_pc, pc, arg>>
    BY DEF user_stop
  <1>2. PICK c \in Callout : callout_stop(c)
    BY CalloutAssumption DEF user_stop
  <1>3. Holds(wheel', pending', expires') /\ pending' = pending \ {c} /\ expires' = expires
    BY <1>2, StopStep DEF CalloutInv
  <1>4. TypeOK'
    BY <1>1, <1>3 DEF CalloutInv, TypeOK, Holds, Slots
  <1>5. WheelInv' /\ DueInv'
    BY <1>1, <1>3, WheelStep
  <1>6. RunInv'
    BY <1>1 DEF CalloutInv, RunInv
  <1>7. DrainInv'
    BY <1>1, <1>3, DrainersStep
  <1> QED
    BY <1>4, <1>5, <1>6, <1>7 DEF CalloutInv

\* callout_drain.
LEMMA DrainStep ==
    ASSUME CalloutInv, NEW u \in User, user_drain(u) \/ Drain(u) \/ drained(u)
    PROVE  CalloutInv'
  <1>0. /\ pc \in [User -> {"idle", "drain", "spin", "again", "drained"}]
        /\ arg \in [User -> Callout \cup {None}]
    BY DEF CalloutInv, TypeOK
  <1>1. UNCHANGED <<ticks, running, big_locks, tick_pc>>
    BY DEF user_drain, Drain, drain_stop, drain_spin, drain_again, drained
  <1>2. RunInv'
    BY <1>1 DEF CalloutInv, RunInv
  <1>3. CASE user_drain(u)
    <2>1. PICK c \in Callout : c \in u /\ arg' = [arg EXCEPT ![u] = c]
      BY <1>3, CalloutAssumption DEF user_drain
    <2>2. pc' = [pc EXCEPT ![u] = "drain"] /\ UNCHANGED <<expires, pending, wheel>>
      BY <1>3 DEF user_drain, Goto
    <2>3. TypeOK'
      BY <1>1, <2>1, <2>2 DEF CalloutInv, TypeOK
    <2>4. WheelInv' /\ DueInv'
      BY <1>1, <2>2, QuietStep
    <2>5. /\ pc'[u] = "drain" /\ arg'[u] = c
          /\ \A v \in User \ {u} : pc'[v] = pc[v] /\ arg'[v] = arg[v]
      BY <1>0, <2>1, <2>2
    <2>6. DrainInv'
      BY <1>1, <2>1, <2>2, <2>5 DEF CalloutInv, DrainInv, Kept
    <2> QED
      BY <1>2, <2>3, <2>4, <2>6 DEF CalloutInv
  <1>4. CASE drain_stop(u)
    <2>1. pc[u] = "drain" /\ callout_stop(arg[u]) /\ pc' = [pc EXCEPT ![u] = "spin"] /\ arg' = arg
      BY <1>4 DEF drain_stop, Goto
    <2>2. arg[u] \in Callout
      BY <2>1, CalloutAssumption DEF CalloutInv, DrainInv
    <2>3. Holds(wheel', pending', expires') /\ pending' = pending \ {arg[u]} /\ expires' = expires
      BY <2>1, <2>2, StopStep DEF CalloutInv
    <2>4. TypeOK'
      BY <1>1, <2>1, <2>3 DEF CalloutInv, TypeOK, Holds, Slots
    <2>5. WheelInv' /\ DueInv'
      BY <1>1, <2>3, WheelStep
    <2>6. pc'[u] = "spin" /\ \A v \in User \ {u} : pc'[v] = pc[v]
      BY <1>0, <2>1
    <2>7. DrainInv'
      BY <1>1, <2>1, <2>3, <2>6 DEF CalloutInv, DrainInv, Kept
    <2> QED
      BY <1>2, <2>4, <2>5, <2>7 DEF CalloutInv
  <1>5. CASE drain_spin(u) \/ drain_again(u)
    <2> DEFINE l == IF pc[u] = "spin" THEN "again" ELSE IF arg[u] \in pending THEN "drain" ELSE "drained"
    <2>1. /\ pc[u] \in {"spin", "again"} /\ (pc[u] = "spin" => running # arg[u])
          /\ pc' = [pc EXCEPT ![u] = l] /\ UNCHANGED <<expires, pending, wheel, arg>>
      BY <1>5 DEF drain_spin, drain_again, Goto
    <2>2. TypeOK'
      BY <1>1, <2>1 DEF CalloutInv, TypeOK
    <2>3. WheelInv' /\ DueInv'
      BY <1>1, <2>1, QuietStep
    <2>4. pc'[u] = l /\ \A v \in User \ {u} : pc'[v] = pc[v]
      BY <1>0, <2>1
    <2>5. DrainInv'
      BY <1>1, <2>1, <2>4 DEF CalloutInv, DrainInv, Kept
    <2> QED
      BY <1>2, <2>2, <2>3, <2>5 DEF CalloutInv
  <1>6. CASE drained(u)
    <2>1. /\ pc' = [pc EXCEPT ![u] = "idle"] /\ arg' = [arg EXCEPT ![u] = None]
          /\ UNCHANGED <<expires, pending, wheel>>
      BY <1>6 DEF drained, Goto
    <2>2. TypeOK'
      BY <1>1, <2>1 DEF CalloutInv, TypeOK
    <2>3. WheelInv' /\ DueInv'
      BY <1>1, <2>1, QuietStep
    <2>4. pc'[u] = "idle" /\ \A v \in User \ {u} : pc'[v] = pc[v] /\ arg'[v] = arg[v]
      BY <1>0, <2>1
    <2>5. DrainInv'
      BY <1>1, <2>1, <2>4 DEF CalloutInv, DrainInv, Kept
    <2> QED
      BY <1>2, <2>2, <2>3, <2>5 DEF CalloutInv
  <1> QED
    BY <1>3, <1>4, <1>5, <1>6 DEF Drain

-------------------------------------------------------------------------------
(* The theorems *)

LEMMA InitCallout == Init => CalloutInv
  <1> SUFFICES ASSUME Init PROVE CalloutInv
    OBVIOUS
  <1>1. TypeOK
    BY CalloutAssumption DEF Init, TypeOK
  <1>2. \A s \in 0 .. WHEEL_SIZE - 1 : wheel[s] = <<>> /\ Len(wheel[s]) = 0
    BY DEF Init
  <1>3. WheelInv
    BY <1>2 DEF Init, WheelInv
  <1>4. DueInv /\ RunInv /\ DrainInv
    BY DEF Init, DueInv, RunInv, DrainInv
  <1> QED
    BY <1>1, <1>3, <1>4 DEF CalloutInv

LEMMA NextCallout == CalloutInv /\ [Next]_vars => CalloutInv'
  <1> SUFFICES ASSUME CalloutInv, [Next]_vars PROVE CalloutInv'
    OBVIOUS
  <1>1. CASE tick_begin \/ Tick
    BY <1>1, TickBeginStep, TickScanStep, TickLocksStep, FuncStep, ReturnedStep, TickEndStep DEF Tick
  <1>2. ASSUME NEW u \in User,
               \/ lock(u) \/ unlock(u) \/ user_reset(u) \/ user_stop(u)
               \/ user_drain(u) \/ Drain(u) \/ drained(u)
        PROVE  CalloutInv'
    BY <1>2, LockStep, UserResetStep, UserStopStep, DrainStep
  <1>3. CASE UNCHANGED vars
    <2>1. UNCHANGED <<ticks, expires, pending, wheel, running, big_locks, tick_pc, pc, arg>>
      BY <1>3 DEF vars
    <2>2. TypeOK'
      BY <2>1 DEF CalloutInv, TypeOK
    <2>3. WheelInv' /\ DueInv'
      BY <2>1, QuietStep
    <2>4. RunInv'
      BY <2>1 DEF CalloutInv, RunInv
    <2>5. DrainInv'
      BY <2>1, DrainersStep
    <2> QED
      BY <2>2, <2>3, <2>4, <2>5 DEF CalloutInv
  <1> QED
    BY <1>1, <1>2, <1>3 DEF Next

\* The invariant holds in every state, for any callouts and owners, any size
\* of the wheel and any number of ticks.
THEOREM CalloutInvHolds == Spec => []CalloutInv
  BY InitCallout, NextCallout, PTL DEF Spec

\* A position in a list without doubles is the only one.
LEMMA OnWheelOnce == CalloutInv => OnWheel
  <1> SUFFICES ASSUME CalloutInv, NEW c \in Callout, NEW s \in 0 .. WHEEL_SIZE - 1
               PROVE  Cardinality({i \in 1 .. Len(wheel[s]) : wheel[s][i] = c})
                        = IF c \in pending /\ s = Slot(expires[c]) THEN 1 ELSE 0
    BY DEF OnWheel
  <1> DEFINE at == {i \in 1 .. Len(wheel[s]) : wheel[s][i] = c}
  <1>1. /\ \A i, j \in 1 .. Len(wheel[s]) : wheel[s][i] = wheel[s][j] => i = j
        /\ {wheel[s][i] : i \in 1 .. Len(wheel[s])} = {d \in pending : Slot(expires[d]) = s}
    BY DEF CalloutInv, WheelInv
  <1>2. CASE c \in pending /\ s = Slot(expires[c])
    <2>1. c \in {wheel[s][i] : i \in 1 .. Len(wheel[s])}
      BY <1>1, <1>2
    <2>2. PICK k \in 1 .. Len(wheel[s]) : wheel[s][k] = c
      BY <2>1
    <2>3. at = {k}
      BY <1>1, <2>2
    <2> QED
      BY <1>2, <2>3, FS_Singleton
  <1>3. CASE ~(c \in pending /\ s = Slot(expires[c]))
    <2>1. c \notin {wheel[s][i] : i \in 1 .. Len(wheel[s])}
      BY <1>1, <1>3
    <2>2. at = {}
      BY <2>1
    <2> QED
      BY <1>3, <2>2, FS_EmptySet
  <1> QED
    BY <1>2, <1>3

\* The only step that starts a handler starts one that is due now.
LEMMA StartsOnTime ==
    ASSUME CalloutInv, [Next]_vars, running' # running, running' # None
    PROVE  expires[running'] = ticks
  <1>1. tick_scan
    BY DEF Next, Tick, vars, tick_begin, tick_locks, func, func_returned, tick_end, lock, unlock,
           user_reset, user_stop, user_drain, Drain, drain_stop, drain_spin, drain_again, drained
  <1>2. PICK i \in 1 .. Len(wheel[Slot(ticks)]) :
          IsFirstDue(i) /\ running' = wheel[Slot(ticks)][i]
    BY <1>1 DEF tick_scan
  <1> QED
    BY <1>2, DueNow

\* A callout is on the wheel exactly while it is pending, once; none is
\* overdue between ticks and none runs before its time; and what callout_drain
\* has drained is neither pending nor running.
THEOREM CalloutIsSound == Spec => CalloutSound
  <1>1. CalloutInv => TypeOK /\ OnWheel /\ NoneOverdue /\ DrainDone
    <2>1. CalloutInv => NoneOverdue
      BY DEF CalloutInv, DueInv, NoneOverdue
    <2>2. CalloutInv => DrainDone
      BY DEF CalloutInv, DrainInv, Kept, DrainDone
    <2> QED
      BY <2>1, <2>2, OnWheelOnce DEF CalloutInv
  <1>2. CalloutInv /\ [Next]_vars
          => [running' # running /\ running' # None => expires[running'] = ticks]_vars
    BY StartsOnTime
  <1>3. Spec => [](TypeOK /\ OnWheel /\ NoneOverdue /\ DrainDone)
    BY <1>1, CalloutInvHolds, PTL
  <1>4. Spec => OnTime
    BY <1>2, CalloutInvHolds, PTL DEF Spec, OnTime
  <1> QED
    BY <1>3, <1>4 DEF CalloutSound

===============================================================================

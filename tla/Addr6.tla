-------------------------------- MODULE Addr6 --------------------------------
(* The IPv6 addresses of one interface: the link-local one that is made when *)
(* the interface is attached, one that a router's prefix configures and one  *)
(* that DHCPv6 configures; duplicate address detection, lifetimes, router    *)
(* solicitation and membership of the solicited-node groups with their       *)
(* multicast listener reports.  All of it runs under the net lock.           *)
EXTENDS Integers, FiniteSets

CONSTANTS
  Group,            \* address -> its solicited-node group
  DadTransmits,     \* ND6_DAD_TRANSMITS
  MaxSolicits,      \* ND6_MAX_RTR_SOLICITATIONS
  MldRobustness,    \* MLD6_ROBUSTNESS
  TwoHours,         \* ND6_TWO_HOURS_S in ticks
  A6Lifetimes,      \* lifetimes of options in ticks; Infinite is ND6_INFINITE
  Infinite,
  A6Delays,         \* random delays in ticks
  MaxA6Time, A6Cases

VARIABLES
  ifa,      \* address -> record
  dads,     \* address -> [on, sent, due]
  mld,      \* group -> [refs, left, at, change]
  rs,       \* [done, next, sent]
  a6Now,
  a6Ghost,  \* [probes, conflict, owed]
  a6Case
addr6Vars == <<ifa, dads, mld, rs, a6Now, a6Ghost, a6Case>>

A6 == DOMAIN Group
SolicitedGroups == {Group[a] : a \in A6}
NoAddr == [on |-> FALSE, tentative |-> FALSE, dup |-> FALSE, deprecated |-> FALSE, pref |-> 0, valid |-> 0]
NoDad == [on |-> FALSE, sent |-> 0, due |-> 0]
NoGroup == [refs |-> 0, left |-> 0, at |-> 0, change |-> FALSE]

A6Step(op) == op \in a6Case.ops /\ a6Case.left > 0 /\ a6Case' = [a6Case EXCEPT !.left = @ - 1]

nd6_lifetime(s) == IF s = Infinite THEN 0 ELSE a6Now + s

-----------------------------------------------------------------------------
(* Groups *)

mld6_join(g, delay) ==
  IF mld[g].refs > 0 THEN [mld EXCEPT ![g].refs = @ + 1]
  ELSE [mld EXCEPT ![g] = [refs |-> 1, left |-> MldRobustness - 1, at |-> a6Now + delay, change |-> TRUE]]

(* A query asks for a report of one group or of all within max ticks; the    *)
(* random delay is one tick more than was drawn.                             *)
mld6_input(gs, max) ==
  /\ A6Step("query")
  /\ \E delay \in A6Delays : delay <= 1 + max /\
       mld' = [g \in SolicitedGroups |->
         IF g \in gs /\ mld[g].refs > 0 /\ (mld[g].at = 0 \/ a6Now + delay < mld[g].at)
           THEN [mld[g] EXCEPT !.at = a6Now + delay, !.change = @ /\ mld[g].left > 0]
           ELSE mld[g]]
  /\ a6Ghost' = [a6Ghost EXCEPT !.owed = [g \in SolicitedGroups |->
       IF g \in gs /\ mld[g].refs > 0 /\ (@[g] = 0 \/ a6Now + 1 + max < @[g]) THEN a6Now + 1 + max ELSE @[g]]]
  /\ UNCHANGED <<ifa, dads, rs, a6Now>>

(* The report timer: g of ml after a run at time now. *)
mld6_timer(ml, now, delay) ==
  [g \in SolicitedGroups |->
     IF ml[g].at = 0 \/ ml[g].at > now THEN ml[g]
     ELSE IF ml[g].left > 1 THEN [ml[g] EXCEPT !.left = @ - 1, !.at = now + delay]
     ELSE [ml[g] EXCEPT !.left = 0, !.at = 0]]

-----------------------------------------------------------------------------
(* Addresses *)

nd6_dad_start(a, delay) == [dads EXCEPT ![a] = IF @.on THEN @ ELSE [on |-> TRUE, sent |-> 0, due |-> a6Now + delay]]
nd6_dad_stop(ds, a) == [ds EXCEPT ![a] = NoDad]

(* ipv6_addr_add of a tentative address: join the group, begin the test. *)
ipv6_addr_add(a, pref, valid) ==
  \E d, e \in A6Delays :
    /\ ifa' = [ifa EXCEPT ![a] = [NoAddr EXCEPT !.on = TRUE, !.tentative = TRUE, !.pref = pref, !.valid = valid]]
    /\ mld' = mld6_join(Group[a], d)
    /\ dads' = nd6_dad_start(a, e)

(* The addresses as leave their groups: mld6_leave once for each of them. *)
Left(ml, as) ==
  [g \in SolicitedGroups |-> LET n == Cardinality({a \in as : Group[a] = g})
                    IN IF n = 0 THEN ml[g] ELSE IF ml[g].refs > n THEN [ml[g] EXCEPT !.refs = @ - n] ELSE NoGroup]

ipv6_addr_del(as, ml) ==
  /\ ifa' = [a \in A6 |-> IF a \in as THEN NoAddr ELSE ifa[a]]
  /\ dads' = [a \in A6 |-> IF a \in as THEN NoDad ELSE dads[a]]
  /\ mld' = Left(ml, as)

Addr6Init(cases, delays) ==
  /\ a6Now = 0
  /\ ifa = [a \in A6 |-> IF a = "ll" THEN [NoAddr EXCEPT !.on = TRUE, !.tentative = TRUE] ELSE NoAddr]
  /\ \E d, e \in delays :
       /\ dads = [a \in A6 |-> IF a = "ll" THEN [on |-> TRUE, sent |-> 0, due |-> d] ELSE NoDad]
       /\ mld = [g \in SolicitedGroups |-> IF g = Group["ll"]
                   THEN [refs |-> 1, left |-> MldRobustness - 1, at |-> e, change |-> TRUE] ELSE NoGroup]
  /\ rs = [done |-> FALSE, next |-> 0, sent |-> 0]
  /\ a6Ghost = [probes |-> [a \in A6 |-> 0], conflict |-> [a \in A6 |-> FALSE], owed |-> [g \in SolicitedGroups |-> 0]]
  /\ a6Case \in cases

(* The test is over, the address may be used.  The first time the link-local *)
(* address passes, routers are asked for.                                    *)
DadPassed(a, delay) ==
  /\ ifa' = [ifa EXCEPT ![a].tentative = FALSE]
  /\ dads' = nd6_dad_stop(dads, a)
  /\ rs' = IF a = "ll" /\ ~rs.done /\ rs.next = 0 /\ rs.sent = 0 THEN [rs EXCEPT !.next = a6Now + delay] ELSE rs
(* Faulty variant: the test succeeds without a probe. *)
PassUntested(a) ==
  /\ dads[a].on /\ dads[a].due <= a6Now
  /\ \E delay \in A6Delays : DadPassed(a, delay) /\ UNCHANGED a6Ghost
  /\ UNCHANGED <<mld, a6Now, a6Case>>
(* The timer of a test: a probe, or the end. *)
nd6_dad_timer(a) ==
  /\ dads[a].on /\ dads[a].due <= a6Now
  /\ IF dads[a].sent < DadTransmits
       THEN /\ dads' = [dads EXCEPT ![a].sent = @ + 1, ![a].due = a6Now + 1]
            /\ a6Ghost' = [a6Ghost EXCEPT !.probes[a] = @ + 1]
            /\ UNCHANGED <<ifa, rs>>
       ELSE \E delay \in A6Delays : DadPassed(a, delay) /\ UNCHANGED a6Ghost
  /\ UNCHANGED <<mld, a6Now, a6Case>>

(* Another node uses or tests the address (nd6_ns_input from the unspecified *)
(* address, nd6_na_input): only a tentative address is given up.             *)
nd6_dad_duplicated(a) ==
  /\ A6Step("conflict")
  /\ ifa[a].on
  /\ IF ifa[a].tentative
       THEN /\ ifa' = [ifa EXCEPT ![a].tentative = FALSE, ![a].dup = TRUE]
            /\ dads' = nd6_dad_stop(dads, a)
            /\ a6Ghost' = [a6Ghost EXCEPT !.conflict[a] = TRUE]
       ELSE UNCHANGED <<ifa, dads, a6Ghost>>
  /\ UNCHANGED <<mld, rs, a6Now>>

Fresh(a) == [a6Ghost EXCEPT !.probes[a] = 0, !.conflict[a] = FALSE]

(* The lifetimes an advertised prefix gives to an address that exists: the   *)
(* time it is valid is cut to two hours at most.                             *)
nd6_slaac_refresh(x, valid, pref) ==
  LET proposed == nd6_lifetime(valid)
      longer == valid = Infinite \/ valid > TwoHours \/ (x.valid # 0 /\ proposed > x.valid)
      cut == x.valid = 0 \/ x.valid > a6Now + TwoHours
  IN [x EXCEPT !.pref = nd6_lifetime(pref), !.deprecated = @ /\ pref = 0,
               !.valid = IF longer THEN proposed ELSE IF cut THEN a6Now + TwoHours ELSE @]
Less(x, y) == x # Infinite /\ (y = Infinite \/ x < y)

(* A router advertisement with a prefix for autoconfiguration. *)
nd6_slaac_prefix_add(valid, pref) ==
  /\ A6Step("ra") /\ ~Less(valid, pref)
  /\ rs' = [rs EXCEPT !.done = TRUE, !.next = 0]
  /\ IF ifa["slaac"].on
       THEN ifa' = [ifa EXCEPT !["slaac"] = nd6_slaac_refresh(@, valid, pref)] /\ UNCHANGED <<dads, mld, a6Ghost>>
       ELSE IF valid = 0 THEN UNCHANGED <<ifa, dads, mld, a6Ghost>>
       ELSE ipv6_addr_add("slaac", nd6_lifetime(pref), nd6_lifetime(valid)) /\ a6Ghost' = Fresh("slaac")
  /\ UNCHANGED a6Now

(* DHCPv6 adds, renews and removes its address. *)
LeaseApplied(valid, pref) ==
  /\ A6Step("dhcp") /\ ~Less(valid, pref) /\ valid # 0
  /\ IF ifa["dhcp"].on
       THEN /\ ifa' = [ifa EXCEPT !["dhcp"].pref = nd6_lifetime(pref), !["dhcp"].valid = nd6_lifetime(valid),
                                  !["dhcp"].deprecated = @ /\ pref = 0]
            /\ UNCHANGED <<dads, mld, a6Ghost>>
       ELSE ipv6_addr_add("dhcp", nd6_lifetime(pref), nd6_lifetime(valid)) /\ a6Ghost' = Fresh("dhcp")
  /\ UNCHANGED <<rs, a6Now>>
LeaseRemoved ==
  /\ A6Step("dhcp") /\ ifa["dhcp"].on
  /\ ipv6_addr_del({"dhcp"}, mld)
  /\ a6Ghost' = Fresh("dhcp")
  /\ UNCHANGED <<rs, a6Now>>

(* The periodic timers: a router solicitation that is due, addresses whose   *)
(* lifetimes ended, reports that are due.  Tests due now come first.         *)
ipv6_addr_expire(now) == {a \in A6 : ifa[a].on /\ ifa[a].valid # 0 /\ ifa[a].valid <= now}
Deprecated(now) == [a \in A6 |-> [ifa[a] EXCEPT !.deprecated = @ \/ (ifa[a].on /\ ifa[a].pref # 0 /\ ifa[a].pref <= now)]]
nd6_timer_rs(now) ==
  IF rs.next = 0 \/ rs.next > now THEN rs
  ELSE [rs EXCEPT !.sent = @ + 1, !.next = IF rs.sent + 1 < MaxSolicits THEN now + 1 ELSE 0]
(* The solicitation waits for the next run when neighbours fill the batch of *)
(* ND6_MAX_TX messages this one sends.                                       *)
Tick ==
  LET now == a6Now + 1
      gone == ipv6_addr_expire(now)
  IN /\ now <= MaxA6Time /\ a6Now' = now
     /\ \A a \in A6 : dads[a].on => dads[a].due > a6Now
     /\ rs' \in {nd6_timer_rs(now), rs}
     /\ \E delay \in A6Delays : \E ml \in {mld6_timer(mld, now, delay)} :
          /\ ifa' = [a \in A6 |-> IF a \in gone THEN NoAddr ELSE Deprecated(now)[a]]
          /\ dads' = [a \in A6 |-> IF a \in gone THEN NoDad ELSE dads[a]]
          /\ mld' = Left(ml, gone)
          /\ a6Ghost' = [probes |-> [a \in A6 |-> IF a \in gone THEN 0 ELSE a6Ghost.probes[a]],
                         conflict |-> [a \in A6 |-> a \notin gone /\ a6Ghost.conflict[a]],
                         owed |-> [g \in SolicitedGroups |-> IF mld'[g].refs = 0 \/ (mld[g].at # 0 /\ mld[g].at <= now)
                                                      THEN 0 ELSE a6Ghost.owed[g]]]
     /\ UNCHANGED a6Case

Addr6Next ==
  \/ Tick
  \/ \E a \in A6 : nd6_dad_timer(a) \/ nd6_dad_duplicated(a)
  \/ \E v, p \in A6Lifetimes : nd6_slaac_prefix_add(v, p) \/ LeaseApplied(v, p)
  \/ LeaseRemoved
  \/ \E gs \in {SolicitedGroups} \cup {{g} : g \in SolicitedGroups}, max \in {d - 1 : d \in A6Delays} : mld6_input(gs, max)

-----------------------------------------------------------------------------
(* Type, and: exactly the tentative addresses are under test.                *)
Addr6TypeOK ==
  /\ \A a \in A6 : /\ ifa[a].on \/ ifa[a] = NoAddr
                   /\ ~(ifa[a].tentative /\ ifa[a].dup)
                   /\ dads[a].on = ifa[a].tentative
                   /\ dads[a].sent <= DadTransmits
  /\ rs.sent <= MaxSolicits /\ (rs.done => rs.next = 0)

(* An address is used only after all its probes went out and no other node   *)
(* answered while it was tentative (nd6_dad_timer, nd6_dad_duplicated).      *)
UsableChecked ==
  \A a \in A6 : ifa[a].on /\ ~ifa[a].tentative /\ ~ifa[a].dup =>
    a6Ghost.probes[a] = DadTransmits /\ ~a6Ghost.conflict[a]

(* A group is joined as often as the interface has addresses in it: two      *)
(* addresses with the same low bits share one (mld6_join, mld6_leave).       *)
GroupRefsExact == \A g \in SolicitedGroups : mld[g].refs = Cardinality({a \in A6 : ifa[a].on /\ Group[a] = g})

(* A router cannot end an address: an advertisement leaves it at least two   *)
(* hours, or what it had (nd6_slaac_refresh).                                *)
TwoHourRule ==
  [][ifa["slaac"].on /\ ifa'["slaac"].on /\ ifa'["slaac"].valid # 0 =>
       \/ ifa'["slaac"].valid >= a6Now + TwoHours
       \/ ifa["slaac"].valid # 0 /\ ifa'["slaac"].valid >= ifa["slaac"].valid]_addr6Vars

(* Lifetimes take effect: no address outlives its valid time, and exactly    *)
(* those past their preferred time are deprecated (ipv6_addr_expire).        *)
LifetimesKept ==
  \A a \in A6 : ifa[a].on =>
    /\ ifa[a].valid = 0 \/ ifa[a].valid > a6Now
    /\ ifa[a].pref # 0 /\ ifa[a].pref < a6Now => ifa[a].deprecated
    /\ ifa[a].deprecated => ifa[a].pref # 0 /\ ifa[a].pref <= a6Now

(* While no router answered, a host with a link-local address goes on asking *)
(* until it has asked often enough.                                          *)
SolicitsRouters ==
  ifa["ll"].on /\ ~ifa["ll"].tentative /\ ~ifa["ll"].dup /\ ~rs.done /\ rs.sent < MaxSolicits => rs.next # 0

(* A query is answered in time: the report of a group that was asked for is  *)
(* scheduled no later than the query allows.                                 *)
QueryAnswered == \A g \in SolicitedGroups : a6Ghost.owed[g] # 0 => mld[g].at # 0 /\ mld[g].at <= a6Ghost.owed[g]
=============================================================================

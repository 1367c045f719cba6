--------------------------------- MODULE Nd6 ---------------------------------
(* IPv6 neighbour discovery on one interface: the neighbour cache, the list  *)
(* of default routers, the on-link prefixes and the routes they put into the *)
(* routing table.  Input, timer and output run under the net lock, each is   *)
(* one step.  Addresses of the host itself are in module Addr6.              *)
EXTENDS Integers, Sequences, FiniteSets, SequencesExt

CONSTANTS
  Nbrs,               \* neighbours
  NdPrefixes,         \* prefixes routers announce; AnyPrefix is ::/0
  AnyPrefix,
  NdMaxNeighbors, NdMaxPending, NdMaxTx,
  NdMulticastTries, NdUnicastTries,
  NdRetrans, NdReachable, NdDelay, NdStale,   \* in timer periods
  NdLifetimes,        \* lifetimes of routers and prefixes in timer periods, 0 withdraws
  NdCases             \* scenarios: the operations allowed, how many, and the link addresses heard

VARIABLES
  nbr,       \* sequence of entries (info->neighbors)
  routers,   \* sequence of [addr, expires]
  ndDefault, \* [has, gw]: has_default, default_gw
  prefixes,  \* prefix -> time it becomes invalid, or -1
  route6,    \* prefix -> "none", "onlink" or a gateway
  ndNow,
  ndPkt,     \* ghost: packet -> [dst, at]
  ndGhost,   \* ghost: [quiet, anySeen, since]
  ndCase
nd6Vars == <<nbr, routers, ndDefault, prefixes, route6, ndNow, ndPkt, ndGhost, ndCase>>

NdInit(cases) ==
  /\ nbr = <<>> /\ routers = <<>>
  /\ ndDefault = [has |-> FALSE, gw |-> "none"]
  /\ prefixes = [p \in NdPrefixes |-> -1]
  /\ route6 = [p \in NdPrefixes \cup {AnyPrefix} |-> "none"]
  /\ ndNow = 0 /\ ndPkt = <<>>
  /\ ndGhost = [quiet |-> FALSE, anySeen |-> FALSE, since |-> [a \in Nbrs |-> 0]]
  /\ ndCase \in cases

(* The link address a valid message may carry (nd6_message checks the rest). *)
nd6_parse_options == ndCase.hws \cup {"none"}

NdStep(op) == op \in ndCase.ops /\ ndCase.left > 0 /\ ndCase' = [ndCase EXCEPT !.left = @ - 1]

-----------------------------------------------------------------------------
nd6_find(list, a) == {i \in DOMAIN list : list[i].addr = a}
Entry(list, a) == list[CHOOSE i \in nd6_find(list, a) : TRUE]
Known(list, a) == nd6_find(list, a) # {}
With(list, e) == [i \in DOMAIN list |-> IF list[i].addr = e.addr THEN e ELSE list[i]]
Without(list, a) == SelectSeq(list, LAMBDA e : e.addr # a)
nd6_create(a) == [addr |-> a, state |-> "incomplete", hw |-> "none", probes |-> 0, expires |-> 0,
                  router |-> FALSE, pending |-> <<>>]

nd6_set_state(e, state) ==
  [e EXCEPT !.state = state, !.probes = 0,
            !.expires = ndNow + (CASE state = "reachable" -> NdReachable
                                   [] state = "stale" -> NdStale
                                   [] state = "delay" -> NdDelay
                                   [] OTHER -> NdRetrans)]
NdSettled(pk, list, at) == [p \in DOMAIN pk |-> IF Contains(list, p) THEN [pk[p] EXCEPT !.at = at] ELSE pk[p]]

(* A link address heard of a neighbour that asked or advertised itself. *)
nd6_learn(list, a, hw, isRouter) ==
  LET known == IF Known(list, a) THEN list
               ELSE IF Len(list) >= NdMaxNeighbors THEN list ELSE Append(list, nd6_create(a))
      e == Entry(known, a)
      moved == IF e.state = "incomplete" \/ e.hw # hw THEN nd6_set_state([e EXCEPT !.hw = hw], "stale") ELSE e
  IN IF ~Known(known, a) THEN list
     ELSE With(known, [moved EXCEPT !.router = @ \/ isRouter, !.pending = <<>>])
HeldBack(list, a) == IF Known(list, a) THEN Entry(list, a).pending ELSE <<>>

(* Since when the entry of a has been under test. *)
Since(list, next) == [a \in Nbrs |->
  IF ~Known(next, a) \/ Entry(next, a).state \notin {"incomplete", "delay", "probe"} THEN 0
  ELSE IF Known(list, a) /\ Entry(list, a).state \in {"incomplete", "delay", "probe"} THEN ndGhost.since[a] ELSE ndNow]

nd6_resolve(a) ==
  LET p == Len(ndPkt) + 1
      known == IF Known(nbr, a) THEN nbr
               ELSE Append(nbr, [nd6_set_state(nd6_create(a), "incomplete") EXCEPT !.probes = 1])
      e == Entry(known, a)
      full == Len(e.pending) >= NdMaxPending
      queue == Append(e.pending, p)
      \* the oldest packet that waits makes room for this one
      lost == IF full THEN <<Head(queue)>> ELSE <<>>
      next == IF e.state = "incomplete" THEN With(known, [e EXCEPT !.pending = IF full THEN Tail(queue) ELSE queue])
              ELSE IF e.state = "stale" THEN With(known, nd6_set_state(e, "delay")) ELSE known
  IN /\ NdStep("resolve")
     /\ IF ~Known(nbr, a) /\ Len(nbr) >= NdMaxNeighbors
          THEN ndPkt' = Append(ndPkt, [dst |-> a, at |-> "freed"]) /\ UNCHANGED <<nbr, ndGhost>>
          ELSE /\ nbr' = next
               /\ ndPkt' = Append(NdSettled(ndPkt, lost, "freed"),
                                  [dst |-> a, at |-> IF e.state = "incomplete" THEN "pending" ELSE "sent"])
               /\ ndGhost' = [ndGhost EXCEPT !.since = Since(nbr, next)]
     /\ UNCHANGED <<routers, ndDefault, prefixes, route6, ndNow>>

(* Faulty variant: the packets that waited for the answer stay behind. *)
LearnKeeps(a, hw) ==
  /\ NdStep("ns")
  /\ nbr' = nd6_learn(nbr, a, hw, FALSE)
  /\ ndGhost' = [ndGhost EXCEPT !.since = Since(nbr, nbr')]
  /\ UNCHANGED <<routers, ndDefault, prefixes, route6, ndNow, ndPkt>>
(* Packets that were waiting leave with the answer, or are forgotten. *)
nd6_ns_input(a, hw) ==
  /\ NdStep("ns")
  /\ nbr' = nd6_learn(nbr, a, hw, FALSE)
  /\ ndPkt' = IF Known(nbr', a) THEN NdSettled(ndPkt, HeldBack(nbr, a), "sent") ELSE ndPkt
  /\ ndGhost' = [ndGhost EXCEPT !.since = Since(nbr, nbr')]
  /\ UNCHANGED <<routers, ndDefault, prefixes, route6, ndNow>>

(* A neighbour advertisement.  A neighbour that no longer is a router is     *)
(* taken off the router list; the default route is not looked at here.       *)
nd6_na_input(a, hw, solicited, override, router) ==
  LET e == Entry(nbr, a)
      have == hw # "none"
      differs == have /\ hw # e.hw
      confirmed == IF solicited THEN nd6_set_state([e EXCEPT !.hw = IF have THEN hw ELSE @], "reachable")
                   ELSE IF differs THEN nd6_set_state([e EXCEPT !.hw = hw], "stale") ELSE e
      demoted == e.state # "incomplete" /\ (override \/ ~differs) /\ e.router /\ ~router
      next == IF e.state = "incomplete"
                THEN IF have THEN [nd6_set_state([e EXCEPT !.hw = hw], IF solicited THEN "reachable" ELSE "stale")
                                     EXCEPT !.router = router, !.pending = <<>>]
                     ELSE e
              ELSE IF ~override /\ differs
                THEN IF e.state = "reachable" THEN nd6_set_state(e, "stale") ELSE e
              ELSE [confirmed EXCEPT !.router = router]
  IN /\ NdStep("na") /\ Known(nbr, a)
     /\ nbr' = With(nbr, next)
     /\ ndPkt' = IF e.state = "incomplete" /\ have THEN NdSettled(ndPkt, e.pending, "sent") ELSE ndPkt
     /\ routers' = IF demoted THEN Without(routers, a) ELSE routers
     /\ ndGhost' = [ndGhost EXCEPT !.since = Since(nbr, nbr'), !.quiet = @ \/ (demoted /\ Known(routers, a))]
     /\ UNCHANGED <<ndDefault, prefixes, route6, ndNow>>

-----------------------------------------------------------------------------
(* Routers and prefixes *)

(* route_add6, route_del6 *)
route_add6(rt, key, via) == [rt EXCEPT ![key] = via]
route_del6(rt, key) == [rt EXCEPT ![key] = "none"]

(* The first router of the list is the default one. *)
nd6_default_router(list) == IF list = <<>> THEN [has |-> FALSE, gw |-> "none"] ELSE [has |-> TRUE, gw |-> Head(list).addr]
nd6_update_default_route(rt, list) ==
  LET new == nd6_default_router(list)
  IN IF new.has = ndDefault.has /\ (new.has => new.gw = ndDefault.gw) THEN rt
     ELSE IF new.has THEN route_add6(rt, AnyPrefix, new.gw)
     ELSE route_del6(rt, AnyPrefix)

RouterHeard(list, a, lifetime) ==
  IF lifetime = 0 THEN Without(list, a)
  ELSE LET r == [addr |-> a, expires |-> ndNow + lifetime]
       IN IF Known(list, a) THEN With(list, r) ELSE Append(list, r)

(* A prefix option: a lifetime of 0 withdraws the prefix. *)
nd6_prefix_onlink(pf, rt, p, valid) ==
  IF valid > 0 THEN [pf |-> [pf EXCEPT ![p] = ndNow + valid],
                     rt |-> IF pf[p] = -1 THEN route_add6(rt, p, "onlink") ELSE rt]
  ELSE [pf |-> [pf EXCEPT ![p] = -1], rt |-> IF pf[p] = -1 THEN rt ELSE route_del6(rt, p)]

(* A router advertisement: lifetime, perhaps a link address, perhaps one     *)
(* on-link prefix.                                                           *)
nd6_ra_input(a, hw, lifetime, pi) ==
  LET list == RouterHeard(routers, a, lifetime)
      on == IF pi.p = "none" THEN [pf |-> prefixes, rt |-> route6] ELSE nd6_prefix_onlink(prefixes, route6, pi.p, pi.valid)
      learned == IF hw = "none" THEN nbr ELSE nd6_learn(nbr, a, hw, TRUE)
  IN /\ NdStep("ra")
     /\ routers' = list
     /\ nbr' = learned
     /\ ndPkt' = IF hw # "none" /\ Known(learned, a) THEN NdSettled(ndPkt, HeldBack(nbr, a), "sent") ELSE ndPkt
     /\ prefixes' = on.pf
     /\ route6' = nd6_update_default_route(on.rt, list)
     /\ ndDefault' = nd6_default_router(list)
     /\ ndGhost' = [quiet |-> FALSE, anySeen |-> ndGhost.anySeen \/ pi.p = AnyPrefix, since |-> Since(nbr, learned)]
     /\ UNCHANGED ndNow

(* One neighbour at a run of the timer: dropped, asked for again, or later   *)
(* when the run has no room for another message.                             *)
nd6_timer_entry(e, now, room) ==
  LET probe == IF e.state = "delay" THEN [e EXCEPT !.state = "probe", !.probes = 0, !.expires = now + NdRetrans] ELSE e
      asked(x) == [x EXCEPT !.probes = @ + 1, !.expires = now + NdRetrans]
      keep(x) == [drop |-> FALSE, e |-> x, tx |-> 0]
      gone == [drop |-> TRUE, e |-> e, tx |-> 0]
  IN IF now < e.expires THEN keep(e)
     ELSE CASE e.state = "reachable" -> keep([e EXCEPT !.state = "stale", !.probes = 0, !.expires = now + NdStale])
          [] e.state = "stale" -> gone
          [] e.state = "incomplete" /\ e.probes >= NdMulticastTries -> gone
          [] e.state \in {"delay", "probe"} /\ probe.probes >= NdUnicastTries -> gone
          [] OTHER -> IF room THEN [keep(asked(probe)) EXCEPT !.tx = 1] ELSE keep(probe)
nd6_timer_netif(now) ==
  FoldLeft(LAMBDA acc, e :
    LET r == nd6_timer_entry(e, now, acc.tx < NdMaxTx)
    IN IF r.drop THEN [acc EXCEPT !.dead = @ \o e.pending, !.gone = IF e.router THEN @ \cup {e.addr} ELSE @]
       ELSE [acc EXCEPT !.list = Append(@, r.e), !.tx = @ + r.tx],
    [list |-> <<>>, tx |-> 0, dead |-> <<>>, gone |-> {}], nbr)

(* Lifetimes that ended: a prefix of length 0 ends the search and keeps its  *)
(* route.  Which expired prefix comes first depends on the list's order.     *)
nd6_timer_lifetimes(now) ==
  LET over == {p \in NdPrefixes : prefixes[p] # -1 /\ prefixes[p] <= now}
  IN {s \in SUBSET over : IF AnyPrefix \in over THEN AnyPrefix \in s ELSE s = over}

(* A router whose lifetime ended leaves the list; the default route follows  *)
(* at once.                                                                  *)
TimerRun(now) ==
  \E r \in {nd6_timer_netif(now)}, over \in nd6_timer_lifetimes(now) :
    LET left == SelectSeq(routers, LAMBDA x : x.addr \notin r.gone)
        list == SelectSeq(left, LAMBDA x : x.expires > now)
        changed == list # left
        rt == IF changed THEN nd6_update_default_route(route6, list) ELSE route6
    IN /\ nbr' = r.list
       /\ routers' = list
       /\ prefixes' = [p \in NdPrefixes |-> IF p \in over THEN -1 ELSE prefixes[p]]
       /\ ndPkt' = NdSettled(ndPkt, r.dead, "freed")
       /\ route6' = [p \in DOMAIN route6 |-> IF p \in over \ {AnyPrefix} THEN "none" ELSE rt[p]]
       /\ ndDefault' = IF changed THEN nd6_default_router(list) ELSE ndDefault
       /\ ndGhost' = [ndGhost EXCEPT !.since = Since(nbr, r.list), !.quiet = ~changed /\ (@ \/ left # routers)]
nd6_timer ==
  /\ NdStep("timer")
  /\ ndNow' = ndNow + 1
  /\ TimerRun(ndNow + 1)

Nd6Next ==
  \/ nd6_timer
  \/ \E a \in Nbrs :
       \/ nd6_resolve(a)
       \/ \E hw \in ndCase.hws : nd6_ns_input(a, hw)
       \/ \E hw \in nd6_parse_options, sol, over, router \in BOOLEAN : nd6_na_input(a, hw, sol, over, router)
       \/ \E hw \in nd6_parse_options, life \in NdLifetimes :
            \E pi \in [p : NdPrefixes, valid : NdLifetimes] \cup {[p |-> "none", valid |-> 0]} : nd6_ra_input(a, hw, life, pi)

-----------------------------------------------------------------------------
(* Type: packets wait only at entries that are not resolved, the cache and   *)
(* its lists keep their limits, and no neighbour has two entries.            *)
Nd6TypeOK ==
  /\ Len(nbr) <= NdMaxNeighbors
  /\ \A i \in DOMAIN nbr :
       /\ nbr[i].state \in {"incomplete", "reachable", "stale", "delay", "probe"}
       /\ (nbr[i].hw = "none") = (nbr[i].state = "incomplete")
       /\ nbr[i].pending # <<>> => nbr[i].state = "incomplete"
       /\ Len(nbr[i].pending) <= NdMaxPending
       /\ nbr[i].probes <= NdMulticastTries + NdUnicastTries
  /\ \A list \in {nbr, routers} : \A i, j \in DOMAIN list : list[i].addr = list[j].addr => i = j

(* A packet that was neither sent nor freed waits at its own destination.    *)
Nd6PacketsOwned ==
  \A p \in DOMAIN ndPkt :
    (ndPkt[p].at = "pending") = (\E i \in DOMAIN nbr : nbr[i].addr = ndPkt[p].dst /\ Contains(nbr[i].pending, p))

(* The default route leads to the first router of the list, except after a   *)
(* router was taken off the list by an advertisement or by failed probes:    *)
(* the code leaves the route alone then (nd6_na_input, nd6_timer_netif).     *)
DefaultRouteCurrent ==
  ~ndGhost.quiet => /\ ndDefault = nd6_default_router(routers)
                    /\ ~ndGhost.anySeen => route6[AnyPrefix] = IF ndDefault.has THEN ndDefault.gw ELSE "none"

(* Exactly the on-link prefixes that are still valid have a route.           *)
OnlinkRoutes ==
  \A p \in NdPrefixes \ {AnyPrefix} : (prefixes[p] # -1) = (route6[p] = "onlink")

(* A neighbour that does not answer is given up in bounded time, also when a *)
(* run of the timer has no room to ask it.                                   *)
SilentNeighborGone ==
  \A i \in DOMAIN nbr :
    LET tries == IF nbr[i].state = "incomplete" THEN NdMulticastTries ELSE NdUnicastTries
    IN nbr[i].state \in {"incomplete", "delay", "probe"} =>
         ndNow - ndGhost.since[nbr[i].addr] <= NdDelay + NdRetrans * tries + tries * (Cardinality(Nbrs) - 1)
=============================================================================

-------------------------------- MODULE Dhcp --------------------------------
(* The DHCP clients of the interfaces: the exchange with a server whose      *)
(* messages may be lost or late, the lease, the address and the default      *)
(* route it gives to the interface.  The timer, input and the calls of the   *)
(* interface layer run under the net lock, each is one step.  Only answers   *)
(* to the exchange under way are seen here: dhcp_find_client drops others.   *)
EXTENDS Integers, FiniteSets

CONSTANTS
  Ifs,            \* interfaces
  DOffers,        \* what a server may put into an offer or an acknowledgement
  DTaken,         \* addresses the host has from elsewhere
  RequestTries,   \* DHCP_REQUEST_TRIES
  RetryMin,       \* DHCP_RETRY_MIN_S in ticks
  DeclineWait,    \* DHCP_DECLINE_WAIT_S in ticks
  Backoffs,       \* what dhcp_backoff may return
  DInfinite, MaxDhcpTime, DhcpCases

VARIABLES
  dc,       \* interface -> client
  dAddr,    \* interface -> [addr, until]: its address by DHCP
  dRoute,   \* interface of the default route, or "none"
  dNow, dCase
dhcpVars == <<dc, dAddr, dRoute, dNow, dCase>>

NoLease == [addr |-> "none", router |-> "none", server |-> "none", time |-> 0, t1 |-> 0, t2 |-> 0]
NoMessage == [type |-> "none", asks |-> "none", server |-> "none", ciaddr |-> "none", to |-> "none"]
NoClient == [state |-> "none", tries |-> 0, offer |-> NoLease, lease |-> NoLease, due |-> 0, req |-> 0,
             t1 |-> 0, t2 |-> 0, exp |-> 0, configured |-> FALSE, route |-> FALSE, msg |-> NoMessage]
NoIfAddr == [addr |-> "none", until |-> 0]

DhcpInit(cases) ==
  /\ dc = [i \in Ifs |-> NoClient] /\ dAddr = [i \in Ifs |-> NoIfAddr]
  /\ dRoute = "none" /\ dNow = 0 /\ dCase \in cases

DhcpStep(op) == op \in dCase.ops /\ dCase.left > 0 /\ dCase' = [dCase EXCEPT !.left = @ - 1]

(* Renewal times that make no sense are replaced. *)
dhcp_parse_options(o) ==
  IF o.time # DInfinite /\ (o.t1 = 0 \/ o.t2 = 0 \/ o.t1 >= o.t2 \/ o.t2 >= o.time)
    THEN [o EXCEPT !.t1 = o.time \div 2, !.t2 = (o.time * 7) \div 8] ELSE o

dhcp_retry_before(deadline) ==
  LET left == deadline - dNow
      wait == IF left \div 2 < RetryMin THEN RetryMin ELSE left \div 2
  IN IF deadline <= dNow THEN 1 ELSE IF wait < left THEN wait ELSE left

-----------------------------------------------------------------------------
(* The messages: what a client of this state says, and to whom. *)

(* The address and the server named: those of the offer until a lease is in use. *)
dhcp_build_options(c, type) ==
  IF type = "request" /\ c.state = "requesting" THEN <<c.offer.addr, c.offer.server>>
  ELSE IF type = "decline" THEN <<c.lease.addr, c.lease.server>> ELSE <<"none", "none">>
dhcp_is_unicast(c, type) == type = "request" /\ c.state = "renewing"
dhcp_build(c, type, named, to) ==
  [type |-> type, asks |-> named[1], server |-> named[2], to |-> to,
   ciaddr |-> IF c.configured /\ type = "request" /\ c.state \in {"renewing", "rebinding"} THEN c.lease.addr ELSE "none"]
(* The client after a message; a request also notes the time. *)
dhcp_send(c, type) ==
  [c EXCEPT !.req = IF type = "request" THEN dNow ELSE @,
            !.msg = dhcp_build(c, type, dhcp_build_options(c, type), IF dhcp_is_unicast(c, type) THEN c.lease.server ELSE "all")]

-----------------------------------------------------------------------------
(* The set of clients that c may become. *)

dhcp_discover(c) ==
  LET d == [c EXCEPT !.state = "selecting", !.tries = 1, !.offer = NoLease]
  IN {[dhcp_send(d, "discover") EXCEPT !.due = dNow + w] : w \in Backoffs}
dhcp_transmit(c) ==
  CASE c.state = "selecting" -> {[dhcp_send(c, "discover") EXCEPT !.tries = IF @ < RequestTries THEN @ + 1 ELSE @, !.due = dNow + w] : w \in Backoffs}
    [] c.state = "requesting" -> IF c.tries >= RequestTries THEN dhcp_discover(c)
                                 ELSE {[dhcp_send(c, "request") EXCEPT !.tries = @ + 1, !.due = dNow + w] : w \in Backoffs}
    [] c.state = "renewing" -> {[dhcp_send(c, "request") EXCEPT !.due = dNow + dhcp_retry_before(c.t2)]}
    [] c.state = "rebinding" -> {[dhcp_send(c, "request") EXCEPT !.due = dNow + dhcp_retry_before(c.exp)]}
dhcp_new_exchange(c, state) == dhcp_transmit([c EXCEPT !.state = state, !.tries = 0])

dhcp_bound(c) ==
  [c EXCEPT !.state = "bound",
            !.due = IF c.lease.time = DInfinite THEN 0 ELSE IF c.t1 > dNow THEN c.t1 ELSE dNow + 1]

Unconfigured(c) == [c EXCEPT !.configured = FALSE, !.route = FALSE]
(* The default route goes whoever set it last. *)
dhcp_remove_lease(i) ==
  IF ~dc[i].configured THEN UNCHANGED <<dAddr, dRoute>>
  ELSE /\ dAddr' = [dAddr EXCEPT ![i] = NoIfAddr]
       /\ dRoute' = IF dc[i].route THEN "none" ELSE dRoute

-----------------------------------------------------------------------------
dhcp_start(i) ==
  /\ DhcpStep("start") /\ dc[i].state \in {"none", "init"}
  /\ \E c \in dhcp_discover(dc[i]) : dc' = [dc EXCEPT ![i] = c]
  /\ UNCHANGED <<dAddr, dRoute, dNow>>
(* The interface goes: the route table forgets what leads through it. *)
dhcp_stop(i) ==
  /\ DhcpStep("stop") /\ dc[i].state # "none"
  /\ dc' = [dc EXCEPT ![i] = NoClient]
  /\ dhcp_remove_lease(i)
  /\ UNCHANGED dNow

dhcp_timer(i) ==
  LET c == dc[i]
      over == c.state = "rebinding" /\ dNow >= c.exp
  IN /\ c.due # 0 /\ c.due <= dNow
     /\ \E d \in CASE c.state = "init" -> dhcp_discover(c)
                   [] c.state \in {"selecting", "requesting"} -> dhcp_transmit(c)
                   [] c.state = "bound" -> IF dNow >= c.t1 THEN dhcp_new_exchange(c, "renewing") ELSE {[c EXCEPT !.due = c.t1]}
                   [] c.state = "renewing" -> IF dNow >= c.t2 THEN dhcp_new_exchange(c, "rebinding") ELSE dhcp_transmit(c)
                   [] c.state = "rebinding" -> IF over THEN dhcp_discover(Unconfigured(c)) ELSE dhcp_transmit(c) :
          dc' = [dc EXCEPT ![i] = d]
     /\ IF over THEN dhcp_remove_lease(i) ELSE UNCHANGED <<dAddr, dRoute>>
     /\ UNCHANGED <<dNow, dCase>>

(* An answer to the exchange of interface i, by its number and hardware address. *)
dhcp_find_client(i) == DhcpStep("answer") /\ dc[i].state # "none"
(* An offer is taken; the first one. *)
OfferInput(i, o) ==
  /\ dhcp_find_client(i) /\ dc[i].state = "selecting"
  /\ \E c \in dhcp_transmit([dc[i] EXCEPT !.state = "requesting", !.offer = o, !.tries = 0]) : dc' = [dc EXCEPT ![i] = c]
  /\ UNCHANGED <<dAddr, dRoute, dNow>>
Exchanging(i) == dc[i].state \in {"requesting", "renewing", "rebinding"}
NakInput(i) ==
  /\ dhcp_find_client(i) /\ Exchanging(i)
  /\ \E c \in dhcp_discover([Unconfigured(dc[i]) EXCEPT !.lease = NoLease]) : dc' = [dc EXCEPT ![i] = c]
  /\ dhcp_remove_lease(i)
  /\ UNCHANGED dNow

(* The lease of client c takes effect: times count from the latest request. *)
Timed(c) ==
  IF c.lease.time = DInfinite THEN [c EXCEPT !.t1 = 0, !.t2 = 0, !.exp = 0]
  ELSE [c EXCEPT !.t1 = c.req + c.lease.t1, !.t2 = c.req + c.lease.t2, !.exp = c.req + c.lease.time]
(* moved: the lease differs from the one configured, which is removed first. *)
dhcp_apply_lease(i, c, moved) ==
  IF dc[i].configured /\ ~moved
    THEN /\ dc' = [dc EXCEPT ![i] = dhcp_bound(c)]
         /\ dAddr' = [dAddr EXCEPT ![i].until = c.exp]
         /\ UNCHANGED dRoute
  ELSE IF c.lease.addr \in DTaken \/ \E j \in Ifs \ {i} : dAddr[j].addr = c.lease.addr
    THEN /\ dc' = [dc EXCEPT ![i] = [dhcp_send(Unconfigured(c), "decline") EXCEPT !.lease = NoLease, !.state = "init", !.due = dNow + DeclineWait]]
         /\ dhcp_remove_lease(i)
  ELSE LET sets == c.lease.router # "none"
           left == IF dc[i].configured /\ dc[i].route THEN "none" ELSE dRoute
       IN /\ dc' = [dc EXCEPT ![i] = dhcp_bound([c EXCEPT !.configured = TRUE, !.route = sets])]
          /\ dAddr' = [dAddr EXCEPT ![i] = [addr |-> c.lease.addr, until |-> c.exp]]
          /\ dRoute' = IF sets THEN i ELSE left
dhcp_ack(i, o) ==
  LET c == dc[i]
      server == IF c.state = "requesting" THEN c.offer.server ELSE IF o.server = "none" THEN c.lease.server ELSE o.server
      moved == o.addr # c.lease.addr \/ o.router # c.lease.router
  IN /\ dhcp_find_client(i) /\ Exchanging(i) /\ o.time # 0
     /\ c.state = "requesting" => o.server \in {"none", c.offer.server}
     /\ dhcp_apply_lease(i, Timed([c EXCEPT !.lease = [o EXCEPT !.server = server]]), moved)
     /\ UNCHANGED dNow

(* Time passes once every timer that is due ran.  The IPv4 layer keeps the   *)
(* end of an address' life and does not act on it.                           *)
DhcpTick ==
  /\ dNow < MaxDhcpTime
  /\ \A i \in Ifs : dc[i].due = 0 \/ dc[i].due > dNow
  /\ dNow' = dNow + 1
  /\ UNCHANGED <<dc, dAddr, dRoute, dCase>>

DhcpNext ==
  \/ DhcpTick
  \/ \E i \in Ifs :
       \/ dhcp_start(i) \/ dhcp_stop(i) \/ dhcp_timer(i) \/ NakInput(i)
       \/ \E o \in DOffers : \/ o.server # "none" /\ OfferInput(i, dhcp_parse_options(o))
                             \/ dhcp_ack(i, dhcp_parse_options(o))

-----------------------------------------------------------------------------
(* Type, and: a client has a configured lease exactly while it is bound or   *)
(* extends it (dhcp_input, dhcp_timer).                                      *)
DhcpTypeOK ==
  \A i \in Ifs : /\ dc[i].state \in {"none", "init", "selecting", "requesting", "bound", "renewing", "rebinding"}
                 /\ dc[i].configured = (dc[i].state \in {"bound", "renewing", "rebinding"})
                 /\ dc[i].route => dc[i].configured
                 /\ dc[i].tries <= RequestTries

(* A client never stops: unless its lease is infinite a timer will run,      *)
(* whatever answers came and in whatever state (dhcp_bound, dhcp_transmit).  *)
DhcpTimerArmed ==
  \A i \in Ifs : dc[i].state # "none" => dc[i].due # 0 \/ (dc[i].state = "bound" /\ dc[i].lease.time = DInfinite)

(* The interface has the address of the lease and no other, exactly while    *)
(* the lease is configured (dhcp_apply_lease, dhcp_remove_lease).            *)
DhcpAddressOwned ==
  \A i \in Ifs : dAddr[i] = IF dc[i].configured THEN [addr |-> dc[i].lease.addr, until |-> dc[i].exp] ELSE NoIfAddr

(* What a client last said fits what it has: a discovery asks for nothing,   *)
(* the first request names the offer it takes and the server that made it,   *)
(* to everybody; a renewal goes to the server of the lease alone, a          *)
(* rebinding to all, and both carry the address the interface really has     *)
(* (dhcp_build, dhcp_build_options, dhcp_is_unicast).                        *)
DhcpSays ==
  \A i \in Ifs :
    LET c == dc[i]  m == dc[i].msg
    IN /\ c.state = "selecting" => m.type = "discover" /\ m.ciaddr = "none" /\ m.asks = "none" /\ m.to = "all"
       /\ c.state = "requesting" => m.type = "request" /\ m.ciaddr = "none" /\ m.to = "all" /\ m.asks = c.offer.addr /\ m.server = c.offer.server
       /\ c.state \in {"renewing", "rebinding"} => m.type = "request" /\ m.ciaddr = dAddr[i].addr /\ m.asks = "none"
       /\ c.state = "renewing" => m.to = c.lease.server
       /\ c.state = "rebinding" => m.to = "all"

(* The default route leads through an interface whose client still has the   *)
(* lease that brought it.                                                    *)
DhcpRouteOwned == dRoute # "none" => dc[dRoute].route

(* Renewal, rebinding and the end of the lease come in time: the timer never *)
(* sleeps past the next of them, however often a request was repeated        *)
(* (dhcp_retry_before, dhcp_bound).                                          *)
DhcpDeadlines ==
  \A i \in Ifs : dc[i].configured /\ dc[i].exp # 0 =>
    LET deadline == CASE dc[i].state = "bound" -> dc[i].t1 [] dc[i].state = "renewing" -> dc[i].t2 [] OTHER -> dc[i].exp
    IN dc[i].due <= deadline \/ dc[i].due <= dNow + 1
=============================================================================

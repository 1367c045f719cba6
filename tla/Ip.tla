---------------------------------- MODULE Ip ----------------------------------
(* The network layer: which IPv4 and IPv6 packets a host accepts, what it     *)
(* answers, from which address and through which interface.  Hosts that run   *)
(* this code share links with senders that may send anything.  Addresses are  *)
(* numbers of Bits bits with the classes of the real ones scaled down, so     *)
(* that prefixes, broadcast addresses and common prefixes are computed.       *)
(* A step is one packet handled by the protocol's netisr, or one change of    *)
(* the host's addresses, under the net lock.                                  *)
EXTENDS Integers, Sequences, FiniteSets, SequencesExt

CONSTANTS
  Bits,           \* width of an address
  ErrorsPerWindow,\* ICMP_ERRORS_PER_S
  IpHz,           \* ticks in a window
  MaxIpTime,
  IpHosts, IpIfs, \* hosts and links; a host has an interface on every link
  IpCases

VARIABLES
  ipAddrs,    \* host -> its addresses, oldest first
  ipRoutes,   \* host -> its routes, oldest first
  ipWire,     \* packets that will reach a host
  ipLimit,    \* host -> start of the window and errors counted in it
  ipErrors,   \* ghost: <<host, tick>> -> ICMP errors sent
  ipNow, ipCase
ipVars == <<ipAddrs, ipRoutes, ipWire, ipLimit, ipErrors, ipNow, ipCase>>

IpInit(cases) ==
  /\ ipCase \in cases
  /\ ipAddrs = ipCase.addrs /\ ipRoutes = ipCase.routes
  /\ ipWire = {} /\ ipNow = 0
  /\ ipLimit = [h \in IpHosts |-> [start |-> 0, sent |-> 0]]
  /\ ipErrors = [e \in IpHosts \X (0..MaxIpTime) |-> 0]

-----------------------------------------------------------------------------
(* Addresses. *)

Net(a, len) == a \div 2^(Bits - len)
Unset == 0
INADDR_BROADCAST == 2^Bits - 1
ipv4_is_multicast(a) == Net(a, 3) = 6
Loopback4(a) == Net(a, 4) = 7
ipv6_addr_is_loopback(a) == a = 1
ipv6_addr_is_multicast(a) == Net(a, 2) = 3
ipv6_addr_is_linklocal(a) == Net(a, 3) = 5
ipv6_scope(a) == IF ipv6_addr_is_multicast(a) THEN IF Net(a, 3) = 6 THEN 2 ELSE 14
                 ELSE IF ipv6_addr_is_linklocal(a) \/ ipv6_addr_is_loopback(a) THEN 2
                 ELSE IF Net(a, 3) = 4 THEN 5 ELSE 14
ipv6_common_prefix(a, b) == Max({n \in 0..Bits : Net(a, n) = Net(b, n)})

IsV4 == ipCase.ver = 4
On(h, nif) == SelectSeq(ipAddrs[h], LAMBDA x : x.nif = nif)
addr_find(h, a) == {i \in DOMAIN ipAddrs[h] : ipAddrs[h][i].a = a}
Flags(h, a) == UNION {ipAddrs[h][i].flags : i \in addr_find(h, a)}
Dead == {"tentative", "duplicated"}
ipv6_addr_usable(x) == x.flags \cap Dead = {}
ipv4_is_local(h, a) == addr_find(h, a) # {}
ipv6_is_local(h, a) == ipv6_addr_is_loopback(a) \/ (addr_find(h, a) # {} /\ "duplicated" \notin Flags(h, a))

ipv4_is_broadcast(h, nif, a) ==
  a = INADDR_BROADCAST \/ \E i \in DOMAIN On(h, nif) : LET x == On(h, nif)[i]
                             IN x.len < Bits - 1 /\ a = (Net(x.a, x.len) + 1) * 2^(Bits - x.len) - 1

-----------------------------------------------------------------------------
(* Routes and addresses of a host. *)

Longer(best, r) == IF best.nif = "none" \/ r.len > best.len THEN r ELSE best
NoRoute == [dst |-> Unset, len |-> 0, gw |-> Unset, nif |-> "none"]
route_lookup(h, a) == FoldLeft(Longer, NoRoute, SelectSeq(ipRoutes[h], LAMBDA r : Net(a, r.len) = Net(r.dst, r.len)))
SameRoute(r, a, len) == r.len = len /\ Net(r.dst, len) = Net(a, len)
route_add(rs, a, len, gw, nif) ==
  LET new == [dst |-> a, len |-> len, gw |-> gw, nif |-> nif]
  IN IF \E i \in DOMAIN rs : SameRoute(rs[i], a, len)
     THEN [i \in DOMAIN rs |-> IF SameRoute(rs[i], a, len) THEN new ELSE rs[i]] ELSE Append(rs, new)
route_del(rs, a, len) == SelectSeq(rs, LAMBDA r : ~SameRoute(r, a, len))

IpStep(op) == op \in ipCase.ops /\ ipCase.left > 0 /\ ipCase' = [ipCase EXCEPT !.left = @ - 1]
Quiet == UNCHANGED <<ipWire, ipLimit, ipErrors, ipNow>>

ipv4_addr_add(h, nif, a, len) ==
  /\ IpStep("addr") /\ ~ipv4_is_local(h, a)
  /\ ipAddrs' = [ipAddrs EXCEPT ![h] = Append(@, [a |-> a, len |-> len, nif |-> nif, flags |-> {}])]
  /\ ipRoutes' = [ipRoutes EXCEPT ![h] = route_add(@, a, len, Unset, nif)]
  /\ Quiet
ipv4_addr_del(h, a) ==
  /\ IpStep("addr") /\ ipv4_is_local(h, a)
  /\ \E x \in {ipAddrs[h][i] : i \in addr_find(h, a)} : ipRoutes' = [ipRoutes EXCEPT ![h] = route_del(@, a, x.len)]
  /\ ipAddrs' = [ipAddrs EXCEPT ![h] = SelectSeq(@, LAMBDA x : x.a # a)]
  /\ Quiet
(* Duplicate address detection and lifetimes change the flags (module Addr6). *)
ipv6_addr_update(h, a, flags) ==
  /\ IpStep("flags") /\ addr_find(h, a) # {}
  /\ ipAddrs' = [ipAddrs EXCEPT ![h] = [i \in DOMAIN @ |-> IF @[i].a = a THEN [@[i] EXCEPT !.flags = flags] ELSE @[i]]]
  /\ Quiet /\ UNCHANGED ipRoutes

-----------------------------------------------------------------------------
(* Source addresses. *)

ipv4_select_source_on(h, nif, dst) ==
  LET near == SelectSeq(On(h, nif), LAMBDA x : Net(x.a, x.len) = Net(dst, x.len))
  IN IF near # <<>> THEN Head(near).a ELSE IF On(h, nif) # <<>> THEN Head(On(h, nif)).a ELSE Unset

ipv6_source_better(c, b, dst) ==
  LET sd == ipv6_scope(dst)  sc == ipv6_scope(c.a)  sb == ipv6_scope(b.a)
  IN IF c.a = dst \/ b.a = dst THEN c.a = dst
     ELSE IF sc # sb THEN IF sc < sb THEN sc >= sd ELSE sb < sd
     ELSE IF ("deprecated" \in c.flags) # ("deprecated" \in b.flags) THEN "deprecated" \in b.flags
     ELSE ipv6_common_prefix(c.a, dst) > ipv6_common_prefix(b.a, dst)
NoPacket == [type |-> "nothing"]
Nobody == [a |-> Unset, len |-> 0, nif |-> "none", flags |-> {}]
Best6(xs, dst) == FoldLeft(LAMBDA b, c : IF b = Nobody \/ ipv6_source_better(c, b, dst) THEN c ELSE b, Nobody, SelectSeq(xs, ipv6_addr_usable))
DefaultIf(h) == IF ipAddrs[h] = <<>> THEN "none" ELSE Head(ipAddrs[h]).nif
ipv6_netif_for(h, dst) == IF ipv6_addr_is_multicast(dst) \/ ipv6_addr_is_linklocal(dst) THEN DefaultIf(h) ELSE route_lookup(h, dst).nif
(* Unset when there is none with a scope as large as the destination's. *)
ipv6_select_source(h, nif, dst) ==
  LET best == Best6(On(h, nif), dst)
  IN IF ipv6_addr_is_loopback(dst) THEN dst
     ELSE IF best = Nobody \/ (ipv6_scope(best.a) < ipv6_scope(dst) /\ ~ipv6_addr_is_multicast(dst)) THEN Unset ELSE best.a

-----------------------------------------------------------------------------
(* Output: the set of arrivals that a packet of host h leads to. *)

(* Everybody on the link when the frame is sent to all, which the receiver    *)
(* remembers (NETBUF_BCAST, NETBUF_MCAST), else who has the next hop.         *)
Arrivals(h, nif, p, hop, all) ==
  {[to |-> g, nif |-> nif, all |-> all, p |-> p] : g \in {x \in IpHosts \ {h} : all \/ \E i \in addr_find(x, hop) : ipAddrs[x][i].nif = nif}}
ipv4_output(h, src, p, allowBcast) ==
  LET r == route_lookup(h, p.dst)
      via == IF r.nif = "none" /\ p.dst = INADDR_BROADCAST THEN DefaultIf(h) ELSE r.nif
      bcast == ipv4_is_broadcast(h, via, p.dst)
      s == IF src # Unset THEN src ELSE ipv4_select_source_on(h, via, p.dst)
      q == [p EXCEPT !.src = s]
  IN IF via = "none" \/ (bcast /\ ~allowBcast) \/ (s = Unset /\ ~bcast) THEN {}
     ELSE IF ipv4_is_local(h, p.dst) THEN {[to |-> h, nif |-> via, all |-> FALSE, p |-> q]}
     ELSE Arrivals(h, via, q, IF r.gw # Unset THEN r.gw ELSE p.dst, bcast \/ ipv4_is_multicast(p.dst))
(* nif is the interface the caller asks for, or none. *)
ipv6_output(h, nif, src, p) ==
  LET scoped == ipv6_addr_is_multicast(p.dst) \/ ipv6_addr_is_linklocal(p.dst)
      local == ~ipv6_addr_is_multicast(p.dst) /\ ipv6_is_local(h, p.dst)
      r == route_lookup(h, p.dst)
      owner(a) == {ipAddrs[h][i].nif : i \in addr_find(h, a)}
      via == IF ~scoped /\ ~local THEN r.nif ELSE IF nif # "none" THEN nif
             ELSE IF owner(src) # {} THEN CHOOSE n \in owner(src) : TRUE
             ELSE IF local /\ owner(p.dst) # {} THEN CHOOSE n \in owner(p.dst) : TRUE ELSE DefaultIf(h)
      s == IF src # Unset THEN src ELSE ipv6_select_source(h, via, p.dst)
      q == [p EXCEPT !.src = s]
  IN IF via = "none" \/ s = Unset THEN {}
     ELSE IF local THEN {[to |-> h, nif |-> via, all |-> FALSE, p |-> q]}
     ELSE Arrivals(h, via, q, IF ~scoped /\ r.gw # Unset THEN r.gw ELSE p.dst, ipv6_addr_is_multicast(p.dst))
icmp6_output(h, nif, src, p) ==
  LET s == IF src # Unset THEN src ELSE ipv6_select_source(h, nif, p.dst)
  IN IF s = Unset THEN {} ELSE ipv6_output(h, nif, s, p)

-----------------------------------------------------------------------------
(* Answers.  An answer remembers what it answers, and who sent it (ghost). *)

Answer(x, type) == [ver |-> x.p.ver, src |-> Unset, dst |-> x.p.src, proto |-> "icmp", type |-> type, ext |-> "none", frag |-> "no",
                    re |-> [x.p EXCEPT !.re = NoPacket], by |-> x.to, in |-> x.nif, was |-> x.all]
Silent == UNCHANGED <<ipLimit, ipErrors>>
Sends(x, out) == ipWire' = (ipWire \ {x}) \cup out
Ignore(x) == Sends(x, {}) /\ Silent

icmp_bad_source(h, nif, a) == a = Unset \/ a = INADDR_BROADCAST \/ Loopback4(a) \/ ipv4_is_multicast(a) \/ ipv4_is_broadcast(h, nif, a)
NotToOne(h, nif, a) == ipv4_is_multicast(a) \/ ipv4_is_broadcast(h, nif, a)
icmp_rate_ok(h) == IF ipNow - ipLimit[h].start >= IpHz THEN [start |-> ipNow, sent |-> 1]
                   ELSE [ipLimit[h] EXCEPT !.sent = @ + 1]
(* An error is counted, and sent when the window has room for it. *)
LimitedError(x, out) ==
  LET h == x.to  w == icmp_rate_ok(h)  ok == w.sent <= ErrorsPerWindow
  IN /\ ipLimit' = [ipLimit EXCEPT ![h] = [w EXCEPT !.sent = IF @ > ErrorsPerWindow + 1 THEN ErrorsPerWindow + 1 ELSE @]]
     /\ ipErrors' = [ipErrors EXCEPT ![<<h, ipNow>>] = IF ok THEN @ + 1 ELSE @]
     /\ Sends(x, IF ok THEN out ELSE {})

icmp_error(x) ==
  LET h == x.to  p == x.p
  IN IF x.all \/ NotToOne(h, x.nif, p.dst) \/ icmp_bad_source(h, x.nif, p.src) \/ (p.proto = "icmp" /\ p.type = "error") THEN Ignore(x)
     ELSE LimitedError(x, ipv4_output(h, IF ipv4_is_local(h, p.dst) THEN p.dst ELSE Unset, Answer(x, "error"), FALSE))
icmp_echo_reply(x) ==
  LET h == x.to  p == x.p
  IN IF x.all \/ NotToOne(h, x.nif, p.dst) \/ icmp_bad_source(h, x.nif, p.src) THEN Ignore(x)
     ELSE Silent /\ Sends(x, ipv4_output(h, p.dst, Answer(x, "reply"), FALSE))
icmp_input(x) == IF x.p.type = "echo" THEN icmp_echo_reply(x) ELSE Ignore(x)

Group6(x) == x.all \/ ipv6_addr_is_multicast(x.p.dst)
(* Faulty variant: errors are answered with errors. *)
AnyErrorAllowed(x, exempt) == x.p.src # Unset /\ ~ipv6_addr_is_multicast(x.p.src) /\ (Group6(x) => exempt)
(* The protocol behind the options; a fragment header hides it. *)
ipv6_process_ext_headers(p) == IF p.frag = "no" THEN p.proto ELSE "fragment"
(* Options that name a code for every destination are answered to groups too. *)
icmp6_error_allowed(x, exempt) ==
  /\ x.p.src # Unset /\ ~ipv6_addr_is_multicast(x.p.src)
  /\ Group6(x) => exempt
  /\ ~(ipv6_process_ext_headers(x.p) = "icmp" /\ x.p.type = "error")
icmp6_error(x, exempt) ==
  IF ~icmp6_error_allowed(x, exempt) THEN Ignore(x)
  ELSE LimitedError(x, icmp6_output(x.to, x.nif, IF addr_find(x.to, x.p.dst) # {} THEN x.p.dst ELSE Unset, Answer(x, "error")))
icmp6_echo_reply(x) ==
  IF x.p.src = Unset THEN Ignore(x)
  ELSE Silent /\ Sends(x, icmp6_output(x.to, x.nif, IF ipv6_addr_is_multicast(x.p.dst) THEN Unset ELSE x.p.dst, Answer(x, "reply")))
icmp6_input(x) == IF x.p.type = "echo" THEN icmp6_echo_reply(x) ELSE Ignore(x)

-----------------------------------------------------------------------------
(* Input. *)

ipv4_input(x) ==
  LET h == x.to  p == x.p
  IN IF ipv4_is_multicast(p.src) \/ p.src = INADDR_BROADCAST THEN Ignore(x)
     ELSE IF ~(ipv4_is_local(h, p.dst) \/ NotToOne(h, x.nif, p.dst)) THEN Ignore(x)
     ELSE IF p.proto = "icmp" THEN icmp_input(x)
     ELSE IF p.proto = "none" \/ ~NotToOne(h, x.nif, p.dst) THEN icmp_error(x)   \* no protocol, or no UDP port
     ELSE Ignore(x)

ipv6_accept_dst(x) ==
  IF ipv6_addr_is_multicast(x.p.dst) THEN x.p.dst \in ipCase.groups
  ELSE IF addr_find(x.to, x.p.dst) # {} THEN Flags(x.to, x.p.dst) \cap Dead = {}
  ELSE FALSE   \* the loopback address, on another interface than the loopback one
(* What the options of the extension headers ask for, by the two upper bits. *)
ipv6_options_ok(x) == x.p.ext = "skip"
OptionsInput(x) ==
  CASE x.p.ext = "drop" -> Ignore(x)
    [] x.p.ext = "error1" -> IF ipv6_addr_is_multicast(x.p.dst) THEN Ignore(x) ELSE icmp6_error(x, TRUE)
    [] x.p.ext = "error" -> icmp6_error(x, TRUE)
    [] x.p.ext = "routing" -> icmp6_error(x, FALSE)   \* segments left, or hop-by-hop options that are not first
(* Behind the options may be a fragment header: one with a bad length, or one *)
(* of a packet in one piece (the rest is module Fragments), which goes on     *)
(* without it to its protocol.                                                *)
ipv6_input(x) ==
  LET p == x.p
  IN IF ipv6_addr_is_multicast(p.src) \/ ipv6_addr_is_loopback(p.src) \/ ~ipv6_accept_dst(x) THEN Ignore(x)
     ELSE IF p.ext # "none" /\ ~ipv6_options_ok(x) THEN OptionsInput(x)
     ELSE IF p.frag = "bad" THEN icmp6_error(x, FALSE)
     ELSE IF p.proto = "icmp" THEN icmp6_input(x)
     ELSE IF ~ipv6_addr_is_multicast(p.dst) THEN icmp6_error(x, FALSE)           \* no protocol, or no UDP port
     ELSE Ignore(x)

Receive(x) ==
  /\ IF x.p.ver = 4 THEN ipv4_input(x) ELSE ipv6_input(x)
  /\ UNCHANGED <<ipAddrs, ipRoutes, ipNow, ipCase>>
(* Anybody sends anything to a host. *)
Inject(x) ==
  /\ IpStep("inject")
  /\ ipWire' = ipWire \cup {x}
  /\ UNCHANGED <<ipAddrs, ipRoutes, ipLimit, ipErrors, ipNow>>
(* A datagram of a socket that is not bound to an address. *)
Datagram(dst) == [ver |-> ipCase.ver, src |-> Unset, dst |-> dst, proto |-> "udp", type |-> "data", ext |-> "none", frag |-> "no",
                  re |-> NoPacket, by |-> "none", in |-> "none", was |-> FALSE]
SourceFor(h, dst) ==
  IF IsV4 THEN ipv4_select_source_on(h, route_lookup(h, dst).nif, dst)
  ELSE ipv6_select_source(h, ipv6_netif_for(h, dst), dst)
inpcb_ip_output(h, dst, bcast) ==
  /\ IpStep("send")
  /\ \E s \in {SourceFor(h, dst)} :
       ipWire' = ipWire \cup (IF s = Unset THEN {} ELSE IF IsV4 THEN ipv4_output(h, s, Datagram(dst), bcast)
                              ELSE ipv6_output(h, "none", s, Datagram(dst)))
  /\ UNCHANGED <<ipAddrs, ipRoutes, ipLimit, ipErrors, ipNow>>
IpTick ==
  /\ "tick" \in ipCase.ops /\ ipNow < MaxIpTime /\ ipNow' = ipNow + 1
  /\ UNCHANGED <<ipAddrs, ipRoutes, ipWire, ipLimit, ipErrors, ipCase>>

IpNext ==
  \/ \E x \in ipWire : Receive(x)
  \/ \E x \in ipCase.packets : Inject(x)
  \/ \E h \in IpHosts : \/ \E a \in ipCase.dsts, bcast \in BOOLEAN : inpcb_ip_output(h, a, bcast)
                        \/ \E c \in ipCase.changes : \/ ipv4_addr_add(h, c.nif, c.a, c.len)
                                                     \/ ipv4_addr_del(h, c.a)
                                                     \/ ipv6_addr_update(h, c.a, c.flags)
  \/ IpTick

-----------------------------------------------------------------------------
(* Type: an address is on a host once, and the counters stay in their range. *)
IpTypeOK ==
  /\ \A h \in IpHosts : /\ \A i, j \in DOMAIN ipAddrs[h] : ipAddrs[h][i].a = ipAddrs[h][j].a => i = j
                        /\ \A i, j \in DOMAIN ipRoutes[h] : SameRoute(ipRoutes[h][i], ipRoutes[h][j].dst, ipRoutes[h][j].len) => i = j
                        /\ ipLimit[h].sent \in 0..(ErrorsPerWindow + 1) /\ ipLimit[h].start <= ipNow
  /\ \A x \in ipWire : x.to \in IpHosts /\ x.nif \in IpIfs

IsAnswer(p) == p.re # NoPacket
Unicast(p, a) == IF p.ver = 4 THEN a # Unset /\ a # INADDR_BROADCAST /\ ~ipv4_is_multicast(a)
                 ELSE a # Unset /\ ~ipv6_addr_is_multicast(a)

(* Nothing answers an ICMP error, whoever sent it and whatever options are in *)
(* the packet, unless a fragment header with a bad option before it or a bad  *)
(* length hides the error; and no answer, which never has a fragment header,  *)
(* is answered: two hosts never keep each other busy.                         *)
HiddenError(p) == p.frag = "bad" \/ (p.frag = "behind" /\ p.ext \notin {"none", "skip"})
AnswersEnd ==
  \A x \in ipWire : IsAnswer(x.p) => (x.p.re.type = "error" => HiddenError(x.p.re)) /\ x.p.re.by = "none" /\ x.p.frag = "no"

(* An answer goes to one host and answers what was sent to one host, by its   *)
(* address and by its frame; for IPv6 an echo to a group, and an option that  *)
(* asks for it, may be answered too.  No answer is a broadcast on the link it *)
(* goes to.                                                                   *)
AnswerToOne ==
  \A x \in ipWire : IsAnswer(x.p) =>
    /\ Unicast(x.p, x.p.dst) /\ ~x.all
    /\ x.p.ver = 4 => \A h \in IpHosts : ~ipv4_is_broadcast(h, x.nif, x.p.dst) \/ "addr" \in ipCase.ops
    /\ \/ /\ Unicast(x.p, x.p.re.dst) /\ ~x.p.was
          /\ x.p.ver = 4 => ~ipv4_is_broadcast(x.p.by, x.p.in, x.p.re.dst) \/ "addr" \in ipCase.ops
       \/ x.p.ver = 6 /\ (x.p.re.type = "echo" \/ x.p.re.ext = "error" \/ (x.p.re.ext = "error1" /\ Unicast(x.p, x.p.re.dst)))

(* The source of a new answer is an address that the host has and may use at  *)
(* that moment, also when the packet was sent to a group or the address was   *)
(* lost or found to be a duplicate while the packet waited.                   *)
AnswerOwn ==
  [][\A x \in ipWire' \ ipWire : IsAnswer(x.p) =>
       \E i \in DOMAIN ipAddrs[x.p.by] : ipAddrs[x.p.by][i].a = x.p.src /\ ipv6_addr_usable(ipAddrs[x.p.by][i])]_ipVars

(* An echo request from a neighbour to an address of the host is answered,    *)
(* also on links whose prefix leaves no room for a broadcast address.         *)
RepliesReach ==
  [][\A x \in ipWire \ ipWire' :
       /\ x.p.type = "echo" /\ x.p.ext \in {"none", "skip"} /\ x.p.frag # "bad" /\ (x.p.ver = 4 => ~x.all) /\ ipCase.ops \cap {"addr", "flags"} = {}
       /\ \E i \in addr_find(x.to, x.p.dst) : ipv6_addr_usable(ipAddrs[x.to][i])
       /\ \E g \in IpHosts \ {x.to} : \E i \in addr_find(g, x.p.src) : ipAddrs[g][i].nif = x.nif
       => \E y \in ipWire' : IsAnswer(y.p) /\ y.p.dst = x.p.src /\ y.p.src = x.p.dst /\ y.to # x.to]_ipVars

(* In any stretch of one window's length a host sends at most two windows'    *)
(* worth of errors.                                                           *)
ErrorRate ==
  \A h \in IpHosts, t \in 0..MaxIpTime :
    FoldFunctionOnSet(+, 0, ipErrors, {e \in DOMAIN ipErrors : e[1] = h /\ e[2] \in t..(t + IpHz - 1)}) <= 2 * ErrorsPerWindow

(* The source for an IPv6 destination: the destination itself when it is on   *)
(* the interface; else one of the smallest scope that reaches it, among those *)
(* one that is not deprecated, among those one with the longest common prefix.*)
Candidates(h, nif) == {x \in Range(On(h, nif)) : ipv6_addr_usable(x)}
Reaching(h, nif, dst) == {x \in Candidates(h, nif) : ipv6_scope(x.a) >= ipv6_scope(dst)}
SourceBest ==
  ~IsV4 => \A h \in IpHosts, nif \in IpIfs, dst \in ipCase.probes :
    LET s == ipv6_select_source(h, nif, dst)
        fit == {x \in Reaching(h, nif, dst) : \A y \in Reaching(h, nif, dst) : ipv6_scope(x.a) <= ipv6_scope(y.a)}
        young == {x \in fit : "deprecated" \notin x.flags}
        pool == IF young = {} THEN fit ELSE young
    IN ~ipv6_addr_is_loopback(dst) =>
       /\ fit = {} => s = Unset \/ ipv6_addr_is_multicast(dst)
       /\ fit # {} => \/ s = dst
                      \/ \E x \in pool : x.a = s /\ \A y \in pool : /\ ipv6_common_prefix(y.a, dst) <= ipv6_common_prefix(s, dst)
                                                                    /\ y.a # dst
=============================================================================

------------------------------ MODULE MCNet ------------------------------
(* Instances of the modules of the network: each behaviour is one of one
   module, part, on its own; the others stay in a first state. *)
EXTENDS Arp, Nd6, Addr6, Dhcp, Dhcp6, Fragments, Ip, Sockets, Udp, Nic

(* Neighbour discovery: lookups, advertisements, solicitations and routers. *)
MCNdCases == { [ops |-> {"resolve", "na", "timer"}, left |-> 5, hws |-> {"h1", "h2"}],
               [ops |-> {"ra", "na", "timer"}, left |-> 4, hws |-> {"h1"}],
               [ops |-> {"resolve", "ns", "timer"}, left |-> 6, hws |-> {"h1", "h2"}],
               [ops |-> {"ra", "resolve", "timer"}, left |-> 4, hws |-> {"h1"}] }

(* An interface with three addresses, two of them in one group. *)
MCGroup == [a \in {"ll", "slaac", "dhcp"} |-> IF a = "dhcp" THEN "g2" ELSE "g1"]
MCA6Cases == { [ops |-> {"ra", "conflict"}, left |-> 3], [ops |-> {"dhcp", "conflict"}, left |-> 3], [ops |-> {"ra", "query"}, left |-> 2] }

(* Offers with and without times, routers and a server. *)
O(a, r, s, t, t1, t2) == [addr |-> a, router |-> r, server |-> s, time |-> t, t1 |-> t1, t2 |-> t2]
MCDOffers == { O("a1", "r1", "s1", 4, 0, 0), O("a2", "none", "s1", 4, 1, 3), O("a3", "none", "s1", 4, 1, 3), O("a1", "r1", "none", 9, 0, 0) }
MCDhcpCases == { [ops |-> {"start", "answer"}, left |-> 4], [ops |-> {"start", "stop", "answer"}, left |-> 4] }

(* Offers of two servers, with odd times and statuses. *)
Offer6(a, p, v, t1, t2, b, st, ia) == [addr |-> a, server |-> IF b THEN "s1" ELSE "s2", pref |-> p, valid |-> v, t1 |-> t1, t2 |-> t2, best |-> b, status |-> st, ia |-> ia]
MCD6Offers == { Offer6("a1", 4, 4, 1, 2, FALSE, "ok", "ok"), Offer6("a1", 4, 4, 0, 0, TRUE, "ok", "ok"), Offer6("a2", 2, 3, 3, 2, TRUE, "ok", "ok"),
   Offer6("a2", 2, 3, 1, 2, TRUE, "ok", "ok"), Offer6("a3", 2, 3, 1, 2, FALSE, "ok", "ok"), Offer6("a1", 0, 0, 0, 0, FALSE, "ok", "ok"),
   Offer6("none", 0, 0, 0, 0, FALSE, "ok", "nobinding"), Offer6("a1", 9, 9, 0, 0, FALSE, "ok", "ok"), Offer6("a1", 3, 2, 0, 0, FALSE, "ok", "ok") }
MCD6Cases == { [ops |-> {"start", "answer"}, left |-> 6], [ops |-> {"start", "stop", "answer"}, left |-> 5] }

(* Datagrams of two or three cells, also under one key, and odd fragments. *)
Dgram(n, k, l) == [name |-> n, key |-> k, len |-> l]
D1 == Dgram("x", 1, 3)
D2 == Dgram("y", 2, 2)
D4 == Dgram("w", 3, 2)
D3 == Dgram("z", 1, 3)
Odd == [key |-> 2, off |-> 0, cells |-> <<<<"y", 0>>>>, more |-> TRUE, odd |-> TRUE]
Long == [key |-> 2, off |-> 4, cells |-> <<<<"y", 4>>>>, more |-> FALSE, odd |-> FALSE]
MCFragCases ==
  [ver : {4, 6}, ops : {{"input"}}, left : {5}, inputs : {ipv4_fragment(D1, 1) \cup ipv4_fragment(D1, 2) \cup ipv4_fragment(D2, 1)}, sole : {{D1, D2}}]
  \cup [ver : {4, 6}, ops : {{"input"}}, left : {5}, inputs : {ipv6_fragment(D1, 1) \cup ipv6_fragment(D3, 2) \cup {Odd, Long}}, sole : {{}}]
  \cup [ver : {4, 6}, ops : {{"input", "detach"}}, left : {5}, inputs : {ipv6_fragment(D1, 1)}, sole : {{D1}}]
  \cup [ver : {4, 6}, ops : {{"input"}}, left : {5}, inputs : {ipv4_fragment(D2, 1) \cup ipv4_fragment(D4, 1) \cup ipv4_fragment(D3, 2)}, sole : {{D2, D3, D4}}]

(* Two hosts on one or two links; addresses have five bits. *)
Ad(a, l, n) == [a |-> a, len |-> l, nif |-> n, flags |-> {}]
Ro(a, l, g, n) == [dst |-> a, len |-> l, gw |-> g, nif |-> n]
Two(x, y) == [h \in {"A", "B"} |-> IF h = "A" THEN x ELSE y]
Addrs4 == Two(<<Ad(9, 3, "e"), Ad(16, 4, "f")>>, <<Ad(10, 3, "e"), Ad(17, 4, "f")>>)
Routes4 == Two(<<Ro(8, 3, 0, "e"), Ro(16, 4, 0, "f"), Ro(0, 0, 10, "e")>>, <<Ro(8, 3, 0, "e"), Ro(16, 4, 0, "f")>>)
Addresses6 == Two(<<Ad(20, 3, "e"), Ad(8, 3, "e"), Ad(16, 3, "e")>>, <<Ad(21, 3, "e"), Ad(9, 3, "e")>>)
Routes6 == Two(<<Ro(8, 3, 0, "e"), Ro(0, 0, 21, "e")>>, <<Ro(8, 3, 0, "e")>>)
Tentative6 == [h \in {"A", "B"} |-> [i \in DOMAIN Addresses6[h] |-> [Addresses6[h][i] EXCEPT !.flags = {"tentative"}]]]
Options == {"none", "skip", "drop", "error1", "error", "routing"}
Kinds == {<<"icmp", "echo">>, <<"icmp", "error">>, <<"icmp", "reply">>, <<"udp", "data">>, <<"none", "data">>}
Pkts(v, nifs, srcs, dsts, kinds, exts) ==
  {[to |-> "A", nif |-> n, all |-> FALSE, p |-> [ver |-> v, src |-> s, dst |-> d, proto |-> k[1], type |-> k[2], ext |-> x, frag |-> "no",
                                                 re |-> NoPacket, by |-> "none", in |-> "none", was |-> FALSE]]
     : n \in nifs, s \in srcs, d \in dsts, k \in kinds, x \in exts}
ToAll(ps, all, frags) == {[x EXCEPT !.all = a, !.p.frag = f] : x \in ps, a \in all, f \in frags}
Case4(ops, left, pk, dsts, ch) == [ver |-> 4, addrs |-> Addrs4, routes |-> Routes4, groups |-> {}, ops |-> ops, left |-> left, packets |-> pk, probes |-> {}, dsts |-> dsts, changes |-> ch]
Case6(ops, left, pk, dsts, ch) == [ver |-> 6, addrs |-> Addresses6, routes |-> Routes6, groups |-> {24, 28}, ops |-> ops, left |-> left, packets |-> pk, probes |-> {}, dsts |-> dsts, changes |-> ch]
All4 == Pkts(4, {"e", "f"}, {0, 10, 11, 15, 17, 20, 24, 31}, {9, 16, 11, 24, 31, 12}, Kinds, {"none"})
All6 == Pkts(6, {"e"}, {0, 1, 21, 9, 4, 24}, {20, 8, 24, 25, 28, 12}, Kinds, Options)
Some4 == Pkts(4, {"e"}, {10}, {9, 16}, {<<"udp", "data">>, <<"icmp", "echo">>}, {"none"})
Some6 == Pkts(6, {"e"}, {9, 21}, {8, 20}, {<<"udp", "data">>, <<"icmp", "echo">>}, {"none"})
Ch(n, a, l, f) == [nif |-> n, a |-> a, len |-> l, flags |-> f]
MCIpCases ==
  {Case4({"inject"}, 1, ToAll(All4, BOOLEAN, {"no"}), {}, {}), Case6({"inject"}, 1, ToAll(All6, BOOLEAN, {"no"}), {}, {}),
   Case6({"inject"}, 1, ToAll(Pkts(6, {"e"}, {21, 9}, {20, 8, 24}, Kinds, Options), BOOLEAN, {"behind", "bad"}), {}, {}),
   Case4({"send"}, 1, {}, {9, 10, 17, 20, 24, 31, 11}, {}), Case6({"send"}, 1, {}, {8, 9, 20, 21, 4, 24, 28}, {}),
   Case4({"inject", "tick"}, 4, Pkts(4, {"e"}, {10}, {9}, {<<"udp", "data">>, <<"none", "data">>}, {"none"}), {}, {}),
   Case6({"inject", "tick"}, 4, Pkts(6, {"e"}, {9}, {8}, {<<"udp", "data">>, <<"icmp", "echo">>}, {"none", "error"}), {}, {}),
   Case4({"inject", "addr"}, 4, Some4, {}, {Ch("e", 9, 3, {}), Ch("f", 8, 3, {}), Ch("f", 16, 5, {})}),
   [Case6({"inject", "flags"}, 5, Some6, {},
      {Ch("e", a, 3, f) : a \in {20, 8, 16}, f \in {{"tentative"}, {"deprecated"}, {"duplicated"}, {}}}) EXCEPT !.probes = {21, 9, 4, 17, 28, 24, 8}, !.addrs = Tentative6]}

(* Pairs, a listener and connections; signals, timeouts and closes. *)
Sc(ops, left, sizes, all, nb) == [ops |-> ops, left |-> left, sizes |-> sizes, all |-> all, nb |-> nb]
MCSockCases ==
  {Sc({"pair", "send", "recv", "timeout"}, 4, {1, 3}, {FALSE}, BOOLEAN),
   Sc({"pair", "send", "recv", "shutdown"}, 5, {3}, {FALSE}, {FALSE}),
   Sc({"pair", "send", "recv", "shutdown"}, 4, {1, 2}, {TRUE}, {FALSE}),
   Sc({"pair", "send", "recv", "close", "signal"}, 5, {3}, {FALSE}, {FALSE}),
   Sc({"listen", "conn", "accept", "close", "reset", "timeout"}, 6, {1}, {FALSE}, {FALSE}),
   Sc({"listen", "conn", "accept", "recv", "reset", "signal"}, 6, {1}, {FALSE}, {FALSE}),
   Sc({"socket", "conn", "connect", "recv", "reset", "close", "timeout", "signal"}, 5, {1}, {FALSE}, BOOLEAN)}

(* Sockets of both families that bind, connect, send and receive. *)
Uc(ops, left, v6, reuse) == [ops |-> ops, left |-> left, v6 |-> v6, reuse |-> reuse]
MCUdpCases ==
  {Uc({"attach", "bind", "connect", "send", "input"}, 5, {FALSE}, {FALSE}),
   Uc({"attach", "bind", "connect", "input", "detach"}, 5, {TRUE}, {FALSE}),
   Uc({"attach", "bind", "connect", "send"}, 5, {FALSE}, {FALSE, TRUE}),
   Uc({"attach", "bind", "shutdown", "input", "send", "detach"}, 5, BOOLEAN, {FALSE})}

(* Two CPUs that send, and receive bursts with errors. *)
NicJob(op, n) == [op |-> op, frames |-> [i \in 1..n |-> "wire"]]
NicCase(jobs, packets, echo, bad) == [jobs |-> jobs, packets |-> packets, echo |-> echo, bad |-> bad]
NicCasesDef == {
  NicCase(<< <<NicJob("call", 2)>>, <<NicJob("fast", 2)>> >>, 0, {}, 0),
  NicCase(<< <<NicJob("fast", 1), NicJob("fast", 1)>>, <<NicJob("call", 3)>> >>, 0, {}, 0),
  NicCase(<< <<NicJob("tick", 0)>>, <<NicJob("poll", 0)>> >>, 2, {1}, 2),
  NicCase(<< <<>>, <<NicJob("poll", 0)>> >>, 5, {}, 0)}

VARIABLE part

(* The cases of the part that runs; another part has one of its own. *)
Of(name, cases) == IF part = name THEN cases ELSE {CHOOSE c \in cases : TRUE}
NetInit ==
  /\ part \in {"arp", "nd6", "addr6", "dhcp", "dhcp6", "fragments", "ip", "sockets", "udp", "nic"}
  /\ ArpInit
  /\ NdInit(Of("nd6", NdCases))
  /\ Addr6Init(Of("addr6", A6Cases), Of("addr6", A6Delays))
  /\ DhcpInit(Of("dhcp", DhcpCases))
  /\ Dhcp6Init(Of("dhcp6", D6Cases))
  /\ FragInit(IF part = "fragments" THEN FragCases ELSE {c \in FragCases : "detach" \in c.ops /\ c.ver = 4})
  /\ IpInit(IF part = "ip" THEN IpCases ELSE {c \in IpCases : c.packets = {} /\ c.ver = 4})
  /\ SockInit(Of("sockets", SockCases))
  /\ UdpInit(Of("udp", UdpCases))
  /\ NicInit(Of("nic", NicCases))
OtherParts ==
  /\ UNCHANGED part
  /\ (part # "arp" => UNCHANGED arpVars)
  /\ (part # "nd6" => UNCHANGED nd6Vars)
  /\ (part # "addr6" => UNCHANGED addr6Vars)
  /\ (part # "dhcp" => UNCHANGED dhcpVars)
  /\ (part # "dhcp6" => UNCHANGED dhcp6Vars)
  /\ (part # "fragments" => UNCHANGED fragVars)
  /\ (part # "ip" => UNCHANGED ipVars)
  /\ (part # "sockets" => UNCHANGED sockVars)
  /\ (part # "udp" => UNCHANGED udpVars)
  /\ (part # "nic" => UNCHANGED nicVars)
NetNext ==
  \/ part = "arp" /\ ArpNext /\ OtherParts
  \/ part = "nd6" /\ Nd6Next /\ OtherParts
  \/ part = "addr6" /\ Addr6Next /\ OtherParts
  \/ part = "dhcp" /\ DhcpNext /\ OtherParts
  \/ part = "dhcp6" /\ Dhcp6Next /\ OtherParts
  \/ part = "fragments" /\ FragNext /\ OtherParts
  \/ part = "ip" /\ IpNext /\ OtherParts
  \/ part = "sockets" /\ SockNext /\ OtherParts
  \/ part = "udp" /\ UdpNext /\ OtherParts
  \/ part = "nic" /\ NicNext /\ OtherParts
NetSpec == NetInit /\ [][NetNext]_<<part, arpVars, nd6Vars, addr6Vars, dhcpVars, dhcp6Vars, fragVars, ipVars, sockVars, udpVars, nicVars>>
-------------------------------------------------------------------------------
(* Properties: what each part promises *)

(* Address resolution (arp.c, nd6.c): a packet that waits is sent, dropped or
   still held, once; an unanswered question ends; packets go where the latest
   answer said; the default route and the on-link routes follow the routers
   heard; a neighbour that stays silent is forgotten. *)
NeighborsSound ==
  /\ [](part = "arp" => ArpTypeOK /\ ArpPacketsOwned /\ ArpResolutionEnds /\ ArpSentToLatest)
  /\ [](part = "nd6" => Nd6TypeOK /\ Nd6PacketsOwned /\ DefaultRouteCurrent /\ OnlinkRoutes /\ SilentNeighborGone)

(* IPv6 addresses (nd6.c, ipv6.c, mld6.c): none is used before its duplicate
   test, groups are joined exactly as long as an address needs them, lifetimes
   take effect and an unauthenticated advertisement cannot cut one below two
   hours, routers are asked for and queries answered. *)
Addr6Sound ==
  /\ [](part = "addr6" => Addr6TypeOK /\ UsableChecked /\ GroupRefsExact /\ LifetimesKept /\ SolicitsRouters /\ QueryAnswered)
  /\ TwoHourRule

(* DHCP clients (dhcp.c, dhcp6.c): a client that is not stopped has a timer, an
   interface has the address and the routes of the lease and of nothing else,
   renewing starts in time, and a message says what its state demands. *)
LeasesSound ==
  /\ [](part = "dhcp" => DhcpTypeOK /\ DhcpTimerArmed /\ DhcpAddressOwned /\ DhcpSays /\ DhcpRouteOwned /\ DhcpDeadlines)
  /\ [](part = "dhcp6" => Dhcp6TypeOK /\ D6TimerArmed /\ D6AddressOwned /\ D6Deadlines /\ D6Says)

(* Reassembly (ipv4.c, ipv6.c): what is delivered is a datagram as it was sent,
   whatever order, copies and overlaps its fragments came in; buffers have one
   owner; a datagram that lacks a part is given up in time. *)
FragmentsSound ==
  part = "fragments" => FragTypeOK /\ FragIntact /\ FragBuffersOwned /\ FragExpire /\ FragAlive

(* Answers of hosts (icmp.c, icmp6.c, route.c): no answer to an answer or to
   more than one, a bounded rate of errors, the best source address, answers
   only from an own address, and echo requests of neighbours answered. *)
IpSound ==
  /\ [](part = "ip" => IpTypeOK /\ AnswersEnd /\ AnswerToOne /\ ErrorRate /\ SourceBest)
  /\ AnswerOwn /\ RepliesReach

(* Sockets (socket.c, unix.c): a call keeps its socket while it sleeps, the
   queues of a listener match, a stream loses nothing and never grows after
   its end, no sleeper misses what it waits for, poll tells what calls do. *)
SocketsSound ==
  /\ [](part = "sockets" => SockTypeOK /\ CallHoldsSocket /\ QueuesMatch /\ UnixStream /\ NoLostSocketWake /\ PollAgrees)
  /\ EofIsFinal
===============================================================================

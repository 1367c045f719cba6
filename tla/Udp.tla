--------------------------------- MODULE Udp ---------------------------------
(* UDP and the protocol control blocks it shares with TCP (inpcb.c): which   *)
(* socket owns an address and port, which one a datagram is delivered to,    *)
(* and the two hash tables that answer this.  Every operation runs under the *)
(* net lock and is one step.                                                 *)
EXTENDS Integers, Sequences, FiniteSets, SequencesExt

CONSTANTS
  Pcbs,
  NoPcb,
  AnyAddr,
  V4, V6,         \* unicast addresses of the two families, ours and others'
  Local,          \* ours
  Unreachable,    \* those no source address is found for
  Groups,         \* multicast addresses (IPv4)
  Ports,          \* ports programs name
  Ephemeral,      \* INPCB_PORT_FIRST..INPCB_PORT_LAST
  RcvMax,         \* datagrams of a full receive buffer
  UdpCases

ASSUME UdpAssumption ==
  /\ AnyAddr \notin V4 \cup V6 /\ Local \subseteq V4 \cup V6 /\ 0 \notin Ports \cup Ephemeral
  /\ V4 \cap V6 = {} /\ Groups \cap (V4 \cup V6) = {} /\ NoPcb \notin Pcbs /\ RcvMax \in Nat
  /\ UdpCases \subseteq [ops : SUBSET STRING, left : Nat, v6 : SUBSET BOOLEAN, reuse : SUBSET BOOLEAN]

VARIABLES
  pcb,       \* the control blocks
  hash,      \* the tuple each was filed under, or none
  byPort,    \* port_hash: the blocks filed, in order
  delivered, \* ghost: the last datagram and who got it
  sent,      \* ghost: the last datagram that left
  udpCase
udpVars == <<pcb, hash, byPort, delivered, sent, udpCase>>

Unused == [used |-> FALSE, v6 |-> FALSE, reuse |-> FALSE, laddr |-> AnyAddr, lport |-> 0,
           faddr |-> AnyAddr, fport |-> 0, cantsend |-> FALSE, cantrcv |-> FALSE, rcv |-> <<>>]
NotFiled == <<>>
NoDatagram == [src |-> AnyAddr, sport |-> 0, dst |-> AnyAddr, dport |-> 0]
UdpInit(cases) ==
  /\ udpCase \in cases
  /\ pcb = [p \in Pcbs |-> Unused] /\ hash = [p \in Pcbs |-> NotFiled] /\ byPort = <<>>
  /\ delivered = [d |-> NoDatagram, to |-> {}] /\ sent = [d |-> NoDatagram, by |-> NoPcb]

UdpStep(op) == op \in udpCase.ops /\ udpCase.left > 0 /\ udpCase' = [udpCase EXCEPT !.left = @ - 1]
Forget == delivered' = [d |-> NoDatagram, to |-> {}] /\ sent' = [d |-> NoDatagram, by |-> NoPcb]

-----------------------------------------------------------------------------
(* The hash tables.  A block is taken out of the chain its tuple names now:  *)
(* if that is not the one it was filed in, it stays where it is.             *)

inpcb_hash(k) == <<k.faddr, k.fport, k.laddr, k.lport>>
inpcb_hash_insert(H, p, k) == [H EXCEPT ![p] = inpcb_hash(k)]
inpcb_hash_remove(H, p, k) == IF H[p] = inpcb_hash(k) THEN [H EXCEPT ![p] = NotFiled] ELSE H
Unfiled(p) == IF p \in ToSet(byPort) THEN RemoveAt(byPort, CHOOSE i \in DOMAIN byPort : byPort[i] = p) ELSE byPort
(* Faulty variant: the old place is looked up with the new fields. *)
RefiledTooLate(p, k) ==
  /\ pcb' = [pcb EXCEPT ![p] = k]
  /\ hash' = (LET H == inpcb_hash_remove(hash, p, k) IN IF k.lport = 0 \/ H[p] # NotFiled THEN H ELSE inpcb_hash_insert(H, p, k))
  /\ byPort' = IF k.lport = 0 THEN Unfiled(p) ELSE Append(Unfiled(p), p)
(* The block's fields become k, filed anew unless it has no port. *)
inpcb_rehash(p, k) ==
  /\ pcb' = [pcb EXCEPT ![p] = k]
  /\ hash' = (LET H == inpcb_hash_remove(hash, p, pcb[p]) IN IF k.lport = 0 \/ H[p] # NotFiled THEN H ELSE inpcb_hash_insert(H, p, k))
  /\ byPort' = IF k.lport = 0 THEN Unfiled(p) ELSE Append(Unfiled(p), p)
inpcb_free(p) ==
  /\ pcb' = [pcb EXCEPT ![p] = Unused]
  /\ hash' = inpcb_hash_remove(hash, p, pcb[p]) /\ byPort' = Unfiled(p)

-----------------------------------------------------------------------------
(* Who owns a port. *)

inpcb_bindings_overlap(other, laddr) == other.laddr = AnyAddr \/ laddr = AnyAddr \/ other.laddr = laddr
inpcb_port_in_use(p, laddr, lport) ==
  \E q \in ToSet(byPort) \ {p} :
    /\ pcb[q].lport = lport
    /\ ~(pcb[p].reuse /\ pcb[q].faddr # AnyAddr)
    /\ inpcb_bindings_overlap(pcb[q], laddr)
FreePorts(p, laddr) == {n \in Ephemeral : ~inpcb_port_in_use(p, laddr, n)}
(* The source address the routes choose for a destination. *)
inpcb_select_source(dst) ==
  IF dst \in Local THEN {dst} ELSE IF dst \in Unreachable THEN {}
  ELSE {l \in Local : (l \in V4) = (dst \in V4 \cup Groups)}
(* The addresses a program can name on the socket. *)
inpcb_sockaddr_to_in6(p) == IF pcb[p].v6 THEN V4 \cup V6 ELSE V4

-----------------------------------------------------------------------------
(* Which socket a datagram is for. *)

SameTuple(p, d) == hash[p] = <<d.src, d.sport, d.dst, d.dport>> /\ hash[p] = inpcb_hash(pcb[p])
inpcb_lookup_exact(d) == {p \in Pcbs : SameTuple(p, d)}
inpcb_family_ok(k, addr) == addr \notin V6 \/ k.v6
Listens(p, d) == pcb[p].lport = d.dport /\ pcb[p].fport = 0 /\ inpcb_family_ok(pcb[p], d.dst)
FirstOf(S) == {p \in S : \E i \in DOMAIN byPort : byPort[i] = p /\ \A j \in 1..(i - 1) : byPort[j] \notin S}
inpcb_lookup_wild(d) ==
  LET all == {p \in ToSet(byPort) : Listens(p, d)}
      exact == {p \in all : pcb[p].laddr = d.dst}
  IN IF exact # {} THEN FirstOf(exact) ELSE FirstOf({p \in all : pcb[p].laddr = AnyAddr})
inpcb_lookup(d) ==
  LET exact == inpcb_lookup_exact(d) IN IF exact # {} THEN {CHOOSE p \in exact : TRUE} ELSE inpcb_lookup_wild(d)
udp_pcb_matches(p, d) ==
  LET k == pcb[p]
  IN /\ k.used /\ k.lport = d.dport /\ (k.laddr = AnyAddr \/ k.laddr = d.dst)
     /\ (k.fport = 0 \/ (k.fport = d.sport /\ k.faddr = d.src))
     /\ inpcb_family_ok(k, d.dst)

udp_deliver(p, d) ==
  IF pcb[p].cantrcv \/ Len(pcb[p].rcv) >= RcvMax THEN pcb[p]
  ELSE [pcb[p] EXCEPT !.rcv = Append(@, [src |-> d.src, sport |-> d.sport])]
udp_input_packet(d) ==
  /\ UdpStep("input")
  /\ LET to == IF d.dst \in Groups THEN {p \in Pcbs : udp_pcb_matches(p, d)} ELSE inpcb_lookup(d)
     IN /\ pcb' = [p \in Pcbs |-> IF p \in to THEN udp_deliver(p, d) ELSE pcb[p]]
        /\ delivered' = [d |-> d, to |-> to]
  /\ sent' = [d |-> NoDatagram, by |-> NoPcb]
  /\ UNCHANGED <<hash, byPort>>

-----------------------------------------------------------------------------
(* The calls. *)

udp_attach(p, v6, reuse) ==
  /\ UdpStep("attach") /\ ~pcb[p].used /\ \A q \in Pcbs : q < p => pcb[q].used
  /\ pcb' = [pcb EXCEPT ![p] = [Unused EXCEPT !.used = TRUE, !.v6 = v6, !.reuse = reuse]]
  /\ Forget /\ UNCHANGED <<hash, byPort>>

Bound(p, laddr, n) == inpcb_rehash(p, [pcb[p] EXCEPT !.laddr = laddr, !.lport = n])
inpcb_bind(p, laddr, lport) ==
  /\ pcb[p].lport = 0
  /\ \/ lport # 0 /\ ~inpcb_port_in_use(p, laddr, lport) /\ Bound(p, laddr, lport)
     \/ lport = 0 /\ \E n \in FreePorts(p, laddr) : Bound(p, laddr, n)
     \/ lport = 0 /\ FreePorts(p, laddr) = {} /\ pcb' = [pcb EXCEPT ![p].laddr = AnyAddr] /\ UNCHANGED <<hash, byPort>>
udp_bind(p, laddr, lport) ==
  /\ UdpStep("bind") /\ pcb[p].used /\ laddr \in (inpcb_sockaddr_to_in6(p) \cap Local) \cup {AnyAddr}
  /\ inpcb_bind(p, laddr, lport) /\ Forget

(* connect: an earlier peer is given up first, whatever becomes of the rest. *)
Disconnected(k) == [k EXCEPT !.faddr = AnyAddr, !.fport = 0]
inpcb_disconnect(p) == inpcb_rehash(p, Disconnected(pcb[p]))
Source(p, faddr) == IF pcb[p].laddr = AnyAddr THEN inpcb_select_source(faddr) ELSE {pcb[p].laddr}
Taken(p, faddr, fport, laddr) ==
  /\ pcb[p].lport # 0
  /\ inpcb_lookup_exact([src |-> faddr, sport |-> fport, dst |-> laddr, dport |-> pcb[p].lport]) \ {p} # {}
Connected(p, faddr, fport, laddr, n) == inpcb_rehash(p, [pcb[p] EXCEPT !.laddr = laddr, !.lport = n, !.faddr = faddr, !.fport = fport])
inpcb_connect(p, faddr, fport) ==
  \/ Source(p, faddr) = {} /\ inpcb_disconnect(p)
  \/ \E l \in Source(p, faddr) :
       \/ Taken(p, faddr, fport, l) /\ inpcb_disconnect(p)
       \/ pcb[p].lport # 0 /\ ~Taken(p, faddr, fport, l) /\ Connected(p, faddr, fport, l, pcb[p].lport)
       \/ pcb[p].lport = 0 /\ \E n \in FreePorts(p, l) : Connected(p, faddr, fport, l, n)
       \/ pcb[p].lport = 0 /\ FreePorts(p, l) = {} /\ pcb' = [pcb EXCEPT ![p].laddr = l] /\ UNCHANGED <<hash, byPort>>
udp_connect(p, faddr, fport) ==
  /\ UdpStep("connect") /\ pcb[p].used /\ faddr \in inpcb_sockaddr_to_in6(p)
  /\ inpcb_connect(p, faddr, fport) /\ Forget

(* sendto and send: a socket without a port gets one first, in one step. *)
udp_resolve_dst(p, dst) == IF dst = NoDatagram THEN pcb[p].fport # 0 ELSE pcb[p].fport = 0 /\ dst.dst \in inpcb_sockaddr_to_in6(p) \cup Groups
Goes(p, dst, src, n) ==
  [by |-> p, d |-> [src |-> src, sport |-> n,
                    dst |-> IF dst = NoDatagram THEN pcb[p].faddr ELSE dst.dst, dport |-> IF dst = NoDatagram THEN pcb[p].fport ELSE dst.dport]]
udp_output_locked(p, dst) ==
  /\ UdpStep("send") /\ pcb[p].used /\ ~pcb[p].cantsend /\ udp_resolve_dst(p, dst)
  /\ delivered' = [d |-> NoDatagram, to |-> {}]
  /\ LET to == IF dst = NoDatagram THEN pcb[p].faddr ELSE dst.dst
     IN \/ pcb[p].lport # 0 /\ Source(p, to) # {} /\ \E l \in Source(p, to) : sent' = Goes(p, dst, l, pcb[p].lport) /\ UNCHANGED <<pcb, hash, byPort>>
        \/ pcb[p].lport = 0 /\ \E n \in FreePorts(p, AnyAddr) :
             /\ Bound(p, AnyAddr, n)
             /\ \/ \E l \in inpcb_select_source(to) : sent' = Goes(p, dst, l, n)
                \/ inpcb_select_source(to) = {} /\ sent' = [d |-> NoDatagram, by |-> NoPcb]

Shut(k, how) == [k EXCEPT !.cantsend = @ \/ how # "rd", !.cantrcv = @ \/ how # "wr", !.rcv = IF how = "wr" THEN @ ELSE <<>>]
udp_shutdown(p, how) ==
  /\ UdpStep("shutdown") /\ pcb[p].used
  /\ pcb' = [pcb EXCEPT ![p] = Shut(@, how)]
  /\ Forget /\ UNCHANGED <<hash, byPort>>
sock_recv(p) ==
  /\ pcb[p].rcv # <<>> /\ pcb' = [pcb EXCEPT ![p].rcv = Tail(@)]
  /\ Forget /\ UNCHANGED <<hash, byPort, udpCase>>
udp_detach(p) == UdpStep("detach") /\ pcb[p].used /\ inpcb_free(p) /\ Forget

UdpNext ==
  \/ \E p \in Pcbs : sock_recv(p) \/ udp_detach(p)
  \/ \E p \in Pcbs, v6 \in udpCase.v6, reuse \in udpCase.reuse : udp_attach(p, v6, reuse)
  \/ \E p \in Pcbs, l \in Local \cup {AnyAddr}, n \in Ports \cup {0} : udp_bind(p, l, n)
  \/ \E p \in Pcbs, f \in V4 \cup V6, n \in Ports : udp_connect(p, f, n)
  \/ \E p \in Pcbs, how \in {"rd", "wr", "rdwr"} : udp_shutdown(p, how)
  \/ \E p \in Pcbs : udp_output_locked(p, NoDatagram)
                     \/ \E a \in V4 \cup V6 \cup Groups, n \in Ports : udp_output_locked(p, [NoDatagram EXCEPT !.dst = a, !.dport = n])
  \/ \E s \in (V4 \cup V6) \ Local, n \in Ports, t \in Local \cup Groups, m \in Ports \cup Ephemeral :
       /\ (s \in V4) = (t \in V4 \cup Groups)
       /\ udp_input_packet([src |-> s, sport |-> n, dst |-> t, dport |-> m])

UdpSpec == UdpInit(UdpCases) /\ [][UdpNext]_udpVars

-----------------------------------------------------------------------------
(* The properties. *)

(* Type: fields in range, a port only with a filed block, bounded buffers.   *)
UdpTypeOK ==
  /\ \A p \in Pcbs :
       /\ pcb[p].laddr \in Local \cup {AnyAddr} /\ pcb[p].faddr \in V4 \cup V6 \cup {AnyAddr}
       /\ pcb[p].lport \in Ports \cup Ephemeral \cup {0} /\ (pcb[p].fport # 0) = (pcb[p].faddr # AnyAddr)
       /\ Len(pcb[p].rcv) <= RcvMax
  /\ IsInjective(byPort)

(* A block is in the hash chain of its present addresses and ports, through  *)
(* every bind, connect and reconnect, and in none once it is freed: lookups  *)
(* find every socket and nothing else.                                       *)
FiledRight ==
  \A p \in Pcbs : /\ hash[p] = (IF pcb[p].lport = 0 THEN NotFiled ELSE inpcb_hash(pcb[p]))
                  /\ p \in ToSet(byPort) <=> hash[p] # NotFiled

(* Two sockets that share a port and could be sent the same datagram: one    *)
(* has SO_REUSEADDR.  So two programs cannot take each other's port.         *)
Overlap(a, b) == AnyAddr \in {a, b} \/ a = b
PortsOwned ==
  \A p, q \in Pcbs : p # q /\ pcb[p].lport # 0 /\ pcb[p].lport = pcb[q].lport
                     /\ Overlap(pcb[p].laddr, pcb[q].laddr) => pcb[p].reuse \/ pcb[q].reuse

(* A unicast datagram goes to one socket at most, and to the most specific:  *)
(* never to a stranger's connected socket, never past the connected one.     *)
Rank(p, d) == (IF pcb[p].fport # 0 THEN 2 ELSE 0) + (IF pcb[p].laddr # AnyAddr THEN 1 ELSE 0)
RightSocket ==
  delivered.d.dst \in Local =>
    LET d == delivered.d  fit == {p \in Pcbs : udp_pcb_matches(p, d)}
    IN /\ Cardinality(delivered.to) <= 1 /\ delivered.to \subseteq fit
       /\ fit # {} => \E p \in delivered.to : \A q \in fit : Rank(q, d) <= Rank(p, d)

(* The answer to a datagram reaches the socket that sent it.                 *)
AnswerComesBack ==
  LET d == sent.d
  IN sent.by # NoPcb /\ d.dst \notin Groups
     /\ (\A q \in Pcbs \ {sent.by} : ~pcb[q].reuse) /\ ~pcb[sent.by].reuse =>
     inpcb_lookup([src |-> d.dst, sport |-> d.dport, dst |-> d.src, dport |-> d.sport]) = {sent.by}

(* UDP (udp.c, inpcb.c): a block is filed under what it is bound to, two     *)
(* sockets do not own one port, a datagram reaches the socket it is for and  *)
(* its answer comes back to the sender.                                      *)
UdpSound == UdpTypeOK /\ FiledRight /\ PortsOwned /\ RightSocket /\ AnswerComesBack
=============================================================================

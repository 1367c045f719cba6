------------------------------ MODULE NetProofs ------------------------------
(***************************************************************************)
(* Theorems about the network: the protocol control blocks (udp.c,         *)
(* inpcb.c) as Udp models them, for any sockets, addresses and ports, and  *)
(* the network card with its queues (e1000.c, netif.c, netisr.c) as Nic    *)
(* models them, for any CPUs, ring sizes and batches.                      *)
(***************************************************************************)
EXTENDS Udp, Nic, SequenceTheorems, FiniteSetTheorems, WellFoundedInduction, NaturalsInduction, TLAPS

(* UDP and protocol control blocks (udp.c, inpcb.c) *)

(* What a control block holds. *)
Addr == V4 \cup V6
Inpcb == [used : BOOLEAN, v6 : BOOLEAN, reuse : BOOLEAN, laddr : Local \cup {AnyAddr},
          lport : Ports \cup Ephemeral \cup {0}, faddr : Addr \cup {AnyAddr}, fport : Ports \cup {0},
          cantsend : BOOLEAN, cantrcv : BOOLEAN, rcv : Seq([src : Addr, sport : Ports])]
InpcbOK(k) ==
  /\ k \in Inpcb /\ Len(k.rcv) <= RcvMax
  /\ (k.fport # 0) = (k.faddr # AnyAddr)
  /\ k.fport # 0 => k.lport # 0 /\ k.laddr # AnyAddr
  /\ k.lport # 0 => k.used
  /\ k.laddr \in V6 => k.v6

(* The hash tables hold the blocks with a port, and nothing else. *)
Filed(P, H, Q) ==
  /\ H = [p \in Pcbs |-> IF P[p].lport = 0 THEN NotFiled ELSE inpcb_hash(P[p])]
  /\ Q \in Seq(Pcbs) /\ IsInjective(Q)
  /\ \A p \in Pcbs : p \in ToSet(Q) <=> P[p].lport # 0
Owned(P) ==
  \A p, q \in Pcbs : p # q /\ P[p].lport # 0 /\ P[p].lport = P[q].lport
                     /\ Overlap(P[p].laddr, P[q].laddr) => P[p].reuse \/ P[q].reuse
Tables(P, H, Q) == P \in [Pcbs -> Inpcb] /\ (\A p \in Pcbs : InpcbOK(P[p])) /\ Filed(P, H, Q) /\ Owned(P)
UdpCaseType == [ops : SUBSET STRING, left : Nat, v6 : SUBSET BOOLEAN, reuse : SUBSET BOOLEAN]
UdpInv ==
  /\ udpCase \in UdpCaseType
  /\ Tables(pcb, hash, byPort) /\ RightSocket /\ AnswerComesBack

(* The lookups, for given tables. *)
Fits(k, d) ==
  /\ k.used /\ k.lport = d.dport /\ (k.laddr = AnyAddr \/ k.laddr = d.dst)
  /\ (k.fport = 0 \/ (k.fport = d.sport /\ k.faddr = d.src))
  /\ inpcb_family_ok(k, d.dst)
ListensK(k, d) == k.lport = d.dport /\ k.fport = 0 /\ inpcb_family_ok(k, d.dst)
FirstIn(Q, S) == {p \in S : \E i \in DOMAIN Q : Q[i] = p /\ \A j \in 1..(i - 1) : Q[j] \notin S}
ExactIn(P, H, d) == {p \in Pcbs : H[p] = <<d.src, d.sport, d.dst, d.dport>> /\ H[p] = inpcb_hash(P[p])}
Bounds(P, Q, d, a) == {p \in {x \in ToSet(Q) : ListensK(P[x], d)} : P[p].laddr = a}
WildIn(P, Q, d) == IF Bounds(P, Q, d, d.dst) # {} THEN FirstIn(Q, Bounds(P, Q, d, d.dst)) ELSE FirstIn(Q, Bounds(P, Q, d, AnyAddr))
LookupIn(P, H, Q, d) ==
  IF ExactIn(P, H, d) # {} THEN {CHOOSE p \in ExactIn(P, H, d) : TRUE} ELSE WildIn(P, Q, d)
RankK(k) == (IF k.fport # 0 THEN 2 ELSE 0) + (IF k.laddr # AnyAddr THEN 1 ELSE 0)

LEMMA LookupHere == ASSUME NEW d  PROVE inpcb_lookup(d) = LookupIn(pcb, hash, byPort, d)
  BY DEF inpcb_lookup, LookupIn, inpcb_lookup_exact, ExactIn, SameTuple, inpcb_lookup_wild, WildIn, Bounds, FirstOf, FirstIn, Listens, ListensK

(* Every set of numbers has a least member. *)
LEMMA LeastNumber == ASSUME NEW T \in SUBSET Nat, T # {}  PROVE \E m \in T : \A n \in T : m <= n
  <1> DEFINE R == {ss \in Nat \X Nat : ss[1] < ss[2]}
  <1>1. IsWellFoundedOn(R, Nat)
    BY NatLessThanWellFounded DEF OpToRel
  <1> HIDE DEF R
  <1>2. PICK m \in T : \A n \in T : ~(<<n, m>> \in R)
    BY <1>1, WFMin
  <1>3. ASSUME NEW n \in T  PROVE m <= n
    <2>1. m \in Nat /\ n \in Nat /\ ~(<<n, m>> \in R)
      BY <1>2
    <2> QED
      BY <2>1 DEF R
  <1> QED
    BY <1>2, <1>3

LEMMA FirstExists ==
  ASSUME NEW Q \in Seq(Pcbs), NEW S, S \subseteq ToSet(Q), S # {}
  PROVE  \E p \in S : FirstIn(Q, S) = {p}
  <1> DEFINE I == {i \in DOMAIN Q : Q[i] \in S}
  <1>1. I \subseteq Nat /\ I # {}
    BY DEF ToSet
  <1>2. PICK m \in I : \A n \in I : m <= n
    BY <1>1, LeastNumber
  <1>3. Q[m] \in FirstIn(Q, S)
    BY <1>2 DEF FirstIn
  <1>4. ASSUME NEW x \in FirstIn(Q, S)  PROVE x = Q[m]
    <2>1. PICK i \in DOMAIN Q : Q[i] = x /\ \A j \in 1..(i - 1) : Q[j] \notin S
      BY <1>4 DEF FirstIn
    <2>2. x \in S /\ i \in I
      BY <1>4, <2>1 DEF FirstIn
    <2>3. m <= i /\ ~(m < i)
      BY <1>2, <2>1, <2>2
    <2> QED
      BY <2>1, <2>3, <1>2
  <1> QED
    BY <1>2, <1>3, <1>4

(* An exact match is a block with just these addresses and ports. *)
LEMMA ExactMatch ==
  ASSUME NEW P, NEW H, NEW Q, Tables(P, H, Q), NEW d, NEW p \in Pcbs, d.sport # 0
  PROVE  p \in ExactIn(P, H, d) <=> /\ P[p].lport # 0 /\ P[p].faddr = d.src /\ P[p].fport = d.sport
                                    /\ P[p].laddr = d.dst /\ P[p].lport = d.dport
  <1>1. H[p] = IF P[p].lport = 0 THEN NotFiled ELSE inpcb_hash(P[p])
    BY DEF Tables, Filed
  <1>2. inpcb_hash(P[p]) = <<P[p].faddr, P[p].fport, P[p].laddr, P[p].lport>>
    BY DEF inpcb_hash
  <1>3. NotFiled # <<d.src, d.sport, d.dst, d.dport>>
    BY DEF NotFiled
  <1> QED
    BY <1>1, <1>2, <1>3 DEF ExactIn

LEMMA BoundsFiled ==
  ASSUME NEW P, NEW H, NEW Q, Tables(P, H, Q), NEW d, d.dport # 0, NEW a, NEW p
  PROVE  p \in Bounds(P, Q, d, a) <=> p \in Pcbs /\ ListensK(P[p], d) /\ P[p].laddr = a
  <1>1. Q \in Seq(Pcbs) /\ \A x \in Pcbs : x \in ToSet(Q) <=> P[x].lport # 0
    BY DEF Tables, Filed
  <1>2. ToSet(Q) \subseteq Pcbs
    BY <1>1 DEF ToSet
  <1> QED
    BY <1>1, <1>2 DEF Bounds, ListensK

(* The lookup gives the most specific of the blocks that fit. *)
LEMMA RightPlace ==
  ASSUME NEW P, NEW H, NEW Q, Tables(P, H, Q), NEW d, d.sport # 0, d.dport # 0, d.dst # AnyAddr
  PROVE  \/ LookupIn(P, H, Q, d) = {} /\ \A q \in Pcbs : ~Fits(P[q], d)
         \/ \E p \in Pcbs : /\ LookupIn(P, H, Q, d) = {p} /\ Fits(P[p], d)
                           /\ \A q \in Pcbs : Fits(P[q], d) => RankK(P[q]) <= RankK(P[p])
  <1>1. \A q \in Pcbs : InpcbOK(P[q]) /\ P[q] \in Inpcb
    BY DEF Tables
  <1>2. CASE ExactIn(P, H, d) # {}
    <2> DEFINE p == CHOOSE x \in ExactIn(P, H, d) : TRUE
    <2>1. LookupIn(P, H, Q, d) = {p} /\ p \in ExactIn(P, H, d) /\ p \in Pcbs
      BY <1>2 DEF LookupIn, ExactIn
    <2> HIDE DEF p
    <2>2. /\ P[p].lport # 0 /\ P[p].faddr = d.src /\ P[p].fport = d.sport
          /\ P[p].laddr = d.dst /\ P[p].lport = d.dport
      BY <2>1, ExactMatch
    <2>3. Fits(P[p], d)
      BY <2>1, <2>2, <1>1 DEF Fits, InpcbOK, inpcb_family_ok
    <2>4. \A q \in Pcbs : RankK(P[q]) <= RankK(P[p])
      BY <2>2 DEF RankK
    <2> QED
      BY <2>1, <2>3, <2>4
  <1>3. CASE ExactIn(P, H, d) = {}
    <2>1. ASSUME NEW q \in Pcbs, Fits(P[q], d)  PROVE ListensK(P[q], d) /\ P[q].laddr \in {AnyAddr, d.dst}
      <3>1. P[q].fport = 0
        <4>1. SUFFICES ASSUME P[q].fport # 0  PROVE FALSE
          OBVIOUS
        <4>2. P[q].laddr # AnyAddr /\ P[q].lport # 0
          BY <1>1, <4>1 DEF InpcbOK
        <4>3. q \in ExactIn(P, H, d)
          BY <2>1, <4>1, <4>2, ExactMatch DEF Fits
        <4> QED
          BY <4>3, <1>3
      <3> QED
        BY <2>1, <3>1 DEF Fits, ListensK
    <2>2. ASSUME NEW q \in Pcbs, ListensK(P[q], d), P[q].laddr \in {AnyAddr, d.dst}  PROVE Fits(P[q], d) /\ P[q].fport = 0
      BY <2>2, <1>1 DEF Fits, ListensK, InpcbOK
    <2> DEFINE A == Bounds(P, Q, d, d.dst)
               W == Bounds(P, Q, d, AnyAddr)
    <2>3. A \subseteq ToSet(Q) /\ W \subseteq ToSet(Q) /\ Q \in Seq(Pcbs)
      BY DEF Bounds, Tables, Filed
    <2>4. LookupIn(P, H, Q, d) = IF A # {} THEN FirstIn(Q, A) ELSE FirstIn(Q, W)
      BY <1>3 DEF LookupIn, WildIn
    <2>5. \A q : q \in A <=> q \in Pcbs /\ ListensK(P[q], d) /\ P[q].laddr = d.dst
      BY BoundsFiled
    <2>6. \A q : q \in W <=> q \in Pcbs /\ ListensK(P[q], d) /\ P[q].laddr = AnyAddr
      BY BoundsFiled
    <2> HIDE DEF A, W
    <2>7. CASE A # {}
      <3>1. PICK p \in A : FirstIn(Q, A) = {p}
        BY <2>7, <2>3, FirstExists
      <3>2. p \in Pcbs /\ Fits(P[p], d) /\ P[p].laddr = d.dst /\ P[p].fport = 0
        BY <3>1, <2>5, <2>2
      <3>3. ASSUME NEW q \in Pcbs, Fits(P[q], d)  PROVE RankK(P[q]) <= RankK(P[p])
        BY <3>3, <3>2, <2>1 DEF RankK, ListensK
      <3> QED
        BY <3>1, <3>2, <3>3, <2>4, <2>7
    <2>8. CASE A = {} /\ W # {}
      <3>1. PICK p \in W : FirstIn(Q, W) = {p}
        BY <2>8, <2>3, FirstExists
      <3>2. p \in Pcbs /\ Fits(P[p], d) /\ P[p].laddr = AnyAddr /\ P[p].fport = 0
        BY <3>1, <2>6, <2>2
      <3>3. ASSUME NEW q \in Pcbs, Fits(P[q], d)  PROVE RankK(P[q]) <= RankK(P[p])
        <4>1. ListensK(P[q], d) /\ P[q].laddr = AnyAddr
          BY <3>3, <2>1, <2>5, <2>8
        <4> QED
          BY <4>1, <3>2 DEF RankK, ListensK
      <3> QED
        BY <3>1, <3>2, <3>3, <2>4, <2>8
    <2>9. CASE A = {} /\ W = {}
      <3>1. \A q \in Pcbs : ~Fits(P[q], d)
        BY <2>1, <2>5, <2>6, <2>9
      <3>2. FirstIn(Q, W) = {}
        BY <2>9 DEF FirstIn
      <3> QED
        BY <3>1, <3>2, <2>4, <2>9
    <2> QED
      BY <2>7, <2>8, <2>9
  <1> QED
    BY <1>2, <1>3

(* A datagram to the socket's own address and port, from where it sends to,  *)
(* is for this socket, if no socket has SO_REUSEADDR.                        *)
LEMMA AnswerFound ==
  ASSUME NEW P, NEW H, NEW Q, Tables(P, H, Q), NEW d, d.sport # 0, d.dport # 0, d.dst # AnyAddr,
         NEW p \in Pcbs, \A q \in Pcbs : ~P[q].reuse, Fits(P[p], d)
  PROVE  LookupIn(P, H, Q, d) = {p}
  <1>1. PICK q \in Pcbs : LookupIn(P, H, Q, d) = {q} /\ Fits(P[q], d)
    BY RightPlace
  <1>2. P[p].lport # 0 /\ P[p].lport = P[q].lport /\ Overlap(P[p].laddr, P[q].laddr)
    BY <1>1 DEF Fits, Overlap
  <1>3. p = q
    BY <1>2 DEF Tables, Owned
  <1> QED
    BY <1>1, <1>3

(* Taking a block out of its port's chain. *)
LEMMA UnfiledSeq ==
  ASSUME NEW Q \in Seq(Pcbs), IsInjective(Q), NEW p \in Pcbs, p \in ToSet(Q), NEW n \in DOMAIN Q, Q[n] = p
  PROVE  /\ RemoveAt(Q, n) \in Seq(Pcbs) /\ IsInjective(RemoveAt(Q, n))
         /\ ToSet(RemoveAt(Q, n)) = ToSet(Q) \ {p}
  <1> DEFINE R == RemoveAt(Q, n)
             Old(j) == IF j < n THEN j ELSE j + 1
  <1>0. n \in 1..Len(Q) /\ Len(Q) \in Nat /\ \A j \in 1..Len(Q) : Q[j] \in Pcbs
    OBVIOUS
  <1>1. /\ R \in Seq(Pcbs) /\ Len(R) = Len(Q) - 1
        /\ \A j \in 1..Len(R) : R[j] = Q[Old(j)]
    <2> DEFINE A == SubSeq(Q, 1, n - 1)
               B == SubSeq(Q, n + 1, Len(Q))
    <2>1. A \in Seq(Pcbs) /\ Len(A) = n - 1 /\ \A j \in 1..(n - 1) : A[j] = Q[j]
      BY <1>0
    <2>2. B \in Seq(Pcbs) /\ Len(B) = Len(Q) - n /\ \A j \in 1..(Len(Q) - n) : B[j] = Q[n + j]
      BY <1>0
    <2>3. R = A \o B
      BY DEF RemoveAt
    <2> HIDE DEF A, B, R
    <2> QED
      BY <1>0, <2>1, <2>2, <2>3
  <1> HIDE DEF R
  <1>2. \A j \in 1..Len(R) : Old(j) \in 1..Len(Q) /\ Old(j) # n
    BY <1>0, <1>1
  <1>3. \A i, j \in 1..Len(Q) : Q[i] = Q[j] => i = j
    BY DEF IsInjective
  <1>4. IsInjective(R)
    <2>1. SUFFICES ASSUME NEW i \in 1..Len(R), NEW j \in 1..Len(R), R[i] = R[j]  PROVE i = j
      BY <1>1 DEF IsInjective
    <2>2. Old(i) = Old(j)
      BY <1>1, <1>2, <1>3, <2>1
    <2> QED
      BY <2>2, <1>0, <1>1
  <1>5. ASSUME NEW x \in ToSet(R)  PROVE x \in ToSet(Q) \ {p}
    <2>1. PICK j \in 1..Len(R) : x = R[j]
      BY <1>1 DEF ToSet
    <2>2. x = Q[Old(j)] /\ Old(j) \in 1..Len(Q) /\ Old(j) # n
      BY <2>1, <1>1, <1>2
    <2> HIDE DEF Old
    <2> QED
      BY <2>2, <1>3, <1>0 DEF ToSet
  <1>6. ASSUME NEW x \in ToSet(Q), x # p  PROVE x \in ToSet(R)
    <2>1. PICK i \in 1..Len(Q) : x = Q[i] /\ i # n
      BY <1>6 DEF ToSet
    <2> DEFINE j == IF i < n THEN i ELSE i - 1
    <2>2. j \in 1..Len(R) /\ Old(j) = i
      BY <2>1, <1>0, <1>1
    <2>3. R[j] = x
      BY <2>1, <2>2, <1>1
    <2> HIDE DEF j
    <2> QED
      BY <2>2, <2>3, <1>1 DEF ToSet
  <1> QED
    BY <1>1, <1>4, <1>5, <1>6 DEF R

LEMMA UnfiledKeeps ==
  ASSUME byPort \in Seq(Pcbs), IsInjective(byPort), NEW p \in Pcbs
  PROVE  /\ Unfiled(p) \in Seq(Pcbs) /\ IsInjective(Unfiled(p)) /\ ToSet(Unfiled(p)) = ToSet(byPort) \ {p}
  <1>1. CASE p \notin ToSet(byPort)
    BY <1>1 DEF Unfiled
  <1>2. CASE p \in ToSet(byPort)
    <2> DEFINE n == CHOOSE i \in DOMAIN byPort : byPort[i] = p
    <2>1. n \in DOMAIN byPort /\ byPort[n] = p
      BY <1>2 DEF ToSet
    <2>2. Unfiled(p) = RemoveAt(byPort, n)
      BY <1>2 DEF Unfiled
    <2> HIDE DEF n
    <2> QED
      BY <1>2, <2>1, <2>2, UnfiledSeq
  <1> QED
    BY <1>1, <1>2

LEMMA Appended ==
  ASSUME NEW Q \in Seq(Pcbs), IsInjective(Q), NEW p \in Pcbs, p \notin ToSet(Q)
  PROVE  /\ Append(Q, p) \in Seq(Pcbs) /\ IsInjective(Append(Q, p)) /\ ToSet(Append(Q, p)) = ToSet(Q) \cup {p}
  <1> DEFINE R == Append(Q, p)
  <1>1. R \in Seq(Pcbs) /\ Len(R) = Len(Q) + 1 /\ R[Len(Q) + 1] = p /\ (\A i \in 1..Len(Q) : R[i] = Q[i]) /\ Len(Q) \in Nat
    OBVIOUS
  <1>2. DOMAIN R = 1..(Len(Q) + 1) /\ DOMAIN Q = 1..Len(Q)
    BY <1>1
  <1> HIDE DEF R
  <1>3. IsInjective(R)
    BY <1>1, <1>2 DEF IsInjective, ToSet
  <1>4. ToSet(R) = ToSet(Q) \cup {p}
    BY <1>1, <1>2 DEF ToSet
  <1> QED
    BY <1>1, <1>3, <1>4 DEF R

(* A new block k in p's place, owning its port. *)
Free(P, p, k) ==
  \A q \in Pcbs : q # p /\ k.lport # 0 /\ k.lport = P[q].lport /\ Overlap(k.laddr, P[q].laddr) => k.reuse \/ P[q].reuse
LEMMA OwnedAfter ==
  ASSUME NEW P \in [Pcbs -> Inpcb], Owned(P), NEW p \in Pcbs, NEW k \in Inpcb, Free(P, p, k)
  PROVE  Owned([P EXCEPT ![p] = k])
  <1> DEFINE N == [P EXCEPT ![p] = k]
  <1>1. N[p] = k /\ \A q \in Pcbs : q # p => N[q] = P[q]
    OBVIOUS
  <1> HIDE DEF N
  <1>2. SUFFICES ASSUME NEW a \in Pcbs, NEW b \in Pcbs, a # b, N[a].lport # 0, N[a].lport = N[b].lport,
                        Overlap(N[a].laddr, N[b].laddr)
                 PROVE  N[a].reuse \/ N[b].reuse
    BY DEF Owned, N
  <1>3. CASE a = p
    BY <1>1, <1>2, <1>3 DEF Free
  <1>4. CASE b = p
    <2>1. Overlap(k.laddr, P[a].laddr)
      BY <1>1, <1>2, <1>4 DEF Overlap
    <2> QED
      BY <1>1, <1>2, <1>4, <2>1 DEF Free
  <1>5. CASE a # p /\ b # p
    BY <1>1, <1>2, <1>5 DEF Owned
  <1> QED
    BY <1>3, <1>4, <1>5

LEMMA RehashKeeps ==
  ASSUME Tables(pcb, hash, byPort), NEW p \in Pcbs, NEW k, InpcbOK(k), Free(pcb, p, k), inpcb_rehash(p, k)
  PROVE  Tables(pcb', hash', byPort') /\ pcb' = [pcb EXCEPT ![p] = k]
  <1>1. pcb \in [Pcbs -> Inpcb] /\ k \in Inpcb /\ pcb' = [pcb EXCEPT ![p] = k]
    BY DEF Tables, InpcbOK, inpcb_rehash
  <1>2. pcb'[p] = k /\ \A q \in Pcbs : q # p => pcb'[q] = pcb[q]
    BY <1>1
  <1>3. pcb' \in [Pcbs -> Inpcb] /\ \A q \in Pcbs : InpcbOK(pcb'[q])
    BY <1>1, <1>2 DEF Tables
  <1>4. Owned(pcb')
    BY <1>1, OwnedAfter DEF Tables
  <1>5. \A q \in Pcbs : hash[q] = IF pcb[q].lport = 0 THEN NotFiled ELSE inpcb_hash(pcb[q])
    BY DEF Tables, Filed
  <1> DEFINE H == inpcb_hash_remove(hash, p, pcb[p])
  <1>6. H = [q \in Pcbs |-> H[q]] /\ H[p] = NotFiled /\ \A q \in Pcbs : q # p => H[q] = hash[q]
    <2>1. hash = [q \in Pcbs |-> hash[q]]
      BY DEF Tables, Filed
    <2>2. inpcb_hash(pcb[p]) # NotFiled
      BY DEF inpcb_hash, NotFiled
    <2> QED
      BY <2>1, <2>2, <1>5 DEF inpcb_hash_remove
  <1> HIDE DEF H
  <1>7. hash' = IF k.lport = 0 THEN H ELSE inpcb_hash_insert(H, p, k)
    BY <1>6 DEF inpcb_rehash, H
  <1>8. hash' = [q \in Pcbs |-> IF pcb'[q].lport = 0 THEN NotFiled ELSE inpcb_hash(pcb'[q])]
    <2>2. hash' = [q \in Pcbs |-> hash'[q]] /\ hash'[p] = (IF k.lport = 0 THEN NotFiled ELSE inpcb_hash(k)) /\ \A q \in Pcbs : q # p => hash'[q] = H[q]
      BY <1>6, <1>7 DEF inpcb_hash_insert
    <2>3. \A q \in Pcbs : hash'[q] = IF pcb'[q].lport = 0 THEN NotFiled ELSE inpcb_hash(pcb'[q])
      BY <2>2, <1>2, <1>5, <1>6
    <2> QED
      BY <2>2, <2>3
  <1>9. byPort' \in Seq(Pcbs) /\ IsInjective(byPort') /\ \A q \in Pcbs : q \in ToSet(byPort') <=> pcb'[q].lport # 0
    <2>1. byPort \in Seq(Pcbs) /\ IsInjective(byPort) /\ \A q \in Pcbs : q \in ToSet(byPort) <=> pcb[q].lport # 0
      BY DEF Tables, Filed
    <2>2. Unfiled(p) \in Seq(Pcbs) /\ IsInjective(Unfiled(p)) /\ ToSet(Unfiled(p)) = ToSet(byPort) \ {p}
      BY <2>1, UnfiledKeeps
    <2>3. CASE k.lport = 0
      BY <2>1, <2>2, <2>3, <1>2 DEF inpcb_rehash
    <2>4. CASE k.lport # 0
      <3>1. byPort' = Append(Unfiled(p), p)
        BY <2>4 DEF inpcb_rehash
      <3> DEFINE U == Unfiled(p)
      <3>2. U \in Seq(Pcbs) /\ IsInjective(U) /\ p \notin ToSet(U)
        BY <2>2
      <3> HIDE DEF U
      <3>3. Append(U, p) \in Seq(Pcbs) /\ IsInjective(Append(U, p)) /\ ToSet(Append(U, p)) = ToSet(U) \cup {p}
        BY <3>2, Appended
      <3> QED
        BY <3>1, <3>3, <2>1, <2>2, <2>4, <1>2 DEF U
    <2> QED
      BY <2>3, <2>4
  <1> QED
    BY <1>1, <1>3, <1>4, <1>8, <1>9 DEF Tables, Filed

LEMMA FreeKeeps ==
  ASSUME Tables(pcb, hash, byPort), NEW p \in Pcbs, inpcb_free(p)
  PROVE  Tables(pcb', hash', byPort')
  <1>1. InpcbOK(Unused) /\ Unused.lport = 0
    BY UdpAssumption DEF InpcbOK, Inpcb, Unused
  <1>2. inpcb_rehash(p, Unused)
    BY <1>1 DEF inpcb_free, inpcb_rehash
  <1>3. Free(pcb, p, Unused)
    BY <1>1 DEF Free
  <1> QED
    BY <1>1, <1>2, <1>3, RehashKeeps

(* Blocks that keep what they are filed under. *)
SameKey(k, old) ==
  k.lport = old.lport /\ (k.lport # 0 => /\ k.laddr = old.laddr /\ k.faddr = old.faddr /\ k.fport = old.fport
                                         /\ k.reuse = old.reuse)
LEMMA SameTables ==
  ASSUME NEW P, NEW H, NEW Q, Tables(P, H, Q), NEW N \in [Pcbs -> Inpcb],
         \A q \in Pcbs : InpcbOK(N[q]) /\ SameKey(N[q], P[q])
  PROVE  Tables(N, H, Q)
  <1>1. \A q \in Pcbs : (IF P[q].lport = 0 THEN NotFiled ELSE inpcb_hash(P[q])) = (IF N[q].lport = 0 THEN NotFiled ELSE inpcb_hash(N[q]))
    BY DEF SameKey, inpcb_hash
  <1>2. Filed(N, H, Q)
    BY <1>1 DEF Tables, Filed, SameKey
  <1>3. Owned(N)
    BY DEF Tables, Owned, SameKey
  <1> QED
    BY <1>2, <1>3 DEF Tables

LEMMA SameTablesAt ==
  ASSUME Tables(pcb, hash, byPort), NEW p \in Pcbs, NEW k, InpcbOK(k), SameKey(k, pcb[p]),
         pcb' = [pcb EXCEPT ![p] = k], UNCHANGED <<hash, byPort>>
  PROVE  Tables(pcb', hash', byPort')
  <1>1. pcb \in [Pcbs -> Inpcb] /\ k \in Inpcb /\ \A q \in Pcbs : InpcbOK(pcb[q])
    BY DEF Tables, InpcbOK
  <1>2. pcb' \in [Pcbs -> Inpcb] /\ pcb'[p] = k /\ \A q \in Pcbs : q # p => pcb'[q] = pcb[q]
    BY <1>1
  <1>3. \A q \in Pcbs : InpcbOK(pcb'[q]) /\ SameKey(pcb'[q], pcb[q])
    BY <1>1, <1>2 DEF SameKey
  <1> QED
    BY <1>2, <1>3, SameTables

(* A port that is not in use is free; a block keeps its port. *)
LEMMA UnusedFree ==
  ASSUME Tables(pcb, hash, byPort), NEW p \in Pcbs, NEW laddr, NEW n, ~inpcb_port_in_use(p, laddr, n),
         NEW k, k.laddr = laddr, k.lport = n, k.reuse = pcb[p].reuse
  PROVE  Free(pcb, p, k)
  <1>1. SUFFICES ASSUME NEW q \in Pcbs, q # p, n # 0, n = pcb[q].lport, Overlap(laddr, pcb[q].laddr), ~k.reuse
                 PROVE  pcb[q].reuse
    BY DEF Free
  <1>2. q \in ToSet(byPort) \ {p}
    BY <1>1 DEF Tables, Filed
  <1>3. inpcb_bindings_overlap(pcb[q], laddr)
    BY <1>1 DEF Overlap, inpcb_bindings_overlap
  <1> QED
    BY <1>1, <1>2, <1>3 DEF inpcb_port_in_use

LEMMA SameFree ==
  ASSUME Tables(pcb, hash, byPort), NEW p \in Pcbs, NEW k, k.lport = pcb[p].lport, k.reuse = pcb[p].reuse,
         k.laddr = pcb[p].laddr \/ pcb[p].laddr = AnyAddr
  PROVE  Free(pcb, p, k)
  BY DEF Free, Tables, Owned, Overlap

(* The address a socket sends from. *)
LEMMA SourceOK ==
  ASSUME Tables(pcb, hash, byPort), NEW p \in Pcbs, NEW to \in inpcb_sockaddr_to_in6(p) \cup Groups, NEW l \in Source(p, to)
  PROVE  /\ l \in Local /\ l # AnyAddr /\ (l \in V6 => pcb[p].v6)
         /\ pcb[p].laddr # AnyAddr => l = pcb[p].laddr
  <1>1. InpcbOK(pcb[p]) /\ pcb[p].laddr \in Local \cup {AnyAddr}
    BY DEF Tables, InpcbOK, Inpcb
  <1>2. CASE pcb[p].laddr # AnyAddr
    BY <1>1, <1>2, UdpAssumption DEF Source, InpcbOK
  <1>3. CASE pcb[p].laddr = AnyAddr
    <2>1. l \in inpcb_select_source(to)
      BY <1>3 DEF Source
    <2>2. l \in Local
      BY <2>1 DEF inpcb_select_source
    <2>3. ASSUME l \in V6, ~pcb[p].v6  PROVE FALSE
      <3>1. to \in V4 \cup Groups
        BY <2>3 DEF inpcb_sockaddr_to_in6
      <3> QED
        BY <3>1, <2>1, <2>2, <2>3, UdpAssumption DEF inpcb_select_source
    <2> QED
      BY <1>3, <2>2, <2>3, UdpAssumption
  <1> QED
    BY <1>2, <1>3

LEMMA Quiet == ASSUME Forget  PROVE RightSocket' /\ AnswerComesBack'
  BY UdpAssumption DEF Forget, RightSocket, AnswerComesBack, NoDatagram

LEMMA StepOK == ASSUME udpCase \in UdpCaseType, NEW op, UdpStep(op)  PROVE udpCase' \in UdpCaseType
  BY DEF UdpCaseType, UdpStep

-----------------------------------------------------------------------------
(* The steps. *)

LEMMA AttachKeeps ==
  ASSUME UdpInv, NEW p \in Pcbs, NEW v6 \in BOOLEAN, NEW reuse \in BOOLEAN, udp_attach(p, v6, reuse)  PROVE UdpInv'
  <1> DEFINE k == [Unused EXCEPT !.used = TRUE, !.v6 = v6, !.reuse = reuse]
  <1>1. InpcbOK(k) /\ k.lport = 0
    <2>1. <<>> \in Seq([src : Addr, sport : Ports]) /\ Len(<<>>) = 0
      OBVIOUS
    <2>2. Unused \in Inpcb /\ Unused.rcv = <<>> /\ Unused.laddr = AnyAddr /\ Unused.lport = 0 /\ Unused.faddr = AnyAddr /\ Unused.fport = 0
      BY <2>1 DEF Inpcb, Unused
    <2>3. k \in Inpcb /\ k.rcv = <<>> /\ k.used /\ k.laddr = AnyAddr /\ k.lport = 0 /\ k.faddr = AnyAddr /\ k.fport = 0
      BY <2>1, <2>2 DEF Inpcb
    <2> QED
      BY <2>1, <2>3, UdpAssumption DEF InpcbOK
  <1>2. InpcbOK(pcb[p]) /\ ~pcb[p].used /\ UdpStep("attach") /\ Forget /\ pcb' = [pcb EXCEPT ![p] = k] /\ UNCHANGED <<hash, byPort>>
    BY DEF UdpInv, Tables, udp_attach
  <1> HIDE DEF k
  <1>3. SameKey(k, pcb[p])
    BY <1>1, <1>2 DEF SameKey, InpcbOK
  <1>4. Tables(pcb', hash', byPort')
    BY <1>1, <1>2, <1>3, SameTablesAt DEF UdpInv
  <1> QED
    BY <1>2, <1>4, Quiet, StepOK DEF UdpInv

LEMMA ShutKeeps ==
  ASSUME NEW old \in Inpcb, NEW how  PROVE LET k == Shut(old, how) IN
    /\ k \in Inpcb /\ SameKey(k, old) /\ k.rcv \in {old.rcv, <<>>} /\ k.used = old.used /\ k.v6 = old.v6
    /\ k.laddr = old.laddr /\ k.faddr = old.faddr /\ k.fport = old.fport
  <1> DEFINE cs == old.cantsend \/ how # "rd"
             cr == old.cantrcv \/ how # "wr"
             rc == IF how = "wr" THEN old.rcv ELSE <<>>
             k == [old EXCEPT !.cantsend = cs, !.cantrcv = cr, !.rcv = rc]
  <1>1. k = Shut(old, how)
    BY DEF Shut
  <1>2. cs \in BOOLEAN /\ cr \in BOOLEAN /\ rc \in {old.rcv, <<>>} /\ rc \in Seq([src : Addr, sport : Ports])
    BY DEF Inpcb
  <1> HIDE DEF cs, cr, rc
  <1>3. /\ k \in Inpcb /\ SameKey(k, old) /\ k.rcv \in {old.rcv, <<>>} /\ k.used = old.used /\ k.v6 = old.v6
        /\ k.laddr = old.laddr /\ k.faddr = old.faddr /\ k.fport = old.fport
    BY <1>2 DEF Inpcb, SameKey
  <1> QED
    BY <1>1, <1>3

LEMMA ShutdownKeeps ==
  ASSUME UdpInv, NEW p \in Pcbs, NEW how, udp_shutdown(p, how)  PROVE UdpInv'
  <1>1. InpcbOK(pcb[p]) /\ pcb[p] \in Inpcb /\ pcb \in [Pcbs -> Inpcb]
    BY DEF UdpInv, Tables
  <1> DEFINE k == Shut(pcb[p], how)
  <1>2. /\ k \in Inpcb /\ SameKey(k, pcb[p]) /\ k.rcv \in {pcb[p].rcv, <<>>} /\ k.used = pcb[p].used /\ k.v6 = pcb[p].v6
        /\ k.laddr = pcb[p].laddr /\ k.faddr = pcb[p].faddr /\ k.fport = pcb[p].fport
    BY <1>1, ShutKeeps
  <1>3. UdpStep("shutdown") /\ Forget /\ UNCHANGED <<hash, byPort>> /\ pcb' = [pcb EXCEPT ![p] = k]
    BY DEF udp_shutdown
  <1> HIDE DEF k
  <1>4. InpcbOK(k)
    BY <1>1, <1>2, UdpAssumption DEF InpcbOK, SameKey
  <1>5. Tables(pcb', hash', byPort')
    BY <1>2, <1>3, <1>4, SameTablesAt DEF UdpInv
  <1> QED
    BY <1>3, <1>5, Quiet, StepOK DEF UdpInv

LEMMA RecvKeeps ==
  ASSUME UdpInv, NEW p \in Pcbs, sock_recv(p)  PROVE UdpInv'
  <1> DEFINE k == [pcb[p] EXCEPT !.rcv = Tail(@)]
  <1>1. InpcbOK(pcb[p]) /\ pcb[p] \in Inpcb /\ pcb \in [Pcbs -> Inpcb]
    BY DEF UdpInv, Tables
  <1>2. pcb[p].rcv \in Seq([src : Addr, sport : Ports]) /\ pcb[p].rcv # <<>>
    BY <1>1 DEF Inpcb, sock_recv
  <1>3. Tail(pcb[p].rcv) \in Seq([src : Addr, sport : Ports]) /\ Len(Tail(pcb[p].rcv)) = Len(pcb[p].rcv) - 1 /\ Len(pcb[p].rcv) \in Nat
    BY <1>2
  <1>4. k \in Inpcb /\ SameKey(k, pcb[p]) /\ k.rcv = Tail(pcb[p].rcv) /\ k.used = pcb[p].used /\ k.v6 = pcb[p].v6
        /\ k.laddr = pcb[p].laddr /\ k.faddr = pcb[p].faddr /\ k.fport = pcb[p].fport
    BY <1>1, <1>3 DEF Inpcb, SameKey
  <1>5. Forget /\ pcb' = [pcb EXCEPT ![p] = k] /\ UNCHANGED <<hash, byPort, udpCase>>
    BY <1>1 DEF sock_recv
  <1> HIDE DEF k
  <1>6. InpcbOK(k)
    BY <1>1, <1>3, <1>4, UdpAssumption DEF InpcbOK, SameKey
  <1>7. Tables(pcb', hash', byPort')
    BY <1>4, <1>5, <1>6, SameTablesAt DEF UdpInv
  <1> QED
    BY <1>5, <1>7, Quiet DEF UdpInv

LEMMA DetachKeeps ==
  ASSUME UdpInv, NEW p \in Pcbs, udp_detach(p)  PROVE UdpInv'
  <1>1. UdpStep("detach") /\ inpcb_free(p) /\ Forget
    BY DEF udp_detach
  <1>2. Tables(pcb', hash', byPort')
    BY <1>1, FreeKeeps DEF UdpInv
  <1> QED
    BY <1>1, <1>2, Quiet, StepOK DEF UdpInv

(* A block gets an address and a port that is not in use. *)
LEMMA BoundKeeps ==
  ASSUME Tables(pcb, hash, byPort), NEW p \in Pcbs, NEW laddr \in Local \cup {AnyAddr}, NEW n \in Ports \cup Ephemeral,
         pcb[p].used, pcb[p].lport = 0, laddr \in V6 => pcb[p].v6, ~inpcb_port_in_use(p, laddr, n), Bound(p, laddr, n)
  PROVE  Tables(pcb', hash', byPort') /\ pcb'[p] = [pcb[p] EXCEPT !.laddr = laddr, !.lport = n]
  <1> DEFINE k == [pcb[p] EXCEPT !.laddr = laddr, !.lport = n]
  <1>1. InpcbOK(pcb[p]) /\ pcb[p] \in Inpcb /\ pcb \in [Pcbs -> Inpcb]
    BY DEF Tables
  <1>2. k \in Inpcb /\ k.laddr = laddr /\ k.lport = n /\ k.reuse = pcb[p].reuse /\ k.rcv = pcb[p].rcv /\ k.used = pcb[p].used
        /\ k.v6 = pcb[p].v6 /\ k.faddr = pcb[p].faddr /\ k.fport = pcb[p].fport
    BY <1>1 DEF Inpcb
  <1>3. inpcb_rehash(p, k)
    BY DEF Bound
  <1> HIDE DEF k
  <1>4. InpcbOK(k)
    BY <1>1, <1>2 DEF InpcbOK
  <1>5. Free(pcb, p, k)
    BY <1>2, UnusedFree
  <1>6. Tables(pcb', hash', byPort') /\ pcb' = [pcb EXCEPT ![p] = k]
    BY <1>3, <1>4, <1>5, RehashKeeps
  <1> QED
    BY <1>1, <1>6 DEF k

LEMMA BindKeeps ==
  ASSUME UdpInv, NEW p \in Pcbs, NEW laddr \in Local \cup {AnyAddr}, NEW lport \in Ports \cup {0}, udp_bind(p, laddr, lport)
  PROVE  UdpInv'
  <1>1. Tables(pcb, hash, byPort) /\ InpcbOK(pcb[p]) /\ pcb[p] \in Inpcb /\ pcb \in [Pcbs -> Inpcb]
    BY DEF UdpInv, Tables
  <1>2. UdpStep("bind") /\ pcb[p].used /\ inpcb_bind(p, laddr, lport) /\ Forget /\ pcb[p].lport = 0
    BY DEF udp_bind, inpcb_bind
  <1>3. laddr \in V6 => pcb[p].v6
    BY UdpAssumption, <1>1 DEF udp_bind, inpcb_sockaddr_to_in6, Inpcb
  <1>4. Tables(pcb', hash', byPort')
    <2>1. CASE lport # 0 /\ ~inpcb_port_in_use(p, laddr, lport) /\ Bound(p, laddr, lport)
      BY <1>1, <1>2, <1>3, <2>1, BoundKeeps
    <2>2. ASSUME NEW n \in FreePorts(p, laddr), Bound(p, laddr, n)  PROVE Tables(pcb', hash', byPort')
      <3>1. n \in Ephemeral /\ ~inpcb_port_in_use(p, laddr, n)
        BY <2>2 DEF FreePorts
      <3> QED
        BY <1>1, <1>2, <1>3, <2>2, <3>1, BoundKeeps
    <2>3. CASE pcb' = [pcb EXCEPT ![p].laddr = AnyAddr] /\ UNCHANGED <<hash, byPort>>
      <3> DEFINE k == [pcb[p] EXCEPT !.laddr = AnyAddr]
      <3>1. k \in Inpcb /\ k.laddr = AnyAddr /\ k.lport = 0 /\ k.rcv = pcb[p].rcv /\ k.used = pcb[p].used
            /\ k.faddr = pcb[p].faddr /\ k.fport = pcb[p].fport
        BY <1>1, <1>2 DEF Inpcb
      <3>2. pcb' = [pcb EXCEPT ![p] = k]
        BY <1>1, <2>3
      <3> HIDE DEF k
      <3>3. InpcbOK(k) /\ SameKey(k, pcb[p])
        BY <1>1, <1>2, <3>1, UdpAssumption DEF InpcbOK, SameKey
      <3> QED
        BY <1>1, <2>3, <3>2, <3>3, SameTablesAt
    <2> QED
      BY <1>2, <2>1, <2>2, <2>3 DEF inpcb_bind
  <1> QED
    BY <1>2, <1>4, Quiet, StepOK DEF UdpInv

LEMMA DisconnectKeeps ==
  ASSUME Tables(pcb, hash, byPort), NEW p \in Pcbs, inpcb_disconnect(p)  PROVE Tables(pcb', hash', byPort')
  <1> DEFINE k == Disconnected(pcb[p])
  <1>1. InpcbOK(pcb[p]) /\ pcb[p] \in Inpcb
    BY DEF Tables
  <1>2. k \in Inpcb /\ k.laddr = pcb[p].laddr /\ k.lport = pcb[p].lport /\ k.reuse = pcb[p].reuse /\ k.rcv = pcb[p].rcv
        /\ k.used = pcb[p].used /\ k.v6 = pcb[p].v6 /\ k.faddr = AnyAddr /\ k.fport = 0
    BY <1>1 DEF Inpcb, Disconnected
  <1>3. inpcb_rehash(p, k)
    BY DEF inpcb_disconnect
  <1> HIDE DEF k
  <1>4. InpcbOK(k)
    BY <1>1, <1>2 DEF InpcbOK
  <1>5. Free(pcb, p, k)
    BY <1>2, SameFree
  <1> QED
    BY <1>3, <1>4, <1>5, RehashKeeps

LEMMA ConnectedKeeps ==
  ASSUME Tables(pcb, hash, byPort), NEW p \in Pcbs, NEW faddr \in Addr, NEW fport \in Ports, NEW l \in Local, NEW n \in Ports \cup Ephemeral,
         pcb[p].used, l \in V6 => pcb[p].v6, pcb[p].laddr # AnyAddr => l = pcb[p].laddr,
         pcb[p].lport = n \/ ~inpcb_port_in_use(p, l, n), Connected(p, faddr, fport, l, n)
  PROVE  Tables(pcb', hash', byPort')
  <1> DEFINE k == [pcb[p] EXCEPT !.laddr = l, !.lport = n, !.faddr = faddr, !.fport = fport]
  <1>1. InpcbOK(pcb[p]) /\ pcb[p] \in Inpcb
    BY DEF Tables
  <1>2. k \in Inpcb /\ k.laddr = l /\ k.lport = n /\ k.reuse = pcb[p].reuse /\ k.rcv = pcb[p].rcv
        /\ k.used = pcb[p].used /\ k.v6 = pcb[p].v6 /\ k.faddr = faddr /\ k.fport = fport
    BY <1>1 DEF Inpcb
  <1>3. inpcb_rehash(p, k)
    BY DEF Connected
  <1> HIDE DEF k
  <1>4. InpcbOK(k)
    BY <1>1, <1>2, UdpAssumption DEF InpcbOK, Addr
  <1>5. Free(pcb, p, k)
    <2>1. CASE pcb[p].lport = n
      BY <1>2, <2>1, SameFree
    <2>2. CASE ~inpcb_port_in_use(p, l, n)
      BY <1>2, <2>2, UnusedFree
    <2> QED
      BY <2>1, <2>2
  <1> QED
    BY <1>3, <1>4, <1>5, RehashKeeps

LEMMA ConnectKeeps ==
  ASSUME UdpInv, NEW p \in Pcbs, NEW faddr \in Addr, NEW fport \in Ports, udp_connect(p, faddr, fport)  PROVE UdpInv'
  <1>1. Tables(pcb, hash, byPort) /\ InpcbOK(pcb[p]) /\ pcb[p] \in Inpcb /\ pcb \in [Pcbs -> Inpcb]
    BY DEF UdpInv, Tables
  <1>2. UdpStep("connect") /\ pcb[p].used /\ faddr \in inpcb_sockaddr_to_in6(p) /\ inpcb_connect(p, faddr, fport) /\ Forget
    BY DEF udp_connect
  <1>3. Tables(pcb', hash', byPort')
    <2>1. CASE inpcb_disconnect(p)
      BY <1>1, <2>1, DisconnectKeeps
    <2>2. ASSUME NEW l \in Source(p, faddr), pcb[p].lport # 0, Connected(p, faddr, fport, l, pcb[p].lport)
          PROVE  Tables(pcb', hash', byPort')
      <3>1. l \in Local /\ (l \in V6 => pcb[p].v6) /\ (pcb[p].laddr # AnyAddr => l = pcb[p].laddr)
        BY <1>1, <1>2, <2>2, SourceOK
      <3>2. pcb[p].lport \in Ports \cup Ephemeral
        BY <1>1, <2>2 DEF Inpcb
      <3> QED
        BY <1>1, <1>2, <2>2, <3>1, <3>2, ConnectedKeeps
    <2>3. ASSUME NEW l \in Source(p, faddr), NEW n \in FreePorts(p, l), Connected(p, faddr, fport, l, n)
          PROVE  Tables(pcb', hash', byPort')
      <3>1. l \in Local /\ (l \in V6 => pcb[p].v6) /\ (pcb[p].laddr # AnyAddr => l = pcb[p].laddr)
        BY <1>1, <1>2, <2>3, SourceOK
      <3>2. n \in Ports \cup Ephemeral /\ ~inpcb_port_in_use(p, l, n)
        BY <2>3 DEF FreePorts
      <3> QED
        BY <1>1, <1>2, <2>3, <3>1, <3>2, ConnectedKeeps
    <2>4. ASSUME NEW l \in Source(p, faddr), pcb[p].lport = 0, pcb' = [pcb EXCEPT ![p].laddr = l], UNCHANGED <<hash, byPort>>
          PROVE  Tables(pcb', hash', byPort')
      <3> DEFINE k == [pcb[p] EXCEPT !.laddr = l]
      <3>1. l \in Local /\ (l \in V6 => pcb[p].v6)
        BY <1>1, <1>2, <2>4, SourceOK
      <3>2. k \in Inpcb /\ k.laddr = l /\ k.lport = 0 /\ k.rcv = pcb[p].rcv /\ k.used = pcb[p].used
            /\ k.faddr = pcb[p].faddr /\ k.fport = pcb[p].fport /\ k.v6 = pcb[p].v6
        BY <1>1, <2>4, <3>1 DEF Inpcb
      <3>3. pcb' = [pcb EXCEPT ![p] = k]
        BY <1>1, <2>4
      <3> HIDE DEF k
      <3>4. InpcbOK(k) /\ SameKey(k, pcb[p])
        BY <1>1, <2>4, <3>1, <3>2 DEF InpcbOK, SameKey
      <3> QED
        BY <1>1, <2>4, <3>3, <3>4, SameTablesAt
    <2> QED
      BY <1>2, <2>1, <2>2, <2>3, <2>4 DEF inpcb_connect
  <1> QED
    BY <1>2, <1>3, Quiet, StepOK DEF UdpInv

(* What a datagram adds to a receive buffer changes no lookup. *)
LEMMA DeliverKeeps ==
  ASSUME Tables(pcb, hash, byPort), NEW p \in Pcbs, NEW d, d.src \in Addr, d.sport \in Ports
  PROVE  InpcbOK(udp_deliver(p, d)) /\ \E r : udp_deliver(p, d) = [pcb[p] EXCEPT !.rcv = r]
  <1>1. InpcbOK(pcb[p]) /\ pcb[p] \in Inpcb /\ pcb[p].rcv \in Seq([src : Addr, sport : Ports])
    BY DEF Tables, Inpcb
  <1>2. pcb[p] = [pcb[p] EXCEPT !.rcv = pcb[p].rcv]
    BY <1>1 DEF Inpcb
  <1>3. CASE pcb[p].cantrcv \/ Len(pcb[p].rcv) >= RcvMax
    BY <1>1, <1>2, <1>3 DEF udp_deliver
  <1>4. CASE ~(pcb[p].cantrcv \/ Len(pcb[p].rcv) >= RcvMax)
    <2> DEFINE r == Append(pcb[p].rcv, [src |-> d.src, sport |-> d.sport])
               k == [pcb[p] EXCEPT !.rcv = r]
    <2>1. r \in Seq([src : Addr, sport : Ports]) /\ Len(r) = Len(pcb[p].rcv) + 1 /\ Len(pcb[p].rcv) \in Nat
      BY <1>1
    <2>2. udp_deliver(p, d) = k
      BY <1>4 DEF udp_deliver
    <2> HIDE DEF r
    <2>3. k \in Inpcb /\ k.laddr = pcb[p].laddr /\ k.lport = pcb[p].lport /\ k.reuse = pcb[p].reuse /\ k.rcv = r
          /\ k.used = pcb[p].used /\ k.v6 = pcb[p].v6 /\ k.faddr = pcb[p].faddr /\ k.fport = pcb[p].fport
      BY <1>1, <2>1 DEF Inpcb
    <2>4. InpcbOK(k)
      BY <1>1, <1>4, <2>1, <2>3, UdpAssumption DEF InpcbOK
    <2> QED
      BY <2>2, <2>4
  <1> QED
    BY <1>3, <1>4

LEMMA InputKeeps ==
  ASSUME UdpInv, NEW d, d.src \in Addr, d.sport \in Ports, d.dst \in Local \cup Groups, d.dport \in Ports \cup Ephemeral,
         udp_input_packet(d)
  PROVE  UdpInv'
  <1> DEFINE to == IF d.dst \in Groups THEN {p \in Pcbs : udp_pcb_matches(p, d)} ELSE inpcb_lookup(d)
  <1>1. /\ UdpStep("input") /\ pcb' = [p \in Pcbs |-> IF p \in to THEN udp_deliver(p, d) ELSE pcb[p]]
        /\ delivered' = [d |-> d, to |-> to] /\ sent' = [d |-> NoDatagram, by |-> NoPcb] /\ UNCHANGED <<hash, byPort>>
    BY DEF udp_input_packet
  <1>2. Tables(pcb, hash, byPort) /\ \A p \in Pcbs : InpcbOK(pcb[p]) /\ pcb[p] \in Inpcb
    BY DEF UdpInv, Tables
  <1> HIDE DEF to
  <1>3. ASSUME NEW p \in Pcbs
        PROVE  /\ InpcbOK(pcb'[p]) /\ pcb'[p].laddr = pcb[p].laddr /\ pcb'[p].lport = pcb[p].lport /\ pcb'[p].reuse = pcb[p].reuse
               /\ pcb'[p].used = pcb[p].used /\ pcb'[p].v6 = pcb[p].v6 /\ pcb'[p].faddr = pcb[p].faddr /\ pcb'[p].fport = pcb[p].fport
    <2>1. InpcbOK(udp_deliver(p, d)) /\ \E r : udp_deliver(p, d) = [pcb[p] EXCEPT !.rcv = r]
      BY <1>2, DeliverKeeps
    <2>2. PICK r : udp_deliver(p, d) = [pcb[p] EXCEPT !.rcv = r]
      BY <2>1
    <2>3. pcb'[p] = IF p \in to THEN udp_deliver(p, d) ELSE pcb[p]
      BY <1>1
    <2>4. CASE p \in to
      <3>1. pcb'[p] = [pcb[p] EXCEPT !.rcv = r]
        BY <2>2, <2>3, <2>4
      <3>2. InpcbOK(pcb'[p])
        BY <2>1, <2>3, <2>4
      <3> QED
        BY <1>2, <3>1, <3>2 DEF Inpcb
    <2>5. CASE p \notin to
      BY <1>2, <2>3, <2>5
    <2> QED
      BY <2>4, <2>5
  <1>4. Tables(pcb', hash', byPort')
    <2>1. pcb' \in [Pcbs -> Inpcb]
      BY <1>1, <1>3 DEF InpcbOK
    <2>2. \A q \in Pcbs : InpcbOK(pcb'[q]) /\ SameKey(pcb'[q], pcb[q])
      BY <1>3 DEF SameKey
    <2> QED
      BY <1>1, <1>2, <2>1, <2>2, SameTables
  <1>5. RightSocket'
    <2>1. SUFFICES ASSUME d.dst \in Local
                   PROVE  LET fit == {p \in Pcbs : Fits(pcb'[p], d)}
                          IN /\ Cardinality(to) <= 1 /\ to \subseteq fit
                             /\ fit # {} => \E p \in to : \A q \in fit : RankK(pcb'[q]) <= RankK(pcb'[p])
      <3>1. delivered'.d = d /\ delivered'.to = to
        BY <1>1
      <3> QED
        BY <3>1 DEF RightSocket, udp_pcb_matches, Fits, Rank, RankK
    <2>2. d.dst \notin Groups /\ d.dst # AnyAddr /\ d.sport # 0 /\ d.dport # 0
      BY <2>1, UdpAssumption
    <2>3. to = LookupIn(pcb, hash, byPort, d)
      BY <2>2, LookupHere DEF to
    <2>4. \A p \in Pcbs : (Fits(pcb'[p], d) <=> Fits(pcb[p], d)) /\ RankK(pcb'[p]) = RankK(pcb[p])
      BY <1>3 DEF Fits, RankK, inpcb_family_ok
    <2>5. \/ to = {} /\ \A q \in Pcbs : ~Fits(pcb[q], d)
          \/ \E p \in Pcbs : /\ to = {p} /\ Fits(pcb[p], d)
                            /\ \A q \in Pcbs : Fits(pcb[q], d) => RankK(pcb[q]) <= RankK(pcb[p])
      BY <1>2, <2>2, <2>3, RightPlace
    <2>6. Cardinality(to) <= 1
      <3>1. CASE to = {}
        BY <3>1, FS_EmptySet
      <3>2. ASSUME NEW p, to = {p}  PROVE Cardinality(to) <= 1
        <4>1. Cardinality({p}) = 1
          BY FS_Singleton
        <4> QED
          BY <3>2, <4>1
      <3> QED
        BY <2>5, <3>1, <3>2
    <2> QED
      BY <2>4, <2>5, <2>6
  <1>6. AnswerComesBack'
    BY <1>1 DEF AnswerComesBack
  <1> QED
    BY <1>1, <1>4, <1>5, <1>6, StepOK DEF UdpInv

LEMMA SentAnswered ==
  ASSUME Tables(pcb', hash', byPort'), NEW p \in Pcbs, NEW d, sent' = [by |-> p, d |-> d],
         d.dport # 0, d.sport # 0, d.src # AnyAddr,
         Fits(pcb'[p], [src |-> d.dst, sport |-> d.dport, dst |-> d.src, dport |-> d.sport])
  PROVE  AnswerComesBack'
  <1> DEFINE a == [src |-> d.dst, sport |-> d.dport, dst |-> d.src, dport |-> d.sport]
  <1>1. sent'.by = p /\ sent'.d = d
    OBVIOUS
  <1>2. SUFFICES ASSUME \A q \in Pcbs \ {p} : ~pcb'[q].reuse, ~pcb'[p].reuse
                 PROVE  inpcb_lookup([src |-> sent.d.dst, sport |-> sent.d.dport, dst |-> sent.d.src, dport |-> sent.d.sport])' = {p}
    BY <1>1 DEF AnswerComesBack
  <1>3. inpcb_lookup([src |-> sent.d.dst, sport |-> sent.d.dport, dst |-> sent.d.src, dport |-> sent.d.sport])' = LookupIn(pcb', hash', byPort', a)
    BY <1>1 DEF inpcb_lookup, LookupIn, inpcb_lookup_exact, ExactIn, SameTuple, inpcb_lookup_wild, WildIn, Bounds, FirstOf, FirstIn, Listens, ListensK
  <1>4. a.sport # 0 /\ a.dport # 0 /\ a.dst # AnyAddr /\ Fits(pcb'[p], a)
    OBVIOUS
  <1> HIDE DEF a
  <1> QED
    BY <1>2, <1>3, <1>4, AnswerFound

LEMMA SendKeeps ==
  ASSUME UdpInv, NEW p \in Pcbs, NEW dst, udp_output_locked(p, dst),
         dst = NoDatagram \/ (dst # NoDatagram /\ dst.dport \in Ports)
  PROVE  UdpInv'
  <1> DEFINE to == IF dst = NoDatagram THEN pcb[p].faddr ELSE dst.dst
             port == IF dst = NoDatagram THEN pcb[p].fport ELSE dst.dport
  <1>1. Tables(pcb, hash, byPort) /\ InpcbOK(pcb[p]) /\ pcb[p] \in Inpcb /\ pcb \in [Pcbs -> Inpcb]
    BY DEF UdpInv, Tables
  <1>2. UdpStep("send") /\ pcb[p].used /\ udp_resolve_dst(p, dst) /\ delivered' = [d |-> NoDatagram, to |-> {}]
    BY DEF udp_output_locked
  <1>3. RightSocket'
    BY <1>2, UdpAssumption DEF RightSocket, NoDatagram
  <1>4. \/ pcb[p].fport # 0 /\ to = pcb[p].faddr /\ port = pcb[p].fport
        \/ pcb[p].fport = 0 /\ to \in inpcb_sockaddr_to_in6(p) \cup Groups /\ port \in Ports
    BY <1>2 DEF udp_resolve_dst
  <1>5. port # 0
    BY <1>4, UdpAssumption
  <1>6. \A l, n : Goes(p, dst, l, n) = [by |-> p, d |-> [src |-> l, sport |-> n, dst |-> to, dport |-> port]]
    BY DEF Goes
  <1>7. ASSUME pcb[p].lport # 0, NEW l \in Source(p, to), sent' = Goes(p, dst, l, pcb[p].lport), UNCHANGED <<pcb, hash, byPort>>
        PROVE  UdpInv'
    <2> DEFINE d == [src |-> l, sport |-> pcb[p].lport, dst |-> to, dport |-> port]
    <2>1. /\ l \in Local /\ (l \in V6 => pcb[p].v6) /\ (pcb[p].laddr # AnyAddr => l = pcb[p].laddr)
      <3>1. CASE pcb[p].fport # 0
        <4>1. pcb[p].laddr # AnyAddr
          BY <1>1, <3>1 DEF InpcbOK
        <4>2. l = pcb[p].laddr
          BY <1>7, <4>1 DEF Source
        <4> QED
          BY <4>1, <4>2, <1>1 DEF InpcbOK, Inpcb
      <3>2. CASE pcb[p].fport = 0
        BY <1>1, <1>4, <1>7, <3>2, SourceOK
      <3> QED
        BY <3>1, <3>2
    <2>2. Fits(pcb[p], [src |-> d.dst, sport |-> d.dport, dst |-> d.src, dport |-> d.sport])
      BY <1>2, <1>4, <2>1 DEF Fits, inpcb_family_ok
    <2>3. Tables(pcb', hash', byPort') /\ pcb'[p] = pcb[p]
      BY <1>1, <1>7
    <2>4. sent' = [by |-> p, d |-> d] /\ d.dport # 0 /\ d.sport # 0 /\ d.src # AnyAddr
      BY <1>5, <1>6, <1>7, <2>1, UdpAssumption
    <2> HIDE DEF d
    <2>5. AnswerComesBack'
      BY <2>2, <2>3, <2>4, SentAnswered
    <2> QED
      BY <1>2, <1>3, <2>3, <2>5, StepOK DEF UdpInv
  <1>8. ASSUME pcb[p].lport = 0, NEW n \in FreePorts(p, AnyAddr), Bound(p, AnyAddr, n)
        PROVE  Tables(pcb', hash', byPort') /\ pcb'[p] = [pcb[p] EXCEPT !.laddr = AnyAddr, !.lport = n]
    <2>1. n \in Ephemeral /\ ~inpcb_port_in_use(p, AnyAddr, n)
      BY <1>8 DEF FreePorts
    <2> QED
      BY <1>1, <1>2, <1>8, <2>1, UdpAssumption, BoundKeeps
  <1>9. ASSUME pcb[p].lport = 0, NEW n \in FreePorts(p, AnyAddr), Bound(p, AnyAddr, n),
               NEW l \in inpcb_select_source(to), sent' = Goes(p, dst, l, n)
        PROVE  UdpInv'
    <2> DEFINE d == [src |-> l, sport |-> n, dst |-> to, dport |-> port]
    <2>1. Tables(pcb', hash', byPort') /\ pcb'[p] = [pcb[p] EXCEPT !.laddr = AnyAddr, !.lport = n] /\ n \in Ephemeral
      BY <1>8, <1>9 DEF FreePorts
    <2>2. pcb'[p].laddr = AnyAddr /\ pcb'[p].lport = n /\ pcb'[p].v6 = pcb[p].v6 /\ pcb'[p].used = pcb[p].used /\ pcb'[p].fport = pcb[p].fport
      BY <1>1, <2>1 DEF Inpcb
    <2>3. pcb[p].fport = 0
      BY <1>1, <1>9 DEF InpcbOK
    <2>4. l \in Local /\ (l \in V6 => pcb[p].v6)
      <3>1. l \in Local
        BY <1>9 DEF inpcb_select_source
      <3>2. to \in inpcb_sockaddr_to_in6(p) \cup Groups
        BY <1>4, <2>3
      <3>3. ASSUME l \in V6, ~pcb[p].v6  PROVE FALSE
        <4>1. to \in V4 \cup Groups
          BY <3>2, <3>3 DEF inpcb_sockaddr_to_in6
        <4> HIDE DEF to
        <4> QED
          BY <4>1, <1>9, <3>1, <3>3, UdpAssumption DEF inpcb_select_source
      <3> QED
        BY <3>1, <3>3
    <2>5. Fits(pcb'[p], [src |-> d.dst, sport |-> d.dport, dst |-> d.src, dport |-> d.sport])
      BY <1>2, <2>2, <2>3, <2>4 DEF Fits, inpcb_family_ok
    <2>6. sent' = [by |-> p, d |-> d] /\ d.dport # 0 /\ d.sport # 0 /\ d.src # AnyAddr
      BY <1>5, <1>6, <1>9, <2>1, <2>4, UdpAssumption
    <2> HIDE DEF d
    <2>7. AnswerComesBack'
      BY <2>1, <2>5, <2>6, SentAnswered
    <2> QED
      BY <1>2, <1>3, <2>1, <2>7, StepOK DEF UdpInv
  <1>10. ASSUME pcb[p].lport = 0, NEW n \in FreePorts(p, AnyAddr), Bound(p, AnyAddr, n), sent' = [d |-> NoDatagram, by |-> NoPcb]
         PROVE  UdpInv'
    <2>1. AnswerComesBack'
      BY <1>10 DEF AnswerComesBack
    <2> QED
      BY <1>2, <1>3, <1>8, <1>10, <2>1, StepOK DEF UdpInv
  <1> HIDE DEF port
  <1> QED
    BY <1>7, <1>9, <1>10 DEF udp_output_locked

LEMMA UdpInvInit == UdpInit(UdpCases) => UdpInv
  <1>1. SUFFICES ASSUME UdpInit(UdpCases)  PROVE UdpInv
    OBVIOUS
  <1>2. InpcbOK(Unused) /\ Unused.lport = 0 /\ Unused \in Inpcb
    BY UdpAssumption DEF InpcbOK, Inpcb, Unused
  <1>3. pcb = [p \in Pcbs |-> Unused] /\ hash = [p \in Pcbs |-> NotFiled] /\ byPort = <<>>
    BY <1>1 DEF UdpInit
  <1>4. byPort \in Seq(Pcbs) /\ IsInjective(byPort) /\ ToSet(byPort) = {}
    BY <1>3 DEF IsInjective, ToSet
  <1>5. Tables(pcb, hash, byPort)
    BY <1>2, <1>3, <1>4 DEF Tables, Filed, Owned
  <1>6. RightSocket /\ AnswerComesBack
    BY <1>1, UdpAssumption DEF UdpInit, RightSocket, AnswerComesBack, NoDatagram
  <1>7. udpCase \in UdpCaseType
    BY <1>1, UdpAssumption DEF UdpInit, UdpCaseType
  <1> QED
    BY <1>5, <1>6, <1>7 DEF UdpInv

LEMMA UdpInvNext == UdpInv /\ [UdpNext]_udpVars => UdpInv'
  <1>1. SUFFICES ASSUME UdpInv, [UdpNext]_udpVars  PROVE UdpInv'
    OBVIOUS
  <1>2. CASE UNCHANGED udpVars
    <2>1. UNCHANGED <<pcb, hash, byPort, delivered, sent, udpCase>>
      BY <1>2 DEF udpVars
    <2>2. RightSocket'
      BY <1>1, <2>1 DEF UdpInv, RightSocket, udp_pcb_matches, Rank
    <2>3. AnswerComesBack'
      BY <1>1, <2>1 DEF UdpInv, AnswerComesBack, inpcb_lookup, inpcb_lookup_exact, SameTuple, inpcb_lookup_wild, FirstOf, Listens
    <2> QED
      BY <1>1, <2>1, <2>2, <2>3 DEF UdpInv
  <1>3. ASSUME NEW p \in Pcbs, sock_recv(p) \/ udp_detach(p)  PROVE UdpInv'
    BY <1>1, <1>3, RecvKeeps, DetachKeeps
  <1>4. ASSUME NEW p \in Pcbs, NEW v6 \in udpCase.v6, NEW reuse \in udpCase.reuse, udp_attach(p, v6, reuse)  PROVE UdpInv'
    <2>1. v6 \in BOOLEAN /\ reuse \in BOOLEAN
      BY <1>1 DEF UdpInv, UdpCaseType
    <2> QED
      BY <1>1, <1>4, <2>1, AttachKeeps
  <1>5. ASSUME NEW p \in Pcbs, NEW l \in Local \cup {AnyAddr}, NEW n \in Ports \cup {0}, udp_bind(p, l, n)  PROVE UdpInv'
    BY <1>1, <1>5, BindKeeps
  <1>6. ASSUME NEW p \in Pcbs, NEW f \in V4 \cup V6, NEW n \in Ports, udp_connect(p, f, n)  PROVE UdpInv'
    BY <1>1, <1>6, ConnectKeeps DEF Addr
  <1>7. ASSUME NEW p \in Pcbs, NEW how, udp_shutdown(p, how)  PROVE UdpInv'
    BY <1>1, <1>7, ShutdownKeeps
  <1>8. ASSUME NEW p \in Pcbs, udp_output_locked(p, NoDatagram)  PROVE UdpInv'
    BY <1>1, <1>8, SendKeeps
  <1>9. ASSUME NEW p \in Pcbs, NEW a, NEW n \in Ports, udp_output_locked(p, [NoDatagram EXCEPT !.dst = a, !.dport = n])
        PROVE  UdpInv'
    <2> DEFINE dst == [NoDatagram EXCEPT !.dst = a, !.dport = n]
    <2>1. dst.dport = n /\ NoDatagram.dport = 0 /\ n # 0
      BY UdpAssumption DEF NoDatagram
    <2>2. udp_output_locked(p, dst)
      BY <1>9
    <2> HIDE DEF dst
    <2>3. dst # NoDatagram
      BY <2>1
    <2> QED
      BY <1>1, <2>1, <2>2, <2>3, SendKeeps
  <1>10. ASSUME NEW s \in (V4 \cup V6) \ Local, NEW n \in Ports, NEW t \in Local \cup Groups, NEW m \in Ports \cup Ephemeral,
                udp_input_packet([src |-> s, sport |-> n, dst |-> t, dport |-> m])
         PROVE  UdpInv'
    <2> DEFINE d == [src |-> s, sport |-> n, dst |-> t, dport |-> m]
    <2>1. d.src \in Addr /\ d.sport \in Ports /\ d.dst \in Local \cup Groups /\ d.dport \in Ports \cup Ephemeral
      BY DEF Addr
    <2>2. udp_input_packet(d)
      BY <1>10
    <2> HIDE DEF d
    <2> QED
      BY <1>1, <2>1, <2>2, InputKeeps
  <1> QED
    BY <1>1, <1>2, <1>3, <1>4, <1>5, <1>6, <1>7, <1>8, <1>9, <1>10 DEF UdpNext

(* The tables of control blocks (inpcb.c) agree with the sockets at every    *)
(* moment, whatever is bound, connected, sent, received and closed.          *)
THEOREM UdpInvHolds == UdpSpec => []UdpInv
  BY UdpInvInit, UdpInvNext, PTL DEF UdpSpec

(* UDP (udp.c, inpcb.c): no two sockets own a port, a datagram reaches the   *)
(* most specific socket, and answers come back, for any number of sockets,   *)
(* addresses and ports.                                                      *)
THEOREM UdpIsSound == UdpSpec => []UdpSound
  <1>1. ASSUME UdpInv  PROVE UdpSound
    <2>1. Tables(pcb, hash, byPort) /\ \A p \in Pcbs : InpcbOK(pcb[p]) /\ pcb[p] \in Inpcb
      BY <1>1 DEF UdpInv, Tables
    <2>2. UdpTypeOK
      BY <2>1 DEF UdpTypeOK, Tables, Filed, InpcbOK, Inpcb, Addr
    <2>3. FiledRight
      <3>1. SUFFICES ASSUME NEW p \in Pcbs
                     PROVE  /\ hash[p] = (IF pcb[p].lport = 0 THEN NotFiled ELSE inpcb_hash(pcb[p]))
                            /\ p \in ToSet(byPort) <=> hash[p] # NotFiled
        BY DEF FiledRight
      <3>2. inpcb_hash(pcb[p]) # NotFiled
        BY DEF inpcb_hash, NotFiled
      <3> QED
        BY <2>1, <3>2 DEF Tables, Filed
    <2>4. PortsOwned
      BY <2>1 DEF PortsOwned, Tables, Owned
    <2> QED
      BY <1>1, <2>2, <2>3, <2>4 DEF UdpSound, UdpInv
  <1> QED
    BY <1>1, UdpInvHolds, PTL

-------------------------------------------------------------------------------
(* The network card (e1000.c, netif.c, netisr.c) *)

(* What the cells of the model hold.                                        *)
AtRing == {"f3", "f4", "f5", "reclaim2"}
InFlush == {"f1", "f2", "f3", "f4", "f5"}
NicPcs == {"idle", "lock", "tx", "f1", "f2", "f3", "f4", "f5", "reclaim", "reclaim2", "exit", "bell", "rung", "fin",
           "rx1", "rx2", "poll", "drain", "rele"}
Cpu == [pc : NicPcs, after : {"fin", "tx", "rx1", "reclaim", "poll"}, todo : Seq({"wire"}), fret : {"fin", "tx", "exit", "rung"},
        tret : {"poll", "rele"}, list : Seq(Nat), depth : Nat, bell : BOOLEAN, last : Int]
TxIndex == 0..(NTx - 1)
RxIndex == 0..(NRx - 1)
TxType == [pending : Seq(Nat), count : Nat, busy : Procs \cup {0}, dd : [TxIndex -> BOOLEAN], nb : [TxIndex -> Nat],
           addr : [TxIndex -> Int], cur : TxIndex, clean : TxIndex, tail : TxIndex, head : TxIndex]
RxType == [dd : [RxIndex -> BOOLEAN], pkt : [RxIndex -> Nat], cur : RxIndex, head : RxIndex, tail : RxIndex,
           lock : Procs \cup {0}, icr : BOOLEAN]
LogType == [pushed : Nat, live : SUBSET Nat, wire : Seq(Nat), handed : Seq(Nat), arrived : Nat]
NicTypes ==
  /\ cpus \in [Procs -> Cpu] /\ netlock \in Procs \cup {0} /\ tx \in TxType /\ rx \in RxType
  /\ nq \in Seq(Nat) /\ Len(nq) <= NqLen /\ refs \in Nat /\ nicLog \in LogType /\ nicCase \in NicCaseType
  /\ tx.count = Len(tx.pending)

(* Where a CPU is, and what it may rely on there; mine: it has the net lock. *)
CpuOK(k, mine) ==
  /\ k.depth = IF mine THEN 1 ELSE 0
  /\ k.bell => mine \/ k.pc = "bell"
  /\ k.list # <<>> => k.pc = "f4"
  /\ k.pc = "idle" => k = CpuIdle
  /\ k.pc \in {"reclaim", "reclaim2", "exit", "drain", "rele"} => mine
  /\ k.pc \in {"idle", "lock", "bell", "rung", "fin"} => ~mine
  /\ k.pc = "lock" => k.after \in {"tx", "rx1"}
  /\ k.pc \in {"rx1", "rx2"} => k.after = "poll" \/ (k.after = "reclaim" /\ mine)
  /\ k.pc \in {"lock", "rx1", "rx2", "reclaim", "reclaim2"} => k.tret = "poll"
  /\ k.pc = "tx" => k.tret = "poll" \/ mine
  /\ k.pc = "rele" => k.tret = "rele"
  /\ k.pc \in InFlush => \/ k.fret = "tx" /\ (k.tret = "poll" \/ mine)
                         \/ k.fret = "exit" /\ mine /\ k.tret = "poll"
                         \/ k.fret = "rung" /\ ~mine
  /\ k.pc = "reclaim2" => k.fret = "exit"
  /\ k.pc = "rung" => k.fret = "rung"
  /\ k.fret = "rung" => k.pc \in InFlush \cup {"rung", "fin"}

(* Who is at the ring; whoever finds it taken leaves its frames to that one. *)
CpusInv == \A c \in Procs : CpuOK(cpus[c], netlock = c)
BusyInv == \A c \in Procs : tx.busy = c <=> cpus[c].pc \in AtRing
Coming(k) == k.bell \/ k.pc \in InFlush \cup {"reclaim2"}
FlushInv == tx.pending # <<>> => \E c \in Procs : Coming(cpus[c])
TailInv == tx.tail # tx.cur => \E c \in Procs : cpus[c].pc = "f4"

(* The transmit ring, its indices unrolled: from C the driver has yet to     *)
(* take back, from H the card has yet to send, from E it has not been told   *)
(* of, and from D the ring is empty.                                         *)
Ix(p) == p % NTx
Frame(a) == IF a < 0 THEN -a ELSE a
RingAt(T, C, H, E, D) ==
  /\ C <= H /\ H <= E /\ E <= D /\ D < C + NTx
  /\ T.clean = Ix(C) /\ T.head = Ix(H) /\ T.tail = Ix(E) /\ T.cur = Ix(D)
  /\ \A p \in C..(H - 1) : T.dd[Ix(p)] /\ T.addr[Ix(p)] = 0
  /\ \A p \in H..(D - 1) : ~T.dd[Ix(p)] /\ T.addr[Ix(p)] # 0
  /\ \A p \in H..(D - 1) : T.addr[Ix(p)] > 0 => T.nb[Ix(p)] = T.addr[Ix(p)]
  /\ \A p \in D..(C + NTx - 1) : T.addr[Ix(p)] = 0
  /\ \A p, q \in C..(D - 1) : p < q /\ H <= q /\ T.nb[Ix(p)] # 0 => T.nb[Ix(p)] < Frame(T.addr[Ix(q)])
RingInv == \E C, H, E, D \in Nat : RingAt(tx, C, H, E, D)

(* Frames have numbers in the order of the pushes: on the wire, in the ring, *)
(* on the list of who is at the ring, on the pending list.                   *)
Rising(s) == \A i, j \in DOMAIN s : i < j => s[i] < s[j]
Falling(s) == \A i, j \in DOMAIN s : i < j => s[j] < s[i]
InRing(T, x) == \E i \in TxIndex : x = T.nb[i] \/ x = Frame(T.addr[i])
Waits(T, cp, y) == y \in Range(T.pending) \/ \E c \in Procs : y \in Range(cp[c].list)
OrderOK(T, cp, log) ==
  /\ Rising(log.wire) /\ Falling(T.pending) /\ \A c \in Procs : Rising(cp[c].list)
  /\ \A x \in Range(log.wire) : x <= log.pushed /\ \A i \in TxIndex : T.addr[i] > 0 => x < T.addr[i]
  /\ \A i \in TxIndex : T.nb[i] <= log.pushed /\ Frame(T.addr[i]) <= log.pushed
  /\ \A y \in Nat : Waits(T, cp, y) => y > 0 /\ y <= log.pushed /\ y \in log.live
  /\ \A x, y \in Nat : x \in Range(log.wire) /\ Waits(T, cp, y) => x < y
  /\ \A i \in TxIndex, y \in Nat : Waits(T, cp, y) => T.nb[i] < y /\ Frame(T.addr[i]) < y
  /\ \A c \in Procs : \A x \in Range(cp[c].list), y \in Range(T.pending) : x < y
  /\ \A i \in TxIndex : T.addr[i] # 0 => Frame(T.addr[i]) \in log.live

(* The receive ring: from C on packets to take, from H on room, up to E.     *)
Jx(p) == p % NRx
RxAt(R, q, log, C, H, E) ==
  /\ C <= H /\ H <= E /\ E < C + NRx
  /\ R.cur = Jx(C) /\ R.head = Jx(H) /\ R.tail = Jx(E)
  /\ \A p \in C..(H - 1) : R.dd[Jx(p)] /\ R.pkt[Jx(p)] <= log.arrived
  /\ \A p \in H..(C + NRx - 1) : ~R.dd[Jx(p)]
  /\ \A p, n \in C..(H - 1) : p < n => R.pkt[Jx(p)] < R.pkt[Jx(n)]
  /\ \A x \in Range(log.handed \o q) : x <= log.arrived /\ \A p \in C..(H - 1) : x < R.pkt[Jx(p)]
LastAt(cp, C) == \A c \in Procs : cp[c].pc = "rx2" /\ cp[c].last >= 0 => cp[c].last = Jx(C + NRx - 1)
RxInv == /\ \E C, H, E \in Nat : RxAt(rx, nq, nicLog, C, H, E) /\ LastAt(cpus, C)
         /\ \A c \in Procs : rx.lock = c <=> cpus[c].pc = "rx2"

NicInv == /\ NicTypes /\ CpusInv /\ BusyInv /\ FlushInv /\ TailInv /\ RingInv /\ OrderOK(tx, cpus, nicLog)
          /\ RxInv /\ RxOrder /\ RefsBalanced

(* Quotient and remainder, and from them the arithmetic of rings: positions *)
(* are not wrapped, an index is a position modulo the size.                 *)
LEMMA ModIs == ASSUME NEW N \in Nat \ {0}, NEW p \in Nat
  PROVE p % N \in 0..(N - 1) /\ p \div N \in Nat /\ p = N * (p \div N) + (p % N)
  OBVIOUS

LEMMA TimesRises == ASSUME NEW N \in Nat, NEW x \in Nat, NEW y \in Nat, x < y  PROVE N * x + N <= N * y
  <1> DEFINE z == y - x - 1
  <1>1. z \in Nat /\ y = x + 1 + z
    OBVIOUS
  <1> HIDE DEF z
  <1>2. N * (x + 1 + z) = N * x + N + N * z
    BY <1>1
  <1>3. N * z \in Nat /\ N * x \in Nat
    BY <1>1
  <1> QED
    BY <1>1, <1>2, <1>3

LEMMA QuotientIs == ASSUME NEW N \in Nat \ {0}, NEW a \in Nat, NEW b \in Nat, NEW r \in 0..(N - 1), NEW s \in 0..(N - 1), N * a + r = N * b + s
  PROVE a = b /\ r = s
  <1>1. N * a \in Nat /\ N * b \in Nat
    OBVIOUS
  <1>2. ~(a < b)
    BY <1>1, TimesRises
  <1>3. ~(b < a)
    BY <1>1, TimesRises
  <1> QED
    BY <1>2, <1>3

LEMMA ModPlus == ASSUME NEW N \in Nat \ {0}, NEW k \in Nat, NEW r \in 0..(N - 1)
  PROVE (N * k + r) % N = r
  <1> DEFINE p == N * k + r
  <1>1. p \in Nat
    OBVIOUS
  <1>2. p % N \in 0..(N - 1) /\ p \div N \in Nat /\ p = N * (p \div N) + (p % N)
    BY <1>1, ModIs
  <1> HIDE DEF p
  <1>3. N * k + r = N * (p \div N) + (p % N)
    BY <1>2 DEF p
  <1>4. r = p % N
    BY <1>2, <1>3, QuotientIs
  <1> QED
    BY <1>4 DEF p

LEMMA ModSame == ASSUME NEW N \in Nat \ {0}, NEW p \in Nat, NEW q \in Nat, p <= q, q < p + N, p % N = q % N
  PROVE p = q
  <1> DEFINE a == p \div N  b == q \div N  r == p % N
  <1>1. p = N * a + r /\ q = N * b + r /\ a \in Nat /\ b \in Nat /\ r \in 0..(N - 1) /\ N * a \in Nat /\ N * b \in Nat
    <2>1. p = N * a + r /\ a \in Nat /\ r \in 0..(N - 1)
      BY ModIs
    <2>2. q = N * b + r /\ b \in Nat
      BY ModIs
    <2> HIDE DEF a, b, r
    <2> QED
      BY <2>1, <2>2
  <1> HIDE DEF a, b, r
  <1>2. ~(a < b)
    BY <1>1, TimesRises
  <1>3. ~(b < a)
    BY <1>1, TimesRises
  <1> QED
    BY <1>1, <1>2, <1>3

LEMMA ModAdd == ASSUME NEW N \in Nat \ {0}, NEW p \in Nat, NEW n \in Nat
  PROVE ((p % N) + n) % N = (p + n) % N
  <1> DEFINE r == (p % N) + n  k == p \div N
  <1>1. p = N * k + (p % N) /\ k \in Nat /\ r \in Nat /\ p + n = N * k + r
    BY ModIs
  <1>2. r = N * (r \div N) + (r % N) /\ r \div N \in Nat /\ r % N \in 0..(N - 1)
    BY <1>1, ModIs
  <1> HIDE DEF r, k
  <1>3. p + n = N * (k + r \div N) + (r % N)
    BY <1>1, <1>2
  <1>6. k + r \div N \in Nat
    BY <1>1, <1>2
  <1>4. (N * (k + r \div N) + (r % N)) % N = r % N
    BY <1>2, <1>6, ModPlus
  <1> QED
    BY <1>3, <1>4 DEF r

LEMMA ModDiff == ASSUME NEW N \in Nat \ {0}, NEW C \in Nat, NEW D \in Nat, C <= D, D < C + N
  PROVE ((D % N) + N - (C % N)) % N = D - C
  <1> DEFINE a == C % N  n == D - C
  <1>1. a \in 0..(N - 1) /\ n \in 0..(N - 1) /\ D = C + n
    <2>1. a \in 0..(N - 1)
      BY ModIs
    <2> HIDE DEF a
    <2> QED
      BY <2>1
  <1>2. D % N = (a + n) % N
    <2>1. n \in Nat
      BY <1>1
    <2> HIDE DEF n
    <2>2. ((C % N) + n) % N = (C + n) % N
      BY <2>1, ModAdd
    <2> QED
      BY <1>1, <2>2
  <1> HIDE DEF a, n
  <1>3. CASE a + n < N
    <2>1. (a + n) % N = a + n
      BY <1>1, <1>3
    <2>2. (N + n) % N = n
      BY <1>1
    <2>3. (a + n) + N - a = N + n
      BY <1>1
    <2> QED
      BY <1>2, <2>1, <2>2, <2>3 DEF a, n
  <1>4. CASE ~(a + n < N)
    <2>1. (a + n) % N = a + n - N
      BY <1>1, <1>4
    <2>2. n % N = n
      BY <1>1
    <2>3. (a + n - N) + N - a = n
      BY <1>1
    <2> QED
      BY <1>2, <2>1, <2>2, <2>3 DEF a, n
  <1> QED
    BY <1>3, <1>4

LEMMA ModCover == ASSUME NEW N \in Nat \ {0}, NEW C \in Nat, NEW i \in 0..(N - 1)
  PROVE \E p \in C..(C + N - 1) : p % N = i
  <1> DEFINE a == C % N  k == C \div N
  <1>1. C = N * k + a /\ k \in Nat /\ a \in 0..(N - 1)
    BY ModIs
  <1> HIDE DEF a, k
  <1>2. CASE a <= i
    <2>1. N * k + i \in C..(C + N - 1)
      BY <1>1, <1>2
    <2>2. (N * k + i) % N = i
      BY <1>1, ModPlus
    <2> QED
      BY <2>1, <2>2
  <1>3. CASE i < a
    <2>1. N * (k + 1) + i \in C..(C + N - 1)
      BY <1>1, <1>3
    <2>2. (N * (k + 1) + i) % N = i
      BY <1>1, ModPlus
    <2> QED
      BY <2>1, <2>2
  <1> QED
    BY <1>1, <1>2, <1>3

(* The same for the rings of the card, their size hidden.                   *)
LEMMA IxSize == NTx \in Nat /\ NTx > 1
  BY NicAssumption

LEMMA IxIn == ASSUME NEW p \in Nat  PROVE Ix(p) \in TxIndex
  <1>1. NTx \in Nat \ {0}
    BY NicAssumption
  <1> QED
    BY <1>1, ModIs DEF Ix, TxIndex

LEMMA IxAdd == ASSUME NEW p \in Nat, NEW n \in Nat  PROVE (Ix(p) + n) % NTx = Ix(p + n)
  <1>1. NTx \in Nat \ {0}
    BY NicAssumption
  <1> QED
    BY <1>1, ModAdd DEF Ix

LEMMA IxWrap == ASSUME NEW p \in Nat  PROVE Ix(p + NTx) = Ix(p)
  <1>1. NTx \in Nat /\ Ix(p + NTx) = (Ix(p) + NTx) % NTx
    BY IxSize, IxAdd
  <1>2. \A r \in TxIndex : (r + NTx) % NTx = r
    BY IxSize DEF TxIndex
  <1> QED
    BY <1>1, <1>2, IxIn

LEMMA IxDiff == ASSUME NEW p \in Nat, NEW q \in Nat, p <= q, q < p + NTx  PROVE (Ix(q) + NTx - Ix(p)) % NTx = q - p
  <1>1. NTx \in Nat \ {0}
    BY NicAssumption
  <1> QED
    BY <1>1, ModDiff DEF Ix

LEMMA IxOn == ASSUME NEW p \in Nat, NEW i \in TxIndex  PROVE \E q \in p..(p + NTx - 1) : Ix(q) = i
  <1>1. NTx \in Nat \ {0}
    BY NicAssumption
  <1> QED
    BY <1>1, ModCover DEF Ix, TxIndex

LEMMA IxApart ==
  ASSUME NEW C \in Nat, NEW p \in C..(C + NTx - 1), NEW q \in C..(C + NTx - 1), Ix(p) = Ix(q)
  PROVE  p = q
  <1>1. NTx \in Nat \ {0} /\ p \in Nat /\ q \in Nat /\ q < p + NTx /\ p < q + NTx
    BY IxSize
  <1>2. p % NTx = q % NTx
    BY DEF Ix
  <1>3. CASE p <= q
    BY <1>1, <1>2, <1>3, ModSame
  <1>4. CASE q <= p
    BY <1>1, <1>2, <1>4, ModSame
  <1> QED
    BY <1>1, <1>3, <1>4

LEMMA JxSize == NRx \in Nat /\ NRx > 1
  BY NicAssumption

LEMMA JxIn == ASSUME NEW p \in Nat  PROVE Jx(p) \in RxIndex
  <1>1. NRx \in Nat \ {0}
    BY NicAssumption
  <1> QED
    BY <1>1, ModIs DEF Jx, RxIndex

LEMMA JxAdd == ASSUME NEW p \in Nat, NEW n \in Nat  PROVE (Jx(p) + n) % NRx = Jx(p + n)
  <1>1. NRx \in Nat \ {0}
    BY NicAssumption
  <1> QED
    BY <1>1, ModAdd DEF Jx

LEMMA JxWrap == ASSUME NEW p \in Nat  PROVE Jx(p + NRx) = Jx(p)
  <1>1. NRx \in Nat /\ Jx(p + NRx) = (Jx(p) + NRx) % NRx
    BY JxSize, JxAdd
  <1>2. \A r \in RxIndex : (r + NRx) % NRx = r
    BY JxSize DEF RxIndex
  <1> QED
    BY <1>1, <1>2, JxIn

LEMMA JxApart ==
  ASSUME NEW C \in Nat, NEW p \in C..(C + NRx - 1), NEW q \in C..(C + NRx - 1), Jx(p) = Jx(q)
  PROVE  p = q
  <1>1. NRx \in Nat \ {0} /\ p \in Nat /\ q \in Nat /\ q < p + NRx /\ p < q + NRx
    BY JxSize
  <1>2. p % NRx = q % NRx
    BY DEF Jx
  <1>3. CASE p <= q
    BY <1>1, <1>2, <1>3, ModSame
  <1>4. CASE q <= p
    BY <1>1, <1>2, <1>4, ModSame
  <1> QED
    BY <1>1, <1>3, <1>4

(* The bell, and a descriptor that the card has sent.                       *)
LEMMA RingRings ==
  ASSUME NEW T \in TxType, NEW C \in Nat, NEW H \in Nat, NEW E \in Nat, NEW D \in Nat, RingAt(T, C, H, E, D),
         NEW U, U = e1000_tx_ring_doorbell(T)
  PROVE  /\ U \in TxType /\ RingAt(U, C, H, D, D) /\ U.tail = U.cur
         /\ U.pending = T.pending /\ U.count = T.count /\ U.busy = T.busy /\ U.nb = T.nb /\ U.addr = T.addr
         /\ U.dd = T.dd /\ U.cur = T.cur /\ U.clean = T.clean /\ U.head = T.head
  <1>1. /\ U \in TxType /\ U.tail = T.cur
        /\ U.pending = T.pending /\ U.count = T.count /\ U.busy = T.busy /\ U.nb = T.nb /\ U.addr = T.addr
        /\ U.dd = T.dd /\ U.cur = T.cur /\ U.clean = T.clean /\ U.head = T.head
    BY DEF e1000_tx_ring_doorbell, TxType
  <1> QED
    BY <1>1, IxSize DEF RingAt

SentOne(T, C, H, E, D, U) ==
  /\ T \in TxType /\ RingAt(T, C, H, E, D) /\ T.head # T.tail
  /\ U = [T EXCEPT !.dd[T.head] = TRUE, !.addr[T.head] = 0, !.head = (T.head + 1) % NTx]

LEMMA RingSends ==
  ASSUME NEW T, NEW C \in Nat, NEW H \in Nat, NEW E \in Nat, NEW D \in Nat, NEW U, SentOne(T, C, H, E, D, U)
  PROVE  /\ U \in TxType /\ RingAt(U, C, H + 1, E, D) /\ H < D /\ T.head = Ix(H)
         /\ U.pending = T.pending /\ U.count = T.count /\ U.busy = T.busy /\ U.nb = T.nb
         /\ U.addr = [T.addr EXCEPT ![T.head] = 0] /\ U.tail = T.tail /\ U.cur = T.cur
  <1>0. /\ T \in TxType /\ RingAt(T, C, H, E, D) /\ T.head # T.tail
        /\ U = [T EXCEPT !.dd[T.head] = TRUE, !.addr[T.head] = 0, !.head = (T.head + 1) % NTx]
    BY DEF SentOne
  <1> USE <1>0
  <1>1. H < E /\ H < D /\ T.head = Ix(H) /\ Ix(H) \in TxIndex /\ (T.head + 1) % NTx = Ix(H + 1) /\ Ix(H + 1) \in TxIndex
    <2>1. H # E /\ T.head = Ix(H)
      BY DEF RingAt
    <2>2. H < E /\ H < D
      BY <2>1 DEF RingAt
    <2>3. 1 \in Nat /\ H + 1 \in Nat
      OBVIOUS
    <2>4. (Ix(H) + 1) % NTx = Ix(H + 1)
      BY <2>3, IxAdd
    <2> QED
      BY <2>1, <2>2, <2>3, <2>4, IxIn
  <1>2. /\ U \in TxType
        /\ U.pending = T.pending /\ U.count = T.count /\ U.busy = T.busy /\ U.nb = T.nb
        /\ U.addr = [T.addr EXCEPT ![T.head] = 0] /\ U.dd = [T.dd EXCEPT ![T.head] = TRUE]
        /\ U.tail = T.tail /\ U.cur = T.cur /\ U.clean = T.clean /\ U.head = Ix(H + 1)
    <2> DEFINE d == [T.dd EXCEPT ![T.head] = TRUE]  a == [T.addr EXCEPT ![T.head] = 0]
    <2>1. d \in [TxIndex -> BOOLEAN] /\ a \in [TxIndex -> Int]
      BY DEF TxType
    <2>2. U = [T EXCEPT !.dd = d, !.addr = a, !.head = Ix(H + 1)]
      BY <1>1
    <2> HIDE DEF d, a
    <2>3. U \in TxType /\ U.dd = d /\ U.addr = a /\ U.head = Ix(H + 1)
      BY <1>1, <2>1, <2>2 DEF TxType
    <2> QED
      BY <2>2, <2>3 DEF TxType, d, a
  <1>3. \A p \in C..(C + NTx - 1) : p \in Nat /\ Ix(p) \in TxIndex /\ (Ix(p) = Ix(H) => p = H)
    <2>1. H \in C..(C + NTx - 1)
      BY <1>1, IxSize DEF RingAt
    <2> QED
      BY <2>1, IxApart, IxIn, IxSize
  <1>4. /\ U.dd[Ix(H)] /\ U.addr[Ix(H)] = 0
        /\ \A p \in C..(C + NTx - 1) : p # H => U.dd[Ix(p)] = T.dd[Ix(p)] /\ U.addr[Ix(p)] = T.addr[Ix(p)]
    <2>1. T.dd \in [TxIndex -> BOOLEAN] /\ T.addr \in [TxIndex -> Int]
      BY DEF TxType
    <2>2. U.dd[Ix(H)] /\ U.addr[Ix(H)] = 0
      BY <1>1, <1>2, <2>1
    <2>3. ASSUME NEW p \in C..(C + NTx - 1), p # H  PROVE U.dd[Ix(p)] = T.dd[Ix(p)] /\ U.addr[Ix(p)] = T.addr[Ix(p)]
      <3>1. Ix(p) # T.head /\ Ix(p) \in TxIndex
        BY <1>1, <1>3, <2>3
      <3> QED
        BY <1>2, <2>1, <3>1
    <2> QED
      BY <2>2, <2>3
  <1>5. NTx \in Nat
    BY IxSize
  <1>6. \A p \in C..((H + 1) - 1) : U.dd[Ix(p)] /\ U.addr[Ix(p)] = 0
    BY <1>1, <1>4, <1>5 DEF RingAt
  <1>7. \A p \in (H + 1)..(D - 1) : ~U.dd[Ix(p)] /\ U.addr[Ix(p)] # 0
    <2>1. ASSUME NEW p \in (H + 1)..(D - 1)  PROVE ~U.dd[Ix(p)] /\ U.addr[Ix(p)] # 0
      <3>1. p \in C..(C + NTx - 1) /\ p # H /\ p \in H..(D - 1)
        BY <1>5 DEF RingAt
      <3>2. U.dd[Ix(p)] = T.dd[Ix(p)] /\ U.addr[Ix(p)] = T.addr[Ix(p)]
        BY <1>4, <3>1
      <3>3. ~T.dd[Ix(p)] /\ T.addr[Ix(p)] # 0
        BY <3>1 DEF RingAt
      <3> QED
        BY <3>2, <3>3
    <2> QED
      BY <2>1
  <1>8. \A p \in (H + 1)..(D - 1) : U.addr[Ix(p)] > 0 => U.nb[Ix(p)] = U.addr[Ix(p)]
    BY <1>1, <1>2, <1>4, <1>5 DEF RingAt
  <1>9. \A p \in D..(C + NTx - 1) : U.addr[Ix(p)] = 0
    BY <1>1, <1>4, <1>5 DEF RingAt
  <1>10. \A p, q \in C..(D - 1) : p < q /\ H + 1 <= q /\ U.nb[Ix(p)] # 0 => U.nb[Ix(p)] < Frame(U.addr[Ix(q)])
    <2>1. ASSUME NEW p \in C..(D - 1), NEW q \in C..(D - 1), p < q, H + 1 <= q, U.nb[Ix(p)] # 0
          PROVE  U.nb[Ix(p)] < Frame(U.addr[Ix(q)])
      <3>1. q \in C..(C + NTx - 1) /\ q # H /\ H <= q
        BY <1>5, <2>1 DEF RingAt
      <3>2. U.addr[Ix(q)] = T.addr[Ix(q)]
        BY <1>4, <3>1
      <3> QED
        BY <1>2, <2>1, <3>1, <3>2 DEF RingAt
    <2> QED
      BY <2>1
  <1>11. /\ C <= H + 1 /\ H + 1 <= E /\ E <= D /\ D < C + NTx
         /\ U.clean = Ix(C) /\ U.head = Ix(H + 1) /\ U.tail = Ix(E) /\ U.cur = Ix(D)
    BY <1>1, <1>2 DEF RingAt
  <1>12. RingAt(U, C, H + 1, E, D)
    BY <1>6, <1>7, <1>8, <1>9, <1>10, <1>11 DEF RingAt
  <1> QED
    BY <1>1, <1>2, <1>12

(* e1000_reclaim_tx takes back what the card has sent, and nothing else.    *)
LEMMA FinishedIs ==
  ASSUME NEW T \in TxType, NEW C \in Nat, NEW H \in Nat, NEW E \in Nat, NEW D \in Nat, RingAt(T, C, H, E, D)
  PROVE  Finished(T) = H - C
  <1> DEFINE used == (T.cur + NTx - T.clean) % NTx
             P(n) == /\ \A k \in 0..(n - 1) : Sent(T, (T.clean + k) % NTx)
                     /\ n = used \/ ~Sent(T, (T.clean + n) % NTx)
  <1>1. C <= H /\ H <= D /\ D < C + NTx /\ T.clean = Ix(C) /\ T.cur = Ix(D) /\ NTx \in Nat
    BY IxSize DEF RingAt
  <1>2. used = D - C
    BY <1>1, IxDiff
  <1>3. \A k \in Nat : (T.clean + k) % NTx = Ix(C + k)
    BY <1>1, IxAdd
  <1>4. \A k \in 0..(H - C - 1) : Sent(T, (T.clean + k) % NTx)
    <2>1. ASSUME NEW k \in 0..(H - C - 1)  PROVE Sent(T, (T.clean + k) % NTx)
      <3>1. k \in Nat /\ C + k \in C..(H - 1)
        BY <1>1
      <3>2. (T.clean + k) % NTx = Ix(C + k)
        BY <1>3, <3>1
      <3>3. T.dd[Ix(C + k)]
        BY <3>1 DEF RingAt
      <3> QED
        BY <3>2, <3>3 DEF Sent
    <2> QED
      BY <2>1
  <1>5. H - C = D - C \/ ~Sent(T, (T.clean + (H - C)) % NTx)
    <2>1. ASSUME H < D  PROVE ~Sent(T, (T.clean + (H - C)) % NTx)
      <3>1. H - C \in Nat /\ C + (H - C) = H /\ H \in H..(D - 1)
        BY <1>1, <2>1
      <3>2. (T.clean + (H - C)) % NTx = Ix(H)
        BY <1>3, <3>1
      <3>3. ~T.dd[Ix(H)]
        BY <3>1 DEF RingAt
      <3> QED
        BY <3>2, <3>3 DEF Sent
    <2> QED
      BY <1>1, <2>1
  <1>6. H - C \in 0..used /\ P(H - C)
    BY <1>1, <1>2, <1>4, <1>5
  <1>7. ASSUME NEW n \in 0..used, P(n)  PROVE n = H - C
    <2>1. n \in Nat /\ n <= D - C
      BY <1>1, <1>2
    <2>2. ~(n < H - C)
      <3>1. ASSUME n < H - C  PROVE FALSE
        <4>1. n # used /\ n \in 0..(H - C - 1)
          BY <1>1, <1>2, <2>1, <3>1
        <4> QED
          BY <1>4, <1>7, <4>1
      <3> QED
        BY <3>1
    <2>3. ~(H - C < n)
      <3>1. ASSUME H - C < n  PROVE FALSE
        <4>1. H - C \in 0..(n - 1) /\ H - C # D - C
          BY <1>1, <2>1, <3>1
        <4> QED
          BY <1>5, <1>7, <4>1
      <3> QED
        BY <3>1
    <2> QED
      BY <1>1, <2>1, <2>2, <2>3
  <1>8. Finished(T) = CHOOSE n \in 0..used : P(n)
    BY DEF Finished
  <1> HIDE DEF used, P
  <1>9. Finished(T) \in 0..used /\ P(Finished(T))
    BY <1>6, <1>8
  <1> QED
    BY <1>7, <1>9

LEMMA RingReclaim ==
  ASSUME NEW T \in TxType, NEW C \in Nat, NEW H \in Nat, NEW E \in Nat, NEW D \in Nat, RingAt(T, C, H, E, D),
         NEW live, NEW r, r = e1000_reclaim_tx(T, live)
  PROVE  /\ r.t \in TxType /\ RingAt(r.t, H, H, E, D)
         /\ r.t.pending = T.pending /\ r.t.count = T.count /\ r.t.busy = T.busy /\ r.t.addr = T.addr
         /\ r.t.tail = T.tail /\ r.t.cur = T.cur
         /\ \A i \in TxIndex : r.t.nb[i] = 0 \/ r.t.nb[i] = T.nb[i]
         /\ r.live = live \ {T.nb[Ix(p)] : p \in C..(H - 1)}
  <1> DEFINE n == Finished(T)
             done == {(T.clean + k) % NTx : k \in 0..(n - 1)}
             b == [i \in TxIndex |-> IF i \in done THEN 0 ELSE T.nb[i]]
             U == [T EXCEPT !.clean = (T.clean + n) % NTx, !.nb = b]
  <1>1. C <= H /\ H <= E /\ E <= D /\ D < C + NTx /\ T.clean = Ix(C) /\ NTx \in Nat /\ n = H - C /\ n \in Nat /\ C + n = H
    <2>1. C <= H /\ H <= E /\ E <= D /\ D < C + NTx /\ T.clean = Ix(C) /\ NTx \in Nat
      BY IxSize DEF RingAt
    <2>2. n = H - C
      BY FinishedIs
    <2> HIDE DEF n
    <2> QED
      BY <2>1, <2>2
  <1>2. r = [t |-> U, live |-> live \ {T.nb[i] : i \in done}]
    BY DEF e1000_reclaim_tx, TxIndex
  <1> HIDE DEF n
  <1>3. (T.clean + n) % NTx = Ix(H) /\ Ix(H) \in TxIndex
    BY <1>1, IxAdd, IxIn
  <1>4. done = {Ix(p) : p \in C..(H - 1)}
    <2>1. ASSUME NEW k \in 0..(n - 1)  PROVE (T.clean + k) % NTx = Ix(C + k) /\ C + k \in C..(H - 1)
      <3>1. k \in Nat
        BY <1>1
      <3> QED
        BY <1>1, <3>1, IxAdd
    <2>2. ASSUME NEW p \in C..(H - 1)  PROVE p - C \in 0..(n - 1) /\ (T.clean + (p - C)) % NTx = Ix(p)
      <3>1. p - C \in 0..(n - 1) /\ C + (p - C) = p
        BY <1>1
      <3> QED
        BY <2>1, <3>1
    <2> QED
      BY <2>1, <2>2
  <1> HIDE DEF done
  <1>5. b \in [TxIndex -> Nat]
    BY DEF TxType
  <1>6. /\ U \in TxType /\ U.clean = Ix(H) /\ U.nb = b
        /\ U.pending = T.pending /\ U.count = T.count /\ U.busy = T.busy /\ U.addr = T.addr /\ U.dd = T.dd
        /\ U.tail = T.tail /\ U.cur = T.cur /\ U.head = T.head
    <2> HIDE DEF b
    <2> QED
      BY <1>3, <1>5 DEF TxType
  <1>7. \A i \in TxIndex : U.nb[i] = 0 \/ U.nb[i] = T.nb[i]
    BY <1>6
  <1>8. ASSUME NEW p \in H..(D - 1)  PROVE Ix(p) \in TxIndex /\ U.nb[Ix(p)] = T.nb[Ix(p)]
    <2>1. p \in Nat /\ p \in C..(C + NTx - 1) /\ Ix(p) \in TxIndex
      BY <1>1, IxIn
    <2>2. Ix(p) \notin done
      <3>1. ASSUME NEW q \in C..(H - 1), Ix(p) = Ix(q)  PROVE FALSE
        <4>1. q \in C..(C + NTx - 1) /\ p # q
          BY <1>1
        <4> QED
          BY <2>1, <3>1, <4>1, IxApart
      <3> QED
        BY <1>4, <3>1
    <2> QED
      BY <1>6, <2>1, <2>2
  <1> HIDE DEF b, U
  <1>9. ASSUME NEW p \in D..(H + NTx - 1)  PROVE U.addr[Ix(p)] = 0
    <2>1. CASE p < C + NTx
      BY <1>1, <1>6, <2>1 DEF RingAt
    <2>2. CASE ~(p < C + NTx)
      <3>1. p - NTx \in C..(H - 1) /\ p - NTx \in Nat /\ (p - NTx) + NTx = p
        BY <1>1, <2>2
      <3>2. Ix(p) = Ix(p - NTx)
        BY <3>1, IxWrap
      <3>3. T.addr[Ix(p - NTx)] = 0
        BY <3>1 DEF RingAt
      <3> QED
        BY <1>6, <3>2, <3>3
    <2> QED
      BY <2>1, <2>2
  <1>10. RingAt(U, H, H, E, D)
    <2>1. /\ H <= H /\ H <= E /\ E <= D /\ D < H + NTx
          /\ U.clean = Ix(H) /\ U.head = Ix(H) /\ U.tail = Ix(E) /\ U.cur = Ix(D)
      BY <1>1, <1>6 DEF RingAt
    <2>2. \A p \in H..(H - 1) : U.dd[Ix(p)] /\ U.addr[Ix(p)] = 0
      BY <1>1
    <2>3. ASSUME NEW p \in H..(D - 1)
          PROVE  ~U.dd[Ix(p)] /\ U.addr[Ix(p)] # 0 /\ (U.addr[Ix(p)] > 0 => U.nb[Ix(p)] = U.addr[Ix(p)])
      <3>1. ~T.dd[Ix(p)] /\ T.addr[Ix(p)] # 0 /\ (T.addr[Ix(p)] > 0 => T.nb[Ix(p)] = T.addr[Ix(p)])
        BY DEF RingAt
      <3> QED
        BY <1>6, <1>8, <3>1
    <2>4. ASSUME NEW p \in H..(D - 1), NEW q \in H..(D - 1), p < q, H <= q, U.nb[Ix(p)] # 0
          PROVE  U.nb[Ix(p)] < Frame(U.addr[Ix(q)])
      <3>1. p \in C..(D - 1) /\ q \in C..(D - 1)
        BY <1>1
      <3>2. T.nb[Ix(p)] < Frame(T.addr[Ix(q)])
        BY <1>8, <2>4, <3>1 DEF RingAt
      <3> QED
        BY <1>6, <1>8, <3>2
    <2> QED
      BY <1>9, <2>1, <2>2, <2>3, <2>4 DEF RingAt
  <1>11. r.t = U /\ r.live = live \ {T.nb[Ix(p)] : p \in C..(H - 1)}
    BY <1>2, <1>4
  <1> QED
    BY <1>6, <1>7, <1>10, <1>11

(* A frame in the ring: its descriptors follow those of smaller numbers.    *)
LEMMA RingFills ==
  ASSUME NEW T \in TxType, NEW C \in Nat, NEW H \in Nat, NEW E \in Nat, NEW D \in Nat, RingAt(T, C, H, E, D),
         NEW f \in Nat \ {0}, NEW n, n = Parts(f), D + n < C + NTx, NEW U, U = Filled(T, f),
         \A i \in TxIndex : T.nb[i] < f
  PROVE  /\ U \in TxType /\ RingAt(U, C, H, E, D + n) /\ n \in Nat
         /\ U.pending = T.pending /\ U.count = T.count /\ U.busy = T.busy /\ U.tail = T.tail
         /\ \A i \in TxIndex : U.nb[i] \in {0, f, T.nb[i]} /\ U.addr[i] \in {f, -f, T.addr[i]}
  <1> DEFINE slots == {(T.cur + i) % NTx : i \in 0..(n - 1)}
             last == (T.cur + n - 1) % NTx
             d == [i \in TxIndex |-> IF i \in slots THEN FALSE ELSE T.dd[i]]
             b == [i \in TxIndex |-> IF i = last THEN f ELSE IF i \in slots THEN 0 ELSE T.nb[i]]
             a == [i \in TxIndex |-> IF i = last THEN f ELSE IF i \in slots THEN -f ELSE T.addr[i]]
  <1>1. n \in Nat \ {0}
    <2>1. MaxParts \in Nat \ {0} /\ f - 1 \in Nat
      BY NicAssumption
    <2>2. (f - 1) % MaxParts \in 0..(MaxParts - 1)
      BY <2>1, ModIs
    <2> QED
      BY <2>1, <2>2 DEF Parts
  <1>2. C <= H /\ H <= E /\ E <= D /\ D < C + NTx /\ T.clean = Ix(C) /\ T.cur = Ix(D) /\ NTx \in Nat
    BY IxSize DEF RingAt
  <1>3. U = [T EXCEPT !.dd = d, !.nb = b, !.addr = a, !.cur = (T.cur + n) % NTx]
    BY DEF Filled, TxIndex
  <1>4. slots = {Ix(p) : p \in D..(D + n - 1)}
    <2>1. ASSUME NEW k \in 0..(n - 1)  PROVE (T.cur + k) % NTx = Ix(D + k) /\ D + k \in D..(D + n - 1)
      <3>1. k \in Nat
        BY <1>1
      <3> QED
        BY <1>1, <1>2, <3>1, IxAdd
    <2>2. ASSUME NEW p \in D..(D + n - 1)  PROVE p - D \in 0..(n - 1) /\ (T.cur + (p - D)) % NTx = Ix(p)
      <3>1. p - D \in 0..(n - 1) /\ D + (p - D) = p
        BY <1>1
      <3> QED
        BY <2>1, <3>1
    <2> QED
      BY <2>1, <2>2
  <1>5. last = Ix(D + n - 1) /\ (T.cur + n) % NTx = Ix(D + n) /\ Ix(D + n) \in TxIndex
    <2>1. n - 1 \in Nat /\ D + n \in Nat /\ D + (n - 1) = D + n - 1 /\ T.cur + (n - 1) = T.cur + n - 1
      <3>1. T.cur \in TxIndex
        BY DEF TxType
      <3> QED
        BY <1>1, <1>2, <3>1 DEF TxIndex
    <2>2. (T.cur + (n - 1)) % NTx = Ix(D + (n - 1))
      BY <1>2, <2>1, IxAdd
    <2>3. (T.cur + n) % NTx = Ix(D + n)
      BY <1>1, <1>2, IxAdd
    <2> QED
      BY <2>1, <2>2, <2>3, IxIn
  <1> HIDE DEF slots, last
  <1>6. /\ d \in [TxIndex -> BOOLEAN] /\ b \in [TxIndex -> Nat] /\ a \in [TxIndex -> Int]
        /\ \A i \in TxIndex : /\ b[i] = IF i = last THEN f ELSE IF i \in slots THEN 0 ELSE T.nb[i]
                              /\ a[i] = IF i = last THEN f ELSE IF i \in slots THEN -f ELSE T.addr[i]
    <2>1. d \in [TxIndex -> BOOLEAN]
      BY DEF TxType
    <2>2. b \in [TxIndex -> Nat]
      BY DEF TxType
    <2>3. a \in [TxIndex -> Int]
      BY DEF TxType
    <2> QED
      BY <2>1, <2>2, <2>3
  <1>7. \A i \in TxIndex : (i \in slots => ~d[i]) /\ (i \notin slots => d[i] = T.dd[i])
    BY DEF TxType
  <1> HIDE DEF d, b, a
  <1>8. /\ U \in TxType /\ U.dd = d /\ U.nb = b /\ U.addr = a /\ U.cur = Ix(D + n)
        /\ U.pending = T.pending /\ U.count = T.count /\ U.busy = T.busy
        /\ U.tail = T.tail /\ U.clean = T.clean /\ U.head = T.head
    <2>1. U = [T EXCEPT !.dd = d, !.nb = b, !.addr = a, !.cur = Ix(D + n)]
      BY <1>3, <1>5
    <2>2. d \in [TxIndex -> BOOLEAN] /\ b \in [TxIndex -> Nat] /\ a \in [TxIndex -> Int] /\ Ix(D + n) \in TxIndex /\ T \in TxType
      BY <1>5, <1>6
    <2> QED
      BY ONLY <2>1, <2>2 DEF TxType
  <1>9. \A i \in TxIndex : U.nb[i] \in {0, f, T.nb[i]} /\ U.addr[i] \in {f, -f, T.addr[i]}
    BY <1>6, <1>8
  <1>10. ASSUME NEW p \in C..(C + NTx - 1)
         PROVE  /\ p \in Nat /\ Ix(p) \in TxIndex
                /\ Ix(p) \in slots <=> p \in D..(D + n - 1)
                /\ Ix(p) = last <=> p = D + n - 1
    <2>1. p \in Nat /\ Ix(p) \in TxIndex
      BY <1>2, IxIn
    <2>2. ASSUME NEW q \in D..(D + n - 1), Ix(p) = Ix(q)  PROVE p = q
      <3>1. q \in C..(C + NTx - 1)
        BY <1>1, <1>2
      <3> QED
        BY <2>2, <3>1, IxApart
    <2>3. Ix(p) \in slots <=> p \in D..(D + n - 1)
      BY <1>4, <2>2
    <2>4. Ix(p) = last <=> p = D + n - 1
      <3>1. D + n - 1 \in D..(D + n - 1)
        BY <1>1
      <3> QED
        BY <1>5, <2>2, <3>1
    <2> QED
      BY <2>1, <2>3, <2>4
  <1>11. ASSUME NEW p \in C..(C + NTx - 1), p \notin D..(D + n - 1)
         PROVE  U.dd[Ix(p)] = T.dd[Ix(p)] /\ U.nb[Ix(p)] = T.nb[Ix(p)] /\ U.addr[Ix(p)] = T.addr[Ix(p)]
    <2>1. Ix(p) \in TxIndex /\ Ix(p) \notin slots /\ Ix(p) # last
      <3>1. p # D + n - 1
        BY <1>1, <1>11
      <3> QED
        BY <1>10, <1>11, <3>1
    <2> QED
      BY <1>6, <1>7, <1>8, <2>1
  <1>12. ASSUME NEW p \in D..(D + n - 1)
         PROVE  /\ ~U.dd[Ix(p)] /\ U.addr[Ix(p)] \in {f, -f} /\ (U.addr[Ix(p)] = f => U.nb[Ix(p)] = f)
                /\ (p < D + n - 1 => U.nb[Ix(p)] = 0) /\ p \in C..(C + NTx - 1)
    <2>1. p \in C..(C + NTx - 1)
      BY <1>1, <1>2
    <2>2. Ix(p) \in TxIndex /\ Ix(p) \in slots /\ (Ix(p) = last <=> p = D + n - 1)
      BY <1>10, <2>1
    <2>3. f # -f /\ (p < D + n - 1 => p # D + n - 1)
      BY <1>1
    <2> QED
      BY <1>6, <1>7, <1>8, <2>1, <2>2, <2>3
  <1>13. /\ C <= H /\ H <= E /\ E <= D + n /\ D + n < C + NTx
         /\ U.clean = Ix(C) /\ U.head = Ix(H) /\ U.tail = Ix(E) /\ U.cur = Ix(D + n)
    BY <1>1, <1>2, <1>8 DEF RingAt
  <1>14. ASSUME NEW p \in C..(H - 1)  PROVE U.dd[Ix(p)] /\ U.addr[Ix(p)] = 0
    <2>1. p \in C..(C + NTx - 1) /\ p \notin D..(D + n - 1)
      BY <1>1, <1>2
    <2>2. T.dd[Ix(p)] /\ T.addr[Ix(p)] = 0
      BY DEF RingAt
    <2> QED
      BY <1>11, <2>1, <2>2
  <1>15. ASSUME NEW p \in H..(D + n - 1)
         PROVE  ~U.dd[Ix(p)] /\ U.addr[Ix(p)] # 0 /\ (U.addr[Ix(p)] > 0 => U.nb[Ix(p)] = U.addr[Ix(p)])
    <2>1. CASE p < D
      <3>1. p \in C..(C + NTx - 1) /\ p \notin D..(D + n - 1) /\ p \in H..(D - 1)
        BY <1>1, <1>2, <2>1
      <3>2. ~T.dd[Ix(p)] /\ T.addr[Ix(p)] # 0 /\ (T.addr[Ix(p)] > 0 => T.nb[Ix(p)] = T.addr[Ix(p)])
        BY <3>1 DEF RingAt
      <3> QED
        BY <1>11, <3>1, <3>2
    <2>2. CASE ~(p < D)
      <3>1. p \in D..(D + n - 1)
        BY <1>1, <1>2, <2>2
      <3>2. f > 0 /\ ~(-f > 0) /\ f # 0 /\ -f # 0
        OBVIOUS
      <3> QED
        BY <1>12, <3>1, <3>2
    <2> QED
      BY <2>1, <2>2
  <1>16. ASSUME NEW p \in (D + n)..(C + NTx - 1)  PROVE U.addr[Ix(p)] = 0
    <2>1. p \in C..(C + NTx - 1) /\ p \notin D..(D + n - 1) /\ p \in D..(C + NTx - 1)
      BY <1>1, <1>2
    <2> QED
      BY <1>11, <2>1 DEF RingAt
  <1>17. ASSUME NEW p \in C..(D + n - 1), NEW q \in C..(D + n - 1), p < q, H <= q, U.nb[Ix(p)] # 0
         PROVE  U.nb[Ix(p)] < Frame(U.addr[Ix(q)])
    <2>1. CASE q < D
      <3>1. /\ p \in C..(C + NTx - 1) /\ p \notin D..(D + n - 1) /\ p \in C..(D - 1)
            /\ q \in C..(C + NTx - 1) /\ q \notin D..(D + n - 1) /\ q \in C..(D - 1)
        BY <1>1, <1>2, <1>17, <2>1
      <3>2. U.nb[Ix(p)] = T.nb[Ix(p)] /\ U.addr[Ix(q)] = T.addr[Ix(q)]
        BY <1>11, <3>1
      <3>3. T.nb[Ix(p)] < Frame(T.addr[Ix(q)])
        BY <1>17, <3>1, <3>2 DEF RingAt
      <3> QED
        BY <3>2, <3>3
    <2>2. CASE ~(q < D)
      <3>1. q \in D..(D + n - 1) /\ p < D + n - 1
        BY <1>1, <1>2, <1>17, <2>2
      <3>2. Frame(U.addr[Ix(q)]) = f
        <4>1. U.addr[Ix(q)] = f \/ U.addr[Ix(q)] = -f
          BY <1>12, <3>1
        <4> QED
          BY <4>1 DEF Frame
      <3>3. p \notin D..(D + n - 1)
        BY <1>12, <1>17, <3>1
      <3>4. p \in C..(C + NTx - 1) /\ Ix(p) \in TxIndex
        <4>1. p \in C..(C + NTx - 1)
          BY <1>1, <1>2
        <4> QED
          BY <4>1, <1>10
      <3>5. U.nb[Ix(p)] = T.nb[Ix(p)]
        BY <1>11, <3>3, <3>4
      <3> QED
        BY <3>2, <3>4, <3>5
    <2> QED
      BY <2>1, <2>2
  <1>18. RingAt(U, C, H, E, D + n)
    <2> DEFINE M == D + n
    <2>1. M = D + n
      OBVIOUS
    <2>2. M - 1 = D + n - 1
      BY <1>1
    <2>3. /\ C <= H /\ H <= E /\ E <= M /\ M < C + NTx
          /\ U.clean = Ix(C) /\ U.head = Ix(H) /\ U.tail = Ix(E) /\ U.cur = Ix(M)
      BY <1>13
    <2>4. \A p \in C..(H - 1) : U.dd[Ix(p)] /\ U.addr[Ix(p)] = 0
      BY <1>14
    <2>5. \A p \in H..(M - 1) : ~U.dd[Ix(p)] /\ U.addr[Ix(p)] # 0
      BY <1>15, <2>2
    <2>6. \A p \in H..(M - 1) : U.addr[Ix(p)] > 0 => U.nb[Ix(p)] = U.addr[Ix(p)]
      BY <1>15, <2>2
    <2>7. \A p \in M..(C + NTx - 1) : U.addr[Ix(p)] = 0
      BY <1>16
    <2>8. \A p, q \in C..(M - 1) : p < q /\ H <= q /\ U.nb[Ix(p)] # 0 => U.nb[Ix(p)] < Frame(U.addr[Ix(q)])
      BY <1>17, <2>2
    <2> HIDE DEF M
    <2>9. RingAt(U, C, H, E, M)
      BY ONLY <2>3, <2>4, <2>5, <2>6, <2>7, <2>8 DEF RingAt
    <2> QED
      BY <2>1, <2>9
  <1> QED
    BY <1>1, <1>8, <1>9, <1>18

(* Frames in order.                                                         *)
LEMMA OrderSame ==
  ASSUME NEW T, NEW U, NEW cp, NEW cq, NEW log, NEW log2, OrderOK(T, cp, log),
         U.pending = T.pending, U.nb = T.nb, U.addr = T.addr, \A c \in Procs : cq[c].list = cp[c].list,
         log2.wire = log.wire, log2.pushed = log.pushed, log2.live = log.live
  PROVE  OrderOK(U, cq, log2)
  <1>1. \A y : Waits(U, cq, y) <=> Waits(T, cp, y)
    BY DEF Waits
  <1> QED
    BY <1>1 DEF OrderOK

LEMMA TailFacts ==
  ASSUME NEW s \in Seq(Nat), s # <<>>, Rising(s)
  PROVE  /\ Tail(s) \in Seq(Nat) /\ Rising(Tail(s)) /\ Head(s) \in Range(s) /\ Head(s) \in Nat
         /\ \A y \in Range(Tail(s)) : y \in Range(s) /\ Head(s) < y
  <1>1. /\ Tail(s) \in Seq(Nat) /\ Len(s) \in Nat \ {0} /\ Len(Tail(s)) = Len(s) - 1 /\ Head(s) = s[1] /\ DOMAIN s = 1..Len(s)
        /\ DOMAIN Tail(s) = 1..(Len(s) - 1) /\ \A i \in 1..(Len(s) - 1) : Tail(s)[i] = s[i + 1]
    OBVIOUS
  <1>2. Head(s) \in Range(s) /\ Head(s) \in Nat
    BY <1>1 DEF Range
  <1>3. \A i, j \in 1..Len(s) : i < j => s[i] < s[j]
    BY <1>1 DEF Rising
  <1>4. Rising(Tail(s))
    BY <1>1, <1>3 DEF Rising
  <1>5. ASSUME NEW i \in 1..(Len(s) - 1)  PROVE Tail(s)[i] \in Range(s) /\ Head(s) < Tail(s)[i]
    <2>1. i + 1 \in 1..Len(s) /\ 1 \in 1..Len(s) /\ 1 < i + 1
      BY <1>1
    <2> QED
      BY <1>1, <1>3, <2>1 DEF Range
  <1>6. \A y \in Range(Tail(s)) : y \in Range(s) /\ Head(s) < y
    BY <1>1, <1>5 DEF Range
  <1> QED
    BY <1>1, <1>2, <1>4, <1>6

(* A position of the ring for every descriptor that is not sent.            *)
LEMMA UnsentAt ==
  ASSUME NEW T \in TxType, NEW C \in Nat, NEW H \in Nat, NEW E \in Nat, NEW D \in Nat, RingAt(T, C, H, E, D),
         NEW i \in TxIndex, T.addr[i] # 0
  PROVE  \E q \in H..(D - 1) : q \in C..(D - 1) /\ Ix(q) = i
  <1>1. NTx \in Nat /\ C <= H /\ H <= D /\ D < C + NTx
    BY IxSize DEF RingAt
  <1>2. PICK q \in C..(C + NTx - 1) : Ix(q) = i
    BY IxOn
  <1>3. q \notin C..(H - 1) /\ q \notin D..(C + NTx - 1)
    BY <1>2 DEF RingAt
  <1>4. q \in H..(D - 1) /\ q \in C..(D - 1)
    BY <1>1, <1>3
  <1> QED
    BY <1>2, <1>4

LEMMA OrderReclaim ==
  ASSUME NEW T \in TxType, NEW C \in Nat, NEW H \in Nat, NEW E \in Nat, NEW D \in Nat, RingAt(T, C, H, E, D),
         NEW cp \in [Procs -> Cpu], NEW log \in LogType, OrderOK(T, cp, log), NEW r, r = e1000_reclaim_tx(T, log.live),
         NEW log2, log2 = [log EXCEPT !.live = r.live]
  PROVE  OrderOK(r.t, cp, log2) /\ log2 \in LogType
  <1>1. /\ r.t \in TxType /\ r.t.pending = T.pending /\ r.t.addr = T.addr
        /\ \A i \in TxIndex : r.t.nb[i] = 0 \/ r.t.nb[i] = T.nb[i]
        /\ r.live = log.live \ {T.nb[Ix(p)] : p \in C..(H - 1)}
    BY RingReclaim
  <1>2. log2.wire = log.wire /\ log2.pushed = log.pushed /\ log2.live = r.live /\ log2 \in LogType
    BY <1>1 DEF LogType
  <1>3. \A y : Waits(r.t, cp, y) <=> Waits(T, cp, y)
    BY <1>1 DEF Waits
  <1>4. ASSUME NEW p \in C..(H - 1)  PROVE Ix(p) \in TxIndex /\ p \in C..(D - 1)
    <2>1. p \in Nat /\ H <= D
      BY DEF RingAt
    <2> QED
      BY <2>1, IxIn
  <1>5. ASSUME NEW y \in Nat, Waits(T, cp, y)  PROVE y \in r.live
    <2>1. y \in log.live /\ \A i \in TxIndex : T.nb[i] < y
      BY <1>5 DEF OrderOK
    <2>2. ASSUME NEW p \in C..(H - 1)  PROVE y # T.nb[Ix(p)]
      <3>1. T.nb[Ix(p)] < y /\ T.nb[Ix(p)] \in Nat
        BY <1>4, <2>1 DEF TxType
      <3> QED
        BY <3>1
    <2> QED
      BY <1>1, <2>1, <2>2
  <1>6. ASSUME NEW i \in TxIndex, T.addr[i] # 0  PROVE Frame(T.addr[i]) \in r.live
    <2>1. Frame(T.addr[i]) \in log.live
      BY <1>6 DEF OrderOK
    <2>2. PICK q \in H..(D - 1) : q \in C..(D - 1) /\ Ix(q) = i
      BY <1>6, UnsentAt
    <2>3. T.addr[i] \in Int /\ Frame(T.addr[i]) \in Nat /\ Frame(T.addr[i]) # 0
      <3>1. T.addr[i] \in Int
        BY DEF TxType
      <3> QED
        BY <1>6, <3>1 DEF Frame
    <2>4. ASSUME NEW p \in C..(H - 1)  PROVE Frame(T.addr[i]) # T.nb[Ix(p)]
      <3>1. p < q /\ H <= q
        OBVIOUS
      <3>2. T.nb[Ix(p)] # 0 => T.nb[Ix(p)] < Frame(T.addr[i])
        BY <1>4, <2>2, <3>1 DEF RingAt
      <3>3. T.nb[Ix(p)] \in Nat
        BY <1>4 DEF TxType
      <3> QED
        BY <2>3, <3>2, <3>3
    <2> QED
      BY <1>1, <2>1, <2>4
  <1>7. \A i \in TxIndex : r.t.nb[i] <= log.pushed /\ \A y \in Nat : Waits(T, cp, y) => r.t.nb[i] < y
    <2>1. log.pushed \in Nat
      BY DEF LogType
    <2>2. \A i \in TxIndex : T.nb[i] <= log.pushed /\ \A y \in Nat : Waits(T, cp, y) => T.nb[i] < y /\ 0 < y
      BY DEF OrderOK
    <2> QED
      BY <1>1, <2>1, <2>2
  <1> QED
    BY <1>1, <1>2, <1>3, <1>5, <1>6, <1>7 DEF OrderOK

(* The first frame of a list leaves it: into the ring, or dropped.          *)
Shorter(c, cp, cq) ==
  /\ cq[c].list = Tail(cp[c].list)
  /\ \A d \in Procs \ {c} : cq[d].list = cp[d].list /\ cp[d].list = <<>>

Takes(c, cp, cq, T, log, f) ==
  /\ c \in Procs /\ cp \in [Procs -> Cpu] /\ Shorter(c, cp, cq) /\ cp[c].list # <<>> /\ f = Head(cp[c].list)
  /\ T \in TxType /\ log \in LogType /\ OrderOK(T, cp, log)

LEMMA WaitsLess ==
  ASSUME NEW c, NEW cp, NEW cq, NEW T, NEW log, NEW f, Takes(c, cp, cq, T, log, f)
  PROVE  /\ f \in Nat \ {0} /\ Waits(T, cp, f) /\ cq[c].list \in Seq(Nat)
         /\ \A d \in Procs : Rising(cq[d].list) /\ \A x \in Range(cq[d].list) : x \in Range(cp[d].list)
         /\ \A y \in Nat : Waits(T, cq, y) => Waits(T, cp, y) /\ f < y
  <1>0. /\ c \in Procs /\ cp \in [Procs -> Cpu] /\ Shorter(c, cp, cq) /\ cp[c].list # <<>> /\ f = Head(cp[c].list)
        /\ T \in TxType /\ log \in LogType /\ OrderOK(T, cp, log)
    BY DEF Takes
  <1> USE <1>0
  <1>1. cp[c].list \in Seq(Nat) /\ Rising(cp[c].list) /\ cq[c].list = Tail(cp[c].list)
    BY DEF Cpu, OrderOK, Shorter
  <1>2. /\ Tail(cp[c].list) \in Seq(Nat) /\ Rising(Tail(cp[c].list)) /\ f \in Range(cp[c].list) /\ f \in Nat
        /\ \A y \in Range(Tail(cp[c].list)) : y \in Range(cp[c].list) /\ f < y
    BY <1>1, TailFacts
  <1>3. Waits(T, cp, f)
    BY <1>2 DEF Waits
  <1>4. f > 0
    BY <1>2, <1>3 DEF OrderOK
  <1>5. \A d \in Procs : Rising(cq[d].list) /\ \A x \in Range(cq[d].list) : x \in Range(cp[d].list)
    BY <1>1, <1>2 DEF Shorter, OrderOK
  <1>6. ASSUME NEW y \in Nat, Waits(T, cq, y)  PROVE Waits(T, cp, y) /\ f < y
    <2>1. CASE y \in Range(T.pending)
      BY <1>2, <2>1 DEF OrderOK, Waits
    <2>2. ASSUME NEW d \in Procs, y \in Range(cq[d].list)  PROVE Waits(T, cp, y) /\ f < y
      <3>1. y \in Range(cp[d].list)
        BY <1>5, <2>2
      <3>2. d = c
        <4>1. Range(<<>>) = {}
          BY DEF Range
        <4> QED
          BY <3>1, <4>1 DEF Shorter
      <3> QED
        BY <1>1, <1>2, <2>2, <3>1, <3>2 DEF Waits
    <2> QED
      BY <1>6, <2>1, <2>2 DEF Waits
  <1> QED
    BY <1>1, <1>2, <1>3, <1>4, <1>5, <1>6

LEMMA OrderDrop ==
  ASSUME NEW c, NEW cp, NEW cq, NEW T, NEW log, NEW f, Takes(c, cp, cq, T, log, f),
         NEW log2, log2 = [log EXCEPT !.live = log.live \ {f}]
  PROVE  OrderOK(T, cq, log2) /\ log2 \in LogType
  <1>0. T \in TxType /\ log \in LogType /\ OrderOK(T, cp, log)
    BY DEF Takes
  <1> USE <1>0
  <1>1. /\ f \in Nat \ {0} /\ Waits(T, cp, f)
        /\ \A d \in Procs : Rising(cq[d].list) /\ \A x \in Range(cq[d].list) : x \in Range(cp[d].list)
        /\ \A y \in Nat : Waits(T, cq, y) => Waits(T, cp, y) /\ f < y
    BY WaitsLess
  <1>2. log2.wire = log.wire /\ log2.pushed = log.pushed /\ log2.live = log.live \ {f} /\ log2 \in LogType
    BY DEF LogType
  <1>3. ASSUME NEW i \in TxIndex, T.addr[i] # 0  PROVE Frame(T.addr[i]) \in log2.live
    <2>1. Frame(T.addr[i]) < f /\ Frame(T.addr[i]) \in log.live /\ T.addr[i] \in Int /\ Frame(T.addr[i]) \in Int
      BY <1>1, <1>3 DEF OrderOK, TxType, Frame
    <2> QED
      BY <1>1, <1>2, <2>1
  <1>4. ASSUME NEW y \in Nat, Waits(T, cq, y)  PROVE y > 0 /\ y <= log.pushed /\ y \in log2.live
    <2>1. Waits(T, cp, y) /\ f < y
      BY <1>1, <1>4
    <2> QED
      BY <1>1, <1>2, <2>1 DEF OrderOK
  <1> QED
    BY <1>1, <1>2, <1>3, <1>4 DEF OrderOK

LEMMA OrderFill ==
  ASSUME NEW c, NEW cp, NEW cq, NEW T, NEW log, NEW f, Takes(c, cp, cq, T, log, f),
         NEW U \in TxType, U.pending = T.pending,
         \A i \in TxIndex : U.nb[i] \in {0, f, T.nb[i]} /\ U.addr[i] \in {f, -f, T.addr[i]}
  PROVE  OrderOK(U, cq, log)
  <1>0. T \in TxType /\ log \in LogType /\ OrderOK(T, cp, log)
    BY DEF Takes
  <1> USE <1>0
  <1>1. /\ f \in Nat \ {0} /\ Waits(T, cp, f)
        /\ \A d \in Procs : Rising(cq[d].list) /\ \A x \in Range(cq[d].list) : x \in Range(cp[d].list)
        /\ \A y \in Nat : Waits(T, cq, y) => Waits(T, cp, y) /\ f < y
    BY WaitsLess
  <1>2. \A y : Waits(U, cq, y) <=> Waits(T, cq, y)
    BY DEF Waits
  <1>3. f <= log.pushed /\ f \in log.live /\ log.pushed \in Nat /\ (\A x \in Range(log.wire) : x \in Nat /\ x < f)
    <2>1. f <= log.pushed /\ f \in log.live /\ log.pushed \in Nat
      BY <1>1 DEF OrderOK, LogType
    <2>2. log.wire \in Seq(Nat)
      BY DEF LogType
    <2>3. \A x \in Range(log.wire) : x \in Nat
      BY <2>2 DEF Range
    <2> QED
      BY <1>1, <2>1, <2>3 DEF OrderOK
  <1>4. Frame(f) = f /\ Frame(-f) = f /\ -f < 0 /\ ~(-f > 0)
    BY <1>1 DEF Frame
  <1>5. ASSUME NEW i \in TxIndex
        PROVE  /\ U.nb[i] <= log.pushed /\ Frame(U.addr[i]) <= log.pushed
               /\ U.addr[i] # 0 => Frame(U.addr[i]) \in log.live
               /\ \A x \in Range(log.wire) : U.addr[i] > 0 => x < U.addr[i]
               /\ \A y \in Nat : Waits(T, cq, y) => U.nb[i] < y /\ Frame(U.addr[i]) < y
    <2>1. U.nb[i] <= log.pushed /\ \A y \in Nat : Waits(T, cq, y) => U.nb[i] < y
      <3>1. T.nb[i] <= log.pushed /\ \A y \in Nat : Waits(T, cp, y) => T.nb[i] < y /\ y > 0
        BY DEF OrderOK
      <3> QED
        BY <1>1, <1>3, <3>1
    <2>2. CASE U.addr[i] = T.addr[i]
      BY <1>1, <2>1, <2>2 DEF OrderOK
    <2>3. CASE U.addr[i] \in {f, -f}
      BY <1>1, <1>3, <1>4, <2>1, <2>3
    <2> QED
      BY <2>2, <2>3
  <1> QED
    BY <1>1, <1>2, <1>5 DEF OrderOK

(* A frame is pushed; the list is taken over, oldest first.                 *)
Pushes(cp, cq, T, U, log, log2, f) ==
  /\ cp \in [Procs -> Cpu] /\ T \in TxType /\ log \in LogType /\ OrderOK(T, cp, log) /\ f = log.pushed + 1
  /\ \A d \in Procs : cq[d].list = cp[d].list
  /\ U.pending = <<f>> \o T.pending /\ U.nb = T.nb /\ U.addr = T.addr
  /\ log2 = [log EXCEPT !.pushed = f, !.live = log.live \cup {f}]

LEMMA OrderPush ==
  ASSUME NEW cp, NEW cq, NEW T, NEW U, NEW log, NEW log2, NEW f, Pushes(cp, cq, T, U, log, log2, f)
  PROVE  OrderOK(U, cq, log2) /\ log2 \in LogType
  <1>0. /\ cp \in [Procs -> Cpu] /\ T \in TxType /\ log \in LogType /\ OrderOK(T, cp, log) /\ f = log.pushed + 1
        /\ \A d \in Procs : cq[d].list = cp[d].list
        /\ U.pending = <<f>> \o T.pending /\ U.nb = T.nb /\ U.addr = T.addr
        /\ log2 = [log EXCEPT !.pushed = f, !.live = log.live \cup {f}]
    BY DEF Pushes
  <1> USE <1>0
  <1>1. log.pushed \in Nat /\ f \in Nat /\ T.pending \in Seq(Nat) /\ log.wire \in Seq(Nat) /\ T.nb \in [TxIndex -> Nat] /\ T.addr \in [TxIndex -> Int]
    <2>1. log.pushed \in Nat /\ log.wire \in Seq(Nat)
      BY DEF LogType
    <2>2. T.pending \in Seq(Nat) /\ T.nb \in [TxIndex -> Nat] /\ T.addr \in [TxIndex -> Int]
      BY DEF TxType
    <2> QED
      BY <2>1, <2>2
  <1>2. log2.wire = log.wire /\ log2.pushed = f /\ log2.live = log.live \cup {f} /\ log2 \in LogType
    BY <1>1 DEF LogType
  <1>3. /\ DOMAIN T.pending = 1..Len(T.pending) /\ Len(T.pending) \in Nat /\ DOMAIN U.pending = 1..(Len(T.pending) + 1)
        /\ U.pending[1] = f /\ \A i \in 2..(Len(T.pending) + 1) : U.pending[i] = T.pending[i - 1] /\ i - 1 \in 1..Len(T.pending)
    BY <1>1
  <1>4. Range(U.pending) = Range(T.pending) \cup {f}
    <2>1. ASSUME NEW i \in 1..Len(T.pending)  PROVE i + 1 \in DOMAIN U.pending /\ U.pending[i + 1] = T.pending[i]
      BY <1>3
    <2>2. 1 \in DOMAIN U.pending
      BY <1>3
    <2>3. ASSUME NEW i \in DOMAIN U.pending  PROVE U.pending[i] \in Range(T.pending) \cup {f}
      BY <1>3 DEF Range
    <2> QED
      BY <1>3, <2>1, <2>2, <2>3 DEF Range
  <1>5. \A y : Waits(U, cq, y) <=> Waits(T, cp, y) \/ y = f
    BY <1>4 DEF Waits
  <1>6. \A y \in Nat : Waits(T, cp, y) => y < f
    BY <1>1 DEF OrderOK
  <1>7. \A y \in Range(T.pending) : y \in Nat /\ Waits(T, cp, y)
    BY <1>1 DEF Waits, Range
  <1>8. ASSUME NEW d \in Procs, NEW y \in Range(cp[d].list)  PROVE y \in Nat /\ Waits(T, cp, y)
    <2>1. cp[d].list \in Seq(Nat)
      BY DEF Cpu
    <2>2. y \in Nat
      BY <2>1 DEF Range
    <2> QED
      BY <2>2 DEF Waits
  <1>9. Falling(U.pending)
    <2>1. ASSUME NEW i \in DOMAIN U.pending, NEW j \in DOMAIN U.pending, i < j  PROVE U.pending[j] < U.pending[i]
      <3>1. j \in 2..(Len(T.pending) + 1) /\ U.pending[j] = T.pending[j - 1] /\ j - 1 \in DOMAIN T.pending
        BY <1>3, <2>1
      <3>2. CASE i = 1
        <4>1. T.pending[j - 1] \in Range(T.pending)
          BY <3>1 DEF Range
        <4> QED
          BY <1>3, <1>6, <1>7, <3>1, <3>2, <4>1
      <3>3. CASE i # 1
        <4>1. U.pending[i] = T.pending[i - 1] /\ i - 1 \in DOMAIN T.pending /\ i - 1 < j - 1
          BY <1>3, <2>1, <3>3
        <4> QED
          BY <3>1, <4>1 DEF OrderOK, Falling
      <3> QED
        BY <3>2, <3>3
    <2> QED
      BY <2>1 DEF Falling
  <1>10. \A x \in Range(log.wire) : x \in Nat /\ x < f
    <2>1. \A x \in Range(log.wire) : x \in Nat
      BY <1>1 DEF Range
    <2> QED
      BY <1>1, <2>1 DEF OrderOK
  <1>11. \A i \in TxIndex : T.nb[i] < f /\ Frame(T.addr[i]) < f /\ Frame(T.addr[i]) \in Int
    BY <1>1 DEF OrderOK, Frame
  <1>12. ASSUME NEW d \in Procs, NEW x \in Range(cq[d].list), NEW y \in Range(U.pending)  PROVE x < y
    <2>1. x \in Range(cp[d].list)
      OBVIOUS
    <2>2. CASE y = f
      BY <1>6, <1>8, <2>1, <2>2
    <2>3. CASE y \in Range(T.pending)
      BY <2>1, <2>3 DEF OrderOK
    <2> QED
      BY <1>4, <2>2, <2>3
  <1>13. ASSUME NEW y \in Nat, Waits(U, cq, y)
         PROVE  /\ y > 0 /\ y <= f /\ y \in log2.live /\ (\A x \in Range(log.wire) : x < y)
                /\ \A i \in TxIndex : T.nb[i] < y /\ Frame(T.addr[i]) < y
    <2>1. CASE y = f
      BY <1>1, <1>2, <1>10, <1>11, <2>1
    <2>2. CASE Waits(T, cp, y)
      <3>1. /\ y > 0 /\ y <= log.pushed /\ y \in log.live
            /\ \A i \in TxIndex : T.nb[i] < y /\ Frame(T.addr[i]) < y
        BY <2>2 DEF OrderOK
      <3>2. \A x \in Range(log.wire) : x < y
        BY <1>10, <2>2 DEF OrderOK
      <3> QED
        BY <1>1, <1>2, <3>1, <3>2
    <2> QED
      BY <1>5, <1>13, <2>1, <2>2
  <1>14. /\ \A i \in TxIndex : T.nb[i] <= f /\ Frame(T.addr[i]) <= f
         /\ \A x \in Range(log.wire) : x <= f
    BY <1>1, <1>10, <1>11
  <1> QED
    BY <1>2, <1>9, <1>12, <1>13, <1>14 DEF OrderOK

LEMMA OrderTakes ==
  ASSUME NEW T \in TxType, NEW c \in Procs, NEW cp \in [Procs -> Cpu], NEW cq, cq[c].list = Oldest(T.pending),
         \A d \in Procs : cp[d].list = <<>> /\ (d # c => cq[d].list = <<>>), NEW log, OrderOK(T, cp, log), NEW U, U.pending = <<>>, U.nb = T.nb, U.addr = T.addr
  PROVE  OrderOK(U, cq, log) /\ Oldest(T.pending) \in Seq(Nat)
  <1> DEFINE s == T.pending  r == Oldest(T.pending)  n == Len(T.pending)
  <1>1. s \in Seq(Nat) /\ n \in Nat /\ DOMAIN s = 1..n
    BY DEF TxType
  <1>2. r = [i \in 1..n |-> s[(n - i) + 1]]
    BY DEF Oldest, Reverse
  <1>3. \A i \in 1..n : (n - i) + 1 \in 1..n /\ s[i] \in Nat
    BY <1>1
  <1> HIDE DEF s, r, n
  <1>4. r \in Seq(Nat) /\ DOMAIN r = 1..n /\ \A i \in 1..n : r[i] = s[(n - i) + 1]
    BY <1>1, <1>2, <1>3
  <1>5. Range(r) = Range(s)
    <2>1. ASSUME NEW i \in 1..n  PROVE s[i] \in Range(r) /\ r[i] \in Range(s)
      <3>1. (n - i) + 1 \in 1..n /\ (n - ((n - i) + 1)) + 1 = i
        BY <1>1
      <3>2. r[(n - i) + 1] = s[i]
        BY <1>4, <3>1
      <3> QED
        BY <1>1, <1>4, <3>1, <3>2 DEF Range
    <2> QED
      BY <1>1, <1>4, <2>1 DEF Range
  <1>6. Rising(r)
    <2>1. ASSUME NEW i \in 1..n, NEW j \in 1..n, i < j  PROVE r[i] < r[j]
      <3>1. (n - i) + 1 \in 1..n /\ (n - j) + 1 \in 1..n /\ (n - j) + 1 < (n - i) + 1
        BY <1>1, <2>1
      <3>2. s[(n - i) + 1] < s[(n - j) + 1]
        BY <1>1, <3>1 DEF OrderOK, Falling, s
      <3> QED
        BY <1>4, <3>2
    <2> QED
      BY <1>4, <2>1 DEF Rising
  <1>7. Range(<<>>) = {} /\ Falling(<<>>) /\ Rising(<<>>)
    BY DEF Range, Falling, Rising
  <1>8. \A y : Waits(U, cq, y) <=> Waits(T, cp, y)
    <2>1. \A y : Waits(U, cq, y) <=> y \in Range(r)
      BY <1>7 DEF Waits, r
    <2>2. \A y : Waits(T, cp, y) <=> y \in Range(s)
      BY <1>7 DEF Waits, s
    <2> QED
      BY <1>5, <2>1, <2>2
  <1>9. \A d \in Procs : Rising(cq[d].list)
    BY <1>6, <1>7 DEF r
  <1>10. OrderOK(U, cq, log)
    BY <1>7, <1>8, <1>9 DEF OrderOK
  <1> QED
    BY <1>4, <1>10 DEF r

OnWire(T, U, cp, log, log2) ==
  /\ T \in TxType /\ cp \in [Procs -> Cpu] /\ log \in LogType /\ OrderOK(T, cp, log)
  /\ U.pending = T.pending /\ U.nb = T.nb /\ U.addr = [T.addr EXCEPT ![T.head] = 0]
  /\ log2 = [log EXCEPT !.wire = IF T.addr[T.head] > 0 THEN Append(log.wire, T.addr[T.head]) ELSE log.wire]

LEMMA OrderSends ==
  ASSUME NEW T, NEW U, NEW cp, NEW log, NEW log2, OnWire(T, U, cp, log, log2),
         NEW C \in Nat, NEW H \in Nat, NEW E \in Nat, NEW D \in Nat, RingAt(T, C, H, E, D), H < D, T.head = Ix(H)
  PROVE  OrderOK(U, cp, log2) /\ log2 \in LogType
  <1>0. /\ T \in TxType /\ cp \in [Procs -> Cpu] /\ log \in LogType /\ OrderOK(T, cp, log)
        /\ U.pending = T.pending /\ U.nb = T.nb /\ U.addr = [T.addr EXCEPT ![T.head] = 0]
        /\ log2 = [log EXCEPT !.wire = IF T.addr[T.head] > 0 THEN Append(log.wire, T.addr[T.head]) ELSE log.wire]
    BY DEF OnWire
  <1> USE <1>0
  <1> DEFINE a == T.addr[T.head]  w == log.wire
  <1>1. T.head \in TxIndex /\ T.addr \in [TxIndex -> Int] /\ a \in Int /\ T.nb \in [TxIndex -> Nat]
    BY DEF TxType
  <1>2. w \in Seq(Nat) /\ log.pushed \in Nat /\ \A x \in Range(w) : x \in Nat
    <2>1. w \in Seq(Nat) /\ log.pushed \in Nat
      BY DEF LogType
    <2> QED
      BY <2>1 DEF Range
  <1>3. \A y : Waits(U, cp, y) <=> Waits(T, cp, y)
    BY DEF Waits
  <1>4. /\ \A i \in TxIndex : U.addr[i] = 0 \/ U.addr[i] = T.addr[i]
        /\ U.addr[T.head] = 0
    BY <1>1
  <1>5. Frame(0) = 0
    BY DEF Frame
  <1>6. ASSUME NEW i \in TxIndex  PROVE Frame(U.addr[i]) <= log.pushed /\ (U.addr[i] # 0 => Frame(U.addr[i]) \in log.live)
    <2>1. Frame(T.addr[i]) <= log.pushed /\ (T.addr[i] # 0 => Frame(T.addr[i]) \in log.live)
      BY DEF OrderOK
    <2> QED
      BY <1>2, <1>4, <1>5, <2>1
  <1>7. ASSUME NEW i \in TxIndex, NEW y \in Nat, Waits(T, cp, y)  PROVE Frame(U.addr[i]) < y
    <2>1. Frame(T.addr[i]) < y /\ y > 0
      BY <1>7 DEF OrderOK
    <2> QED
      BY <1>4, <1>5, <2>1
  <1>8. ASSUME NEW x \in Range(w), NEW i \in TxIndex, U.addr[i] > 0  PROVE x < U.addr[i]
    <2>1. U.addr[i] = T.addr[i]
      BY <1>4, <1>8
    <2> QED
      BY <1>8, <2>1 DEF OrderOK
  <1>9. ASSUME a > 0, NEW i \in TxIndex, U.addr[i] > 0  PROVE a < U.addr[i]
    <2>1. U.addr[i] = T.addr[i] /\ i # T.head /\ T.addr[i] # 0 /\ T.addr[i] \in Int
      BY <1>1, <1>4, <1>9
    <2>2. PICK q \in H..(D - 1) : q \in C..(D - 1) /\ Ix(q) = i
      BY <2>1, UnsentAt
    <2>3. H < q /\ H \in C..(D - 1) /\ H \in H..(D - 1)
      BY <2>1, <2>2 DEF RingAt
    <2>4. T.nb[Ix(H)] = a
      BY <1>9, <2>3 DEF RingAt
    <2>5. a # 0 /\ H <= q
      BY <1>1, <1>9, <2>3
    <2>6. a < Frame(T.addr[i])
      BY <2>2, <2>3, <2>4, <2>5 DEF RingAt
    <2> QED
      BY <1>9, <2>1, <2>6 DEF Frame
  <1>10. CASE a > 0
    <2>1. log2 = [log EXCEPT !.wire = Append(w, a)]
      BY <1>10
    <2>2. a \in Nat /\ Append(w, a) \in Seq(Nat) /\ Frame(a) = a
      BY <1>1, <1>2, <1>10 DEF Frame
    <2>3. \A x \in Range(w) : x < a
      BY <1>1, <1>10 DEF OrderOK
    <2> HIDE DEF w, a
    <2>4. log2 \in LogType /\ log2.wire = Append(w, a) /\ log2.pushed = log.pushed /\ log2.live = log.live
      BY <2>1, <2>2 DEF LogType
    <2>5. /\ DOMAIN Append(w, a) = 1..(Len(w) + 1) /\ DOMAIN w = 1..Len(w) /\ Len(w) \in Nat /\ Append(w, a)[Len(w) + 1] = a
          /\ \A i \in 1..Len(w) : Append(w, a)[i] = w[i]
      BY <1>2, <2>2
    <2>6. Range(Append(w, a)) = Range(w) \cup {a}
      BY <2>5 DEF Range
    <2>7. Rising(Append(w, a))
      <3>1. ASSUME NEW i \in 1..(Len(w) + 1), NEW j \in 1..(Len(w) + 1), i < j  PROVE Append(w, a)[i] < Append(w, a)[j]
        <4>1. i \in 1..Len(w) /\ Append(w, a)[i] = w[i] /\ w[i] \in Range(w)
          BY <2>5, <3>1 DEF Range
        <4>2. CASE j = Len(w) + 1
          BY <2>3, <2>5, <4>1, <4>2
        <4>3. CASE j # Len(w) + 1
          <5>1. j \in 1..Len(w)
            BY <2>5, <4>3
          <5> QED
            BY <2>5, <3>1, <4>1, <5>1 DEF OrderOK, Rising, w
        <4> QED
          BY <4>2, <4>3
      <3> QED
        BY <2>5, <3>1 DEF Rising
    <2>8. a <= log.pushed /\ \A y \in Nat : Waits(T, cp, y) => a < y
      BY <1>1, <2>2 DEF OrderOK, a
    <2>9. \A x \in Range(log2.wire) : x <= log2.pushed /\ \A i \in TxIndex : U.addr[i] > 0 => x < U.addr[i]
      BY <1>8, <1>9, <1>10, <2>4, <2>6, <2>8 DEF OrderOK, w
    <2>10. \A x, y \in Nat : x \in Range(log2.wire) /\ Waits(U, cp, y) => x < y
      BY <1>3, <2>4, <2>6, <2>8 DEF OrderOK, w
    <2> QED
      BY <1>3, <1>6, <1>7, <2>4, <2>7, <2>9, <2>10 DEF OrderOK
  <1>11. CASE ~(a > 0)
    <2>1. log2 \in LogType /\ log2.wire = w /\ log2.pushed = log.pushed /\ log2.live = log.live
      BY <1>11 DEF LogType
    <2>2. \A x \in Range(log2.wire) : x <= log2.pushed /\ \A i \in TxIndex : U.addr[i] > 0 => x < U.addr[i]
      BY <1>8, <2>1 DEF OrderOK
    <2> QED
      BY <1>3, <1>6, <1>7, <2>1, <2>2 DEF OrderOK
  <1> QED
    BY <1>10, <1>11

(* The receive ring.                                                        *)
LEMMA RangeNat == ASSUME NEW s \in Seq(Nat), NEW x \in Range(s)  PROVE x \in Nat
  BY DEF Range

LEMMA AppendLast ==
  ASSUME NEW h \in Seq(Nat), NEW q \in Seq(Nat), NEW z \in Nat
  PROVE  h \o Append(q, z) = Append(h \o q, z)
  <1> DEFINE l == h \o Append(q, z)  r == Append(h \o q, z)
  <1>1. Len(h) \in Nat /\ Len(q) \in Nat /\ Append(q, z) \in Seq(Nat) /\ Len(Append(q, z)) = Len(q) + 1 /\ h \o q \in Seq(Nat) /\ Len(h \o q) = Len(h) + Len(q)
    OBVIOUS
  <1>2. l \in Seq(Nat) /\ r \in Seq(Nat) /\ Len(l) = Len(h) + Len(q) + 1 /\ Len(r) = Len(h) + Len(q) + 1
    BY <1>1
  <1>3. ASSUME NEW i \in 1..(Len(h) + Len(q) + 1)  PROVE l[i] = r[i]
    <2>1. CASE i <= Len(h)
      BY <1>1, <2>1
    <2>2. CASE i > Len(h) /\ i <= Len(h) + Len(q)
      BY <1>1, <2>2
    <2>3. CASE i = Len(h) + Len(q) + 1
      BY <1>1, <2>3
    <2> QED
      BY <1>1, <2>1, <2>2, <2>3
  <1> QED
    BY <1>2, <1>3, SeqEqual

LEMMA RxSameAt ==
  ASSUME NEW R, NEW R2, NEW q, NEW log, NEW log2, NEW C \in Nat, NEW H \in Nat, NEW E \in Nat, RxAt(R, q, log, C, H, E),
         R2.dd = R.dd, R2.pkt = R.pkt, R2.cur = R.cur, R2.head = R.head, R2.tail = R.tail,
         log2.handed = log.handed, log2.arrived = log.arrived
  PROVE  RxAt(R2, q, log2, C, H, E)
  BY DEF RxAt

LEMMA RxArrives ==
  ASSUME NEW R \in RxType, NEW q, NEW log \in LogType, NEW C \in Nat, NEW H \in Nat, NEW E \in Nat, RxAt(R, q, log, C, H, E),
         q \in Seq(Nat), NEW log2, log2 = [log EXCEPT !.arrived = log.arrived + 1]
  PROVE  RxAt(R, q, log2, C, H, E) /\ log2 \in LogType /\ log2.handed = log.handed
  <1>1. log2.handed = log.handed /\ log2.arrived = log.arrived + 1 /\ log2 \in LogType /\ log.arrived \in Nat /\ log.handed \in Seq(Nat)
    <2>1. log.arrived \in Nat /\ log.handed \in Seq(Nat) /\ log.arrived + 1 \in Nat
      BY DEF LogType
    <2> QED
      BY <2>1 DEF LogType
  <1>2. C <= H /\ NRx \in Nat /\ H < C + NRx
    BY JxSize DEF RxAt
  <1>3. \A p \in C..(H - 1) : R.pkt[Jx(p)] <= log.arrived /\ R.pkt[Jx(p)] \in Nat
    <2>1. \A p \in C..(H - 1) : R.pkt[Jx(p)] <= log.arrived /\ p \in Nat
      BY DEF RxAt
    <2>2. R.pkt \in [RxIndex -> Nat]
      BY DEF RxType
    <2> QED
      BY <2>1, <2>2, JxIn
  <1>4. \A x \in Range(log.handed \o q) : x <= log.arrived /\ x \in Nat
    <2>1. log.handed \o q \in Seq(Nat)
      BY <1>1
    <2>2. \A x \in Range(log.handed \o q) : x \in Nat
      BY <2>1 DEF Range
    <2> QED
      BY <2>2 DEF RxAt
  <1>5. /\ \A p \in C..(H - 1) : R.pkt[Jx(p)] <= log2.arrived
        /\ \A x \in Range(log2.handed \o q) : x <= log2.arrived
    BY <1>1, <1>3, <1>4
  <1> QED
    BY <1>1, <1>5 DEF RxAt

Stored(R, q, log, C, H, E, log2, R2) ==
  /\ R \in RxType /\ log \in LogType /\ RxAt(R, q, log, C, H, E) /\ q \in Seq(Nat) /\ R.head # R.tail
  /\ log2 = [log EXCEPT !.arrived = log.arrived + 1]
  /\ R2 = [R EXCEPT !.icr = TRUE, !.dd[R.head] = TRUE, !.pkt[R.head] = log.arrived + 1, !.head = (R.head + 1) % NRx]

LEMMA RxStores ==
  ASSUME NEW R, NEW q, NEW log, NEW C \in Nat, NEW H \in Nat, NEW E \in Nat, NEW log2, NEW R2, Stored(R, q, log, C, H, E, log2, R2)
  PROVE  /\ R2 \in RxType /\ RxAt(R2, q, log2, C, H + 1, E) /\ R2.lock = R.lock
  <1>0. /\ R \in RxType /\ log \in LogType /\ RxAt(R, q, log, C, H, E) /\ q \in Seq(Nat) /\ R.head # R.tail
        /\ log2 = [log EXCEPT !.arrived = log.arrived + 1]
        /\ R2 = [R EXCEPT !.icr = TRUE, !.dd[R.head] = TRUE, !.pkt[R.head] = log.arrived + 1, !.head = (R.head + 1) % NRx]
    BY DEF Stored
  <1> USE <1>0
  <1>1. log2.handed = log.handed /\ log2.arrived = log.arrived + 1 /\ log.arrived \in Nat /\ log.handed \in Seq(Nat)
    BY DEF LogType
  <1>2. C <= H /\ H < E /\ E < C + NRx /\ NRx \in Nat /\ R.head = Jx(H) /\ Jx(H) \in RxIndex
    <2>1. H # E /\ R.head = Jx(H)
      BY DEF RxAt
    <2> QED
      BY <2>1, JxSize, JxIn DEF RxAt
  <1>3. (R.head + 1) % NRx = Jx(H + 1) /\ Jx(H + 1) \in RxIndex
    <2>1. 1 \in Nat /\ H + 1 \in Nat
      OBVIOUS
    <2> QED
      BY <1>2, <2>1, JxAdd, JxIn
  <1> DEFINE d == [R.dd EXCEPT ![R.head] = TRUE]  k == [R.pkt EXCEPT ![R.head] = log.arrived + 1]
  <1>4. R.dd \in [RxIndex -> BOOLEAN] /\ R.pkt \in [RxIndex -> Nat] /\ R.head \in RxIndex
    BY DEF RxType
  <1>5. /\ d \in [RxIndex -> BOOLEAN] /\ k \in [RxIndex -> Nat] /\ d[Jx(H)] /\ k[Jx(H)] = log.arrived + 1
        /\ \A i \in RxIndex : i # Jx(H) => d[i] = R.dd[i] /\ k[i] = R.pkt[i]
    BY <1>1, <1>2, <1>4
  <1>6. R2 = [R EXCEPT !.icr = TRUE, !.dd = d, !.pkt = k, !.head = Jx(H + 1)]
    BY <1>3
  <1> HIDE DEF d, k
  <1>7. /\ R2 \in RxType /\ R2.dd = d /\ R2.pkt = k /\ R2.head = Jx(H + 1) /\ R2.cur = R.cur /\ R2.tail = R.tail /\ R2.lock = R.lock
    <2>1. d \in [RxIndex -> BOOLEAN] /\ k \in [RxIndex -> Nat] /\ Jx(H + 1) \in RxIndex /\ R \in RxType
      BY <1>3, <1>5
    <2> QED
      BY ONLY <1>6, <2>1 DEF RxType
  <1>8. ASSUME NEW p \in C..(C + NRx - 1), p # H
        PROVE  R2.dd[Jx(p)] = R.dd[Jx(p)] /\ R2.pkt[Jx(p)] = R.pkt[Jx(p)]
    <2>1. H \in C..(C + NRx - 1) /\ p \in Nat
      BY <1>2
    <2>2. Jx(p) # Jx(H) /\ Jx(p) \in RxIndex
      BY <1>8, <2>1, JxApart, JxIn
    <2> QED
      BY <1>5, <1>7, <2>2
  <1>9. ASSUME NEW p \in C..(H - 1)
        PROVE  /\ R2.dd[Jx(p)] /\ R2.pkt[Jx(p)] = R.pkt[Jx(p)] /\ R2.pkt[Jx(p)] \in Nat /\ R2.pkt[Jx(p)] <= log.arrived
    <2>1. p \in C..(C + NRx - 1) /\ p # H /\ p \in Nat
      BY <1>2
    <2>2. R.dd[Jx(p)] /\ R.pkt[Jx(p)] <= log.arrived
      BY DEF RxAt
    <2> QED
      BY <1>4, <1>8, <2>1, <2>2, JxIn
  <1>10. R2.dd[Jx(H)] /\ R2.pkt[Jx(H)] = log.arrived + 1
    BY <1>5, <1>7
  <1>11. ASSUME NEW x \in Range(log.handed \o q)  PROVE x \in Nat /\ x <= log.arrived /\ \A p \in C..(H - 1) : x < R.pkt[Jx(p)]
    <2>1. log.handed \o q \in Seq(Nat)
      BY <1>1
    <2>2. x \in Nat
      BY <2>1, RangeNat
    <2> QED
      BY <2>2 DEF RxAt
  <1>12. C..((H + 1) - 1) = C..(H - 1) \cup {H}
    BY <1>2
  <1>13. /\ C <= H + 1 /\ H + 1 <= E /\ E < C + NRx
         /\ R2.cur = Jx(C) /\ R2.head = Jx(H + 1) /\ R2.tail = Jx(E)
    BY <1>2, <1>7 DEF RxAt
  <1>14. ASSUME NEW p \in C..((H + 1) - 1)  PROVE R2.dd[Jx(p)] /\ R2.pkt[Jx(p)] <= log2.arrived
    BY <1>1, <1>9, <1>10, <1>12
  <1>15. ASSUME NEW p \in (H + 1)..(C + NRx - 1)  PROVE ~R2.dd[Jx(p)]
    <2>1. p \in C..(C + NRx - 1) /\ p # H /\ p \in H..(C + NRx - 1)
      BY <1>2
    <2>2. ~R.dd[Jx(p)]
      BY <2>1 DEF RxAt
    <2> QED
      BY <1>8, <2>1, <2>2
  <1>16. ASSUME NEW p \in C..((H + 1) - 1), NEW n \in C..((H + 1) - 1), p < n  PROVE R2.pkt[Jx(p)] < R2.pkt[Jx(n)]
    <2>1. p \in C..(H - 1)
      BY <1>2, <1>16
    <2>2. CASE n = H
      BY <1>1, <1>9, <1>10, <2>1, <2>2
    <2>3. CASE n # H
      <3>1. n \in C..(H - 1)
        BY <1>12, <2>3
      <3>2. R.pkt[Jx(p)] < R.pkt[Jx(n)]
        BY <1>16, <2>1, <3>1 DEF RxAt
      <3> QED
        BY <1>9, <2>1, <3>1, <3>2
    <2> QED
      BY <2>2, <2>3
  <1>17. ASSUME NEW x \in Range(log2.handed \o q)
         PROVE  x <= log2.arrived /\ \A p \in C..((H + 1) - 1) : x < R2.pkt[Jx(p)]
    <2>1. x \in Nat /\ x <= log.arrived /\ \A p \in C..(H - 1) : x < R.pkt[Jx(p)]
      BY <1>1, <1>11
    <2> QED
      BY <1>1, <1>9, <1>10, <1>12, <2>1
  <1>18. RxAt(R2, q, log2, C, H + 1, E)
    <2> DEFINE M == H + 1
    <2>1. \A p, n \in C..(M - 1) : p < n => R2.pkt[Jx(p)] < R2.pkt[Jx(n)]
      BY <1>16
    <2>2. /\ C <= M /\ M <= E /\ E < C + NRx /\ R2.cur = Jx(C) /\ R2.head = Jx(M) /\ R2.tail = Jx(E)
          /\ \A p \in C..(M - 1) : R2.dd[Jx(p)] /\ R2.pkt[Jx(p)] <= log2.arrived
          /\ \A p \in M..(C + NRx - 1) : ~R2.dd[Jx(p)]
          /\ \A x \in Range(log2.handed \o q) : x <= log2.arrived /\ \A p \in C..(M - 1) : x < R2.pkt[Jx(p)]
      BY <1>13, <1>14, <1>15, <1>17
    <2> HIDE DEF M
    <2>3. RxAt(R2, q, log2, C, M, E)
      BY ONLY <2>1, <2>2 DEF RxAt
    <2> QED
      BY <2>3 DEF M
  <1> QED
    BY <1>7, <1>18

(* The driver takes the next packet; q2: the queue, with the packet or not. *)
Took(R, q, log, C, H, E, R2, q2) ==
  /\ R \in RxType /\ log \in LogType /\ RxAt(R, q, log, C, H, E) /\ q \in Seq(Nat) /\ Rising(log.handed \o q) /\ R.dd[R.cur]
  /\ R2 = [R EXCEPT !.dd = Clears(R.dd, R.cur), !.cur = (R.cur + 1) % NRx]
  /\ q2 = q \/ q2 = Append(q, R.pkt[R.cur])

LEMMA RxTaken ==
  ASSUME NEW R, NEW q, NEW log, NEW C \in Nat, NEW H \in Nat, NEW E \in Nat, NEW R2, NEW q2, Took(R, q, log, C, H, E, R2, q2)
  PROVE  /\ R2 \in RxType /\ RxAt(R2, q2, log, C + 1, H, E) /\ Rising(log.handed \o q2) /\ q2 \in Seq(Nat) /\ R2.lock = R.lock
         /\ R.cur = Jx((C + 1) + NRx - 1)
  <1>0. /\ R \in RxType /\ log \in LogType /\ RxAt(R, q, log, C, H, E) /\ q \in Seq(Nat) /\ Rising(log.handed \o q) /\ R.dd[R.cur]
        /\ R2 = [R EXCEPT !.dd = Clears(R.dd, R.cur), !.cur = (R.cur + 1) % NRx]
        /\ q2 = q \/ q2 = Append(q, R.pkt[R.cur])
    BY DEF Took
  <1> USE <1>0
  <1>1. /\ R.cur = Jx(C) /\ Jx(C) \in RxIndex /\ C <= H /\ H <= E /\ E < C + NRx /\ NRx \in Nat /\ NRx > 1
        /\ R.dd \in [RxIndex -> BOOLEAN] /\ R.pkt \in [RxIndex -> Nat]
    <2>1. R.dd \in [RxIndex -> BOOLEAN] /\ R.pkt \in [RxIndex -> Nat]
      BY DEF RxType
    <2> QED
      BY <2>1, JxSize, JxIn DEF RxAt
  <1>2. C < H
    <2>1. ASSUME C = H  PROVE FALSE
      <3>1. C \in H..(C + NRx - 1)
        BY <1>1, <2>1
      <3> QED
        BY <1>1, <3>1 DEF RxAt
    <2> QED
      BY <1>1, <2>1
  <1>3. (R.cur + 1) % NRx = Jx(C + 1) /\ Jx(C + 1) \in RxIndex /\ Jx(C + NRx) = Jx(C) /\ C + NRx = (C + 1) + NRx - 1
    <2>1. 1 \in Nat /\ C + 1 \in Nat
      OBVIOUS
    <2>2. C + NRx = (C + 1) + NRx - 1
      BY <1>1
    <2> QED
      BY <1>1, <2>1, <2>2, JxAdd, JxIn, JxWrap
  <1> DEFINE d == [R.dd EXCEPT ![R.cur] = FALSE]  s == log.handed \o q  z == R.pkt[R.cur]
  <1>4. /\ d \in [RxIndex -> BOOLEAN] /\ ~d[Jx(C)] /\ \A i \in RxIndex : i # Jx(C) => d[i] = R.dd[i]
    BY <1>1
  <1>5. R2 = [R EXCEPT !.dd = d, !.cur = Jx(C + 1)]
    BY <1>3 DEF Clears
  <1>6. log.handed \in Seq(Nat) /\ s \in Seq(Nat) /\ z \in Nat
    <2>1. log.handed \in Seq(Nat)
      BY DEF LogType
    <2> QED
      BY <1>1, <2>1
  <1>7. /\ z <= log.arrived /\ (\A x \in Range(s) : x \in Nat /\ x <= log.arrived /\ x < z)
        /\ \A p \in (C + 1)..(H - 1) : z < R.pkt[Jx(p)] /\ \A x \in Range(s) : x < R.pkt[Jx(p)]
    <2>1. C \in C..(H - 1)
      BY <1>2
    <2>2. z = R.pkt[Jx(C)]
      BY <1>1
    <2>3. \A x \in Range(s) : x \in Nat
      BY <1>6 DEF Range
    <2>4. ASSUME NEW p \in (C + 1)..(H - 1)  PROVE p \in C..(H - 1) /\ C < p
      OBVIOUS
    <2> HIDE DEF z
    <2>5. z <= log.arrived /\ (\A x \in Range(s) : x <= log.arrived /\ x < z)
      BY <2>1, <2>2 DEF RxAt
    <2>6. \A p \in (C + 1)..(H - 1) : z < R.pkt[Jx(p)] /\ \A x \in Range(s) : x < R.pkt[Jx(p)]
      BY <2>1, <2>2, <2>4 DEF RxAt
    <2> QED
      BY <2>3, <2>5, <2>6
  <1>8. q2 \in Seq(Nat) /\ (log.handed \o q2 = s \/ log.handed \o q2 = Append(s, z))
    <2>1. CASE q2 = q
      BY <2>1
    <2>2. CASE q2 = Append(q, z)
      <3>1. log.handed \o Append(q, z) = Append(log.handed \o q, z)
        BY <1>6, AppendLast
      <3> QED
        BY <1>6, <2>2, <3>1
    <2> QED
      BY <2>1, <2>2
  <1>9. Rising(s)
    OBVIOUS
  <1> HIDE DEF d, s, z
  <1>10. R2 \in RxType /\ R2.dd = d /\ R2.cur = Jx(C + 1) /\ R2.pkt = R.pkt /\ R2.head = R.head /\ R2.tail = R.tail /\ R2.lock = R.lock
    BY <1>3, <1>4, <1>5 DEF RxType
  <1>11. /\ Range(log.handed \o q2) \subseteq Range(s) \cup {z}
         /\ Rising(log.handed \o q2)
    <2>1. CASE log.handed \o q2 = s
      BY <1>9, <2>1
    <2>2. CASE log.handed \o q2 = Append(s, z)
      <3>1. /\ DOMAIN Append(s, z) = 1..(Len(s) + 1) /\ DOMAIN s = 1..Len(s) /\ Len(s) \in Nat /\ Append(s, z)[Len(s) + 1] = z
            /\ \A i \in 1..Len(s) : Append(s, z)[i] = s[i]
        BY <1>6
      <3>2. Range(Append(s, z)) \subseteq Range(s) \cup {z}
        BY <3>1 DEF Range
      <3>3. ASSUME NEW i \in 1..(Len(s) + 1), NEW j \in 1..(Len(s) + 1), i < j  PROVE Append(s, z)[i] < Append(s, z)[j]
        <4>1. i \in 1..Len(s) /\ Append(s, z)[i] = s[i] /\ s[i] \in Range(s)
          BY <3>1, <3>3 DEF Range
        <4>2. CASE j = Len(s) + 1
          BY <1>7, <3>1, <4>1, <4>2
        <4>3. CASE j # Len(s) + 1
          <5>1. j \in 1..Len(s)
            BY <3>1, <4>3
          <5> QED
            BY <1>9, <3>1, <3>3, <4>1, <5>1 DEF Rising
        <4> QED
          BY <4>2, <4>3
      <3> QED
        BY <2>2, <3>1, <3>2, <3>3 DEF Rising
    <2> QED
      BY <1>8, <2>1, <2>2
  <1>12. ASSUME NEW p \in (C + 1)..(C + NRx - 1)  PROVE R2.dd[Jx(p)] = R.dd[Jx(p)]
    <2>1. p \in C..(C + NRx - 1) /\ C \in C..(C + NRx - 1) /\ p # C /\ p \in Nat
      BY <1>1
    <2>2. Jx(p) # Jx(C) /\ Jx(p) \in RxIndex
      BY <2>1, JxApart, JxIn
    <2> QED
      BY <1>4, <1>10, <2>2
  <1>13. /\ C + 1 <= H /\ H <= E /\ E < (C + 1) + NRx
         /\ R2.cur = Jx(C + 1) /\ R2.head = Jx(H) /\ R2.tail = Jx(E)
    BY <1>1, <1>2, <1>10 DEF RxAt
  <1>14. ASSUME NEW p \in (C + 1)..(H - 1)  PROVE R2.dd[Jx(p)] /\ R2.pkt[Jx(p)] <= log.arrived
    <2>1. p \in (C + 1)..(C + NRx - 1) /\ p \in C..(H - 1)
      BY <1>1
    <2>2. R.dd[Jx(p)] /\ R.pkt[Jx(p)] <= log.arrived
      BY <2>1 DEF RxAt
    <2> QED
      BY <1>10, <1>12, <2>1, <2>2
  <1>15. ASSUME NEW p \in H..((C + 1) + NRx - 1)  PROVE ~R2.dd[Jx(p)]
    <2>1. CASE p = C + NRx
      BY <1>3, <1>4, <1>10, <2>1
    <2>2. CASE p # C + NRx
      <3>1. p \in (C + 1)..(C + NRx - 1) /\ p \in H..(C + NRx - 1)
        <4>1. C \in Nat /\ H \in Nat /\ NRx \in Nat /\ C < H /\ (C + 1) + NRx - 1 = C + NRx
          BY <1>1, <1>2
        <4>2. p \in H..(C + NRx)
          BY <4>1
        <4> QED
          BY ONLY <2>2, <4>1, <4>2
      <3>2. ~R.dd[Jx(p)]
        BY <3>1 DEF RxAt
      <3> QED
        BY <1>12, <3>1, <3>2
    <2> QED
      BY <2>1, <2>2
  <1>16. \A p, n \in (C + 1)..(H - 1) : p < n => R2.pkt[Jx(p)] < R2.pkt[Jx(n)]
    BY <1>10 DEF RxAt
  <1>17. \A x \in Range(log.handed \o q2) : x <= log.arrived /\ \A p \in (C + 1)..(H - 1) : x < R2.pkt[Jx(p)]
    BY <1>7, <1>10, <1>11
  <1>18. RxAt(R2, q2, log, C + 1, H, E)
    <2> DEFINE M == C + 1
    <2>1. /\ M <= H /\ H <= E /\ E < M + NRx /\ R2.cur = Jx(M) /\ R2.head = Jx(H) /\ R2.tail = Jx(E)
          /\ \A p \in M..(H - 1) : R2.dd[Jx(p)] /\ R2.pkt[Jx(p)] <= log.arrived
          /\ \A p \in H..(M + NRx - 1) : ~R2.dd[Jx(p)]
          /\ \A p, n \in M..(H - 1) : p < n => R2.pkt[Jx(p)] < R2.pkt[Jx(n)]
          /\ \A x \in Range(log.handed \o q2) : x <= log.arrived /\ \A p \in M..(H - 1) : x < R2.pkt[Jx(p)]
      BY <1>13, <1>14, <1>15, <1>16, <1>17
    <2> HIDE DEF M
    <2>2. RxAt(R2, q2, log, M, H, E)
      BY ONLY <2>1 DEF RxAt
    <2> QED
      BY <2>2 DEF M
  <1> QED
    BY <1>1, <1>3, <1>8, <1>10, <1>11, <1>18

(* One packet from the queue to its protocol.                               *)
LEMMA RxHands ==
  ASSUME NEW h \in Seq(Nat), NEW q \in Seq(Nat), q # <<>>
  PROVE  Append(h, Head(q)) \o Tail(q) = h \o q
  <1> DEFINE l == Append(h, Head(q)) \o Tail(q)  r == h \o q
  <1>1. /\ Len(h) \in Nat /\ Len(q) \in Nat \ {0} /\ Len(Tail(q)) = Len(q) - 1 /\ Head(q) = q[1] /\ Head(q) \in Nat /\ Tail(q) \in Seq(Nat)
        /\ Append(h, Head(q)) \in Seq(Nat) /\ Len(Append(h, Head(q))) = Len(h) + 1
    OBVIOUS
  <1>2. l \in Seq(Nat) /\ r \in Seq(Nat) /\ Len(l) = Len(h) + Len(q) /\ Len(r) = Len(h) + Len(q)
    BY <1>1
  <1>3. ASSUME NEW i \in 1..(Len(h) + Len(q))  PROVE l[i] = r[i]
    <2>1. CASE i <= Len(h)
      BY <1>1, <2>1
    <2>2. CASE i = Len(h) + 1
      BY <1>1, <2>2
    <2>3. CASE i > Len(h) + 1
      BY <1>1, <2>3
    <2> QED
      BY <1>1, <2>1, <2>2, <2>3
  <1> QED
    BY <1>2, <1>3, SeqEqual

(* A step of one CPU: what follows for all of them.                         *)
Only(c) == /\ cpus' \in [Procs -> Cpu] /\ netlock' \in Procs \cup {0}
           /\ \A d \in Procs \ {c} : cpus'[d] = cpus[d] /\ (netlock' = d <=> netlock = d)
RingK(k) == k.bell \/ (k.fret = "rung" /\ k.pc # "fin")
HandK(k, mine) == mine /\ k.tret = "rele" /\ k.pc \in {"tx", "f1", "f2", "f3", "f4", "f5", "rele"}
Weight(k, mine) == (IF RingK(k) THEN 1 ELSE 0) + (IF HandK(k, mine) THEN 1 ELSE 0)

LEMMA CountOne ==
  ASSUME NEW c \in Procs, NEW S \in SUBSET Procs, NEW S2 \in SUBSET Procs, \A d \in Procs \ {c} : d \in S <=> d \in S2
  PROVE  /\ Cardinality(S) \in Nat /\ Cardinality(S2) \in Nat
         /\ Cardinality(S2) + (IF c \in S THEN 1 ELSE 0) = Cardinality(S) + (IF c \in S2 THEN 1 ELSE 0)
  <1>1. IsFiniteSet(S) /\ IsFiniteSet(S2)
    BY NicAssumption, FS_Subset
  <1>2. Cardinality(S) \in Nat /\ Cardinality(S2) \in Nat
    BY <1>1, FS_CardinalityType
  <1>3. CASE c \in S <=> c \in S2
    <2>1. S = S2
      BY <1>3
    <2> QED
      BY <1>2, <2>1
  <1>4. CASE c \in S /\ c \notin S2
    <2>1. S2 = S \ {c}
      BY <1>4
    <2>2. Cardinality(S2) = Cardinality(S) - 1
      BY <1>1, <1>4, <2>1, FS_RemoveElement
    <2> QED
      BY <1>2, <1>4, <2>2
  <1>5. CASE c \notin S /\ c \in S2
    <2>1. S = S2 \ {c}
      BY <1>5
    <2>2. Cardinality(S) = Cardinality(S2) - 1
      BY <1>1, <1>5, <2>1, FS_RemoveElement
    <2> QED
      BY <1>2, <1>5, <2>2
  <1> QED
    BY <1>3, <1>4, <1>5

LEMMA RefsMove ==
  ASSUME NEW c \in Procs, NicInv, Only(c), nq' \in Seq(Nat), refs' \in Int,
         refs' = refs + (Len(nq') - Len(nq)) + (Weight(cpus'[c], netlock' = c) - Weight(cpus[c], netlock = c))
  PROVE  RefsBalanced' /\ refs' \in Nat
  <1> DEFINE A == {d \in Procs : RingK(cpus[d])}  A2 == {d \in Procs : RingK(cpus'[d])}
             B == {d \in Procs : HandK(cpus[d], netlock = d)}  B2 == {d \in Procs : HandK(cpus'[d], netlock' = d)}
  <1>1. refs = 1 + Len(nq) + Cardinality(A) + Cardinality(B)
    BY DEF NicInv, RefsBalanced, RingK, Ringing, HandK, Handling
  <1>2. /\ Cardinality(A) \in Nat /\ Cardinality(A2) \in Nat
        /\ Cardinality(A2) + (IF c \in A THEN 1 ELSE 0) = Cardinality(A) + (IF c \in A2 THEN 1 ELSE 0)
    <2>1. \A d \in Procs \ {c} : d \in A <=> d \in A2
      BY DEF Only
    <2> HIDE DEF A, A2
    <2>2. A \in SUBSET Procs /\ A2 \in SUBSET Procs
      BY DEF A, A2
    <2> QED
      BY <2>1, <2>2, CountOne
  <1>3. /\ Cardinality(B) \in Nat /\ Cardinality(B2) \in Nat
        /\ Cardinality(B2) + (IF c \in B THEN 1 ELSE 0) = Cardinality(B) + (IF c \in B2 THEN 1 ELSE 0)
    <2>1. \A d \in Procs \ {c} : d \in B <=> d \in B2
      BY DEF Only, HandK
    <2> HIDE DEF B, B2
    <2>2. B \in SUBSET Procs /\ B2 \in SUBSET Procs
      BY DEF B, B2
    <2> QED
      BY <2>1, <2>2, CountOne
  <1>4. /\ Weight(cpus[c], netlock = c) = (IF c \in A THEN 1 ELSE 0) + (IF c \in B THEN 1 ELSE 0)
        /\ Weight(cpus'[c], netlock' = c) = (IF c \in A2 THEN 1 ELSE 0) + (IF c \in B2 THEN 1 ELSE 0)
    BY DEF Weight
  <1>5. Len(nq) \in Nat /\ Len(nq') \in Nat
    BY DEF NicInv, NicTypes
  <1>6. RefsBalanced' <=> refs' = 1 + Len(nq') + Cardinality(A2) + Cardinality(B2)
    BY DEF RefsBalanced, RingK, Ringing, HandK, Handling
  <1> HIDE DEF A, A2, B, B2
  <1>7. refs' = 1 + Len(nq') + Cardinality(A2) + Cardinality(B2)
    <2> DEFINE w == Weight(cpus[c], netlock = c)  w2 == Weight(cpus'[c], netlock' = c)
               a == IF c \in A THEN 1 ELSE 0  a2 == IF c \in A2 THEN 1 ELSE 0
               b == IF c \in B THEN 1 ELSE 0  b2 == IF c \in B2 THEN 1 ELSE 0
               l == Len(nq)  l2 == Len(nq')
               x == Cardinality(A)  x2 == Cardinality(A2)  y == Cardinality(B)  y2 == Cardinality(B2)
    <2>1. a \in Nat /\ a2 \in Nat /\ b \in Nat /\ b2 \in Nat
      OBVIOUS
    <2>2. w = a + b /\ w2 = a2 + b2
      BY <1>4
    <2>3. refs' = refs + (l2 - l) + (w2 - w) /\ refs = 1 + l + x + y /\ x2 + a = x + a2 /\ y2 + b = y + b2
      BY <1>1, <1>2, <1>3
    <2>4. l \in Nat /\ l2 \in Nat /\ x \in Nat /\ x2 \in Nat /\ y \in Nat /\ y2 \in Nat
      BY <1>2, <1>3, <1>5
    <2> HIDE DEF w, w2, a, a2, b, b2, l, l2, x, x2, y, y2
    <2>5. refs' = 1 + l2 + x2 + y2
      BY <2>1, <2>2, <2>3, <2>4
    <2> QED
      BY <2>5 DEF l2, x2, y2
  <1> QED
    BY <1>2, <1>3, <1>5, <1>6, <1>7

LEMMA CpusMove ==
  ASSUME NEW c \in Procs, NicInv, Only(c), CpuOK(cpus'[c], netlock' = c)
  PROVE  CpusInv'
  <1>1. ASSUME NEW d \in Procs, d # c  PROVE CpuOK(cpus'[d], netlock' = d)
    <2>1. cpus'[d] = cpus[d] /\ ((netlock' = d) = (netlock = d)) /\ CpuOK(cpus[d], netlock = d)
      BY <1>1 DEF Only, NicInv, CpusInv
    <2> QED
      BY <2>1
  <1> QED
    BY <1>1 DEF CpusInv

LEMMA BusyMove ==
  ASSUME NEW c \in Procs, NicInv, Only(c),
         \/ tx'.busy = tx.busy /\ (cpus'[c].pc \in AtRing <=> cpus[c].pc \in AtRing)
         \/ tx.busy = 0 /\ tx'.busy = c /\ cpus'[c].pc \in AtRing
         \/ cpus[c].pc \in AtRing /\ tx'.busy = 0 /\ cpus'[c].pc \notin AtRing
  PROVE  BusyInv'
  <1>1. /\ 0 \notin Procs /\ \A d \in Procs : tx.busy = d <=> cpus[d].pc \in AtRing
        /\ \A d \in Procs \ {c} : cpus'[d] = cpus[d]
    BY NicAssumption DEF NicInv, BusyInv, Only
  <1>2. ASSUME NEW d \in Procs  PROVE tx'.busy = d <=> cpus'[d].pc \in AtRing
    <2>1. CASE d = c
      BY <1>1, <2>1
    <2>2. CASE d # c
      <3>1. cpus'[d] = cpus[d] /\ (tx.busy = d <=> cpus[d].pc \in AtRing)
        BY <1>1, <2>2
      <3> QED
        BY <1>1, <2>2, <3>1
    <2> QED
      BY <2>1, <2>2
  <1> QED
    BY <1>2 DEF BusyInv

(* Steps that leave the ring alone.                                         *)
SameTx == /\ tx'.pending = tx.pending /\ tx'.dd = tx.dd /\ tx'.nb = tx.nb /\ tx'.addr = tx.addr
          /\ tx'.cur = tx.cur /\ tx'.clean = tx.clean /\ tx'.tail = tx.tail /\ tx'.head = tx.head
          /\ nicLog'.wire = nicLog.wire /\ nicLog'.pushed = nicLog.pushed /\ nicLog'.live = nicLog.live
SameRx == /\ rx'.dd = rx.dd /\ rx'.pkt = rx.pkt /\ rx'.cur = rx.cur /\ rx'.head = rx.head /\ rx'.tail = rx.tail
          /\ nq' = nq /\ nicLog'.handed = nicLog.handed /\ nicLog'.arrived = nicLog.arrived

LEMMA TxQuiet ==
  ASSUME NEW c \in Procs, NicInv, Only(c), SameTx, cpus'[c].list = cpus[c].list,
         cpus[c].pc = "f4" => cpus'[c].pc = "f4",
         Coming(cpus[c]) => Coming(cpus'[c]) \/ tx.pending = <<>> \/ \E d \in Procs \ {c} : Coming(cpus[d])
  PROVE  FlushInv' /\ TailInv' /\ RingInv' /\ OrderOK(tx, cpus, nicLog)'
  <1>1. \A d \in Procs \ {c} : cpus'[d] = cpus[d]
    BY DEF Only
  <1>2. FlushInv'
    <2>1. SUFFICES ASSUME tx.pending # <<>>  PROVE \E d \in Procs : Coming(cpus'[d])
      BY DEF FlushInv, SameTx
    <2>2. PICK d \in Procs : Coming(cpus[d])
      BY <2>1 DEF NicInv, FlushInv
    <2>3. CASE d = c
      BY <1>1, <2>1, <2>2, <2>3
    <2>4. CASE d # c
      BY <1>1, <2>2, <2>4
    <2> QED
      BY <2>3, <2>4
  <1>3. TailInv'
    <2>1. SUFFICES ASSUME tx.tail # tx.cur  PROVE \E d \in Procs : cpus'[d].pc = "f4"
      BY DEF TailInv, SameTx
    <2>2. PICK d \in Procs : cpus[d].pc = "f4"
      BY <2>1 DEF NicInv, TailInv
    <2> QED
      BY <1>1, <2>2
  <1>4. RingInv'
    <2>1. PICK C, H, E, D \in Nat : RingAt(tx, C, H, E, D)
      BY DEF NicInv, RingInv
    <2>2. RingAt(tx', C, H, E, D)
      BY <2>1 DEF RingAt, SameTx
    <2> QED
      BY <2>2 DEF RingInv
  <1>5. OrderOK(tx', cpus', nicLog')
    <2>1. \A d \in Procs : cpus'[d].list = cpus[d].list
      BY <1>1
    <2>2. OrderOK(tx, cpus, nicLog)
      BY DEF NicInv
    <2> QED
      BY <2>1, <2>2, OrderSame DEF SameTx
  <1> QED
    BY <1>2, <1>3, <1>4, <1>5

LEMMA RxQuiet ==
  ASSUME NEW c \in Procs, NicInv, Only(c), SameRx, rx'.lock = rx.lock,
         cpus'[c].pc = "rx2" <=> cpus[c].pc = "rx2", cpus'[c].pc = "rx2" => cpus'[c].last = cpus[c].last
  PROVE  RxInv' /\ RxOrder'
  <1>1. \A d \in Procs : /\ cpus'[d].pc = "rx2" <=> cpus[d].pc = "rx2"
                         /\ cpus'[d].pc = "rx2" => cpus'[d].last = cpus[d].last
    BY DEF Only
  <1>2. PICK C, H, E \in Nat : RxAt(rx, nq, nicLog, C, H, E) /\ LastAt(cpus, C)
    BY DEF NicInv, RxInv
  <1>3. RxAt(rx', nq', nicLog', C, H, E)
    BY <1>2, RxSameAt DEF SameRx
  <1>4. LastAt(cpus', C)
    BY <1>1, <1>2 DEF LastAt
  <1>5. \A d \in Procs : rx'.lock = d <=> cpus'[d].pc = "rx2"
    BY <1>1 DEF NicInv, RxInv
  <1>6. RxOrder'
    BY DEF NicInv, RxOrder, SameRx
  <1> QED
    BY <1>3, <1>4, <1>5, <1>6 DEF RxInv

(* A step of a CPU that touches neither ring.                               *)
Walk(c, k) ==
  /\ k \in Cpu /\ cpus' = [cpus EXCEPT ![c] = k] /\ k.list = cpus[c].list
  /\ netlock' = netlock \/ (netlock = c /\ netlock' = 0) \/ (netlock = 0 /\ netlock' = c)
  /\ UNCHANGED <<tx, rx, nq, nicLog>> /\ nicCase' \in NicCaseType /\ CpuOK(k, netlock' = c)
  /\ k.pc \in AtRing <=> cpus[c].pc \in AtRing
  /\ cpus[c].pc = "f4" => k.pc = "f4"
  /\ k.pc = "rx2" <=> cpus[c].pc = "rx2"
  /\ k.pc = "rx2" => k.last = cpus[c].last
  /\ Coming(cpus[c]) => Coming(k) \/ tx.pending = <<>>
  /\ refs' = refs + (Weight(k, netlock' = c) - Weight(cpus[c], netlock = c))

LEMMA Walks ==
  ASSUME NEW c \in Procs, NicInv, NEW k, Walk(c, k)
  PROVE  NicInv'
  <1>0. /\ k \in Cpu /\ cpus' = [cpus EXCEPT ![c] = k] /\ k.list = cpus[c].list
        /\ netlock' = netlock \/ (netlock = c /\ netlock' = 0) \/ (netlock = 0 /\ netlock' = c)
        /\ UNCHANGED <<tx, rx, nq, nicLog>> /\ nicCase' \in NicCaseType /\ CpuOK(k, netlock' = c)
        /\ k.pc \in AtRing <=> cpus[c].pc \in AtRing
        /\ cpus[c].pc = "f4" => k.pc = "f4"
        /\ k.pc = "rx2" <=> cpus[c].pc = "rx2"
        /\ k.pc = "rx2" => k.last = cpus[c].last
        /\ Coming(cpus[c]) => Coming(k) \/ tx.pending = <<>>
        /\ refs' = refs + (Weight(k, netlock' = c) - Weight(cpus[c], netlock = c))
    BY DEF Walk
  <1> USE <1>0
  <1>1. cpus \in [Procs -> Cpu] /\ netlock \in Procs \cup {0} /\ nq \in Seq(Nat) /\ refs \in Nat /\ 0 \notin Procs
    BY NicAssumption DEF NicInv, NicTypes
  <1>2. cpus'[c] = k /\ Only(c)
    BY <1>1 DEF Only
  <1>3. CpusInv'
    BY <1>2, CpusMove
  <1>4. BusyInv'
    BY <1>2, BusyMove
  <1>5. SameTx /\ SameRx /\ rx'.lock = rx.lock
    BY DEF SameTx, SameRx
  <1>6. FlushInv' /\ TailInv' /\ RingInv' /\ OrderOK(tx, cpus, nicLog)'
    BY <1>2, <1>5, TxQuiet
  <1>7. RxInv' /\ RxOrder'
    BY <1>2, <1>5, RxQuiet
  <1>8. RefsBalanced' /\ refs' \in Nat
    <2>1. Weight(k, netlock' = c) \in Nat /\ Weight(cpus[c], netlock = c) \in Nat
      BY DEF Weight
    <2>2. Len(nq') - Len(nq) = 0 /\ nq' \in Seq(Nat) /\ refs' \in Int
      BY <1>1, <2>1
    <2>3. refs' = refs + (Len(nq') - Len(nq)) + (Weight(cpus'[c], netlock' = c) - Weight(cpus[c], netlock = c))
      BY <1>1, <1>2, <2>1, <2>2
    <2> QED
      BY <1>2, <2>2, <2>3, RefsMove
  <1>9. NicTypes'
    BY <1>2, <1>8 DEF NicInv, NicTypes, Only
  <1> QED
    BY <1>3, <1>4, <1>6, <1>7, <1>8, <1>9 DEF NicInv

(* The steps of a CPU that touch no ring.                                  *)
LEMMA TxDoneKeeps == ASSUME NicInv, NEW c \in Procs, TxDone(c)  PROVE NicInv'
  <1> DEFINE k == [cpus[c] EXCEPT !.pc = cpus[c].tret]
  <1>1. /\ cpus[c] \in Cpu /\ CpuOK(cpus[c], netlock = c) /\ cpus \in [Procs -> Cpu] /\ netlock \in Procs \cup {0} /\ 0 \notin Procs
        /\ nicCase \in NicCaseType /\ refs \in Nat
    BY NicAssumption DEF NicInv, NicTypes, CpusInv
  <1>2. /\ cpus' = [cpus EXCEPT ![c] = k] /\ k \in Cpu
        /\ k.pc = cpus[c].tret /\ k.after = cpus[c].after /\ k.todo = cpus[c].todo /\ k.fret = cpus[c].fret /\ k.tret = cpus[c].tret
        /\ k.list = cpus[c].list /\ k.depth = cpus[c].depth /\ k.bell = cpus[c].bell /\ k.last = cpus[c].last
    BY <1>1 DEF TxDone, Goto, Cpu, NicPcs, CpuOK, InFlush
  <1>3. netlock' = netlock /\ refs' = refs /\ UNCHANGED <<tx, rx, nq, nicLog>> /\ nicCase' \in NicCaseType
    BY <1>1 DEF TxDone, CpuOK
  <1>4. CpuOK(k, netlock' = c)
    <2>1. cpus[c].pc = "tx"
      BY DEF TxDone
    <2> HIDE DEF k
    <2> QED
      BY <1>1, <1>2, <1>3, <2>1 DEF CpuOK, InFlush, Cpu
  <1>5. refs' = refs + (Weight(k, netlock' = c) - Weight(cpus[c], netlock = c))
    <2>1. cpus[c].pc = "tx"
      BY DEF TxDone
    <2> HIDE DEF k
    <2>2. RingK(k) <=> cpus[c].bell
      BY <1>1, <1>2, <1>3, <2>1 DEF RingK, CpuOK, InFlush, Cpu
    <2>3. RingK(cpus[c]) <=> cpus[c].bell
      BY <1>1, <2>1 DEF RingK, CpuOK, InFlush
    <2>4. HandK(k, netlock' = c) <=> (cpus[c].tret = "rele" /\ netlock = c)
      BY <1>1, <1>2, <1>3, <2>1 DEF HandK, CpuOK, InFlush, Cpu
    <2>5. HandK(cpus[c], netlock = c) <=> (cpus[c].tret = "rele" /\ netlock = c)
      BY <1>1, <2>1 DEF HandK, CpuOK, InFlush
    <2> QED
      BY <1>1, <1>2, <1>3, <2>2, <2>3, <2>4, <2>5 DEF Weight
  <1>6. Walk(c, k)
    <2>1. cpus[c].pc = "tx"
      BY DEF TxDone
    <2> HIDE DEF k
    <2> QED
      BY <1>1, <1>2, <1>3, <1>4, <1>5, <2>1 DEF Walk, AtRing, Coming, CpuOK, InFlush, Cpu
  <1> HIDE DEF k
  <1> QED
    BY <1>6, Walks

LEMMA net_lock_exitKeeps == ASSUME NicInv, NEW c \in Procs, net_lock_exit(c)  PROVE NicInv'
  <1> DEFINE k == [cpus[c] EXCEPT !.pc = "bell", !.depth = cpus[c].depth - 1]
  <1>1. /\ cpus[c] \in Cpu /\ CpuOK(cpus[c], netlock = c) /\ cpus \in [Procs -> Cpu] /\ netlock \in Procs \cup {0} /\ 0 \notin Procs
        /\ nicCase \in NicCaseType /\ refs \in Nat
    BY NicAssumption DEF NicInv, NicTypes, CpusInv
  <1>2. /\ cpus' = [cpus EXCEPT ![c] = k] /\ k \in Cpu
        /\ k.pc = "bell" /\ k.after = cpus[c].after /\ k.todo = cpus[c].todo /\ k.fret = cpus[c].fret /\ k.tret = cpus[c].tret
        /\ k.list = cpus[c].list /\ k.depth = cpus[c].depth - 1 /\ k.bell = cpus[c].bell /\ k.last = cpus[c].last
    BY <1>1 DEF net_lock_exit, Goto, Cpu, NicPcs, CpuOK, InFlush
  <1>3. netlock = c /\ netlock' = 0 /\ refs' = refs /\ UNCHANGED <<tx, rx, nq, nicLog>> /\ nicCase' \in NicCaseType
    BY <1>1 DEF net_lock_exit, CpuOK
  <1>4. CpuOK(k, netlock' = c)
    <2>1. cpus[c].pc = "exit"
      BY DEF net_lock_exit
    <2> HIDE DEF k
    <2> QED
      BY <1>1, <1>2, <1>3, <2>1 DEF CpuOK, InFlush, Cpu
  <1>5. refs' = refs + (Weight(k, netlock' = c) - Weight(cpus[c], netlock = c))
    <2>1. cpus[c].pc = "exit"
      BY DEF net_lock_exit
    <2> HIDE DEF k
    <2>2. RingK(k) <=> cpus[c].bell
      BY <1>1, <1>2, <1>3, <2>1 DEF RingK, CpuOK, InFlush, Cpu
    <2>3. RingK(cpus[c]) <=> cpus[c].bell
      BY <1>1, <2>1 DEF RingK, CpuOK, InFlush
    <2>4. HandK(k, netlock' = c) <=> FALSE
      BY <1>1, <1>2, <1>3, <2>1 DEF HandK, CpuOK, InFlush, Cpu
    <2>5. HandK(cpus[c], netlock = c) <=> FALSE
      BY <1>1, <2>1 DEF HandK, CpuOK, InFlush
    <2> QED
      BY <1>1, <1>2, <1>3, <2>2, <2>3, <2>4, <2>5 DEF Weight
  <1>6. Walk(c, k)
    <2>1. cpus[c].pc = "exit"
      BY DEF net_lock_exit
    <2> HIDE DEF k
    <2> QED
      BY <1>1, <1>2, <1>3, <1>4, <1>5, <2>1 DEF Walk, AtRing, Coming, CpuOK, InFlush, Cpu
  <1> HIDE DEF k
  <1> QED
    BY <1>6, Walks

LEMMA BellRungKeeps == ASSUME NicInv, NEW c \in Procs, BellRung(c)  PROVE NicInv'
  <1> DEFINE k == [cpus[c] EXCEPT !.pc = "fin", !.fret = "fin"]
  <1>1. /\ cpus[c] \in Cpu /\ CpuOK(cpus[c], netlock = c) /\ cpus \in [Procs -> Cpu] /\ netlock \in Procs \cup {0} /\ 0 \notin Procs
        /\ nicCase \in NicCaseType /\ refs \in Nat
    BY NicAssumption DEF NicInv, NicTypes, CpusInv
  <1>2. /\ cpus' = [cpus EXCEPT ![c] = k] /\ k \in Cpu
        /\ k.pc = "fin" /\ k.after = cpus[c].after /\ k.todo = cpus[c].todo /\ k.fret = "fin" /\ k.tret = cpus[c].tret
        /\ k.list = cpus[c].list /\ k.depth = cpus[c].depth /\ k.bell = cpus[c].bell /\ k.last = cpus[c].last
    BY <1>1 DEF BellRung, Goto, Cpu, NicPcs, CpuOK, InFlush
  <1>3. netlock' = netlock /\ refs' = refs - 1 /\ UNCHANGED <<tx, rx, nq, nicLog>> /\ nicCase' \in NicCaseType
    BY <1>1 DEF BellRung, CpuOK
  <1>4. CpuOK(k, netlock' = c)
    <2>1. cpus[c].pc = "rung"
      BY DEF BellRung
    <2> HIDE DEF k
    <2> QED
      BY <1>1, <1>2, <1>3, <2>1 DEF CpuOK, InFlush, Cpu
  <1>5. refs' = refs + (Weight(k, netlock' = c) - Weight(cpus[c], netlock = c))
    <2>1. cpus[c].pc = "rung"
      BY DEF BellRung
    <2> HIDE DEF k
    <2>2. RingK(k) <=> FALSE
      BY <1>1, <1>2, <1>3, <2>1 DEF RingK, CpuOK, InFlush, Cpu
    <2>3. RingK(cpus[c]) <=> TRUE
      BY <1>1, <2>1 DEF RingK, CpuOK, InFlush
    <2>4. HandK(k, netlock' = c) <=> FALSE
      BY <1>1, <1>2, <1>3, <2>1 DEF HandK, CpuOK, InFlush, Cpu
    <2>5. HandK(cpus[c], netlock = c) <=> FALSE
      BY <1>1, <2>1 DEF HandK, CpuOK, InFlush
    <2> QED
      BY <1>1, <1>2, <1>3, <2>2, <2>3, <2>4, <2>5 DEF Weight
  <1>6. Walk(c, k)
    <2>1. cpus[c].pc = "rung"
      BY DEF BellRung
    <2> HIDE DEF k
    <2> QED
      BY <1>1, <1>2, <1>3, <1>4, <1>5, <2>1 DEF Walk, AtRing, Coming, CpuOK, InFlush, Cpu
  <1> HIDE DEF k
  <1> QED
    BY <1>6, Walks

LEMMA netif_releKeeps == ASSUME NicInv, NEW c \in Procs, netif_rele(c)  PROVE NicInv'
  <1> DEFINE k == [cpus[c] EXCEPT !.pc = "drain"]
  <1>1. /\ cpus[c] \in Cpu /\ CpuOK(cpus[c], netlock = c) /\ cpus \in [Procs -> Cpu] /\ netlock \in Procs \cup {0} /\ 0 \notin Procs
        /\ nicCase \in NicCaseType /\ refs \in Nat
    BY NicAssumption DEF NicInv, NicTypes, CpusInv
  <1>2. /\ cpus' = [cpus EXCEPT ![c] = k] /\ k \in Cpu
        /\ k.pc = "drain" /\ k.after = cpus[c].after /\ k.todo = cpus[c].todo /\ k.fret = cpus[c].fret /\ k.tret = cpus[c].tret
        /\ k.list = cpus[c].list /\ k.depth = cpus[c].depth /\ k.bell = cpus[c].bell /\ k.last = cpus[c].last
    BY <1>1 DEF netif_rele, Goto, Cpu, NicPcs, CpuOK, InFlush
  <1>3. netlock' = netlock /\ refs' = refs - 1 /\ UNCHANGED <<tx, rx, nq, nicLog>> /\ nicCase' \in NicCaseType
    BY <1>1 DEF netif_rele, CpuOK
  <1>4. CpuOK(k, netlock' = c)
    <2>1. cpus[c].pc = "rele"
      BY DEF netif_rele
    <2> HIDE DEF k
    <2> QED
      BY <1>1, <1>2, <1>3, <2>1 DEF CpuOK, InFlush, Cpu
  <1>5. refs' = refs + (Weight(k, netlock' = c) - Weight(cpus[c], netlock = c))
    <2>1. cpus[c].pc = "rele"
      BY DEF netif_rele
    <2> HIDE DEF k
    <2>2. RingK(k) <=> cpus[c].bell
      BY <1>1, <1>2, <1>3, <2>1 DEF RingK, CpuOK, InFlush, Cpu
    <2>3. RingK(cpus[c]) <=> cpus[c].bell
      BY <1>1, <2>1 DEF RingK, CpuOK, InFlush
    <2>4. HandK(k, netlock' = c) <=> FALSE
      BY <1>1, <1>2, <1>3, <2>1 DEF HandK, CpuOK, InFlush, Cpu
    <2>5. HandK(cpus[c], netlock = c) <=> TRUE
      BY <1>1, <2>1 DEF HandK, CpuOK, InFlush
    <2> QED
      BY <1>1, <1>2, <1>3, <2>2, <2>3, <2>4, <2>5 DEF Weight
  <1>6. Walk(c, k)
    <2>1. cpus[c].pc = "rele"
      BY DEF netif_rele
    <2> HIDE DEF k
    <2> QED
      BY <1>1, <1>2, <1>3, <1>4, <1>5, <2>1 DEF Walk, AtRing, Coming, CpuOK, InFlush, Cpu
  <1> HIDE DEF k
  <1> QED
    BY <1>6, Walks

LEMMA FlushSkips == ASSUME NicInv, NEW c \in Procs, FlushStarts(c), tx.pending = <<>>  PROVE NicInv'
  <1> DEFINE k == [cpus[c] EXCEPT !.pc = cpus[c].fret]
  <1>1. /\ cpus[c] \in Cpu /\ CpuOK(cpus[c], netlock = c) /\ cpus \in [Procs -> Cpu] /\ netlock \in Procs \cup {0} /\ 0 \notin Procs
        /\ nicCase \in NicCaseType /\ refs \in Nat
    BY NicAssumption DEF NicInv, NicTypes, CpusInv
  <1>2. /\ cpus' = [cpus EXCEPT ![c] = k] /\ k \in Cpu
        /\ k.pc = cpus[c].fret /\ k.after = cpus[c].after /\ k.todo = cpus[c].todo /\ k.fret = cpus[c].fret /\ k.tret = cpus[c].tret
        /\ k.list = cpus[c].list /\ k.depth = cpus[c].depth /\ k.bell = cpus[c].bell /\ k.last = cpus[c].last
    BY <1>1 DEF FlushStarts, Goto, Cpu, NicPcs, CpuOK, InFlush
  <1>3. netlock' = netlock /\ refs' = refs /\ UNCHANGED <<tx, rx, nq, nicLog>> /\ nicCase' \in NicCaseType
    BY <1>1 DEF FlushStarts, CpuOK
  <1>4. CpuOK(k, netlock' = c)
    <2>1. cpus[c].pc = "f1"
      BY DEF FlushStarts
    <2> HIDE DEF k
    <2> QED
      BY <1>1, <1>2, <1>3, <2>1 DEF CpuOK, InFlush, Cpu
  <1>5. refs' = refs + (Weight(k, netlock' = c) - Weight(cpus[c], netlock = c))
    <2>1. cpus[c].pc = "f1"
      BY DEF FlushStarts
    <2> HIDE DEF k
    <2>2. RingK(k) <=> (cpus[c].bell \/ cpus[c].fret = "rung")
      BY <1>1, <1>2, <1>3, <2>1 DEF RingK, CpuOK, InFlush, Cpu
    <2>3. RingK(cpus[c]) <=> (cpus[c].bell \/ cpus[c].fret = "rung")
      BY <1>1, <2>1 DEF RingK, CpuOK, InFlush
    <2>4. HandK(k, netlock' = c) <=> (netlock = c /\ cpus[c].tret = "rele")
      BY <1>1, <1>2, <1>3, <2>1 DEF HandK, CpuOK, InFlush, Cpu
    <2>5. HandK(cpus[c], netlock = c) <=> (netlock = c /\ cpus[c].tret = "rele")
      BY <1>1, <2>1 DEF HandK, CpuOK, InFlush
    <2> QED
      BY <1>1, <1>2, <1>3, <2>2, <2>3, <2>4, <2>5 DEF Weight
  <1>6. Walk(c, k)
    <2>1. cpus[c].pc = "f1"
      BY DEF FlushStarts
    <2> HIDE DEF k
    <2> QED
      BY <1>1, <1>2, <1>3, <1>4, <1>5, <2>1 DEF Walk, AtRing, Coming, CpuOK, InFlush, Cpu
  <1> HIDE DEF k
  <1> QED
    BY <1>6, Walks

LEMMA FlushGoesOn == ASSUME NicInv, NEW c \in Procs, FlushStarts(c), tx.pending # <<>>  PROVE NicInv'
  <1> DEFINE k == [cpus[c] EXCEPT !.pc = "f2"]
  <1>1. /\ cpus[c] \in Cpu /\ CpuOK(cpus[c], netlock = c) /\ cpus \in [Procs -> Cpu] /\ netlock \in Procs \cup {0} /\ 0 \notin Procs
        /\ nicCase \in NicCaseType /\ refs \in Nat
    BY NicAssumption DEF NicInv, NicTypes, CpusInv
  <1>2. /\ cpus' = [cpus EXCEPT ![c] = k] /\ k \in Cpu
        /\ k.pc = "f2" /\ k.after = cpus[c].after /\ k.todo = cpus[c].todo /\ k.fret = cpus[c].fret /\ k.tret = cpus[c].tret
        /\ k.list = cpus[c].list /\ k.depth = cpus[c].depth /\ k.bell = cpus[c].bell /\ k.last = cpus[c].last
    BY <1>1 DEF FlushStarts, Goto, Cpu, NicPcs, CpuOK, InFlush
  <1>3. netlock' = netlock /\ refs' = refs /\ UNCHANGED <<tx, rx, nq, nicLog>> /\ nicCase' \in NicCaseType
    BY <1>1 DEF FlushStarts, CpuOK
  <1>4. CpuOK(k, netlock' = c)
    <2>1. cpus[c].pc = "f1"
      BY DEF FlushStarts
    <2> HIDE DEF k
    <2> QED
      BY <1>1, <1>2, <1>3, <2>1 DEF CpuOK, InFlush, Cpu
  <1>5. refs' = refs + (Weight(k, netlock' = c) - Weight(cpus[c], netlock = c))
    <2>1. cpus[c].pc = "f1"
      BY DEF FlushStarts
    <2> HIDE DEF k
    <2>2. RingK(k) <=> (cpus[c].bell \/ cpus[c].fret = "rung")
      BY <1>1, <1>2, <1>3, <2>1 DEF RingK, CpuOK, InFlush, Cpu
    <2>3. RingK(cpus[c]) <=> (cpus[c].bell \/ cpus[c].fret = "rung")
      BY <1>1, <2>1 DEF RingK, CpuOK, InFlush
    <2>4. HandK(k, netlock' = c) <=> (netlock = c /\ cpus[c].tret = "rele")
      BY <1>1, <1>2, <1>3, <2>1 DEF HandK, CpuOK, InFlush, Cpu
    <2>5. HandK(cpus[c], netlock = c) <=> (netlock = c /\ cpus[c].tret = "rele")
      BY <1>1, <2>1 DEF HandK, CpuOK, InFlush
    <2> QED
      BY <1>1, <1>2, <1>3, <2>2, <2>3, <2>4, <2>5 DEF Weight
  <1>6. Walk(c, k)
    <2>1. cpus[c].pc = "f1"
      BY DEF FlushStarts
    <2> HIDE DEF k
    <2> QED
      BY <1>1, <1>2, <1>3, <1>4, <1>5, <2>1 DEF Walk, AtRing, Coming, CpuOK, InFlush, Cpu
  <1> HIDE DEF k
  <1> QED
    BY <1>6, Walks

LEMMA BellRings == ASSUME NicInv, NEW c \in Procs, netif_tx_flush(c), cpus[c].bell  PROVE NicInv'
  <1> DEFINE k == [cpus[c] EXCEPT !.pc = "f1", !.fret = "rung", !.bell = FALSE]
  <1>1. /\ cpus[c] \in Cpu /\ CpuOK(cpus[c], netlock = c) /\ cpus \in [Procs -> Cpu] /\ netlock \in Procs \cup {0} /\ 0 \notin Procs
        /\ nicCase \in NicCaseType /\ refs \in Nat
    BY NicAssumption DEF NicInv, NicTypes, CpusInv
  <1>2. /\ cpus' = [cpus EXCEPT ![c] = k] /\ k \in Cpu
        /\ k.pc = "f1" /\ k.after = cpus[c].after /\ k.todo = cpus[c].todo /\ k.fret = "rung" /\ k.tret = cpus[c].tret
        /\ k.list = cpus[c].list /\ k.depth = cpus[c].depth /\ k.bell = FALSE /\ k.last = cpus[c].last
    BY <1>1 DEF netif_tx_flush, Goto, Cpu, NicPcs, CpuOK, InFlush
  <1>3. netlock' = netlock /\ refs' = refs /\ UNCHANGED <<tx, rx, nq, nicLog>> /\ nicCase' \in NicCaseType
    BY <1>1 DEF netif_tx_flush, CpuOK
  <1>4. CpuOK(k, netlock' = c)
    <2>1. cpus[c].pc = "bell"
      BY DEF netif_tx_flush
    <2> HIDE DEF k
    <2> QED
      BY <1>1, <1>2, <1>3, <2>1 DEF CpuOK, InFlush, Cpu
  <1>5. refs' = refs + (Weight(k, netlock' = c) - Weight(cpus[c], netlock = c))
    <2>1. cpus[c].pc = "bell"
      BY DEF netif_tx_flush
    <2> HIDE DEF k
    <2>2. RingK(k) <=> TRUE
      BY <1>1, <1>2, <1>3, <2>1 DEF RingK, CpuOK, InFlush, Cpu
    <2>3. RingK(cpus[c]) <=> TRUE
      BY <1>1, <2>1 DEF RingK, CpuOK, InFlush
    <2>4. HandK(k, netlock' = c) <=> FALSE
      BY <1>1, <1>2, <1>3, <2>1 DEF HandK, CpuOK, InFlush, Cpu
    <2>5. HandK(cpus[c], netlock = c) <=> FALSE
      BY <1>1, <2>1 DEF HandK, CpuOK, InFlush
    <2> QED
      BY <1>1, <1>2, <1>3, <2>2, <2>3, <2>4, <2>5 DEF Weight
  <1>6. Walk(c, k)
    <2>1. cpus[c].pc = "bell"
      BY DEF netif_tx_flush
    <2> HIDE DEF k
    <2> QED
      BY <1>1, <1>2, <1>3, <1>4, <1>5, <2>1 DEF Walk, AtRing, Coming, CpuOK, InFlush, Cpu
  <1> HIDE DEF k
  <1> QED
    BY <1>6, Walks

LEMMA NoBell == ASSUME NicInv, NEW c \in Procs, netif_tx_flush(c), ~cpus[c].bell  PROVE NicInv'
  <1> DEFINE k == [cpus[c] EXCEPT !.pc = "fin", !.fret = "rung", !.bell = FALSE]
  <1>1. /\ cpus[c] \in Cpu /\ CpuOK(cpus[c], netlock = c) /\ cpus \in [Procs -> Cpu] /\ netlock \in Procs \cup {0} /\ 0 \notin Procs
        /\ nicCase \in NicCaseType /\ refs \in Nat
    BY NicAssumption DEF NicInv, NicTypes, CpusInv
  <1>2. /\ cpus' = [cpus EXCEPT ![c] = k] /\ k \in Cpu
        /\ k.pc = "fin" /\ k.after = cpus[c].after /\ k.todo = cpus[c].todo /\ k.fret = "rung" /\ k.tret = cpus[c].tret
        /\ k.list = cpus[c].list /\ k.depth = cpus[c].depth /\ k.bell = FALSE /\ k.last = cpus[c].last
    BY <1>1 DEF netif_tx_flush, Goto, Cpu, NicPcs, CpuOK, InFlush
  <1>3. netlock' = netlock /\ refs' = refs /\ UNCHANGED <<tx, rx, nq, nicLog>> /\ nicCase' \in NicCaseType
    BY <1>1 DEF netif_tx_flush, CpuOK
  <1>4. CpuOK(k, netlock' = c)
    <2>1. cpus[c].pc = "bell"
      BY DEF netif_tx_flush
    <2> HIDE DEF k
    <2> QED
      BY <1>1, <1>2, <1>3, <2>1 DEF CpuOK, InFlush, Cpu
  <1>5. refs' = refs + (Weight(k, netlock' = c) - Weight(cpus[c], netlock = c))
    <2>1. cpus[c].pc = "bell"
      BY DEF netif_tx_flush
    <2> HIDE DEF k
    <2>2. RingK(k) <=> FALSE
      BY <1>1, <1>2, <1>3, <2>1 DEF RingK, CpuOK, InFlush, Cpu
    <2>3. RingK(cpus[c]) <=> FALSE
      BY <1>1, <2>1 DEF RingK, CpuOK, InFlush
    <2>4. HandK(k, netlock' = c) <=> FALSE
      BY <1>1, <1>2, <1>3, <2>1 DEF HandK, CpuOK, InFlush, Cpu
    <2>5. HandK(cpus[c], netlock = c) <=> FALSE
      BY <1>1, <2>1 DEF HandK, CpuOK, InFlush
    <2> QED
      BY <1>1, <1>2, <1>3, <2>2, <2>3, <2>4, <2>5 DEF Weight
  <1>6. Walk(c, k)
    <2>1. cpus[c].pc = "bell"
      BY DEF netif_tx_flush
    <2> HIDE DEF k
    <2> QED
      BY <1>1, <1>2, <1>3, <1>4, <1>5, <2>1 DEF Walk, AtRing, Coming, CpuOK, InFlush, Cpu
  <1> HIDE DEF k
  <1> QED
    BY <1>6, Walks

LEMMA net_lock_enterKeeps == ASSUME NicInv, NEW c \in Procs, net_lock_enter(c)  PROVE NicInv'
  <1> DEFINE k == [cpus[c] EXCEPT !.pc = cpus[c].after, !.depth = cpus[c].depth + 1, !.after = (IF cpus[c].after = "rx1" THEN "reclaim" ELSE cpus[c].after)]
  <1>1. /\ cpus[c] \in Cpu /\ CpuOK(cpus[c], netlock = c) /\ cpus \in [Procs -> Cpu] /\ netlock \in Procs \cup {0} /\ 0 \notin Procs
        /\ nicCase \in NicCaseType /\ refs \in Nat
    BY NicAssumption DEF NicInv, NicTypes, CpusInv
  <1>2. /\ cpus' = [cpus EXCEPT ![c] = k] /\ k \in Cpu
        /\ k.pc = cpus[c].after /\ k.after = (IF cpus[c].after = "rx1" THEN "reclaim" ELSE cpus[c].after) /\ k.todo = cpus[c].todo /\ k.fret = cpus[c].fret /\ k.tret = cpus[c].tret
        /\ k.list = cpus[c].list /\ k.depth = cpus[c].depth + 1 /\ k.bell = cpus[c].bell /\ k.last = cpus[c].last
    BY <1>1 DEF net_lock_enter, Goto, Cpu, NicPcs, CpuOK, InFlush
  <1>3. netlock = 0 /\ netlock' = c /\ refs' = refs /\ UNCHANGED <<tx, rx, nq, nicLog>> /\ nicCase' \in NicCaseType
    BY <1>1 DEF net_lock_enter, CpuOK
  <1>4. CpuOK(k, netlock' = c)
    <2>1. cpus[c].pc = "lock"
      BY DEF net_lock_enter
    <2> HIDE DEF k
    <2> QED
      BY <1>1, <1>2, <1>3, <2>1 DEF CpuOK, InFlush, Cpu
  <1>5. refs' = refs + (Weight(k, netlock' = c) - Weight(cpus[c], netlock = c))
    <2>1. cpus[c].pc = "lock"
      BY DEF net_lock_enter
    <2> HIDE DEF k
    <2>2. RingK(k) <=> FALSE
      BY <1>1, <1>2, <1>3, <2>1 DEF RingK, CpuOK, InFlush, Cpu
    <2>3. RingK(cpus[c]) <=> FALSE
      BY <1>1, <2>1 DEF RingK, CpuOK, InFlush
    <2>4. HandK(k, netlock' = c) <=> FALSE
      BY <1>1, <1>2, <1>3, <2>1 DEF HandK, CpuOK, InFlush, Cpu
    <2>5. HandK(cpus[c], netlock = c) <=> FALSE
      BY <1>1, <2>1 DEF HandK, CpuOK, InFlush
    <2> QED
      BY <1>1, <1>2, <1>3, <2>2, <2>3, <2>4, <2>5 DEF Weight
  <1>6. Walk(c, k)
    <2>1. cpus[c].pc = "lock"
      BY DEF net_lock_enter
    <2> HIDE DEF k
    <2> QED
      BY <1>1, <1>2, <1>3, <1>4, <1>5, <2>1 DEF Walk, AtRing, Coming, CpuOK, InFlush, Cpu
  <1> HIDE DEF k
  <1> QED
    BY <1>6, Walks

LEMMA PollInside == ASSUME NicInv, NEW c \in Procs, netisr_poll(c), netlock = c  PROVE NicInv'
  <1> DEFINE k == [cpus[c] EXCEPT !.pc = "drain"]
  <1>1. /\ cpus[c] \in Cpu /\ CpuOK(cpus[c], netlock = c) /\ cpus \in [Procs -> Cpu] /\ netlock \in Procs \cup {0} /\ 0 \notin Procs
        /\ nicCase \in NicCaseType /\ refs \in Nat
    BY NicAssumption DEF NicInv, NicTypes, CpusInv
  <1>2. /\ cpus' = [cpus EXCEPT ![c] = k] /\ k \in Cpu
        /\ k.pc = "drain" /\ k.after = cpus[c].after /\ k.todo = cpus[c].todo /\ k.fret = cpus[c].fret /\ k.tret = cpus[c].tret
        /\ k.list = cpus[c].list /\ k.depth = cpus[c].depth /\ k.bell = cpus[c].bell /\ k.last = cpus[c].last
    BY <1>1 DEF netisr_poll, Goto, Cpu, NicPcs, CpuOK, InFlush
  <1>3. netlock' = netlock /\ refs' = refs /\ UNCHANGED <<tx, rx, nq, nicLog>> /\ nicCase' \in NicCaseType
    BY <1>1 DEF netisr_poll, CpuOK
  <1>4. CpuOK(k, netlock' = c)
    <2>1. cpus[c].pc = "poll"
      BY DEF netisr_poll
    <2> HIDE DEF k
    <2> QED
      BY <1>1, <1>2, <1>3, <2>1 DEF CpuOK, InFlush, Cpu
  <1>5. refs' = refs + (Weight(k, netlock' = c) - Weight(cpus[c], netlock = c))
    <2>1. cpus[c].pc = "poll"
      BY DEF netisr_poll
    <2> HIDE DEF k
    <2>2. RingK(k) <=> cpus[c].bell
      BY <1>1, <1>2, <1>3, <2>1 DEF RingK, CpuOK, InFlush, Cpu
    <2>3. RingK(cpus[c]) <=> cpus[c].bell
      BY <1>1, <2>1 DEF RingK, CpuOK, InFlush
    <2>4. HandK(k, netlock' = c) <=> FALSE
      BY <1>1, <1>2, <1>3, <2>1 DEF HandK, CpuOK, InFlush, Cpu
    <2>5. HandK(cpus[c], netlock = c) <=> FALSE
      BY <1>1, <2>1 DEF HandK, CpuOK, InFlush
    <2> QED
      BY <1>1, <1>2, <1>3, <2>2, <2>3, <2>4, <2>5 DEF Weight
  <1>6. Walk(c, k)
    <2>1. cpus[c].pc = "poll"
      BY DEF netisr_poll
    <2> HIDE DEF k
    <2> QED
      BY <1>1, <1>2, <1>3, <1>4, <1>5, <2>1 DEF Walk, AtRing, Coming, CpuOK, InFlush, Cpu
  <1> HIDE DEF k
  <1> QED
    BY <1>6, Walks

LEMMA PollLeaves == ASSUME NicInv, NEW c \in Procs, netisr_poll(c), netlock # c, netlock' = netlock  PROVE NicInv'
  <1> DEFINE k == [cpus[c] EXCEPT !.pc = "fin"]
  <1>1. /\ cpus[c] \in Cpu /\ CpuOK(cpus[c], netlock = c) /\ cpus \in [Procs -> Cpu] /\ netlock \in Procs \cup {0} /\ 0 \notin Procs
        /\ nicCase \in NicCaseType /\ refs \in Nat
    BY NicAssumption DEF NicInv, NicTypes, CpusInv
  <1>2. /\ cpus' = [cpus EXCEPT ![c] = k] /\ k \in Cpu
        /\ k.pc = "fin" /\ k.after = cpus[c].after /\ k.todo = cpus[c].todo /\ k.fret = cpus[c].fret /\ k.tret = cpus[c].tret
        /\ k.list = cpus[c].list /\ k.depth = cpus[c].depth /\ k.bell = cpus[c].bell /\ k.last = cpus[c].last
    BY <1>1 DEF netisr_poll, Goto, Cpu, NicPcs, CpuOK, InFlush
  <1>3. netlock' = netlock /\ refs' = refs /\ UNCHANGED <<tx, rx, nq, nicLog>> /\ nicCase' \in NicCaseType
    BY <1>1 DEF netisr_poll, CpuOK
  <1>4. CpuOK(k, netlock' = c)
    <2>1. cpus[c].pc = "poll"
      BY DEF netisr_poll
    <2> HIDE DEF k
    <2> QED
      BY <1>1, <1>2, <1>3, <2>1 DEF CpuOK, InFlush, Cpu
  <1>5. refs' = refs + (Weight(k, netlock' = c) - Weight(cpus[c], netlock = c))
    <2>1. cpus[c].pc = "poll"
      BY DEF netisr_poll
    <2> HIDE DEF k
    <2>2. RingK(k) <=> cpus[c].bell
      BY <1>1, <1>2, <1>3, <2>1 DEF RingK, CpuOK, InFlush, Cpu
    <2>3. RingK(cpus[c]) <=> cpus[c].bell
      BY <1>1, <2>1 DEF RingK, CpuOK, InFlush
    <2>4. HandK(k, netlock' = c) <=> FALSE
      BY <1>1, <1>2, <1>3, <2>1 DEF HandK, CpuOK, InFlush, Cpu
    <2>5. HandK(cpus[c], netlock = c) <=> FALSE
      BY <1>1, <2>1 DEF HandK, CpuOK, InFlush
    <2> QED
      BY <1>1, <1>2, <1>3, <2>2, <2>3, <2>4, <2>5 DEF Weight
  <1>6. Walk(c, k)
    <2>1. cpus[c].pc = "poll"
      BY DEF netisr_poll
    <2> HIDE DEF k
    <2> QED
      BY <1>1, <1>2, <1>3, <1>4, <1>5, <2>1 DEF Walk, AtRing, Coming, CpuOK, InFlush, Cpu
  <1> HIDE DEF k
  <1> QED
    BY <1>6, Walks

LEMMA PollEnters == ASSUME NicInv, NEW c \in Procs, netisr_poll(c), netlock # c, netlock' # netlock  PROVE NicInv'
  <1> DEFINE k == [cpus[c] EXCEPT !.pc = "drain", !.depth = cpus[c].depth + 1]
  <1>1. /\ cpus[c] \in Cpu /\ CpuOK(cpus[c], netlock = c) /\ cpus \in [Procs -> Cpu] /\ netlock \in Procs \cup {0} /\ 0 \notin Procs
        /\ nicCase \in NicCaseType /\ refs \in Nat
    BY NicAssumption DEF NicInv, NicTypes, CpusInv
  <1>0. cpus' = [cpus EXCEPT ![c].pc = "drain", ![c].depth = @ + 1]
    BY DEF netisr_poll
  <1>2. /\ cpus' = [cpus EXCEPT ![c] = k] /\ k \in Cpu
        /\ k.pc = "drain" /\ k.after = cpus[c].after /\ k.todo = cpus[c].todo /\ k.fret = cpus[c].fret /\ k.tret = cpus[c].tret
        /\ k.list = cpus[c].list /\ k.depth = cpus[c].depth + 1 /\ k.bell = cpus[c].bell /\ k.last = cpus[c].last
    <2>1. cpus[c].depth + 1 \in Nat
      BY <1>1 DEF Cpu
    <2>2. k \in Cpu /\ k.pc = "drain" /\ k.depth = cpus[c].depth + 1
      BY <1>1, <2>1 DEF Cpu, NicPcs
    <2>3. cpus' = [cpus EXCEPT ![c] = k]
      BY <1>0, <1>1
    <2> QED
      BY <1>1, <2>2, <2>3 DEF Cpu
  <1>3. netlock = 0 /\ netlock' = c /\ refs' = refs /\ UNCHANGED <<tx, rx, nq, nicLog>> /\ nicCase' \in NicCaseType
    BY <1>1 DEF netisr_poll, CpuOK
  <1>4. CpuOK(k, netlock' = c)
    <2>1. cpus[c].pc = "poll"
      BY DEF netisr_poll
    <2> HIDE DEF k
    <2> QED
      BY <1>1, <1>2, <1>3, <2>1 DEF CpuOK, InFlush, Cpu
  <1>5. refs' = refs + (Weight(k, netlock' = c) - Weight(cpus[c], netlock = c))
    <2>1. cpus[c].pc = "poll"
      BY DEF netisr_poll
    <2> HIDE DEF k
    <2>2. RingK(k) <=> cpus[c].bell
      BY <1>1, <1>2, <1>3, <2>1 DEF RingK, CpuOK, InFlush, Cpu
    <2>3. RingK(cpus[c]) <=> cpus[c].bell
      BY <1>1, <2>1 DEF RingK, CpuOK, InFlush
    <2>4. HandK(k, netlock' = c) <=> FALSE
      BY <1>1, <1>2, <1>3, <2>1 DEF HandK, CpuOK, InFlush, Cpu
    <2>5. HandK(cpus[c], netlock = c) <=> FALSE
      BY <1>1, <2>1 DEF HandK, CpuOK, InFlush
    <2> QED
      BY <1>1, <1>2, <1>3, <2>2, <2>3, <2>4, <2>5 DEF Weight
  <1>6. Walk(c, k)
    <2>1. cpus[c].pc = "poll"
      BY DEF netisr_poll
    <2> HIDE DEF k
    <2> QED
      BY <1>1, <1>2, <1>3, <1>4, <1>5, <2>1 DEF Walk, AtRing, Coming, CpuOK, InFlush, Cpu
  <1> HIDE DEF k
  <1> QED
    BY <1>6, Walks

LEMMA IdleIs ==
  /\ CpuIdle \in Cpu /\ CpuIdle.pc = "idle" /\ CpuIdle.after = "fin" /\ CpuIdle.todo = <<>> /\ CpuIdle.fret = "fin" /\ CpuIdle.tret = "poll"
  /\ CpuIdle.list = <<>> /\ CpuIdle.depth = 0 /\ CpuIdle.bell = FALSE /\ CpuIdle.last = -1
  BY DEF CpuIdle, Cpu, NicPcs

LEMMA FinishesKeeps == ASSUME NicInv, NEW c \in Procs, Finishes(c)  PROVE NicInv'
  <1> PICK k : k = CpuIdle
    OBVIOUS
  <1>1. /\ cpus[c] \in Cpu /\ CpuOK(cpus[c], netlock = c) /\ cpus \in [Procs -> Cpu] /\ nicCase \in NicCaseType /\ refs \in Nat
    BY DEF NicInv, NicTypes, CpusInv
  <1>2. /\ cpus[c].pc = "fin" /\ cpus' = [cpus EXCEPT ![c] = k] /\ cpus[c].list = <<>> /\ netlock' # c /\ netlock # c
        /\ UNCHANGED <<netlock, tx, rx, nq, refs, nicLog, nicCase>>
    BY <1>1 DEF Finishes, CpuOK
  <1>3. CpuOK(k, netlock' = c)
    BY <1>2, IdleIs DEF CpuOK, InFlush
  <1>4. refs' = refs + (Weight(k, netlock' = c) - Weight(cpus[c], netlock = c))
    <2>1. ~RingK(k) /\ ~RingK(cpus[c]) /\ ~HandK(k, netlock' = c) /\ ~HandK(cpus[c], netlock = c)
      BY <1>1, <1>2, IdleIs DEF RingK, HandK, CpuOK
    <2> QED
      BY <1>1, <1>2, <2>1 DEF Weight
  <1>5. ~Coming(cpus[c])
    BY <1>1, <1>2 DEF Coming, CpuOK, InFlush
  <1>6. Walk(c, k)
    BY <1>1, <1>2, <1>3, <1>4, <1>5, IdleIs DEF Walk, AtRing
  <1> QED
    BY <1>6, Walks

(* A CPU that has nothing to do starts a job.                               *)
Started(k, frames) ==
  \/ k = [CpuIdle EXCEPT !.pc = "lock", !.after = "tx", !.todo = frames]
  \/ k = [CpuIdle EXCEPT !.pc = "tx", !.todo = frames]
  \/ k = [CpuIdle EXCEPT !.pc = "lock", !.after = "rx1"]
  \/ k = [CpuIdle EXCEPT !.pc = "poll"]

LEMMA StartedIs ==
  ASSUME NEW k, NEW frames \in Seq({"wire"}), Started(k, frames)
  PROVE  /\ k \in Cpu /\ k.pc \in {"lock", "tx", "poll"} /\ (k.pc = "lock" => k.after \in {"tx", "rx1"})
         /\ k.fret = "fin" /\ k.tret = "poll" /\ k.list = <<>> /\ k.depth = 0 /\ k.bell = FALSE
  <1>1. CASE k = [CpuIdle EXCEPT !.pc = "lock", !.after = "tx", !.todo = frames]
    BY <1>1, IdleIs DEF Cpu, NicPcs
  <1>2. CASE k = [CpuIdle EXCEPT !.pc = "tx", !.todo = frames]
    BY <1>2, IdleIs DEF Cpu, NicPcs
  <1>3. CASE k = [CpuIdle EXCEPT !.pc = "lock", !.after = "rx1"]
    BY <1>3, IdleIs DEF Cpu, NicPcs
  <1>4. CASE k = [CpuIdle EXCEPT !.pc = "poll"]
    BY <1>4, IdleIs DEF Cpu, NicPcs
  <1> QED
    BY <1>1, <1>2, <1>3, <1>4 DEF Started

LEMMA StartsKeeps == ASSUME NicInv, NEW c \in Procs, Starts(c)  PROVE NicInv'
  <1> DEFINE j == Head(nicCase.jobs[c])
             k == CASE j.op = "call" -> [CpuIdle EXCEPT !.pc = "lock", !.after = "tx", !.todo = j.frames]
                    [] j.op = "fast" -> [CpuIdle EXCEPT !.pc = "tx", !.todo = j.frames]
                    [] j.op = "poll" -> [CpuIdle EXCEPT !.pc = "lock", !.after = "rx1"]
                    [] j.op = "tick" -> [CpuIdle EXCEPT !.pc = "poll"]
  <1>1. /\ cpus[c] \in Cpu /\ CpuOK(cpus[c], netlock = c) /\ cpus \in [Procs -> Cpu] /\ nicCase \in NicCaseType /\ refs \in Nat
    BY DEF NicInv, NicTypes, CpusInv
  <1>2. nicCase.jobs \in [Procs -> Seq(NicJobs)] /\ nicCase.jobs[c] \in Seq(NicJobs) /\ nicCase.jobs[c] # <<>>
    BY <1>1 DEF NicCaseType, Starts
  <1>3. j.op \in {"call", "fast", "poll", "tick"} /\ j.frames \in Seq({"wire"})
    <2>1. Head(nicCase.jobs[c]) \in NicJobs
      BY <1>2
    <2> QED
      BY <2>1 DEF NicJobs
  <1>4. nicCase' \in NicCaseType
    <2>1. Tail(nicCase.jobs[c]) \in Seq(NicJobs)
      BY <1>2
    <2>2. nicCase' = [nicCase EXCEPT !.jobs = [nicCase.jobs EXCEPT ![c] = Tail(nicCase.jobs[c])]]
      BY DEF Starts
    <2>3. [nicCase.jobs EXCEPT ![c] = Tail(nicCase.jobs[c])] \in [Procs -> Seq(NicJobs)]
      BY <1>2, <2>1
    <2> QED
      BY <1>1, <2>2, <2>3 DEF NicCaseType
  <1>5. Started(k, j.frames)
    <2>1. CASE j.op = "call"
      BY <2>1 DEF Started
    <2>2. CASE j.op = "fast"
      BY <2>2 DEF Started
    <2>3. CASE j.op = "poll"
      BY <2>3 DEF Started
    <2>4. CASE j.op = "tick"
      BY <2>4 DEF Started
    <2> QED
      BY <1>3, <2>1, <2>2, <2>3, <2>4
  <1>6. /\ cpus[c].pc = "idle" /\ cpus' = [cpus EXCEPT ![c] = k] /\ netlock' = netlock
        /\ UNCHANGED <<netlock, tx, rx, nq, refs, nicLog>>
    BY DEF Starts
  <1> HIDE DEF k, j
  <1>7. /\ k \in Cpu /\ k.pc \in {"lock", "tx", "poll"} /\ (k.pc = "lock" => k.after \in {"tx", "rx1"})
        /\ k.fret = "fin" /\ k.tret = "poll" /\ k.list = <<>> /\ k.depth = 0 /\ k.bell = FALSE
    BY <1>3, <1>5, StartedIs
  <1>8. cpus[c] = CpuIdle /\ cpus[c].list = <<>> /\ cpus[c].bell = FALSE /\ cpus[c].fret = "fin" /\ netlock # c
    BY <1>1, <1>6, IdleIs DEF CpuOK
  <1>9. CpuOK(k, netlock' = c)
    BY <1>6, <1>7, <1>8 DEF CpuOK, InFlush
  <1>10. refs' = refs + (Weight(k, netlock' = c) - Weight(cpus[c], netlock = c))
    <2>1. ~RingK(k) /\ ~RingK(cpus[c]) /\ ~HandK(k, netlock' = c) /\ ~HandK(cpus[c], netlock = c)
      BY <1>6, <1>7, <1>8 DEF RingK, HandK
    <2> QED
      BY <1>1, <1>6, <2>1 DEF Weight
  <1>11. ~Coming(cpus[c])
    BY <1>6, <1>8 DEF Coming, InFlush
  <1>12. Walk(c, k)
    BY <1>4, <1>6, <1>7, <1>8, <1>9, <1>10, <1>11 DEF Walk, AtRing
  <1> QED
    BY <1>12, Walks

(* The parts of a step that touches a ring.                                 *)
LEMMA Moves ==
  ASSUME NEW c \in Procs, NicInv, Only(c), CpuOK(cpus'[c], netlock' = c),
         tx' \in TxType, tx'.count = Len(tx'.pending), rx' \in RxType, nicLog' \in LogType, nicCase' = nicCase,
         nq' \in Seq(Nat), Len(nq') <= NqLen,
         refs' = refs + (Len(nq') - Len(nq)) + (Weight(cpus'[c], netlock' = c) - Weight(cpus[c], netlock = c)),
         BusyInv', FlushInv', TailInv', RingInv', OrderOK(tx, cpus, nicLog)', RxInv', RxOrder'
  PROVE  NicInv'
  <1>1. refs \in Nat /\ Len(nq) \in Nat /\ Len(nq') \in Nat /\ nicCase \in NicCaseType
    BY DEF NicInv, NicTypes
  <1>2. Weight(cpus'[c], netlock' = c) \in Nat /\ Weight(cpus[c], netlock = c) \in Nat
    BY DEF Weight
  <1>3. refs' \in Int
    <2> DEFINE w == Weight(cpus[c], netlock = c)  w2 == Weight(cpus'[c], netlock' = c)  l == Len(nq)  l2 == Len(nq')
    <2>1. w \in Nat /\ w2 \in Nat /\ l \in Nat /\ l2 \in Nat /\ refs' = refs + (l2 - l) + (w2 - w)
      BY <1>1, <1>2
    <2> HIDE DEF w, w2, l, l2
    <2> QED
      BY <1>1, <2>1
  <1>4. RefsBalanced' /\ refs' \in Nat
    BY <1>3, RefsMove
  <1>5. CpusInv'
    BY CpusMove
  <1>6. NicTypes'
    BY <1>1, <1>4 DEF NicTypes, Only
  <1> QED
    BY <1>4, <1>5, <1>6 DEF NicInv

(* Who takes and gives back the ring.                                       *)
BusyWalk(c, k, b) ==
  /\ k \in Cpu /\ b \in Procs \cup {0} /\ cpus' = [cpus EXCEPT ![c] = k] /\ k.list = cpus[c].list
  /\ UNCHANGED <<netlock, rx, nq, refs, nicLog, nicCase>> /\ tx' = [tx EXCEPT !.busy = b]
  /\ CpuOK(k, netlock = c)
  /\ \/ b = tx.busy /\ (k.pc \in AtRing <=> cpus[c].pc \in AtRing)
     \/ tx.busy = 0 /\ b = c /\ k.pc \in AtRing
     \/ cpus[c].pc \in AtRing /\ b = 0 /\ k.pc \notin AtRing
  /\ cpus[c].pc \notin {"f4", "rx2"} /\ k.pc \notin {"f4", "rx2"}
  /\ Coming(cpus[c]) => Coming(k) \/ \E d \in Procs \ {c} : Coming(cpus[d])
  /\ Weight(k, netlock = c) = Weight(cpus[c], netlock = c)

LEMMA BusyWalks == ASSUME NEW c \in Procs, NicInv, NEW k, NEW b, BusyWalk(c, k, b)  PROVE NicInv'
  <1>0. /\ k \in Cpu /\ b \in Procs \cup {0} /\ cpus' = [cpus EXCEPT ![c] = k] /\ k.list = cpus[c].list
        /\ UNCHANGED <<netlock, rx, nq, refs, nicLog, nicCase>> /\ tx' = [tx EXCEPT !.busy = b]
        /\ CpuOK(k, netlock = c)
        /\ \/ b = tx.busy /\ (k.pc \in AtRing <=> cpus[c].pc \in AtRing)
           \/ tx.busy = 0 /\ b = c /\ k.pc \in AtRing
           \/ cpus[c].pc \in AtRing /\ b = 0 /\ k.pc \notin AtRing
        /\ cpus[c].pc \notin {"f4", "rx2"} /\ k.pc \notin {"f4", "rx2"}
        /\ Coming(cpus[c]) => Coming(k) \/ \E d \in Procs \ {c} : Coming(cpus[d])
        /\ Weight(k, netlock = c) = Weight(cpus[c], netlock = c)
    BY DEF BusyWalk
  <1>1. /\ cpus \in [Procs -> Cpu] /\ netlock \in Procs \cup {0} /\ nq \in Seq(Nat) /\ Len(nq) <= NqLen /\ refs \in Nat
        /\ tx \in TxType /\ rx \in RxType /\ nicLog \in LogType /\ tx.count = Len(tx.pending)
    BY DEF NicInv, NicTypes
  <1>2. cpus'[c] = k /\ Only(c)
    BY <1>0, <1>1 DEF Only
  <1>3. /\ tx' \in TxType /\ tx'.busy = b /\ tx'.count = tx.count /\ SameTx
    BY <1>0, <1>1 DEF TxType, SameTx
  <1>4. BusyInv'
    BY <1>0, <1>2, <1>3, BusyMove
  <1>5. FlushInv' /\ TailInv' /\ RingInv' /\ OrderOK(tx, cpus, nicLog)'
    BY <1>0, <1>2, <1>3, TxQuiet
  <1>6. RxInv' /\ RxOrder'
    <2>1. SameRx /\ rx'.lock = rx.lock
      BY <1>0 DEF SameRx
    <2> QED
      BY <1>0, <1>2, <2>1, RxQuiet
  <1>7. refs' = refs + (Len(nq') - Len(nq)) + (Weight(cpus'[c], netlock' = c) - Weight(cpus[c], netlock = c))
    <2> DEFINE w == Weight(cpus[c], netlock = c)  w2 == Weight(cpus'[c], netlock' = c)  l == Len(nq)  l2 == Len(nq')
    <2>1. w \in Nat /\ w2 = w /\ l \in Nat /\ l2 = l /\ refs' = refs
      BY <1>0, <1>1, <1>2 DEF Weight
    <2> HIDE DEF w, w2, l, l2
    <2>2. refs' = refs + (l2 - l) + (w2 - w)
      BY <1>1, <2>1
    <2> QED
      BY <2>2 DEF w, w2, l, l2
  <1>8. CpuOK(cpus'[c], netlock' = c)
    BY <1>0, <1>2
  <1>9. tx'.count = Len(tx'.pending) /\ rx' \in RxType /\ nicLog' \in LogType /\ nicCase' = nicCase /\ nq' \in Seq(Nat) /\ Len(nq') <= NqLen
    BY <1>0, <1>1, <1>3 DEF SameTx
  <1> QED
    BY <1>2, <1>3, <1>4, <1>5, <1>6, <1>7, <1>8, <1>9, Moves

LEMMA FlushClaimed == ASSUME NicInv, NEW c \in Procs, FlushClaims(c), tx.busy = 0  PROVE NicInv'
  <1> DEFINE k == [cpus[c] EXCEPT !.pc = "f3"]
  <1>1. /\ cpus[c] \in Cpu /\ CpuOK(cpus[c], netlock = c) /\ cpus \in [Procs -> Cpu] /\ 0 \notin Procs /\ tx \in TxType
        /\ tx.busy \in Procs \cup {0} /\ \A d \in Procs : tx.busy = d <=> cpus[d].pc \in AtRing
    BY NicAssumption DEF NicInv, NicTypes, CpusInv, BusyInv, TxType
  <1>2. /\ cpus' = [cpus EXCEPT ![c] = k] /\ k \in Cpu
        /\ k.pc = "f3" /\ k.after = cpus[c].after /\ k.todo = cpus[c].todo /\ k.fret = cpus[c].fret /\ k.tret = cpus[c].tret
        /\ k.list = cpus[c].list /\ k.depth = cpus[c].depth /\ k.bell = cpus[c].bell /\ k.last = cpus[c].last
    BY <1>1 DEF FlushClaims, Goto, Cpu, NicPcs, CpuOK, InFlush, LooksAgain
  <1>3. tx' = [tx EXCEPT !.busy = c] /\ cpus[c].pc = "f2" /\ UNCHANGED <<netlock, rx, nq, refs, nicLog, nicCase>>
    BY <1>1 DEF FlushClaims
  <1> HIDE DEF k
  <1>4. CpuOK(k, netlock = c)
    BY <1>1, <1>2, <1>3 DEF CpuOK, InFlush, Cpu
  <1>5. Weight(k, netlock = c) = Weight(cpus[c], netlock = c)
    <2>1. RingK(k) <=> RingK(cpus[c])
      BY <1>1, <1>2, <1>3 DEF RingK, CpuOK, InFlush, Cpu
    <2>2. HandK(k, netlock = c) <=> HandK(cpus[c], netlock = c)
      BY <1>1, <1>2, <1>3 DEF HandK, CpuOK, InFlush, Cpu
    <2> QED
      BY <2>1, <2>2 DEF Weight
  <1>6. Coming(cpus[c]) => Coming(k) \/ \E d \in Procs \ {c} : Coming(cpus[d])
    BY <1>1, <1>2, <1>3 DEF Coming, InFlush
  <1>7. BusyWalk(c, k, c)
    BY <1>1, <1>2, <1>3, <1>4, <1>5, <1>6 DEF BusyWalk, AtRing, CpuOK, InFlush
  <1> QED
    BY <1>7, BusyWalks

LEMMA FlushLeaves == ASSUME NicInv, NEW c \in Procs, FlushClaims(c), tx.busy # 0  PROVE NicInv'
  <1> DEFINE k == [cpus[c] EXCEPT !.pc = cpus[c].fret]
  <1>1. /\ cpus[c] \in Cpu /\ CpuOK(cpus[c], netlock = c) /\ cpus \in [Procs -> Cpu] /\ 0 \notin Procs /\ tx \in TxType
        /\ tx.busy \in Procs \cup {0} /\ \A d \in Procs : tx.busy = d <=> cpus[d].pc \in AtRing
    BY NicAssumption DEF NicInv, NicTypes, CpusInv, BusyInv, TxType
  <1>2. /\ cpus' = [cpus EXCEPT ![c] = k] /\ k \in Cpu
        /\ k.pc = cpus[c].fret /\ k.after = cpus[c].after /\ k.todo = cpus[c].todo /\ k.fret = cpus[c].fret /\ k.tret = cpus[c].tret
        /\ k.list = cpus[c].list /\ k.depth = cpus[c].depth /\ k.bell = cpus[c].bell /\ k.last = cpus[c].last
    BY <1>1 DEF FlushClaims, Goto, Cpu, NicPcs, CpuOK, InFlush, LooksAgain
  <1>3. tx' = [tx EXCEPT !.busy = tx.busy] /\ cpus[c].pc = "f2" /\ UNCHANGED <<netlock, rx, nq, refs, nicLog, nicCase>>
    BY <1>1 DEF FlushClaims
  <1> HIDE DEF k
  <1>4. CpuOK(k, netlock = c)
    BY <1>1, <1>2, <1>3 DEF CpuOK, InFlush, Cpu
  <1>5. Weight(k, netlock = c) = Weight(cpus[c], netlock = c)
    <2>1. RingK(k) <=> RingK(cpus[c])
      BY <1>1, <1>2, <1>3 DEF RingK, CpuOK, InFlush, Cpu
    <2>2. HandK(k, netlock = c) <=> HandK(cpus[c], netlock = c)
      BY <1>1, <1>2, <1>3 DEF HandK, CpuOK, InFlush, Cpu
    <2> QED
      BY <2>1, <2>2 DEF Weight
  <1>6. Coming(cpus[c]) => Coming(k) \/ \E d \in Procs \ {c} : Coming(cpus[d])
    <2>1. tx.busy \in Procs /\ tx.busy # c /\ cpus[tx.busy].pc \in AtRing
      BY <1>1, <1>3 DEF AtRing
    <2>2. Coming(cpus[tx.busy])
      BY <2>1 DEF Coming, AtRing, InFlush
    <2> QED
      BY <2>1, <2>2
  <1>7. BusyWalk(c, k, tx.busy)
    BY <1>1, <1>2, <1>3, <1>4, <1>5, <1>6 DEF BusyWalk, AtRing, CpuOK, InFlush
  <1> QED
    BY <1>7, BusyWalks

LEMMA FlushReleasesKeeps == ASSUME NicInv, NEW c \in Procs, FlushReleases(c)  PROVE NicInv'
  <1> DEFINE k == [cpus[c] EXCEPT !.pc = "f1"]
  <1>1. /\ cpus[c] \in Cpu /\ CpuOK(cpus[c], netlock = c) /\ cpus \in [Procs -> Cpu] /\ 0 \notin Procs /\ tx \in TxType
        /\ tx.busy \in Procs \cup {0} /\ \A d \in Procs : tx.busy = d <=> cpus[d].pc \in AtRing
    BY NicAssumption DEF NicInv, NicTypes, CpusInv, BusyInv, TxType
  <1>2. /\ cpus' = [cpus EXCEPT ![c] = k] /\ k \in Cpu
        /\ k.pc = "f1" /\ k.after = cpus[c].after /\ k.todo = cpus[c].todo /\ k.fret = cpus[c].fret /\ k.tret = cpus[c].tret
        /\ k.list = cpus[c].list /\ k.depth = cpus[c].depth /\ k.bell = cpus[c].bell /\ k.last = cpus[c].last
    BY <1>1 DEF FlushReleases, Goto, Cpu, NicPcs, CpuOK, InFlush, LooksAgain
  <1>3. tx' = [tx EXCEPT !.busy = 0] /\ cpus[c].pc = "f5" /\ UNCHANGED <<netlock, rx, nq, refs, nicLog, nicCase>>
    BY <1>1 DEF FlushReleases
  <1> HIDE DEF k
  <1>4. CpuOK(k, netlock = c)
    BY <1>1, <1>2, <1>3 DEF CpuOK, InFlush, Cpu
  <1>5. Weight(k, netlock = c) = Weight(cpus[c], netlock = c)
    <2>1. RingK(k) <=> RingK(cpus[c])
      BY <1>1, <1>2, <1>3 DEF RingK, CpuOK, InFlush, Cpu
    <2>2. HandK(k, netlock = c) <=> HandK(cpus[c], netlock = c)
      BY <1>1, <1>2, <1>3 DEF HandK, CpuOK, InFlush, Cpu
    <2> QED
      BY <2>1, <2>2 DEF Weight
  <1>6. Coming(cpus[c]) => Coming(k) \/ \E d \in Procs \ {c} : Coming(cpus[d])
    BY <1>1, <1>2, <1>3 DEF Coming, InFlush
  <1>7. BusyWalk(c, k, 0)
    BY <1>1, <1>2, <1>3, <1>4, <1>5, <1>6 DEF BusyWalk, AtRing, CpuOK, InFlush
  <1> QED
    BY <1>7, BusyWalks

LEMMA ReclaimClaimed == ASSUME NicInv, NEW c \in Procs, ReclaimClaims(c), tx.busy = 0  PROVE NicInv'
  <1> DEFINE k == [cpus[c] EXCEPT !.pc = "reclaim2", !.fret = "exit"]
  <1>1. /\ cpus[c] \in Cpu /\ CpuOK(cpus[c], netlock = c) /\ cpus \in [Procs -> Cpu] /\ 0 \notin Procs /\ tx \in TxType
        /\ tx.busy \in Procs \cup {0} /\ \A d \in Procs : tx.busy = d <=> cpus[d].pc \in AtRing
    BY NicAssumption DEF NicInv, NicTypes, CpusInv, BusyInv, TxType
  <1>2. /\ cpus' = [cpus EXCEPT ![c] = k] /\ k \in Cpu
        /\ k.pc = "reclaim2" /\ k.after = cpus[c].after /\ k.todo = cpus[c].todo /\ k.fret = "exit" /\ k.tret = cpus[c].tret
        /\ k.list = cpus[c].list /\ k.depth = cpus[c].depth /\ k.bell = cpus[c].bell /\ k.last = cpus[c].last
    BY <1>1 DEF ReclaimClaims, Goto, Cpu, NicPcs, CpuOK, InFlush, LooksAgain
  <1>3. tx' = [tx EXCEPT !.busy = c] /\ cpus[c].pc = "reclaim" /\ UNCHANGED <<netlock, rx, nq, refs, nicLog, nicCase>>
    BY <1>1 DEF ReclaimClaims
  <1> HIDE DEF k
  <1>4. CpuOK(k, netlock = c)
    BY <1>1, <1>2, <1>3 DEF CpuOK, InFlush, Cpu
  <1>5. Weight(k, netlock = c) = Weight(cpus[c], netlock = c)
    <2>1. RingK(k) <=> RingK(cpus[c])
      BY <1>1, <1>2, <1>3 DEF RingK, CpuOK, InFlush, Cpu
    <2>2. HandK(k, netlock = c) <=> HandK(cpus[c], netlock = c)
      BY <1>1, <1>2, <1>3 DEF HandK, CpuOK, InFlush, Cpu
    <2> QED
      BY <2>1, <2>2 DEF Weight
  <1>6. Coming(cpus[c]) => Coming(k) \/ \E d \in Procs \ {c} : Coming(cpus[d])
    BY <1>1, <1>2, <1>3 DEF Coming, InFlush
  <1>7. BusyWalk(c, k, c)
    BY <1>1, <1>2, <1>3, <1>4, <1>5, <1>6 DEF BusyWalk, AtRing, CpuOK, InFlush
  <1> QED
    BY <1>7, BusyWalks

LEMMA ReclaimLeaves == ASSUME NicInv, NEW c \in Procs, ReclaimClaims(c), tx.busy # 0  PROVE NicInv'
  <1> DEFINE k == [cpus[c] EXCEPT !.pc = "f1", !.fret = "exit"]
  <1>1. /\ cpus[c] \in Cpu /\ CpuOK(cpus[c], netlock = c) /\ cpus \in [Procs -> Cpu] /\ 0 \notin Procs /\ tx \in TxType
        /\ tx.busy \in Procs \cup {0} /\ \A d \in Procs : tx.busy = d <=> cpus[d].pc \in AtRing
    BY NicAssumption DEF NicInv, NicTypes, CpusInv, BusyInv, TxType
  <1>2. /\ cpus' = [cpus EXCEPT ![c] = k] /\ k \in Cpu
        /\ k.pc = "f1" /\ k.after = cpus[c].after /\ k.todo = cpus[c].todo /\ k.fret = "exit" /\ k.tret = cpus[c].tret
        /\ k.list = cpus[c].list /\ k.depth = cpus[c].depth /\ k.bell = cpus[c].bell /\ k.last = cpus[c].last
    BY <1>1 DEF ReclaimClaims, Goto, Cpu, NicPcs, CpuOK, InFlush, LooksAgain
  <1>3. tx' = [tx EXCEPT !.busy = tx.busy] /\ cpus[c].pc = "reclaim" /\ UNCHANGED <<netlock, rx, nq, refs, nicLog, nicCase>>
    BY <1>1 DEF ReclaimClaims
  <1> HIDE DEF k
  <1>4. CpuOK(k, netlock = c)
    BY <1>1, <1>2, <1>3 DEF CpuOK, InFlush, Cpu
  <1>5. Weight(k, netlock = c) = Weight(cpus[c], netlock = c)
    <2>1. RingK(k) <=> RingK(cpus[c])
      BY <1>1, <1>2, <1>3 DEF RingK, CpuOK, InFlush, Cpu
    <2>2. HandK(k, netlock = c) <=> HandK(cpus[c], netlock = c)
      BY <1>1, <1>2, <1>3 DEF HandK, CpuOK, InFlush, Cpu
    <2> QED
      BY <2>1, <2>2 DEF Weight
  <1>6. Coming(cpus[c]) => Coming(k) \/ \E d \in Procs \ {c} : Coming(cpus[d])
    BY <1>1, <1>2, <1>3 DEF Coming, InFlush
  <1>7. BusyWalk(c, k, tx.busy)
    BY <1>1, <1>2, <1>3, <1>4, <1>5, <1>6 DEF BusyWalk, AtRing, CpuOK, InFlush
  <1> QED
    BY <1>7, BusyWalks

(* A step of a CPU that works on the transmit side, with what is left to     *)
(* show of it; and one that works on the receive side.                       *)
TxWalk(c, k) ==
  /\ k \in Cpu /\ cpus' = [cpus EXCEPT ![c] = k] /\ UNCHANGED <<netlock, rx, nq, nicCase>>
  /\ cpus[c].pc # "rx2" /\ k.pc # "rx2" /\ CpuOK(k, netlock = c)
  /\ tx' \in TxType /\ tx'.count = Len(tx'.pending)
  /\ nicLog' \in LogType /\ nicLog'.handed = nicLog.handed /\ nicLog'.arrived = nicLog.arrived
  /\ \/ tx'.busy = tx.busy /\ (k.pc \in AtRing <=> cpus[c].pc \in AtRing)
     \/ cpus[c].pc \in AtRing /\ tx'.busy = 0 /\ k.pc \notin AtRing
  /\ Coming(k)
  /\ k.pc = "f4" \/ tx'.tail = tx'.cur \/ (cpus[c].pc # "f4" /\ tx'.tail = tx.tail /\ tx'.cur = tx.cur)
  /\ RingInv' /\ OrderOK(tx', cpus', nicLog')
  /\ refs' = refs + (Weight(k, netlock = c) - Weight(cpus[c], netlock = c))

LEMMA TxWalks == ASSUME NEW c \in Procs, NicInv, NEW k, TxWalk(c, k)  PROVE NicInv'
  <1>1. /\ cpus \in [Procs -> Cpu] /\ netlock \in Procs \cup {0} /\ nq \in Seq(Nat) /\ Len(nq) <= NqLen /\ refs \in Nat
        /\ rx \in RxType
    BY DEF NicInv, NicTypes
  <1>2. cpus'[c] = k /\ Only(c)
    BY <1>1 DEF Only, TxWalk
  <1>3. BusyInv'
    <2>1. \/ tx'.busy = tx.busy /\ (k.pc \in AtRing <=> cpus[c].pc \in AtRing)
          \/ cpus[c].pc \in AtRing /\ tx'.busy = 0 /\ k.pc \notin AtRing
      BY DEF TxWalk
    <2> QED
      BY <1>2, <2>1, BusyMove
  <1>4. FlushInv'
    BY <1>2 DEF FlushInv, TxWalk
  <1>5. TailInv'
    <2>1. SUFFICES ASSUME tx'.tail # tx'.cur, k.pc # "f4"  PROVE \E d \in Procs : cpus'[d].pc = "f4"
      BY <1>2 DEF TailInv
    <2>2. cpus[c].pc # "f4" /\ tx.tail # tx.cur
      BY <2>1 DEF TxWalk
    <2>3. PICK d \in Procs : cpus[d].pc = "f4"
      BY <2>2 DEF NicInv, TailInv
    <2> QED
      BY <1>2, <2>2, <2>3 DEF Only
  <1>6. RxInv' /\ RxOrder'
    <2>1. SameRx /\ rx'.lock = rx.lock /\ cpus[c].pc # "rx2" /\ k.pc # "rx2"
      BY DEF SameRx, TxWalk
    <2> QED
      BY <1>2, <2>1, RxQuiet
  <1>7. refs' = refs + (Len(nq') - Len(nq)) + (Weight(cpus'[c], netlock' = c) - Weight(cpus[c], netlock = c))
    <2> DEFINE w == Weight(cpus[c], netlock = c)  w2 == Weight(cpus'[c], netlock' = c)  l == Len(nq)  l2 == Len(nq')
    <2>1. w \in Nat /\ w2 \in Nat /\ l \in Nat /\ l2 = l /\ refs' = refs + (w2 - w)
      BY <1>1, <1>2 DEF Weight, TxWalk
    <2> HIDE DEF w, w2, l, l2
    <2>2. refs' = refs + (l2 - l) + (w2 - w)
      BY <1>1, <2>1
    <2> QED
      BY <2>2 DEF w, w2, l, l2
  <1>8. /\ CpuOK(cpus'[c], netlock' = c) /\ RingInv' /\ OrderOK(tx, cpus, nicLog)' /\ tx' \in TxType /\ tx'.count = Len(tx'.pending)
        /\ nicLog' \in LogType /\ nicCase' = nicCase /\ rx' \in RxType /\ nq' \in Seq(Nat) /\ Len(nq') <= NqLen
    BY <1>1, <1>2 DEF TxWalk
  <1> QED
    BY <1>2, <1>3, <1>4, <1>5, <1>6, <1>7, <1>8, Moves

RxWalk(c, k) ==
  /\ k \in Cpu /\ cpus' = [cpus EXCEPT ![c] = k] /\ UNCHANGED <<netlock, tx, nicCase>>
  /\ cpus[c].pc \notin AtRing /\ k.pc \notin AtRing /\ k.list = cpus[c].list /\ CpuOK(k, netlock = c)
  /\ Coming(cpus[c]) => Coming(k)
  /\ rx' \in RxType /\ RxInv' /\ RxOrder' /\ nq' \in Seq(Nat) /\ Len(nq') <= NqLen
  /\ nicLog' \in LogType /\ nicLog'.wire = nicLog.wire /\ nicLog'.pushed = nicLog.pushed /\ nicLog'.live = nicLog.live
  /\ refs' = refs + (Len(nq') - Len(nq)) + (Weight(k, netlock = c) - Weight(cpus[c], netlock = c))

LEMMA RxWalks == ASSUME NEW c \in Procs, NicInv, NEW k, RxWalk(c, k)  PROVE NicInv'
  <1>1. cpus \in [Procs -> Cpu] /\ netlock \in Procs \cup {0} /\ tx \in TxType /\ tx.count = Len(tx.pending)
    BY DEF NicInv, NicTypes
  <1>2. cpus'[c] = k /\ Only(c)
    BY <1>1 DEF Only, RxWalk
  <1>3. BusyInv'
    <2>1. tx'.busy = tx.busy /\ (k.pc \in AtRing <=> cpus[c].pc \in AtRing)
      BY DEF RxWalk
    <2> QED
      BY <1>2, <2>1, BusyMove
  <1>4. FlushInv' /\ TailInv' /\ RingInv' /\ OrderOK(tx, cpus, nicLog)'
    <2>1. SameTx /\ k.list = cpus[c].list /\ cpus[c].pc # "f4" /\ (Coming(cpus[c]) => Coming(k))
      BY DEF SameTx, RxWalk, AtRing
    <2> QED
      BY <1>2, <2>1, TxQuiet
  <1>5. /\ CpuOK(cpus'[c], netlock' = c) /\ RxInv' /\ RxOrder' /\ tx' \in TxType /\ tx'.count = Len(tx'.pending)
        /\ nicLog' \in LogType /\ nicCase' = nicCase /\ rx' \in RxType /\ nq' \in Seq(Nat) /\ Len(nq') <= NqLen
    BY <1>1, <1>2 DEF RxWalk
  <1>6. refs' = refs + (Len(nq') - Len(nq)) + (Weight(cpus'[c], netlock' = c) - Weight(cpus[c], netlock = c))
    BY <1>2 DEF RxWalk
  <1> QED
    BY <1>2, <1>3, <1>4, <1>5, <1>6, Moves

(* e1000_transmit, and what the CPU at the ring does.                       *)
LEMMA TransmitKeeps == ASSUME NicInv, NEW c \in Procs, e1000_transmit(c)  PROVE NicInv'
  <1> DEFINE f == nicLog.pushed + 1
             rings == tx.count + 1 >= TxBatch \/ ~netif_tx_defer(c)
             next == [cpus[c] EXCEPT !.todo = Tail(cpus[c].todo), !.fret = "tx"]
             k == IF rings THEN [next EXCEPT !.pc = "f1"] ELSE [next EXCEPT !.bell = TRUE]
  <1>1. /\ cpus[c] \in Cpu /\ CpuOK(cpus[c], netlock = c) /\ cpus \in [Procs -> Cpu] /\ refs \in Nat /\ tx \in TxType
        /\ nicLog \in LogType /\ tx.count = Len(tx.pending) /\ OrderOK(tx, cpus, nicLog) /\ RingInv
    BY DEF NicInv, NicTypes, CpusInv
  <1>2. /\ cpus[c].pc = "tx" /\ cpus[c].todo # <<>> /\ cpus' = [cpus EXCEPT ![c] = k]
        /\ tx' = [tx EXCEPT !.pending = <<f>> \o tx.pending, !.count = tx.count + 1]
        /\ nicLog' = [nicLog EXCEPT !.pushed = f, !.live = nicLog.live \cup {f}]
        /\ refs' = (IF ~rings /\ ~cpus[c].bell THEN refs + 1 ELSE refs) /\ UNCHANGED <<netlock, rx, nq, nicCase>>
    BY DEF e1000_transmit
  <1>3. /\ k.pc = (IF rings THEN "f1" ELSE "tx") /\ k.bell = (~rings \/ cpus[c].bell) /\ k.fret = "tx" /\ k.tret = cpus[c].tret
        /\ k.list = cpus[c].list /\ k.depth = cpus[c].depth /\ k.after = cpus[c].after
    <2>1. CASE rings
      BY <1>1, <1>2, <2>1 DEF Cpu
    <2>2. CASE ~rings
      BY <1>1, <1>2, <2>2 DEF Cpu
    <2> QED
      BY <2>1, <2>2
  <1>4. k \in Cpu
    <2>1. Tail(cpus[c].todo) \in Seq({"wire"})
      BY <1>1, <1>2 DEF Cpu
    <2>2. next \in Cpu
      BY <1>1, <2>1 DEF Cpu
    <2> HIDE DEF next
    <2> QED
      BY <2>2 DEF Cpu, NicPcs
  <1>5. cpus[c].list = <<>> /\ (~rings => netlock = c) /\ rings \in BOOLEAN
    BY <1>1, <1>2 DEF CpuOK, netif_tx_defer
  <1> HIDE DEF k, next, rings
  <1>6. CpuOK(k, netlock = c)
    BY <1>1, <1>2, <1>3, <1>5 DEF CpuOK, InFlush
  <1>7. /\ tx' \in TxType /\ tx'.pending = <<f>> \o tx.pending /\ tx'.count = tx.count + 1 /\ tx'.nb = tx.nb /\ tx'.addr = tx.addr /\ tx'.dd = tx.dd
        /\ tx'.cur = tx.cur /\ tx'.clean = tx.clean /\ tx'.tail = tx.tail /\ tx'.head = tx.head /\ tx'.busy = tx.busy
    <2>1. f \in Nat
      BY <1>1 DEF LogType
    <2> HIDE DEF f
    <2>2. <<f>> \o tx.pending \in Seq(Nat) /\ tx.count + 1 \in Nat
      BY <1>1, <2>1 DEF TxType
    <2> QED
      BY <1>1, <1>2, <2>2 DEF TxType
  <1>8. tx'.count = Len(tx'.pending)
    <2>1. tx.pending \in Seq(Nat)
      BY <1>1 DEF TxType
    <2>2. Len(<<f>> \o tx.pending) = 1 + Len(tx.pending)
      BY <2>1
    <2> QED
      BY <1>1, <1>7, <2>1, <2>2
  <1>9. OrderOK(tx', cpus', nicLog') /\ nicLog' \in LogType
    <2>1. \A d \in Procs : cpus'[d].list = cpus[d].list
      BY <1>1, <1>2, <1>3
    <2>2. f = nicLog.pushed + 1
      OBVIOUS
    <2> HIDE DEF f
    <2>3. Pushes(cpus, cpus', tx, tx', nicLog, nicLog', f)
      BY <1>1, <1>2, <1>7, <2>1, <2>2 DEF Pushes
    <2> QED
      BY <2>3, OrderPush
  <1>10. RingInv'
    <2>1. PICK C, H, E, D \in Nat : RingAt(tx, C, H, E, D)
      BY <1>1 DEF RingInv
    <2>2. RingAt(tx', C, H, E, D)
      BY <1>7, <2>1 DEF RingAt
    <2> QED
      BY <2>2 DEF RingInv
  <1>11. refs' = refs + (Weight(k, netlock = c) - Weight(cpus[c], netlock = c))
    <2>1. RingK(k) <=> ~rings \/ cpus[c].bell
      BY <1>3 DEF RingK
    <2>2. RingK(cpus[c]) <=> cpus[c].bell
      BY <1>1, <1>2 DEF RingK, CpuOK, InFlush
    <2>3. HandK(k, netlock = c) <=> HandK(cpus[c], netlock = c)
      BY <1>2, <1>3, <1>5 DEF HandK
    <2> QED
      BY <1>1, <1>2, <2>1, <2>2, <2>3 DEF Weight
  <1>12. TxWalk(c, k)
    <2>1. k.pc \notin AtRing /\ cpus[c].pc \notin AtRing /\ cpus[c].pc # "rx2" /\ k.pc # "rx2" /\ cpus[c].pc # "f4" /\ Coming(k)
      BY <1>2, <1>3, <1>5 DEF AtRing, Coming, InFlush
    <2>2. nicLog'.handed = nicLog.handed /\ nicLog'.arrived = nicLog.arrived
      BY <1>1, <1>2 DEF LogType
    <2> QED
      BY <1>2, <1>4, <1>6, <1>7, <1>8, <1>9, <1>10, <1>11, <2>1, <2>2 DEF TxWalk
  <1> QED
    BY <1>12, TxWalks

(* The CPU at the ring; nobody else has a list.                             *)
LEMMA AtRingAlone == ASSUME NicInv, NEW c \in Procs, cpus[c].pc \in AtRing
  PROVE  tx.busy = c /\ \A d \in Procs \ {c} : cpus[d].pc \notin AtRing /\ cpus[d].list = <<>>
  <1>1. \A d \in Procs : (tx.busy = d <=> cpus[d].pc \in AtRing) /\ (cpus[d].list # <<>> => cpus[d].pc = "f4")
    BY DEF NicInv, BusyInv, CpusInv, CpuOK
  <1> QED
    BY <1>1 DEF AtRing

LEMMA FlushTakesKeeps == ASSUME NicInv, NEW c \in Procs, FlushTakes(c)  PROVE NicInv'
  <1> DEFINE k == [cpus[c] EXCEPT !.pc = "f4", !.list = Oldest(tx.pending)]
             T == [tx EXCEPT !.pending = <<>>, !.count = tx.count - Len(tx.pending)]
             r == e1000_reclaim_tx(T, nicLog.live)
  <1>1. /\ cpus[c] \in Cpu /\ CpuOK(cpus[c], netlock = c) /\ cpus \in [Procs -> Cpu] /\ refs \in Nat /\ tx \in TxType
        /\ nicLog \in LogType /\ tx.count = Len(tx.pending) /\ OrderOK(tx, cpus, nicLog) /\ RingInv
    BY DEF NicInv, NicTypes, CpusInv
  <1>2. /\ cpus[c].pc = "f3" /\ cpus' = [cpus EXCEPT ![c] = k] /\ tx' = r.t /\ nicLog' = [nicLog EXCEPT !.live = r.live]
        /\ refs' = refs /\ UNCHANGED <<netlock, rx, nq, nicCase>>
    BY DEF FlushTakes
  <1>3. \A d \in Procs : cpus[d].list = <<>>
    <2>1. \A d \in Procs \ {c} : cpus[d].list = <<>>
      BY <1>2, AtRingAlone DEF AtRing
    <2> QED
      BY <1>1, <1>2, <2>1 DEF CpuOK
  <1>4. /\ k.pc = "f4" /\ k.bell = cpus[c].bell /\ k.fret = cpus[c].fret /\ k.tret = cpus[c].tret
        /\ k.list = Oldest(tx.pending) /\ k.depth = cpus[c].depth /\ k.after = cpus[c].after
    BY <1>1 DEF Cpu
  <1>5. /\ T \in TxType /\ T.pending = <<>> /\ T.count = 0 /\ T.nb = tx.nb /\ T.addr = tx.addr /\ T.dd = tx.dd
        /\ T.cur = tx.cur /\ T.clean = tx.clean /\ T.tail = tx.tail /\ T.head = tx.head /\ T.busy = tx.busy
    <2>1. tx.count - Len(tx.pending) = 0 /\ <<>> \in Seq(Nat)
      BY <1>1 DEF TxType
    <2>2. T = [tx EXCEPT !.pending = <<>>, !.count = 0]
      BY <2>1
    <2> HIDE DEF T
    <2> QED
      BY <1>1, <2>1, <2>2 DEF TxType
  <1> HIDE DEF T
  <1>6. OrderOK(T, cpus', nicLog) /\ Oldest(tx.pending) \in Seq(Nat)
    <2>1. cpus'[c].list = Oldest(tx.pending) /\ \A d \in Procs : d # c => cpus'[d].list = <<>>
      BY <1>1, <1>2, <1>3, <1>4
    <2> QED
      BY <1>1, <1>3, <1>5, <2>1, OrderTakes
  <1>7. k \in Cpu /\ cpus' \in [Procs -> Cpu]
    <2>1. k \in Cpu
      BY <1>1, <1>6 DEF Cpu, NicPcs
    <2> HIDE DEF k
    <2> QED
      BY <1>1, <1>2, <2>1
  <1> HIDE DEF k, r
  <1>8. PICK C, H, E, D \in Nat : RingAt(tx, C, H, E, D)
    BY <1>1 DEF RingInv
  <1>9. RingAt(T, C, H, E, D)
    BY <1>5, <1>8 DEF RingAt
  <1>10. /\ tx' \in TxType /\ RingAt(tx', H, H, E, D) /\ tx'.pending = <<>> /\ tx'.count = 0 /\ tx'.busy = tx.busy
    BY <1>2, <1>5, <1>9, RingReclaim DEF r
  <1>11. OrderOK(tx', cpus', nicLog') /\ nicLog' \in LogType
    BY <1>1, <1>2, <1>5, <1>6, <1>7, <1>9, OrderReclaim DEF r
  <1>12. CpuOK(k, netlock = c)
    BY <1>1, <1>2, <1>4 DEF CpuOK, InFlush
  <1>13. refs' = refs + (Weight(k, netlock = c) - Weight(cpus[c], netlock = c))
    <2>1. (RingK(k) <=> RingK(cpus[c])) /\ (HandK(k, netlock = c) <=> HandK(cpus[c], netlock = c))
      BY <1>2, <1>4 DEF RingK, HandK
    <2> QED
      BY <1>1, <1>2, <2>1 DEF Weight
  <1>14. TxWalk(c, k)
    <2>1. k.pc \in AtRing /\ cpus[c].pc \in AtRing /\ cpus[c].pc # "rx2" /\ k.pc # "rx2" /\ Coming(k)
      BY <1>2, <1>4 DEF AtRing, Coming, InFlush
    <2>2. nicLog'.handed = nicLog.handed /\ nicLog'.arrived = nicLog.arrived
      BY <1>1, <1>2 DEF LogType
    <2>3. tx'.count = Len(tx'.pending) /\ RingInv'
      BY <1>10 DEF RingInv
    <2> QED
      BY <1>2, <1>4, <1>7, <1>10, <1>11, <1>12, <1>13, <2>1, <2>2, <2>3 DEF TxWalk
  <1> QED
    BY <1>14, TxWalks

LEMMA FlushRingsKeeps == ASSUME NicInv, NEW c \in Procs, FlushRings(c)  PROVE NicInv'
  <1> DEFINE k == [cpus[c] EXCEPT !.pc = "f5"]
  <1>1. /\ cpus[c] \in Cpu /\ CpuOK(cpus[c], netlock = c) /\ cpus \in [Procs -> Cpu] /\ refs \in Nat /\ tx \in TxType
        /\ nicLog \in LogType /\ tx.count = Len(tx.pending) /\ OrderOK(tx, cpus, nicLog) /\ RingInv
    BY DEF NicInv, NicTypes, CpusInv
  <1>2. /\ cpus[c].pc = "f4" /\ cpus[c].list = <<>> /\ cpus' = [cpus EXCEPT ![c] = k] /\ tx' = e1000_tx_ring_doorbell(tx)
        /\ UNCHANGED <<netlock, rx, nq, refs, nicLog, nicCase>>
    BY DEF FlushRings, Goto
  <1>3. /\ k.pc = "f5" /\ k.bell = cpus[c].bell /\ k.fret = cpus[c].fret /\ k.tret = cpus[c].tret
        /\ k.list = cpus[c].list /\ k.depth = cpus[c].depth /\ k.after = cpus[c].after /\ k \in Cpu
    BY <1>1 DEF Cpu, NicPcs
  <1> HIDE DEF k
  <1>4. PICK C, H, E, D \in Nat : RingAt(tx, C, H, E, D)
    BY <1>1 DEF RingInv
  <1>5. /\ tx' \in TxType /\ RingAt(tx', C, H, D, D) /\ tx'.tail = tx'.cur
        /\ tx'.pending = tx.pending /\ tx'.count = tx.count /\ tx'.busy = tx.busy /\ tx'.nb = tx.nb /\ tx'.addr = tx.addr
    BY <1>1, <1>2, <1>4, RingRings
  <1>6. OrderOK(tx', cpus', nicLog')
    <2>1. \A d \in Procs : cpus'[d].list = cpus[d].list
      BY <1>1, <1>2, <1>3
    <2> QED
      BY <1>1, <1>2, <1>5, <2>1, OrderSame
  <1>7. CpuOK(k, netlock = c)
    BY <1>1, <1>2, <1>3 DEF CpuOK, InFlush
  <1>8. refs' = refs + (Weight(k, netlock = c) - Weight(cpus[c], netlock = c))
    <2>1. (RingK(k) <=> RingK(cpus[c])) /\ (HandK(k, netlock = c) <=> HandK(cpus[c], netlock = c))
      BY <1>2, <1>3 DEF RingK, HandK
    <2> QED
      BY <1>1, <1>2, <2>1 DEF Weight
  <1>9. TxWalk(c, k)
    <2>1. k.pc \in AtRing /\ cpus[c].pc \in AtRing /\ cpus[c].pc # "rx2" /\ k.pc # "rx2" /\ Coming(k)
      BY <1>2, <1>3 DEF AtRing, Coming, InFlush
    <2>2. nicLog' \in LogType /\ nicLog'.handed = nicLog.handed /\ nicLog'.arrived = nicLog.arrived
      BY <1>1, <1>2
    <2>3. tx'.count = Len(tx'.pending) /\ RingInv'
      BY <1>1, <1>5 DEF RingInv
    <2> QED
      BY <1>2, <1>3, <1>5, <1>6, <1>7, <1>8, <2>1, <2>2, <2>3 DEF TxWalk
  <1> QED
    BY <1>9, TxWalks

LEMMA TryReclaimKeeps == ASSUME NicInv, NEW c \in Procs, e1000_tx_try_reclaim(c)  PROVE NicInv'
  <1> DEFINE k == [cpus[c] EXCEPT !.pc = "f1"]
             r == e1000_reclaim_tx(tx, nicLog.live)
  <1>1. /\ cpus[c] \in Cpu /\ CpuOK(cpus[c], netlock = c) /\ cpus \in [Procs -> Cpu] /\ refs \in Nat /\ tx \in TxType
        /\ nicLog \in LogType /\ tx.count = Len(tx.pending) /\ OrderOK(tx, cpus, nicLog) /\ RingInv
    BY DEF NicInv, NicTypes, CpusInv
  <1>2. /\ cpus[c].pc = "reclaim2" /\ cpus' = [cpus EXCEPT ![c] = k] /\ tx' = [r.t EXCEPT !.busy = 0]
        /\ nicLog' = [nicLog EXCEPT !.live = r.live] /\ UNCHANGED <<netlock, rx, nq, refs, nicCase>>
    BY DEF e1000_tx_try_reclaim, Goto
  <1>3. /\ k.pc = "f1" /\ k.bell = cpus[c].bell /\ k.fret = cpus[c].fret /\ k.tret = cpus[c].tret
        /\ k.list = cpus[c].list /\ k.depth = cpus[c].depth /\ k.after = cpus[c].after /\ k \in Cpu
    BY <1>1 DEF Cpu, NicPcs
  <1> HIDE DEF k, r
  <1>4. PICK C, H, E, D \in Nat : RingAt(tx, C, H, E, D)
    BY <1>1 DEF RingInv
  <1>5. /\ r.t \in TxType /\ RingAt(r.t, H, H, E, D)
        /\ r.t.pending = tx.pending /\ r.t.count = tx.count /\ r.t.addr = tx.addr /\ r.t.tail = tx.tail /\ r.t.cur = tx.cur
    BY <1>1, <1>4, RingReclaim DEF r
  <1>6. OrderOK(r.t, cpus, nicLog') /\ nicLog' \in LogType
    BY <1>1, <1>2, <1>4, OrderReclaim DEF r
  <1>7. /\ tx' \in TxType /\ tx'.pending = r.t.pending /\ tx'.count = r.t.count /\ tx'.nb = r.t.nb /\ tx'.addr = r.t.addr /\ tx'.dd = r.t.dd
        /\ tx'.cur = r.t.cur /\ tx'.clean = r.t.clean /\ tx'.tail = r.t.tail /\ tx'.head = r.t.head /\ tx'.busy = 0
    BY <1>2, <1>5 DEF TxType
  <1>8. OrderOK(tx', cpus', nicLog')
    <2>1. \A d \in Procs : cpus'[d].list = cpus[d].list
      BY <1>1, <1>2, <1>3
    <2> QED
      BY <1>6, <1>7, <2>1, OrderSame
  <1>9. RingInv'
    <2>1. RingAt(tx', H, H, E, D)
      BY <1>5, <1>7 DEF RingAt
    <2> QED
      BY <2>1 DEF RingInv
  <1>10. CpuOK(k, netlock = c)
    BY <1>1, <1>2, <1>3 DEF CpuOK, InFlush
  <1>11. refs' = refs + (Weight(k, netlock = c) - Weight(cpus[c], netlock = c))
    <2>1. (RingK(k) <=> RingK(cpus[c])) /\ ~HandK(k, netlock = c) /\ ~HandK(cpus[c], netlock = c)
      BY <1>1, <1>2, <1>3 DEF RingK, HandK, CpuOK
    <2> QED
      BY <1>1, <1>2, <2>1 DEF Weight
  <1>12. TxWalk(c, k)
    <2>1. k.pc \notin AtRing /\ cpus[c].pc \in AtRing /\ cpus[c].pc \notin {"rx2", "f4"} /\ k.pc # "rx2" /\ Coming(k)
      BY <1>2, <1>3 DEF AtRing, Coming, InFlush
    <2>2. nicLog'.handed = nicLog.handed /\ nicLog'.arrived = nicLog.arrived
      BY <1>1, <1>2 DEF LogType
    <2>3. tx'.count = Len(tx'.pending)
      BY <1>1, <1>5, <1>7
    <2> QED
      BY <1>2, <1>3, <1>5, <1>6, <1>7, <1>8, <1>9, <1>10, <1>11, <2>1, <2>2, <2>3 DEF TxWalk
  <1> QED
    BY <1>12, TxWalks

(* One frame to the ring: first the ring is seen to, then the frame is put   *)
(* there or dropped.                                                         *)
Ready(T, L) ==
  /\ T \in TxType /\ L \in LogType /\ (\E C, H, E, D \in Nat : RingAt(T, C, H, E, D)) /\ OrderOK(T, cpus, L)
  /\ T.pending = tx.pending /\ T.count = tx.count /\ T.busy = tx.busy
  /\ L.handed = nicLog.handed /\ L.arrived = nicLog.arrived

LEMMA EnqueueReadies ==
  ASSUME NicInv, NEW r,
         r = IF e1000_tx_free(tx) < TxBatch THEN e1000_reclaim_tx(e1000_tx_ring_doorbell(tx), nicLog.live) ELSE [t |-> tx, live |-> nicLog.live]
  PROVE  Ready(r.t, [nicLog EXCEPT !.live = r.live])
  <1>1. /\ cpus \in [Procs -> Cpu] /\ tx \in TxType /\ nicLog \in LogType /\ OrderOK(tx, cpus, nicLog) /\ RingInv
    BY DEF NicInv, NicTypes
  <1>2. PICK C, H, E, D \in Nat : RingAt(tx, C, H, E, D)
    BY <1>1 DEF RingInv
  <1>3. CASE e1000_tx_free(tx) < TxBatch
    <2> DEFINE B == e1000_tx_ring_doorbell(tx)  L == [nicLog EXCEPT !.live = r.live]
    <2>1. /\ B \in TxType /\ RingAt(B, C, H, D, D) /\ B.pending = tx.pending /\ B.count = tx.count /\ B.busy = tx.busy
          /\ B.nb = tx.nb /\ B.addr = tx.addr
      BY <1>1, <1>2, RingRings
    <2>2. r = e1000_reclaim_tx(B, nicLog.live)
      BY <1>3
    <2> HIDE DEF B
    <2>3. OrderOK(B, cpus, nicLog)
      BY <1>1, <2>1, OrderSame
    <2>4. r.t \in TxType /\ RingAt(r.t, H, H, D, D) /\ r.t.pending = B.pending /\ r.t.count = B.count /\ r.t.busy = B.busy
      BY <2>1, <2>2, RingReclaim
    <2>5. L = [nicLog EXCEPT !.live = r.live]
      OBVIOUS
    <2>6. L.handed = nicLog.handed /\ L.arrived = nicLog.arrived
      BY <1>1 DEF LogType
    <2> HIDE DEF L
    <2>7. OrderOK(r.t, cpus, L) /\ L \in LogType
      BY <1>1, <2>1, <2>2, <2>3, <2>5, OrderReclaim
    <2>8. Ready(r.t, L)
      BY <2>1, <2>4, <2>6, <2>7 DEF Ready
    <2> QED
      BY <2>5, <2>8
  <1>4. CASE ~(e1000_tx_free(tx) < TxBatch)
    <2>1. r.t = tx /\ r.live = nicLog.live
      BY <1>4
    <2>2. [nicLog EXCEPT !.live = r.live] = nicLog
      BY <1>1, <2>1 DEF LogType
    <2>3. Ready(tx, nicLog)
      BY <1>1, <1>2 DEF Ready
    <2> QED
      BY <2>1, <2>2, <2>3
  <1> QED
    BY <1>3, <1>4

(* What the frame does to the ring, the list and the log.                   *)
Put(c, T, L) ==
  /\ T \in TxType /\ L \in LogType /\ (\E C, H, E, D \in Nat : RingAt(T, C, H, E, D)) /\ OrderOK(T, cpus', L)
  /\ T.pending = tx.pending /\ T.count = tx.count /\ T.busy = tx.busy
  /\ L.handed = nicLog.handed /\ L.arrived = nicLog.arrived

LEMMA EnqueueDrops ==
  ASSUME NEW c, NEW T, NEW L, NEW f, Takes(c, cpus, cpus', T, L, f), Ready(T, L), NEW L2, L2 = [L EXCEPT !.live = L.live \ {f}]
  PROVE  Put(c, T, L2)
  <1>1. OrderOK(T, cpus', L2) /\ L2 \in LogType
    BY OrderDrop
  <1>2. L2.handed = L.handed /\ L2.arrived = L.arrived
    BY DEF Ready, LogType
  <1> QED
    BY <1>1, <1>2 DEF Ready, Put

LEMMA EnqueueFills ==
  ASSUME NEW c, NEW T, NEW L, NEW f, Takes(c, cpus, cpus', T, L, f), Ready(T, L), Parts(f) <= e1000_tx_free(T),
         NEW U, U = Filled(T, f)
  PROVE  Put(c, U, L)
  <1>1. f \in Nat \ {0} /\ Waits(T, cpus, f)
    BY WaitsLess
  <1>2. PICK C, H, E, D \in Nat : RingAt(T, C, H, E, D)
    BY DEF Ready
  <1>3. T \in TxType /\ L \in LogType /\ \A i \in TxIndex : T.nb[i] < f
    BY <1>1 DEF Ready, OrderOK
  <1> DEFINE n == Parts(f)
  <1>4. n \in Nat
    BY <1>1, NicAssumption DEF Parts
  <1>5. D + n < C + NTx
    <2>1. C <= D /\ D < C + NTx /\ T.cur = Ix(D) /\ T.clean = Ix(C) /\ NTx \in Nat
      BY <1>2, NicAssumption DEF RingAt
    <2>2. (Ix(D) + NTx - Ix(C)) % NTx = D - C
      BY <2>1, IxDiff
    <2>3. e1000_tx_free(T) = (NTx - 1) - (D - C)
      BY <2>1, <2>2 DEF e1000_tx_free
    <2>4. n <= (NTx - 1) - (D - C)
      BY <2>3
    <2> HIDE DEF n
    <2> QED
      BY <1>4, <2>1, <2>4
  <1>6. n = Parts(f)
    OBVIOUS
  <1> HIDE DEF n
  <1>7. /\ U \in TxType /\ RingAt(U, C, H, E, D + n) /\ U.pending = T.pending /\ U.count = T.count /\ U.busy = T.busy
        /\ \A i \in TxIndex : U.nb[i] \in {0, f, T.nb[i]} /\ U.addr[i] \in {f, -f, T.addr[i]}
    BY <1>1, <1>2, <1>3, <1>5, <1>6, RingFills
  <1>8. OrderOK(U, cpus', L)
    BY <1>7, OrderFill
  <1>9. D + n \in Nat
    BY <1>4
  <1> QED
    BY <1>7, <1>8, <1>9 DEF Ready, Put

LEMMA EnqueueRings ==
  ASSUME NEW c, NEW T, NEW L, Put(c, T, L), NEW U, U = e1000_tx_ring_doorbell(T)
  PROVE  Put(c, U, L)
  <1>1. PICK C, H, E, D \in Nat : RingAt(T, C, H, E, D)
    BY DEF Put
  <1>2. /\ U \in TxType /\ RingAt(U, C, H, D, D) /\ U.pending = T.pending /\ U.count = T.count /\ U.busy = T.busy /\ U.nb = T.nb /\ U.addr = T.addr
    BY <1>1, RingRings DEF Put
  <1>3. OrderOK(U, cpus', L)
    BY <1>2, OrderSame DEF Put
  <1> QED
    BY <1>2, <1>3 DEF Put

LEMMA EnqueueKeeps == ASSUME NicInv, NEW c \in Procs, e1000_tx_enqueue(c)  PROVE NicInv'
  <1> DEFINE k == [cpus[c] EXCEPT !.list = Tail(cpus[c].list)]
             f == Head(cpus[c].list)
             r == IF e1000_tx_free(tx) < TxBatch THEN e1000_reclaim_tx(e1000_tx_ring_doorbell(tx), nicLog.live)
                  ELSE [t |-> tx, live |-> nicLog.live]
             L == [nicLog EXCEPT !.live = r.live]
             U == Filled(r.t, f)
  <1>1. /\ cpus[c] \in Cpu /\ CpuOK(cpus[c], netlock = c) /\ cpus \in [Procs -> Cpu] /\ refs \in Nat /\ tx \in TxType
        /\ nicLog \in LogType /\ tx.count = Len(tx.pending)
    BY DEF NicInv, NicTypes, CpusInv
  <1>2. /\ cpus[c].pc = "f4" /\ cpus[c].list # <<>> /\ cpus' = [cpus EXCEPT ![c] = k] /\ UNCHANGED <<netlock, rx, nq, refs, nicCase>>
        /\ \/ Parts(f) > e1000_tx_free(r.t) /\ tx' = r.t /\ nicLog' = [nicLog EXCEPT !.live = r.live \ {f}]
           \/ ~(Parts(f) > e1000_tx_free(r.t)) /\ tx' \in {U, e1000_tx_ring_doorbell(U)} /\ nicLog' = L
    BY DEF e1000_tx_enqueue
  <1>3. /\ k.pc = "f4" /\ k.bell = cpus[c].bell /\ k.fret = cpus[c].fret /\ k.tret = cpus[c].tret
        /\ k.list = Tail(cpus[c].list) /\ k.depth = cpus[c].depth /\ k.after = cpus[c].after /\ k \in Cpu
    <2>1. Tail(cpus[c].list) \in Seq(Nat)
      BY <1>1, <1>2 DEF Cpu
    <2> QED
      BY <1>1, <1>2, <2>1 DEF Cpu
  <1> HIDE DEF k, r
  <1>4. Ready(r.t, L)
    BY EnqueueReadies DEF r
  <1>5. [nicLog EXCEPT !.live = r.live \ {f}] = [L EXCEPT !.live = L.live \ {f}]
    <2>1. L.live = r.live
      BY <1>1 DEF LogType
    <2> QED
      BY <1>1, <2>1 DEF LogType
  <1> HIDE DEF L, U
  <1>6. Takes(c, cpus, cpus', r.t, L, f)
    <2>1. \A d \in Procs \ {c} : cpus'[d].list = cpus[d].list /\ cpus[d].list = <<>>
      BY <1>1, <1>2, AtRingAlone DEF AtRing
    <2>2. cpus'[c].list = Tail(cpus[c].list)
      BY <1>1, <1>2, <1>3
    <2> QED
      BY <1>1, <1>2, <1>4, <2>1, <2>2 DEF Takes, Shorter, Ready
  <1> HIDE DEF f
  <1>7. Put(c, tx', nicLog')
    <2>1. CASE Parts(f) > e1000_tx_free(r.t)
      BY <1>2, <1>4, <1>5, <1>6, <2>1, EnqueueDrops
    <2>2. CASE ~(Parts(f) > e1000_tx_free(r.t))
      <3>1. Parts(f) <= e1000_tx_free(r.t)
        <4>1. f \in Nat \ {0}
          BY <1>6, WaitsLess
        <4>2. Parts(f) \in Int
          BY <4>1, NicAssumption DEF Parts
        <4>3. e1000_tx_free(r.t) \in Int
          <5>0. r.t.cur \in TxIndex /\ r.t.clean \in TxIndex
            BY <1>4 DEF Ready, TxType
          <5>1. r.t.cur \in Nat /\ r.t.clean \in Int /\ NTx \in Nat /\ NTx > 1
            BY <5>0, NicAssumption DEF TxIndex
          <5> QED
            BY <5>1 DEF e1000_tx_free
        <4> QED
          BY <2>2, <4>2, <4>3
      <3>2. Put(c, U, L)
        BY <1>4, <1>6, <3>1, EnqueueFills DEF U
      <3>3. Put(c, e1000_tx_ring_doorbell(U), L)
        BY <3>2, EnqueueRings
      <3> QED
        BY <1>2, <2>2, <3>2, <3>3
    <2> QED
      BY <2>1, <2>2
  <1>8. CpuOK(k, netlock = c)
    BY <1>1, <1>2, <1>3 DEF CpuOK, InFlush
  <1>9. refs' = refs + (Weight(k, netlock = c) - Weight(cpus[c], netlock = c))
    <2>1. (RingK(k) <=> RingK(cpus[c])) /\ (HandK(k, netlock = c) <=> HandK(cpus[c], netlock = c))
      BY <1>2, <1>3 DEF RingK, HandK
    <2> QED
      BY <1>1, <1>2, <2>1 DEF Weight
  <1>10. TxWalk(c, k)
    <2>1. k.pc \in AtRing /\ cpus[c].pc \in AtRing /\ cpus[c].pc # "rx2" /\ k.pc # "rx2" /\ Coming(k)
      BY <1>2, <1>3 DEF AtRing, Coming, InFlush
    <2>2. RingInv' /\ tx'.count = Len(tx'.pending)
      BY <1>1, <1>7 DEF Put, RingInv
    <2>3. /\ tx' \in TxType /\ nicLog' \in LogType /\ OrderOK(tx', cpus', nicLog') /\ tx'.busy = tx.busy
          /\ nicLog'.handed = nicLog.handed /\ nicLog'.arrived = nicLog.arrived
      BY <1>7 DEF Put
    <2> QED
      BY <1>2, <1>3, <1>8, <1>9, <2>1, <2>2, <2>3 DEF TxWalk
  <1> QED
    BY <1>10, TxWalks

(* The card takes the next descriptor.                                      *)
LEMMA CardSendsKeeps == ASSUME NicInv, CardSends  PROVE NicInv'
  <1>1. /\ cpus \in [Procs -> Cpu] /\ tx \in TxType /\ nicLog \in LogType /\ tx.count = Len(tx.pending) /\ OrderOK(tx, cpus, nicLog) /\ RingInv
    BY DEF NicInv, NicTypes
  <1>2. /\ tx.head # tx.tail /\ UNCHANGED <<cpus, netlock, rx, nq, refs, nicCase>>
        /\ tx' = [tx EXCEPT !.dd[tx.head] = TRUE, !.addr[tx.head] = 0, !.head = (tx.head + 1) % NTx]
        /\ nicLog' = [nicLog EXCEPT !.wire = IF tx.addr[tx.head] > 0 THEN Append(nicLog.wire, tx.addr[tx.head]) ELSE nicLog.wire]
    BY DEF CardSends
  <1>3. PICK C, H, E, D \in Nat : RingAt(tx, C, H, E, D)
    BY <1>1 DEF RingInv
  <1>4. /\ tx' \in TxType /\ RingAt(tx', C, H + 1, E, D) /\ H < D /\ tx.head = Ix(H)
        /\ tx'.pending = tx.pending /\ tx'.count = tx.count /\ tx'.busy = tx.busy /\ tx'.nb = tx.nb
        /\ tx'.addr = [tx.addr EXCEPT ![tx.head] = 0] /\ tx'.tail = tx.tail /\ tx'.cur = tx.cur
    <2>1. SentOne(tx, C, H, E, D, tx')
      BY <1>1, <1>2, <1>3 DEF SentOne
    <2> QED
      BY <1>3, <2>1, RingSends
  <1>5. OrderOK(tx', cpus, nicLog') /\ nicLog' \in LogType
    <2>1. OnWire(tx, tx', cpus, nicLog, nicLog')
      BY <1>1, <1>2, <1>4 DEF OnWire
    <2> QED
      BY <1>3, <1>4, <2>1, OrderSends
  <1>6. RingInv'
    <2>1. H + 1 \in Nat
      OBVIOUS
    <2> QED
      BY <1>4, <2>1 DEF RingInv
  <1>7. nicLog'.handed = nicLog.handed /\ nicLog'.arrived = nicLog.arrived
    BY <1>1, <1>2 DEF LogType
  <1>8. RxInv' /\ RxOrder'
    <2>1. PICK c1, h1, e1 \in Nat : RxAt(rx, nq, nicLog, c1, h1, e1) /\ LastAt(cpus, c1)
      BY DEF NicInv, RxInv
    <2>2. RxAt(rx, nq, nicLog', c1, h1, e1)
      BY <1>7, <2>1, RxSameAt
    <2>3. RxInv'
      BY <1>2, <2>1, <2>2 DEF NicInv, RxInv, LastAt
    <2>4. RxOrder'
      BY <1>2, <1>7 DEF NicInv, RxOrder
    <2> QED
      BY <2>3, <2>4
  <1>9. NicTypes'
    BY <1>1, <1>2, <1>4, <1>5 DEF NicInv, NicTypes
  <1>10. CpusInv' /\ BusyInv' /\ FlushInv' /\ TailInv'
    BY <1>2, <1>4 DEF NicInv, CpusInv, BusyInv, FlushInv, TailInv
  <1>11. RefsBalanced'
    BY <1>2 DEF NicInv, RefsBalanced, Ringing, Handling
  <1> QED
    BY <1>2, <1>5, <1>6, <1>8, <1>9, <1>10, <1>11 DEF NicInv

(* The receive side.                                                        *)
LEMMA RxLocksKeeps == ASSUME NicInv, NEW c \in Procs, RxLocks(c)  PROVE NicInv'
  <1> DEFINE k == [cpus[c] EXCEPT !.pc = "rx2", !.last = -1]
  <1>1. /\ cpus[c] \in Cpu /\ CpuOK(cpus[c], netlock = c) /\ cpus \in [Procs -> Cpu] /\ refs \in Nat /\ rx \in RxType
        /\ nicLog \in LogType /\ nq \in Seq(Nat) /\ Len(nq) <= NqLen /\ RxInv /\ RxOrder /\ 0 \notin Procs
    BY NicAssumption DEF NicInv, NicTypes, CpusInv
  <1>2. /\ cpus[c].pc = "rx1" /\ rx.lock = 0 /\ rx' = [rx EXCEPT !.lock = c] /\ cpus' = [cpus EXCEPT ![c] = k]
        /\ UNCHANGED <<netlock, tx, nq, refs, nicLog, nicCase>>
    BY DEF RxLocks
  <1>3. /\ k.pc = "rx2" /\ k.bell = cpus[c].bell /\ k.fret = cpus[c].fret /\ k.tret = cpus[c].tret /\ k.last = -1
        /\ k.list = cpus[c].list /\ k.depth = cpus[c].depth /\ k.after = cpus[c].after /\ k \in Cpu
    <2>1. PICK m \in Int : m = -1
      OBVIOUS
    <2>2. k = [cpus[c] EXCEPT !.pc = "rx2", !.last = m]
      BY <2>1
    <2> HIDE DEF k
    <2> QED
      BY <1>1, <2>1, <2>2 DEF Cpu, NicPcs
  <1> HIDE DEF k
  <1>4. /\ rx' \in RxType /\ rx'.lock = c /\ rx'.dd = rx.dd /\ rx'.pkt = rx.pkt /\ rx'.cur = rx.cur /\ rx'.head = rx.head /\ rx'.tail = rx.tail
    BY <1>1, <1>2 DEF RxType
  <1>5. cpus'[c] = k /\ \A d \in Procs \ {c} : cpus'[d] = cpus[d] /\ cpus[d].pc # "rx2"
    BY <1>1, <1>2 DEF RxInv
  <1>6. RxInv'
    <2>1. PICK C, H, E \in Nat : RxAt(rx, nq, nicLog, C, H, E) /\ LastAt(cpus, C)
      BY <1>1 DEF RxInv
    <2>2. RxAt(rx', nq', nicLog', C, H, E)
      BY <1>2, <1>4, <2>1, RxSameAt
    <2>3. LastAt(cpus', C)
      BY <1>3, <1>5 DEF LastAt
    <2>4. \A d \in Procs : rx'.lock = d <=> cpus'[d].pc = "rx2"
      BY <1>3, <1>4, <1>5
    <2> QED
      BY <2>2, <2>3, <2>4 DEF RxInv
  <1>7. RxOrder'
    BY <1>1, <1>2 DEF RxOrder
  <1>8. CpuOK(k, netlock = c)
    BY <1>1, <1>2, <1>3 DEF CpuOK, InFlush
  <1>9. refs' = refs + (Len(nq') - Len(nq)) + (Weight(k, netlock = c) - Weight(cpus[c], netlock = c))
    <2>1. (RingK(k) <=> RingK(cpus[c])) /\ (HandK(k, netlock = c) <=> HandK(cpus[c], netlock = c))
      BY <1>2, <1>3 DEF RingK, HandK
    <2>2. Weight(k, netlock = c) = Weight(cpus[c], netlock = c) /\ Weight(k, netlock = c) \in Nat /\ Len(nq) \in Nat
      BY <1>1, <2>1 DEF Weight
    <2> QED
      BY <1>1, <1>2, <2>2
  <1>10. RxWalk(c, k)
    <2>1. cpus[c].pc \notin AtRing /\ k.pc \notin AtRing /\ (Coming(cpus[c]) => Coming(k))
      BY <1>2, <1>3 DEF AtRing, Coming, InFlush
    <2> QED
      BY <1>1, <1>2, <1>3, <1>4, <1>6, <1>7, <1>8, <1>9, <2>1 DEF RxWalk
  <1> QED
    BY <1>10, RxWalks

LEMMA RxUnlocksKeeps == ASSUME NicInv, NEW c \in Procs, RxUnlocks(c)  PROVE NicInv'
  <1> DEFINE k == [cpus[c] EXCEPT !.pc = cpus[c].after]
  <1>1. /\ cpus[c] \in Cpu /\ CpuOK(cpus[c], netlock = c) /\ cpus \in [Procs -> Cpu] /\ refs \in Nat /\ rx \in RxType
        /\ nicLog \in LogType /\ nq \in Seq(Nat) /\ Len(nq) <= NqLen /\ RxInv /\ RxOrder /\ 0 \notin Procs
    BY NicAssumption DEF NicInv, NicTypes, CpusInv
  <1>2. /\ cpus[c].pc = "rx2" /\ ~rx.dd[rx.cur] /\ cpus' = [cpus EXCEPT ![c] = k]
        /\ rx' = [rx EXCEPT !.lock = 0, !.tail = IF cpus[c].last >= 0 THEN cpus[c].last ELSE rx.tail]
        /\ UNCHANGED <<netlock, tx, nq, refs, nicLog, nicCase>>
    BY DEF RxUnlocks, Goto
  <1>3. /\ k.pc = cpus[c].after /\ k.bell = cpus[c].bell /\ k.fret = cpus[c].fret /\ k.tret = cpus[c].tret
        /\ k.list = cpus[c].list /\ k.depth = cpus[c].depth /\ k.after = cpus[c].after /\ k \in Cpu
    BY <1>1 DEF Cpu, NicPcs
  <1> HIDE DEF k
  <1>4. cpus[c].after = "poll" \/ (cpus[c].after = "reclaim" /\ netlock = c)
    BY <1>1, <1>2 DEF CpuOK
  <1>5. cpus'[c] = k /\ \A d \in Procs \ {c} : cpus'[d] = cpus[d] /\ cpus[d].pc # "rx2"
    BY <1>1, <1>2 DEF RxInv
  <1>6. PICK C, H, E \in Nat : RxAt(rx, nq, nicLog, C, H, E) /\ LastAt(cpus, C)
    BY <1>1 DEF RxInv
  <1>7. PICK F \in Nat : /\ (IF cpus[c].last >= 0 THEN cpus[c].last ELSE rx.tail) = Jx(F)
                         /\ H <= F /\ F < C + NRx
    <2>1. /\ C <= H /\ H <= E /\ E < C + NRx /\ rx.tail = Jx(E) /\ rx.cur = Jx(C) /\ NRx \in Nat /\ NRx > 1
      BY <1>6, NicAssumption DEF RxAt
    <2>2. C = H
      <3>1. ~(C < H)
        <4>1. C < H => C \in C..(H - 1)
          OBVIOUS
        <4> QED
          BY <1>2, <1>6, <2>1, <4>1 DEF RxAt
      <3> QED
        BY <2>1, <3>1
    <2>3. CASE cpus[c].last >= 0
      <3>1. cpus[c].last = Jx(C + NRx - 1)
        BY <1>2, <1>6, <2>3 DEF LastAt
      <3>2. C + NRx - 1 \in Nat /\ H <= C + NRx - 1 /\ C + NRx - 1 < C + NRx
        BY <2>1, <2>2
      <3> QED
        BY <2>3, <3>1, <3>2
    <2>4. CASE ~(cpus[c].last >= 0)
      BY <2>1, <2>4
    <2> QED
      BY <2>3, <2>4
  <1>8. /\ rx' \in RxType /\ rx'.lock = 0 /\ rx'.dd = rx.dd /\ rx'.pkt = rx.pkt /\ rx'.cur = rx.cur /\ rx'.head = rx.head /\ rx'.tail = Jx(F)
    <2>1. Jx(F) \in RxIndex
      BY JxIn
    <2>2. rx' = [rx EXCEPT !.lock = 0, !.tail = Jx(F)]
      BY <1>2, <1>7
    <2> QED
      BY <1>1, <2>1, <2>2 DEF RxType
  <1>9. RxInv'
    <2>1. RxAt(rx', nq', nicLog', C, H, F)
      BY <1>2, <1>6, <1>7, <1>8 DEF RxAt
    <2>2. LastAt(cpus', C)
      BY <1>3, <1>4, <1>5 DEF LastAt
    <2>3. \A d \in Procs : rx'.lock = d <=> cpus'[d].pc = "rx2"
      BY <1>1, <1>3, <1>4, <1>5, <1>8
    <2> QED
      BY <2>1, <2>2, <2>3 DEF RxInv
  <1>10. RxOrder'
    BY <1>1, <1>2 DEF RxOrder
  <1>11. CpuOK(k, netlock = c)
    BY <1>1, <1>2, <1>3, <1>4 DEF CpuOK, InFlush
  <1>12. refs' = refs + (Len(nq') - Len(nq)) + (Weight(k, netlock = c) - Weight(cpus[c], netlock = c))
    <2>1. (RingK(k) <=> RingK(cpus[c])) /\ (HandK(k, netlock = c) <=> HandK(cpus[c], netlock = c))
      BY <1>1, <1>2, <1>3, <1>4 DEF RingK, HandK, CpuOK, InFlush
    <2>2. Weight(k, netlock = c) = Weight(cpus[c], netlock = c) /\ Weight(k, netlock = c) \in Nat /\ Len(nq) \in Nat
      BY <1>1, <2>1 DEF Weight
    <2> QED
      BY <1>1, <1>2, <2>2
  <1>13. RxWalk(c, k)
    <2>1. cpus[c].pc \notin AtRing /\ k.pc \notin AtRing /\ (Coming(cpus[c]) => Coming(k))
      BY <1>2, <1>3, <1>4 DEF AtRing, Coming, InFlush
    <2> QED
      BY <1>1, <1>2, <1>3, <1>8, <1>9, <1>10, <1>11, <1>12, <2>1 DEF RxWalk
  <1> QED
    BY <1>13, RxWalks

LEMMA ReceiveKeeps == ASSUME NicInv, NEW c \in Procs, e1000_handle_receive(c)  PROVE NicInv'
  <1> DEFINE k == [cpus[c] EXCEPT !.last = rx.cur]
  <1>1. /\ cpus[c] \in Cpu /\ CpuOK(cpus[c], netlock = c) /\ cpus \in [Procs -> Cpu] /\ refs \in Nat /\ rx \in RxType
        /\ nicLog \in LogType /\ nq \in Seq(Nat) /\ Len(nq) <= NqLen /\ RxInv /\ RxOrder /\ 0 \notin Procs /\ NqLen \in Nat
    BY NicAssumption DEF NicInv, NicTypes, CpusInv
  <1>2. /\ cpus[c].pc = "rx2" /\ rx.dd[rx.cur] /\ cpus' = [cpus EXCEPT ![c] = k]
        /\ rx' = [rx EXCEPT !.dd = Clears(rx.dd, rx.cur), !.cur = (rx.cur + 1) % NRx]
        /\ UNCHANGED <<netlock, tx, nicLog, nicCase>>
        /\ \/ nq' = nq /\ refs' = refs
           \/ Len(nq) < NqLen /\ nq' = Append(nq, rx.pkt[rx.cur]) /\ refs' = refs + 1
    BY DEF e1000_handle_receive, netisr_queue, netqueue_enqueue, TakesRef
  <1>3. /\ k.pc = "rx2" /\ k.bell = cpus[c].bell /\ k.fret = cpus[c].fret /\ k.tret = cpus[c].tret /\ k.last = rx.cur
        /\ k.list = cpus[c].list /\ k.depth = cpus[c].depth /\ k.after = cpus[c].after /\ k \in Cpu
    <2>1. rx.cur \in Int
      <3>1. rx.cur \in RxIndex
        BY <1>1 DEF RxType
      <3> QED
        BY <3>1, NicAssumption DEF RxIndex
    <2> QED
      BY <1>1, <1>2, <2>1 DEF Cpu
  <1> HIDE DEF k
  <1>4. cpus'[c] = k /\ rx.lock = c /\ \A d \in Procs \ {c} : cpus'[d] = cpus[d] /\ cpus[d].pc # "rx2"
    BY <1>1, <1>2 DEF RxInv
  <1>5. PICK C, H, E \in Nat : RxAt(rx, nq, nicLog, C, H, E) /\ LastAt(cpus, C)
    BY <1>1 DEF RxInv
  <1>6. Rising(nicLog.handed \o nq)
    BY <1>1 DEF RxOrder, Rising
  <1>7. /\ rx' \in RxType /\ RxAt(rx', nq', nicLog, C + 1, H, E) /\ Rising(nicLog.handed \o nq') /\ nq' \in Seq(Nat) /\ rx'.lock = rx.lock
        /\ rx.cur = Jx((C + 1) + NRx - 1)
    <2>1. Took(rx, nq, nicLog, C, H, E, rx', nq')
      BY <1>1, <1>2, <1>5, <1>6 DEF Took
    <2> QED
      BY <1>5, <2>1, RxTaken
  <1>8. RxInv'
    <2>1. LastAt(cpus', C + 1)
      BY <1>3, <1>4, <1>7 DEF LastAt
    <2>2. \A d \in Procs : rx'.lock = d <=> cpus'[d].pc = "rx2"
      BY <1>3, <1>4, <1>7
    <2>3. C + 1 \in Nat /\ RxAt(rx', nq', nicLog', C + 1, H, E)
      BY <1>2, <1>7
    <2> QED
      BY <2>1, <2>2, <2>3 DEF RxInv
  <1>9. RxOrder'
    BY <1>2, <1>7 DEF RxOrder, Rising
  <1>10. CpuOK(k, netlock = c)
    BY <1>1, <1>2, <1>3 DEF CpuOK, InFlush
  <1>11. /\ refs' = refs + (Len(nq') - Len(nq)) + (Weight(k, netlock = c) - Weight(cpus[c], netlock = c))
         /\ Len(nq') <= NqLen
    <2>1. (RingK(k) <=> RingK(cpus[c])) /\ (HandK(k, netlock = c) <=> HandK(cpus[c], netlock = c))
      BY <1>2, <1>3 DEF RingK, HandK
    <2>2. Weight(k, netlock = c) = Weight(cpus[c], netlock = c) /\ Weight(k, netlock = c) \in Nat /\ Len(nq) \in Nat
      BY <1>1, <2>1 DEF Weight
    <2>3. CASE nq' = nq /\ refs' = refs
      BY <1>1, <2>2, <2>3
    <2>4. CASE Len(nq) < NqLen /\ nq' = Append(nq, rx.pkt[rx.cur]) /\ refs' = refs + 1
      <3>1. Len(nq') = Len(nq) + 1
        BY <1>1, <2>4
      <3> QED
        BY <1>1, <2>2, <2>4, <3>1
    <2> QED
      BY <1>2, <2>3, <2>4
  <1>12. RxWalk(c, k)
    <2>1. cpus[c].pc \notin AtRing /\ k.pc \notin AtRing /\ (Coming(cpus[c]) => Coming(k))
      BY <1>2, <1>3 DEF AtRing, Coming, InFlush
    <2> QED
      BY <1>1, <1>2, <1>3, <1>7, <1>8, <1>9, <1>10, <1>11, <2>1 DEF RxWalk
  <1> QED
    BY <1>12, RxWalks

LEMMA InterruptKeeps == ASSUME NicInv, NEW c \in Procs, e1000_interrupt(c)  PROVE NicInv'
  <1> DEFINE k == [CpuIdle EXCEPT !.pc = "rx1", !.after = "poll"]
  <1>1. /\ cpus[c] \in Cpu /\ CpuOK(cpus[c], netlock = c) /\ cpus \in [Procs -> Cpu] /\ refs \in Nat /\ rx \in RxType
        /\ nicLog \in LogType /\ nq \in Seq(Nat) /\ Len(nq) <= NqLen
    BY DEF NicInv, NicTypes, CpusInv
  <1>2. /\ cpus[c].pc = "idle" /\ cpus' = [cpus EXCEPT ![c] = k] /\ rx' = [rx EXCEPT !.icr = FALSE]
        /\ UNCHANGED <<netlock, tx, nq, refs, nicLog, nicCase>>
    BY DEF e1000_interrupt
  <1>3. /\ k \in Cpu /\ k.pc = "rx1" /\ k.after = "poll" /\ k.fret = "fin" /\ k.tret = "poll" /\ k.list = <<>> /\ k.depth = 0 /\ k.bell = FALSE
    BY IdleIs DEF Cpu, NicPcs
  <1> HIDE DEF k
  <1>4. cpus[c] = CpuIdle /\ cpus[c].list = <<>> /\ cpus[c].bell = FALSE /\ cpus[c].fret = "fin" /\ netlock # c
    BY <1>1, <1>2, IdleIs DEF CpuOK
  <1>5. rx' \in RxType /\ SameRx /\ rx'.lock = rx.lock
    BY <1>1, <1>2 DEF RxType, SameRx
  <1>6. RxInv' /\ RxOrder'
    <2>1. Only(c) /\ cpus'[c] = k
      BY <1>1, <1>2, <1>3 DEF Only, NicInv, NicTypes
    <2> QED
      BY <1>2, <1>3, <1>5, <2>1, RxQuiet
  <1>7. CpuOK(k, netlock = c)
    BY <1>3, <1>4 DEF CpuOK, InFlush
  <1>8. refs' = refs + (Len(nq') - Len(nq)) + (Weight(k, netlock = c) - Weight(cpus[c], netlock = c))
    <2>1. ~RingK(k) /\ ~RingK(cpus[c]) /\ ~HandK(k, netlock = c) /\ ~HandK(cpus[c], netlock = c)
      BY <1>3, <1>4 DEF RingK, HandK
    <2>2. Weight(k, netlock = c) = 0 /\ Weight(cpus[c], netlock = c) = 0 /\ Len(nq) \in Nat
      BY <1>1, <2>1 DEF Weight
    <2> QED
      BY <1>1, <1>2, <2>2
  <1>9. RxWalk(c, k)
    <2>1. cpus[c].pc \notin AtRing /\ k.pc \notin AtRing /\ ~Coming(cpus[c])
      BY <1>2, <1>3, <1>4 DEF AtRing, Coming, InFlush
    <2> QED
      BY <1>1, <1>2, <1>3, <1>4, <1>5, <1>6, <1>7, <1>8, <2>1 DEF RxWalk
  <1> QED
    BY <1>9, RxWalks

LEMMA DrainEnds == ASSUME NicInv, NEW c \in Procs, netisr_drain(c), nq = <<>>  PROVE NicInv'
  <1> DEFINE k == [cpus[c] EXCEPT !.pc = "exit"]
  <1>1. /\ cpus[c] \in Cpu /\ CpuOK(cpus[c], netlock = c) /\ cpus \in [Procs -> Cpu] /\ refs \in Nat /\ nicCase \in NicCaseType
    BY DEF NicInv, NicTypes, CpusInv
  <1>2. /\ cpus[c].pc = "drain" /\ cpus' = [cpus EXCEPT ![c] = k] /\ UNCHANGED <<netlock, tx, rx, nq, refs, nicLog, nicCase>>
    BY DEF netisr_drain, Goto
  <1>3. /\ k.pc = "exit" /\ k.bell = cpus[c].bell /\ k.fret = cpus[c].fret /\ k.tret = cpus[c].tret
        /\ k.list = cpus[c].list /\ k.depth = cpus[c].depth /\ k.after = cpus[c].after /\ k \in Cpu
    BY <1>1 DEF Cpu, NicPcs
  <1> HIDE DEF k
  <1>4. CpuOK(k, netlock' = c)
    BY <1>1, <1>2, <1>3 DEF CpuOK, InFlush
  <1>5. refs' = refs + (Weight(k, netlock' = c) - Weight(cpus[c], netlock = c))
    <2>1. (RingK(k) <=> RingK(cpus[c])) /\ ~HandK(k, netlock' = c) /\ ~HandK(cpus[c], netlock = c)
      BY <1>2, <1>3 DEF RingK, HandK
    <2> QED
      BY <1>1, <1>2, <2>1 DEF Weight
  <1>6. Walk(c, k)
    BY <1>1, <1>2, <1>3, <1>4, <1>5 DEF Walk, AtRing, Coming, InFlush
  <1> QED
    BY <1>6, Walks

(* A packet goes from the queue to its protocol, which may answer.          *)
LEMMA DrainHands == ASSUME NicInv, NEW c \in Procs, netisr_drain(c), nq # <<>>  PROVE NicInv'
  <1>1. /\ cpus[c] \in Cpu /\ CpuOK(cpus[c], netlock = c) /\ cpus \in [Procs -> Cpu] /\ refs \in Nat /\ rx \in RxType
        /\ nicLog \in LogType /\ nq \in Seq(Nat) /\ Len(nq) <= NqLen /\ NqLen \in Nat /\ RxInv /\ RxOrder
    BY NicAssumption DEF NicInv, NicTypes, CpusInv
  <1> DEFINE echo == Head(nq) \in nicCase.echo
             k == IF echo THEN [cpus[c] EXCEPT !.pc = "tx", !.todo = <<"wire">>, !.tret = "rele"] ELSE cpus[c]
  <1>2. /\ cpus[c].pc = "drain" /\ nq' = Tail(nq) /\ refs' = (IF echo THEN refs ELSE refs - 1)
        /\ nicLog' = [nicLog EXCEPT !.handed = Append(nicLog.handed, Head(nq))] /\ UNCHANGED <<netlock, tx, rx, nicCase>>
    BY DEF netisr_drain
  <1>3. cpus' = [cpus EXCEPT ![c] = k]
    <2>1. CASE echo
      BY <2>1 DEF netisr_drain
    <2>2. CASE ~echo
      <3>1. cpus' = cpus /\ k = cpus[c]
        BY <2>2 DEF netisr_drain
      <3> HIDE DEF k
      <3> QED
        BY <1>1, <3>1
    <2> QED
      BY <2>1, <2>2
  <1>4. /\ k.pc = (IF echo THEN "tx" ELSE "drain") /\ k.bell = cpus[c].bell /\ k.fret = cpus[c].fret
        /\ k.tret = (IF echo THEN "rele" ELSE cpus[c].tret)
        /\ k.list = cpus[c].list /\ k.depth = cpus[c].depth /\ k.after = cpus[c].after /\ k \in Cpu
    <2>1. CASE echo
      <3>1. <<"wire">> \in Seq({"wire"})
        OBVIOUS
      <3>2. PICK todo \in Seq({"wire"}) : todo = <<"wire">>
        BY <3>1
      <3>3. k = [cpus[c] EXCEPT !.pc = "tx", !.todo = todo, !.tret = "rele"]
        BY <2>1, <3>2
      <3> HIDE DEF k
      <3> QED
        BY <1>1, <2>1, <3>2, <3>3 DEF Cpu, NicPcs
    <2>2. CASE ~echo
      BY <1>1, <1>2, <2>2
    <2> QED
      BY <2>1, <2>2
  <1>5. echo \in BOOLEAN /\ netlock = c
    BY <1>1, <1>2 DEF CpuOK
  <1> HIDE DEF k, echo
  <1>6. Head(nq) \in Nat /\ Tail(nq) \in Seq(Nat) /\ Len(Tail(nq)) = Len(nq) - 1 /\ Len(nq) \in Nat
    BY <1>1
  <1>7. /\ nicLog' \in LogType /\ nicLog'.handed = Append(nicLog.handed, Head(nq)) /\ nicLog'.arrived = nicLog.arrived
        /\ nicLog'.wire = nicLog.wire /\ nicLog'.pushed = nicLog.pushed /\ nicLog'.live = nicLog.live /\ nicLog.handed \in Seq(Nat)
    <2>1. nicLog.handed \in Seq(Nat)
      BY <1>1 DEF LogType
    <2>2. Append(nicLog.handed, Head(nq)) \in Seq(Nat)
      BY <1>6, <2>1
    <2> QED
      BY <1>1, <1>2, <2>1, <2>2 DEF LogType
  <1>8. nicLog'.handed \o nq' = nicLog.handed \o nq
    BY <1>1, <1>2, <1>7, RxHands
  <1>9. RxOrder'
    BY <1>1, <1>8 DEF RxOrder
  <1>10. RxInv'
    <2>1. PICK C, H, E \in Nat : RxAt(rx, nq, nicLog, C, H, E) /\ LastAt(cpus, C)
      BY <1>1 DEF RxInv
    <2>2. RxAt(rx', nq', nicLog', C, H, E)
      BY <1>2, <1>7, <1>8, <2>1 DEF RxAt
    <2>3. cpus'[c] = k /\ \A d \in Procs \ {c} : cpus'[d] = cpus[d]
      BY <1>1, <1>3
    <2>4. LastAt(cpus', C)
      BY <1>4, <2>1, <2>3 DEF LastAt
    <2>5. \A d \in Procs : rx'.lock = d <=> cpus'[d].pc = "rx2"
      BY <1>1, <1>2, <1>4, <2>3 DEF RxInv
    <2> QED
      BY <2>2, <2>4, <2>5 DEF RxInv
  <1>11. CpuOK(k, netlock = c)
    BY <1>1, <1>2, <1>4, <1>5 DEF CpuOK, InFlush
  <1>12. refs' = refs + (Len(nq') - Len(nq)) + (Weight(k, netlock = c) - Weight(cpus[c], netlock = c))
    <2>1. (RingK(k) <=> RingK(cpus[c])) /\ (HandK(k, netlock = c) <=> echo) /\ ~HandK(cpus[c], netlock = c)
      BY <1>1, <1>2, <1>4, <1>5 DEF RingK, HandK, CpuOK, InFlush
    <2>2. Weight(k, netlock = c) - Weight(cpus[c], netlock = c) = (IF echo THEN 1 ELSE 0)
      BY <2>1 DEF Weight
    <2> QED
      BY <1>1, <1>2, <1>6, <2>2
  <1>13. RxWalk(c, k)
    <2>1. cpus[c].pc \notin AtRing /\ k.pc \notin AtRing /\ (Coming(cpus[c]) => Coming(k))
      BY <1>2, <1>4 DEF AtRing, Coming, InFlush
    <2>2. nq' \in Seq(Nat) /\ Len(nq') <= NqLen /\ rx' \in RxType
      BY <1>1, <1>2, <1>6
    <2> QED
      BY <1>2, <1>3, <1>4, <1>7, <1>9, <1>10, <1>11, <1>12, <2>1, <2>2 DEF RxWalk
  <1> QED
    BY <1>13, RxWalks

(* A packet arrives, and is stored if the card has a descriptor.            *)
LEMMA CardReceivesKeeps == ASSUME NicInv, CardReceives  PROVE NicInv'
  <1>1. /\ nicLog \in LogType /\ rx \in RxType /\ nq \in Seq(Nat)
    BY DEF NicInv, NicTypes
  <1>2. /\ UNCHANGED <<cpus, netlock, tx, nq, refs, nicCase>> /\ nicLog' = [nicLog EXCEPT !.arrived = nicLog.arrived + 1]
        /\ \/ rx.head = rx.tail /\ rx' = [rx EXCEPT !.icr = TRUE]
           \/ /\ rx.head # rx.tail
              /\ rx' = [rx EXCEPT !.icr = TRUE, !.dd[rx.head] = TRUE, !.pkt[rx.head] = nicLog.arrived + 1, !.head = (rx.head + 1) % NRx]
    BY DEF CardReceives
  <1>3. PICK C, H, E \in Nat : RxAt(rx, nq, nicLog, C, H, E) /\ LastAt(cpus, C)
    BY DEF NicInv, RxInv
  <1>4. /\ nicLog' \in LogType /\ nicLog'.handed = nicLog.handed /\ nicLog'.wire = nicLog.wire
        /\ nicLog'.pushed = nicLog.pushed /\ nicLog'.live = nicLog.live
    <2>1. nicLog.arrived \in Nat
      BY <1>1 DEF LogType
    <2>2. nicLog.arrived + 1 \in Nat
      BY <2>1
    <2> QED
      BY <1>1, <1>2, <2>2 DEF LogType
  <1>5. rx' \in RxType /\ rx'.lock = rx.lock /\ \E h \in Nat : RxAt(rx', nq, nicLog', C, h, E)
    <2>1. CASE rx.head = rx.tail /\ rx' = [rx EXCEPT !.icr = TRUE]
      <3>1. /\ rx' \in RxType /\ rx'.lock = rx.lock /\ rx'.dd = rx.dd /\ rx'.pkt = rx.pkt /\ rx'.cur = rx.cur
            /\ rx'.head = rx.head /\ rx'.tail = rx.tail
        BY <1>1, <2>1 DEF RxType
      <3>2. RxAt(rx, nq, nicLog', C, H, E)
        BY <1>1, <1>2, <1>3, RxArrives
      <3>3. RxAt(rx', nq, nicLog', C, H, E)
        BY <3>1, <3>2, RxSameAt
      <3> QED
        BY <3>1, <3>3
    <2>2. CASE /\ rx.head # rx.tail
               /\ rx' = [rx EXCEPT !.icr = TRUE, !.dd[rx.head] = TRUE, !.pkt[rx.head] = nicLog.arrived + 1, !.head = (rx.head + 1) % NRx]
      <3>1. rx' \in RxType /\ RxAt(rx', nq, nicLog', C, H + 1, E) /\ rx'.lock = rx.lock
        <4>1. Stored(rx, nq, nicLog, C, H, E, nicLog', rx')
          BY <1>1, <1>2, <1>3, <2>2 DEF Stored
        <4> QED
          BY <1>3, <4>1, RxStores
      <3>2. H + 1 \in Nat
        OBVIOUS
      <3> QED
        BY <3>1, <3>2
    <2> QED
      BY <1>2, <2>1, <2>2
  <1>6. RxInv'
    BY <1>2, <1>3, <1>5 DEF NicInv, RxInv, LastAt
  <1>7. RxOrder'
    BY <1>2, <1>4 DEF NicInv, RxOrder
  <1>8. OrderOK(tx, cpus, nicLog)'
    <2>1. OrderOK(tx, cpus, nicLog')
      BY <1>4, OrderSame DEF NicInv
    <2> QED
      BY <1>2, <2>1
  <1>9. NicTypes'
    BY <1>2, <1>4, <1>5 DEF NicInv, NicTypes
  <1>10. CpusInv' /\ BusyInv' /\ FlushInv' /\ TailInv' /\ RingInv'
    BY <1>2 DEF NicInv, CpusInv, BusyInv, FlushInv, TailInv, RingInv
  <1>11. RefsBalanced'
    BY <1>2 DEF NicInv, RefsBalanced, Ringing, Handling
  <1> QED
    BY <1>6, <1>7, <1>8, <1>9, <1>10, <1>11 DEF NicInv

LEMMA NicInitOK == NicInit(NicCases) => NicInv
  <1> SUFFICES ASSUME NicInit(NicCases)  PROVE NicInv
    OBVIOUS
  <1>1. /\ NTx \in Nat /\ NTx > 1 /\ NRx \in Nat /\ NRx > 1 /\ NqLen \in Nat /\ 0 \notin Procs /\ NicCases \subseteq NicCaseType /\ IsFiniteSet(Procs)
    BY NicAssumption
  <1>2. /\ nicCase \in NicCases /\ cpus = [c \in Procs |-> CpuIdle] /\ netlock = 0 /\ nq = <<>> /\ refs = 1
        /\ nicLog = [pushed |-> 0, live |-> {}, wire |-> <<>>, handed |-> <<>>, arrived |-> 0]
    BY DEF NicInit
  <1>3. /\ tx.pending = <<>> /\ tx.count = 0 /\ tx.busy = 0 /\ tx.cur = 0 /\ tx.clean = 0 /\ tx.tail = 0 /\ tx.head = 0
        /\ tx.dd = [i \in TxIndex |-> TRUE] /\ tx.nb = [i \in TxIndex |-> 0] /\ tx.addr = [i \in TxIndex |-> 0]
        /\ tx = [pending |-> tx.pending, count |-> tx.count, busy |-> tx.busy, dd |-> tx.dd, nb |-> tx.nb, addr |-> tx.addr,
                 cur |-> tx.cur, clean |-> tx.clean, tail |-> tx.tail, head |-> tx.head]
    BY DEF NicInit, TxIndex
  <1>4. /\ rx.dd = [i \in RxIndex |-> FALSE] /\ rx.pkt = [i \in RxIndex |-> 0] /\ rx.cur = 0 /\ rx.head = 0 /\ rx.tail = NRx - 1
        /\ rx.lock = 0 /\ rx.icr = FALSE
        /\ rx = [dd |-> rx.dd, pkt |-> rx.pkt, cur |-> rx.cur, head |-> rx.head, tail |-> rx.tail, lock |-> rx.lock, icr |-> rx.icr]
    BY DEF NicInit, RxIndex
  <1>5. tx \in TxType
    <2>1. /\ tx.pending \in Seq(Nat) /\ tx.count \in Nat /\ tx.busy \in Procs \cup {0} /\ tx.dd \in [TxIndex -> BOOLEAN]
          /\ tx.nb \in [TxIndex -> Nat] /\ tx.addr \in [TxIndex -> Int]
      BY <1>3
    <2>2. 0 \in TxIndex
      BY <1>1 DEF TxIndex
    <2>3. tx.cur \in TxIndex /\ tx.clean \in TxIndex /\ tx.tail \in TxIndex /\ tx.head \in TxIndex
      BY <1>3, <2>2
    <2>4. tx = [pending |-> tx.pending, count |-> tx.count, busy |-> tx.busy, dd |-> tx.dd, nb |-> tx.nb, addr |-> tx.addr,
                cur |-> tx.cur, clean |-> tx.clean, tail |-> tx.tail, head |-> tx.head]
      BY <1>3
    <2> QED
      BY ONLY <2>1, <2>3, <2>4 DEF TxType
  <1>6. rx \in RxType
    <2>0. rx.dd \in [RxIndex -> BOOLEAN]
      BY <1>4
    <2>1. rx.pkt \in [RxIndex -> Nat] /\ rx.lock \in Procs \cup {0}
      BY <1>4
    <2>5. rx.icr \in BOOLEAN
      BY <1>4, Zenon
    <2>2. 0 \in RxIndex /\ NRx - 1 \in RxIndex
      BY <1>1 DEF RxIndex
    <2>3. rx.cur \in RxIndex /\ rx.head \in RxIndex /\ rx.tail \in RxIndex
      BY <1>4, <2>2
    <2>4. rx = [dd |-> rx.dd, pkt |-> rx.pkt, cur |-> rx.cur, head |-> rx.head, tail |-> rx.tail, lock |-> rx.lock, icr |-> rx.icr]
      BY <1>4
    <2> QED
      BY ONLY <2>0, <2>1, <2>3, <2>4, <2>5 DEF RxType
  <1>7. NicTypes
    <2>1. cpus \in [Procs -> Cpu]
      BY <1>2, IdleIs
    <2>2. nicLog \in LogType
      BY <1>2 DEF LogType
    <2>3. nq \in Seq(Nat) /\ Len(nq) <= NqLen /\ refs \in Nat /\ tx.count = Len(tx.pending) /\ netlock \in Procs \cup {0} /\ nicCase \in NicCaseType
      BY <1>1, <1>2, <1>3
    <2> QED
      BY <1>5, <1>6, <2>1, <2>2, <2>3 DEF NicTypes
  <1>8. ASSUME NEW c \in Procs
        PROVE  /\ cpus[c] = CpuIdle /\ cpus[c].pc = "idle" /\ cpus[c].after = "fin" /\ cpus[c].fret = "fin" /\ cpus[c].tret = "poll"
               /\ cpus[c].list = <<>> /\ cpus[c].depth = 0 /\ cpus[c].bell = FALSE /\ netlock # c /\ tx.busy # c /\ rx.lock # c
    BY <1>1, <1>2, <1>3, <1>4, IdleIs
  <1>9. CpusInv
    <2>1. ASSUME NEW c \in Procs  PROVE CpuOK(cpus[c], netlock = c)
      BY <1>8 DEF CpuOK, InFlush
    <2> QED
      BY <2>1 DEF CpusInv
  <1>10. BusyInv
    BY <1>8 DEF BusyInv, AtRing
  <1>11. FlushInv /\ TailInv
    BY <1>3 DEF FlushInv, TailInv
  <1>12. RingInv
    <2>1. Ix(0) = 0
      BY <1>1 DEF Ix
    <2>2. \A p \in 0..(0 + NTx - 1) : tx.addr[Ix(p)] = 0
      BY <1>1, <1>3, IxIn
    <2>3. RingAt(tx, 0, 0, 0, 0)
      BY <1>1, <1>3, <2>1, <2>2 DEF RingAt
    <2> QED
      BY <2>3 DEF RingInv
  <1>13. OrderOK(tx, cpus, nicLog)
    <2>1. /\ nicLog.wire = <<>> /\ nicLog.pushed = 0
      BY <1>2
    <2>2. Range(<<>>) = {}
      BY DEF Range
    <2>3. \A y : ~Waits(tx, cpus, y)
      BY <1>3, <1>8, <2>2 DEF Waits
    <2>4. \A i \in TxIndex : tx.nb[i] = 0 /\ tx.addr[i] = 0 /\ Frame(tx.addr[i]) = 0
      BY <1>3 DEF Frame
    <2>5. Rising(<<>>) /\ Falling(<<>>)
      BY DEF Rising, Falling
    <2> QED
      <3>1. Range(nicLog.wire) = {} /\ Range(tx.pending) = {} /\ Rising(nicLog.wire) /\ Falling(tx.pending)
        BY <1>3, <2>1, <2>2, <2>5
      <3>2. \A c \in Procs : Rising(cpus[c].list) /\ Range(cpus[c].list) = {}
        BY <1>8, <2>2, <2>5
      <3>3. \A i \in TxIndex : tx.nb[i] <= nicLog.pushed /\ Frame(tx.addr[i]) <= nicLog.pushed /\ ~(tx.addr[i] > 0)
        BY <2>1, <2>4
      <3> QED
        BY <2>3, <2>4, <3>1, <3>2, <3>3 DEF OrderOK
  <1>14. RxInv
    <2>1. Jx(0) = 0 /\ Jx(NRx - 1) = NRx - 1 /\ NRx - 1 \in Nat
      BY <1>1 DEF Jx
    <2>2. nicLog.handed \o nq = <<>> /\ nicLog.arrived = 0
      BY <1>2
    <2>3. \A p \in 0..(0 + NRx - 1) : ~rx.dd[Jx(p)]
      BY <1>1, <1>4, JxIn
    <2>4. RxAt(rx, nq, nicLog, 0, 0, NRx - 1)
      <3>1. Range(<<>>) = {}
        BY DEF Range
      <3> QED
        <4>1. /\ 0 <= NRx - 1 /\ NRx - 1 < 0 + NRx /\ rx.cur = Jx(0) /\ rx.head = Jx(0) /\ rx.tail = Jx(NRx - 1)
          BY <1>1, <1>4, <2>1
        <4>2. \A p \in 0..(0 - 1) : FALSE
          OBVIOUS
        <4>3. \A x \in Range(nicLog.handed \o nq) : FALSE
          BY <2>2, <3>1
        <4> QED
          BY <2>3, <4>1, <4>2, <4>3 DEF RxAt
    <2>5. LastAt(cpus, 0)
      BY <1>8 DEF LastAt
    <2>6. \A c \in Procs : rx.lock = c <=> cpus[c].pc = "rx2"
      BY <1>8
    <2> QED
      BY <2>1, <2>4, <2>5, <2>6 DEF RxInv
  <1>15. RxOrder
    <2>1. nicLog.handed \o nq = <<>>
      BY <1>2
    <2> QED
      BY <2>1 DEF RxOrder
  <1>16. RefsBalanced
    <2>1. {c \in Procs : Ringing(c)} = {} /\ {c \in Procs : Handling(c)} = {}
      BY <1>8 DEF Ringing, Handling
    <2> DEFINE A == {c \in Procs : Ringing(c)}  B == {c \in Procs : Handling(c)}
    <2>2. Cardinality({}) = 0
      BY FS_EmptySet
    <2> QED
      <3>1. Len(nq) = 0
        BY <1>2
      <3>2. A = {} /\ B = {} /\ (RefsBalanced <=> refs = 1 + Len(nq) + Cardinality(A) + Cardinality(B))
        BY <2>1 DEF RefsBalanced
      <3> HIDE DEF A, B
      <3> QED
        BY <1>2, <2>2, <3>1, <3>2
  <1> QED
    BY <1>7, <1>9, <1>10, <1>11, <1>12, <1>13, <1>14, <1>15, <1>16 DEF NicInv

LEMMA NicStepOK == NicInv /\ [NicNext]_nicVars => NicInv'
  <1> SUFFICES ASSUME NicInv, [NicNext]_nicVars  PROVE NicInv'
    OBVIOUS
  <1>1. CASE CardSends
    BY <1>1, CardSendsKeeps
  <1>2. CASE CardReceives
    BY <1>2, CardReceivesKeeps
  <1>3. CASE UNCHANGED nicVars
    <2>1. NicTypes' /\ CpusInv' /\ BusyInv' /\ FlushInv' /\ TailInv' /\ RingInv'
      BY <1>3 DEF NicInv, NicTypes, CpusInv, BusyInv, FlushInv, TailInv, RingInv, nicVars
    <2>2. OrderOK(tx, cpus, nicLog)'
      BY <1>3 DEF NicInv, nicVars
    <2>3. RxInv' /\ RxOrder' /\ RefsBalanced'
      BY <1>3 DEF NicInv, RxInv, RxOrder, LastAt, RefsBalanced, Ringing, Handling, nicVars
    <2> QED
      BY <2>1, <2>2, <2>3 DEF NicInv
  <1>4. ASSUME NEW c \in Procs, Starts(c) \/ net_lock_enter(c) \/ e1000_interrupt(c) \/ Finishes(c)  PROVE NicInv'
    BY <1>4, StartsKeeps, net_lock_enterKeeps, InterruptKeeps, FinishesKeeps
  <1>5. ASSUME NEW c \in Procs, e1000_transmit(c) \/ TxDone(c) \/ FlushTakes(c) \/ e1000_tx_enqueue(c) \/ FlushRings(c)  PROVE NicInv'
    BY <1>5, TransmitKeeps, TxDoneKeeps, FlushTakesKeeps, EnqueueKeeps, FlushRingsKeeps
  <1>6. ASSUME NEW c \in Procs, FlushStarts(c) \/ FlushClaims(c) \/ FlushReleases(c) \/ ReclaimClaims(c) \/ e1000_tx_try_reclaim(c)  PROVE NicInv'
    BY <1>6, FlushSkips, FlushGoesOn, FlushClaimed, FlushLeaves, FlushReleasesKeeps, ReclaimClaimed, ReclaimLeaves, TryReclaimKeeps
  <1>7. ASSUME NEW c \in Procs, net_lock_exit(c) \/ netif_tx_flush(c) \/ BellRung(c) \/ netisr_poll(c) \/ netif_rele(c)  PROVE NicInv'
    BY <1>7, net_lock_exitKeeps, BellRings, NoBell, BellRungKeeps, PollInside, PollLeaves, PollEnters, netif_releKeeps
  <1>8. ASSUME NEW c \in Procs, RxLocks(c) \/ e1000_handle_receive(c) \/ RxUnlocks(c) \/ netisr_drain(c)  PROVE NicInv'
    BY <1>8, RxLocksKeeps, ReceiveKeeps, RxUnlocksKeeps, DrainEnds, DrainHands
  <1> QED
    BY <1>1, <1>2, <1>3, <1>4, <1>5, <1>6, <1>7, <1>8 DEF NicNext

(* The inductive invariant of the network card: the positions of the rings   *)
(* unrolled, frames in the order of the pushes from the wire back to the     *)
(* list, who will come to flush, and a reference for each holder.            *)
THEOREM NicInvHolds == NicSpec => []NicInv
  BY NicInitOK, NicStepOK, PTL DEF NicSpec

LEMMA NicInvSound == NicInv => NicSound
  <1> SUFFICES ASSUME NicInv  PROVE NicSound
    OBVIOUS
  <1>1. /\ cpus \in [Procs -> Cpu] /\ tx \in TxType /\ nicLog \in LogType /\ OrderOK(tx, cpus, nicLog) /\ netlock \in Procs \cup {0}
        /\ nq \in Seq(Nat) /\ Len(nq) <= NqLen /\ tx.count = Len(tx.pending) /\ refs \in Nat /\ 0 \notin Procs
    BY NicAssumption DEF NicInv, NicTypes
  <1>2. NicTypeOK
    <2>1. refs # 0
      <3>1. IsFiniteSet({c \in Procs : Ringing(c)}) /\ IsFiniteSet({c \in Procs : Handling(c)})
        BY NicAssumption, FS_Subset
      <3>2. Cardinality({c \in Procs : Ringing(c)}) \in Nat /\ Cardinality({c \in Procs : Handling(c)}) \in Nat /\ Len(nq) \in Nat
        BY <1>1, <3>1, FS_CardinalityType
      <3> QED
        BY <3>2 DEF NicInv, RefsBalanced
    <2>2. {tx.cur, tx.clean, tx.tail, tx.head} \subseteq 0..(NTx - 1)
      BY <1>1 DEF TxType, TxIndex
    <2>3. \A c \in Procs : cpus[c].depth \in 0..1 /\ (netlock = c => cpus[c].depth = 1)
      BY DEF NicInv, CpusInv, CpuOK
    <2> QED
      BY <1>1, <2>1, <2>2, <2>3 DEF NicTypeOK
  <1>3. TxOrder
    BY <1>1 DEF OrderOK, Rising, TxOrder
  <1>4. TxLive
    <2>1. ASSUME NEW i \in 0..(NTx - 1)  PROVE (IF tx.addr[i] < 0 THEN -tx.addr[i] ELSE tx.addr[i]) \in nicLog.live \cup {0}
      <3>1. i \in TxIndex
        BY DEF TxIndex
      <3>2. tx.addr[i] # 0 => Frame(tx.addr[i]) \in nicLog.live
        BY <1>1, <3>1 DEF OrderOK
      <3> QED
        BY <3>2 DEF Frame
    <2>2. ASSUME NEW y \in Range(tx.pending)  PROVE y \in nicLog.live
      <3>1. tx.pending \in Seq(Nat)
        BY <1>1 DEF TxType
      <3>2. y \in Nat /\ Waits(tx, cpus, y)
        BY <3>1, RangeNat DEF Waits
      <3> QED
        BY <1>1, <3>2 DEF OrderOK
    <2>3. ASSUME NEW c \in Procs, NEW y \in Range(cpus[c].list)  PROVE y \in nicLog.live
      <3>1. cpus[c].list \in Seq(Nat)
        BY <1>1 DEF Cpu
      <3>2. y \in Nat /\ Waits(tx, cpus, y)
        BY <3>1, RangeNat DEF Waits
      <3> QED
        BY <1>1, <3>2 DEF OrderOK
    <2> QED
      BY <2>1, <2>2, <2>3 DEF TxLive
  <1>5. NothingStuck
    <2>1. SUFFICES ASSUME \A c \in Procs : cpus[c].pc = "idle"
                   PROVE  /\ tx.pending = <<>> /\ tx.busy = 0 /\ tx.tail = tx.cur /\ netlock = 0 /\ \A c \in Procs : ~cpus[c].bell
      BY DEF NothingStuck
    <2>2. \A c \in Procs : cpus[c].bell = FALSE /\ netlock # c
      BY <2>1, IdleIs DEF NicInv, CpusInv, CpuOK
    <2>3. \A c \in Procs : ~Coming(cpus[c]) /\ cpus[c].pc \notin AtRing /\ cpus[c].pc # "f4"
      BY <2>1, <2>2 DEF Coming, InFlush, AtRing
    <2>4. tx.busy \in Procs \cup {0}
      BY <1>1 DEF TxType
    <2> QED
      BY <1>1, <2>2, <2>3, <2>4 DEF NicInv, FlushInv, TailInv, BusyInv
  <1> QED
    BY <1>2, <1>3, <1>4, <1>5 DEF NicInv, NicSound

(* The network card and its queues (e1000.c, netif.c, netisr.c), for any     *)
(* CPUs, sizes of the rings and of the batches: frames leave in order and    *)
(* are not freed too early, none is left behind when the CPUs are done,      *)
(* packets are handed over in order, references balance.                     *)
THEOREM NicIsSound == NicSpec => []NicSound
  BY NicInvHolds, NicInvSound, PTL
===============================================================================

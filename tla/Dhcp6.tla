-------------------------------- MODULE Dhcp6 --------------------------------
(* The DHCPv6 client of one interface: the exchanges with servers, the lease *)
(* and the address it gives to the interface.  Timer and input run under the *)
(* net lock.  Answers to exchanges that are over carry another transaction   *)
(* number and are dropped by dhcp6_find_client; they are not modelled.       *)
EXTENDS Integers, FiniteSets

CONSTANTS
  D6Offers,      \* what a server may answer
  D6Taken,       \* addresses the host has from elsewhere
  ReqMaxRc,      \* DHCP6_REQ_MAX_RC
  D6Waits,       \* retransmission times after jitter, in ticks
  D6Infinite,
  D6Refreshes,   \* information refresh times, the default one among them
  MaxD6Time, D6Cases

VARIABLES
  d6,        \* the client
  d6Addr,    \* address -> the time it is valid until (0 for ever), or -1
  llReady,   \* the link-local address passed its test
  d6Now, d6Case
dhcp6Vars == <<d6, d6Addr, llReady, d6Now, d6Case>>

NoLease6 == [addr |-> "none", server |-> "none", pref |-> 0, valid |-> 0, t1 |-> 0, t2 |-> 0, best |-> FALSE, status |-> "ok", ia |-> "ok"]
NoMessage6 == [type |-> "none", addr |-> "none", server |-> "none"]
NoClient6 == [state |-> "none", stateful |-> FALSE, tries |-> 0, deadline |-> 0, have |-> FALSE,
              advert |-> NoLease6, lease |-> NoLease6, refresh |-> 0, configured |-> FALSE, t1 |-> 0, t2 |-> 0, exp |-> 0, due |-> 0, msg |-> NoMessage6]
Addrs6 == {o.addr : o \in D6Offers} \ {"none"}

Dhcp6Init(cases) ==
  /\ d6 = NoClient6 /\ d6Addr = [a \in Addrs6 |-> -1] /\ llReady = FALSE /\ d6Now = 0 /\ d6Case \in cases

D6Step(op) == op \in d6Case.ops /\ d6Case.left > 0 /\ d6Case' = [d6Case EXCEPT !.left = @ - 1]

dhcp6_seconds(s) == IF s = D6Infinite THEN 0 ELSE d6Now + s
(* An identity association with crossed times is not looked at; an address   *)
(* that is preferred longer than valid is left out.                          *)
dhcp6_parse_ia(o) ==
  LET present == ~(o.t1 # 0 /\ o.t2 # 0 /\ o.t1 > o.t2)
  IN [o EXCEPT !.addr = IF present /\ o.pref <= o.valid THEN @ ELSE "none", !.ia = IF present THEN @ ELSE "absent"]

-----------------------------------------------------------------------------
(* The set of clients c may become. *)

(* What a message names: the offer in a request, the lease afterwards. *)
dhcp6_build(c, type) ==
  LET hint == IF type = "request" THEN c.advert ELSE c.lease
  IN [type |-> type, addr |-> IF type \in {"info", "solicit"} THEN "none" ELSE hint.addr,
      server |-> IF type \in {"request", "renew"} THEN hint.server ELSE "none"]
dhcp6_msg_for(state) == state
(* Without a link-local address nothing can be sent. *)
dhcp6_send(c) == IF llReady THEN [c EXCEPT !.msg = dhcp6_build(c, dhcp6_msg_for(c.state))] ELSE c

dhcp6_transmit(c) ==
  IF ~llReady THEN {[c EXCEPT !.due = d6Now + 1]}
  ELSE {[dhcp6_send(c) EXCEPT !.tries = IF @ < ReqMaxRc THEN @ + 1 ELSE @,
                  !.due = IF c.deadline # 0 /\ d6Now + w > c.deadline
                            THEN IF c.deadline > d6Now THEN c.deadline ELSE d6Now + 1
                            ELSE d6Now + w] : w \in D6Waits}
dhcp6_begin(c, state, delayed, deadline) ==
  LET b == [c EXCEPT !.state = state, !.tries = 0, !.deadline = deadline, !.have = IF state = "solicit" THEN FALSE ELSE @]
  IN IF delayed THEN {[b EXCEPT !.due = d6Now + w] : w \in D6Waits} ELSE dhcp6_transmit(b)
dhcp6_solicit(c) == dhcp6_begin(c, IF c.stateful THEN "solicit" ELSE "info", TRUE, 0)

(* A lease that is never renewed, or information that is never out of date: *)
(* no timer.                                                                *)
dhcp6_bound(c) ==
  [c EXCEPT !.state = "bound",
            !.due = IF c.stateful THEN IF c.t1 = 0 THEN 0 ELSE IF c.t1 > d6Now THEN c.t1 ELSE d6Now + 1
                    ELSE IF c.refresh = D6Infinite THEN 0 ELSE d6Now + c.refresh]

(* The lease of c takes effect, or the address belongs to someone else. *)
dhcp6_apply_lease(c) ==
  LET l == c.lease
      half == IF l.t1 # 0 THEN l.t1 ELSE IF l.pref = D6Infinite THEN D6Infinite ELSE l.pref \div 2
      most == IF l.t2 # 0 THEN l.t2 ELSE IF l.pref = D6Infinite THEN D6Infinite ELSE (l.pref * 4) \div 5
  IN [c EXCEPT !.t1 = dhcp6_seconds(half), !.t2 = dhcp6_seconds(most), !.exp = dhcp6_seconds(l.valid),
               !.configured = @ \/ l.addr \notin D6Taken]
Unleased(c) == [c EXCEPT !.configured = FALSE, !.lease = NoLease6]
(* The addresses after dhcp6_remove_lease. *)
dhcp6_remove_lease(ad) == IF d6.configured THEN [ad EXCEPT ![d6.lease.addr] = -1] ELSE ad

-----------------------------------------------------------------------------
(* A router advertisement asks for addresses or for other configuration. *)
dhcp6_start(stateful) ==
  /\ D6Step("start")
  /\ d6.state = "none" \/ (stateful /\ ~d6.stateful)
  /\ d6' \in dhcp6_solicit([d6 EXCEPT !.stateful = stateful])
  /\ UNCHANGED <<d6Addr, llReady, d6Now>>
dhcp6_stop ==
  /\ D6Step("stop") /\ d6.state # "none"
  /\ d6' = NoClient6 /\ d6Addr' = dhcp6_remove_lease(d6Addr)
  /\ UNCHANGED <<llReady, d6Now>>

Rebind == dhcp6_begin(d6, "rebind", FALSE, d6.exp)
dhcp6_timer ==
  LET over == d6.state = "rebind" /\ d6.exp # 0 /\ d6Now >= d6.exp
      late == d6.t2 # 0 /\ d6Now >= d6.t2
  IN /\ d6.due # 0 /\ d6.due <= d6Now
     /\ d6' \in CASE d6.state = "solicit" -> IF d6.have /\ d6.tries > 0 THEN dhcp6_begin(d6, "request", FALSE, 0) ELSE dhcp6_transmit(d6)
                  [] d6.state = "request" -> IF d6.tries >= ReqMaxRc THEN dhcp6_solicit(d6) ELSE dhcp6_transmit(d6)
                  [] d6.state = "bound" -> IF ~d6.stateful THEN dhcp6_solicit(d6) ELSE IF late THEN Rebind
                                           ELSE dhcp6_begin(d6, "renew", FALSE, d6.t2)
                  [] d6.state = "renew" -> IF late THEN Rebind ELSE dhcp6_transmit(d6)
                  [] d6.state = "rebind" -> IF over THEN dhcp6_solicit(Unleased(d6)) ELSE dhcp6_transmit(d6)
                  [] d6.state = "info" -> dhcp6_transmit(d6)
     /\ d6Addr' = IF over THEN dhcp6_remove_lease(d6Addr) ELSE d6Addr
     /\ UNCHANGED <<llReady, d6Now, d6Case>>

(* An answer is possible once a message of this exchange went out. *)
Answerable == D6Step("answer") /\ d6.tries > 0

dhcp6_advertise(l) ==
  LET better == [d6 EXCEPT !.advert = IF d6.have /\ ~(l.best /\ ~@.best) THEN @ ELSE l, !.have = TRUE]
  IN /\ Answerable /\ d6.state = "solicit"
     /\ l.status = "ok" /\ l.ia = "ok" /\ l.addr # "none"
     /\ d6' \in IF l.best \/ d6.tries > 1 THEN dhcp6_begin(better, "request", FALSE, 0) ELSE {better}
     /\ UNCHANGED <<d6Addr, llReady, d6Now>>

(* Faulty variant: the new lease takes effect beside the old one. *)
OldAddressStays(l) ==
  \E c \in {dhcp6_apply_lease([d6 EXCEPT !.lease = l])} :
    IF l.addr \in D6Taken THEN d6' \in dhcp6_solicit(c) /\ UNCHANGED d6Addr
    ELSE d6' = dhcp6_bound(c) /\ d6Addr' = [d6Addr EXCEPT ![l.addr] = c.exp]
(* A lease the server confirms: a different address replaces the old one. *)
Confirmed(l) ==
  LET moved == d6.configured /\ l.addr # d6.lease.addr
      kept == IF moved THEN Unleased(d6) ELSE d6
      ad == IF moved THEN dhcp6_remove_lease(d6Addr) ELSE d6Addr
  IN \E c \in {dhcp6_apply_lease([kept EXCEPT !.lease = l])} :
       IF l.addr \in D6Taken THEN d6' \in dhcp6_solicit(c) /\ d6Addr' = ad
       ELSE d6' = dhcp6_bound(c) /\ d6Addr' = [ad EXCEPT ![l.addr] = c.exp]
dhcp6_reply(l) ==
  LET renewing == d6.state \in {"renew", "rebind"}
  IN /\ Answerable /\ d6.state \in {"request", "renew", "rebind"} /\ d6.stateful
     /\ l.status # "fail"
     /\ IF l.ia # "ok" \/ l.addr = "none"
          THEN /\ d6' \in IF renewing /\ l.ia = "nobinding" THEN dhcp6_begin([d6 EXCEPT !.advert = d6.lease], "request", FALSE, 0)
                          ELSE IF ~renewing THEN dhcp6_solicit(d6) ELSE {d6}
               /\ UNCHANGED d6Addr
        ELSE IF l.valid = 0
          THEN d6' \in dhcp6_solicit(Unleased(d6)) /\ d6Addr' = dhcp6_remove_lease(d6Addr)
        ELSE Confirmed(l)
     /\ UNCHANGED <<llReady, d6Now>>
InfoReply(refresh) ==
  /\ Answerable /\ d6.state = "info" /\ ~d6.stateful
  /\ d6' = dhcp6_bound([d6 EXCEPT !.refresh = refresh])
  /\ UNCHANGED <<d6Addr, llReady, d6Now>>

(* Time passes once the timer that is due ran; the IPv6 layer drops an       *)
(* address whose valid time is over (ipv6_addr_expire).                      *)
D6Tick ==
  /\ d6Now < MaxD6Time /\ (d6.due = 0 \/ d6.due > d6Now)
  /\ d6Now' = d6Now + 1
  /\ llReady' \in {TRUE, llReady}
  /\ d6Addr' = [a \in Addrs6 |-> IF d6Addr[a] > 0 /\ d6Addr[a] <= d6Now + 1 THEN -1 ELSE d6Addr[a]]
  /\ UNCHANGED <<d6, d6Case>>

Dhcp6Next ==
  \/ D6Tick \/ dhcp6_stop \/ dhcp6_timer
  \/ \E r \in D6Refreshes : InfoReply(r)
  \/ \E s \in BOOLEAN : dhcp6_start(s)
  \/ \E o \in D6Offers : dhcp6_advertise(dhcp6_parse_ia(o)) \/ dhcp6_reply(dhcp6_parse_ia(o))

-----------------------------------------------------------------------------
Extending == {"bound", "renew", "rebind"}
(* Type, and: a client that is bound or extends a lease has it configured,   *)
(* and a request is for an offer it has.                                     *)
Dhcp6TypeOK ==
  /\ d6.state \in {"none", "solicit", "request", "info"} \cup Extending
  /\ d6.stateful /\ d6.state \in Extending => d6.configured
  /\ d6.state = "request" => d6.advert.addr # "none"
  /\ ~d6.stateful => d6.state \in {"none", "info", "bound"}

(* A client never stops: a timer will run in every state, unless it is bound *)
(* to a lease whose renewal time is infinite, or to information that is good *)
(* for ever.                                                                 *)
D6TimerArmed ==
  d6.state # "none" => d6.due # 0 \/ (d6.state = "bound" /\ IF d6.stateful THEN d6.t1 = 0 ELSE d6.refresh = D6Infinite)

(* The interface has no DHCP address but the one of the lease; it has that   *)
(* one until its valid time is over.                                         *)
D6AddressOwned ==
  /\ \A a \in Addrs6 : d6Addr[a] # -1 => d6.configured /\ a = d6.lease.addr /\ d6Addr[a] = d6.exp
  /\ d6.configured /\ (d6.exp = 0 \/ d6Now < d6.exp) => d6Addr[d6.lease.addr] # -1

(* What the client last said in this exchange fits what it has: a request    *)
(* names the address and the server of the offer, a renewal those of the     *)
(* lease, a rebinding the address and no server; and an address in use is    *)
(* one the interface was given (dhcp6_build).                                *)
D6Says ==
  d6.tries > 0 =>
    LET m == d6.msg
    IN /\ m.type = dhcp6_msg_for(d6.state) \/ d6.state = "bound"
       /\ m.type = "request" /\ d6.state = "request" => m.addr = d6.advert.addr /\ m.server = d6.advert.server /\ m.server # "none"
       /\ d6.state = "renew" => m.addr = d6.lease.addr /\ m.server = d6.lease.server /\ m.server # "none"
       /\ d6.state = "rebind" => m.addr = d6.lease.addr /\ m.server = "none" /\ d6.configured

(* The timer never sleeps past the end of a phase: T2 while renewing, the    *)
(* end of the lease while rebinding.                                         *)
D6Deadlines ==
  /\ d6.state = "renew" /\ d6.t2 # 0 => d6.due <= d6.t2 \/ d6.due <= d6Now + 1
  /\ d6.state = "rebind" /\ d6.exp # 0 => d6.due <= d6.exp \/ d6.due <= d6Now + 1
=============================================================================

--------------------------------- MODULE Arp ---------------------------------
(* The IPv4 address resolution cache of one interface.  Input runs from the  *)
(* netisr queue, the timer from its callout and resolution from the send     *)
(* path, all under the net lock: each is one step.  Static entries and       *)
(* arp_cache_remove have no caller in the kernel and are left out.           *)
EXTENDS Integers, Sequences, FiniteSets, SequencesExt

CONSTANTS
  ArpIps, ArpHws,   \* neighbours and the link addresses they may claim
  ARP_MAX_PENDING, ARP_MAX_TRIES,
  ArpRetry,         \* ARP_RETRY_MS in timer periods
  ArpReachable,     \* ARP_REACHABLE_MS in timer periods
  ArpBatch,         \* requests one timer run can send
  MaxArpPackets, MaxArpTime, MaxArpInput   \* bounds

VARIABLES
  arpCache,  \* address -> entry
  arpNow,    \* runs of the timer
  arpPkt,    \* ghost: sequence of [dst, at]; at is "pending", "freed", "sent" or "misdirected"
  arpHeard,  \* ghost: the link address last heard of each neighbour
  arpBorn,   \* ghost: when resolution of the address began
  arpInputs
arpVars == <<arpCache, arpNow, arpPkt, arpHeard, arpBorn, arpInputs>>

NoEntry == [state |-> "none", hw |-> "none", tries |-> 0, expires |-> 0, pending |-> <<>>]

ArpInit ==
  /\ arpCache = [ip \in ArpIps |-> NoEntry]
  /\ arpNow = 0
  /\ arpPkt = <<>>
  /\ arpHeard = [ip \in ArpIps |-> "none"]
  /\ arpBorn = [ip \in ArpIps |-> 0]
  /\ arpInputs = 0

(* What becomes of the packets of a pending list. *)
Settled(pk, list, at) == [p \in DOMAIN pk |-> IF Contains(list, p) THEN [pk[p] EXCEPT !.at = at] ELSE pk[p]]
arp_free_pending(pk, list) == Settled(pk, list, "freed")
(* The frame goes out to hw; heard is what the destination announced last. *)
eth_output_frame(hw, heard) == IF hw = heard THEN "sent" ELSE "misdirected"
arp_send_pending(pk, list, hw, heard) == Settled(pk, list, eth_output_frame(hw, heard))

arp_entry_update(hw) ==
  [state |-> "reachable", hw |-> hw, tries |-> 0, expires |-> arpNow + ArpReachable, pending |-> <<>>]

(* Requests and replies are treated alike: an entry that exists is brought   *)
(* up to date and its packets are sent, a new one is made only when the      *)
(* message was for this host.                                                *)
arp_input(spa, sha, forUs) ==
  /\ arpInputs < MaxArpInput /\ arpInputs' = arpInputs + 1
  /\ LET e == arpCache[spa]
     IN IF e.state # "none" \/ forUs
          THEN /\ arpCache' = [arpCache EXCEPT ![spa] = arp_entry_update(sha)]
               /\ arpPkt' = arp_send_pending(arpPkt, e.pending, sha, sha)
               /\ arpHeard' = [arpHeard EXCEPT ![spa] = sha]
          ELSE UNCHANGED <<arpCache, arpPkt, arpHeard>>
  /\ arpBorn' = [arpBorn EXCEPT ![spa] = 0]
  /\ UNCHANGED arpNow

Incomplete == [NoEntry EXCEPT !.state = "incomplete", !.tries = 1, !.expires = arpNow + ArpRetry]

arp_resolve(ip) ==
  LET p == Len(arpPkt) + 1
      e == IF arpCache[ip].state = "none" THEN Incomplete ELSE arpCache[ip]
      full == Len(e.pending) >= ARP_MAX_PENDING
      kept == IF full THEN Tail(e.pending) ELSE e.pending
      lost == IF full THEN <<Head(e.pending)>> ELSE <<>>
  IN /\ p <= MaxArpPackets
     /\ IF e.state # "incomplete"
          THEN arpPkt' = Append(arpPkt, [dst |-> ip, at |-> eth_output_frame(e.hw, arpHeard[ip])]) /\ UNCHANGED <<arpCache, arpBorn>>
          ELSE /\ arpPkt' = Append(arp_free_pending(arpPkt, lost), [dst |-> ip, at |-> "pending"])
               /\ arpCache' = [arpCache EXCEPT ![ip] = [e EXCEPT !.pending = Append(kept, p)]]
               /\ arpBorn' = [arpBorn EXCEPT ![ip] = IF arpCache[ip].state = "none" THEN arpNow ELSE @]
     /\ UNCHANGED <<arpNow, arpHeard, arpInputs>>

(* The link went down: every entry is dropped. *)
arp_cache_flush ==
  /\ \E ip \in ArpIps : arpCache[ip].state # "none"
  /\ arpCache' = [ip \in ArpIps |-> NoEntry]
  /\ arpPkt' = arp_free_pending(arpPkt, FlattenSeq(SetToSeq({arpCache[ip].pending : ip \in ArpIps})))
  /\ arpHeard' = [ip \in ArpIps |-> "none"]
  /\ arpBorn' = [ip \in ArpIps |-> 0]
  /\ UNCHANGED <<arpNow, arpInputs>>

(* The timer: at most ArpBatch retries per run, in address order; an entry   *)
(* that was not answered after the last try is dropped with its packets.     *)
arp_timer ==
  LET now == arpNow + 1
      due == {ip \in ArpIps : arpCache[ip].state = "incomplete" /\ arpCache[ip].expires <= now}
      dead == {ip \in due : arpCache[ip].tries >= ARP_MAX_TRIES}
      retry == {ip \in due \ dead : Cardinality({j \in due \ dead : j < ip}) < ArpBatch}
      stale == {ip \in ArpIps : arpCache[ip].state = "reachable" /\ arpCache[ip].expires <= now}
  IN /\ now <= MaxArpTime /\ arpNow' = now
     /\ arpCache' = [ip \in ArpIps |->
          CASE ip \in dead  -> NoEntry
            [] ip \in retry -> [arpCache[ip] EXCEPT !.tries = @ + 1, !.expires = now + ArpRetry]
            [] ip \in stale -> [arpCache[ip] EXCEPT !.state = "stale"]
            [] OTHER -> arpCache[ip]]
     /\ arpPkt' = arp_free_pending(arpPkt, FlattenSeq(SetToSeq({arpCache[ip].pending : ip \in dead})))
     /\ arpBorn' = [ip \in ArpIps |-> IF ip \in dead THEN 0 ELSE arpBorn[ip]]
     /\ UNCHANGED <<arpHeard, arpInputs>>

ArpNext ==
  \/ \E ip \in ArpIps : arp_resolve(ip) \/ \E hw \in ArpHws, forUs \in BOOLEAN : arp_input(ip, hw, forUs)
  \/ arp_cache_flush
  \/ arp_timer

-----------------------------------------------------------------------------
(* Type: a packet waits only at an entry that is not resolved, and no more   *)
(* than ARP_MAX_PENDING do.                                                  *)
ArpTypeOK ==
  \A ip \in ArpIps :
    LET e == arpCache[ip]
    IN /\ e.state \in {"none", "incomplete", "reachable", "stale"}
       /\ Len(e.pending) <= ARP_MAX_PENDING
       /\ e.pending # <<>> => e.state = "incomplete"
       /\ (e.hw = "none") = (e.state \in {"none", "incomplete"})
       /\ e.tries <= ARP_MAX_TRIES

(* No packet is lost or sent twice: one that has not been sent or freed is   *)
(* in the pending list of its own destination, once (arp_resolve, arp_input, *)
(* arp_cache_flush and arp_timer hand packets on).                           *)
ArpPacketsOwned ==
  \A p \in DOMAIN arpPkt : \A ip \in ArpIps :
    Cardinality({i \in DOMAIN arpCache[ip].pending : arpCache[ip].pending[i] = p}) =
      IF arpPkt[p].at = "pending" /\ arpPkt[p].dst = ip THEN 1 ELSE 0

(* A packet leaves for the link address its destination announced last.      *)
ArpSentToLatest == \A p \in DOMAIN arpPkt : arpPkt[p].at # "misdirected"

(* Resolution ends: an address is not left unresolved for longer than the    *)
(* tries take (arp_timer), so packets do not wait at it for ever.            *)
ArpResolutionEnds ==
  \A ip \in ArpIps : arpCache[ip].state = "incomplete" =>
    arpNow - arpBorn[ip] <= ArpRetry * ARP_MAX_TRIES + (ARP_MAX_TRIES - 1) * (Cardinality(ArpIps) - 1) - 1
=============================================================================

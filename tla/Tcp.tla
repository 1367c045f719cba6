-------------------------------- MODULE Tcp --------------------------------
(***************************************************************************)
(* The TCP of src/src/kernel/drivers/net/tcp: one connection between two   *)
(* endpoints over a network that loses, duplicates and reorders segments.  *)
(*                                                                         *)
(* Segment input, timer handlers and socket calls all run under the net    *)
(* lock (netisr_drain, callout_tick, socket_file.c), so each is one        *)
(* action.  A handler is an operator from a control block to a control     *)
(* block; what it transmits collects in the field out and joins the        *)
(* network when the action ends.                                           *)
(*                                                                         *)
(* Sequence numbers wrap at SeqSpace as they do at 2^32.  Payload is a       *)
(* sequence of bytes, taken from the send buffer at the offset the code    *)
(* computes, so that a wrong offset delivers wrong bytes.  Left out:       *)
(* timestamps (PAWS, RTT estimates), window scaling, checksums and failing *)
(* allocations.  TCP_SACK_SCOREBOARD is never reached: the scoreboard is   *)
(* the set of sequence numbers its blocks cover.                           *)
(***************************************************************************)
EXTENDS Integers, Sequences, FiniteSets, SequencesExt

CONSTANTS
  A, B,           \* the two endpoints
  SeqSpace,         \* sequence numbers are 0 .. SeqSpace - 1
  Iss,            \* Iss[e]: the initial sequence number tcp_new_isn returns
  Scenarios,      \* what the two programs and the network may do, see below
  MinMss,         \* the segment size after a packet-too-big message
  DupThresh,      \* duplicate acknowledgements that start recovery (3)
  MaxShift,       \* TCP_MAXRXTSHIFT
  KeepCnt,        \* TCP_KEEPCNT
  MaxBurst        \* bound on the segments one tcp_output sends

VARIABLES
  sc,             \* the scenario: a member of Scenarios
  tp,             \* tp[e]: the control block and the socket of e
  net,            \* net[e]: the segments on their way to e
  faults          \* faults[k]: how often fault k may still happen

vars == <<sc, tp, net, faults>>

(* A scenario bounds the programs and the network: passive (B listens, or  *)
(* both may connect), sack (SACK negotiated, no TF_NOOPT), keep (endpoints *)
(* with SO_KEEPALIVE), mss, hiwat (size of the socket buffers), len[e] (bytes  *)
(* e sends), calls[e] (the socket calls e makes), how often faults happen. *)
Hiwat == sc.hiwat
Faults == {"loss", "dup", "reorder", "spurious"}

Ends == {A, B}
Peer(e) == IF e = A THEN B ELSE A

ASSUME TcpAssumption ==
  /\ A # B
  /\ SeqSpace \in Nat /\ \A x \in Scenarios : SeqSpace >= 8 * x.hiwat
  /\ SeqSpace % 2 = 0
  /\ Iss \in [Ends -> 0 .. SeqSpace - 1]
  /\ MinMss \in Nat \ {0}
-----------------------------------------------------------------------------
(* Sequence arithmetic: (int32_t)(a - b) < 0 and its relatives.            *)
Sub(a, b) == (a - b) % SeqSpace
Plus(a, n) == (a + n) % SeqSpace
SEQ_LT(a, b) == Sub(a, b) >= SeqSpace \div 2
SEQ_GT(a, b) == Sub(a, b) \in 1 .. SeqSpace \div 2 - 1
SEQ_LEQ(a, b) == ~SEQ_GT(a, b)
Max2(a, b) == IF a < b THEN b ELSE a
Min2(a, b) == IF a < b THEN a ELSE b

States == <<"CLOSED", "LISTEN", "SYN_SENT", "SYN_RECEIVED", "ESTABLISHED",
            "CLOSE_WAIT", "FIN_WAIT_1", "CLOSING", "LAST_ACK", "FIN_WAIT_2",
            "TIME_WAIT">>
HAVERCVDSYN(s) == s \notin {"CLOSED", "LISTEN", "SYN_SENT"}
HAVEESTABLISHED(s) == HAVERCVDSYN(s) /\ s # "SYN_RECEIVED"
HAVERCVDFIN(s) == s \in {"CLOSE_WAIT", "CLOSING", "LAST_ACK", "TIME_WAIT"}

tcp_outflags ==
  [s \in Range(States) |->
     CASE s = "CLOSED" -> {"RST", "ACK"}
       [] s = "LISTEN" -> {}
       [] s = "SYN_SENT" -> {"SYN"}
       [] s = "SYN_RECEIVED" -> {"SYN", "ACK"}
       [] s \in {"FIN_WAIT_1", "CLOSING", "LAST_ACK"} -> {"FIN", "ACK"}
       [] OTHER -> {"ACK"}]

On(t, f) == [t EXCEPT !.t_flags = @ \cup f]
Off(t, f) == [t EXCEPT !.t_flags = @ \ f]
Arm(t, which) == [t EXCEPT !.timers = @ \cup {which}]
Stop(t, which) == [t EXCEPT !.timers = @ \ {which}]

(* sockbuf_space; the advertised part of the window the peer may still use *)
Space(buf) == Max2(Hiwat - Len(buf), 0)
Advertised(t) == IF SEQ_GT(t.rcv_adv, t.rcv_nxt) THEN Sub(t.rcv_adv, t.rcv_nxt) ELSE 0

tcp_rcv_space(t) == Max2(Space(t.rcv), Advertised(t))

tcp_rcv_window(t) ==
  LET sp == Space(t.rcv)
      win == IF sp < Hiwat \div 4 /\ sp < t.mss THEN 0 ELSE sp
  IN Max2(win, Advertised(t))

Transmit(t, s) == [t EXCEPT !.out = Append(@, s)]

(* tcp_respond: a segment without data, outside the output path. *)
tcp_respond(t, ack, seq, f) ==
  Transmit(t, [to |-> Peer(t.end), seq |-> seq, ack |-> IF "ACK" \in f THEN ack ELSE 0,
               f |-> f, pay |-> <<>>, wnd |-> IF t.live THEN tcp_rcv_window(t) ELSE 0,
               sk |-> {}])

tcp_send_challenge_ack(t) == tcp_respond(t, t.rcv_nxt, t.snd_nxt, {"ACK"})

tcp_reply_reset(t, s) ==
  LET n == Len(s.pay) + Cardinality(s.f \cap {"SYN", "FIN"}) IN
  IF "RST" \in s.f THEN t
  ELSE IF "ACK" \in s.f THEN tcp_respond(t, 0, s.ack, {"RST"})
  ELSE tcp_respond(t, Plus(s.seq, n), 0, {"RST", "ACK"})
-----------------------------------------------------------------------------
(* tcp_sack.c, with the scoreboard as a set of sequence numbers.           *)
tcp_sack_update(t, sk) ==
  [t EXCEPT !.sacked = @ \cup {s \in sk : /\ SEQ_LEQ(t.snd_una, s)
                                          /\ SEQ_LT(s, t.snd_max)}]

tcp_sack_ack(t, ack) ==
  [t EXCEPT !.sacked = {s \in @ : ~SEQ_LT(s, ack)},
            !.sack_rxmit = IF SEQ_LT(@, ack) THEN ack ELSE @]

tcp_sack_clear(t) ==
  [t EXCEPT !.sacked = {}, !.sack_rxmit = t.snd_una, !.sack_bytes = 0]

tcp_sack_pipe(t) ==
  Sub(t.snd_max, t.snd_una) - Cardinality(t.sacked) + t.sack_bytes

(* The first run of bytes at or after sack_rxmit that is below a block:    *)
(* <<>> or <<sequence number, length>>.                                    *)
tcp_sack_next_hole(t) ==
  LET offs == {Sub(s, t.snd_una) : s \in t.sacked}
      from == IF SEQ_GT(t.sack_rxmit, t.snd_una) THEN Sub(t.sack_rxmit, t.snd_una) ELSE 0
      holes == {n \in from .. Sub(t.snd_max, t.snd_una) :
                  n \notin offs /\ \E b \in offs : b > n}
      first == CHOOSE n \in holes : \A k \in holes : n <= k
      above == CHOOSE b \in offs : b > first /\ \A k \in offs : k > first => b <= k
  IN IF holes = {} THEN <<>> ELSE <<Plus(t.snd_una, first), above - first>>

tcp_sack_build_blocks(t) ==
  UNION {{Plus(e.seq, i) : i \in 0 .. Len(e.pay) - 1} : e \in Range(t.rq)}
-----------------------------------------------------------------------------
(* tcp_cc.c: NewReno.                                                      *)
newreno_initial_window(t) == 4 * t.mss
newreno_half_flight(t) == Max2(Sub(t.snd_max, t.snd_una) \div 2, 2 * t.mss)

newreno_ack_received(t, acked) ==
  LET incr == IF t.cwnd <= t.ssthresh THEN Min2(acked, t.mss) ELSE (t.mss * t.mss) \div t.cwnd
  IN [t EXCEPT !.cwnd = Min2(@ + Max2(incr, 1), 2 * Hiwat)]

newreno_cong_signal(t, rto) ==
  LET half == newreno_half_flight(t) IN
  IF ~rto THEN [t EXCEPT !.ssthresh = half, !.cwnd = half]
  ELSE [t EXCEPT !.ssthresh = IF t.shift <= 1 THEN half ELSE @, !.cwnd = t.mss]

newreno_after_idle(t) == [t EXCEPT !.cwnd = Min2(@, newreno_initial_window(t))]
-----------------------------------------------------------------------------
(* tcp_output.c                                                            *)
tcp_in_sack_recovery(t) == {"FASTRECOVERY", "SACK"} \subseteq t.t_flags

tcp_send_window(t) ==
  LET pipe == tcp_sack_pipe(t)
      cwnd == IF tcp_in_sack_recovery(t)
              THEN Sub(t.snd_nxt, t.snd_una) + Max2(t.cwnd - pipe, 0)
              ELSE t.cwnd
      win == Min2(t.snd_wnd, cwnd)
  IN IF win = 0 /\ "FORCEDATA" \in t.t_flags THEN 1 ELSE win

tcp_plan_sack_rxmit(t, hole, room) ==
  IF room <= 0 THEN [seq |-> t.snd_nxt, off |-> 0, rx |-> FALSE, len |-> 0]
  ELSE [seq |-> hole[1], off |-> Sub(hole[1], t.snd_una), rx |-> TRUE,
        len |-> Min2(Min2(hole[2], t.mss), room)]

(* Faulty variant: data that was sent already is planned again. *)
OffsetForgotten(t) ==
  [seq |-> t.snd_nxt, off |-> 0, rx |-> FALSE,
   len |-> IF HAVEESTABLISHED(t.state) THEN Min2(Len(t.snd), t.mss) ELSE 0]

tcp_plan_data(t) ==
  LET off == Sub(t.snd_nxt, t.snd_una)
      end == Min2(Len(t.snd), tcp_send_window(t))
  IN IF HAVEESTABLISHED(t.state)
     THEN [seq |-> t.snd_nxt, off |-> off, rx |-> FALSE,
           len |-> Min2(Max2(end - off, 0), t.mss)]
     ELSE [seq |-> t.snd_nxt, off |-> 0, rx |-> FALSE, len |-> 0]

tcp_plan_fin(t, p) ==
  \/ p.rx \/ p.off + p.len < Len(t.snd)
  \/ "SENTFIN" \in t.t_flags /\ t.snd_nxt = t.snd_max

(* What the next segment carries. *)
tcp_plan(t) ==
  LET withflags(p) ==
        [seq |-> p.seq, off |-> p.off, rx |-> p.rx, len |-> p.len,
         f |-> tcp_outflags[t.state] \ ((IF tcp_plan_fin(t, p) THEN {"FIN"} ELSE {})
                 \cup (IF t.snd_nxt # t.iss THEN {"SYN"} ELSE {}))]
      sackordata(hole) ==
        IF hole # <<>> THEN tcp_plan_sack_rxmit(t, hole, t.cwnd - tcp_sack_pipe(t))
        ELSE tcp_plan_data(t)
  IN withflags(sackordata(IF tcp_in_sack_recovery(t) THEN tcp_sack_next_hole(t) ELSE <<>>))

tcp_nagle_allows(t, p) == t.snd_max = t.snd_una /\ p.off + p.len >= Len(t.snd)

tcp_window_update_due(t) ==
  /\ HAVEESTABLISHED(t.state)
  /\ LET incr == tcp_rcv_window(t) - Advertised(t) IN
     incr > 0 /\ (incr >= 2 * t.mss \/ 2 * incr >= Hiwat)

tcp_should_send(t, p) ==
  \/ /\ p.len > 0
     /\ \/ p.len >= t.mss \/ p.rx \/ "FORCEDATA" \in t.t_flags
        \/ SEQ_LT(t.snd_nxt, t.snd_max) \/ tcp_nagle_allows(t, p)
  \/ "ACKNOW" \in t.t_flags
  \/ p.f \cap {"SYN", "RST", "FIN"} # {}
  \/ tcp_window_update_due(t)

tcp_setpersist(t) == [Arm(t, "PERSIST") EXCEPT !.shift = Min2(@ + 1, MaxShift)]

tcp_maybe_persist(t) ==
  IF /\ t.snd # <<>> /\ HAVEESTABLISHED(t.state)
     /\ t.timers \cap {"REXMT", "PERSIST"} = {}
  THEN tcp_setpersist([t EXCEPT !.shift = 0])
  ELSE t

(* sockbuf_copy, and the zeroes tcp_build_segment puts where it falls short *)
sockbuf_copy(buf, off, len) ==
  [i \in 1 .. len |-> IF off + i <= Len(buf) THEN buf[off + i] ELSE 0]

tcp_after_send(t, p, win) ==
  LET u == [t EXCEPT !.rcv_adv = IF SEQ_GT(Plus(t.rcv_nxt, win), @)
                                 THEN Plus(t.rcv_nxt, win) ELSE @,
                     !.t_flags = @ \ {"ACKNOW", "DELACK"},
                     !.timers = @ \ {"DELACK"}]
      end == Plus(p.seq, p.len + Cardinality(p.f \cap {"SYN", "FIN"}))
      probe == "FORCEDATA" \in t.t_flags /\ "PERSIST" \in t.timers
      v == [u EXCEPT !.t_flags = @ \cup (IF "FIN" \in p.f THEN {"SENTFIN"} ELSE {}),
                     !.sack_rxmit = IF p.rx THEN end ELSE @,
                     !.sack_bytes = IF p.rx THEN @ + p.len ELSE @,
                     !.snd_nxt = IF probe \/ p.rx THEN @ ELSE end,
                     !.snd_max = IF SEQ_GT(end, @) THEN end ELSE @]
  IN IF "RST" \in p.f THEN u
     ELSE IF probe \/ v.snd_nxt = v.snd_una \/ "REXMT" \in v.timers THEN v
     ELSE [v EXCEPT !.timers = (@ \ {"PERSIST"}) \cup {"REXMT"},
                    !.shift = IF "PERSIST" \in v.timers THEN 0 ELSE @]

tcp_build_segment(t, p, win) ==
  [to |-> Peer(t.end), seq |-> p.seq, ack |-> IF "ACK" \in p.f THEN t.rcv_nxt ELSE 0,
   f |-> p.f, pay |-> sockbuf_copy(t.snd, p.off, p.len), wnd |-> win,
   sk |-> IF "SACK" \in t.t_flags /\ "SYN" \notin p.f THEN tcp_sack_build_blocks(t) ELSE {}]

tcp_output_once(t) ==
  LET full(p) == /\ p.len = t.mss \/ p.rx
                 /\ "RST" \notin p.f /\ "FORCEDATA" \notin t.t_flags
      transmit(p, win) == [Transmit(tcp_after_send(t, p, win), tcp_build_segment(t, p, win))
                             EXCEPT !.more = full(p)]
      send(p) == IF tcp_should_send(t, p) THEN transmit(p, tcp_rcv_window(t))
                 ELSE [tcp_maybe_persist(t) EXCEPT !.more = FALSE]
  IN send(tcp_plan(t))

(* The loop of tcp_output; idle is whether the retransmission timeout has  *)
(* passed since the last input, which cuts the congestion window.          *)
tcp_output(t) ==
  LET u == IF t.snd_max = t.snd_una /\ HAVEESTABLISHED(t.state)
           THEN newreno_after_idle(t) ELSE t
      step(w, i) == IF w.more THEN tcp_output_once(w) ELSE w
  IN FoldLeft(step, [u EXCEPT !.more = TRUE], [i \in 1 .. MaxBurst |-> i])
-----------------------------------------------------------------------------
(* tcp_subr.c                                                              *)
(* The initial control block: tcp_newtcpcb, sock_alloc. *)
tcp_newtcpcb(e, state) ==
  [end |-> e, live |-> TRUE, state |-> state, iss |-> 0, snd_una |-> 0, snd_nxt |-> 0,
   snd_max |-> 0, recover |-> 0, snd_wnd |-> 0, wl1 |-> 0, wl2 |-> 0, rcv_nxt |-> 0,
   rcv_adv |-> 0, mss |-> sc.mss, t_flags |-> {}, timers |-> {}, shift |-> 0, probes |-> 0,
   cwnd |-> 4 * sc.mss, ssthresh |-> 2 * Hiwat, dupacks |-> 0,
   sacked |-> {}, sack_rxmit |-> 0, sack_bytes |-> 0,
   rq |-> <<>>, snd |-> <<>>, rcv |-> <<>>, so |-> "none", cantsend |-> FALSE,
   cantrcv |-> FALSE, error |-> "none", detached |-> FALSE,
   out |-> <<>>, more |-> FALSE, rxend |-> 0, fin |-> FALSE,   \* within one action
   sent |-> 0, got |-> <<>>, eof |-> FALSE, rdshut |-> FALSE]  \* what the program saw

(* tcp_close: the control block is gone; a socket that is still open keeps *)
(* its buffers and is marked disconnected (sock_is_disconnected).          *)
tcp_close(t) ==
  [tcp_newtcpcb(t.end, "CLOSED") EXCEPT
     !.live = FALSE, !.so = "disconnected", !.cantsend = TRUE, !.cantrcv = TRUE,
     !.rcv = IF t.detached THEN <<>> ELSE t.rcv, !.error = t.error,
     !.detached = t.detached, !.out = t.out,
     !.sent = t.sent, !.got = t.got, !.eof = t.eof, !.rdshut = t.rdshut]

tcp_drop(t, error) ==
  LET u == IF HAVERCVDSYN(t.state) THEN tcp_output([t EXCEPT !.state = "CLOSED"]) ELSE t
  IN tcp_close([u EXCEPT !.error = IF t.detached THEN @ ELSE error])

tcp_sendseqinit(t) ==
  [t EXCEPT !.iss = Iss[t.end], !.snd_una = Iss[t.end], !.snd_nxt = Iss[t.end],
            !.snd_max = Iss[t.end], !.recover = Iss[t.end], !.sack_rxmit = Iss[t.end]]

tcp_init_rcv(t, irs) ==
  [t EXCEPT !.rcv_nxt = Plus(irs, 1), !.rcv_adv = Plus(irs, 1),
            !.t_flags = IF sc.sack THEN @ \cup {"SACK"} ELSE @]

tcp_established(t) ==
  LET fin == "NEEDFIN" \in t.t_flags IN
  [t EXCEPT !.state = IF fin THEN "FIN_WAIT_1" ELSE "ESTABLISHED",
            !.cwnd = newreno_initial_window(t),
            !.timers = @ \cup {"KEEP"},
            !.so = IF t.detached THEN @ ELSE "connected",
            !.t_flags = @ \ {"NEEDFIN"}]

tcp_enter_timewait(t) ==
  [t EXCEPT !.state = "TIME_WAIT", !.timers = {"2MSL"},
            !.so = IF t.detached THEN @ ELSE "disconnected",
            !.cantsend = @ \/ ~t.detached, !.cantrcv = @ \/ ~t.detached]

tcp_usrclosed(t) ==
  CASE t.state \in {"CLOSED", "LISTEN", "SYN_SENT"} -> tcp_close(t)
    [] t.state = "SYN_RECEIVED" -> On(t, {"NEEDFIN"})
    [] t.state = "ESTABLISHED" -> [t EXCEPT !.state = "FIN_WAIT_1"]
    [] t.state = "CLOSE_WAIT" -> [t EXCEPT !.state = "LAST_ACK"]
    [] t.state = "FIN_WAIT_2" /\ t.detached -> Arm(t, "2MSL")
    [] OTHER -> t

(* tcp_output, unless the call before it closed the connection *)
OutputIfLive(t) == IF t.live THEN tcp_output(t) ELSE t
-----------------------------------------------------------------------------
(* The reassembly queue: entries in sequence order that do not overlap.    *)
EntryEnd(e) == Plus(e.seq, Len(e.pay))

Queued(t) == FoldLeft(LAMBDA n, x : n + Len(x.pay), 0, t.rq)

tcp_reassemble_full(t, e) == e.seq # t.rcv_nxt /\ Queued(t) + Len(e.pay) > Hiwat

Beyond(a, b) == IF SEQ_GT(a, b) THEN Sub(a, b) ELSE 0

tcp_reassemble_insert(t, e0) ==
  LET before == SelectSeq(t.rq, LAMBDA x : SEQ_LT(x.seq, e0.seq))
      after == SelectSeq(t.rq, LAMBDA x : ~SEQ_LT(x.seq, e0.seq))
      n == Len(before)
      place(e, rest, lap) ==            \* give up what the next entry has
        LET f == [e EXCEPT !.pay = SubSeq(@, 1, Len(@) - lap), !.fin = @ /\ lap = 0]
        IN [t EXCEPT !.rq = before \o <<f>> \o rest]
      absorb(e) ==                      \* take over the entries it covers
        LET rest == SelectSeq(after, LAMBDA x : ~SEQ_LEQ(EntryEnd(x), EntryEnd(e)))
            fin == \E x \in Range(after) : SEQ_LEQ(EntryEnd(x), EntryEnd(e)) /\ x.fin
        IN place([e EXCEPT !.fin = @ \/ fin], rest,
                 IF rest = <<>> THEN 0 ELSE Beyond(EntryEnd(e), Head(rest).seq))
      trim(lap) ==                      \* give up what the entry before has
        IF lap > 0 /\ lap >= Len(e0.pay)
        THEN [t EXCEPT !.rq[n].fin = @ \/ (lap = Len(e0.pay) /\ e0.fin)]
        ELSE absorb([e0 EXCEPT !.seq = Plus(@, lap), !.pay = SubSeq(@, lap + 1, Len(@))])
  IN IF tcp_reassemble_full(t, e0) THEN t
     ELSE trim(IF n = 0 THEN 0 ELSE Beyond(EntryEnd(before[n]), e0.seq))

(* tcp_reassemble_pull: move what has become contiguous to the socket.     *)
(* The field fin of the result says that the FIN was reached.              *)
tcp_reassemble_pull(t) ==
  LET pull(u, i) ==
        IF u.fin \/ u.rq = <<>> THEN u
        ELSE IF Head(u.rq).seq # u.rcv_nxt THEN u
        ELSE LET e == Head(u.rq) IN
             [u EXCEPT !.rq = Tail(@), !.rcv_nxt = Plus(@, Len(e.pay)), !.fin = e.fin,
                       !.rcv = IF t.cantrcv THEN @ ELSE @ \o e.pay]
  IN FoldLeft(pull, [t EXCEPT !.fin = FALSE], t.rq)
-----------------------------------------------------------------------------
(* tcp_input.c                                                             *)
tcp_retransmit_from(t, from, cwnd) ==
  LET back(u) == [u EXCEPT !.snd_nxt = IF SEQ_GT(t.snd_nxt, @) THEN t.snd_nxt ELSE @,
                           !.rxend = u.snd_nxt]
  IN back(tcp_output([t EXCEPT !.snd_nxt = from, !.cwnd = cwnd]))

tcp_enter_recovery(t) ==
  LET s == newreno_cong_signal(t, FALSE)
      recovering(u) ==
        IF "SACK" \in t.t_flags
        THEN [On(u, {"FASTRECOVERY"}) EXCEPT
                !.sack_rxmit = u.rxend, !.sack_bytes = Sub(u.rxend, t.snd_una),
                !.cwnd = u.ssthresh]
        ELSE [On(u, {"FASTRECOVERY"}) EXCEPT !.cwnd = u.ssthresh + t.dupacks * t.mss]
  IN recovering(tcp_retransmit_from([Stop(s, "REXMT") EXCEPT !.recover = t.snd_max],
                                    t.snd_una, t.mss))

tcp_dupack(t, s) ==
  LET isdup == /\ s.pay = <<>> /\ s.wnd = t.snd_wnd /\ s.ack = t.snd_una
               /\ t.snd_max # t.snd_una /\ "FIN" \notin s.f
      more == [t EXCEPT !.dupacks = Min2(@ + 1, DupThresh + 1)]
  IN IF ~isdup THEN [t EXCEPT !.dupacks = 0]
     ELSE IF "FASTRECOVERY" \in t.t_flags
          THEN IF "SACK" \in t.t_flags THEN t ELSE [t EXCEPT !.cwnd = Min2(@ + t.mss, 2 * Hiwat)]
     ELSE IF more.dupacks = DupThresh /\ t.dupacks < DupThresh /\ SEQ_GT(s.ack, t.recover)
          THEN tcp_enter_recovery(more)
     ELSE more

tcp_partial_ack(t, ack) ==
  LET acked == Sub(ack, t.snd_una) IN
  IF "SACK" \in t.t_flags THEN t
  ELSE [tcp_retransmit_from(Stop(t, "REXMT"), ack, t.mss + acked)
          EXCEPT !.cwnd = Max2(t.cwnd - acked, 0) + t.mss]

tcp_exit_recovery(t) ==
  [Off(t, {"FASTRECOVERY"}) EXCEPT !.dupacks = 0, !.sack_bytes = 0, !.cwnd = t.ssthresh]

(* The bytes an acknowledgement frees: not the SYN, not the FIN. *)
tcp_drop_acked_data(t, ack, acked) ==
  LET n == acked - (IF SEQ_LEQ(t.snd_una, t.iss) THEN 1 ELSE 0)
                 - (IF "SENTFIN" \in t.t_flags /\ ack = t.snd_max THEN 1 ELSE 0)
  IN [t EXCEPT !.snd = SubSeq(@, Min2(n, Len(@)) + 1, Len(@))]

(* Faulty variant: the timer stays off although data is outstanding. *)
TimerNotRestarted(t, ack) ==
  [Stop(tcp_drop_acked_data(t, ack, Sub(ack, t.snd_una)), "REXMT")
     EXCEPT !.snd_una = ack, !.snd_nxt = IF SEQ_LT(@, ack) THEN ack ELSE @, !.shift = 0]

tcp_new_ack(t, ack) ==
  LET acked == Sub(ack, t.snd_una)
      congestion == IF "FASTRECOVERY" \notin t.t_flags
                    THEN newreno_ack_received([t EXCEPT !.dupacks = 0], acked)
                    ELSE IF SEQ_LT(ack, t.recover) THEN tcp_partial_ack(t, ack)
                    ELSE tcp_exit_recovery(t)
      advance(u) == [u EXCEPT !.snd_una = ack, !.snd_nxt = IF SEQ_LT(@, ack) THEN ack ELSE @,
                              !.shift = 0]
      timer(w) == IF ack = w.snd_max THEN Stop(w, "REXMT")
                  ELSE IF "PERSIST" \notin w.timers THEN Arm(w, "REXMT")
                  ELSE w
  IN timer(tcp_sack_ack(advance(tcp_drop_acked_data(congestion, ack, acked)), ack))

tcp_our_fin_acked(t) ==
  IF "SENTFIN" \notin t.t_flags \/ t.snd_una # t.snd_max THEN t
  ELSE CASE t.state = "FIN_WAIT_1" ->
              [t EXCEPT !.state = "FIN_WAIT_2",
                        !.timers = IF t.detached THEN @ \cup {"2MSL"} ELSE @]
         [] t.state = "CLOSING" -> tcp_enter_timewait(t)
         [] t.state = "LAST_ACK" -> tcp_close(t)
         [] OTHER -> t

tcp_update_window(t, s) ==
  IF \/ SEQ_LT(t.wl1, s.seq)
     \/ t.wl1 = s.seq /\ (SEQ_LT(t.wl2, s.ack) \/ (t.wl2 = s.ack /\ s.wnd > t.snd_wnd))
  THEN [t EXCEPT !.snd_wnd = s.wnd, !.wl1 = s.seq, !.wl2 = s.ack]
  ELSE t

tcp_process_fin(t) ==
  LET u == [On(t, {"ACKNOW"}) EXCEPT !.cantrcv = @ \/ ~t.detached,
                                     !.eof = @ \/ ~t.detached,
                                     !.rcv_nxt = Plus(@, 1)]
  IN CASE t.state \in {"SYN_RECEIVED", "ESTABLISHED"} -> [u EXCEPT !.state = "CLOSE_WAIT"]
       [] t.state = "FIN_WAIT_1" -> [u EXCEPT !.state = "CLOSING"]
       [] t.state = "FIN_WAIT_2" -> tcp_enter_timewait(u)
       [] OTHER -> u

tcp_schedule_ack(t, delay) ==
  IF ~delay \/ "DELACK" \in t.t_flags THEN On(t, {"ACKNOW"})
  ELSE Arm(On(t, {"DELACK"}), "DELACK")

tcp_process_data(t, s) ==
  LET entry == [seq |-> s.seq, pay |-> s.pay, fin |-> "FIN" \in s.f]
      inorder == s.seq = t.rcv_nxt /\ t.rq = <<>>
      ack(u) == IF s.pay # <<>> THEN tcp_schedule_ack(u, inorder) ELSE u
      fin(u) == IF u.fin THEN tcp_process_fin(u) ELSE u
      nothing == HAVERCVDFIN(t.state) \/ (s.pay = <<>> /\ "FIN" \notin s.f)
  IN IF ~nothing /\ s.pay # <<>> /\ t.detached THEN tcp_drop(t, "none")
     ELSE tcp_output(IF nothing THEN t
                     ELSE fin(ack(tcp_reassemble_pull(tcp_reassemble_insert(t, entry)))))

(* tcp_trim_segment in two cuts: what is old at the front, what is beyond  *)
(* the window at the back.                                                 *)
TrimFront(t, s) ==
  LET syn == IF "SYN" \in s.f THEN 1 ELSE 0
      d == Sub(t.rcv_nxt, s.seq) - syn
      all == d > Len(s.pay) \/ (d = Len(s.pay) /\ "FIN" \notin s.f)
      k == IF all THEN Len(s.pay) ELSE d
  IN IF ~SEQ_LT(s.seq, t.rcv_nxt) THEN [seg |-> s, acknow |-> FALSE]
     ELSE [acknow |-> all,
           seg |-> [s EXCEPT !.seq = Plus(@, syn + k), !.pay = SubSeq(@, k + 1, Len(@)),
                             !.f = @ \ ({"SYN"} \cup (IF all THEN {"FIN"} ELSE {}))]]

TrimBack(t, s, acknow, rcvwnd) ==
  LET over == Beyond(Plus(s.seq, Len(s.pay)), Plus(t.rcv_nxt, rcvwnd))
      none == over >= Len(s.pay)
  IN IF over = 0 THEN [keep |-> TRUE, acknow |-> acknow, seg |-> s]
     ELSE [keep |-> ~(none /\ (rcvwnd > 0 \/ s.seq # t.rcv_nxt)),
           acknow |-> acknow \/ none,
           seg |-> [s EXCEPT !.pay = SubSeq(@, 1, Len(@) - Min2(over, Len(@))),
                             !.f = @ \ {"FIN"}]]

tcp_trim_segment(t, s, rcvwnd) ==
  LET back(x) == TrimBack(t, x.seg, x.acknow, rcvwnd) IN back(TrimFront(t, s))

tcp_input_rst(t, s, rcvwnd) ==
  LET error == CASE t.state = "SYN_RECEIVED" -> "ECONNREFUSED"
                 [] t.state \in {"ESTABLISHED", "FIN_WAIT_1", "FIN_WAIT_2", "CLOSE_WAIT"} ->
                      "ECONNRESET"
                 [] OTHER -> t.error
  IN IF s.seq = t.rcv_nxt
     THEN tcp_close([t EXCEPT !.error = IF t.detached THEN @ ELSE error])
     ELSE IF SEQ_GT(s.seq, t.rcv_nxt) /\ SEQ_LT(s.seq, Plus(t.rcv_nxt, Max2(rcvwnd, 1)))
          THEN tcp_send_challenge_ack(t)
     ELSE t

(* tcp_process_ack and what follows it in tcp_input_sync. *)
tcp_process_ack(t, s) ==
  LET handshake == t.state = "SYN_RECEIVED"
      after(w) == IF w.live THEN tcp_process_data(tcp_update_window(w, s), s) ELSE w
      ack(v) == IF SEQ_LEQ(s.ack, v.snd_una) THEN tcp_dupack(v, s)
                ELSE tcp_our_fin_acked(tcp_new_ack(v, s.ack))
      sack(u) == IF "SACK" \in u.t_flags THEN tcp_sack_update(u, s.sk) ELSE u
  IN IF handshake /\ (SEQ_LEQ(s.ack, t.snd_una) \/ SEQ_GT(s.ack, t.snd_max))
     THEN tcp_respond(t, 0, s.ack, {"RST"})
     ELSE IF SEQ_GT(s.ack, t.snd_max) THEN tcp_output(On(t, {"ACKNOW"}))
     ELSE after(ack(sack(IF handshake THEN tcp_established(t) ELSE t)))

tcp_input_sync(t, s) ==
  LET rcvwnd == tcp_rcv_space(t)
      trimmed(x) ==
        LET u == IF x.acknow THEN On(t, {"ACKNOW"}) ELSE t IN
        IF ~x.keep THEN tcp_output(On(t, {"ACKNOW"}))
        ELSE IF "SYN" \in x.seg.f THEN tcp_send_challenge_ack(u)
        ELSE IF "ACK" \notin s.f THEN u
        ELSE tcp_process_ack(u, x.seg)
  IN IF "RST" \in s.f THEN tcp_input_rst(t, s, rcvwnd)
     ELSE trimmed(tcp_trim_segment(t, s, rcvwnd))

tcp_input_listen(t, s) ==
  IF "RST" \in s.f THEN t
  ELSE IF "ACK" \in s.f THEN tcp_reply_reset(t, s)
  ELSE IF "SYN" \notin s.f THEN t
  ELSE tcp_output(
         [tcp_sendseqinit(tcp_init_rcv(t, s.seq))
            EXCEPT !.state = "SYN_RECEIVED", !.snd_wnd = s.wnd, !.wl1 = s.seq,
                   !.timers = {"KEEP"}, !.t_flags = @ \cup {"ACKNOW"}])

(* SYN_SENT, for a segment that does not establish the connection.         *)
tcp_input_syn_sent(t, s) ==
  LET bad == "ACK" \in s.f /\ (SEQ_LEQ(s.ack, t.iss) \/ SEQ_GT(s.ack, t.snd_max))
      u == On(tcp_init_rcv(t, s.seq), {"ACKNOW"})
  IN IF bad THEN IF "RST" \in s.f THEN t ELSE tcp_respond(t, 0, s.ack, {"RST"})
     ELSE IF "RST" \in s.f THEN IF "ACK" \in s.f THEN tcp_drop(t, "ECONNREFUSED") ELSE t
     ELSE IF "SYN" \notin s.f THEN t
     ELSE tcp_output([u EXCEPT !.snd_wnd = s.wnd, !.wl1 = s.seq, !.snd_nxt = t.iss,
                               !.state = "SYN_RECEIVED"])

(* SYN_SENT, for one that does: the segment goes on without its SYN.       *)
SynAcked(t, s) ==
  /\ t.state = "SYN_SENT" /\ {"SYN", "ACK"} \subseteq s.f /\ "RST" \notin s.f
  /\ ~(SEQ_LEQ(s.ack, t.iss) \/ SEQ_GT(s.ack, t.snd_max))

SynAckedBlock(t, s) ==
  LET u == On(Stop(tcp_init_rcv(t, s.seq), "REXMT"), {"ACKNOW"}) IN
  tcp_established([u EXCEPT !.shift = 0, !.snd_una = s.ack, !.sack_rxmit = s.ack,
                            !.snd_nxt = IF SEQ_LT(@, s.ack) THEN s.ack ELSE @,
                            !.wl1 = s.seq])

(* tcp_input_packet and tcp_input: a segment for no connection is answered *)
(* with a reset.                                                           *)
tcp_input(t0, s) ==
  LET t == [t0 EXCEPT !.probes = 0]
      synacked == t.live /\ SynAcked(t, s)
  IN CASE ~t.live \/ t.state = "CLOSED" -> tcp_reply_reset(t, s)
       [] t.live /\ t.state = "LISTEN" -> tcp_input_listen(t, s)
       [] t.live /\ t.state = "SYN_SENT" /\ ~synacked -> tcp_input_syn_sent(t, s)
       [] OTHER ->
            tcp_input_sync(IF synacked THEN SynAckedBlock(t, s) ELSE t,
                           IF synacked THEN [s EXCEPT !.seq = Plus(@, 1), !.f = @ \ {"SYN"}]
                           ELSE s)
-----------------------------------------------------------------------------
(* tcp_timer.c                                                             *)
tcp_rexmt_timeout(t) ==
  LET u == [t EXCEPT !.shift = @ + 1]
      v == IF HAVEESTABLISHED(t.state) THEN newreno_cong_signal(u, TRUE) ELSE u
  IN IF u.shift > MaxShift THEN tcp_drop(u, "ETIMEDOUT")
     ELSE tcp_output(Arm(tcp_sack_clear(
            [Off(v, {"FASTRECOVERY"}) EXCEPT !.snd_nxt = t.snd_una, !.recover = t.snd_max,
                                             !.dupacks = 0]), "REXMT"))

tcp_timer_persist(t) == Off(tcp_output(On(tcp_setpersist(t), {"FORCEDATA"})), {"FORCEDATA"})

(* idle: nothing was received for TCP_KEEPIDLE_MS *)
tcp_keep_timeout(t, idle) ==
  IF ~HAVEESTABLISHED(t.state) THEN tcp_drop(t, "ETIMEDOUT")
  ELSE IF t.end \notin sc.keep \/ t.state \notin {"ESTABLISHED", "CLOSE_WAIT"}
       THEN Arm(t, "KEEP")
  ELSE IF ~idle THEN [Arm(t, "KEEP") EXCEPT !.probes = 0]
  ELSE IF t.probes >= KeepCnt THEN tcp_drop(t, "ETIMEDOUT")
  ELSE Arm(tcp_respond([t EXCEPT !.probes = @ + 1], t.rcv_nxt, Sub(t.snd_una, 1), {"ACK"}),
           "KEEP")

tcp_timer_delack(t) == tcp_output(On(Off(t, {"DELACK"}), {"ACKNOW"}))
-----------------------------------------------------------------------------
Init ==
  /\ sc \in Scenarios
  /\ tp = [e \in Ends |->
             tcp_newtcpcb(e, IF e = B /\ sc.passive THEN "LISTEN" ELSE "CLOSED")]
  /\ net = [e \in Ends |-> <<>>]
  /\ faults = sc.faults

(* The handler of endpoint e ends in control block t; flight is what is    *)
(* left of the segments in flight.                                         *)
Finish(e, t, flight) ==
  /\ tp' = [tp EXCEPT ![e] = [t EXCEPT !.out = <<>>, !.more = FALSE, !.rxend = 0, !.fin = FALSE]]
  /\ net' = [flight EXCEPT ![Peer(e)] = @ \o t.out]
  /\ UNCHANGED sc

UserStep(e, call, t) ==
  /\ call \in sc.calls[e]
  /\ Finish(e, t, net)
  /\ UNCHANGED faults

Fault(k) == faults[k] > 0 /\ faults' = [faults EXCEPT ![k] = @ - 1]

(* sock_connect_locked and tcp_connect_locked *)
Connect(e) ==
  /\ tp[e].live /\ tp[e].state = "CLOSED" /\ tp[e].so = "none" /\ ~tp[e].detached
  /\ UserStep(e, "connect",
              tcp_output([tcp_sendseqinit(tp[e])
                            EXCEPT !.state = "SYN_SENT", !.so = "connecting",
                                   !.timers = {"KEEP"}]))

(* sock_send_locked and tcp_send, a byte at a time *)
Send(e) ==
  LET t == tp[e] IN
  /\ t.live /\ ~t.detached /\ ~t.cantsend /\ t.error = "none" /\ t.so = "connected"
  /\ t.sent < sc.len[e] /\ Space(t.snd) > 0
  /\ t.state \in {"SYN_SENT", "SYN_RECEIVED", "ESTABLISHED", "CLOSE_WAIT"}
  /\ UserStep(e, "send", tcp_output([t EXCEPT !.snd = Append(@, t.sent + 1), !.sent = @ + 1]))

(* sock_recv_locked, with a buffer that takes all there is; tcp_rcvd *)
Recv(e) ==
  LET t == tp[e] IN
  /\ ~t.detached /\ t.rcv # <<>>
  /\ UserStep(e, "recv", OutputIfLive([t EXCEPT !.rcv = <<>>, !.got = @ \o t.rcv]))

(* sock_shutdown_locked and tcp_shutdown *)
ShutdownRead(e) ==
  /\ ~tp[e].detached /\ tp[e].so \in {"connected", "connecting"}
  /\ UserStep(e, "shut_rd",
              [tp[e] EXCEPT !.cantrcv = TRUE, !.rcv = <<>>, !.rdshut = TRUE])

ShutdownWrite(e) ==
  LET w == [tp[e] EXCEPT !.cantsend = TRUE] IN
  /\ ~w.detached /\ w.so \in {"connected", "connecting"}
  /\ UserStep(e, "shut_wr", OutputIfLive(IF w.live THEN tcp_usrclosed(w) ELSE w))

(* sock_close_locked: tcp_disconnect_tp when connected, then tcp_detach.   *)
(* so->linger is never anything but -1, so disconnecting never drops.      *)
Close(e) ==
  LET t == tp[e]
      detach(d) == IF ~d.live \/ ~HAVEESTABLISHED(d.state) THEN tcp_close(d)
                   ELSE OutputIfLive(tcp_usrclosed(d))
      gone(d) == detach([d EXCEPT !.detached = TRUE, !.rdshut = TRUE])
  IN /\ ~t.detached /\ ~(t.live /\ t.state = "LISTEN")
     /\ UserStep(e, "close",
                 gone(IF ~(t.so = "connected" /\ t.live) THEN t
                      ELSE IF ~HAVEESTABLISHED(t.state) THEN tcp_close(t)
                      ELSE OutputIfLive(tcp_usrclosed([t EXCEPT !.cantsend = TRUE,
                                                                !.cantrcv = TRUE]))))

(* A segment arrives: the next one, a copy of it, or the one behind it. *)
Arrive(e, i, copy) ==
  /\ i \in DOMAIN net[e]
  /\ \/ i = 1 /\ ~copy /\ UNCHANGED faults
     \/ i = 1 /\ copy /\ Fault("dup")
     \/ i = 2 /\ ~copy /\ Fault("reorder")
  /\ Finish(e, tcp_input(tp[e], net[e][i]),
            IF copy THEN net ELSE [net EXCEPT ![e] = RemoveAt(@, i)])

Lose(e) ==
  /\ net[e] # <<>> /\ Fault("loss")
  /\ net' = [net EXCEPT ![e] = Tail(@)]
  /\ UNCHANGED <<sc, tp>>

(* tcp_ctlinput_locked: a router drops a segment of e and tells e that it  *)
(* was too big, or that the port is closed.                                *)
TooBig(e) ==
  LET q == net[Peer(e)] IN
  /\ q # <<>> /\ Fault("loss")
  /\ tp[e].live /\ Len(Head(q).pay) > MinMss /\ MinMss < tp[e].mss
  /\ Finish(e, tcp_output([tp[e] EXCEPT !.mss = MinMss, !.snd_nxt = tp[e].snd_una]),
            [net EXCEPT ![Peer(e)] = Tail(@)])

Refused(e) ==
  /\ net[Peer(e)] # <<>> /\ Fault("loss")
  /\ tp[e].live /\ tp[e].state = "SYN_SENT"
  /\ Finish(e, tcp_drop(tp[e], "ECONNREFUSED"), [net EXCEPT ![Peer(e)] = Tail(@)])

(* A timer other than the delayed acknowledgement outlasts the segments in *)
(* flight, except for the spurious ones.                                   *)
Quiet == \A e \in Ends : net[e] = <<>>

Timer(e, which, t) ==
  /\ tp[e].live /\ which \in tp[e].timers
  /\ \/ (which = "DELACK" \/ Quiet) /\ UNCHANGED faults
     \/ which \in {"REXMT", "PERSIST"} /\ ~Quiet /\ Fault("spurious")
  /\ Finish(e, t, net)

RexmtTimer(e) == Timer(e, "REXMT", tcp_rexmt_timeout(Stop(tp[e], "REXMT")))
PersistTimer(e) == Timer(e, "PERSIST", tcp_timer_persist(Stop(tp[e], "PERSIST")))
KeepTimer(e) ==
  \E idle \in BOOLEAN : Timer(e, "KEEP", tcp_keep_timeout(Stop(tp[e], "KEEP"), idle))
TwoMslTimer(e) == Timer(e, "2MSL", tcp_close(Stop(tp[e], "2MSL")))
DelackTimer(e) == Timer(e, "DELACK", tcp_timer_delack(Stop(tp[e], "DELACK")))

TimerNames == {"REXMT", "PERSIST", "KEEP", "2MSL", "DELACK"}

Next ==
  \E e \in Ends :
    \/ Connect(e) \/ Send(e) \/ Recv(e)
    \/ ShutdownRead(e) \/ ShutdownWrite(e) \/ Close(e)
    \/ \E i \in 1 .. 2, copy \in BOOLEAN : Arrive(e, i, copy)
    \/ Lose(e) \/ TooBig(e) \/ Refused(e)
    \/ RexmtTimer(e) \/ PersistTimer(e) \/ KeepTimer(e) \/ TwoMslTimer(e) \/ DelackTimer(e)

Spec == Init /\ [][Next]_vars
-----------------------------------------------------------------------------
TypeOK ==
  /\ \A e \in Ends :
       /\ tp[e].state \in Range(States)
       /\ tp[e].timers \subseteq TimerNames
       /\ {tp[e].snd_una, tp[e].snd_nxt, tp[e].snd_max, tp[e].rcv_nxt, tp[e].rcv_adv}
            \subseteq 0 .. SeqSpace - 1
       /\ tp[e].shift \in 0 .. MaxShift + 1
       /\ tp[e].so \in {"none", "connecting", "connected", "disconnected"}
  /\ \A k \in Faults : faults[k] \in 0 .. sc.faults[k]

(* The bytes a program reads are the bytes its peer wrote, in order and    *)
(* without a gap: the offsets tcp_plan_data computes, tcp_drop_acked_data, *)
(* the trimming of tcp_trim_segment and the reassembly queue agree,        *)
(* whatever is lost, repeated, overtaken or cut to a smaller segment size. *)
StreamPrefix ==
  \A e \in Ends :
    IsPrefix(tp[e].got \o tp[e].rcv, [i \in 1 .. tp[Peer(e)].sent |-> i])

(* End of file (tcp_process_fin) reaches a program only after every byte   *)
(* its peer wrote: the FIN neither overtakes data nor is taken from a      *)
(* segment whose end was cut off.                                          *)
EofComplete ==
  \A e \in Ends :
    tp[e].eof /\ ~tp[e].rdshut =>
      /\ tp[Peer(e)].cantsend
      /\ Len(tp[e].got \o tp[e].rcv) = tp[Peer(e)].sent

(* A connection with something unacknowledged, with data the peer's window *)
(* admits, or with a FIN due, has its retransmission or its persist timer  *)
(* running: no loss stalls it.  (Unsent data behind a closed window is not *)
(* covered: when the acknowledgement that closes the window also asks for  *)
(* one, tcp_output_once sends it and never gets to tcp_maybe_persist.)     *)
Pending(t) ==
  \/ t.snd_una # t.snd_max
  \/ HAVEESTABLISHED(t.state) /\ t.snd # <<>> /\ t.snd_wnd > 0
  \/ /\ t.state \in {"FIN_WAIT_1", "CLOSING", "LAST_ACK"}
     /\ t.snd = <<>> /\ "SENTFIN" \notin t.t_flags

NoStall ==
  \A e \in Ends :
    tp[e].live /\ tp[e].state # "LISTEN" /\ Pending(tp[e])
      => tp[e].timers \cap {"REXMT", "PERSIST"} # {}

(* The retransmission and the persist timer share the back-off counter     *)
(* rexmt_shift and never run together.                                     *)
OneBackoff == \A e \in Ends : ~({"REXMT", "PERSIST"} \subseteq tp[e].timers)

(* snd_una <= snd_nxt <= snd_max in sequence order, over every retreat of  *)
(* snd_nxt: timeouts, recovery, partial acknowledgements, smaller segments.*)
SendOrder ==
  \A e \in Ends :
    LET t == tp[e] IN
    Sub(t.snd_nxt, t.snd_una) + Sub(t.snd_max, t.snd_nxt) = Sub(t.snd_max, t.snd_una)

(* What was received and not yet read, in order or not, fits the receive   *)
(* buffer: no advertised window is taken back and none is overrun.         *)
ReceiveBounded ==
  \A e \in Ends :
    Len(tp[e].rcv) + Queued(tp[e]) <= Hiwat

(* The reassembly queue is sorted, without overlap, and lies beyond        *)
(* rcv_nxt: nothing deliverable is left in it.                             *)
ReassemblySound ==
  \A e \in Ends :
    LET q == tp[e].rq IN
    /\ tp[e].live /\ q # <<>> => SEQ_GT(q[1].seq, tp[e].rcv_nxt)
    /\ \A i \in 1 .. Len(q) - 1 : SEQ_LEQ(EntryEnd(q[i]), q[i + 1].seq)

(* A connection whose socket is closed still has a timer that can end it:  *)
(* nothing else would ever free its control block.  (With the exception    *)
(* above: data held back by a closed window.)                              *)
OrphanEnds ==
  \A e \in Ends :
    tp[e].detached /\ tp[e].live /\ ~(tp[e].snd # <<>> /\ tp[e].snd_wnd = 0)
      => tp[e].timers \cap {"REXMT", "PERSIST", "2MSL"} # {}

(* What holds of the stream and of the sequence numbers in every state.    *)
TcpSound ==
  /\ TypeOK /\ StreamPrefix /\ EofComplete /\ OneBackoff /\ SendOrder
  /\ ReceiveBounded /\ ReassemblySound

(* Somebody will always go on: a connection with something to send, or one *)
(* whose socket is closed, has a timer or a segment under way.             *)
TcpProgress == NoStall /\ OrphanEnds
=============================================================================

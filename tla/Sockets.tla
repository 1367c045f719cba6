------------------------------- MODULE Sockets -------------------------------
(* The socket layer: calls of several threads on connected AF_UNIX stream    *)
(* sockets and on a listening socket, sleeping on socket buffers, shutdown,  *)
(* close while another thread sleeps, and the queues of a listener.  A step  *)
(* is what a call does under the net lock until it sleeps or returns; the    *)
(* file reference of a call is dropped after the lock, in a step of its own. *)
(* TCP's part of a connection is reduced to the calls it makes here.         *)
EXTENDS Integers, Sequences, FiniteSets, SequencesExt

CONSTANTS
  Socks, SockThreads,   \* integers; idle ones are alike, the lowest is taken
  NoSock,
  Hiwat,        \* bytes in a socket buffer
  Backlog,
  SockCases     \* operations, how many calls, and the arguments they take

VARIABLES
  so,        \* the sockets
  th,        \* the threads' calls
  sockCase
sockVars == <<so, th, sockCase>>

(* next and taken (ghosts): bytes sent to the socket, and read from it.      *)
Socket(kind) ==
  [kind |-> kind, refs |-> 1, fd |-> TRUE, pins |-> 0, peer |-> NoSock,
   rcv |-> <<>>, sndcc |-> 0, next |-> 0, taken |-> 0,
   connected |-> FALSE, connecting |-> FALSE, cantsend |-> FALSE, cantrcv |-> FALSE, error |-> FALSE,
   wait |-> {}, head |-> NoSock, embryonic |-> FALSE, incomplete |-> <<>>, complete |-> <<>>, shutrd |-> FALSE]
Free == [Socket("free") EXCEPT !.refs = 0, !.fd = FALSE]
Idle == [op |-> "idle", so |-> NoSock, want |-> 0, done |-> 0, all |-> FALSE, nb |-> FALSE,
         asleep |-> FALSE, on |-> "rcv", filling |-> FALSE, expired |-> FALSE, intr |-> FALSE]
IsOpen(s) == so[s].kind # "free"

Lowest(S) == {x \in S : \A y \in S : x <= y}
FreeSock == Lowest({s \in Socks : ~IsOpen(s)})
IdleThread == Lowest({t \in SockThreads : th[t].op = "idle"})

Pair(a, b) == [so EXCEPT ![a] = [Socket("unix") EXCEPT !.peer = b, !.connected = TRUE],
                         ![b] = [Socket("unix") EXCEPT !.peer = a, !.connected = TRUE]]
SockInit(cases) ==
  /\ sockCase \in cases
  /\ so = [s \in Socks |-> Free]
  /\ th = [t \in SockThreads |-> Idle]

-----------------------------------------------------------------------------
(* A step changes sockets to S, the caller's record to T, and wakes those    *)
(* that sleep on a buffer of a socket in W whose SB_WAIT flag is set.        *)

Sleeper(t, W) == th[t].asleep /\ th[t].so \in W /\ th[t].on \in so[th[t].so].wait
Commit(S, T, W) ==
  /\ so' = [s \in Socks |-> IF s \in W THEN [S[s] EXCEPT !.wait = {}] ELSE S[s]]
  /\ th' = [t \in SockThreads |-> IF Sleeper(t, W) THEN [T[t] EXCEPT !.asleep = FALSE] ELSE T[t]]
Return(S, t, W) == Commit(S, [th EXCEPT ![t] = [@ EXCEPT !.op = "put"]], W)
(* Faulty variant: the flag is not set before the thread sleeps. *)
SleepsUnmarked(t, on) == Commit(so, [th EXCEPT ![t] = [@ EXCEPT !.asleep = TRUE, !.on = on]], {})
sockbuf_wait(t, on) ==
  Commit([so EXCEPT ![th[t].so] = [@ EXCEPT !.wait = @ \cup {on}]], [th EXCEPT ![t] = [@ EXCEPT !.asleep = TRUE, !.on = on]], {})

SockStep(op) == op \in sockCase.ops /\ sockCase.left > 0 /\ sockCase' = [sockCase EXCEPT !.left = @ - 1]
Called(t, op, s, want, all, nb) ==
  /\ SockStep(op) /\ t \in IdleThread /\ IsOpen(s) /\ so[s].fd
  /\ th' = [th EXCEPT ![t] = [Idle EXCEPT !.op = op, !.so = s, !.want = want, !.all = all, !.nb = nb]]
fd_pin(t, op, s, want, all, nb) ==
  Called(t, op, s, want, all, nb) /\ so' = [so EXCEPT ![s] = [@ EXCEPT !.pins = @ + 1]]

-----------------------------------------------------------------------------
(* AF_UNIX. *)

sockbuf_space(s) == IF so[s].sndcc < Hiwat THEN Hiwat - so[s].sndcc ELSE 0
Bytes(from, n) == [i \in 1..n |-> from + i]
(* n bytes of s go to its peer. *)
unix_send(s, n) ==
  LET p == so[s].peer  q == so[p].rcv \o Bytes(so[p].next, n)
  IN [so EXCEPT ![p] = [@ EXCEPT !.rcv = q, !.next = @ + n], ![s] = [@ EXCEPT !.sndcc = Len(q)]]
unix_rcvd(S, s) == IF S[s].peer = NoSock THEN S ELSE [S EXCEPT ![S[s].peer] = [@ EXCEPT !.sndcc = Len(S[s].rcv)]]
unix_detach(S, s) ==
  LET p == S[s].peer
  IN IF p = NoSock THEN S
     ELSE [S EXCEPT ![s] = [@ EXCEPT !.peer = NoSock],
                    ![p] = [@ EXCEPT !.peer = NoSock, !.cantrcv = TRUE, !.cantsend = TRUE]]
unix_shutdown(S, s) ==
  LET C == [S EXCEPT ![s] = [@ EXCEPT !.cantsend = TRUE]]
  IN IF S[s].peer = NoSock THEN C ELSE [C EXCEPT ![S[s].peer] = [@ EXCEPT !.cantrcv = TRUE]]

-----------------------------------------------------------------------------
(* The parts of a call between two sleeps. *)

Blocks(x) == ~x.nb /\ ~x.expired
sock_recv_locked(t) ==
  LET x == th[t]  s == x.so  k == so[s]
      n == Min({Len(k.rcv), x.want})
      took == [so EXCEPT ![s] = [@ EXCEPT !.rcv = SubSeq(@, n + 1, Len(@)), !.taken = @ + n]]
  IN IF x.intr /\ ~x.filling THEN Return(so, t, {})
     ELSE IF k.rcv = <<>> /\ ~x.filling
     THEN IF k.error THEN Return([so EXCEPT ![s].error = FALSE], t, {})
          ELSE IF k.cantrcv THEN Return(so, t, {})
          ELSE IF ~(k.connected \/ k.connecting) \/ ~Blocks(x) THEN Return(so, t, {})
          ELSE sockbuf_wait(t, "rcv")
     ELSE IF x.all /\ Len(k.rcv) < x.want /\ ~k.cantrcv /\ ~k.error /\ Blocks(x) /\ ~x.intr
     THEN Commit([so EXCEPT ![s] = [@ EXCEPT !.wait = @ \cup {"rcv"}]],
                 [th EXCEPT ![t] = [@ EXCEPT !.asleep = TRUE, !.on = "rcv", !.filling = TRUE]], {})
     ELSE Return(IF k.kind = "unix" THEN unix_rcvd(took, s) ELSE took, t, IF k.peer = NoSock THEN {} ELSE {k.peer})

PeerShut(k) == k.peer = NoSock \/ so[k.peer].cantrcv
sock_send_locked(t) ==
  LET x == th[t]  s == x.so  k == so[s]
      n == Min({x.want - x.done, sockbuf_space(s)})
  IN IF x.intr \/ k.cantsend THEN Return(so, t, {})
     ELSE IF k.error THEN Return(IF x.done > 0 THEN so ELSE [so EXCEPT ![s].error = FALSE], t, {})
     ELSE IF ~k.connected \/ x.done = x.want THEN Return(so, t, {})
     ELSE IF n = 0 THEN IF Blocks(x) THEN sockbuf_wait(t, "snd") ELSE Return(so, t, {})
     ELSE IF PeerShut(k) THEN Return(so, t, {})
     ELSE Commit(unix_send(s, n), [th EXCEPT ![t] = [@ EXCEPT !.done = @ + n]], {k.peer})

(* connect holds no reference to the file: see fd_close. *)
sock_connect_locked(t) ==
  LET x == th[t]  s == x.so
      done == [th EXCEPT ![t] = Idle]
  IN IF so[s].connecting /\ ~so[s].error
     THEN IF x.intr \/ ~Blocks(x) THEN Commit(so, done, {}) ELSE sockbuf_wait(t, "rcv")
     ELSE Commit([so EXCEPT ![s].error = FALSE], done, {})

(* accept: the first complete connection gets a descriptor, or is closed     *)
(* when there is none left.                                                  *)
Conn(s) == Head(so[s].complete)
AfterAccept(s, c, ok) == [so EXCEPT ![s] = [@ EXCEPT !.complete = Tail(@)], ![c] = IF ok THEN [@ EXCEPT !.head = NoSock, !.fd = TRUE] ELSE Free]
sock_accept_locked(t, ok) ==
  LET x == th[t]  s == x.so
  IN IF x.intr THEN Return(so, t, {})
     ELSE IF so[s].complete # <<>> THEN Return(AfterAccept(s, Conn(s), ok), t, {})
     ELSE IF so[s].error \/ ~Blocks(x) THEN Return([so EXCEPT ![s].error = FALSE], t, {})
     ELSE sockbuf_wait(t, "rcv")

Run(t) ==
  /\ ~th[t].asleep /\ th[t].op \in {"recv", "send", "accept", "connect"}
  /\ \/ th[t].op = "recv" /\ sock_recv_locked(t)
     \/ th[t].op = "send" /\ sock_send_locked(t)
     \/ th[t].op = "connect" /\ sock_connect_locked(t)
     \/ th[t].op = "accept" /\ \E ok \in BOOLEAN : sock_accept_locked(t, ok)
  /\ UNCHANGED sockCase
(* SO_RCVTIMEO, SO_SNDTIMEO: the callout wakes whoever sleeps on the buffer. *)
sockbuf_timeout(t) ==
  /\ th[t].asleep /\ ~th[t].expired /\ "timeout" \in sockCase.ops
  /\ Commit([so EXCEPT ![th[t].so].wait = @ \ {th[t].on}],
            [u \in SockThreads |-> IF th[u].asleep /\ th[u].so = th[t].so /\ th[u].on = th[t].on
                                   THEN [th[u] EXCEPT !.asleep = FALSE, !.expired = u = t \/ @] ELSE th[u]], {})
  /\ UNCHANGED sockCase
Signal(t) ==
  /\ SockStep("signal") /\ th[t].asleep
  /\ th' = [th EXCEPT ![t] = [@ EXCEPT !.asleep = FALSE, !.intr = TRUE]] /\ UNCHANGED so

-----------------------------------------------------------------------------
(* Shutdown and close. *)

sock_shutdown_locked(s, how) ==
  /\ SockStep("shutdown") /\ IsOpen(s) /\ so[s].fd /\ so[s].kind = "unix" /\ so[s].connected
  /\ LET R == IF how = "wr" THEN so ELSE [so EXCEPT ![s] = [@ EXCEPT !.cantrcv = TRUE, !.rcv = <<>>, !.taken = so[s].next, !.shutrd = TRUE]]
         W == IF how = "rd" THEN R ELSE unix_shutdown(R, s)
     IN Commit(W, th, IF how = "rd" THEN {s} ELSE {s} \cup ({so[s].peer} \ {NoSock}))

Queued(k) == ToSet(k.incomplete) \cup ToSet(k.complete)
sock_release(S, s) == IF S[s].refs <= 1 THEN [S EXCEPT ![s] = Free] ELSE [S EXCEPT ![s].refs = @ - 1]
(* Connections that wait are aborted: their control blocks go, and the       *)
(* sockets stay, since they no longer have a listener to release them.       *)
Aborted(k) == [k EXCEPT !.head = NoSock, !.kind = "lost", !.connected = FALSE, !.cantsend = TRUE, !.cantrcv = TRUE]
drain_queues(S, s) == [c \in Socks |-> IF c \in Queued(S[s]) THEN Aborted(S[c]) ELSE S[c]]
sock_close_locked(S, s) == sock_release(unix_detach(drain_queues(S, s), s), s)
(* The last reference to the file: socket_file_close. *)
FileClosed(S, T, s) == Commit(sock_close_locked(S, s), T, {s} \cup ({S[s].peer} \ {NoSock}))

(* Not modelled: the close of a socket whose connect() sleeps.               *)
fd_close(s) ==
  /\ SockStep("close") /\ IsOpen(s) /\ so[s].fd /\ \A t \in SockThreads : ~(th[t].op = "connect" /\ th[t].so = s)
  /\ LET S == [so EXCEPT ![s].fd = FALSE] IN IF so[s].pins = 0 THEN FileClosed(S, th, s) ELSE so' = S /\ UNCHANGED th
vfs_file_put(t) ==
  /\ th[t].op = "put"
  /\ LET s == th[t].so  S == [so EXCEPT ![s].pins = @ - 1]  T == [th EXCEPT ![t] = Idle]
     IN IF so[s].fd \/ so[s].pins > 1 THEN so' = S /\ th' = T ELSE FileClosed(S, T, s)
  /\ UNCHANGED sockCase

-----------------------------------------------------------------------------
(* socketpair: the second descriptor may be missing, and both are closed.    *)
(* Bound: one pair at a time.                                                *)
sys_socketpair(a, b, ok) ==
  /\ SockStep("pair") /\ FreeSock = {a} /\ b = a + 1 /\ \A s \in Socks : ~IsOpen(s)
  /\ so' = IF ok THEN Pair(a, b) ELSE so
  /\ UNCHANGED th
sock_create(s) ==
  /\ SockStep("socket") /\ s \in FreeSock /\ so' = [so EXCEPT ![s] = Socket("tcp")] /\ UNCHANGED th
sys_connect(t, s, nb) ==
  /\ Called(t, "connect", s, 0, FALSE, nb)
  /\ so[s].kind = "tcp" /\ so[s].head = NoSock /\ ~so[s].connected /\ ~so[s].connecting /\ ~so[s].cantrcv
  /\ so' = [so EXCEPT ![s] = [@ EXCEPT !.error = FALSE, !.connecting = TRUE]]
sock_listen_locked(s) ==
  /\ SockStep("listen") /\ s \in FreeSock /\ \A x \in Socks : so[x].kind # "listen"
  /\ so' = [so EXCEPT ![s] = Socket("listen")] /\ UNCHANGED th

(* What TCP calls for a connection to the listener l. *)
Waiting(l) == Len(so[l].incomplete) + Len(so[l].complete)
Full(l) == Waiting(l) >= Backlog
sock_new_conn(l, c) ==
  /\ SockStep("conn") /\ so[l].kind = "listen" /\ c \in FreeSock /\ ~Full(l)
  /\ so' = [so EXCEPT ![l] = [@ EXCEPT !.incomplete = Append(@, c)],
                      ![c] = [Socket("tcp") EXCEPT !.fd = FALSE, !.head = l, !.embryonic = TRUE]]
  /\ UNCHANGED th
sock_is_connected(c) ==
  /\ SockStep("conn") /\ so[c].kind = "tcp" /\ (so[c].embryonic \/ so[c].connecting)
  /\ LET l == so[c].head  C == [so EXCEPT ![c] = [@ EXCEPT !.connected = TRUE, !.connecting = FALSE, !.embryonic = FALSE]]
     IN IF l = NoSock THEN Commit(C, th, {c})
        ELSE Commit([C EXCEPT ![l] = [@ EXCEPT !.incomplete = SelectSeq(@, LAMBDA x : x # c), !.complete = Append(@, c)]], th, {c, l})
(* A reset: an embryo goes with its listener's reference, another connection *)
(* is told and stays where it is.                                            *)
sock_drop_embryo(c) ==
  /\ SockStep("reset") /\ so[c].kind = "tcp" /\ (so[c].head # NoSock \/ so[c].connected \/ so[c].connecting)
  /\ IF so[c].head # NoSock /\ so[c].embryonic
     THEN Commit([so EXCEPT ![so[c].head] = [@ EXCEPT !.incomplete = SelectSeq(@, LAMBDA x : x # c)], ![c] = Free], th, {})
     ELSE Commit([so EXCEPT ![c] = [@ EXCEPT !.connected = FALSE, !.connecting = FALSE, !.cantsend = TRUE, !.cantrcv = TRUE, !.error = TRUE]], th, {c})

SockNext ==
  \/ \E t \in SockThreads : Run(t) \/ sockbuf_timeout(t) \/ Signal(t) \/ vfs_file_put(t)
  \/ \E t \in SockThreads, s \in Socks :
       \/ so[s].kind \in {"unix", "tcp"} /\ \E n \in sockCase.sizes, all \in sockCase.all, nb \in sockCase.nb : fd_pin(t, "recv", s, n, all, nb)
       \/ so[s].kind = "unix" /\ \E n \in sockCase.sizes, nb \in sockCase.nb : fd_pin(t, "send", s, n, FALSE, nb)
       \/ \E nb \in sockCase.nb : sys_connect(t, s, nb)
       \/ so[s].kind = "listen" /\ \E nb \in sockCase.nb : fd_pin(t, "accept", s, 0, FALSE, nb)
  \/ \E s \in Socks : fd_close(s) \/ sock_create(s) \/ \E how \in {"rd", "wr", "rdwr"} : sock_shutdown_locked(s, how)
  \/ \E a, b \in Socks : sys_socketpair(a, b, TRUE) \/ sys_socketpair(a, b, FALSE)
  \/ \E l \in Socks : sock_listen_locked(l) \/ \E c \in Socks : sock_new_conn(l, c)
  \/ \E c \in Socks : sock_is_connected(c) \/ sock_drop_embryo(c)

-----------------------------------------------------------------------------
Events(s) ==
  LET k == so[s]
  IN (IF k.error THEN {"err", "out"} ELSE {}) \cup
     (IF k.kind = "listen" THEN IF k.complete = <<>> THEN {} ELSE {"in"}
      ELSE (IF k.rcv # <<>> \/ k.cantrcv THEN {"in"} ELSE {})
           \cup (IF k.connected /\ ~k.cantsend /\ sockbuf_space(s) > 0 THEN {"out"} ELSE {})
           \cup (IF k.cantrcv /\ k.cantsend THEN {"hup"} ELSE {}))
socket_poll_locked(s) == Events(s)

(* Type: counters in range and nothing queued beyond the backlog.            *)
SockTypeOK ==
  /\ \A s \in Socks : /\ so[s].pins \in 0..Cardinality(SockThreads) /\ so[s].refs \in 0..1
                      /\ Len(so[s].rcv) <= Hiwat
                      /\ Waiting(s) <= Backlog
  /\ \A t \in SockThreads : th[t].asleep => th[t].op \in {"recv", "send", "accept", "connect"}

(* A call never works on a socket that was freed, whoever closes the         *)
(* descriptor while it sleeps, and the peer of a socket is there.            *)
CallHoldsSocket ==
  /\ \A t \in SockThreads : th[t].so # NoSock => IsOpen(th[t].so)
  /\ \A s \in Socks : so[s].peer # NoSock => so[so[s].peer].peer = s

(* A connection is in a queue of its listener exactly when it says so, once, *)
(* and its listener is open: nothing points to a listener that was closed.   *)
QueuesMatch ==
  \A l, c \in Socks :
    /\ so[c].head = l => IsOpen(l) /\ c \in Queued(so[l])
    /\ c \in Queued(so[l]) => /\ so[c].head = l
                              /\ Cardinality({i \in DOMAIN so[l].incomplete : so[l].incomplete[i] = c})
                                 + Cardinality({i \in DOMAIN so[l].complete : so[l].complete[i] = c}) = 1

(* The bytes in a buffer are the ones sent and not yet read, in order; and   *)
(* what the sender counts against its limit is what lies in the buffer.      *)
UnixStream ==
  \A s \in Socks : so[s].kind = "unix" =>
    /\ so[s].rcv = Bytes(so[s].taken, so[s].next - so[s].taken)
    /\ so[s].peer # NoSock /\ ~so[s].shutrd => so[so[s].peer].sndcc = Len(so[s].rcv)

(* Nobody sleeps who could go on: a reader without data on a connection that *)
(* is or may come, a writer without room, accept without a connection,       *)
(* connect before the answer.  Excepted: a writer whose peer shut down its   *)
(* reading side: nothing tells the writer.                                   *)
NoLostSocketWake ==
  \A t \in SockThreads : th[t].asleep => LET s == th[t].so
    IN /\ th[t].op = "recv" => /\ ~so[s].cantrcv /\ ~so[s].error /\ (so[s].connected \/ so[s].connecting)
                                /\ (so[s].rcv = <<>> \/ (th[t].all /\ Len(so[s].rcv) < th[t].want))
       /\ th[t].op = "connect" => so[s].connecting /\ ~so[s].error
       /\ th[t].op = "accept" => so[s].complete = <<>>
       /\ th[t].op = "send" => ~so[s].cantsend /\ (sockbuf_space(s) = 0 \/ so[so[s].peer].shutrd)

(* After the end of the stream was read nothing more can arrive.             *)
EofIsFinal ==
  [][\A s \in Socks : so[s].kind = "unix" /\ so[s].cantrcv => Len(so'[s].rcv) <= Len(so[s].rcv)]_sockVars

(* poll and the calls agree: a call that would wait is not announced, and    *)
(* what is not announced would wait.                                         *)
PollAgrees ==
  \A s \in Socks : IsOpen(s) /\ so[s].fd =>
    /\ so[s].kind = "unix" => (("in" \in socket_poll_locked(s)) <=> (so[s].rcv # <<>> \/ so[s].cantrcv))
    /\ so[s].kind = "unix" /\ so[s].cantsend = FALSE => (("out" \in socket_poll_locked(s)) <=> sockbuf_space(s) > 0)
    /\ so[s].kind = "listen" /\ "in" \notin socket_poll_locked(s) => so[s].complete = <<>>
=============================================================================

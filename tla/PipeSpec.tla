-------------------------------- MODULE PipeSpec --------------------------------
(***************************************************************************)
(* What a pipe promises: bytes come out in the order they went in, none    *)
(* lost or doubled; a write of at most ATOMIC bytes goes in as a whole or  *)
(* not at all; the bytes of a longer write go in in their order.           *)
(***************************************************************************)
EXTENDS Integers, Sequences

CONSTANTS
    Writer, Lengths,
    PIPE_BUFFER_SIZE, PIPE_ATOMIC

VARIABLES
    queue,     \* the bytes under way; byte i of a write of n by w is <<w, i, n>>
    written    \* written[w]: the bytes of w's present write that went in

vars == <<queue, written>>

Init == queue = <<>> /\ written = [w \in Writer |-> 0]

Bytes(w, from, to, n) == [i \in 1 .. to - from |-> <<w, from + i, n>>]

Put(w, n, k) ==
    /\ n <= PIPE_ATOMIC => k = n
    /\ k <= n - written[w] /\ Len(queue) + k <= PIPE_BUFFER_SIZE
    /\ queue' = queue \o Bytes(w, written[w], written[w] + k, n)
    /\ \E m \in {0, written[w] + k} : written' = [written EXCEPT ![w] = m]

\* The write is over, complete or cut short.
End(w) == written' = [written EXCEPT ![w] = 0] /\ UNCHANGED queue

Take(k) ==
    /\ queue' = SubSeq(queue, k + 1, Len(queue))
    /\ UNCHANGED written

Next ==
    \/ \E w \in Writer, n \in Lengths : End(w) \/ \E k \in 1 .. PIPE_BUFFER_SIZE : Put(w, n, k)
    \/ \E k \in 1 .. Len(queue) : Take(k)

Spec == Init /\ [][Next]_vars

===============================================================================

------------------------------- MODULE MCTcp -------------------------------
(* Small instances of Tcp: sequence numbers wrap during each of them.      *)
EXTENDS Tcp

Two(x, y) == (A :> x) @@ (B :> y)
Issues == Two(30, 31)

F(l, d, r, s) == [k \in Faults |-> CASE k = "loss" -> l [] k = "dup" -> d
                                     [] k = "reorder" -> r [] OTHER -> s]

(* A sends n bytes, B reads; both close. *)
Transfer(sack, mss, hiwat, n, f) ==
  [passive |-> TRUE, sack |-> sack, keep |-> {}, mss |-> mss, hiwat |-> hiwat,
   len |-> Two(n, 0), faults |-> f,
   calls |-> Two({"connect", "send", "shut_wr"}, {"recv", "close"})]

(* Both ends make all calls; nobody sends, or both send a byte. *)
Talk(passive, n, keep, calls, f) ==
  [passive |-> passive, sack |-> TRUE, keep |-> keep, mss |-> 2, hiwat |-> 4,
   len |-> Two(n, n), calls |-> [e \in Ends |-> {"connect", "close"} \cup calls],
   faults |-> f]

Cases ==
  {Transfer(TRUE, 1, 4, 3, F(1, 0, 0, 0)),      \* recovery with SACK
   Transfer(FALSE, 1, 4, 3, F(1, 0, 0, 0)),     \* and without
   Transfer(TRUE, 2, 4, 3, F(1, 0, 0, 0)),      \* Nagle, smaller segments
   Transfer(TRUE, 1, 4, 2, F(0, 1, 1, 0)),      \* copies and disorder
   Transfer(TRUE, 1, 2, 3, F(1, 0, 0, 0)),      \* closed windows
   Transfer(TRUE, 1, 2, 3, F(0, 0, 0, 1)),      \* and early retransmission
   Talk(FALSE, 0, {A}, {"shut_rd", "shut_wr"}, F(1, 0, 0, 0)),  \* simultaneous open
   Talk(TRUE, 1, {}, {"send", "recv"}, F(0, 0, 0, 0))}          \* close against data
=============================================================================

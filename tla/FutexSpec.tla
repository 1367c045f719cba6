------------------------------- MODULE FutexSpec -------------------------------
(***************************************************************************)
(* What a futex promises: blocking happens only in a state where the word  *)
(* holds the value the caller expects, a wake takes the longest waiting    *)
(* threads of just that address, and a wait may also end by itself.        *)
(***************************************************************************)
EXTENDS Integers, FiniteSets

CONSTANTS Thread, Addr, Value, Counts

VARIABLES
    word,    \* the memory
    want,    \* want[t]: the address and value of t's last FUTEX_WAIT
    queue    \* queue[t]: t and who blocked before it on its address

vars == <<word, want, queue>>

Init ==
    /\ word \in [Addr -> Value]
    /\ want \in [Thread -> Addr \X Value]
    /\ queue = [t \in Thread |-> {}]

Blocked(t) == t \in queue[t]

\* The threads blocked on a, and those of them that are among the first n.
On(a) == {t \in Thread : Blocked(t) /\ want[t][1] = a}
First(a, n) == {t \in On(a) : Cardinality(queue[t]) <= n}

Unblock(S) == queue' = [t \in Thread |-> IF t \in S THEN {} ELSE queue[t] \ S]

Store(a, v) == word' = [word EXCEPT ![a] = v] /\ UNCHANGED <<want, queue>>

Call(t) ==
    /\ ~Blocked(t)
    /\ \E w \in Addr \X Value : want' = [want EXCEPT ![t] = w]
    /\ UNCHANGED <<word, queue>>

Block(t) ==
    /\ ~Blocked(t)
    /\ word[want[t][1]] = want[t][2]
    /\ queue' = [queue EXCEPT ![t] = On(want[t][1]) \cup {t}]
    /\ UNCHANGED <<word, want>>

Wake(a, n) == Unblock(First(a, n)) /\ UNCHANGED <<word, want>>

Leave(t) == Unblock({t}) /\ UNCHANGED <<word, want>>

Next ==
    \/ \E a \in Addr, v \in Value : Store(a, v)
    \/ \E a \in Addr, n \in Counts \cup {1} : Wake(a, n)
    \/ \E t \in Thread : Call(t) \/ Block(t) \/ Leave(t)

Spec == Init /\ [][Next]_vars

===============================================================================

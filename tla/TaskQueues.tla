----------------------------- MODULE TaskQueues -----------------------------
(***************************************************************************)
(* What the task queue promises: what one thread put in comes out in that  *)
(* order and once, whoever takes it.  Between threads there is no order.   *)
(***************************************************************************)
EXTENDS Sequences, Naturals

CONSTANT
    MaxPut  \* a bound of the model: how many items one call adds

VARIABLES
    queue,  \* what of each producer is in the queue: <<p, k>> is the k-th item it added
    added,  \* how many items each producer added
    hand    \* what each consumer has taken in its call

vars == <<queue, added, hand>>

Init ==
    /\ \A p \in DOMAIN queue : queue[p] = <<>> /\ added[p] = 0
    /\ \A c \in DOMAIN hand : hand[c] = <<>>

Put(p) == \E n \in 1..MaxPut :
    /\ queue' = [queue EXCEPT ![p] = @ \o [k \in 1..n |-> <<p, added[p] + k>>]]
    /\ added' = [added EXCEPT ![p] = @ + n]
    /\ UNCHANGED hand

Take(c, p) == \E n \in 1..Len(queue[p]) :
    /\ queue' = [queue EXCEPT ![p] = SubSeq(@, n + 1, Len(@))]
    /\ hand' = [hand EXCEPT ![c] = @ \o SubSeq(queue[p], 1, n)]
    /\ UNCHANGED added

\* A call returns what it took, or that there is nothing.
Return(c) == hand' = [hand EXCEPT ![c] = <<>>] /\ UNCHANGED <<queue, added>>

Next ==
    \/ \E p \in DOMAIN queue : Put(p)
    \/ \E c \in DOMAIN hand : Return(c) \/ \E p \in DOMAIN queue : Take(c, p)

Spec == Init /\ [][Next]_vars

=============================================================================

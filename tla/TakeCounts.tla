---------------------------- MODULE TakeCounts ----------------------------
(***************************************************************************)
(* How consumers share out the items of a producer, of either kind: they   *)
(* count themselves in (dequeueOptimisticCount), look whether there is an  *)
(* item for each, and then claim the head, or count themselves out         *)
(* (dequeueOvercommit).  All counters wrap.                                *)
(***************************************************************************)
EXTENDS Integers, Sequences, FiniteSets, SequencesExt, FiniteSetsExt

CONSTANTS
    Consumer,
    BlockSize,  \* BLOCK_SIZE
    Wrap        \* 2 to the width of index_t

VARIABLES
    tailIndex, headIndex, optimistic, overcommit,  \* of each producer
    made,       \* how many items each producer added
    take        \* what each consumer is about

Counts == <<tailIndex, headIndex, optimistic, overcommit>>

\* Variant: a counter that has wrapped around comes first.
PlainLess(a, b) == a < b

circular_less_than(a, b) == (a - b) % Wrap > Wrap \div 2

Plus(a, b) == (a + b) % Wrap
Minus(a, b) == (a - b) % Wrap
Base(i) == i - (i % BlockSize)

\* The distance of two blocks' bases, in blocks: their difference is taken as signed.
Offset(i, base) == LET d == Minus(i, base) IN (IF d < Wrap \div 2 THEN d ELSE d - Wrap) \div BlockSize

TakeAt(c, pc) == take[c].pc = pc
Takes(c, rec) == take' = [take EXCEPT ![c] = rec]

\* What a consumer knows while it tries producer p.
TakeFrom(p) == [pc |-> "load", bulk |-> FALSE, max |-> 0, got |-> <<>>, p |-> p, tail |-> 0, over |-> 0,
                want |-> 0, mine |-> 0, n |-> 0, index |-> 0, header |-> 0, slot |-> 0, block |-> 0, moved |-> 0]

\* ProducerBase::size_approx().
size_approx(p) ==
    IF circular_less_than(headIndex[p], tailIndex[p]) THEN Minus(tailIndex[p], headIndex[p]) ELSE 0

-----------------------------------------------------------------------------
\* dequeue() and dequeue_bulk() of a producer, up to the claim.

LoadCounts(c) == LET t == take[c] IN
    /\ TakeAt(c, "load")
    /\ Takes(c, [t EXCEPT !.pc = "check", !.tail = tailIndex[t.p], !.over = overcommit[t.p]])
    /\ UNCHANGED Counts

\* Whether there may be something to take.
Check(c, otherwise) == LET t == take[c] d == Minus(t.tail, Minus(optimistic[t.p], t.over)) IN
    /\ TakeAt(c, "check")
    /\ Takes(c, IF circular_less_than(0, d)
                THEN [t EXCEPT !.pc = "commit", !.tail = 0, !.want = Min({d, t.max - Len(t.got)})]
                ELSE otherwise)
    /\ UNCHANGED Counts

\* The consumer counts itself in.
Commit(c) == LET t == take[c] IN
    /\ TakeAt(c, "commit")
    /\ optimistic' = [optimistic EXCEPT ![t.p] = Plus(@, t.want)]
    /\ Takes(c, [t EXCEPT !.pc = "verify", !.mine = optimistic[t.p]])
    /\ UNCHANGED <<tailIndex, headIndex, overcommit>>

\* Variant: what is too many is counted out only if it is all.
VerifyAll(c) == LET t == take[c] d == Minus(tailIndex[t.p], Minus(t.mine, t.over)) IN
    /\ TakeAt(c, "verify")
    /\ Takes(c, IF circular_less_than(0, d)
                THEN [t EXCEPT !.pc = "claim", !.mine = 0, !.over = 0, !.n = Min({t.want, d})]
                ELSE [t EXCEPT !.pc = "excess", !.mine = 0, !.over = 0])
    /\ UNCHANGED Counts

\* How many items there are for it, now that it is counted in.
Verify(c) == LET t == take[c] d == Minus(tailIndex[t.p], Minus(t.mine, t.over))
                 n == IF circular_less_than(0, d) THEN Min({t.want, d}) ELSE 0 IN
    /\ TakeAt(c, "verify")
    /\ Takes(c, [t EXCEPT !.n = n, !.mine = 0, !.over = 0,
                          !.pc = IF n < t.want THEN "excess" ELSE "claim"])
    /\ UNCHANGED Counts

\* It counts itself out again, for what is too many.
CountExcessOut(c, otherwise) == LET t == take[c] IN
    /\ TakeAt(c, "excess")
    /\ overcommit' = [overcommit EXCEPT ![t.p] = Plus(@, t.want - t.n)]
    /\ Takes(c, IF t.n = 0 THEN otherwise ELSE [t EXCEPT !.pc = "claim", !.want = t.n])
    /\ UNCHANGED <<tailIndex, headIndex, optimistic>>

\* The items are its own; which ones, the head tells.
Claim(c) == LET t == take[c] IN
    /\ TakeAt(c, "claim")
    /\ headIndex' = [headIndex EXCEPT ![t.p] = Plus(@, t.n)]
    /\ Takes(c, [t EXCEPT !.pc = "index", !.want = 0, !.index = headIndex[t.p]])
    /\ UNCHANGED <<tailIndex, optimistic, overcommit>>

\* With otherwise, what the consumer does when there is nothing for it here.
TakeStep(c, otherwise) ==
    \/ LoadCounts(c) \/ Check(c, otherwise) \/ Commit(c) \/ Verify(c) \/ CountExcessOut(c, otherwise) \/ Claim(c)

-----------------------------------------------------------------------------
\* How many items consumers are counted in for and have neither claimed nor counted out.
InFlight(p) == Cardinality(UNION {{c} \X (1..take[c].want) :
    c \in {c \in DOMAIN take : take[c].p = p /\ take[c].pc \in {"verify", "excess", "claim"}}})

\* However many consumers count themselves in and out, in whatever order: the two counters and the
\* consumers under way make up the head, and it never passes the tail.
CountsSettle == \A p \in DOMAIN tailIndex :
    /\ Plus(headIndex[p], InFlight(p)) = Minus(optimistic[p], overcommit[p])
    /\ headIndex[p] = tailIndex[p] \/ circular_less_than(headIndex[p], tailIndex[p])

\* A consumer that no other one gets in the way of is not told that the queue is empty when it is
\* not.  (With others, it may be: between a consumer's counting itself in and out again, an item
\* that another producer's thread adds counts as taken.)
AloneFinds == \A c \in DOMAIN take : TakeAt(c, "return") /\ take[c].alone => take[c].got # <<>>

\* The place in what p added of the item at an index that is in the queue, and the n items from there on.
Number(p, i) == made[p] - Minus(tailIndex[p], i) + 1
Items(p, i, n) == [k \in 1..n |-> <<p, Number(p, Plus(i, k - 1))>>]

\* What a consumer has moved, and what it has claimed.
Hand(c) == LET t == take[c] IN
    t.got \o (IF t.pc \in {"index", "tail", "front", "base", "move", "empty", "unlink", "free"}
              THEN Items(t.p, Plus(t.index, t.moved), t.n - t.moved) ELSE <<>>)

Q == INSTANCE TaskQueues WITH
    added <- made, MaxPut <- Wrap \div 2,
    queue <- [p \in DOMAIN tailIndex |-> Items(p, headIndex[p], Minus(tailIndex[p], headIndex[p]))],
    hand <- [c \in DOMAIN take |-> Hand(c)]

\* Whoever takes what and when, what one thread added comes out in its order, and once.
QueueIsFifo == Q!Spec

=============================================================================

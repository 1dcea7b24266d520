------------------------------- MODULE HashRing -------------------------------
(***************************************************************************)
(* turbo::hash_ring, circular_map and circular_iterator                    *)
(* (src/src/lib/consistent_hashing/): a std::map of places on a ring, and  *)
(* walks around it.  An iterator is a place or End.                        *)
(***************************************************************************)
EXTENDS Integers, Sequences, FiniteSets

CONSTANTS
    RingPlace,  \* the hashes, 0 to some number
    RingKey,
    HashOf      \* [RingKey -> RingPlace], Hash, with collisions

VARIABLE ring  \* the map, from places in use to the keys last stored there

vars == <<ring>>

Init == ring = [p \in {} |-> {}]

End == -1

Used == DOMAIN ring

First(S) == IF S = {} THEN End ELSE CHOOSE p \in S : \A q \in S : p <= q

\* operator[], and an assignment to what it returns.
Store(k) == ring' = [p \in Used \cup {HashOf[k]} |-> IF p = HashOf[k] THEN k ELSE ring[p]]

\* remove(): of whatever is stored under the key's hash.
Remove(k) ==
    /\ HashOf[k] \in Used
    /\ ring' = [p \in Used \ {HashOf[k]} |-> ring[p]]

Next == \E k \in RingKey : Store(k) \/ Remove(k)

Spec == Init /\ [][Next]_vars

-----------------------------------------------------------------------------
\* lower_bound() and upper_bound(), from what std::map's find: its end is the ring's beginning.
Bound(S) == IF S = {} THEN First(Used) ELSE First(S)
LowerBound(h) == Bound({p \in Used : p >= h})
UpperBound(h) == Bound({p \in Used : p > h})

\* find(): not wrapped.
Find(h) == IF h \in Used THEN h ELSE End

\* A variant for the mutation runs: begin() is put in the place of end() too late.
AfterLate(p, start) ==
    LET next == First({q \in Used : q > p}) IN IF next = start THEN End ELSE next

\* ++ of an iterator that began at start: the map's end becomes its begin, and start its end.
After(p, start) ==
    LET next == First({q \in Used : q > p})
        around == IF next = End THEN First(Used) ELSE next
    IN  IF around = start THEN End ELSE around

\* What a loop from an iterator to end() sees.
Walk(start) ==
    LET from[n \in 0..Cardinality(RingPlace), p \in RingPlace \cup {End}] ==
            IF n = 0 \/ p = End THEN <<>> ELSE <<p>> \o from[n - 1, After(p, start)]
    IN  from[Cardinality(RingPlace), start]

-----------------------------------------------------------------------------
\* How far p is from h, going up and around.
Ahead(h, p) == (p - h) % Cardinality(RingPlace)

\* A walk that begins where a key's search leads meets each place in use once, the nearest
\* ahead of h first.
OnceAround(start, h) ==
    LET walk == Walk(start)
    IN  /\ {walk[i] : i \in DOMAIN walk} = Used
        /\ \A i, j \in DOMAIN walk : i < j => Ahead(h, walk[i]) < Ahead(h, walk[j])

\* That is so from every starting point on the ring, on rings of none and of one, for a key's own
\* place (lower_bound, find) and for the one behind it (upper_bound).
WalksAround ==
    \A h \in RingPlace :
        /\ OnceAround(LowerBound(h), h)
        /\ OnceAround(UpperBound(h), (h + 1) % Cardinality(RingPlace))
        /\ h \in Used => OnceAround(Find(h), h)

=============================================================================

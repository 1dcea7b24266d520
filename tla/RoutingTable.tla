----------------------------- MODULE RoutingTable -----------------------------
(***************************************************************************)
(* kademlia::routing_table (src/src/lib/kademlia/routing_table.h): a list  *)
(* of values for each power of two that their distance from an origin may  *)
(* reach.  A value is its own hash, as in most of the tests, given by its  *)
(* bits, the highest first.                                                *)
(*                                                                         *)
(* An iterator is <<b, i>>: _current is the list b, and the list iterator  *)
(* stands on its ith value.  It is at the end when it stands behind the    *)
(* last list, whatever its _current.  members is history.                  *)
(***************************************************************************)
EXTENDS Integers, Sequences, FiniteSets

CONSTANTS
    HashBits,    \* sizeof(HashType) * 8
    Origins,     \* what _origin may be: it is not initialized
    ManyValues   \* the 100 above which random() tries a bucket first

Value == [1..HashBits -> {0, 1}]
Bucket == 1..HashBits

VARIABLES table, origin, size, members

vars == <<table, origin, size, members>>

Init ==
    /\ table = [b \in Bucket |-> <<>>]
    /\ origin \in Origins
    /\ size = 0
    /\ members = {}

-----------------------------------------------------------------------------
\* A variant for the mutation runs: the number of equal bits, not of unequal ones.
IndexFromTop(v) ==
    IF v = origin THEN HashBits
    ELSE CHOOSE i \in 1..HashBits : v[i] # origin[i] /\ \A j \in 1..(i - 1) : v[j] = origin[j]

\* index(): one more than the highest bit in which the hash differs from the origin, counted
\* from 0 at the lowest; without a difference the first list, as for the lowest bit.
Index(v) ==
    IF v = origin THEN 1
    ELSE HashBits + 1 -
         CHOOSE i \in 1..HashBits : v[i] # origin[i] /\ \A j \in 1..(i - 1) : v[j] = origin[j]

\* std::find() in a list; 0 is its end().
Position(list, v) ==
    IF \E i \in DOMAIN list : list[i] = v
    THEN CHOOSE i \in DOMAIN list : list[i] = v /\ \A j \in 1..(i - 1) : list[j] # v
    ELSE 0

Erased(list, i) == SubSeq(list, 1, i - 1) \o SubSeq(list, i + 1, Len(list))

\* set_origin(), before there are values: the lists are not sorted anew.
SetOrigin(v) ==
    /\ size = 0
    /\ origin' = v
    /\ UNCHANGED <<table, size, members>>

Insert(v) ==
    /\ Position(table[Index(v)], v) = 0
    /\ table' = [table EXCEPT ![Index(v)] = Append(@, v)]
    /\ size' = size + 1
    /\ members' = members \cup {v}
    /\ UNCHANGED origin

\* A variant for the mutation runs: erase() that counts what it has not found.
EraseCounts(v) ==
    LET i == Position(table[Index(v)], v)
    IN  /\ size > 0
        /\ table' = IF i = 0 THEN table ELSE [table EXCEPT ![Index(v)] = Erased(@, i)]
        /\ size' = size - 1
        /\ members' = members \ {v}
        /\ UNCHANGED origin

Erase(v) ==
    LET i == Position(table[Index(v)], v)
    IN  /\ i # 0
        /\ table' = [table EXCEPT ![Index(v)] = Erased(@, i)]
        /\ size' = size - 1
        /\ members' = members \ {v}
        /\ UNCHANGED origin

Next == \E v \in Value : (v \in Origins /\ SetOrigin(v)) \/ Insert(v) \/ Erase(v)

Spec == Init /\ [][Next]_vars

-----------------------------------------------------------------------------
End == <<HashBits, Len(table[HashBits]) + 1>>

\* iterate_until_valid_or_end(), from the ith place of list b.
Settled[b \in Bucket, i \in Nat] ==
    IF i > Len(table[b]) /\ b < HashBits THEN Settled[b + 1, 1] ELSE <<b, i>>

Begin == Settled[1, 1]

\* find()
Find(v) ==
    LET i == Position(table[Index(v)], v) IN IF i = 0 THEN End ELSE Settled[Index(v), i]

\* ++ of an iterator, and * of one that is not at the end.
After(it) == Settled[it[1], it[2] + 1]
At(it) == table[it[1]][it[2]]

\* What a loop from it to end() sees.
Walk(it) ==
    LET from[n \in Nat, j \in Bucket \X Nat] ==
            IF j = End \/ n = 0 THEN <<>> ELSE <<At(j)>> \o from[n - 1, After(j)]
    IN  from[2 * Cardinality(Value), it]

\* A variant for the mutation runs: always at least one step.
StepsFromOne == 1..(size - 1)

\* How far from begin() random() may go.
Steps == 0..(size - 1)

\* random(): the iterators it may return.
Random ==
    LET nth[n \in Nat] == IF n = 0 THEN Begin ELSE After(nth[n - 1])
        whole == {nth[n] : n \in Steps}
        inBucket(b) == IF table[b] # <<>> THEN {<<b, i>> : i \in DOMAIN table[b]}
                       ELSE IF Settled[b, 1] # End THEN {Settled[b, 1]} ELSE whole
    IN  IF size = 0 THEN {Begin}
        ELSE IF size > ManyValues THEN UNION {inBucket(b) : b \in Bucket}
        ELSE whole

-----------------------------------------------------------------------------
\* A value's distance from the origin.
Distance(v) ==
    LET bit(i) == IF v[i] = origin[i] THEN 0 ELSE 2 ^ (HashBits - i)
        sum[i \in 0..HashBits] == IF i = 0 THEN 0 ELSE bit(i) + sum[i - 1]
    IN  sum[HashBits]

\* find() finds the values that have been inserted and not erased, and size() counts them.
FindsMembers ==
    /\ \A v \in Value : v \in members <=> Find(v) # End /\ At(Find(v)) = v
    /\ size = Cardinality(members)

\* A walk from begin() to end() meets each value once, and whatever is twice as far from the
\* origin as another, and not next to it, comes after it, over any number of empty lists.
WalksOutward ==
    LET walk == Walk(Begin)
    IN  /\ {walk[i] : i \in DOMAIN walk} = members /\ Len(walk) = size
        /\ \A i, j \in DOMAIN walk : 
               Distance(walk[j]) >= 2 /\ Distance(walk[j]) >= 2 * Distance(walk[i]) => i < j

\* random() gives a value when there is one, and may give any.
RandomIsFair ==
    IF members = {} THEN Random = {End} ELSE {At(it) : it \in Random} = members

=============================================================================

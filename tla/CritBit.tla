------------------------------- MODULE CritBit -------------------------------
(***************************************************************************)
(* turbo::critbit_tree (src/src/lib/merkle_tree/critbit_tree.h) with the   *)
(* extension merkle_tree.h gives it, as operators on a tree.               *)
(*                                                                         *)
(* A key is its bits, in the order of its bytes in memory; a C string is   *)
(* as long as any other, with zeros behind its end, as the code reads it.  *)
(* The address of a node is never looked at, so a node is named by the     *)
(* bits its leaves have in common: a leaf by its key, a branch by the bits *)
(* before the critical one, which is what byte and otherbits are for.      *)
(*                                                                         *)
(* A hash is a set that ^ takes the symmetric difference of: a hash        *)
(* function without collisions.                                            *)
(***************************************************************************)
EXTENDS Integers, Sequences, TLC

LOCAL INSTANCE SequencesExt

CONSTANT Bits

Key == [1..Bits -> {0, 1}]
Zero == [i \in 1..Bits |-> 0]

Null == <<-1>>

IsBranch(n) == n # Null /\ Len(n) < Bits

\* The bit a branch decides on.
Bit(b) == Len(b) + 1

\* calculateDirection()
Direction(b, k) == k[Bit(b)]

\* A tree: _root, the branches' children and hashes, and the hashes kept with the leaves.
EmptyTree == [root |-> Null, child |-> <<>>, hash |-> <<>>, leaf |-> <<>>]

Child(t, b, d) == t.child[b][d + 1]

-----------------------------------------------------------------------------
\* The nodes from n on the way to k, past branches on bits up to p.  The loops of
\* walkTreeForBestMember(), nearest_subtree(), insert(), remove() and enumerate().
RECURSIVE Path(_, _, _, _)
Path(t, n, k, p) ==
    IF IsBranch(n) /\ Bit(n) <= p
    THEN <<n>> \o Path(t, Child(t, n, Direction(n, k)), k, p)
    ELSE <<n>>

\* walkTreeForBestMember()
BestMember(t, n, k) == Last(Path(t, n, k, Bits))

\* begin() with d = 0 and end() with d = 1.
RECURSIVE Outermost(_, _, _)
Outermost(t, n, d) == IF IsBranch(n) THEN Outermost(t, Child(t, n, d), d) ELSE n

\* findCriticalBit(): the first bit two keys differ in, or 0.
CriticalBit(j, k) ==
    IF j = k THEN 0 ELSE CHOOSE i \in 1..Bits : j[i] # k[i] /\ \A m \in 1..(i - 1) : j[m] = k[m]

\* find()
Found(t, k) == t.root # Null /\ BestMember(t, t.root, k) = k

-----------------------------------------------------------------------------
Xor(g, h) == (g \ h) \cup (h \ g)

Hash(t, n) == IF IsBranch(n) THEN t.hash[n] ELSE t.leaf[n]

Rehash(t, b) ==
    LET h == Xor(Hash(t, Child(t, b, 0)), Hash(t, Child(t, b, 1)))
    IN  [t EXCEPT !.hash = [c \in {b} |-> h] @@ @]

\* onchange(): the hashes of the branches in _changes again, in the deque's order.
OnChange(t, changes) == FoldLeft(Rehash, t, changes)

\* A variant for the mutation runs: push_back.
PushedBack(branches) == branches

\* push_change() of one branch after the other: each comes to the front.
Pushed(branches) == Reverse(branches)

\* *where_at = n, where_at being where the walk to k past these branches has got to.
Hang(t, passed, k, n) ==
    IF passed = <<>> THEN [t EXCEPT !.root = n]
    ELSE [t EXCEPT !.child[Last(passed)][Direction(Last(passed), k) + 1] = n]

\* A variant for the mutation runs: insert() walks on to a leaf.
WayToLeaf(t, k, p) == Path(t, t.root, k, Bits)

\* The nodes insert() walks past with a key whose new branch is on bit p, and the one it puts
\* that branch above.
WayIn(t, k, p) == Path(t, t.root, k, p)

\* The new branch's children: on the side of the closest key what was there before.
NewChildren(p, closest, below, k) == IF closest[p] = 0 THEN <<below, k>> ELSE <<k, below>>

\* insert() of a key with its hash; one that is there is left alone.  The memory of a new branch
\* is not initialized; {} stands for what its hash is before onchange().
Insertion(t, k, h) ==
    LET closest == BestMember(t, t.root, k)
        p == CriticalBit(closest, k)
        passed == Front(WayIn(t, k, p))
        newnode == SubSeq(k, 1, p - 1)
        children == NewChildren(p, closest, Last(WayIn(t, k, p)), k)
        withLeaf == [t EXCEPT !.leaf = (k :> h) @@ @]
    IN  IF t.root = Null THEN [withLeaf EXCEPT !.root = k]
        ELSE IF p = 0 THEN t
        ELSE OnChange(Hang([withLeaf EXCEPT !.child = (newnode :> children) @@ @,
                                            !.hash = (newnode :> {}) @@ @],
                           passed, k, newnode),
                      Pushed(Append(passed, newnode)))

Without(f, x) == [y \in DOMAIN f \ {x} |-> f[y]]

\* remove(): the leaf's parent goes too, and its other child moves up; of the branches on the
\* way, those above the parent are pushed.
Removal(t, k) ==
    LET passed == Front(Path(t, t.root, k, Bits))
        parent == Last(passed)
        above == Front(passed)
        withoutLeaf == [t EXCEPT !.leaf = Without(@, k)]
        moved == Hang(withoutLeaf, above, k, Child(t, parent, 1 - Direction(parent, k)))
    IN  IF ~Found(t, k) THEN t
        ELSE IF passed = <<>> THEN [withoutLeaf EXCEPT !.root = Null]
        ELSE OnChange([moved EXCEPT !.child = Without(@, parent), !.hash = Without(@, parent)],
                      Pushed(above))

-----------------------------------------------------------------------------
\* A variant for the mutation runs: the prefix cut a bit short.
NearestShort(t, k, p) == IF t.root = Null THEN Null ELSE Last(Path(t, t.root, k, p - 1))

\* nearest_subtree() of the first p bits of k: keylen, bitmask and the tests of both stop the
\* walk at the first branch on a later bit.
NearestSubtree(t, k, p) == IF t.root = Null THEN Null ELSE Last(Path(t, t.root, k, p))

\* subtree(): NULL unless its leftmost leaf does begin with these bits.
Subtree(t, k, p) ==
    LET top == NearestSubtree(t, k, p)
    IN  IF top # Null /\ SubSeq(Outermost(t, top, 0), 1, p) = SubSeq(k, 1, p) THEN top ELSE Null

\* The leaves under a node, in the order of the recursion of enumerate().
RECURSIVE LeavesUnder(_, _)
LeavesUnder(t, n) ==
    IF IsBranch(n) THEN LeavesUnder(t, Child(t, n, 0)) \o LeavesUnder(t, Child(t, n, 1))
    ELSE <<n>>

\* k comes before j in memory order: strnncmp() < 0.
Before(k, j) == LET p == CriticalBit(k, j) IN p # 0 /\ k[p] = 0

\* The last branch under top on the way to k that is not beyond bit p, or top: what the two
\* loops of enumerate() call parent.
LastBranchTo(t, top, k, p) ==
    LET passed == Front(Path(t, top, k, p)) IN IF passed = <<>> THEN top ELSE Last(passed)

\* Where enumerate() starts, from the best match for first: one that comes before first is
\* replaced by the leftmost leaf of parent's right child.  Null if there is no such child.
StartOf(t, top, first) ==
    LET best == BestMember(t, top, first)
        parent == LastBranchTo(t, top, first, CriticalBit(best, first))
    IN  IF ~Before(best, first) THEN best
        ELSE IF IsBranch(parent) THEN Outermost(t, Child(t, parent, 1), 0) ELSE Null

\* Where it stops: a best match for last that comes after it is replaced likewise, but stays
\* when there is no such child.
StopOf(t, top, last) ==
    LET best == BestMember(t, top, last)
        parent == LastBranchTo(t, top, last, CriticalBit(best, last))
    IN  IF Before(last, best) /\ IsBranch(parent) THEN Outermost(t, Child(t, parent, 0), 1)
        ELSE best

\* A variant for the mutation runs: >= for >.
ExcludeLast(stop, last) == ~Before(stop, last)

\* excludeStop
ExcludeStop(stop, last) == Before(last, stop)

\* enumerate(): the keys the function is called with, when it always says true.  From start to
\* stop, without stop if it is beyond last; to the end if stop comes before start.
Enumeration(t, first, last) ==
    LET p == CriticalBit(first, last)
        top == Subtree(t, first, IF p = 0 THEN Bits ELSE p - 1)
    IN  IF top = Null THEN <<>>
        ELSE
        LET start == StartOf(t, top, first)
            stop == StopOf(t, top, last)
            leaves == LeavesUnder(t, top)
            from == CHOOSE i \in DOMAIN leaves : leaves[i] = start
            to == CHOOSE i \in DOMAIN leaves : leaves[i] = stop
        IN  IF start = Null THEN <<>>
            ELSE IF to < from THEN SubSeq(leaves, from, Len(leaves))
            ELSE SubSeq(leaves, from, IF ExcludeStop(stop, last) THEN to - 1 ELSE to)

=============================================================================

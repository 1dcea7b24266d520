------------------------------ MODULE MerkleTree ------------------------------
(***************************************************************************)
(* turbo::merkle_tree (src/src/lib/merkle_tree/merkle_tree.h): two of them *)
(* that are filled on their own, and what diff() tells their owners of one *)
(* another.  entries is history: what insert() and remove() have been      *)
(* called with, as a map from keys to hashes.                              *)
(***************************************************************************)
EXTENDS CritBit

Seqs == INSTANCE SequencesExt

CONSTANTS
    UsedKey,  \* bound: the keys in use
    Values    \* [Side -> SUBSET Nat], what a side may have for a key

Side == {"a", "b"}

VARIABLES tree, entries

vars == <<tree, entries>>

Other(s) == CHOOSE r \in Side : r # s

-----------------------------------------------------------------------------
\* The hash of a leaf is one of its own: of this key, and this value.
LeafHash(k, v) == {<<k, v>>}

Init ==
    /\ tree = [s \in Side |-> EmptyTree]
    /\ entries = [s \in Side |-> {}]

Keys(s) == {e[1] : e \in entries[s]}

\* insert(): a key that is there stays as it is.
Insert(s, k, v) ==
    /\ tree' = [tree EXCEPT ![s] = Insertion(@, k, LeafHash(k, v))]
    /\ entries' = [entries EXCEPT ![s] = IF k \in Keys(s) THEN @ ELSE @ \cup {<<k, v>>}]

Remove(s, k) ==
    /\ tree' = [tree EXCEPT ![s] = Removal(@, k)]
    /\ entries' = [entries EXCEPT ![s] = {e \in @ : e[1] # k}]

Clear(s) ==
    /\ tree' = [tree EXCEPT ![s] = EmptyTree]
    /\ entries' = [entries EXCEPT ![s] = {}]

Next ==
    \E s \in Side :
        \/ \E k \in UsedKey : Remove(s, k) \/ \E v \in Values[s] : Insert(s, k, v)
        \/ Clear(s)

Spec == Init /\ [][Next]_vars

-----------------------------------------------------------------------------
\* A location: a hash, and the part of the tree it is of, as a key and how many of its bits.
Location(h, k, p) == [hash |-> h, key |-> k, keybits |-> p]

\* location::null(), with keybits = ~0.
NullLocation == Location({}, Zero, 65535)

\* getPoint(): of a branch, under a key the caller chooses; of a leaf, with all bits of its own.
Point(t, n, k) ==
    IF IsBranch(n) THEN Location(Hash(t, n), k, Bit(n) - 1) ELSE Location(Hash(t, n), n, Bits)

\* top(): under the key 0, whatever the tree's keys begin with.
Top(t) == IF t.root = Null THEN NullLocation ELSE Point(t, t.root, Zero)

\* A diff_result: points and _missing.
Result(points, missing) == [points |-> points, missing |-> missing]
NoDifference == Result(<<>>, FALSE)
NeedExchange(r) == ~r.missing /\ Len(r.points) = 1
NeedPartialRange(r) == r.missing /\ r.points # <<NullLocation>>
NeedRange(r) == r.missing /\ r.points = <<NullLocation>>
Traverse(r) == Len(r.points) >= 2

\* A variant for the mutation runs: the third element left out.
ChildrenOnly(t, n, point) ==
    << Point(t, Child(t, n, 0), Outermost(t, n, 0)),
       Point(t, Child(t, n, 1), Outermost(t, Child(t, n, 1), 0)) >>

\* The answer of a branch on the very bit the location is about: its two children, and its own
\* hash for the location it was asked about.
Children(t, n, point) ==
    << Point(t, Child(t, n, 0), Outermost(t, n, 0)),
       Point(t, Child(t, n, 1), Outermost(t, Child(t, n, 1), 0)),
       [point EXCEPT !.hash = Hash(t, n)] >>

\* A variant for the mutation runs: the key of a leaf not compared.
LeafMissing(n, point) == Bits # point.keybits

\* Of a leaf: is it another one than the location's?
IsMissing(n, point) == n # point.key \/ Bits # point.keybits

\* diff()
Diff(t, point) ==
    LET n == NearestSubtree(t, point.key, point.keybits)
    IN  IF n = Null THEN Result(<<NullLocation>>, TRUE)
        ELSE IF Hash(t, n) = point.hash THEN NoDifference
        ELSE IF ~IsBranch(n)
             THEN Result(<<Point(t, n, n)>>, IsMissing(n, point))
        ELSE IF Bit(n) - 1 > point.keybits
             THEN Result(<<Point(t, n, Outermost(t, n, 0))>>, TRUE)
        ELSE Result(Children(t, n, point), FALSE)

-----------------------------------------------------------------------------
Nodes(t) == DOMAIN t.child \cup DOMAIN t.leaf
LeavesOf(t) == IF t.root = Null THEN <<>> ELSE LeavesUnder(t, t.root)

\* The entries of a side whose keys begin with the bits a location names.
Within(s, point) ==
    {e \in entries[s] : \A i \in 1..Bits : i <= point.keybits => e[1][i] = point.key[i]}

\* Each branch has its children on the two sides of its bit, and the branches in use are just
\* the ones that can be reached.
WellFormed(t) ==
    LET children == {Child(t, b, d) : b \in DOMAIN t.child, d \in {0, 1}}
    IN  /\ \A b \in DOMAIN t.child, d \in {0, 1} : Seqs!IsPrefix(Append(b, d), Child(t, b, d))
        /\ children \cup {t.root} = IF Nodes(t) = {} THEN {Null} ELSE Nodes(t)

\* After any insertions and removals a tree is a search tree of its entries: its leaves are
\* they, each in one place, and in the order of the keys.
HoldsEntries ==
    \A s \in Side : LET leaves == LeavesOf(tree[s]) IN
        /\ WellFormed(tree[s])
        /\ UNION {tree[s].leaf[k] : k \in Seqs!ToSet(leaves)} = entries[s]
        /\ \A i, j \in DOMAIN leaves : i < j => Before(leaves[i], leaves[j])

\* After every insertion and removal the hash of each branch is that of the entries under it.
HashesRight ==
    \A s \in Side : \A b \in DOMAIN tree[s].child :
        tree[s].hash[b] = Within(s, Point(tree[s], b, Outermost(tree[s], b, 0)))

\* diff() of a part of the other tree says that there is no difference exactly when the two
\* agree on every key that begins with its bits, wherever the walk for it ends.
DiffExact ==
    \A s \in Side : \A n \in Nodes(tree[s]) :
        LET point == Point(tree[s], n, Outermost(tree[s], n, 0))
        IN  Diff(tree[Other(s)], point) = NoDifference
                <=> Within(s, point) = Within(Other(s), point)

\* diff() asks to exchange a key just when both have it with different values, and for
\* everything just when it has nothing.
AnswersFit ==
    \A s \in Side : \A n \in Nodes(tree[s]) :
        LET point == Point(tree[s], n, Outermost(tree[s], n, 0))
            answer == Diff(tree[Other(s)], point)
        IN  /\ NeedExchange(answer) <=>
                   /\ n \in Keys(s) \cap Keys(Other(s))
                   /\ Within(s, point) # Within(Other(s), point)
            /\ NeedRange(answer) <=> entries[Other(s)] = {}

\* What two sides ask each other when every location in an answer is asked about in turn, as
\* <<whom, location>>.
RECURSIVE Asked(_)
Asked(asked) ==
    LET answered == {a \in asked : Traverse(Diff(tree[a[1]], a[2]))}
        more == UNION { {<<Other(a[1]), q>> : q \in Seqs!ToSet(Diff(tree[a[1]], a[2]).points)} :
                        a \in answered }
    IN  IF more \subseteq asked THEN asked ELSE Asked(asked \cup more)

\* The questions on which such an exchange ends with a request for data.
Ends(asked) == {a \in Asked(asked) : Len(Diff(tree[a[1]], a[2]).points) = 1}

RootHash(t) == IF t.root = Null THEN {} ELSE Hash(t, t.root)

\* The question about everything, as the tests ask it.
AllOf(t) == Location(RootHash(t), Zero, 0)

\* Whoever asks first about everything: each entry that only one of the two has lies in a
\* location on which their exchange ends with a request.
EveryDifferenceFound ==
    \A r, s \in Side : \A e \in entries[s] \ entries[Other(s)] :
        \E a \in Ends({<<Other(r), AllOf(tree[r])>>}) : e \in Within(s, a[2])

\* Two trees that differ find it out from their top().
TopsDiffer ==
    \A s \in Side :
        entries[s] # entries[Other(s)] => Ends({<<Other(r), Top(tree[r])>> : r \in Side}) # {}

\* The keys enumerate() should find from j to k, in the order it should find them.
InRange(s, j, k) == SelectSeq(LeavesOf(tree[s]), LAMBDA x : ~Before(x, j) /\ ~Before(k, x))

\* From a key in the tree to another, enumerate() finds just the keys there are in between.
EnumerationExact ==
    \A s \in Side : \A j, k \in Keys(s) :
        ~Before(k, j) => Enumeration(tree[s], j, k) = InRange(s, j, k)

=============================================================================

---------------------------- MODULE VersionNetwork ----------------------------
(***************************************************************************)
(* Versions in use, as the comments and tests of vector_clock use them:    *)
(* every replica holds a copy of one thing with its version, a             *)
(* bounded_version_vector or a bounded_time_vector (VersionVector.tla),    *)
(* increments its own key for a write, takes a copy over when its version  *)
(* is LESS_THAN that copy's, and merges.  The library has no replicas;     *)
(* Write, Adopt and Merge are its callers'.  The replicas' clocks show any *)
(* time and may go back.                                                   *)
(*                                                                         *)
(* known is what the comparison is about: the writes a copy contains.  It  *)
(* is history, no part of the code.                                        *)
(***************************************************************************)
EXTENDS Naturals, FiniteSets, Sequences

CONSTANTS
    Replica,
    Limits,      \* the values of the template's parameter _limit
    Times,       \* the times a replica's clock may show; none for a network without times
    CountRange,  \* the range of a count within a time
    MaxWrites    \* bound: writes of one replica

VARIABLES
    timed,    \* whether the versions are bounded_time_vectors
    limit,    \* _limit of the network's versions
    version,  \* the replicas' _clocks
    known     \* the writes in a replica's copy, as <<replica, number>>

vars == <<timed, limit, version, known>>

V == INSTANCE VersionVector WITH Limit <- limit

Compare(v, w) == IF timed THEN V!CompareTimes(v, w) ELSE V!Compare(v, w)
Merged(v, w) == IF timed THEN V!MergeTimes(v, w) ELSE V!Merge(v, w)

Written(r) == {n \in 1..MaxWrites : \E s \in Replica : <<r, n>> \in known[s]}

Init ==
    /\ timed \in BOOLEAN
    /\ timed => Times # {}
    /\ limit \in Limits
    /\ version = [r \in Replica |-> <<>>]
    /\ known = [r \in Replica |-> {}]

Write(r) ==
    LET n == Cardinality(Written(r)) + 1
    IN  /\ n <= MaxWrites
        /\ \/ ~timed /\ version' = [version EXCEPT ![r] = V!Increment(@, r)]
           \/ timed /\ \E now \in Times : version' = [version EXCEPT ![r] = V!IncrementAt(@, r, now)]
        /\ known' = [known EXCEPT ![r] = @ \cup {<<r, n>>}]
        /\ UNCHANGED <<timed, limit>>

Adopt(r, s) ==
    /\ Compare(version[r], version[s]) = {"less"}
    /\ version' = [version EXCEPT ![r] = version[s]]
    /\ known' = [known EXCEPT ![r] = known[s]]
    /\ UNCHANGED <<timed, limit>>

Merge(r, s) ==
    /\ version' = [version EXCEPT ![r] = Merged(@, version[s])]
    /\ known' = [known EXCEPT ![r] = @ \cup known[s]]
    /\ UNCHANGED <<timed, limit>>

\* A merge that is defined, of versions with room for every replica: a full one has lost the
\* order of its clocks once it has been merged, and with it what compare() cuts them by.
SoundMerge(r, s) ==
    /\ Cardinality(Replica) < limit
    /\ Merged(version[r], version[s]) # V!Undefined
    /\ Merge(r, s)

Next == \E r \in Replica : Write(r) \/ \E s \in Replica \ {r} : Adopt(r, s) \/ SoundMerge(r, s)

Defined == \A r \in Replica : version[r] # V!Undefined

\* merge() as it is, until it has gone wrong.
NextAnyMerge ==
    /\ Defined
    /\ \E r \in Replica : Write(r) \/ \E s \in Replica \ {r} : Adopt(r, s) \/ Merge(r, s)

Spec == Init /\ [][Next]_vars
SpecAnyMerge == Init /\ [][NextAnyMerge]_vars

-----------------------------------------------------------------------------

\* A version is no longer than its limit, has no key twice and no clock at 0.
TypeOK ==
    /\ timed \in BOOLEAN
    /\ limit \in Limits
    /\ known \in [Replica -> SUBSET (Replica \X (1..MaxWrites))]
    /\ \A r \in Replica :
           /\ Len(version[r]) <= limit
           /\ \A i, j \in DOMAIN version[r] :
                  /\ version[r][i].key \in Replica
                  /\ version[r][i].count \in IF timed THEN Nat ELSE 1..MaxWrites
                  /\ version[r][i].key = version[r][j].key => i = j

\* compare() tells exactly which copy has writes that the other has not: EQUAL, LESS_THAN,
\* GREATER_THAN and CONFLICT are causality, as long as the limit is at least the number of
\* replicas, and although full versions are compared without the end of their clocks.  So it
\* does not depend on the side it is called from either.
ComparesWrites ==
    \A r, s \in Replica :
        /\ "less" \in Compare(version[r], version[s]) <=> known[s] \ known[r] # {}
        /\ "greater" \in Compare(version[r], version[s]) <=> known[r] \ known[s] # {}

\* A merge gives a version, one that is not behind the version merged in: the tests' expectation
\* of merge().
MergeCovers ==
    [][\A r \in Replica, s \in Replica :
           Merge(r, s) /\ r # s =>
               /\ version'[r] # V!Undefined
               /\ "less" \notin Compare(version'[r], version[s])]_vars

=============================================================================

---------------------------- MODULE VersionVector ----------------------------
(***************************************************************************)
(* vector_clock::bounded_version_vector                                    *)
(* (src/src/lib/vector_clock/bounded_version_vector.h): the operations, as *)
(* functions of their arguments.  A version is the sequence of its clocks, *)
(* the key last incremented first; a comparison is the set of its bits,    *)
(*    {} EQUAL   {"less"} LESS_THAN   {"greater"} GREATER_THAN             *)
(*    {"less", "greater"} CONFLICT                                         *)
(*                                                                         *)
(* merge() can insert beyond the end of its deque.  What that makes of it  *)
(* is Undefined, no version at all: built with g++ it crashes.             *)
(***************************************************************************)
EXTENDS Naturals, Sequences, SequencesExt

CONSTANTS
    Limit,      \* _limit, a natural number
    CountRange  \* how many values the count of a time vector, an unsigned short, has

Clock(k, n) == [key |-> k, count |-> n]

Undefined == <<Clock("undefined", 0)>>

\* std::find() by key; 0 is end().
Find(v, k) == SelectInSeq(v, LAMBDA c : c.key = k)

\* increment()
Increment(v, k) ==
    LET i == Find(v, k)
        w == IF i = 0 THEN <<Clock(k, 1)>> \o v
                      ELSE <<Clock(k, v[i].count + 1)>> \o RemoveAt(v, i)
    IN  IF Len(w) > Limit THEN Front(w) ELSE w

-----------------------------------------------------------------------------
(* compare() *)

\* Variant: the length is not asked for, and any version is cut.
CutAny(v, w) ==
    LET Match(c) == SelectInSeq(v, LAMBDA d : d.key = c.key)
        Shared(c) == Match(c) # 0 /\ v[Match(c)].count <= c.count
        i == SelectInSeq(w, Shared)
    IN  IF i # 0 THEN SubSeq(v, 1, Match(w[i]) - 1) ELSE v

\* findEnd(): the part of v that comes before the first clock it shares with the old half
\* of a full w, one that w has at least as high.
Cut(v, w) ==
    LET Match(c) == SelectInSeq(v, LAMBDA d : d.key = c.key)
        Shared(c) == Match(c) # 0 /\ v[Match(c)].count <= c.count
        i == SelectInSubSeq(w, Len(w) - (Limit \div 2) + 1, Len(w), Shared)
    IN  IF Len(w) >= Limit /\ i # 0 THEN SubSeq(v, 1, Match(w[i]) - 1) ELSE v

\* first has a key that second has not, or has it higher.
Exceeds(first, second) ==
    \E c \in ToSet(first) : \A d \in ToSet(second) : d.key = c.key => d.count < c.count

CompareLists(lesser, greater) ==
    LET first == Cut(lesser, greater)
        second == Cut(greater, lesser)
    IN  {b \in {"less", "greater"} :
            IF b = "less" THEN Exceeds(second, first) ELSE Exceeds(first, second)}

Flip(r) ==
    IF r = {"less"} THEN {"greater"} ELSE IF r = {"greater"} THEN {"less"} ELSE r

Compare(v, w) ==
    IF Len(v) > Len(w) THEN Flip(CompareLists(w, v)) \cup {"greater"} ELSE CompareLists(v, w)

-----------------------------------------------------------------------------
(* merge() *)

\* The clock x goes before the i + 1st, which there must be, or before the end.
Insert(v, i, x) == IF i <= Len(v) THEN InsertAt(v, i + 1, x) ELSE Undefined

\* reorient(): the first additions clocks and those after them, up to total, interlaced,
\* beginning with the latter, as far as there are some of both.
Reorient(v, additions, total) ==
    LET n == IF additions < total - additions THEN additions ELSE total - additions
    IN  [i \in DOMAIN v |->
            IF i <= 2 * n
            THEN IF i % 2 = 1 THEN v[additions + (i + 1) \div 2] ELSE v[i \div 2]
            ELSE IF i <= additions + n THEN v[i - n] ELSE v[i]]

\* The loop's body, for the clock c of the other version; prev is prevIndex.
MergeClock(m, c) ==
    LET i == Find(m.v, c.key)
    IN  IF m.v = Undefined THEN m
        ELSE IF i = 0
        THEN [m EXCEPT !.v = Insert(@, m.prev, c), !.prev = @ + 1]
        ELSE IF m.v[i].count < c.count
        THEN [m EXCEPT !.v = Insert(RemoveAt(@, i), m.prev, c), !.prev = @ + 1]
        ELSE [v |-> IF m.noMatch THEN Reorient(m.v, m.prev, i - 1) ELSE m.v,
              prev |-> IF m.prev < i THEN i ELSE m.prev,
              noMatch |-> FALSE]

Merge(v, w) ==
    LET m == FoldLeft(MergeClock, [v |-> v, prev |-> 0, noMatch |-> TRUE], w)
        u == IF m.noMatch THEN Reorient(m.v, Len(w), Len(m.v)) ELSE m.v
    IN  IF m.v = Undefined THEN Undefined
        ELSE IF Len(u) > Limit THEN SubSeq(u, 1, Limit) ELSE u

-----------------------------------------------------------------------------
\* bounded_time_vector (bounded_time_vector.h), whose clocks have a time, and a count of the
\* increments within it.  clockLessThan() orders clocks by time and then by count, so the two are
\* one number here.  compare() and merge() are written out again in the header, of clocks so
\* ordered; but for that they are bounded_version_vector's.

Stamp(time, count) == time * CountRange + count
Time(stamp) == stamp \div CountRange
Count(stamp) == stamp % CountRange

\* A clock ahead of the present time stays where it is and counts; the count wraps.
NextStamp(stamp, time) ==
    IF time <= Time(stamp) THEN Stamp(Time(stamp), (Count(stamp) + 1) % CountRange)
                           ELSE Stamp(time, 0)

\* increment() at a given time.
IncrementAt(v, k, time) ==
    LET i == Find(v, k)
        w == IF i = 0 THEN <<Clock(k, Stamp(time, 0))>> \o v
                      ELSE <<Clock(k, NextStamp(v[i].count, time))>> \o RemoveAt(v, i)
    IN  IF Len(w) > Limit THEN Front(w) ELSE w

\* compare() of two lists, each cut by findEnd(), and of two versions, the shorter one first.
CompareTimeLists(v, w) == CompareLists(v, w)
CompareTimes(v, w) ==
    IF Len(v) > Len(w) THEN Flip(CompareTimeLists(w, v)) \cup {"greater"} ELSE CompareTimeLists(v, w)

\* merge(), which takes the later of two clocks, and reorient().
MergeTimes(v, w) == Merge(v, w)

=============================================================================

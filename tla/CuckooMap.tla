----------------------------- MODULE CuckooMap -----------------------------
(***************************************************************************)
(* cuckoohash_map, the map of a server's connections.  A key lies in one   *)
(* of two buckets.  Where both are full, an insertion lets go of them,     *)
(* looks for a path of entries that can each move to their other bucket,   *)
(* moves them one by one from the end, and inserts where the first one     *)
(* was; without a path it doubles the table, unlocking it bit by bit.      *)
(* Any thread may find the world changed each time it takes a lock.        *)
(***************************************************************************)
EXTENDS Integers, Sequences, FiniteSets, Bitwise, SequencesExt, FiniteSetsExt

CONSTANTS
    Thread, Key, Value, None,
    HashOf, TagOf,  \* of a key: the low bits of its hash, and the odd number its partial key makes
    Slots,          \* slot_per_bucket
    NumLocks,       \* kNumLocks
    MaxPath,        \* MAX_BFS_PATH_LEN
    MaxQueue,       \* MAX_CUCKOO_COUNT
    MinLoad,        \* the minimum load factor, in percent
    MaxHp,          \* maximum_hashpower_, which bounds the model
    Calls,          \* the calls the threads make: records [kind, key, val, size]
    MaxCalls,       \* a bound of the model
    FirstSize, First \* the size the table is constructed for, and the buckets it may have at first

VARIABLES
    hp,        \* hashpower_
    buckets,   \* buckets_: of each bucket and slot the entry [key, val], or None
    locks,     \* of each lock the thread that holds it, or None
    expansion, \* the thread that holds expansion_lock_, or None
    count,     \* num_inserts_ - num_deletes_
    call,      \* what each thread is about
    answer,    \* what each thread's last call answered
    calls      \* how many calls were made

vars == <<hp, buckets, locks, expansion, count, call, answer, calls>>

Slot == 0..(Slots - 1)
hashsize(h) == 2 ^ h
index_hash(h, k) == HashOf[k] % hashsize(h)
alt_index(h, k, i) == (i ^^ TagOf[k]) % hashsize(h)
lock_ind(i) == i % NumLocks
AllLocks == 0..(NumLocks - 1)

\* The two buckets of a key.
Homes(h, k) == LET i == index_hash(h, k) IN <<i, alt_index(h, k, i)>>

\* The smallest hashpower of a table for n entries, and at least 1.
reserve_calc(n) == CHOOSE h \in 1..MaxHp : hashsize(h) * Slots >= n
                                       /\ \A g \in 1..(h - 1) : hashsize(g) * Slots < n

EmptyBucket == [s \in Slot |-> None]
Entries(bs) == {<<i, s>> \in (DOMAIN bs) \X (DOMAIN bs[0]) : bs[i][s] # None}
Places(bs, k) == {p \in Entries(bs) : bs[p[1]][p[2]].key = k}

\* The slots of bucket b that hold k, and its first free one or -1.
SlotsOf(b, k) == {s \in Slot : b[s] # None /\ b[s].key = k}
FreeSlot(b) == LET free == {s \in Slot : b[s] = None} IN IF free = {} THEN -1 ELSE Min(free)

\* Where a thread finds its key in the two buckets it holds: a place, or None.
Found(t) == LET c == call[t] In(i) == SlotsOf(buckets[i], c.key) IN
    CASE In(c.homes[1]) # {} -> <<c.homes[1], Min(In(c.homes[1]))>>
      [] In(c.homes[1]) = {} /\ In(c.homes[2]) # {} -> <<c.homes[2], Min(In(c.homes[2]))>>
      [] OTHER -> None

\* loadfactor() < minimum_load_factor().
TooEmpty(h) == count * 100 < MinLoad * Slots * hashsize(h)

-----------------------------------------------------------------------------
\* The ways a thread goes on.

Held(t) == {l \in AllLocks : locks[l] = t}
Without(t, ls) == [l \in AllLocks |-> IF l \in ls /\ locks[l] = t THEN None ELSE locks[l]]
Releases(t) == locks' = Without(t, Held(t))

\* AllUnlocker: every lock is given back.
ReleasesAll(t) == locks' = Without(t, AllLocks)

Goes(t, rec) == call' = [call EXCEPT ![t] = rec]
At(t, pc) == call[t].pc = pc

\* A thread that is in no call.
Idle == [pc |-> "idle", kind |-> "", key |-> None, val |-> None, size |-> 0, inner |-> FALSE,
         hp |-> 0, homes |-> <<0, 0>>, want |-> <<>>, then |-> "",
         queue |-> <<>>, at |-> None, slot |-> 0, path |-> <<>>, trail |-> <<>>,
         todo |-> {}, rank |-> -1, seen |-> <<>>]

\* It starts over: its search is forgotten.
Again(c) == [Idle EXCEPT !.pc = "start", !.kind = c.kind, !.key = c.key, !.val = c.val,
                         !.size = c.size, !.inner = c.inner]

\* The call returns.
Returns(t, a) == call' = [call EXCEPT ![t] = Idle] /\ answer' = [answer EXCEPT ![t] = a]

\* The locks of buckets is, in the order they are taken in, to go on at pc.
InOrder(is) == SetToSortSeq({lock_ind(i) : i \in is}, <)
Wanting(c, is, pc) == [c EXCEPT !.pc = "locking", !.want = InOrder(is), !.then = pc]
WantingAll(c, pc) == [c EXCEPT !.pc = "locking all", !.want = InOrder(AllLocks), !.then = pc]

-----------------------------------------------------------------------------
Init ==
    /\ hp = reserve_calc(FirstSize)
    /\ buckets \in First
    /\ locks = [l \in AllLocks |-> None]
    /\ expansion = None
    /\ count = Cardinality(Entries(buckets))
    /\ call = [t \in Thread |-> Idle]
    /\ answer = [t \in Thread |-> <<>>]
    /\ calls = 0

table == <<hp, buckets, count>>

Begin(t, c) ==
    /\ At(t, "idle") /\ calls < MaxCalls /\ calls' = calls + 1
    /\ Goes(t, [Idle EXCEPT !.pc = "start", !.kind = c.kind, !.key = c.key, !.val = c.val,
                            !.size = c.size])
    /\ answer' = [answer EXCEPT ![t] = <<>>]
    /\ UNCHANGED <<table, locks, expansion>>

\* snapshot_and_lock_two(): the hashpower is read, and makes the buckets to lock.
Snapshot(t) == LET c == call[t] homes == Homes(hp, c.key) IN
    /\ At(t, "start") /\ c.kind \in {"find", "erase", "update", "insert", "upsert"}
    /\ Goes(t, Wanting([c EXCEPT !.hp = hp, !.homes = homes], Range(homes), "body"))
    /\ UNCHANGED <<table, locks, expansion, answer, calls>>

\* clear(), lock_table().
TakeTable(t) ==
    /\ At(t, "start") /\ call[t].kind \in {"clear", "walk"}
    /\ Goes(t, WantingAll(call[t], call[t].kind))
    /\ UNCHANGED <<table, locks, expansion, answer, calls>>

\* Variant: the hashpower is not asked for again.
NeverStale(t) == FALSE

\* Whether a thread that takes the first of its locks goes by an old hashpower: check_hashpower().
IsStale(t) == call[t].pc = "locking" /\ Held(t) = {} /\ hp # call[t].hp

\* A lock is taken, and given back at once if the table was resized meanwhile.
Lock(t) == LET c == call[t] l == Head(c.want) IN
    /\ c.pc \in {"locking", "locking all"} /\ locks[l] = None
    /\ IF IsStale(t)
       THEN Goes(t, Again(c)) /\ UNCHANGED locks
       ELSE /\ locks' = [locks EXCEPT ![l] = t]
            /\ Goes(t, [c EXCEPT !.want = Tail(@), !.pc = IF Len(c.want) = 1 THEN c.then ELSE @])
    /\ UNCHANGED <<table, expansion, answer, calls>>

-----------------------------------------------------------------------------
\* With the locks of both buckets held.

find(t) ==
    /\ At(t, "body") /\ call[t].kind = "find"
    /\ LET p == Found(t) IN
       Returns(t, IF p = None THEN <<"absent">> ELSE <<"found", buckets[p[1]][p[2]].val>>)
    /\ Releases(t)
    /\ UNCHANGED <<table, expansion, calls>>

\* The slot is emptied, and a deletion counted.
try_del_from_bucket(i, s) == buckets' = [buckets EXCEPT ![i][s] = None] /\ count' = count - 1

erase(t) == LET p == Found(t) IN
    /\ At(t, "body") /\ call[t].kind = "erase"
    /\ IF p = None
       THEN Returns(t, <<"absent">>) /\ UNCHANGED <<buckets, count>>
       ELSE try_del_from_bucket(p[1], p[2]) /\ Returns(t, <<"erased">>)
    /\ Releases(t)
    /\ UNCHANGED <<hp, expansion, calls>>

\* The slot's value becomes v, or what update_fn()'s function makes of it.
try_update_bucket(i, s, v) == buckets' = [buckets EXCEPT ![i][s].val = v]

\* update() and update_fn().
update(t) == LET p == Found(t) IN
    /\ At(t, "body") /\ call[t].kind = "update"
    /\ IF p = None
       THEN Returns(t, <<"absent">>) /\ UNCHANGED buckets
       ELSE /\ try_update_bucket(p[1], p[2], call[t].val)
            /\ Returns(t, <<"found", buckets[p[1]][p[2]].val>>)
    /\ Releases(t)
    /\ UNCHANGED <<hp, count, expansion, calls>>

add_to_bucket(t, i, s) ==
    /\ buckets' = [buckets EXCEPT ![i][s] = [key |-> call[t].key, val |-> call[t].val]]
    /\ count' = count + 1
    /\ Returns(t, <<"inserted">>)
    /\ Releases(t)
    /\ UNCHANGED hp

\* The key is there.  upsert() has its function read the value (what a connection's pool does with
\* one), but if only its inner insertion met the key it starts over; insert() answers false.
Duplicate(t, p) == LET c == call[t] IN
    /\ CASE c.kind = "insert" -> Returns(t, <<"duplicate">>)
         [] c.kind = "upsert" /\ c.pc = "body" /\ ~c.inner ->
                Returns(t, <<"found", buckets[p[1]][p[2]].val>>)
         [] OTHER -> Goes(t, Again([c EXCEPT !.inner = FALSE])) /\ UNCHANGED answer
    /\ Releases(t)
    /\ UNCHANGED table

\* A path in the search's queue: the bucket it ends in; and which of the key's buckets it starts in,
\* with the slots it goes through.
b_slot(b, code) == [bucket |-> b, code |-> code]

\* The queue is a circular array, one slot of which stays free.
full(q) == Len(q) = MaxQueue - 1

\* slot_search() goes on with the next bucket queued, if there is one and room for its slots.
NextBucket(c, q) ==
    IF q = <<>> \/ full(q)
    THEN [c EXCEPT !.pc = "full", !.queue = <<>>, !.at = None]
    ELSE [c EXCEPT !.pc = "search", !.queue = Tail(q), !.at = Head(q), !.slot = 0]

\* The search starts, from either bucket.
Searching(c) == NextBucket([c EXCEPT !.path = <<>>, !.trail = <<>>],
                             <<b_slot(c.homes[1], <<0>>), b_slot(c.homes[2], <<1>>)>>)

\* run_cuckoo() gives up both locks for each of its tries.
run_cuckoo(t) == Goes(t, Searching(call[t])) /\ Releases(t)

\* upsert() and cuckoo_insert(): the value is seen to, added in a free slot, or run_cuckoo().
Insert(t) == LET c == call[t] p == Found(t) Free(n) == FreeSlot(buckets[c.homes[n]]) IN
    /\ At(t, "body") /\ c.kind \in {"insert", "upsert"}
    /\ \/ p # None /\ Duplicate(t, p)
       \/ p = None /\ Free(1) # -1 /\ add_to_bucket(t, c.homes[1], Free(1))
       \/ p = None /\ Free(1) = -1 /\ Free(2) # -1 /\ add_to_bucket(t, c.homes[2], Free(2))
       \/ /\ p = None /\ Free(1) = -1 /\ Free(2) = -1
          /\ run_cuckoo(t) /\ UNCHANGED <<table, answer>>
    /\ UNCHANGED <<expansion, calls>>

-----------------------------------------------------------------------------
\* cuckoopath_search(), which locks a bucket only to look at one slot of it.

IsFree(i) == locks[lock_ind(i)] = None

\* slot_search() looks at a slot.
SearchSlot(t) ==
    LET c == call[t] x == c.at
        s == (Last(x.code) + c.slot) % Slots
        e == buckets[x.bucket][s]
        q == IF Len(x.code) < MaxPath
             THEN Append(c.queue, b_slot(alt_index(c.hp, e.key, x.bucket), Append(x.code, s)))
             ELSE c.queue
    IN /\ At(t, "search") /\ IsFree(x.bucket)
       /\ CASE hp # c.hp -> Goes(t, Again(c))
            [] hp = c.hp /\ e = None ->
                Goes(t, [c EXCEPT !.pc = "trace", !.path = Append(x.code, s), !.queue = <<>>,
                                  !.at = None, !.slot = 0])
            [] hp = c.hp /\ e # None /\ c.slot + 1 < Slots /\ ~full(q) ->
                Goes(t, [c EXCEPT !.slot = @ + 1, !.queue = q])
            [] OTHER -> Goes(t, NextBucket(c, q))
       /\ UNCHANGED <<table, locks, expansion, answer, calls>>

\* Variant: the last move locks only the two buckets it is about.
MovingPair(c) == LET d == Len(c.trail) - 1 both == Range(c.homes) IN
    CASE d = 0 -> Wanting(c, both, "move")
      [] OTHER -> Wanting(c, {c.trail[d].bucket, c.trail[d + 1].bucket}, "move")

\* The locks to move the last entry of the trail by one.
Moving(c) == LET d == Len(c.trail) - 1 both == Range(c.homes) IN
    CASE d = 0 -> Wanting(c, both, "move")
      [] d = 1 -> Wanting(c, both \cup {c.trail[2].bucket}, "move")
      [] OTHER -> Wanting(c, {c.trail[d].bucket, c.trail[d + 1].bucket}, "move")

\* A step of the path, whose key is known by its hash.
CuckooRecord(i, s, e) == [bucket |-> i, slot |-> s, key |-> IF e = None THEN None ELSE e.key]

\* The path's next slot is looked up, from the bucket the key before it would move to; the path ends
\* where a slot is free.
Trace(t) ==
    LET c == call[t] n == Len(c.trail)
        i == IF n = 0 THEN c.homes[c.path[1] + 1]
                      ELSE alt_index(c.hp, c.trail[n].key, c.trail[n].bucket)
        s == c.path[n + 2]
        e == buckets[i][s]
        found == [c EXCEPT !.trail = Append(@, CuckooRecord(i, s, e))]
    IN /\ At(t, "trace") /\ IsFree(i)
       /\ CASE hp # c.hp -> Goes(t, Again(c))
            [] hp = c.hp /\ (e = None \/ n + 2 = Len(c.path)) -> Goes(t, Moving(found))
            [] OTHER -> Goes(t, found)
       /\ UNCHANGED <<table, locks, expansion, answer, calls>>

\* What hashed_key() compares of two keys.
SameHash(k1, k2) == HashOf[k1] = HashOf[k2] /\ TagOf[k1] = TagOf[k2]

\* Variant: whatever lies in the slot is moved.
MovableAnyway(t) == LET tr == call[t].trail d == Len(tr) - 1 to == tr[d + 1] IN
    /\ buckets[to.bucket][to.slot] = None
    /\ d > 0 => buckets[tr[d].bucket][tr[d].slot] # None

\* Whether the entry to move is still there and its next slot still free; with nothing to move,
\* whether the slot to insert at is.
Movable(t) == LET tr == call[t].trail d == Len(tr) - 1 to == tr[d + 1] IN
    /\ buckets[to.bucket][to.slot] = None
    /\ d > 0 => LET e == buckets[tr[d].bucket][tr[d].slot]
                IN e # None /\ SameHash(e.key, tr[d].key)

\* cuckoopath_move(): the last entry of the trail moves, or the search starts over.
Move(t) ==
    LET c == call[t] d == Len(c.trail) - 1 from == c.trail[d] to == c.trail[d + 1]
        rest == [c EXCEPT !.trail = Front(@)]
    IN /\ At(t, "move")
       /\ \/ ~Movable(t) /\ run_cuckoo(t) /\ UNCHANGED buckets
          \/ Movable(t) /\ d = 0 /\ Goes(t, [c EXCEPT !.pc = "place"]) /\ UNCHANGED <<buckets, locks>>
          \/ /\ Movable(t) /\ d > 0
             /\ buckets' = [buckets EXCEPT ![to.bucket][to.slot] = buckets[from.bucket][from.slot],
                                           ![from.bucket][from.slot] = None]
             /\ IF d = 1
                THEN /\ Goes(t, [rest EXCEPT !.pc = "place"])
                     /\ locks' = Without(t, Held(t) \ {lock_ind(i) : i \in Range(c.homes)})
                ELSE Goes(t, Moving(rest)) /\ Releases(t)
       /\ UNCHANGED <<hp, count, expansion, answer, calls>>

\* Back in cuckoo_insert(), with both buckets locked again and a slot free: another thread may have
\* inserted the key meanwhile.
Place(t) == LET first == Head(call[t].trail) IN
    /\ At(t, "place")
    /\ \/ Found(t) # None /\ Duplicate(t, Found(t))
       \/ Found(t) = None /\ add_to_bucket(t, first.bucket, first.slot)
    /\ UNCHANGED <<expansion, calls>>

-----------------------------------------------------------------------------
\* Resizing.

\* failure_table_full.  The insertion in an upsert() does not ask how full the table is; what
\* follows it does.
Full(t) == LET c == call[t] asks == c.kind = "insert" \/ c.inner IN
    /\ At(t, "full")
    /\ IF (asks /\ TooEmpty(c.hp)) \/ c.hp + 1 > MaxHp
       THEN Returns(t, <<"thrown">>)
       ELSE Goes(t, [c EXCEPT !.pc = "double", !.inner = (c.kind = "upsert")]) /\ UNCHANGED answer
    /\ UNCHANGED <<table, locks, expansion, calls>>

\* cuckoo_fast_double(), unless another thread has resized the table.
Double(t) == LET c == call[t] IN
    /\ At(t, "double") /\ expansion = None
    /\ IF hp # c.hp
       THEN Goes(t, Again(c)) /\ UNCHANGED expansion
       ELSE Goes(t, WantingAll(c, "resize")) /\ expansion' = t
    /\ UNCHANGED <<table, locks, answer, calls>>

\* How many locks the buckets of hashpower h have.
LocksUsed(h) == Min({NumLocks, hashsize(h)})

\* With all locks held, the table doubles: from here on its buckets are found by the new hashpower.
Resize(t) == LET c == call[t] old == Cardinality(DOMAIN buckets) IN
    /\ At(t, "resize")
    /\ hp' = c.hp + 1
    /\ buckets' = [i \in 0..(2 * old - 1) |-> IF i < old THEN buckets[i] ELSE EmptyBucket]
    /\ Goes(t, [c EXCEPT !.pc = "moving", !.todo = 0..(LocksUsed(c.hp) - 1)])
    /\ UNCHANGED <<count, locks, expansion, answer, calls>>

\* Whether the entry with key k leaves bucket i when hashpower h becomes h + 1.
Leaves(h, k, i) == LET old == Homes(h, k) new == Homes(h + 1, k) j == i + hashsize(h) IN
    (i = old[1] /\ new[1] = j) \/ (i = old[2] /\ new[2] = j)

\* move_buckets() for one lock: entries move to the new bucket, from its first slot on, and the lock
\* is given back.  The helper threads take the locks in any order.
MoveBuckets(t, l) ==
    LET c == call[t] size == hashsize(c.hp)
        Old == {i \in 0..(size - 1) : lock_ind(i) = l}
        Gone(i) == {s \in Slot : buckets[i][s] # None /\ Leaves(c.hp, buckets[i][s].key, i)}
        InNew(i) == SetToSortSeq(Gone(i), <)
    IN /\ At(t, "moving") /\ l \in c.todo
       /\ buckets' = [i \in DOMAIN buckets |->
            CASE i \in Old -> [s \in Slot |-> IF s \in Gone(i) THEN None ELSE buckets[i][s]]
              [] i - size \in Old -> [s \in Slot |->
                    IF s < Len(InNew(i - size)) THEN buckets[i - size][InNew(i - size)[s + 1]]
                                                ELSE buckets[i][s]]
              [] OTHER -> buckets[i]]
       /\ locks' = [locks EXCEPT ![l] = None]
       /\ Goes(t, [c EXCEPT !.todo = @ \ {l}])
       /\ UNCHANGED <<hp, count, expansion, answer, calls>>

\* The other locks are given back, and the insertion is tried again.
Doubled(t) ==
    /\ At(t, "moving") /\ call[t].todo = {}
    /\ ReleasesAll(t) /\ expansion' = None
    /\ Goes(t, Again(call[t]))
    /\ UNCHANGED <<table, answer, calls>>

\* rehash() and reserve(), which read the hashpower before they take any lock.
Rehash(t) == LET c == call[t] n == IF c.kind = "reserve" THEN reserve_calc(c.size) ELSE c.size IN
    /\ At(t, "start") /\ c.kind \in {"rehash", "reserve"}
    /\ CASE n = hp -> Returns(t, <<"rehashed", FALSE>>)
         [] n # hp /\ n > MaxHp -> Returns(t, <<"thrown">>)
         [] OTHER -> /\ Goes(t, WantingAll([c EXCEPT !.hp = hp, !.size = n], "rebuild"))
                     /\ UNCHANGED answer
    /\ UNCHANGED <<table, locks, expansion, calls>>

\* The ways to put the entries of the table in one of hashpower h: each in one of its buckets.
Placements(h) ==
    LET entries == {buckets[p[1]][p[2]] : p \in Entries(buckets)}
        Chosen(f, i) == SetToSeq({e \in entries : Homes(h, e.key)[f[e]] = i})
        Fits(f) == \A i \in 0..(hashsize(h) - 1) : Len(Chosen(f, i)) <= Slots
    IN {[i \in 0..(hashsize(h) - 1) |-> [s \in Slot |->
            IF s < Len(Chosen(f, i)) THEN Chosen(f, i)[s + 1] ELSE None]] :
        f \in {g \in [entries -> {1, 2}] : Fits(g)}}

\* cuckoo_expand_simple(): a new table takes the entries, which may make it grow, and its buckets
\* become this one's.
Rebuild(t) == LET c == call[t] grows == c.size > c.hp IN
    /\ At(t, "rebuild")
    /\ IF (grows /\ c.size <= hp) \/ (~grows /\ c.size >= hp)
       THEN Returns(t, <<"rehashed", FALSE>>) /\ UNCHANGED <<hp, buckets>>
       ELSE /\ \E h \in c.size..MaxHp : hp' = h /\ buckets' \in Placements(h)
            /\ Returns(t, <<"rehashed", TRUE>>)
    /\ ReleasesAll(t)
    /\ UNCHANGED <<count, expansion, calls>>

-----------------------------------------------------------------------------
\* With all the locks held.

cuckoo_clear(t) ==
    /\ At(t, "clear")
    /\ buckets' = [i \in DOMAIN buckets |-> EmptyBucket] /\ count' = 0
    /\ Returns(t, <<"cleared">>) /\ ReleasesAll(t)
    /\ UNCHANGED <<hp, expansion, calls>>

\* The iterator's operator++, from before the first place at first; at the end the table is
\* unlocked.
Walk(t) ==
    LET c == call[t]
        Rank(p) == p[1] * Slots + p[2]
        later == {p \in Entries(buckets) : Rank(p) > c.rank}
        next == CHOOSE p \in later : \A q \in later : Rank(p) <= Rank(q)
        e == buckets[next[1]][next[2]]
    IN /\ At(t, "walk")
       /\ IF later = {}
          THEN Returns(t, <<"walked", Range(c.seen)>>) /\ ReleasesAll(t)
          ELSE /\ Goes(t, [c EXCEPT !.rank = Rank(next), !.seen = Append(@, <<e.key, e.val>>)])
               /\ UNCHANGED <<locks, answer>>
       /\ UNCHANGED <<table, expansion, calls>>

Rest == calls = MaxCalls /\ (\A t \in Thread : At(t, "idle")) /\ UNCHANGED vars

Next ==
    \/ \E t \in Thread :
        \/ \E c \in Calls : Begin(t, c)
        \/ Snapshot(t) \/ TakeTable(t) \/ Lock(t)
        \/ find(t) \/ erase(t) \/ update(t) \/ Insert(t)
        \/ SearchSlot(t) \/ Trace(t) \/ Move(t) \/ Place(t)
        \/ Full(t) \/ Double(t) \/ Resize(t) \/ Doubled(t)
        \/ \E l \in AllLocks : MoveBuckets(t, l)
        \/ Rehash(t) \/ Rebuild(t) \/ cuckoo_clear(t) \/ Walk(t)
    \/ Rest

Spec == Init /\ [][Next]_vars

-----------------------------------------------------------------------------
\* Every key is in one place at most, in one of its two buckets, and the counters agree: whatever
\* moved, a find() that holds both locks finds it.  While the table doubles, the buckets not moved
\* yet hold what they held by the old hashpower.
KeysAtHome ==
    /\ \A k \in Key : Cardinality(Places(buckets, k)) <= 1
    /\ \A p \in Entries(buckets) : LET k == buckets[p[1]][p[2]].key IN
        \/ p[1] \in Range(Homes(hp, k))
        \/ /\ p[1] \in Range(Homes(hp - 1, k))
           /\ \E t \in Thread : At(t, "moving") /\ lock_ind(p[1]) \in call[t].todo
    /\ count = Cardinality(Entries(buckets))

\* The assertions of run_cuckoo() and cuckoo_insert(): a thread about to read or write its buckets
\* has their locks and goes by the hashpower of the table, and the slot it made free is free.
HoldsBuckets == \A t \in Thread : LET c == call[t] IN
    /\ c.pc \in {"body", "place"} =>
        /\ c.hp = hp /\ c.homes = Homes(hp, c.key)
        /\ \A i \in Range(c.homes) : locks[lock_ind(i)] = t
    /\ c.pc = "place" =>
        /\ c.trail[1].bucket \in Range(c.homes)
        /\ buckets[c.trail[1].bucket][c.trail[1].slot] = None
    /\ c.pc \in {"resize", "rebuild", "clear", "walk"} => Held(t) = AllLocks

\* A call seen from outside, until it returns.
Doing(c) == IF c.pc = "idle" THEN None
            ELSE [kind |-> IF c.kind = "reserve" THEN "rehash" ELSE c.kind,
                  key |-> c.key, val |-> c.val]

A == INSTANCE AtomicMap WITH
    map <- [k \in Key |-> IF Places(buckets, k) = {} THEN None
                          ELSE LET p == CHOOSE p \in Places(buckets, k) : TRUE
                               IN buckets[p[1]][p[2]].val],
    doing <- [t \in Thread |-> Doing(call[t])]

\* The map is atomic: no interleaving of moves, doublings and retries shows.
MapIsAtomic == A!Spec

=============================================================================

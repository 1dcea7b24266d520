--------------------------- MODULE ImplicitQueue ---------------------------
(***************************************************************************)
(* The thread pool's task queue, which has no lock.  Each thread that adds *)
(* tasks fills blocks of its own, found through an index of blocks; any    *)
(* thread takes from any producer, as TakeCounts says.  The one who takes  *)
(* the last item of a block frees it.                                      *)
(***************************************************************************)
EXTENDS TakeCounts

CONSTANTS
    Producer, None,
    List,        \* the producers as they are listed
    IndexSize,   \* IMPLICIT_INITIAL_INDEX_SIZE
    PoolSize,    \* initialBlockPoolSize
    MaxBlocks, MaxIndexes,  \* from where on memory runs out
    Seen,        \* how many items may have gone through at first
    AddCalls,    \* the calls that add: how many items, and whether it may allocate
    TakeSizes,   \* how many items a call to take many takes
    MaxItems, MaxTakes      \* bounds of the model: of the items added, and of the calls that take

VARIABLES
    headers,    \* of each producer its block indexes, the last one in use: [tail, order]
    entries,    \* of each producer the entries these are made of: [key, value]
    tailBlock,  \* of each producer
    done,       \* of each block its elementsCompletelyDequeued
    cells,      \* of each block its items, or None
    taken,      \* how many blocks were taken from the initial pool, or allocated
    free,       \* the blocks on the free list
    add,        \* what each producer's thread is about
    takes       \* how many calls took

Index == <<headers, entries, tailBlock>>
Blocks == <<done, cells, taken, free>>
vars == <<Counts, Index, Blocks, made, add, take, takes>>

Block == 1..MaxBlocks
Cell == 0..(BlockSize - 1)
INVALID_BLOCK_BASE == 1

PlaceOf(p) == CHOOSE i \in DOMAIN List : List[i] = p

\* What the constants are.  So few items are added and asked for that the distance of two counters
\* is less than half of their range, as it is in years of use with counters of 64 bits.
QueueAssumption ==
    /\ Wrap \in Nat \ {0} /\ Wrap % 2 = 0 /\ BlockSize \in Nat \ {0}
    /\ IsFiniteSet(Consumer)
    /\ List \in Seq(Producer) \ {<<>>} /\ Range(List) = Producer /\ None \notin Producer
    /\ \A i, j \in DOMAIN List : List[i] = List[j] => i = j
    /\ Seen \subseteq 0..(Wrap - 1)
    /\ TakeSizes \subseteq Nat \ {0} /\ \A a \in AddCalls : a[1] \in Nat \ {0}
    /\ MaxTakes \in Nat \ {0} /\ \A n \in TakeSizes \cup {1} : n * MaxTakes <= Wrap \div 2
    /\ MaxItems \in Nat /\ MaxItems < Wrap \div 2

\* The index in use, the number of its slots, and one of its entries' numbers.
Current(p) == Len(headers[p])
Capacity(p, h) == Len(headers[p][h].order)
EntryAt(p, h, s) == headers[p][h].order[s + 1]

\* get_block_index_index_for_index(), in index h with the tail at slot s.
SlotFor(p, i, h, s) ==
    (s + Offset(Base(i), entries[p][EntryAt(p, h, s)].key)) % Capacity(p, h)

\* get_block_index_entry_for_index(), for the producer itself.
EntryFor(p, i) == LET h == Current(p) IN EntryAt(p, h, SlotFor(p, i, h, headers[p][h].tail))

AddIdle == [pc |-> "idle", n |-> 0, alloc |-> TRUE, start |-> None, at |-> 0, fresh |-> <<>>, undone |-> 0]
TakeIdle == [pc |-> "idle", alone |-> FALSE, rest |-> <<>>, best |-> None, size |-> 0, found |-> 0,
             bulk |-> FALSE, max |-> 0, got |-> <<>>, p |-> None, tail |-> 0, over |-> 0,
             want |-> 0, mine |-> 0, n |-> 0, index |-> 0, header |-> 0, slot |-> 0, block |-> 0, moved |-> 0]

\* A producer that added n items, which all were taken: its last block is freed if it was full.
Init == \E n \in Seen :
    LET full == n % BlockSize = 0
        last == IF full THEN Minus(n, BlockSize) ELSE Base(n)
        New == [key |-> INVALID_BLOCK_BASE, value |-> None]
        Entry(p, i) == CASE n # 0 /\ i = 1 ->
                                [key |-> last, value |-> IF full THEN None ELSE PlaceOf(p)]
                         [] OTHER -> New
    IN /\ tailIndex = [p \in Producer |-> n] /\ headIndex = tailIndex /\ optimistic = tailIndex
       /\ overcommit = [p \in Producer |-> 0]
       /\ headers = [p \in Producer |->
            <<[tail |-> IF n = 0 THEN IndexSize - 1 ELSE 0, order |-> [i \in 1..IndexSize |-> i]]>>]
       /\ entries = [p \in Producer |-> [i \in 1..IndexSize |-> Entry(p, i)]]
       /\ tailBlock = [p \in Producer |-> IF n = 0 THEN None ELSE PlaceOf(p)]
       /\ done = [b \in Block |-> IF n # 0 /\ b <= Len(List) THEN ((n - 1) % BlockSize) + 1 ELSE 0]
       /\ cells = [b \in Block |-> [i \in Cell |-> None]]
       /\ taken = (IF n = 0 THEN 0 ELSE Len(List))
       /\ free = (IF n # 0 /\ full THEN 1..Len(List) ELSE {})
       /\ made = [p \in Producer |-> 0]
       /\ add = [p \in Producer |-> AddIdle]
       /\ take = [c \in Consumer |-> TakeIdle]
       /\ takes = 0

-----------------------------------------------------------------------------
\* enqueue(), try_enqueue() and their bulk forms, by the producer's own thread.

AddAt(p, pc) == add[p].pc = pc
Adds(p, rec) == add' = [add EXCEPT ![p] = rec]

\* The call has failed, and gives its new blocks back.
Failed(p) == [add[p] EXCEPT !.pc = "undo", !.at = Base(Minus(tailIndex[p], 1))]

\* The items take the block at the tail, if it has room, and as many new ones as they need.
Enqueue(p, n, alloc) ==
    LET base == Base(Minus(tailIndex[p], 1)) IN
    /\ AddAt(p, "idle") /\ made[p] + n <= MaxItems
    /\ Adds(p, [AddIdle EXCEPT !.n = n, !.alloc = alloc, !.start = tailBlock[p],
            !.at = Plus(base, BlockSize),
            !.pc = IF base = Base(Plus(tailIndex[p], n - 1)) THEN "fill" ELSE "entry"])
    /\ UNCHANGED <<Counts, Index, Blocks, made, take, takes>>

\* Too many items for the counters to tell which come first.
Full(p) == ~circular_less_than(headIndex[p], Plus(add[p].at, BlockSize))

NextSlot(p) == LET h == Current(p) IN (headers[p][h].tail + 1) % Capacity(p, h)
NextEntry(p) == EntryAt(p, Current(p), NextSlot(p))

\* Variant: whether the entry's block is freed is not looked at.
EntryReusable(p) == TRUE

EntryUsable(p) == LET e == entries[p][NextEntry(p)] IN e.key = INVALID_BLOCK_BASE \/ e.value = None

\* new_block_index(): twice the slots, of which the first half are the old ones, oldest first.
NewBlockIndex(p) ==
    LET h == Current(p) old == headers[p][h] cap == Capacity(p, h)
        Was(i) == old.order[((old.tail + i) % cap) + 1]
        More == [i \in 1..cap |-> Len(entries[p]) + i]
    IN /\ headers' = [headers EXCEPT ![p] =
            Append(@, [tail |-> cap - 1, order |-> [i \in 1..cap |-> Was(i)] \o More])]
       /\ entries' = [entries EXCEPT ![p] =
            @ \o [i \in 1..cap |-> [key |-> INVALID_BLOCK_BASE, value |-> None]]]

\* insert_block_index_entry(): the key is stored, in a larger index if there is no room.
StoreKey(p) ==
    /\ AddAt(p, "entry")
    /\ \/ /\ ~Full(p) /\ EntryUsable(p)
          /\ entries' = [entries EXCEPT ![p][NextEntry(p)].key = add[p].at]
          /\ Adds(p, [add[p] EXCEPT !.pc = "expose"]) /\ UNCHANGED headers
       \/ /\ ~Full(p) /\ ~EntryUsable(p) /\ add[p].alloc /\ Current(p) < MaxIndexes
          /\ NewBlockIndex(p) /\ UNCHANGED add
       \/ /\ Full(p) \/ (~EntryUsable(p) /\ (~add[p].alloc \/ Current(p) = MaxIndexes))
          /\ Adds(p, Failed(p))
          /\ UNCHANGED <<headers, entries>>
    /\ UNCHANGED <<Counts, tailBlock, Blocks, made, take, takes>>

\* The index's tail moves to the new entry.
ExposeEntry(p) ==
    /\ AddAt(p, "expose")
    /\ headers' = [headers EXCEPT ![p][Current(p)].tail = NextSlot(p)]
    /\ Adds(p, [add[p] EXCEPT !.pc = "block"])
    /\ UNCHANGED <<Counts, entries, tailBlock, Blocks, made, take, takes>>

\* rewind_block_index_tail(), with the value of entry e cleared.
Rewind(p, e) == LET h == Current(p) IN
    /\ headers' = [headers EXCEPT ![p][h].tail = (@ - 1) % Capacity(p, h)]
    /\ entries' = [entries EXCEPT ![p][e].value = None]

\* try_get_block_from_initial_pool(): its blocks are handed out one after the other.
FromPool(b) == taken < PoolSize /\ b = taken + 1

\* requisition_block(): of the initial pool, of the free list, a new one, or none.  A list that
\* others are about to put a block on may look empty.
Answers(alloc, b) ==
    CASE taken < PoolSize -> FromPool(b)
      [] taken >= PoolSize /\ free # {} -> b \in free
      [] OTHER -> (alloc /\ taken < MaxBlocks /\ b = taken + 1) \/ b = None

\* The block is the one the new entry is for.
Requisition(p, b) ==
    LET new == taken + 1
        e == EntryAt(p, Current(p), headers[p][Current(p)].tail)
        then == CASE add[p].at = Base(Plus(tailIndex[p], add[p].n - 1)) -> "fill"
                      [] OTHER -> "entry"
    IN /\ AddAt(p, "block") /\ Answers(add[p].alloc, b)
       /\ \/ /\ b = None
             /\ Rewind(p, e)
             /\ Adds(p, Failed(p))
             /\ UNCHANGED <<tailBlock, done, taken, free>>
          \/ /\ b # None
             /\ done' = [done EXCEPT ![b] = 0]
             /\ entries' = [entries EXCEPT ![p][e].value = b]
             /\ tailBlock' = [tailBlock EXCEPT ![p] = b]
             /\ Adds(p, [add[p] EXCEPT !.fresh = Append(@, b), !.pc = then,
                    !.at = IF then = "fill" THEN @ ELSE Plus(@, BlockSize)])
             /\ taken' = (IF b = new THEN new ELSE taken) /\ free' = free \ {b}
             /\ UNCHANGED headers
       /\ UNCHANGED <<Counts, cells, made, take, takes>>

\* The block that the item for index i goes to.
FillBlock(p, i) ==
    LET c == add[p] first == IF tailIndex[p] % BlockSize = 0 THEN <<>> ELSE <<c.start>>
    IN (first \o c.fresh)[Offset(Base(i), Base(tailIndex[p])) + 1]

\* The items are constructed, and published all at once by the new tail.
Publish(p) ==
    LET c == add[p] Where(k) == Plus(tailIndex[p], k - 1) IN
    /\ AddAt(p, "fill")
    /\ cells' = [b \in Block |-> [i \in Cell |->
            LET new == {k \in 1..c.n : FillBlock(p, Where(k)) = b /\ Where(k) % BlockSize = i}
            IN IF new = {} THEN cells[b][i] ELSE <<p, made[p] + Min(new)>>]]
    /\ tailIndex' = [tailIndex EXCEPT ![p] = Plus(@, c.n)]
    /\ made' = [made EXCEPT ![p] = @ + c.n]
    /\ Adds(p, AddIdle)
    /\ UNCHANGED <<headIndex, optimistic, overcommit, Index, done, taken, free, take, takes>>

\* A task's copy throws: those constructed are destroyed.
Throw(p) ==
    /\ AddAt(p, "fill")
    /\ Adds(p, Failed(p))
    /\ UNCHANGED <<Counts, Index, Blocks, made, take, takes>>

\* A failed call takes its blocks out of the index, first to last, each time moving the index's tail
\* back by one.
Undo(p) == LET c == add[p] i == Plus(c.at, BlockSize) IN
    /\ AddAt(p, "undo") /\ c.undone < Len(c.fresh)
    /\ Rewind(p, EntryFor(p, i))
    /\ Adds(p, [c EXCEPT !.undone = @ + 1, !.at = i])
    /\ UNCHANGED <<Counts, tailBlock, Blocks, made, take, takes>>

\* And gives them back.
Undone(p) == LET c == add[p] IN
    /\ AddAt(p, "undo") /\ c.undone = Len(c.fresh)
    /\ free' = free \cup Range(c.fresh)
    /\ tailBlock' = [tailBlock EXCEPT ![p] = c.start]
    /\ Adds(p, AddIdle)
    /\ UNCHANGED <<Counts, headers, entries, done, cells, taken, made, take, takes>>

-----------------------------------------------------------------------------
\* try_dequeue() and try_dequeue_bulk().

\* Going on to the next producer of the list, if any, with what was got.
Trying(t, rest) ==
    IF rest = <<>> THEN [TakeIdle EXCEPT !.got = t.got, !.alone = t.alone, !.pc = "return"]
    ELSE [TakeIdle EXCEPT !.pc = "load", !.bulk = t.bulk, !.max = t.max, !.alone = t.alone,
                          !.p = Head(rest), !.rest = Tail(rest), !.got = t.got]

\* A call to take up to n items of all producers in turn, or one item.  A history variable records
\* whether the consumer is alone, with something in the queue.
Dequeue(c, bulk, n) ==
    LET others == Consumer \ {c}
        alone == /\ \A d \in others : TakeAt(d, "idle")
                 /\ \E p \in Producer : headIndex[p] # tailIndex[p]
        called == [TakeIdle EXCEPT !.bulk = bulk, !.max = n, !.alone = alone, !.rest = List, !.pc = "size"]
    IN /\ TakeAt(c, "idle") /\ takes < MaxTakes /\ takes' = takes + 1
       /\ take' = [d \in Consumer |->
            IF d # c THEN [take[d] EXCEPT !.alone = FALSE]
            ELSE IF bulk THEN Trying(called, List) ELSE called]
       /\ UNCHANGED <<Counts, Index, Blocks, made, add>>

\* The producer that has most of the first three that have any is tried, and then the others.
Size(c) ==
    LET t == take[c] p == Head(t.rest) size == size_approx(p)
        seen == [t EXCEPT !.rest = Tail(@), !.found = IF size > 0 THEN @ + 1 ELSE @,
                          !.best = IF size > t.size THEN p ELSE @, !.size = Max({size, t.size})]
        others == RemoveAt(List, PlaceOf(seen.best))
    IN /\ TakeAt(c, "size")
       /\ Takes(c, CASE seen.found < 3 /\ seen.rest # <<>> -> seen
                     [] (seen.found = 3 \/ seen.rest = <<>>) /\ seen.found > 0 ->
                            Trying(t, <<seen.best>> \o others)
                     [] OTHER -> Trying(t, <<>>))
       /\ UNCHANGED <<Counts, Index, Blocks, made, add, takes>>

\* Every call ends here: it answers what it got.
Return(c) ==
    /\ TakeAt(c, "return") /\ Takes(c, TakeIdle)
    /\ UNCHANGED <<Counts, Index, Blocks, made, add, takes>>

\* The shared part, going on to the next producer if there is nothing.
CountedTake(c) ==
    TakeStep(c, Trying(take[c], take[c].rest)) /\ UNCHANGED <<Index, Blocks, made, add, takes>>

\* Their block is looked up: the index, its tail, and the tail's key are read one after the other.
FindIndex(c) == LET t == take[c] IN
    /\ TakeAt(c, "index")
    /\ Takes(c, [t EXCEPT !.pc = "tail", !.header = Current(t.p)])
    /\ UNCHANGED <<Counts, Index, Blocks, made, add, takes>>

FindTail(c) == LET t == take[c] IN
    /\ TakeAt(c, "tail")
    /\ Takes(c, [t EXCEPT !.pc = "base", !.slot = headers[t.p][t.header].tail])
    /\ UNCHANGED <<Counts, Index, Blocks, made, add, takes>>

FindSlot(c) == LET t == take[c] IN
    /\ TakeAt(c, "base")
    /\ Takes(c, [t EXCEPT !.pc = "move", !.slot = SlotFor(t.p, t.index, t.header, t.slot)])
    /\ UNCHANGED <<Counts, Index, Blocks, made, add, takes>>

\* The entry that a consumer has found.
FoundEntry(t) == EntryAt(t.p, t.header, t.slot)

\* The items of one block are moved out, which cannot throw.
Move(c) ==
    LET t == take[c] b == entries[t.p][FoundEntry(t)].value
        n == Min({t.n, BlockSize - (t.index % BlockSize)})
        At(k) == (t.index + k - 1) % BlockSize
    IN /\ TakeAt(c, "move")
       /\ cells' = [cells EXCEPT ![b] = [i \in Cell |-> IF i \in {At(k) : k \in 1..n} THEN None ELSE @[i]]]
       /\ Takes(c, [t EXCEPT !.pc = "empty", !.block = b, !.moved = n,
                             !.got = @ \o [k \in 1..n |-> cells[b][At(k)]]])
       /\ UNCHANGED <<Counts, Index, done, taken, free, made, add, takes>>

\* On to the rest of the claimed items, in the index's next slot, or to the next producer.
Onward(t) == LET left == t.n - t.moved IN
    IF left > 0
    THEN [t EXCEPT !.pc = "move", !.slot = (@ + 1) % Capacity(t.p, t.header), !.n = left,
                   !.index = Plus(@, t.moved), !.block = 0, !.moved = 0]
    ELSE Trying(t, IF Len(t.got) = t.max THEN <<>> ELSE t.rest)

\* Variant: a block is empty one item too soon.
EmptiedSoon(t) == done[t.block] + t.moved >= BlockSize - 1

\* set_empty(), set_many_empty(): whether the block is now empty.
Emptied(t) == done[t.block] + t.moved = BlockSize

SetEmpty(c) == LET t == take[c] IN
    /\ TakeAt(c, "empty")
    /\ done' = [done EXCEPT ![t.block] = @ + t.moved]
    /\ Takes(c, IF Emptied(t) THEN [t EXCEPT !.pc = "unlink"] ELSE Onward(t))
    /\ UNCHANGED <<Counts, Index, cells, taken, free, made, add, takes>>

\* An empty block is taken out of the index, and freed.
Unlink(c) == LET t == take[c] IN
    /\ TakeAt(c, "unlink")
    /\ entries' = [entries EXCEPT ![t.p][FoundEntry(t)].value = None]
    /\ Takes(c, [t EXCEPT !.pc = "free"])
    /\ UNCHANGED <<Counts, headers, tailBlock, Blocks, made, add, takes>>

Free(c) == LET t == take[c] IN
    /\ TakeAt(c, "free")
    /\ free' = free \cup {t.block}
    /\ Takes(c, Onward(t))
    /\ UNCHANGED <<Counts, Index, done, cells, taken, made, add, takes>>

AllIdle == (\A p \in Producer : AddAt(p, "idle")) /\ (\A c \in Consumer : TakeAt(c, "idle"))

Rest == AllIdle /\ takes = MaxTakes /\ UNCHANGED vars

Next ==
    \/ \E p \in Producer :
        \/ \E a \in AddCalls : Enqueue(p, a[1], a[2])
        \/ StoreKey(p) \/ ExposeEntry(p) \/ (\E b \in Block \cup {None} : Requisition(p, b))
        \/ Publish(p) \/ Throw(p) \/ Undo(p) \/ Undone(p)
    \/ \E c \in Consumer :
        \/ \E n \in TakeSizes : Dequeue(c, TRUE, n)
        \/ Dequeue(c, FALSE, 1)
        \/ Size(c) \/ Return(c) \/ CountedTake(c) \/ FindIndex(c) \/ FindTail(c) \/ FindSlot(c) \/ Move(c) \/ SetEmpty(c)
        \/ Unlink(c) \/ Free(c)
    \/ Rest

Spec == Init /\ [][Next]_vars

-----------------------------------------------------------------------------
\* The destructor, which runs when no thread uses the queue.

\* The blocks in use that p's index has for index i.
BlocksFor(p, i) == {entries[p][e].value : e \in {e \in DOMAIN entries[p] : entries[p][e].key = Base(i)}} \ {None}

\* The blocks that ~ImplicitProducer() frees: those of the items left, the last of which is the tail
\* block, or else the tail block if it is not used up.
FreedAtEnd(p) ==
    LET n == Minus(tailIndex[p], headIndex[p])
        bases == {Base(Plus(headIndex[p], k)) : k \in 0..(n - 1)}
        before == UNION {BlocksFor(p, i) : i \in bases \ {Base(Minus(tailIndex[p], 1))}}
    IN IF tailBlock[p] # None /\ (n > 0 \/ tailIndex[p] % BlockSize # 0)
       THEN before \cup {tailBlock[p]} ELSE before

-----------------------------------------------------------------------------
\* The assertion on what was looked up: the slot of a consumer, in an index that it has read and that
\* may have been replaced or moved on since, is for the block its next item is in; so is what a failed
\* call takes out of the index.
FindsItsBlock ==
    /\ \A c \in Consumer : LET t == take[c] IN t.pc = "move" =>
        LET e == entries[t.p][FoundEntry(t)] IN
            /\ e.key = Base(t.index) /\ e.value # None
            /\ cells[e.value][t.index % BlockSize] = <<t.p, Number(t.p, t.index)>>
    /\ \A p \in Producer : LET a == add[p] IN a.pc = "undo" /\ a.undone < Len(a.fresh) =>
        LET i == Plus(a.at, BlockSize) IN
            entries[p][EntryFor(p, i)] = [key |-> i, value |-> a.fresh[a.undone + 1]]

\* Where block b is: on the free list, in an entry, or with a thread that is about to free it.
Places(b) ==
    {<<"free", 0, 0>> : x \in {b} \cap free}
    \cup UNION {{<<"entry", p, e>> : e \in {e \in DOMAIN entries[p] : entries[p][e].value = b}} : p \in Producer}
    \cup {<<"undone", p, 0>> : p \in {p \in Producer :
            \E k \in 1..add[p].undone : add[p].fresh[k] = b}}
    \cup {<<"freed", c, 0>> : c \in {c \in Consumer : TakeAt(c, "free") /\ take[c].block = b}}

\* Every block taken is in one place, and free with no item in it; and whatever way things went, the
\* destructor finds every block that is not free.
BlocksAccounted ==
    /\ \A b \in Block : Cardinality(Places(b)) = IF b <= taken THEN 1 ELSE 0
    /\ \A b \in free, i \in Cell : cells[b][i] = None
    /\ AllIdle => /\ UNION {FreedAtEnd(p) : p \in Producer} = (1..taken) \ free
                  /\ \A p, q \in Producer : p # q => FreedAtEnd(p) \cap FreedAtEnd(q) = {}

=============================================================================

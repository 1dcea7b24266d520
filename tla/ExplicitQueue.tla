---------------------------- MODULE ExplicitQueue ----------------------------
(***************************************************************************)
(* The items of a producer with a token.  Its blocks form a ring: the one  *)
(* after the tail's is filled again once it is empty, and else a new block *)
(* is inserted there.  The index of blocks is a circular array, in which   *)
(* consumers find a block by its distance from the one at the front.       *)
(***************************************************************************)
EXTENDS TakeCounts

CONSTANTS
    Owner, None,
    IndexSize,   \* EXPLICIT_INITIAL_INDEX_SIZE
    PoolSize,    \* initialBlockPoolSize
    MaxBlocks, MaxIndexes,  \* from where on memory runs out
    Seen,        \* how many items may have gone through at first
    AddCalls,    \* the calls that add: how many items, and whether it may allocate
    TakeSizes,   \* how many items a call may take
    MaxItems, MaxTakes,     \* bounds of the model: of the items added, and of the calls that take
    GoesOn       \* whether the queue is used on after a call failed that had obtained blocks

VARIABLES
    indexes,    \* its block indexes, the last one in use: [front, entries]
    used,       \* pr_blockIndexSlotsUsed
    front,      \* pr_blockIndexFront, the slot after the current one
    tailBlock,
    ring,       \* of each block its next
    emptied,    \* of each block the cells flagged as empty
    cells,      \* of each block its items, or None
    taken,      \* how many blocks were taken from the initial pool, or allocated
    add,        \* what the owner's thread is about
    takes,      \* how many calls took
    leftBehind  \* a call has failed that had obtained blocks

Index == <<indexes, used, front>>
Ring == <<tailBlock, ring, taken>>
Blocks == <<Ring, emptied, cells>>
vars == <<Counts, Index, Blocks, made, add, take, takes, leftBehind>>

Block == 1..MaxBlocks
Cell == 0..(BlockSize - 1)
TailOf == tailIndex[Owner]
HeadOf == headIndex[Owner]

\* Allocated and not initialized.
Unset == [base |-> 1, block |-> None]

Current == indexes[Len(indexes)]
IndexSlots == IF indexes = <<>> THEN IndexSize \div 2 ELSE Len(Current.entries)
EntryAt(h, s) == indexes[h].entries[s + 1]

AddIdle == [pc |-> "idle", n |-> 0, alloc |-> TRUE, need |-> 0, at |-> 0, start |-> None, used |-> 0, front |-> 0,
            fresh |-> <<>>]
TakeIdle == [alone |-> FALSE] @@ [TakeFrom(None) EXCEPT !.pc = "idle"]

\* The constructor, whose index may not have been allocated; or an owner that added n items, all taken
\* before the next one was added, which takes one block.
NewOrUsed ==
    \/ /\ \E n \in Seen \ {0} :
            LET last == Base(n - 1) count == (last \div BlockSize) + 1 slot == (count - 1) % IndexSize IN
            /\ tailIndex = [p \in {Owner} |-> n]
            /\ indexes = <<[front |-> slot, entries |-> [i \in 1..IndexSize |->
                    [base |-> IF i = slot + 1 THEN last ELSE last - BlockSize, block |-> 1]]]>>
            /\ used = 1 /\ front = count % IndexSize
            /\ emptied = [b \in Block |-> IF b = 1 THEN 0..((n - 1) % BlockSize) ELSE {}]
       /\ tailBlock = 1 /\ taken = 1
       /\ ring = [b \in Block |-> IF b = 1 THEN 1 ELSE None]
    \/ /\ 0 \in Seen /\ tailIndex = [p \in {Owner} |-> 0]
       /\ indexes \in {<<>>, <<[front |-> -1, entries |-> [i \in 1..IndexSize |-> Unset]]>>}
       /\ used = 0 /\ front = 0 /\ tailBlock = None /\ taken = 0
       /\ ring = [b \in Block |-> None]
       /\ emptied = [b \in Block |-> {}]

Init ==
    /\ NewOrUsed
    /\ headIndex = tailIndex /\ optimistic = tailIndex /\ overcommit = [p \in {Owner} |-> 0]
    /\ cells = [b \in Block |-> [i \in Cell |-> None]]
    /\ made = [p \in {Owner} |-> 0]
    /\ add = [p \in {Owner} |-> AddIdle]
    /\ take = [c \in Consumer |-> TakeIdle]
    /\ takes = 0 /\ leftBehind = FALSE

-----------------------------------------------------------------------------
\* enqueue(), try_enqueue() and their bulk forms, with the token.

c0 == add[Owner]
AddAt(pc) == c0.pc = pc
Adds(rec) == add' = [add EXCEPT ![Owner] = rec]

\* The items take the block at the tail, if it has room, and as many others as they need.
Enqueue(n, alloc) ==
    LET base == Base(Minus(TailOf, 1)) need == Offset(Base(Plus(TailOf, n - 1)), base) IN
    /\ AddAt("idle") /\ made[Owner] + n <= MaxItems
    /\ Adds([AddIdle EXCEPT !.n = n, !.alloc = alloc, !.need = need, !.at = Plus(base, BlockSize),
            !.start = tailBlock, !.used = used, !.front = front, !.pc = IF need = 0 THEN "fill" ELSE "ahead"])
    /\ UNCHANGED <<Counts, Index, Blocks, made, take, takes, leftBehind>>

\* The flags of blocks, one for each of their cells.
IsEmpty(b) == emptied[b] = Cell
set_all_empty(flags, b) == [flags EXCEPT ![b] = Cell]
reset_empty(flags, bs) == [b \in Block |-> IF b \in bs THEN {} ELSE flags[b]]

\* Block b is the next one to be filled.  When there are enough of them their flags are reset.
Obtained(b, flags) ==
    LET fresh == Append(c0.fresh, b) IN
    /\ tailBlock' = b
    /\ indexes' = [indexes EXCEPT ![Len(indexes)].entries[front + 1] = [base |-> c0.at, block |-> b]]
    /\ front' = (front + 1) % IndexSlots
    /\ Adds([c0 EXCEPT !.need = @ - 1, !.at = Plus(@, BlockSize), !.fresh = fresh,
                       !.pc = IF c0.need = 1 THEN "fill" ELSE @])
    /\ emptied' = reset_empty(flags, IF c0.need = 1 THEN Range(fresh) ELSE {})

\* Variant: a block is used again when its last item was taken.
AheadByLast ==
    /\ tailBlock # None /\ BlockSize - 1 \in emptied[ring[tailBlock]]
    /\ c0.fresh # <<>> => ring[tailBlock] # c0.fresh[1]

\* Whether the block ahead can be filled again.
Ahead ==
    /\ tailBlock # None /\ IsEmpty(ring[tailBlock])
    /\ c0.fresh # <<>> => ring[tailBlock] # c0.fresh[1]

UseAgain ==
    /\ AddAt("ahead")
    /\ IF Ahead
       THEN Obtained(ring[tailBlock], emptied) /\ UNCHANGED used
       ELSE Adds([c0 EXCEPT !.pc = "insert"]) /\ UNCHANGED <<Index, tailBlock, emptied>>
    /\ UNCHANGED <<Counts, ring, taken, cells, made, take, takes, leftBehind>>

\* Too many items for the counters to tell which come first.
Full == ~circular_less_than(HeadOf, Plus(c0.at, BlockSize))
NeedsIndex == indexes = <<>> \/ used = IndexSlots

\* new_block_index(): twice the slots, first the ones in use, of which those known to consumers are
\* exposed.  If the call fails later, it goes on from there.
GrowIndex ==
    LET Was(k) == Current.entries[((front - used + k) % IndexSlots) + 1] IN
    /\ AddAt("insert") /\ ~Full /\ NeedsIndex /\ c0.alloc /\ Len(indexes) < MaxIndexes
    /\ indexes' = Append(indexes, [front |-> c0.used - 1,
            entries |-> [i \in 1..(2 * IndexSlots) |-> IF i <= used THEN Was(i - 1) ELSE Unset]])
    /\ front' = used
    /\ Adds([c0 EXCEPT !.front = c0.used])
    /\ UNCHANGED <<Counts, used, Blocks, made, take, takes, leftBehind>>

\* requisition_block(): one of the initial pool, or a new one.
Insert ==
    LET b == taken + 1 IN
    /\ AddAt("insert") /\ ~Full /\ ~NeedsIndex
    /\ b <= PoolSize \/ (c0.alloc /\ b <= MaxBlocks)
    /\ taken' = b /\ used' = used + 1
    /\ ring' = IF tailBlock = None THEN [ring EXCEPT ![b] = b]
               ELSE [ring EXCEPT ![b] = ring[tailBlock], ![tailBlock] = b]
    /\ Obtained(b, set_all_empty(emptied, b))
    /\ UNCHANGED <<Counts, cells, made, take, takes, leftBehind>>

\* The call's changes are undone, but the blocks it inserted stay in the ring, and what it wrote in the
\* index stays there.
Undone ==
    /\ front' = c0.front /\ used' = c0.used
    /\ tailBlock' = (IF c0.start = None /\ c0.fresh # <<>> THEN c0.fresh[1] ELSE c0.start)
    /\ Adds(AddIdle)
    /\ leftBehind' = (leftBehind \/ c0.fresh # <<>>)
    /\ UNCHANGED <<Counts, indexes, ring, taken, emptied, cells, made, take, takes>>

\* No room or no memory.
Fail ==
    /\ AddAt("insert")
    /\ \/ Full
       \/ NeedsIndex /\ (~c0.alloc \/ Len(indexes) = MaxIndexes)
       \/ ~NeedsIndex /\ taken >= PoolSize /\ (~c0.alloc \/ taken = MaxBlocks)
    /\ Undone

\* An item's copy throws: those constructed are destroyed.
Throw == AddAt("fill") /\ Undone

\* The index's front moves on to the last block obtained.
Expose ==
    /\ AddAt("fill")
    /\ indexes' = (IF c0.fresh = <<>> THEN indexes
                   ELSE [indexes EXCEPT ![Len(indexes)].front = (front - 1) % IndexSlots])
    /\ Adds([c0 EXCEPT !.pc = "publish"])
    /\ UNCHANGED <<Counts, used, front, Blocks, made, take, takes, leftBehind>>

\* The items are constructed, in the block at the tail and those after it.
Publish ==
    LET filled == (IF TailOf % BlockSize = 0 THEN <<>> ELSE <<c0.start>>) \o c0.fresh
        Item(b, i) == {k \in 1..c0.n : LET at == Plus(TailOf, k - 1) IN
            at % BlockSize = i /\ filled[Offset(Base(at), Base(TailOf)) + 1] = b}
    IN /\ AddAt("publish")
       /\ cells' = [b \in Block |-> [i \in Cell |->
                IF Item(b, i) = {} THEN cells[b][i] ELSE <<Owner, made[Owner] + Min(Item(b, i))>>]]
       /\ tailIndex' = [tailIndex EXCEPT ![Owner] = Plus(@, c0.n)]
       /\ made' = [made EXCEPT ![Owner] = @ + c0.n]
       /\ Adds(AddIdle)
       /\ UNCHANGED <<headIndex, optimistic, overcommit, Index, Ring, emptied, take, takes, leftBehind>>

-----------------------------------------------------------------------------
\* try_dequeue_from_producer() and try_dequeue_bulk_from_producer().

Nothing(t) == [t EXCEPT !.pc = "return"]

\* A history variable records whether the consumer is alone, with something in the queue.
Dequeue(c, n) ==
    LET alone == HeadOf # TailOf /\ \A d \in Consumer \ {c} : TakeAt(d, "idle") IN
    /\ TakeAt(c, "idle") /\ takes < MaxTakes /\ takes' = takes + 1
    /\ take' = [d \in Consumer |->
            IF d = c THEN [alone |-> alone] @@ [TakeFrom(Owner) EXCEPT !.max = n]
            ELSE [take[d] EXCEPT !.alone = FALSE]]
    /\ UNCHANGED <<Counts, Index, Blocks, made, add, leftBehind>>

Return(c) ==
    /\ TakeAt(c, "return") /\ Takes(c, TakeIdle)
    /\ UNCHANGED <<Counts, Index, Blocks, made, add, takes, leftBehind>>

\* The shared part, which answers that there is nothing if so.
CountedTake(c) ==
    TakeStep(c, Nothing(take[c])) /\ UNCHANGED <<Index, Blocks, made, add, takes, leftBehind>>

\* The index, its front and the front's base are read one after the other.
FindIndex(c) == LET t == take[c] IN
    /\ TakeAt(c, "index")
    /\ Takes(c, [t EXCEPT !.pc = "front", !.header = Len(indexes)])
    /\ UNCHANGED <<Counts, Index, Blocks, made, add, takes, leftBehind>>

FindFront(c) == LET t == take[c] IN
    /\ TakeAt(c, "front")
    /\ Takes(c, [t EXCEPT !.pc = "base", !.slot = indexes[t.header].front])
    /\ UNCHANGED <<Counts, Index, Blocks, made, add, takes, leftBehind>>

FindSlot(c) == LET t == take[c] IN
    /\ TakeAt(c, "base")
    /\ Takes(c, [t EXCEPT !.pc = "move", !.slot =
            (@ + Offset(Base(t.index), EntryAt(t.header, t.slot).base)) % Len(indexes[t.header].entries)])
    /\ UNCHANGED <<Counts, Index, Blocks, made, add, takes, leftBehind>>

\* The items of one block are moved out, which cannot throw.
Move(c) ==
    LET t == take[c] b == EntryAt(t.header, t.slot).block
        n == Min({t.n, BlockSize - (t.index % BlockSize)})
        At(k) == (t.index + k - 1) % BlockSize
    IN /\ TakeAt(c, "move")
       /\ cells' = [cells EXCEPT ![b] = [i \in Cell |-> IF i \in {At(k) : k \in 1..n} THEN None ELSE @[i]]]
       /\ Takes(c, [t EXCEPT !.pc = "empty", !.block = b, !.moved = n,
                             !.got = @ \o [k \in 1..n |-> cells[b][At(k)]]])
       /\ UNCHANGED <<Counts, Index, Ring, emptied, made, add, takes, leftBehind>>

\* set_empty(), set_many_empty(); and on to the rest of the claimed items, in the index's next slot.
SetEmpty(c) == LET t == take[c] left == t.n - t.moved IN
    /\ TakeAt(c, "empty")
    /\ emptied' = [emptied EXCEPT ![t.block] = @ \cup {(t.index + k - 1) % BlockSize : k \in 1..t.moved}]
    /\ Takes(c, IF left = 0 THEN [t EXCEPT !.pc = "return", !.n = 0, !.index = 0, !.header = 0, !.slot = 0, !.block = 0, !.moved = 0]
                ELSE [t EXCEPT !.pc = "move", !.slot = (@ + 1) % Len(indexes[t.header].entries), !.n = left,
                               !.index = Plus(@, t.moved), !.block = 0, !.moved = 0])
    /\ UNCHANGED <<Counts, Index, Ring, cells, made, add, takes, leftBehind>>

AllIdle == AddAt("idle") /\ \A c \in Consumer : TakeAt(c, "idle")
Used == leftBehind => GoesOn

Rest == ((AllIdle /\ takes = MaxTakes) \/ ~Used) /\ UNCHANGED vars

Next ==
    \/ /\ Used
       /\ \/ \E a \in AddCalls : Enqueue(a[1], a[2])
          \/ UseAgain \/ GrowIndex \/ Insert \/ Fail \/ Throw \/ Expose \/ Publish
          \/ \E c \in Consumer :
                \/ \E n \in TakeSizes : Dequeue(c, n)
                \/ CountedTake(c) \/ Return(c) \/ FindIndex(c) \/ FindFront(c) \/ FindSlot(c) \/ Move(c) \/ SetEmpty(c)
    \/ Rest

-----------------------------------------------------------------------------
\* The destructor, which runs when no thread uses the queue.

\* The block that the head is in, if it is not at a block's beginning: the first one in the index, from
\* the oldest on, that ends after the head.
HalfDequeued ==
    LET Entry(k) == Current.entries[((front - used + k) % IndexSlots) + 1]
        Ends(k) == circular_less_than(Plus(Entry(k).base, BlockSize), HeadOf)
    IN IF HeadOf % BlockSize = 0 THEN None
       ELSE Entry(CHOOSE k \in 0..(IndexSlots - 1) : ~Ends(k) /\ \A j \in 0..(k - 1) : Ends(j)).block

\* The blocks from the tail's on, around the ring.
InRing ==
    LET At[k \in 0..MaxBlocks] == IF k = 0 THEN tailBlock ELSE ring[At[k - 1]]
    IN IF tailBlock = None THEN {} ELSE {At[k] : k \in 0..MaxBlocks}

\* The cells whose items are destroyed.
Destroyed ==
    LET From(b) == IF b = HalfDequeued THEN HeadOf % BlockSize ELSE 0
        To(b) == IF b = tailBlock /\ TailOf % BlockSize # 0 THEN TailOf % BlockSize ELSE BlockSize
    IN UNION {{<<b, i>> : i \in From(b)..(To(b) - 1)} : b \in {b \in InRing : ~IsEmpty(b)}}

-----------------------------------------------------------------------------
\* A consumer that has looked its block up, in an index that may have been replaced or moved on since,
\* finds its item there.
FindsItsBlock == \A c \in Consumer : LET t == take[c] IN TakeAt(c, "move") =>
    LET e == EntryAt(t.header, t.slot) IN
    /\ e.base = Base(t.index) /\ e.block # None
    /\ cells[e.block][t.index % BlockSize] = <<Owner, Number(Owner, t.index)>>

\* Every block is in the ring; and the destructor destroys the items that are left and nothing else.
BlocksAccounted ==
    /\ AddAt("idle") => InRing = 1..taken
    /\ AllIdle /\ Used => Destroyed = {<<b, i>> \in Block \X Cell : cells[b][i] # None}

=============================================================================

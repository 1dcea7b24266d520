--------------------------- MODULE BlockFreeList ---------------------------
(***************************************************************************)
(* The free list of the task queue's blocks, which has no lock.  A thread  *)
(* counts itself in at the head before it reads what comes next; a block   *)
(* that is given back while others still count on it is put on the list by *)
(* the last of them.                                                       *)
(***************************************************************************)
EXTENDS Integers, FiniteSets

CONSTANTS Thread, AllBlocks, None

ASSUME BlockAssumption == IsFiniteSet(Thread) /\ None \notin AllBlocks

VARIABLES
    head,   \* freeListHead
    refs,   \* of each block its freeListRefs: SHOULD_BE_ON_FREELIST and the count
    next,   \* freeListNext
    held,   \* the blocks in use, by the thread that has taken them
    pc, at  \* what each thread is about: its block, what it saw as head and as next

vars == <<head, refs, next, held, pc, at>>

\* Where a thread goes on, with which block, head and next block.
Goes(t, l, b, h, n) ==
    /\ pc' = [pc EXCEPT ![t] = l]
    /\ at' = [at EXCEPT ![t] = [block |-> b, head |-> h, next |-> n]]

Idle(t) == Goes(t, "idle", None, None, None)

\* The blocks that are met from h on by nxt: those of every set that goes along with it.
GoesAlong(S, h, nxt) ==
    /\ h # None => h \in S
    /\ \A b \in S : nxt[b] # None => nxt[b] \in S

ListFrom(h, nxt) == {b \in AllBlocks : \A S \in SUBSET AllBlocks : GoesAlong(S, h, nxt) => b \in S}

OnList == ListFrom(head, next)

\* The list is empty, and the blocks come from elsewhere: each is in use by one thread.
Init ==
    /\ head = None
    /\ refs = [b \in AllBlocks |-> [on |-> FALSE, n |-> 0]]
    /\ next = [b \in AllBlocks |-> None]
    /\ \E user \in [AllBlocks -> Thread] : held = [t \in Thread |-> {b \in AllBlocks : user[b] = t}]
    /\ pc = [t \in Thread |-> "idle"]
    /\ at = [t \in Thread |-> [block |-> None, head |-> None, next |-> None]]

-----------------------------------------------------------------------------
\* try_get().

TryGet(t) == pc[t] = "idle" /\ Goes(t, "load", None, None, None) /\ UNCHANGED <<head, refs, next, held>>

\* The head is read; of an empty list nothing is got.
Load(t) ==
    /\ pc[t] = "load"
    /\ IF head = None THEN Idle(t) ELSE Goes(t, "count", head, None, None)
    /\ UNCHANGED <<head, refs, next, held>>

\* Variant: a block that was taken off is counted in on, too.
CountInAnyway(t) == LET b == at[t].block IN
    /\ pc[t] = "count"
    /\ refs' = [refs EXCEPT ![b].n = @ + 1]
    /\ Goes(t, "next", b, None, None)
    /\ UNCHANGED <<head, next, held>>

\* Counts itself in, unless the block was just taken off or the count changed under its hands.
CountIn(t) == LET b == at[t].block IN
    /\ pc[t] = "count"
    /\ \/ Goes(t, "load", None, None, None) /\ UNCHANGED refs
       \/ /\ refs[b].n # 0
          /\ refs' = [refs EXCEPT ![b].n = @ + 1]
          /\ Goes(t, "next", b, None, None)
    /\ UNCHANGED <<head, next, held>>

ReadNext(t) ==
    /\ pc[t] = "next" /\ Goes(t, "swing", at[t].block, None, next[at[t].block])
    /\ UNCHANGED <<head, refs, next, held>>

\* The head moves on to what was next, or was another in the meantime.
Swing(t) == LET b == at[t].block IN
    /\ pc[t] = "swing"
    /\ IF head = b THEN head' = at[t].next /\ Goes(t, "got", b, None, None)
                   ELSE Goes(t, "leave", b, head, None) /\ UNCHANGED head
    /\ UNCHANGED <<refs, next, held>>

\* The list's reference and the thread's own are given up, and the block is the thread's.
Got(t) == LET b == at[t].block IN
    /\ pc[t] = "got"
    /\ refs' = [refs EXCEPT ![b].n = @ - 2]
    /\ held' = [held EXCEPT ![t] = @ \cup {b}]
    /\ Idle(t)
    /\ UNCHANGED <<head, next>>

\* Where try_get() goes on with head h.
GoesOnFrom(t, h) == IF h = None THEN Idle(t) ELSE Goes(t, "count", h, None, None)

\* Variant: that it was the last to count on the block is not looked at.
CountOutOnly(t) == LET b == at[t].block IN
    /\ pc[t] = "leave"
    /\ refs' = [refs EXCEPT ![b].n = @ - 1]
    /\ GoesOnFrom(t, at[t].head)
    /\ UNCHANGED <<head, next, held>>

\* Counts itself out; the last one puts a block on the list that should be there.
CountOut(t) == LET b == at[t].block IN
    /\ pc[t] = "leave"
    /\ refs' = [refs EXCEPT ![b].n = @ - 1]
    /\ IF refs[b] = [on |-> TRUE, n |-> 1] THEN Goes(t, "put", b, at[t].head, None)
                                           ELSE GoesOnFrom(t, at[t].head)
    /\ UNCHANGED <<head, next, held>>

-----------------------------------------------------------------------------
\* add() and add_knowing_refcount_is_zero(); in try_get(), at.head is what it goes on with.

\* A block in use is given back, often by another thread than took it: one that emptied it.
Add(t, u, b) ==
    /\ pc[t] = "idle" /\ b \in held[u]
    /\ held' = [held EXCEPT ![u] = @ \ {b}]
    /\ refs' = [refs EXCEPT ![b].on = TRUE]
    /\ IF refs[b] = [on |-> FALSE, n |-> 0] THEN Goes(t, "put", b, None, None) ELSE Idle(t)
    /\ UNCHANGED <<head, next>>

\* The head is read, to come after the block.
Put(t) ==
    /\ pc[t] = "put" /\ Goes(t, "link", at[t].block, at[t].head, head)
    /\ UNCHANGED <<head, refs, next, held>>

Link(t) == LET b == at[t].block IN
    /\ pc[t] = "link"
    /\ next' = [next EXCEPT ![b] = at[t].next]
    /\ Goes(t, "free", b, at[t].head, at[t].next)
    /\ UNCHANGED <<head, refs, held>>

\* The count is set to the list's reference: from here others can count themselves in.
SetCount(t) ==
    /\ pc[t] = "free"
    /\ refs' = [refs EXCEPT ![at[t].block] = [on |-> FALSE, n |-> 1]]
    /\ Goes(t, "push", at[t].block, at[t].head, at[t].next)
    /\ UNCHANGED <<head, next, held>>

Push(t) == LET b == at[t].block IN
    /\ pc[t] = "push"
    /\ IF head = at[t].next THEN head' = b /\ GoesOnFrom(t, at[t].head)
                            ELSE Goes(t, "unpush", b, at[t].head, head) /\ UNCHANGED head
    /\ UNCHANGED <<refs, next, held>>

\* The head was another: the reference is taken back, and if nobody counts on the block it is tried
\* again, else the last of them will.
Unpush(t) == LET b == at[t].block IN
    /\ pc[t] = "unpush"
    /\ refs' = [refs EXCEPT ![b] = [on |-> TRUE, n |-> @.n - 1]]
    /\ IF refs[b] = [on |-> FALSE, n |-> 1] THEN Goes(t, "link", b, at[t].head, at[t].next)
                                            ELSE GoesOnFrom(t, at[t].head)
    /\ UNCHANGED <<head, next, held>>

Next == \E t \in Thread :
    \/ TryGet(t) \/ Load(t) \/ CountIn(t) \/ ReadNext(t) \/ Swing(t) \/ Got(t) \/ CountOut(t)
    \/ (\E u \in Thread, b \in AllBlocks : Add(t, u, b)) \/ Put(t) \/ Link(t) \/ SetCount(t) \/ Push(t) \/ Unpush(t)

Spec == Init /\ [][Next]_vars

-----------------------------------------------------------------------------
\* A block is never in the hands of two threads, nor taken while it can be taken again: the head
\* that a thread moves to is still what came next, however often blocks left and came back since it
\* looked (no ABA).  When no thread is at it, every block is on the list or taken: one that was given
\* back while others counted on it did not fall between them.
BlocksApart ==
    /\ \A t \in Thread : held[t] \cap OnList = {}
    /\ \A t, u \in Thread : t # u => held[t] \cap held[u] = {}
    /\ \A t \in Thread : pc[t] = "got" =>
        ~refs[at[t].block].on /\ \A u \in Thread : at[t].block \notin held[u]
    /\ (\A t \in Thread : pc[t] = "idle") => OnList \cup UNION {held[t] : t \in Thread} = AllBlocks

=============================================================================

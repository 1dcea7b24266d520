------------------------ MODULE BlockFreeList_proofs ------------------------
(***************************************************************************)
(* Proofs about the free list, for any number of threads and blocks.       *)
(*                                                                         *)
(* A block's count says how many threads look at it, and one more while    *)
(* the list refers to it or is about to or just did (RefsInv); that is why *)
(* a thread that has counted itself in finds what came next unchanged, and *)
(* why the last of them is the only one to put the block back (PlaceInv).  *)
(***************************************************************************)
EXTENDS BlockFreeList, FiniteSetTheorems, TLAPS

BlockOrNone == AllBlocks \cup {None}

At == {"idle", "load", "count", "next", "swing", "got", "leave", "put", "link", "free", "push", "unpush"}

BlocksTyped ==
    /\ head \in BlockOrNone
    /\ refs \in [AllBlocks -> [on : BOOLEAN, n : Int]]
    /\ next \in [AllBlocks -> BlockOrNone]
    /\ held \in [Thread -> SUBSET AllBlocks]

ThreadsTyped ==
    /\ pc \in [Thread -> At]
    /\ at \in [Thread -> [block : BlockOrNone, head : BlockOrNone, next : BlockOrNone]]
    /\ \A t \in Thread : at[t].block = None <=> pc[t] \in {"idle", "load"}

TypeOK == BlocksTyped /\ ThreadsTyped

\* What a thread is to a block: it has counted itself in; it is about to put it on the list; it
\* has put its reference into the count for the list, or just taken it off.
Counts(t, b) == pc[t] \in {"next", "swing", "got", "leave"} /\ at[t].block = b
Puts(t, b) == pc[t] \in {"put", "link", "free"} /\ at[t].block = b
Carries(t, b) == pc[t] \in {"got", "push", "unpush"} /\ at[t].block = b

Count(b) == Cardinality({t \in Thread : Counts(t, b)})
Referred(b) == b \in OnList \/ \E t \in Thread : Carries(t, b)
Has(t, b) == b \in held[t] \/ Puts(t, b) \/ Carries(t, b)

\* A list in which no two blocks come before the same, and none before the head.
Straight(h, nxt) ==
    /\ \A b \in ListFrom(h, nxt) : nxt[b] # None => nxt[b] # h
    /\ \A b, c \in ListFrom(h, nxt) : nxt[b] = nxt[c] /\ nxt[b] # None => b = c

\* What came next is still what a thread saw when it moves the head.
ListInv ==
    /\ Straight(head, next)
    /\ \A t \in Thread : pc[t] \in {"swing", "free", "push"} => at[t].next = next[at[t].block]

\* A block is on the list, or one thread has it, or it is to be put there by the last that counts on it.
PlaceOK(b) ==
    /\ \A t \in Thread : Has(t, b) => b \notin OnList
    /\ \A t, u \in Thread : Has(t, b) /\ Has(u, b) => t = u
    /\ \A t \in Thread : b \in held[t] => ~Puts(t, b) /\ ~Carries(t, b)
    /\ b \in OnList \/ refs[b].on \/ \E t \in Thread : Has(t, b)
    /\ refs[b].on => b \notin OnList /\ \A t \in Thread : b \notin held[t] /\ ~Carries(t, b)

\* The count says how many count on it, and one more for the list.
RefsOK(b) ==
    /\ refs[b].n = Count(b) + (IF Referred(b) THEN 1 ELSE 0)
    /\ \A t \in Thread : Puts(t, b) => refs[b].on /\ refs[b].n = 0
    /\ refs[b].on /\ refs[b].n = 0 => \E t \in Thread : Puts(t, b)

PlaceInv == \A b \in AllBlocks : PlaceOK(b)
RefsInv == \A b \in AllBlocks : RefsOK(b)

FreeInv == TypeOK /\ ListInv /\ PlaceInv /\ RefsInv

-----------------------------------------------------------------------------
\* Lists.

LEMMA ListIs ==
    ASSUME NEW h \in BlockOrNone, NEW nxt \in [AllBlocks -> BlockOrNone]
    PROVE  /\ ListFrom(h, nxt) \subseteq AllBlocks
           /\ GoesAlong(ListFrom(h, nxt), h, nxt)
           /\ \A S \in SUBSET AllBlocks : GoesAlong(S, h, nxt) => ListFrom(h, nxt) \subseteq S
BY DEF ListFrom, GoesAlong, BlockOrNone

LEMMA EmptyList ==
    ASSUME NEW nxt \in [AllBlocks -> BlockOrNone]
    PROVE  ListFrom(None, nxt) = {} /\ Straight(None, nxt)
<1>1. GoesAlong({}, None, nxt)
  BY DEF GoesAlong
<1>2. ListFrom(None, nxt) = {}
  BY <1>1, ListIs DEF BlockOrNone
<1> QED BY <1>2 DEF Straight

\* The head is taken off.
LEMMA TakenOff ==
    ASSUME NEW h \in AllBlocks, NEW nxt \in [AllBlocks -> BlockOrNone], Straight(h, nxt)
    PROVE  /\ ListFrom(nxt[h], nxt) = ListFrom(h, nxt) \ {h}
           /\ h \in ListFrom(h, nxt)
           /\ Straight(nxt[h], nxt)
<1> DEFINE L == ListFrom(h, nxt)
           M == ListFrom(nxt[h], nxt)
<1>1. /\ L \subseteq AllBlocks /\ GoesAlong(L, h, nxt) /\ h \in BlockOrNone /\ nxt[h] \in BlockOrNone
      /\ \A S \in SUBSET AllBlocks : GoesAlong(S, h, nxt) => L \subseteq S
      /\ h # None
  BY ListIs, BlockAssumption DEF BlockOrNone
<1>2. /\ M \subseteq AllBlocks /\ GoesAlong(M, nxt[h], nxt)
      /\ \A S \in SUBSET AllBlocks : GoesAlong(S, nxt[h], nxt) => M \subseteq S
  BY <1>1, ListIs
<1>3. h \in L
  BY <1>1 DEF GoesAlong
<1>4. GoesAlong(M \cup {h}, h, nxt)
  BY <1>1, <1>2 DEF GoesAlong
<1>5. GoesAlong(L \ {h}, nxt[h], nxt)
  BY <1>1, <1>3 DEF GoesAlong, Straight
<1>6. M = L \ {h}
  <2>1. L \subseteq M \cup {h} /\ M \subseteq L \ {h}
    BY <1>1, <1>2, <1>4, <1>5
  <2>2. h \notin M
    BY <2>1
  <2> QED BY <2>1, <2>2
<1>7. Straight(nxt[h], nxt)
  BY <1>3, <1>6 DEF Straight
<1> QED BY <1>3, <1>6, <1>7

\* A block that comes before the head becomes the head.
LEMMA PutOn ==
    ASSUME NEW h \in BlockOrNone, NEW nxt \in [AllBlocks -> BlockOrNone], NEW b \in AllBlocks,
           Straight(h, nxt), b \notin ListFrom(h, nxt), nxt[b] = h
    PROVE  ListFrom(b, nxt) = ListFrom(h, nxt) \cup {b} /\ Straight(b, nxt)
<1> DEFINE L == ListFrom(h, nxt)
           M == ListFrom(b, nxt)
<1>1. /\ L \subseteq AllBlocks /\ GoesAlong(L, h, nxt) /\ b \in BlockOrNone /\ b # None
      /\ \A S \in SUBSET AllBlocks : GoesAlong(S, h, nxt) => L \subseteq S
  BY ListIs, BlockAssumption DEF BlockOrNone
<1>2. /\ M \subseteq AllBlocks /\ GoesAlong(M, b, nxt)
      /\ \A S \in SUBSET AllBlocks : GoesAlong(S, b, nxt) => M \subseteq S
  BY <1>1, ListIs
<1>3. GoesAlong(M, h, nxt) /\ b \in M
  BY <1>1, <1>2 DEF GoesAlong
<1>4. GoesAlong(L \cup {b}, b, nxt)
  BY <1>1 DEF GoesAlong
<1>5. M = L \cup {b}
  BY <1>1, <1>2, <1>3, <1>4
<1>6. Straight(b, nxt)
  <2>1. \A c \in L : nxt[c] # None => nxt[c] # b /\ nxt[c] # h
    BY <1>1 DEF GoesAlong, Straight
  <2>2. h # b
    BY <1>1 DEF GoesAlong
  <2> QED BY <1>5, <2>1, <2>2 DEF Straight
<1> QED BY <1>5, <1>6

\* What comes after a block that is not on the list is of no consequence.
LEMMA LinkedOff ==
    ASSUME NEW h \in BlockOrNone, NEW nxt \in [AllBlocks -> BlockOrNone],
           NEW b \in AllBlocks, NEW m \in [AllBlocks -> BlockOrNone], \A c \in AllBlocks \ {b} : m[c] = nxt[c],
           b \notin ListFrom(h, nxt), Straight(h, nxt)
    PROVE  ListFrom(h, m) = ListFrom(h, nxt) /\ Straight(h, m)
<1> DEFINE L == ListFrom(h, nxt)
           M == ListFrom(h, m)
<1>1. /\ L \subseteq AllBlocks /\ GoesAlong(L, h, nxt)
      /\ \A S \in SUBSET AllBlocks : GoesAlong(S, h, nxt) => L \subseteq S
  BY ListIs
<1>2. /\ M \subseteq AllBlocks /\ GoesAlong(M, h, m)
      /\ \A S \in SUBSET AllBlocks : GoesAlong(S, h, m) => M \subseteq S
  BY ListIs
<1>3. \A c \in L : m[c] = nxt[c]
  BY <1>1
<1>4. GoesAlong(L, h, m)
  BY <1>1, <1>3 DEF GoesAlong
<1>5. GoesAlong(M \cap L, h, nxt)
  BY <1>1, <1>2, <1>3 DEF GoesAlong
<1>6. M = L
  BY <1>1, <1>2, <1>4, <1>5
<1>7. Straight(h, m)
  BY <1>3, <1>6 DEF Straight
<1> QED BY <1>6, <1>7

-----------------------------------------------------------------------------
\* Threads.

\* A thread that goes on changes nobody else.
Others(t) == \A u \in Thread \ {t} : pc'[u] = pc[u] /\ at'[u] = at[u]

LEMMA OneGoes ==
    ASSUME ThreadsTyped, NEW t \in Thread, NEW l \in At \ {"idle", "load"}, NEW b \in AllBlocks,
           NEW h \in BlockOrNone, NEW n \in BlockOrNone, Goes(t, l, b, h, n)
    PROVE  /\ pc'[t] = l /\ at'[t].block = b /\ at'[t].head = h /\ at'[t].next = n
           /\ Others(t) /\ ThreadsTyped'
<1>1. /\ pc' = [pc EXCEPT ![t] = l]
      /\ at' = [at EXCEPT ![t] = [block |-> b, head |-> h, next |-> n]]
      /\ b # None /\ b \in BlockOrNone
  BY BlockAssumption DEF Goes, BlockOrNone
<1>2. /\ pc'[t] = l /\ at'[t] = [block |-> b, head |-> h, next |-> n]
      /\ \A u \in Thread \ {t} : pc'[u] = pc[u] /\ at'[u] = at[u]
  BY <1>1 DEF ThreadsTyped
<1>3. /\ pc' \in [Thread -> At]
      /\ at' \in [Thread -> [block : BlockOrNone, head : BlockOrNone, next : BlockOrNone]]
  BY <1>1 DEF ThreadsTyped
<1> QED BY <1>1, <1>2, <1>3 DEF ThreadsTyped, Others

\* Nor does one that has nothing in its hands.
LEMMA OneReturns ==
    ASSUME ThreadsTyped, NEW t \in Thread, NEW l \in {"idle", "load"}, Goes(t, l, None, None, None)
    PROVE  pc'[t] = l /\ Others(t) /\ ThreadsTyped'
<1>1. /\ pc' = [pc EXCEPT ![t] = l]
      /\ at' = [at EXCEPT ![t] = [block |-> None, head |-> None, next |-> None]]
      /\ None \in BlockOrNone /\ l \in At
  BY DEF Goes, BlockOrNone, At
<1>2. /\ pc'[t] = l /\ at'[t] = [block |-> None, head |-> None, next |-> None]
      /\ \A u \in Thread \ {t} : pc'[u] = pc[u] /\ at'[u] = at[u]
  BY <1>1 DEF ThreadsTyped
<1>3. /\ pc' \in [Thread -> At]
      /\ at' \in [Thread -> [block : BlockOrNone, head : BlockOrNone, next : BlockOrNone]]
  BY <1>1 DEF ThreadsTyped
<1> QED BY <1>2, <1>3 DEF ThreadsTyped, Others

\* Where try_get() goes on with a head, or ends.
LEMMA FromHead ==
    ASSUME ThreadsTyped, NEW t \in Thread, NEW h \in BlockOrNone, GoesOnFrom(t, h)
    PROVE  pc'[t] \in {"idle", "count"} /\ Others(t) /\ ThreadsTyped'
<1>1. CASE h = None
  BY <1>1, OneReturns DEF GoesOnFrom, Idle
<1>2. CASE h # None
  <2>1. Goes(t, "count", h, None, None) /\ h \in AllBlocks
    BY <1>2 DEF GoesOnFrom, BlockOrNone
  <2>2. "count" \in At \ {"idle", "load"} /\ None \in BlockOrNone
    BY DEF At, BlockOrNone
  <2> QED BY <2>1, <2>2, OneGoes
<1> QED BY <1>1, <1>2

LEMMA OthersStay ==
    ASSUME NEW t \in Thread, Others(t)
    PROVE  \A u \in Thread \ {t}, b \in AllBlocks :
              /\ Counts(u, b)' <=> Counts(u, b)
              /\ Puts(u, b)' <=> Puts(u, b)
              /\ Carries(u, b)' <=> Carries(u, b)
BY DEF Others, Counts, Puts, Carries

LEMMA Counted ==
    ASSUME NEW t \in Thread, NEW b \in AllBlocks, Others(t)
    PROVE  /\ Count(b) \in Nat /\ Count(b)' \in Nat
           /\ (Counts(t, b)' <=> Counts(t, b)) => Count(b)' = Count(b)
           /\ Counts(t, b)' /\ ~Counts(t, b) => Count(b)' = Count(b) + 1
           /\ ~Counts(t, b)' /\ Counts(t, b) => Count(b)' = Count(b) - 1
           /\ Counts(t, b) => Count(b) > 0
<1> DEFINE C == {u \in Thread : Counts(u, b)}
           D == {u \in Thread : Counts(u, b)'}
<1>1. IsFiniteSet(C) /\ IsFiniteSet(D)
  BY FS_Subset, BlockAssumption
<1>2. Count(b) = Cardinality(C) /\ Count(b)' = Cardinality(D)
  BY DEF Count
<1>3. \A u \in Thread \ {t} : Counts(u, b)' <=> Counts(u, b)
  BY OthersStay
<1>4. Cardinality(C) \in Nat /\ Cardinality(D) \in Nat
  BY <1>1, FS_CardinalityType
<1>5. (Counts(t, b)' <=> Counts(t, b)) => D = C
  BY <1>3
<1>6. ASSUME Counts(t, b)', ~Counts(t, b) PROVE Cardinality(D) = Cardinality(C) + 1
  <2>1. D = C \cup {t} /\ t \notin C
    BY <1>3, <1>6
  <2> QED BY <2>1, <1>1, FS_AddElement
<1>7. ASSUME ~Counts(t, b)', Counts(t, b) PROVE Cardinality(D) = Cardinality(C) - 1
  <2>1. D = C \ {t} /\ t \in C
    BY <1>3, <1>7
  <2> QED BY <2>1, <1>1, FS_RemoveElement
<1>8. ASSUME Counts(t, b) PROVE Cardinality(C) > 0
  <2>1. C # {}
    BY <1>8
  <2> QED BY <2>1, <1>1, <1>4, FS_EmptySet
<1> QED BY <1>2, <1>4, <1>5, <1>6, <1>7, <1>8

\* Nobody can count on a block whose count is none.
LEMMA NobodyCounts ==
    ASSUME NEW b \in AllBlocks, RefsInv, refs[b].n = 0
    PROVE  ~Referred(b) /\ \A t \in Thread : ~Counts(t, b)
<1>1. Count(b) \in Nat
  BY FS_Subset, FS_CardinalityType, BlockAssumption DEF Count
<1>2. refs[b].n = Count(b) + (IF Referred(b) THEN 1 ELSE 0)
  BY DEF RefsInv, RefsOK
<1>3. Count(b) = 0 /\ ~Referred(b)
  BY <1>1, <1>2
<1>4. {t \in Thread : Counts(t, b)} = {}
  BY <1>3, FS_Subset, FS_EmptySet, BlockAssumption DEF Count
<1> QED BY <1>3, <1>4

\* A step in which no thread's part in any block changes, and no block's place.
Quiet ==
    /\ \A t \in Thread, b \in AllBlocks :
          /\ Counts(t, b)' <=> Counts(t, b)
          /\ Puts(t, b)' <=> Puts(t, b)
          /\ Carries(t, b)' <=> Carries(t, b)
    /\ OnList' = OnList /\ UNCHANGED <<refs, held>>

LEMMA QuietKeeps ==
    ASSUME PlaceInv, RefsInv, Quiet
    PROVE  PlaceInv' /\ RefsInv'
<1>1. \A t \in Thread, b \in AllBlocks : Has(t, b)' <=> Has(t, b)
  BY DEF Quiet, Has
<1>2. \A b \in AllBlocks : Count(b)' = Count(b) /\ (Referred(b)' <=> Referred(b))
  <2> SUFFICES ASSUME NEW b \in AllBlocks PROVE Count(b)' = Count(b) /\ (Referred(b)' <=> Referred(b))
    OBVIOUS
  <2>1. {t \in Thread : Counts(t, b)} = {t \in Thread : Counts(t, b)'}
    BY DEF Quiet
  <2> QED BY <2>1 DEF Quiet, Count, Referred
<1>3. PlaceInv'
  BY <1>1 DEF PlaceInv, PlaceOK, Quiet
<1>4. RefsInv'
  BY <1>2 DEF RefsInv, RefsOK, Quiet
<1> QED BY <1>3, <1>4

LEMMA QuietGoes ==
    ASSUME NEW t \in Thread, Others(t), UNCHANGED <<refs, held>>, OnList' = OnList,
           \A b \in AllBlocks : /\ Counts(t, b)' <=> Counts(t, b)
                                /\ Puts(t, b)' <=> Puts(t, b)
                                /\ Carries(t, b)' <=> Carries(t, b)
    PROVE  Quiet
<1>1. \A u \in Thread \ {t}, b \in AllBlocks :
              /\ Counts(u, b)' <=> Counts(u, b)
              /\ Puts(u, b)' <=> Puts(u, b)
              /\ Carries(u, b)' <=> Carries(u, b)
  BY OthersStay
<1> QED BY <1>1 DEF Quiet

\* A step that is about one block.
LEMMA OneBlock ==
    ASSUME PlaceInv, RefsInv, NEW t \in Thread, Others(t), NEW b \in AllBlocks,
           PlaceOK(b)', RefsOK(b)',
           \A c \in AllBlocks \ {b} :
              /\ Counts(t, c)' <=> Counts(t, c)
              /\ Puts(t, c)' <=> Puts(t, c)
              /\ Carries(t, c)' <=> Carries(t, c)
              /\ c \in OnList' <=> c \in OnList
              /\ refs'[c] = refs[c]
              /\ \A u \in Thread : c \in held'[u] <=> c \in held[u]
    PROVE  PlaceInv' /\ RefsInv'
<1> SUFFICES ASSUME NEW c \in AllBlocks \ {b} PROVE PlaceOK(c)' /\ RefsOK(c)'
  BY DEF PlaceInv, RefsInv
<1>1. \A u \in Thread : /\ Counts(u, c)' <=> Counts(u, c)
                        /\ Puts(u, c)' <=> Puts(u, c)
                        /\ Carries(u, c)' <=> Carries(u, c)
  BY OthersStay
<1>2. /\ \A u \in Thread : Has(u, c)' <=> Has(u, c)
      /\ Referred(c)' <=> Referred(c)
      /\ Count(c)' = Count(c)
  <2>1. {u \in Thread : Counts(u, c)} = {u \in Thread : Counts(u, c)'}
    BY <1>1
  <2> QED BY <1>1, <2>1 DEF Has, Referred, Count
<1>3. PlaceOK(c) /\ RefsOK(c)
  BY DEF PlaceInv, RefsInv
<1>4. PlaceOK(c)'
  BY <1>1, <1>2, <1>3 DEF PlaceOK
<1>5. RefsOK(c)'
  BY <1>1, <1>2, <1>3 DEF RefsOK
<1> QED BY <1>4, <1>5

-----------------------------------------------------------------------------
\* The steps, one by one.  In each: where the thread goes, what that makes it to every block, and
\* then the parts of the invariant.

\* try_get() is called.
LEMMA TryGetKeeps == ASSUME FreeInv, NEW t \in Thread, TryGet(t) PROVE FreeInv'
<1>1. TypeOK /\ pc[t] = "idle" /\ UNCHANGED <<head, refs, next, held>>
      /\ Goes(t, "load", None, None, None)
  BY DEF FreeInv, TryGet
<1>2. pc'[t] = "load" /\ Others(t) /\ ThreadsTyped'
  BY <1>1, OneReturns DEF TypeOK
<1>3. Quiet
  <2>1. OnList' = OnList
    BY <1>1 DEF OnList
  <2> QED BY <1>1, <1>2, <2>1, QuietGoes DEF Counts, Puts, Carries
<1>4. ListInv'
  BY <1>1, <1>2 DEF FreeInv, ListInv, Others
<1>5. BlocksTyped'
  BY <1>1 DEF TypeOK, BlocksTyped
<1> QED BY <1>2, <1>3, <1>4, <1>5, QuietKeeps DEF FreeInv, TypeOK

LEMMA LoadKeeps == ASSUME FreeInv, NEW t \in Thread, Load(t) PROVE FreeInv'
<1>1. TypeOK /\ pc[t] = "load" /\ UNCHANGED <<head, refs, next, held>> /\ GoesOnFrom(t, head)
  BY DEF FreeInv, Load, GoesOnFrom
<1>2. pc'[t] \in {"idle", "count"} /\ Others(t) /\ ThreadsTyped'
  BY <1>1, FromHead DEF TypeOK, BlocksTyped
<1>3. Quiet
  <2>1. OnList' = OnList
    BY <1>1 DEF OnList
  <2> QED BY <1>1, <1>2, <2>1, QuietGoes DEF Counts, Puts, Carries
<1>4. ListInv'
  BY <1>1, <1>2 DEF FreeInv, ListInv, Others
<1>5. BlocksTyped'
  BY <1>1 DEF TypeOK, BlocksTyped
<1> QED BY <1>2, <1>3, <1>4, <1>5, QuietKeeps DEF FreeInv, TypeOK

\* The thread is counted in, where there is a count: so not on a block that is about to be put.
LEMMA CountInKeeps ==
    ASSUME FreeInv, NEW t \in Thread, CountIn(t), NEW b \in AllBlocks, at[t].block = b
    PROVE  FreeInv'
<1>1. /\ BlocksTyped /\ ThreadsTyped /\ ListInv /\ PlaceInv /\ RefsInv
      /\ pc[t] = "count" /\ UNCHANGED <<head, next, held>>
      /\ None \in BlockOrNone /\ OnList' = OnList
  BY DEF FreeInv, TypeOK, CountIn, BlockOrNone, OnList
<1>2. CASE Goes(t, "load", None, None, None) /\ UNCHANGED refs
  <2>1. pc'[t] = "load" /\ Others(t) /\ ThreadsTyped'
    BY <1>1, <1>2, OneReturns
  <2>2. Quiet
    BY <1>1, <1>2, <2>1, QuietGoes DEF Counts, Puts, Carries
  <2>3. ListInv'
    BY <1>1, <2>1 DEF ListInv, Others
  <2>4. BlocksTyped'
    BY <1>1, <1>2 DEF BlocksTyped
  <2> QED BY <1>1, <2>1, <2>2, <2>3, <2>4, QuietKeeps DEF FreeInv, TypeOK
<1>3. CASE /\ refs[b].n # 0
           /\ refs' = [refs EXCEPT ![b].n = @ + 1]
           /\ Goes(t, "next", b, None, None)
  <2>1. /\ refs'[b].on = refs[b].on /\ refs'[b].n = refs[b].n + 1
        /\ \A c \in AllBlocks \ {b} : refs'[c] = refs[c]
        /\ BlocksTyped'
    BY <1>1, <1>3 DEF BlocksTyped
  <2>2. pc'[t] = "next" /\ at'[t].block = b /\ Others(t) /\ ThreadsTyped'
    <3>1. "next" \in At \ {"idle", "load"}
      BY DEF At
    <3> QED BY <1>1, <1>3, <3>1, OneGoes
  <2>3. \A c \in AllBlocks : /\ Counts(t, c)' <=> c = b
                             /\ ~Puts(t, c)' /\ ~Carries(t, c)'
                             /\ ~Counts(t, c) /\ ~Puts(t, c) /\ ~Carries(t, c)
    BY <1>1, <2>2 DEF Counts, Puts, Carries
  <2>4. \A u \in Thread : /\ Puts(u, b)' <=> Puts(u, b)
                          /\ Carries(u, b)' <=> Carries(u, b)
                          /\ Has(u, b)' <=> Has(u, b)
    BY <1>1, <2>2, <2>3, OthersStay DEF Has
  <2>5. Count(b)' = Count(b) + 1 /\ Count(b) \in Nat
    BY <2>2, <2>3, Counted
  <2>6. PlaceOK(b)'
    BY <1>1, <2>1, <2>4 DEF PlaceOK, PlaceInv
  <2>7. RefsOK(b)'
    <3>1. Referred(b)' <=> Referred(b)
      BY <1>1, <2>4 DEF Referred
    <3> QED BY <1>1, <1>3, <2>1, <2>4, <2>5, <3>1 DEF RefsOK, RefsInv
  <2>8. PlaceInv' /\ RefsInv'
    BY <1>1, <2>1, <2>2, <2>3, <2>6, <2>7, OneBlock
  <2>9. ListInv'
    BY <1>1, <2>2 DEF ListInv, Others
  <2> QED BY <2>1, <2>2, <2>8, <2>9 DEF FreeInv, TypeOK
<1> QED BY <1>2, <1>3 DEF CountIn

\* What comes next is read, and stays so: the block has no owner while it is counted on.
LEMMA ReadNextKeeps ==
    ASSUME FreeInv, NEW t \in Thread, ReadNext(t), NEW b \in AllBlocks, at[t].block = b
    PROVE  FreeInv'
<1>1. /\ BlocksTyped /\ ThreadsTyped /\ ListInv /\ PlaceInv /\ RefsInv
      /\ pc[t] = "next" /\ UNCHANGED <<head, refs, next, held>>
      /\ Goes(t, "swing", b, None, next[b]) /\ OnList' = OnList
  BY DEF FreeInv, TypeOK, ReadNext, OnList
<1>2. pc'[t] = "swing" /\ at'[t].block = b /\ at'[t].next = next[b] /\ Others(t) /\ ThreadsTyped'
  <2>1. "swing" \in At \ {"idle", "load"} /\ None \in BlockOrNone /\ next[b] \in BlockOrNone
    BY <1>1 DEF At, BlockOrNone, BlocksTyped
  <2> QED BY <1>1, <2>1, OneGoes
<1>3. Quiet
  BY <1>1, <1>2, QuietGoes DEF Counts, Puts, Carries
<1>4. ListInv'
  BY <1>1, <1>2 DEF ListInv, Others
<1>5. BlocksTyped'
  BY <1>1 DEF BlocksTyped
<1> QED BY <1>1, <1>2, <1>3, <1>4, <1>5, QuietKeeps DEF FreeInv, TypeOK

\* The head moves to what came next, which it still is; or the thread will count itself out.
LEMMA SwingKeeps ==
    ASSUME FreeInv, NEW t \in Thread, Swing(t), NEW b \in AllBlocks, at[t].block = b
    PROVE  FreeInv'
<1>1. /\ BlocksTyped /\ ThreadsTyped /\ ListInv /\ PlaceInv /\ RefsInv
      /\ pc[t] = "swing" /\ UNCHANGED <<refs, next, held>>
      /\ next \in [AllBlocks -> BlockOrNone] /\ next[b] \in BlockOrNone
      /\ head \in BlockOrNone /\ None \in BlockOrNone /\ at[t].next = next[b]
  BY DEF FreeInv, TypeOK, Swing, BlocksTyped, BlockOrNone, ListInv
<1>2. CASE head # b
  <2>1. Goes(t, "leave", b, head, None) /\ UNCHANGED head
    BY <1>2 DEF Swing
  <2>2. pc'[t] = "leave" /\ at'[t].block = b /\ Others(t) /\ ThreadsTyped'
    <3>1. "leave" \in At \ {"idle", "load"}
      BY DEF At
    <3> QED BY <1>1, <2>1, <3>1, OneGoes
  <2>3. Quiet
    <3>1. OnList' = OnList
      BY <1>1, <2>1 DEF OnList
    <3> QED BY <1>1, <2>2, <3>1, QuietGoes DEF Counts, Puts, Carries
  <2>4. ListInv'
    BY <1>1, <2>1, <2>2 DEF ListInv, Others
  <2>5. BlocksTyped'
    BY <1>1, <2>1 DEF BlocksTyped
  <2> QED BY <1>1, <2>2, <2>3, <2>4, <2>5, QuietKeeps DEF FreeInv, TypeOK
<1>3. CASE head = b
  <2>1. head' = next[b] /\ Goes(t, "got", b, None, None)
    BY <1>1, <1>3 DEF Swing
  <2>2. pc'[t] = "got" /\ at'[t].block = b /\ Others(t) /\ ThreadsTyped'
    <3>1. "got" \in At \ {"idle", "load"}
      BY DEF At
    <3> QED BY <1>1, <2>1, <3>1, OneGoes
  <2>3. b \in OnList /\ OnList' = OnList \ {b} /\ Straight(head', next')
    BY <1>1, <1>3, <2>1, TakenOff DEF OnList, ListInv
  <2>4. \A c \in AllBlocks : /\ Counts(t, c)' <=> Counts(t, c)
                             /\ Puts(t, c)' <=> Puts(t, c)
                             /\ Carries(t, c)' <=> c = b
                             /\ ~Puts(t, c) /\ ~Carries(t, c)
    BY <1>1, <2>2 DEF Counts, Puts, Carries
  <2>5. /\ \A u \in Thread : ~Has(u, b)
        /\ ~refs[b].on
    BY <1>1, <2>3 DEF PlaceInv, PlaceOK
  <2>6. /\ \A u \in Thread \ {t} : ~Has(u, b)' /\ ~Carries(u, b)' /\ ~Puts(u, b)'
        /\ Has(t, b)' /\ Carries(t, b)' /\ ~Puts(t, b)' /\ b \notin held'[t]
    BY <1>1, <2>2, <2>4, <2>5, OthersStay DEF Has
  <2>7. PlaceOK(b)'
    BY <1>1, <2>3, <2>5, <2>6 DEF PlaceOK, Has
  <2>8. RefsOK(b)'
    <3>1. Count(b)' = Count(b)
      BY <2>2, <2>4, Counted
    <3>2. Referred(b) /\ Referred(b)'
      BY <2>3, <2>6 DEF Referred
    <3> QED BY <1>1, <2>5, <2>6, <3>1, <3>2 DEF RefsOK, RefsInv
  <2>9. PlaceInv' /\ RefsInv'
    BY <1>1, <2>2, <2>3, <2>4, <2>7, <2>8, OneBlock
  <2>10. ListInv'
    BY <1>1, <2>2, <2>3 DEF ListInv, Others
  <2>11. BlocksTyped'
    BY <1>1, <2>1 DEF BlocksTyped
  <2> QED BY <2>2, <2>9, <2>10, <2>11 DEF FreeInv, TypeOK
<1> QED BY <1>2, <1>3

\* The list's count and the thread's own are given up at once.
LEMMA GotKeeps ==
    ASSUME FreeInv, NEW t \in Thread, Got(t), NEW b \in AllBlocks, at[t].block = b
    PROVE  FreeInv'
<1>1. /\ BlocksTyped /\ ThreadsTyped /\ ListInv /\ PlaceInv /\ RefsInv
      /\ pc[t] = "got" /\ UNCHANGED <<head, next>> /\ OnList' = OnList
      /\ refs' = [refs EXCEPT ![b].n = @ - 2]
      /\ held' = [held EXCEPT ![t] = @ \cup {b}]
      /\ Goes(t, "idle", None, None, None)
  BY DEF FreeInv, TypeOK, Got, OnList, Idle
<1>2. pc'[t] = "idle" /\ Others(t) /\ ThreadsTyped'
  BY <1>1, OneReturns
<1>3. /\ refs'[b].on = refs[b].on /\ refs'[b].n = refs[b].n - 2
      /\ \A c \in AllBlocks \ {b} : refs'[c] = refs[c]
      /\ held'[t] = held[t] \cup {b}
      /\ \A u \in Thread \ {t} : held'[u] = held[u]
      /\ BlocksTyped'
  BY <1>1 DEF BlocksTyped
<1>4. \A c \in AllBlocks : /\ Counts(t, c) <=> c = b
                           /\ Carries(t, c) <=> c = b
                           /\ ~Puts(t, c)
                           /\ ~Counts(t, c)' /\ ~Puts(t, c)' /\ ~Carries(t, c)'
  BY <1>1, <1>2 DEF Counts, Puts, Carries
<1>5. /\ b \notin OnList /\ ~refs[b].on
      /\ \A u \in Thread \ {t} : ~Has(u, b)
  BY <1>1, <1>4 DEF PlaceInv, PlaceOK, Has
<1>6. /\ \A u \in Thread \ {t} : ~Has(u, b)'
      /\ \A u \in Thread : ~Carries(u, b)' /\ ~Puts(u, b)'
      /\ Has(t, b)'
  BY <1>2, <1>3, <1>4, <1>5, OthersStay DEF Has
<1>7. PlaceOK(b)'
  BY <1>1, <1>3, <1>5, <1>6 DEF PlaceOK
<1>8. RefsOK(b)'
  <2>1. Count(b)' = Count(b) - 1
    BY <1>2, <1>4, Counted
  <2>2. Referred(b) /\ ~Referred(b)'
    BY <1>1, <1>4, <1>5, <1>6 DEF Referred
  <2>3. refs[b].n = Count(b) + 1 /\ Count(b) \in Nat
    BY <1>1, <1>2, <2>2, Counted DEF RefsInv, RefsOK
  <2> QED BY <1>3, <1>5, <1>6, <2>1, <2>2, <2>3 DEF RefsOK
<1>9. PlaceInv' /\ RefsInv'
  BY <1>1, <1>2, <1>3, <1>4, <1>7, <1>8, OneBlock
<1>10. ListInv'
  BY <1>1, <1>2 DEF ListInv, Others
<1> QED BY <1>2, <1>3, <1>9, <1>10 DEF FreeInv, TypeOK

\* The thread counts itself out; if it was the last on a block that should be on the list, it is the
\* one that puts it there.
LEMMA CountOutKeeps ==
    ASSUME FreeInv, NEW t \in Thread, CountOut(t), NEW b \in AllBlocks, at[t].block = b
    PROVE  FreeInv'
<1>1. /\ BlocksTyped /\ ThreadsTyped /\ ListInv /\ PlaceInv /\ RefsInv
      /\ pc[t] = "leave" /\ UNCHANGED <<head, next, held>> /\ OnList' = OnList
      /\ refs' = [refs EXCEPT ![b].n = @ - 1]
      /\ at[t].head \in BlockOrNone /\ None \in BlockOrNone
  BY DEF FreeInv, TypeOK, CountOut, OnList, ThreadsTyped, BlockOrNone
<1>2. /\ refs'[b].on = refs[b].on /\ refs'[b].n = refs[b].n - 1
      /\ \A c \in AllBlocks \ {b} : refs'[c] = refs[c]
      /\ refs[b].on \in BOOLEAN /\ refs[b] = [on |-> refs[b].on, n |-> refs[b].n]
      /\ BlocksTyped'
  BY <1>1 DEF BlocksTyped
<1>3. \A c \in AllBlocks : /\ Counts(t, c) <=> c = b
                           /\ ~Puts(t, c) /\ ~Carries(t, c)
  BY <1>1 DEF Counts, Puts, Carries
<1>4. CASE refs[b] = [on |-> TRUE, n |-> 1]
  <2>1. Goes(t, "put", b, at[t].head, None)
    BY <1>4 DEF CountOut
  <2>2. pc'[t] = "put" /\ at'[t].block = b /\ Others(t) /\ ThreadsTyped'
    <3>1. "put" \in At \ {"idle", "load"}
      BY DEF At
    <3> QED BY <1>1, <2>1, <3>1, OneGoes
  <2>3. \A c \in AllBlocks : /\ ~Counts(t, c)' /\ ~Carries(t, c)'
                             /\ Puts(t, c)' <=> c = b
    BY <2>2 DEF Counts, Puts, Carries
  <2>4. /\ refs[b].on /\ refs[b].n = 1 /\ refs'[b].on /\ refs'[b].n = 0
        /\ b \notin OnList
        /\ \A u \in Thread : ~Has(u, b) /\ ~Carries(u, b) /\ ~Puts(u, b) /\ b \notin held[u]
    <3>1. refs[b].on /\ refs[b].n = 1 /\ refs'[b].on /\ refs'[b].n = 0
      BY <1>2, <1>4
    <3> QED BY <1>1, <3>1 DEF PlaceInv, PlaceOK, RefsInv, RefsOK, Has
  <2>5. /\ \A u \in Thread \ {t} : ~Has(u, b)' /\ ~Carries(u, b)' /\ ~Puts(u, b)' /\ b \notin held'[u]
        /\ Has(t, b)' /\ Puts(t, b)' /\ ~Carries(t, b)' /\ b \notin held'[t]
    BY <1>1, <2>2, <2>3, <2>4, OthersStay DEF Has
  <2>6. PlaceOK(b)'
    BY <1>1, <2>4, <2>5 DEF PlaceOK
  <2>7. RefsOK(b)'
    <3>1. Count(b)' = Count(b) - 1 /\ Count(b) \in Nat
      BY <1>3, <2>2, <2>3, Counted
    <3>2. ~Referred(b) /\ ~Referred(b)'
      BY <1>1, <2>4, <2>5 DEF Referred
    <3>3. Count(b) = 1
      BY <1>1, <2>4, <3>1, <3>2 DEF RefsInv, RefsOK
    <3> QED BY <2>4, <2>5, <3>1, <3>2, <3>3 DEF RefsOK
  <2>8. PlaceInv' /\ RefsInv'
    BY <1>1, <1>2, <1>3, <2>2, <2>3, <2>6, <2>7, OneBlock
  <2>9. ListInv'
    BY <1>1, <2>2 DEF ListInv, Others
  <2> QED BY <1>2, <2>2, <2>8, <2>9 DEF FreeInv, TypeOK
<1>5. CASE refs[b] # [on |-> TRUE, n |-> 1]
  <2>1. GoesOnFrom(t, at[t].head)
    BY <1>5 DEF CountOut
  <2>2. pc'[t] \in {"idle", "count"} /\ Others(t) /\ ThreadsTyped'
    BY <1>1, <2>1, FromHead
  <2>3. \A c \in AllBlocks : ~Counts(t, c)' /\ ~Carries(t, c)' /\ ~Puts(t, c)'
    BY <2>2 DEF Counts, Puts, Carries
  <2>4. \A u \in Thread : /\ Puts(u, b)' <=> Puts(u, b)
                          /\ Carries(u, b)' <=> Carries(u, b)
                          /\ Has(u, b)' <=> Has(u, b)
    BY <1>1, <1>3, <2>2, <2>3, OthersStay DEF Has
  <2>5. PlaceOK(b)'
    BY <1>1, <1>2, <2>4 DEF PlaceOK, PlaceInv
  <2>6. RefsOK(b)'
    <3>1. Count(b)' = Count(b) - 1 /\ Count(b) > 0 /\ Count(b) \in Nat
      BY <1>3, <2>2, <2>3, Counted
    <3>2. Referred(b)' <=> Referred(b)
      BY <1>1, <2>4 DEF Referred
    <3>3. refs[b].on => refs[b].n # 1
      BY <1>2, <1>5
    <3>4. \A u \in Thread : ~Puts(u, b)
      BY <1>1, <3>1 DEF RefsInv, RefsOK
    <3> QED BY <1>1, <1>2, <2>4, <3>1, <3>2, <3>3, <3>4 DEF RefsOK, RefsInv
  <2>7. PlaceInv' /\ RefsInv'
    BY <1>1, <1>2, <1>3, <2>2, <2>3, <2>5, <2>6, OneBlock
  <2>8. ListInv'
    BY <1>1, <2>2 DEF ListInv, Others
  <2> QED BY <1>2, <2>2, <2>7, <2>8 DEF FreeInv, TypeOK
<1> QED BY <1>4, <1>5

\* A block is given back: at once, if nobody counts on it.
LEMMA AddKeeps ==
    ASSUME FreeInv, NEW t \in Thread, NEW v \in Thread, NEW b \in AllBlocks, Add(t, v, b)
    PROVE  FreeInv'
<1>1. /\ BlocksTyped /\ ThreadsTyped /\ ListInv /\ PlaceInv /\ RefsInv
      /\ pc[t] = "idle" /\ UNCHANGED <<head, next>> /\ OnList' = OnList
      /\ refs' = [refs EXCEPT ![b].on = TRUE]
      /\ held' = [held EXCEPT ![v] = @ \ {b}]
      /\ b \in held[v] /\ None \in BlockOrNone
  BY DEF FreeInv, TypeOK, Add, OnList, BlockOrNone
<1>2. /\ refs'[b].on /\ refs'[b].n = refs[b].n
      /\ \A c \in AllBlocks \ {b} : refs'[c] = refs[c]
      /\ held'[v] = held[v] \ {b}
      /\ \A u \in Thread \ {v} : held'[u] = held[u]
      /\ refs[b].on \in BOOLEAN /\ refs[b] = [on |-> refs[b].on, n |-> refs[b].n]
      /\ BlocksTyped'
  BY <1>1 DEF BlocksTyped
<1>3. \A c \in AllBlocks : ~Counts(t, c) /\ ~Puts(t, c) /\ ~Carries(t, c)
  BY <1>1 DEF Counts, Puts, Carries
<1>4. /\ b \notin OnList /\ ~refs[b].on
      /\ \A u \in Thread : ~Carries(u, b) /\ ~Puts(u, b)
      /\ \A u \in Thread : b \notin held'[u]
  BY <1>1, <1>2 DEF PlaceInv, PlaceOK, Has
<1>5. \A c \in AllBlocks \ {b} : \A u \in Thread : c \in held'[u] <=> c \in held[u]
  BY <1>2
<1>6. ~Referred(b)
  BY <1>4 DEF Referred
<1>7. CASE refs[b] = [on |-> FALSE, n |-> 0]
  <2>1. Goes(t, "put", b, None, None) /\ refs[b].n = 0
    BY <1>7 DEF Add
  <2>2. pc'[t] = "put" /\ at'[t].block = b /\ Others(t) /\ ThreadsTyped'
    <3>1. "put" \in At \ {"idle", "load"}
      BY DEF At
    <3> QED BY <1>1, <2>1, <3>1, OneGoes
  <2>3. \A c \in AllBlocks : /\ ~Counts(t, c)' /\ ~Carries(t, c)'
                             /\ Puts(t, c)' <=> c = b
    BY <2>2 DEF Counts, Puts, Carries
  <2>4. \A u \in Thread : /\ ~Carries(u, b)'
                          /\ Puts(u, b)' <=> u = t
                          /\ Has(u, b)' <=> u = t
    BY <1>4, <2>2, <2>3, OthersStay DEF Has
  <2>5. PlaceOK(b)'
    BY <1>1, <1>2, <1>4, <2>4 DEF PlaceOK
  <2>6. RefsOK(b)'
    <3>1. Count(b)' = Count(b)
      BY <1>3, <2>2, <2>3, Counted
    <3>2. ~Referred(b)'
      BY <1>1, <1>4, <2>4 DEF Referred
    <3> QED BY <1>1, <1>2, <1>6, <2>1, <2>4, <3>1, <3>2 DEF RefsOK, RefsInv
  <2>7. PlaceInv' /\ RefsInv'
    BY <1>1, <1>2, <1>3, <1>5, <2>2, <2>3, <2>5, <2>6, OneBlock
  <2>8. ListInv'
    BY <1>1, <2>2 DEF ListInv, Others
  <2> QED BY <1>2, <2>2, <2>7, <2>8 DEF FreeInv, TypeOK
<1>8. CASE refs[b] # [on |-> FALSE, n |-> 0]
  <2>1. Goes(t, "idle", None, None, None)
    BY <1>8 DEF Add, Idle
  <2>2. pc'[t] = "idle" /\ Others(t) /\ ThreadsTyped'
    BY <1>1, <2>1, OneReturns
  <2>3. \A c \in AllBlocks : ~Counts(t, c)' /\ ~Carries(t, c)' /\ ~Puts(t, c)'
    BY <2>2 DEF Counts, Puts, Carries
  <2>4. \A u \in Thread : ~Carries(u, b)' /\ ~Puts(u, b)' /\ ~Has(u, b)'
    BY <1>4, <2>2, <2>3, OthersStay DEF Has
  <2>5. PlaceOK(b)'
    BY <1>1, <1>2, <1>4, <2>4 DEF PlaceOK
  <2>6. RefsOK(b)'
    <3>1. Count(b)' = Count(b)
      BY <1>3, <2>2, <2>3, Counted
    <3>2. ~Referred(b)'
      BY <1>1, <1>4, <2>4 DEF Referred
    <3>3. refs[b].n # 0
      BY <1>2, <1>4, <1>8
    <3> QED BY <1>1, <1>2, <1>6, <2>4, <3>1, <3>2, <3>3 DEF RefsOK, RefsInv
  <2>7. PlaceInv' /\ RefsInv'
    BY <1>1, <1>2, <1>3, <1>5, <2>2, <2>3, <2>5, <2>6, OneBlock
  <2>8. ListInv'
    BY <1>1, <2>2 DEF ListInv, Others
  <2> QED BY <1>2, <2>2, <2>7, <2>8 DEF FreeInv, TypeOK
<1> QED BY <1>7, <1>8

\* The head is read, to come after the block.
LEMMA PutKeeps ==
    ASSUME FreeInv, NEW t \in Thread, Put(t), NEW b \in AllBlocks, at[t].block = b
    PROVE  FreeInv'
<1>1. /\ BlocksTyped /\ ThreadsTyped /\ ListInv /\ PlaceInv /\ RefsInv
      /\ pc[t] = "put" /\ UNCHANGED <<head, refs, next, held>> /\ OnList' = OnList
      /\ Goes(t, "link", b, at[t].head, head)
  BY DEF FreeInv, TypeOK, Put, OnList
<1>2. pc'[t] = "link" /\ at'[t].block = b /\ Others(t) /\ ThreadsTyped'
  <2>1. "link" \in At \ {"idle", "load"} /\ head \in BlockOrNone /\ at[t].head \in BlockOrNone
    BY <1>1 DEF At, BlocksTyped, ThreadsTyped
  <2> QED BY <1>1, <2>1, OneGoes
<1>3. Quiet
  BY <1>1, <1>2, QuietGoes DEF Counts, Puts, Carries
<1>4. ListInv'
  BY <1>1, <1>2 DEF ListInv, Others
<1>5. BlocksTyped'
  BY <1>1 DEF BlocksTyped
<1> QED BY <1>1, <1>2, <1>3, <1>4, <1>5, QuietKeeps DEF FreeInv, TypeOK

\* What comes next is written while nobody counts on the block, so nobody has read it.
LEMMA LinkKeeps ==
    ASSUME FreeInv, NEW t \in Thread, Link(t), NEW b \in AllBlocks, at[t].block = b
    PROVE  FreeInv'
<1>1. /\ BlocksTyped /\ ThreadsTyped /\ ListInv /\ PlaceInv /\ RefsInv
      /\ pc[t] = "link" /\ UNCHANGED <<head, refs, held>>
      /\ next' = [next EXCEPT ![b] = at[t].next]
      /\ Goes(t, "free", b, at[t].head, at[t].next)
  BY DEF FreeInv, TypeOK, Link
<1>2. /\ at[t].next \in BlockOrNone /\ at[t].head \in BlockOrNone
      /\ head \in BlockOrNone /\ next \in [AllBlocks -> BlockOrNone]
  BY <1>1 DEF BlocksTyped, ThreadsTyped
<1>3. /\ pc'[t] = "free" /\ at'[t].block = b /\ at'[t].next = at[t].next
      /\ Others(t) /\ ThreadsTyped'
  <2>1. "free" \in At \ {"idle", "load"}
    BY DEF At
  <2> QED BY <1>1, <1>2, <2>1, OneGoes
<1>4. Puts(t, b) /\ Has(t, b)
  BY <1>1 DEF Puts, Has
<1>5. /\ b \notin OnList
      /\ \A u \in Thread : Has(u, b) => u = t
      /\ \A u \in Thread : ~Counts(u, b)
  BY <1>1, <1>4, NobodyCounts DEF PlaceInv, PlaceOK, RefsInv, RefsOK
<1>6. OnList' = OnList /\ Straight(head', next')
  <2>1. b \notin ListFrom(head, next) /\ Straight(head, next)
    BY <1>1, <1>5 DEF OnList, ListInv
  <2>2. next' \in [AllBlocks -> BlockOrNone] /\ \A c \in AllBlocks \ {b} : next'[c] = next[c]
    BY <1>1, <1>2
  <2>3. ListFrom(head, next') = ListFrom(head, next) /\ Straight(head, next')
    BY <1>2, <2>1, <2>2, LinkedOff
  <2> QED BY <1>1, <2>3 DEF OnList
<1>7. Quiet
  BY <1>1, <1>3, <1>6, QuietGoes DEF Counts, Puts, Carries
<1>8. \A u \in Thread : pc'[u] \in {"swing", "free", "push"} => at'[u].next = next'[at'[u].block]
  <2>1. next'[b] = at[t].next /\ \A c \in AllBlocks \ {b} : next'[c] = next[c]
    BY <1>1, <1>2
  <2> SUFFICES ASSUME NEW u \in Thread, pc'[u] \in {"swing", "free", "push"}
               PROVE  at'[u].next = next'[at'[u].block]
    OBVIOUS
  <2>2. CASE u = t
    BY <1>3, <2>1, <2>2
  <2>3. CASE u # t
    <3>1. pc'[u] = pc[u] /\ at'[u] = at[u]
      BY <1>3, <2>3 DEF Others
    <3>2. at[u].next = next[at[u].block]
      BY <1>1, <3>1 DEF ListInv
    <3>3. at[u].block \in AllBlocks
      BY <1>1, <3>1 DEF ThreadsTyped, BlockOrNone
    <3>4. at[u].block # b
      BY <1>5, <2>3, <3>1 DEF Counts, Has, Puts, Carries
    <3> QED BY <2>1, <3>1, <3>2, <3>3, <3>4
  <2> QED BY <2>2, <2>3
<1>9. ListInv'
  BY <1>6, <1>8 DEF ListInv
<1>10. BlocksTyped'
  BY <1>1, <1>2 DEF BlocksTyped
<1> QED BY <1>1, <1>3, <1>7, <1>9, <1>10, QuietKeeps DEF FreeInv, TypeOK

\* The count says from here that the list refers to the block, and others can count themselves in.
LEMMA SetCountKeeps ==
    ASSUME FreeInv, NEW t \in Thread, SetCount(t), NEW b \in AllBlocks, at[t].block = b
    PROVE  FreeInv'
<1>1. /\ BlocksTyped /\ ThreadsTyped /\ ListInv /\ PlaceInv /\ RefsInv
      /\ pc[t] = "free" /\ UNCHANGED <<head, next, held>> /\ OnList' = OnList
      /\ refs' = [refs EXCEPT ![b] = [on |-> FALSE, n |-> 1]]
      /\ Goes(t, "push", b, at[t].head, at[t].next)
      /\ at[t].next = next[b]
  BY DEF FreeInv, TypeOK, SetCount, OnList, ListInv
<1>2. /\ ~refs'[b].on /\ refs'[b].n = 1
      /\ \A c \in AllBlocks \ {b} : refs'[c] = refs[c]
      /\ BlocksTyped'
  BY <1>1 DEF BlocksTyped
<1>3. /\ pc'[t] = "push" /\ at'[t].block = b /\ at'[t].next = next[b]
      /\ Others(t) /\ ThreadsTyped'
  <2>1. /\ "push" \in At \ {"idle", "load"}
        /\ at[t].next \in BlockOrNone /\ at[t].head \in BlockOrNone
    BY <1>1 DEF At, ThreadsTyped
  <2> QED BY <1>1, <2>1, OneGoes
<1>4. \A c \in AllBlocks : /\ ~Counts(t, c) /\ ~Carries(t, c)
                           /\ Puts(t, c) <=> c = b
                           /\ ~Counts(t, c)' /\ ~Puts(t, c)'
                           /\ Carries(t, c)' <=> c = b
  BY <1>1, <1>3 DEF Counts, Puts, Carries
<1>5. /\ b \notin OnList /\ refs[b].n = 0 /\ b \notin held[t]
      /\ \A u \in Thread \ {t} : ~Has(u, b)
      /\ ~Referred(b)
  BY <1>1, <1>4, NobodyCounts DEF PlaceInv, PlaceOK, RefsInv, RefsOK, Has
<1>6. /\ \A u \in Thread \ {t} : ~Has(u, b)' /\ ~Puts(u, b)' /\ ~Carries(u, b)'
      /\ Has(t, b)' /\ Carries(t, b)' /\ ~Puts(t, b)' /\ b \notin held'[t]
  BY <1>1, <1>3, <1>4, <1>5, OthersStay DEF Has
<1>7. PlaceOK(b)'
  BY <1>1, <1>2, <1>5, <1>6 DEF PlaceOK
<1>8. RefsOK(b)'
  <2>1. Count(b)' = Count(b) /\ Count(b) \in Nat
    BY <1>3, <1>4, Counted
  <2>2. Referred(b)'
    BY <1>6 DEF Referred
  <2>3. Count(b) = 0
    BY <1>1, <1>5, <2>1 DEF RefsInv, RefsOK
  <2> QED BY <1>2, <1>6, <2>1, <2>2, <2>3 DEF RefsOK
<1>9. PlaceInv' /\ RefsInv'
  BY <1>1, <1>2, <1>3, <1>4, <1>7, <1>8, OneBlock
<1>10. ListInv'
  BY <1>1, <1>3 DEF ListInv, Others
<1> QED BY <1>2, <1>3, <1>9, <1>10 DEF FreeInv, TypeOK

\* The block becomes the head if the head is still what comes after it.
LEMMA PushKeeps ==
    ASSUME FreeInv, NEW t \in Thread, Push(t), NEW b \in AllBlocks, at[t].block = b
    PROVE  FreeInv'
<1>1. /\ BlocksTyped /\ ThreadsTyped /\ ListInv /\ PlaceInv /\ RefsInv
      /\ pc[t] = "push" /\ UNCHANGED <<refs, next, held>>
      /\ at[t].next = next[b]
  BY DEF FreeInv, TypeOK, Push, ListInv
<1>2. /\ at[t].next \in BlockOrNone /\ at[t].head \in BlockOrNone
      /\ head \in BlockOrNone /\ next \in [AllBlocks -> BlockOrNone]
  BY <1>1 DEF BlocksTyped, ThreadsTyped
<1>3. \A c \in AllBlocks : /\ ~Counts(t, c) /\ ~Puts(t, c)
                           /\ Carries(t, c) <=> c = b
  BY <1>1 DEF Counts, Puts, Carries
<1>4. CASE head # at[t].next
  <2>1. Goes(t, "unpush", b, at[t].head, head) /\ UNCHANGED head
    BY <1>4 DEF Push
  <2>2. pc'[t] = "unpush" /\ at'[t].block = b /\ Others(t) /\ ThreadsTyped'
    <3>1. "unpush" \in At \ {"idle", "load"}
      BY DEF At
    <3> QED BY <1>1, <1>2, <2>1, <3>1, OneGoes
  <2>3. Quiet
    <3>1. OnList' = OnList
      BY <1>1, <2>1 DEF OnList
    <3> QED BY <1>1, <2>2, <3>1, QuietGoes DEF Counts, Puts, Carries
  <2>4. ListInv'
    BY <1>1, <2>1, <2>2 DEF ListInv, Others
  <2>5. BlocksTyped'
    BY <1>1, <2>1 DEF BlocksTyped
  <2> QED BY <1>1, <2>2, <2>3, <2>4, <2>5, QuietKeeps DEF FreeInv, TypeOK
<1>5. CASE head = at[t].next
  <2>1. head' = b /\ GoesOnFrom(t, at[t].head)
    BY <1>5 DEF Push
  <2>2. pc'[t] \in {"idle", "count"} /\ Others(t) /\ ThreadsTyped'
    BY <1>1, <1>2, <2>1, FromHead
  <2>3. /\ b \notin OnList /\ ~refs[b].on /\ b \notin held[t]
        /\ \A u \in Thread \ {t} : ~Has(u, b)
    BY <1>1, <1>3 DEF PlaceInv, PlaceOK, Has
  <2>4. OnList' = OnList \cup {b} /\ Straight(head', next')
    BY <1>1, <1>2, <1>5, <2>1, <2>3, PutOn DEF OnList, ListInv
  <2>5. \A c \in AllBlocks : ~Counts(t, c)' /\ ~Carries(t, c)' /\ ~Puts(t, c)'
    BY <2>2 DEF Counts, Puts, Carries
  <2>6. \A u \in Thread : /\ ~Has(u, b)' /\ ~Carries(u, b)' /\ ~Puts(u, b)' /\ b \notin held'[u]
    BY <1>1, <2>2, <2>3, <2>5, OthersStay DEF Has
  <2>7. PlaceOK(b)'
    BY <1>1, <2>3, <2>4, <2>6 DEF PlaceOK
  <2>8. RefsOK(b)'
    <3>1. Count(b)' = Count(b)
      BY <1>3, <2>2, <2>5, Counted
    <3>2. Referred(b) /\ Referred(b)'
      BY <1>3, <2>4 DEF Referred
    <3> QED BY <1>1, <2>3, <2>6, <3>1, <3>2 DEF RefsOK, RefsInv
  <2>9. PlaceInv' /\ RefsInv'
    BY <1>1, <1>3, <2>2, <2>4, <2>5, <2>7, <2>8, OneBlock
  <2>10. ListInv'
    BY <1>1, <2>2, <2>4 DEF ListInv, Others
  <2>11. BlocksTyped'
    BY <1>1, <2>1 DEF BlocksTyped, BlockOrNone
  <2> QED BY <2>2, <2>9, <2>10, <2>11 DEF FreeInv, TypeOK
<1> QED BY <1>4, <1>5

\* The list's count is taken back; who else counts on the block by now will put it on the list.
LEMMA UnpushKeeps ==
    ASSUME FreeInv, NEW t \in Thread, Unpush(t), NEW b \in AllBlocks, at[t].block = b
    PROVE  FreeInv'
<1>1. /\ BlocksTyped /\ ThreadsTyped /\ ListInv /\ PlaceInv /\ RefsInv
      /\ pc[t] = "unpush" /\ UNCHANGED <<head, next, held>> /\ OnList' = OnList
      /\ refs' = [refs EXCEPT ![b] = [on |-> TRUE, n |-> @.n - 1]]
      /\ at[t].head \in BlockOrNone /\ at[t].next \in BlockOrNone
  BY DEF FreeInv, TypeOK, Unpush, OnList, ThreadsTyped
<1>2. /\ refs'[b].on /\ refs'[b].n = refs[b].n - 1
      /\ \A c \in AllBlocks \ {b} : refs'[c] = refs[c]
      /\ refs[b].on \in BOOLEAN /\ refs[b] = [on |-> refs[b].on, n |-> refs[b].n]
      /\ BlocksTyped'
  BY <1>1 DEF BlocksTyped
<1>3. \A c \in AllBlocks : /\ ~Counts(t, c) /\ ~Puts(t, c)
                           /\ Carries(t, c) <=> c = b
  BY <1>1 DEF Counts, Puts, Carries
<1>4. /\ b \notin OnList /\ ~refs[b].on /\ b \notin held[t]
      /\ \A u \in Thread \ {t} : ~Has(u, b)
  BY <1>1, <1>3 DEF PlaceInv, PlaceOK, Has
<1>5. /\ Referred(b) /\ Others(t) => Count(b) \in Nat
      /\ refs[b].n = Count(b) + 1
  BY <1>1, <1>3, Counted DEF RefsInv, RefsOK, Referred
<1>6. CASE refs[b] = [on |-> FALSE, n |-> 1]
  <2>1. Goes(t, "link", b, at[t].head, at[t].next) /\ refs[b].n = 1
    BY <1>6 DEF Unpush
  <2>2. pc'[t] = "link" /\ at'[t].block = b /\ Others(t) /\ ThreadsTyped'
    <3>1. "link" \in At \ {"idle", "load"}
      BY DEF At
    <3> QED BY <1>1, <2>1, <3>1, OneGoes
  <2>3. \A c \in AllBlocks : /\ ~Counts(t, c)' /\ ~Carries(t, c)'
                             /\ Puts(t, c)' <=> c = b
    BY <2>2 DEF Counts, Puts, Carries
  <2>4. \A u \in Thread : /\ ~Carries(u, b)' /\ b \notin held'[u]
                          /\ Puts(u, b)' <=> u = t
                          /\ Has(u, b)' <=> u = t
    BY <1>1, <1>4, <2>2, <2>3, OthersStay DEF Has
  <2>5. PlaceOK(b)'
    BY <1>1, <1>2, <1>4, <2>4 DEF PlaceOK
  <2>6. RefsOK(b)'
    <3>1. Count(b)' = Count(b) /\ Count(b) \in Nat
      BY <1>3, <2>2, <2>3, Counted
    <3>2. ~Referred(b)'
      BY <1>1, <1>4, <2>4 DEF Referred
    <3> QED BY <1>2, <1>5, <2>1, <2>4, <3>1, <3>2 DEF RefsOK
  <2>7. PlaceInv' /\ RefsInv'
    BY <1>1, <1>2, <1>3, <2>2, <2>3, <2>5, <2>6, OneBlock
  <2>8. ListInv'
    BY <1>1, <2>2 DEF ListInv, Others
  <2> QED BY <1>2, <2>2, <2>7, <2>8 DEF FreeInv, TypeOK
<1>7. CASE refs[b] # [on |-> FALSE, n |-> 1]
  <2>1. GoesOnFrom(t, at[t].head)
    BY <1>7 DEF Unpush
  <2>2. pc'[t] \in {"idle", "count"} /\ Others(t) /\ ThreadsTyped'
    BY <1>1, <2>1, FromHead
  <2>3. \A c \in AllBlocks : ~Counts(t, c)' /\ ~Carries(t, c)' /\ ~Puts(t, c)'
    BY <2>2 DEF Counts, Puts, Carries
  <2>4. \A u \in Thread : ~Has(u, b)' /\ ~Carries(u, b)' /\ ~Puts(u, b)' /\ b \notin held'[u]
    BY <1>1, <1>4, <2>2, <2>3, OthersStay DEF Has
  <2>5. PlaceOK(b)'
    BY <1>1, <1>2, <1>4, <2>4 DEF PlaceOK
  <2>6. RefsOK(b)'
    <3>1. Count(b)' = Count(b) /\ Count(b) \in Nat
      BY <1>3, <2>2, <2>3, Counted
    <3>2. ~Referred(b)'
      BY <1>1, <1>4, <2>4 DEF Referred
    <3>3. refs[b].n # 1
      BY <1>2, <1>4, <1>7
    <3> QED BY <1>2, <1>5, <2>4, <3>1, <3>2, <3>3 DEF RefsOK
  <2>7. PlaceInv' /\ RefsInv'
    BY <1>1, <1>2, <1>3, <2>2, <2>3, <2>5, <2>6, OneBlock
  <2>8. ListInv'
    BY <1>1, <2>2 DEF ListInv, Others
  <2> QED BY <1>2, <2>2, <2>7, <2>8 DEF FreeInv, TypeOK
<1> QED BY <1>6, <1>7

-----------------------------------------------------------------------------
\* The invariant.

LEMMA FreeInit == Init => FreeInv
<1> SUFFICES ASSUME Init PROVE FreeInv
  OBVIOUS
<1>1. PICK user \in [AllBlocks -> Thread] : held = [t \in Thread |-> {b \in AllBlocks : user[b] = t}]
  BY DEF Init
<1>2. BlocksTyped
  BY <1>1 DEF Init, BlocksTyped, BlockOrNone
<1>3. ThreadsTyped
  BY DEF Init, ThreadsTyped, BlockOrNone, At
<1>4. OnList = {} /\ Straight(head, next)
  BY <1>2, EmptyList DEF Init, OnList, BlocksTyped
<1>5. \A t \in Thread, b \in AllBlocks : ~Counts(t, b) /\ ~Puts(t, b) /\ ~Carries(t, b)
  BY DEF Init, Counts, Puts, Carries
<1>6. ListInv
  BY <1>4 DEF Init, ListInv
<1>7. PlaceInv
  <2>1. \A t \in Thread, b \in AllBlocks : b \in held[t] <=> user[b] = t
    BY <1>1
  <2>2. \A t \in Thread, b \in AllBlocks : Has(t, b) <=> user[b] = t
    BY <1>5, <2>1 DEF Has
  <2>3. \A b \in AllBlocks : ~refs[b].on /\ user[b] \in Thread
    BY DEF Init
  <2> QED BY <1>4, <1>5, <2>2, <2>3 DEF PlaceInv, PlaceOK
<1>8. RefsInv
  <2> SUFFICES ASSUME NEW b \in AllBlocks PROVE RefsOK(b)
    BY DEF RefsInv
  <2>1. {t \in Thread : Counts(t, b)} = {}
    BY <1>5
  <2>2. Count(b) = 0
    BY <2>1, FS_EmptySet DEF Count
  <2>3. ~Referred(b)
    BY <1>4, <1>5 DEF Referred
  <2>4. refs[b].n = 0 /\ ~refs[b].on
    BY DEF Init
  <2> QED BY <1>5, <2>2, <2>3, <2>4 DEF RefsOK
<1> QED BY <1>2, <1>3, <1>6, <1>7, <1>8 DEF FreeInv, TypeOK

LEMMA FreeStep == ASSUME FreeInv, [Next]_vars PROVE FreeInv'
<1>1. CASE UNCHANGED vars
  <2>1. UNCHANGED <<head, refs, next, held, pc, at>>
    BY <1>1 DEF vars
  <2>2. OnList' = OnList
    BY <2>1 DEF OnList
  <2>3. Quiet
    BY <2>1, <2>2 DEF Quiet, Counts, Puts, Carries
  <2>4. TypeOK' /\ ListInv'
    BY <2>1 DEF FreeInv, TypeOK, BlocksTyped, ThreadsTyped, ListInv
  <2> QED BY <2>3, <2>4, QuietKeeps DEF FreeInv
<1>2. ASSUME NEW t \in Thread, TryGet(t) \/ Load(t) PROVE FreeInv'
  BY <1>2, TryGetKeeps, LoadKeeps
<1>3. ASSUME NEW t \in Thread, NEW u \in Thread, NEW b \in AllBlocks, Add(t, u, b) PROVE FreeInv'
  BY <1>3, AddKeeps
<1>4. ASSUME NEW t \in Thread,
             \/ CountIn(t) \/ ReadNext(t) \/ Swing(t) \/ Got(t) \/ CountOut(t)
             \/ Put(t) \/ Link(t) \/ SetCount(t) \/ Push(t) \/ Unpush(t)
      PROVE  FreeInv'
  <2>1. pc[t] \notin {"idle", "load"}
    BY <1>4 DEF CountIn, ReadNext, Swing, Got, CountOut, Put, Link, SetCount, Push, Unpush
  <2>2. PICK b \in AllBlocks : at[t].block = b
    BY <2>1 DEF FreeInv, TypeOK, ThreadsTyped, BlockOrNone
  <2> QED BY <1>4, <2>2, CountInKeeps, ReadNextKeeps, SwingKeeps, GotKeeps, CountOutKeeps,
             PutKeeps, LinkKeeps, SetCountKeeps, PushKeeps, UnpushKeeps
<1> QED BY <1>1, <1>2, <1>3, <1>4 DEF Next

\* Type correctness, and that a thread of try_get() and add() has a block in its hands whenever it reads
\* or writes one.
THEOREM TypeCorrect == Spec => []TypeOK
<1>1. FreeInv => TypeOK
  BY DEF FreeInv
<1> QED BY <1>1, FreeInit, FreeStep, PTL DEF Spec

\* The counts are right: of each block that is on the list or in anybody's hands, freeListRefs says how many
\* threads look at it and whether the list refers to it.
THEOREM CountsRight == Spec => []RefsInv
<1>1. FreeInv => RefsInv
  BY DEF FreeInv
<1> QED BY <1>1, FreeInit, FreeStep, PTL DEF Spec

\* For any number of threads and blocks, try_get() gives no block to two threads, and add() loses none.
THEOREM NoBlockTwice == Spec => []BlocksApart
<1>1. ASSUME FreeInv PROVE BlocksApart
  <2>1. \A b \in AllBlocks : PlaceOK(b) /\ RefsOK(b)
    BY <1>1 DEF FreeInv, PlaceInv, RefsInv
  <2>2. held \in [Thread -> SUBSET AllBlocks] /\ ThreadsTyped /\ OnList \subseteq AllBlocks
    BY <1>1 DEF FreeInv, TypeOK, BlocksTyped, OnList, ListFrom
  <2>3. \A t \in Thread : held[t] \cap OnList = {}
    BY <2>1, <2>2 DEF PlaceOK, Has
  <2>4. \A t, u \in Thread : t # u => held[t] \cap held[u] = {}
    BY <2>1, <2>2 DEF PlaceOK, Has
  <2>5. ASSUME NEW t \in Thread, pc[t] = "got"
        PROVE  ~refs[at[t].block].on /\ \A u \in Thread : at[t].block \notin held[u]
    <3>1. PICK b \in AllBlocks : at[t].block = b
      BY <2>2, <2>5 DEF ThreadsTyped, BlockOrNone
    <3>2. Carries(t, b) /\ Has(t, b)
      BY <2>5, <3>1 DEF Carries, Has
    <3> QED BY <2>1, <3>1, <3>2 DEF PlaceOK, Has
  <2>6. ASSUME \A t \in Thread : pc[t] = "idle"
        PROVE  OnList \cup UNION {held[t] : t \in Thread} = AllBlocks
    <3>1. \A t \in Thread, b \in AllBlocks : ~Counts(t, b) /\ ~Puts(t, b) /\ ~Carries(t, b)
      BY <2>6 DEF Counts, Puts, Carries
    <3>2. ASSUME NEW b \in AllBlocks, b \notin OnList PROVE \E t \in Thread : b \in held[t]
      <4>1. ~Referred(b)
        BY <3>1, <3>2 DEF Referred
      <4>2. {t \in Thread : Counts(t, b)} = {}
        BY <3>1
      <4>3. Count(b) = 0
        BY <4>2, FS_EmptySet DEF Count
      <4>4. refs[b].n = 0
        BY <2>1, <4>1, <4>3 DEF RefsOK
      <4>5. ~refs[b].on
        BY <2>1, <3>1, <4>4 DEF RefsOK
      <4> QED BY <2>1, <3>1, <3>2, <4>5 DEF PlaceOK, Has
    <3> QED BY <2>2, <3>2
  <2> QED BY <2>3, <2>4, <2>5, <2>6 DEF BlocksApart
<1> QED BY <1>1, FreeInit, FreeStep, PTL DEF Spec

=============================================================================

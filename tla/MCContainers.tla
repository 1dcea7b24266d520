---------------------------- MODULE MCContainers ----------------------------
(***************************************************************************)
(* The containers shared by threads, the thread pool's queue and the map   *)
(* of connections: in a behaviour one of their parts moves.                *)
(***************************************************************************)
EXTENDS BlockFreeList, TakeCounts, TLC

CONSTANTS p1, p2, c1, c2, t1, t2, b1, b2, b3, k1, k2, k3, k4

Key == {k1, k2, k3, k4}
Value == {"old", "new"}
\* By 4 buckets, k1, k3 and k4 all have buckets 0 and 1 and k2 has 1 and 2; by 8 they part.
HashOf == (k1 :> 8) @@ (k2 :> 1) @@ (k3 :> 4) @@ (k4 :> 5)
TagOf == (k1 :> 1) @@ (k2 :> 3) @@ (k3 :> 5) @@ (k4 :> 1)

Call(kind, k, n) == [kind |-> kind, key |-> k, val |-> "new", size |-> n]
Old(k) == [key |-> k, val |-> "old"]

\* Of one slot a bucket: k2 has to make room, or the table to double.
Crowded == {(0 :> (0 :> Old(k1))) @@ (1 :> (0 :> Old(k))) @@ (2 :> (0 :> None)) @@ (3 :> (0 :> None)) :
                k \in {k2, k3}}
CrowdedCalls == {Call("upsert", k3, 0), Call("upsert", k4, 0), Call("insert", k3, 0),
    Call("erase", k2, 0), Call("find", k2, 0), Call("clear", k1, 0), Call("walk", k1, 0)}

\* Of two slots a bucket, and never full, so that it can be resized but need not grow.
Roomy == {[i \in {0, 1} |-> (0 :> IF i = 0 THEN Old(k1) ELSE Old(k2)) @@ (1 :> None)]}
RoomyCalls == {Call("rehash", k1, n) : n \in 1..4} \cup {Call("reserve", k1, n) : n \in {2, 5}} \cup
    {Call("upsert", k3, 0), Call("erase", k2, 0), Call("update", k2, 0), Call("walk", k1, 0)}

\* Resized by one thread while another doubles it.
BothCalls == {Call("rehash", k1, 4), Call("insert", k4, 0)}

VARIABLES
    part,                                                   \* the part that moves
    headers, entries, tailBlock, done, cells, taken, free, add, takes,  \* ImplicitQueue, with those of TakeCounts
    indexes, used, front, ring, emptied, leftBehind,        \* ExplicitQueue, and most of the above
    listed, counted, inactive, owner, holds, does, offset, nextId, consumer, call, asked, grown, \* ProducerTokens
    hp, buckets, locks, expansion, size, doing, answer, begun  \* CuckooMap

queue == <<tailIndex, headIndex, optimistic, overcommit, headers, entries, tailBlock, made, done, cells,
           taken, free, add, take, takes>>
tokens == <<listed, counted, inactive, owner, holds, does, offset, nextId, consumer, call, asked, grown>>
implicitOnly == <<headers, entries, done, free>>
explicitOnly == <<indexes, used, front, ring, emptied, leftBehind>>
keys == <<hp, buckets, locks, expansion, size, doing, answer, begun>>
list == vars  \* BlockFreeList's, which this module extends
allVars == <<part, queue, explicitOnly, list, tokens, keys>>

\* One thread adds while two take.  The counters wrap after the first item, and with four the two
\* slots of the block index are one too few.
One == INSTANCE ImplicitQueue WITH Producer <- {p1}, List <- <<p1>>,
    IndexSize <- 2, PoolSize <- 1, MaxBlocks <- 3, MaxIndexes <- 2,
    Seen <- {15}, AddCalls <- {<<1, FALSE>>, <<3, TRUE>>}, TakeSizes <- {3}, MaxItems <- 4, MaxTakes <- 2

\* Two threads add while one takes; from a new queue, and from one that has been used and emptied.
Two == INSTANCE ImplicitQueue WITH Producer <- {p1, p2}, List <- <<p2, p1>>, Consumer <- {c1},
    IndexSize <- 2, PoolSize <- 2, MaxBlocks <- 4, MaxIndexes <- 2,
    Seen <- {0, 15}, AddCalls <- {<<2, TRUE>>}, TakeSizes <- {3}, MaxItems <- 2, MaxTakes <- 2

\* A producer with a token adds while two take.  Its index grows with the third block.
Own == INSTANCE ExplicitQueue WITH Owner <- p1,
    IndexSize <- 2, PoolSize <- 1, MaxBlocks <- 4, MaxIndexes <- 2,
    Seen <- {0, 15}, AddCalls <- {<<2, FALSE>>, <<2, TRUE>>, <<3, TRUE>>}, TakeSizes <- {2}, MaxItems <- 5, MaxTakes <- 2, GoesOn <- FALSE

Tokens == INSTANCE ProducerTokens WITH Token <- {t1, t2}, Others <- <<p1>>, Most <- 2,
    EXPLICIT_CONSUMER_CONSUMPTION_QUOTA_BEFORE_ROTATE <- 2, MaxProducers <- 2, MaxCalls <- 3,
    producers <- listed, count <- counted, held <- holds, at <- does, globalOffset <- offset, calls <- asked

\* Of a producer with a token, that goes on after a call failed that had obtained blocks.
Left == INSTANCE ExplicitQueue WITH Owner <- p1,
    IndexSize <- 2, PoolSize <- 4, MaxBlocks <- 4, MaxIndexes <- 2,
    Seen <- {0}, AddCalls <- {<<2, TRUE>>, <<6, FALSE>>}, TakeSizes <- {2}, MaxItems <- 8, MaxTakes <- 1, GoesOn <- TRUE

Crowd == INSTANCE CuckooMap WITH Thread <- {t1, t2}, Slots <- 1, NumLocks <- 4, MaxPath <- 5,
    MaxQueue <- 8, MinLoad <- 40, MaxHp <- 4, MaxCalls <- 3, Calls <- CrowdedCalls,
    FirstSize <- 4, First <- Crowded,
    count <- size, call <- doing, calls <- begun

Resize == INSTANCE CuckooMap WITH Thread <- {t1, t2}, Slots <- 2, NumLocks <- 4, MaxPath <- 5,
    MaxQueue <- 8, MinLoad <- 5, MaxHp <- 3, MaxCalls <- 3, Calls <- RoomyCalls,
    FirstSize <- 4, First <- Roomy,
    count <- size, call <- doing, calls <- begun

Both == INSTANCE CuckooMap WITH Thread <- {t1, t2}, Slots <- 1, NumLocks <- 2, MaxPath <- 5,
    MaxQueue <- 8, MinLoad <- 5, MaxHp <- 4, MaxCalls <- 2, Calls <- BothCalls,
    FirstSize <- 4, First <- Crowded,
    count <- size, call <- doing, calls <- begun

InitQueue ==
    /\ IF part = "two" THEN Two!Init ELSE One!Init
    /\ indexes = None /\ used = None /\ front = None /\ ring = None /\ emptied = None /\ leftBehind = None

InitOwn(Starts) == Starts /\ headers = None /\ entries = None /\ done = None /\ free = None

InitRest ==
    /\ Init /\ Tokens!Init
    /\ held[t1] = {b1, b2, b3}
    /\ part # "tokens" => listed = <<>>

InitPart ==
    /\ part \in {"one", "two", "own", "blocks", "tokens", "crowded", "roomy"}
    /\ IF part = "own" THEN InitOwn(Own!Init) ELSE InitQueue
    /\ IF part = "crowded" THEN Crowd!Init ELSE Resize!Init
    /\ InitRest

Move ==
    /\ UNCHANGED part
    /\ \/ part = "one" /\ One!Next /\ UNCHANGED <<explicitOnly, list, tokens, keys>>
       \/ part = "two" /\ Two!Next /\ UNCHANGED <<explicitOnly, list, tokens, keys>>
       \/ part = "own" /\ Own!Next /\ UNCHANGED <<implicitOnly, list, tokens, keys>>
       \/ part = "blocks" /\ Next /\ UNCHANGED <<queue, explicitOnly, tokens, keys>>
       \/ part = "tokens" /\ Tokens!Next /\ UNCHANGED <<queue, explicitOnly, list, keys>>
       \/ part = "crowded" /\ Crowd!Next /\ UNCHANGED <<queue, explicitOnly, list, tokens>>
       \/ part = "roomy" /\ Resize!Next /\ UNCHANGED <<queue, explicitOnly, list, tokens>>

PartSpec == InitPart /\ [][Move]_allVars
LeftSpec == (part = "left" /\ InitOwn(Left!Init) /\ Resize!Init /\ InitRest)
            /\ [][Left!Next /\ UNCHANGED <<part, implicitOnly, list, tokens, keys>>]_allVars
BothSpec == (part = "both" /\ InitQueue /\ Both!Init /\ InitRest)
            /\ [][Both!Next /\ UNCHANGED <<part, queue, explicitOnly, list, tokens>>]_allVars

\* What is proved of ImplicitQueue and of ProducerTokens is proved of the parts here.
ASSUME PartsAssumption == One!QueueAssumption /\ Two!QueueAssumption /\ Tokens!TokensAssumption

-----------------------------------------------------------------------------
\* The parts' properties, stated and explained in their modules.
FindsItsBlock ==
    CASE part = "two" -> Two!FindsItsBlock [] part = "own" -> Own!FindsItsBlock [] OTHER -> One!FindsItsBlock
\* A key is where it is looked for, and who holds a key's buckets is alone at them.
KeysFound ==
    CASE part = "crowded" -> Crowd!KeysAtHome /\ Crowd!HoldsBuckets
      [] part = "roomy" -> Resize!KeysAtHome /\ Resize!HoldsBuckets
      [] OTHER -> TRUE

\* Refinements, stated so that they are looked at only where something moves.
MapIsAtomic ==
    Crowd!A!Init /\ [][(part \in {"crowded", "roomy"}) => Crowd!A!Next \/ UNCHANGED Crowd!A!vars]_allVars
ItemsInOrder ==
    Q!Init /\ [][(part \in {"one", "two", "own"}) => Q!Next \/ UNCHANGED Q!vars]_allVars

KeepsKeys == Both!KeysAtHome
RoomInIndex == Left!FindsItsBlock

\* No block is lost or in two places (BlocksApart says the same of the way through the free list).
BlocksAccounted ==
    CASE part = "two" -> Two!BlocksAccounted [] part = "own" -> Own!BlocksAccounted [] OTHER -> One!BlocksAccounted

\* A token has a producer of its own, where consumers find it, and their search ends.
TokensRight == Tokens!TokensRight

=============================================================================

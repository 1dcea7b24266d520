---------------------------- MODULE ProducerTokens ----------------------------
(***************************************************************************)
(* The tokens of a queue.  A ProducerToken holds a producer, one that an   *)
(* earlier token gave up or a new one at the front of the list.  A         *)
(* ConsumerToken takes from one producer as long as it has items; each     *)
(* time some consumer had its quota from one, all move on by one producer. *)
(* What dequeue() finds is any answer; ExplicitQueue and ImplicitQueue     *)
(* have it in detail.                                                      *)
(***************************************************************************)
EXTENDS Integers, Sequences, SequencesExt, FiniteSets

CONSTANTS
    Token,         \* ProducerTokens, each of a thread of its own
    Consumer,      \* ConsumerTokens, likewise
    None,
    Others,        \* the implicit producers there are, as a list
    Most,          \* how many items a call takes at most
    EXPLICIT_CONSUMER_CONSUMPTION_QUOTA_BEFORE_ROTATE,
    MaxProducers, MaxCalls  \* bounds: of the tokens' producers, and of the calls with tokens

VARIABLES
    producers,    \* the list, from producerListTail on
    count,        \* producerCount
    inactive,     \* the producers marked so
    owner,        \* of each producer its token
    held,         \* of each ProducerToken its producer
    at,           \* what each ProducerToken's thread is about
    globalOffset, \* globalExplicitConsumerOffset
    nextId,       \* nextExplicitConsumerId
    consumer,     \* the ConsumerTokens
    call,         \* what each is about
    calls,
    grown         \* history: a producer was counted or added while a consumer had its place, or was given it

list == <<producers, count, inactive, owner, held, at>>
rotation == <<globalOffset, nextId, consumer, call>>
vars == <<list, rotation, calls, grown>>

Explicit == 1..MaxProducers
Places == Explicit \cup Range(Others)

\* What a ConsumerToken is.
ConsumerTokens == [initialOffset : Nat, lastKnownGlobalOffset : Int, itemsConsumed : Nat,
                   current : Places \cup {None}, desired : Places \cup {None}]

\* What the constants are.
TokensAssumption ==
    /\ IsFiniteSet(Token) /\ None \notin Token
    /\ MaxProducers \in Nat /\ Most \in Nat \ {0}
    /\ Others \in Seq(Range(Others)) /\ \A i, j \in DOMAIN Others : Others[i] = Others[j] => i = j
    /\ None \notin Places /\ None \notin ConsumerTokens /\ Explicit \cap Range(Others) = {}

Idle == [pc |-> "idle", p |-> None, rest |-> <<>>]
Unused == [initialOffset |-> 0, lastKnownGlobalOffset |-> -1, itemsConsumed |-> 0, current |-> None, desired |-> None]
NoCall == [pc |-> "idle", bulk |-> FALSE, left |-> 0, tail |-> <<>>, p |-> None, got |-> 0, tried |-> <<>>, before |-> {}]

Init ==
    /\ producers \in {<<>>, Others} /\ count = Len(producers)
    /\ inactive = {} /\ owner = [p \in Explicit |-> None]
    /\ held = [t \in Token |-> None] /\ at = [t \in Token |-> Idle]
    /\ globalOffset = 0 /\ nextId = 0
    /\ consumer = [c \in Consumer |-> None] /\ call = [c \in Consumer |-> NoCall]
    /\ calls = 0 /\ grown = FALSE

Called == calls < MaxCalls /\ calls' = calls + 1

-----------------------------------------------------------------------------
\* ProducerToken().

At(t, pc) == at[t].pc = pc
CallAt(c, pc) == call[c].pc = pc
Goes(t, rec) == at' = [at EXCEPT ![t] = rec]

\* The tokens' producers in the list.
Created == Range(producers) \cap Explicit

\* History: whether a consumer has its place, or is finding it.
Grows == grown' = (grown \/ \E c \in Consumer : ~CallAt(c, "idle") \/ (consumer[c] # None /\ consumer[c].desired # None))

Construct(t) ==
    /\ At(t, "idle") /\ held[t] = None /\ Called
    /\ Goes(t, [Idle EXCEPT !.pc = "look", !.rest = producers])
    /\ UNCHANGED <<producers, count, inactive, owner, held, rotation, grown>>

\* Variant: the mark that was seen is taken without asking again.
CatchUnasked(t, p) == inactive' = inactive \ {p} /\ Goes(t, [Idle EXCEPT !.pc = "own", !.p = p])

\* The compare-exchange of a producer's mark: another thread may have taken it.
Catch(t, p) ==
    IF p \in inactive
    THEN inactive' = inactive \ {p} /\ Goes(t, [Idle EXCEPT !.pc = "own", !.p = p])
    ELSE Goes(t, [at[t] EXCEPT !.pc = "look", !.rest = Tail(@)]) /\ UNCHANGED inactive

\* recycle_or_create_producer() looks for one that is inactive.
Look(t) == LET rest == at[t].rest IN
    /\ \/ /\ At(t, "look") /\ rest # <<>>
          /\ Goes(t, IF Head(rest) \in inactive THEN [at[t] EXCEPT !.pc = "catch"]
                     ELSE [at[t] EXCEPT !.rest = Tail(@)])
          /\ UNCHANGED inactive
       \/ At(t, "catch") /\ Catch(t, Head(rest))
    /\ UNCHANGED <<producers, count, owner, held, rotation, calls, grown>>

\* A new one, which is counted first; or memory has run out, and the token is not valid.
Create(t) ==
    /\ At(t, "look") /\ at[t].rest = <<>>
    /\ \/ /\ count < Len(producers) + MaxProducers - Cardinality(Created) /\ count' = count + 1
          /\ Goes(t, [Idle EXCEPT !.pc = "add"]) /\ Grows
       \/ Goes(t, Idle) /\ UNCHANGED <<count, grown>>
    /\ UNCHANGED <<producers, inactive, owner, held, rotation, calls>>

\* add_producer().
Add(t) == LET p == Cardinality(Created) + 1 IN
    /\ At(t, "add")
    /\ producers' = <<p>> \o producers
    /\ Goes(t, [Idle EXCEPT !.pc = "own", !.p = p])
    /\ Grows
    /\ UNCHANGED <<count, inactive, owner, held, rotation, calls>>

Own(t) ==
    /\ At(t, "own")
    /\ held' = [held EXCEPT ![t] = at[t].p] /\ owner' = [owner EXCEPT ![at[t].p] = t]
    /\ Goes(t, Idle)
    /\ UNCHANGED <<producers, count, inactive, rotation, calls, grown>>

\* ~ProducerToken() unties its producer, and then marks it.
Destroy(t) ==
    /\ At(t, "idle") /\ held[t] # None
    /\ owner' = [owner EXCEPT ![held[t]] = None]
    /\ Goes(t, [Idle EXCEPT !.pc = "mark"])
    /\ UNCHANGED <<producers, count, inactive, held, rotation, calls, grown>>

Mark(t) ==
    /\ At(t, "mark")
    /\ inactive' = inactive \cup {held[t]} /\ held' = [held EXCEPT ![t] = None]
    /\ Goes(t, Idle)
    /\ UNCHANGED <<producers, count, owner, rotation, calls, grown>>

\* A token is moved or, which is all that assignment does, swapped.
Swap(t, u) ==
    /\ t # u /\ At(t, "idle") /\ At(u, "idle") /\ held[t] # None /\ Called
    /\ held' = [held EXCEPT ![t] = held[u], ![u] = held[t]]
    /\ owner' = [p \in Explicit |-> IF p = held[t] THEN u ELSE IF p = held[u] THEN t ELSE owner[p]]
    /\ UNCHANGED <<producers, count, inactive, at, rotation, grown>>

-----------------------------------------------------------------------------
\* ConsumerToken(), and try_dequeue() and try_dequeue_bulk() with it.

Does(c, rec) == call' = [call EXCEPT ![c] = rec]

ConstructConsumer(c) ==
    /\ consumer[c] = None
    /\ consumer' = [consumer EXCEPT ![c] = [Unused EXCEPT !.initialOffset = nextId]]
    /\ nextId' = nextId + 1
    /\ UNCHANGED <<list, globalOffset, call, calls, grown>>

\* The producer n places after p in the list tail, around its end.
After(tail, p, n) == LET i == CHOOSE i \in DOMAIN tail : tail[i] = p IN tail[((i - 1 + n) % Len(tail)) + 1]

Dequeue(c, bulk) ==
    LET k == consumer[c] IN
    /\ k # None /\ CallAt(c, "idle") /\ Called
    /\ grown' = (grown \/ count # Len(producers))
    /\ Does(c, [NoCall EXCEPT !.bulk = bulk, !.left = IF bulk THEN Most ELSE 1, !.before = Range(producers),
            !.tail = producers, !.p = k.current,
            !.pc = IF k.desired = None \/ k.lastKnownGlobalOffset # globalOffset THEN "rotate" ELSE "first"])
    /\ UNCHANGED <<list, globalOffset, nextId, consumer>>

\* The place of a token that has none, n being the number of producers.
FirstPlace(tail, n, k) == After(tail, Head(tail), n - 1 - (k.initialOffset % n))

\* update_current_producer_after_rotation(): the list was read first, its length is read now.
Rotate(c) ==
    LET k == consumer[c] tail == call[c].tail n == count
        from == IF k.desired = None THEN FirstPlace(tail, n, k) ELSE k.desired
        delta == globalOffset - k.lastKnownGlobalOffset
        p == After(tail, from, IF delta >= n THEN delta % n ELSE delta)
    IN /\ CallAt(c, "rotate")
       /\ IF tail = <<>> /\ k.desired = None
          THEN Does(c, [call[c] EXCEPT !.pc = "return"]) /\ UNCHANGED consumer
          ELSE /\ consumer' = [consumer EXCEPT ![c] = [k EXCEPT !.desired = p, !.current = p, !.itemsConsumed = 0,
                                                               !.lastKnownGlobalOffset = globalOffset]]
               /\ Does(c, [call[c] EXCEPT !.pc = "first", !.p = p])
       /\ UNCHANGED <<list, globalOffset, nextId, calls, grown>>

Tried(r) == [r EXCEPT !.tried = Append(@, r.p)]

\* Whether a consumer that has n items of its producer makes all move on.
Quota(bulk, n) ==
    IF bulk THEN n >= EXPLICIT_CONSUMER_CONSUMPTION_QUOTA_BEFORE_ROTATE
    ELSE n = EXPLICIT_CONSUMER_CONSUMPTION_QUOTA_BEFORE_ROTATE

\* The token's producer is tried, and has n items.
TryCurrent(c, n) ==
    LET r == Tried(call[c]) all == n = r.left sum == consumer[c].itemsConsumed + n IN
    /\ CallAt(c, "first") /\ n <= r.left
    /\ consumer' = [consumer EXCEPT ![c].itemsConsumed = sum]
    /\ globalOffset' = (IF all /\ Quota(r.bulk, sum) THEN globalOffset + 1 ELSE globalOffset)
    /\ Does(c, [r EXCEPT !.got = n, !.left = @ - n, !.pc = IF all THEN "return" ELSE "next"])
    /\ UNCHANGED <<list, nextId, calls, grown>>

\* Then the others in turn, from the next one on, by the list as it is now: its newest comes after its last.
NextOf(c, tail) == LET r == call[c] i == CHOOSE i \in DOMAIN producers : producers[i] = r.p IN
    IF i = Len(producers) THEN Head(tail) ELSE producers[i + 1]

GoOn(c, r, tail) == LET p == NextOf(c, tail) IN
    Does(c, IF p = consumer'[c].current THEN [r EXCEPT !.pc = "return"] ELSE [r EXCEPT !.pc = "others", !.p = p, !.tail = tail])

FirstNext(c) ==
    /\ CallAt(c, "next") /\ UNCHANGED consumer /\ GoOn(c, call[c], producers)
    /\ UNCHANGED <<list, globalOffset, nextId, calls, grown>>

\* A producer that has some becomes the token's; the search ends there or where it would come round again.
TryOther(c, n) ==
    LET r == Tried(call[c]) then == [r EXCEPT !.got = @ + n, !.left = @ - n] IN
    /\ CallAt(c, "others") /\ n <= r.left
    /\ consumer' = (IF n = 0 THEN consumer
                    ELSE [consumer EXCEPT ![c].current = r.p, ![c].itemsConsumed = n])
    /\ IF n = r.left THEN Does(c, [then EXCEPT !.pc = "return"]) ELSE GoOn(c, then, r.tail)
    /\ UNCHANGED <<list, globalOffset, nextId, calls, grown>>

Return(c) ==
    /\ CallAt(c, "return") /\ Does(c, NoCall)
    /\ UNCHANGED <<list, globalOffset, nextId, consumer, calls, grown>>

Rest ==
    /\ calls = MaxCalls /\ (\A t \in Token : At(t, "idle")) /\ (\A c \in Consumer : CallAt(c, "idle"))
    /\ UNCHANGED vars

Next ==
    \/ \E t \in Token : Construct(t) \/ Look(t) \/ Create(t) \/ Add(t) \/ Own(t) \/ Destroy(t) \/ Mark(t)
    \/ \E t, u \in Token : Swap(t, u)
    \/ \E c \in Consumer :
        \/ ConstructConsumer(c) \/ Dequeue(c, TRUE) \/ Dequeue(c, FALSE)
        \/ Rotate(c) \/ FirstNext(c) \/ Return(c)
        \/ \E n \in 0..Most : TryCurrent(c, n) \/ TryOther(c, n)
    \/ Rest

-----------------------------------------------------------------------------
\* No two tokens hold one producer, or are about to, and each one's producer knows it: that is how the
\* queue's destructor finds it.
OneOwner ==
    LET Has(t) == {p \in Explicit : p = held[t] \/ (At(t, "own") /\ p = at[t].p)} IN
    /\ \A t, u \in Token : t # u => Has(t) \cap Has(u) = {}
    /\ \A t \in Token : Has(t) \cap inactive = {}
    /\ \A t \in Token, p \in Explicit : owner[p] = t <=> (held[t] = p /\ ~At(t, "mark"))

\* A list that is not empty has a length that is not 0, and the length is not less than what is in it:
\* a new token's place is computed modulo that length.
LengthFirst == count >= Len(producers)

\* A call that finds nothing has tried every producer there was when it began ("we need to make sure
\* every queue's been tried"), and none twice.
EveryoneTried == \A c \in Consumer : LET r == call[c] IN r.got = 0 =>
    /\ Cardinality(Range(r.tried)) = Len(r.tried)
    /\ CallAt(c, "return") => r.before \subseteq Range(r.tried)

\* As long as no producer is being added as they are given their places, or is after that, tokens that
\* know of the same rotation are at producers as different as they can be.
PlacesApart ==
    ~grown => \A c, d \in Consumer : c # d /\ consumer[c] # None /\ consumer[d] # None =>
        LET k == consumer[c] l == consumer[d] n == Len(producers) IN
        /\ k.desired # None /\ l.desired # None
        /\ k.lastKnownGlobalOffset = l.lastKnownGlobalOffset
        /\ (k.initialOffset - l.initialOffset) % n # 0
        => k.desired # l.desired

TokensRight == OneOwner /\ LengthFirst /\ EveryoneTried /\ PlacesApart

=============================================================================

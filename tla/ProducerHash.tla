---------------------------- MODULE ProducerHash ----------------------------
(***************************************************************************)
(* How the task queue knows a thread's producer again: a hash table by     *)
(* thread that nobody locks.  It grows by putting a larger table in front  *)
(* of it; a thread that finds itself in an older table adds itself to the  *)
(* newest one it knows.                                                    *)
(***************************************************************************)
EXTENDS Integers, Sequences, FiniteSets

CONSTANTS
    Thread, None,
    HashOf,     \* of each thread its id's hash
    FirstSize,  \* INITIAL_IMPLICIT_PRODUCER_HASH_SIZE
    MaxTables,  \* from how many on memory runs out
    MaxCalls    \* a bound of the model

ASSUME ThreadAssumption == IsFiniteSet(Thread) /\ None \notin Thread
ASSUME HashAssumption == HashOf \in [Thread -> Nat] /\ FirstSize \in Nat \ {0}
ASSUME BoundAssumption == MaxTables \in Nat /\ MaxCalls \in Nat

VARIABLES
    tables,     \* the tables, the newest one last: of each slot a record [key, value]
    count,      \* implicitProducerHashCount
    resizing,   \* implicitProducerHashResizeInProgress
    producers,  \* the list of producers, each known by its place
    at,         \* what each thread is about
    got,        \* the producers each thread was answered
    calls       \* how many calls were made

vars == <<tables, count, resizing, producers, at, got, calls>>

Free == [key |-> None, value |-> None]
NewTable(capacity) == [i \in 0..(capacity - 1) |-> Free]
Size(h) == Cardinality(DOMAIN tables[h])

Idle == [pc |-> "idle", main |-> 0, table |-> 0, i |-> 0, n |-> 0, value |-> None]
Goes(t, rec) == at' = [at EXCEPT ![t] = rec]
At(t, pc) == at[t].pc = pc

\* populate_initial_implicit_producer_hash().
Init ==
    /\ tables = <<NewTable(FirstSize)>>
    /\ count = 0 /\ resizing = FALSE /\ producers = <<>>
    /\ at = [t \in Thread |-> Idle] /\ got = [t \in Thread |-> {}] /\ calls = 0

\* get_or_add_implicit_producer() reads which table is the newest.
Call(t) ==
    /\ At(t, "idle") /\ calls < MaxCalls /\ calls' = calls + 1
    /\ Goes(t, [Idle EXCEPT !.pc = "search", !.main = Len(tables), !.table = Len(tables), !.i = HashOf[t]])
    /\ UNCHANGED <<tables, count, resizing, producers, got>>

\* The call answers producer p, or that memory ran out.
Answers(t, p) == Goes(t, Idle) /\ got' = [got EXCEPT ![t] = @ \cup ({p} \ {None})]

\* The slot that a thread looks at, in a table.
Slot(t, h) == at[t].i % Size(h)
Probe(t, h) == tables[h][Slot(t, h)]

\* Variant: a larger table is taken to hold all there is.
NewestOnly(t) == [at[t] EXCEPT !.pc = "count"]

\* Not found in a table, it may be in the one before.
Older(t) == LET c == at[t] IN
    IF c.table = 1 THEN [c EXCEPT !.pc = "count"] ELSE [c EXCEPT !.table = @ - 1, !.i = HashOf[t]]

\* It looks for itself in every table, from the newest on back.  Found in an older one, it adds
\* itself to the newest it knows.
Search(t) == LET c == at[t] e == Probe(t, c.table) IN
    /\ At(t, "search")
    /\ \/ /\ e.key = t /\ c.table = c.main
          /\ Answers(t, e.value)
       \/ /\ e.key = t /\ c.table # c.main
          /\ Goes(t, [c EXCEPT !.pc = "place", !.i = HashOf[t], !.value = e.value]) /\ UNCHANGED got
       \/ /\ e.key = None
          /\ Goes(t, Older(t)) /\ UNCHANGED got
       \/ /\ e.key \notin {t, None}
          /\ Goes(t, [c EXCEPT !.i = (@ % Size(c.table)) + 1]) /\ UNCHANGED got
    /\ UNCHANGED <<tables, count, resizing, producers, calls>>

CountIn(t) ==
    /\ At(t, "count")
    /\ count' = count + 1
    /\ Goes(t, [at[t] EXCEPT !.pc = "insert", !.n = count + 1])
    /\ UNCHANGED <<tables, resizing, producers, got, calls>>

\* If the table is half full, one thread sees to a larger one.
Insert(t) ==
    /\ At(t, "insert")
    /\ IF at[t].n >= Size(at[t].main) \div 2 /\ ~resizing
       THEN resizing' = TRUE /\ Goes(t, [at[t] EXCEPT !.pc = "resize"])
       ELSE Goes(t, [at[t] EXCEPT !.pc = "fits"]) /\ UNCHANGED resizing
    /\ UNCHANGED <<tables, count, producers, got, calls>>

\* The newest table's size is doubled, and again until n is less than half of it: c is what comes of it.
IsNewCapacity(c, n) == LET size == Size(Len(tables)) IN
    /\ \E k \in 1..n : c = size * 2 ^ k
    /\ n < c \div 2 /\ (c = 2 * size \/ n >= c \div 4)

\* The newest table may be another by now, and large enough.
Resize(t) == LET c == at[t] IN
    /\ At(t, "resize")
    /\ \/ /\ c.n < Size(Len(tables)) \div 2
          /\ Goes(t, [c EXCEPT !.pc = "clear", !.main = Len(tables)])
          /\ UNCHANGED <<tables, count, resizing, got>>
       \/ /\ c.n >= Size(Len(tables)) \div 2 /\ Len(tables) < MaxTables
          /\ \E capacity \in (2 * Size(Len(tables)))..(4 * c.n) :
                IsNewCapacity(capacity, c.n) /\ tables' = Append(tables, NewTable(capacity))
          /\ Goes(t, [c EXCEPT !.pc = "clear", !.main = Len(tables) + 1])
          /\ UNCHANGED <<count, resizing, got>>
       \/ /\ c.n >= Size(Len(tables)) \div 2
          /\ count' = count - 1 /\ resizing' = FALSE
          /\ Answers(t, None)
          /\ UNCHANGED tables
    /\ UNCHANGED <<producers, calls>>

Clear(t) ==
    /\ At(t, "clear")
    /\ resizing' = FALSE /\ Goes(t, [at[t] EXCEPT !.pc = "fits"])
    /\ UNCHANGED <<tables, count, producers, got, calls>>

\* Variant: the table is filled to the last slot.
RoomToTheLast(t) == at[t].n <= Size(at[t].main)

\* Whether the table that the thread knows is less than three quarters full.
Room(t) == LET size == Size(at[t].main) IN at[t].n < (size \div 2) + (size \div 4)

\* A thread that has room gets a new producer; another one looks for a larger table.
Create(t) == LET c == at[t] IN
    /\ At(t, "fits")
    /\ \/ /\ Room(t)
          /\ producers' = Append(producers, t)
          /\ Goes(t, [c EXCEPT !.pc = "place", !.i = HashOf[t], !.value = Len(producers) + 1])
          /\ UNCHANGED <<count, got>>
       \/ /\ Room(t)
          /\ count' = count - 1
          /\ Answers(t, None)
          /\ UNCHANGED producers
       \/ /\ ~Room(t)
          /\ Goes(t, [c EXCEPT !.pc = "insert", !.main = Len(tables)])
          /\ UNCHANGED <<count, producers, got>>
    /\ UNCHANGED <<tables, resizing, calls>>

\* It takes the first free slot; one that is free may be taken by another first.
Place(t) == LET c == at[t] e == Probe(t, c.main) IN
    /\ At(t, "place")
    /\ IF e.key = None
       THEN /\ tables' = [tables EXCEPT ![c.main][Slot(t, c.main)] = [key |-> t, value |-> c.value]]
            /\ Answers(t, c.value)
       ELSE Goes(t, [c EXCEPT !.i = (@ % Size(c.main)) + 1]) /\ UNCHANGED <<tables, got>>
    /\ UNCHANGED <<count, resizing, producers, calls>>

Rest == calls = MaxCalls /\ (\A t \in Thread : At(t, "idle")) /\ UNCHANGED vars

Next ==
    \/ \E t \in Thread :
        Call(t) \/ Search(t) \/ CountIn(t) \/ Insert(t) \/ Resize(t) \/ Clear(t) \/ Create(t) \/ Place(t)
    \/ Rest

Spec == Init /\ [][Next]_vars

-----------------------------------------------------------------------------
\* A thread is answered the same producer each time, whichever table it finds itself in, and no other
\* thread is: a producer's blocks are filled by one thread.
OwnProducer == \A t \in Thread :
    /\ Cardinality(got[t]) <= 1
    /\ \A u \in Thread : u # t => got[t] \cap got[u] = {}

\* "Not an infinite loop because at least one slot is free in the hash table": in every table, while
\* larger ones are made, fail to be made, and threads add themselves to them again.
SlotFree == \A h \in DOMAIN tables : \E i \in DOMAIN tables[h] : tables[h][i].key = None

\* A thread finds its own producer, and its search ends.
ProducersKnown == OwnProducer /\ SlotFree

=============================================================================

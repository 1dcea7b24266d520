------------------------ MODULE ProducerHash_proofs ------------------------
(***************************************************************************)
(* ProducerHash.tla's invariants, for every number of threads and tables,  *)
(* every hash and every size.  The tables are reasoned about by two        *)
(* relations that only grow: what is in a slot stays in it, and so does    *)
(* the way to it, from where its key's hash points, through slots taken.   *)
(* After that, the other way to a producer: ProducerTokens.tla's           *)
(* properties, for any tokens and consumers.                               *)
(***************************************************************************)
EXTENDS ProducerHash, FiniteSetTheorems, FunctionTheorems, TLAPS

Entry == [key : Thread \cup {None}, value : Nat \cup {None}]
Table == UNION {[0..(c - 1) -> Entry] : c \in Nat \ {0}}
TakesPart == {"insert", "resize", "clear", "fits"}
Ats == [pc : {"idle", "search", "count", "place"} \cup TakesPart,
        main : Nat, table : Nat, i : Nat, n : Int, value : Nat \cup {None}]

TypeOK ==
    /\ tables \in Seq(Table) /\ tables # <<>>
    /\ count \in Int /\ resizing \in BOOLEAN /\ producers \in Seq(Thread)
    /\ at \in [Thread -> Ats] /\ got \in [Thread -> SUBSET Nat] /\ calls \in Nat

-----------------------------------------------------------------------------
\* One table T: its size, the slots taken, the way from one slot to another through slots taken, and
\* whether a thread is in it.
SizeOf(T) == Cardinality(DOMAIN T)
Taken(T) == {s \in DOMAIN T : T[s].key # None}
Way(T, from, to) == \E P \in SUBSET Taken(T) :
    from \in P \cup {to} /\ \A s \in P \ {to} : (s + 1) % SizeOf(T) \in P \cup {to}
Home(T, t) == HashOf[t] % SizeOf(T)
HoldsIn(T, t) == \E s \in DOMAIN T : T[s].key = t
Put(T, s, t, v) == [T EXCEPT ![s] = [key |-> t, value |-> v]]

\* A table has its domain from zero on, and a size.
LEMMA TableFacts ==
    ASSUME NEW T \in Table
    PROVE  /\ SizeOf(T) \in Nat \ {0} /\ DOMAIN T = 0..(SizeOf(T) - 1) /\ IsFiniteSet(DOMAIN T)
           /\ \A s \in DOMAIN T : T[s] \in Entry
<1>1. PICK c \in Nat \ {0} : T \in [0..(c - 1) -> Entry]
  BY DEF Table
<1>2. SizeOf(T) = c /\ IsFiniteSet(DOMAIN T)
  <2>1. DOMAIN T = 0..(c - 1)
    BY <1>1
  <2>2. Cardinality(0..(c - 1)) = (c - 1) - 0 + 1 /\ IsFiniteSet(0..(c - 1))
    BY <1>1, FS_Interval
  <2> QED
    BY <2>1, <2>2, <1>1 DEF SizeOf
<1> QED
  BY <1>1, <1>2

\* Where a thread looks is a slot of the table, and the one after it as well.
LEMMA SlotFacts ==
    ASSUME NEW T \in Table, NEW i \in Nat
    PROVE  i % SizeOf(T) \in DOMAIN T
BY TableFacts

\* A new table is a table of that size, and nothing is in it.
LEMMA NewTableFacts ==
    ASSUME NEW c \in Nat \ {0}
    PROVE  /\ NewTable(c) \in Table /\ SizeOf(NewTable(c)) = c
           /\ \A s \in DOMAIN NewTable(c) : NewTable(c)[s].key = None
<1>1. NewTable(c) \in [0..(c - 1) -> Entry]
  BY DEF NewTable, Free, Entry
<1>2. Cardinality(0..(c - 1)) = (c - 1) - 0 + 1
  BY FS_Interval
<1> QED
  BY <1>1, <1>2 DEF NewTable, Free, Table, SizeOf

\* What is put into a table leaves its slots.
LEMMA PutFacts ==
    ASSUME NEW T \in Table, NEW s \in DOMAIN T, NEW t \in Thread, NEW v \in Nat
    PROVE  /\ Put(T, s, t, v) \in Table /\ DOMAIN Put(T, s, t, v) = DOMAIN T
           /\ Put(T, s, t, v)[s] = [key |-> t, value |-> v]
           /\ \A r \in DOMAIN T \ {s} : Put(T, s, t, v)[r] = T[r]
<1>1. PICK c \in Nat \ {0} : T \in [0..(c - 1) -> Entry]
  BY DEF Table
<1>2. Put(T, s, t, v) \in [0..(c - 1) -> Entry]
  BY <1>1 DEF Put, Entry
<1> QED
  BY <1>1, <1>2 DEF Table, Put

\* From a slot to itself no slot need be taken.
LEMMA WayHere == ASSUME NEW T, NEW s PROVE Way(T, s, s)
<1>1. {} \in SUBSET Taken(T) /\ s \in {} \cup {s} /\ \A r \in {} \ {s} : (r + 1) % SizeOf(T) \in {} \cup {s}
  OBVIOUS
<1> QED
  BY <1>1, Zenon DEF Way

\* A way stays, as slots stay taken.
LEMMA WayStays ==
    ASSUME NEW T, NEW U, DOMAIN U = DOMAIN T, Taken(T) \subseteq Taken(U), NEW from, NEW to, Way(T, from, to)
    PROVE  Way(U, from, to)
<1>1. PICK P \in SUBSET Taken(T) :
        from \in P \cup {to} /\ \A s \in P \ {to} : (s + 1) % SizeOf(T) \in P \cup {to}
  BY DEF Way
<1>2. SizeOf(U) = SizeOf(T)
  BY DEF SizeOf
<1>3. P \in SUBSET Taken(U)
  BY <1>1
<1> QED
  BY <1>1, <1>2, <1>3 DEF Way

\* A way to a slot goes on from a slot that is another one, and that one is taken.
LEMMA WayGoesOn ==
    ASSUME NEW T, NEW from, NEW to, Way(T, from, to), from # to
    PROVE  from \in Taken(T) /\ Way(T, (from + 1) % SizeOf(T), to)
<1>1. PICK P \in SUBSET Taken(T) :
        from \in P \cup {to} /\ \A s \in P \ {to} : (s + 1) % SizeOf(T) \in P \cup {to}
  BY DEF Way
<1> QED
  BY <1>1 DEF Way

\* A way leads on by one slot, if the one it leads to is taken.
LEMMA WayLeadsOn ==
    ASSUME NEW T, NEW from, NEW to \in Taken(T), Way(T, from, to)
    PROVE  Way(T, from, (to + 1) % SizeOf(T))
<1>1. PICK P \in SUBSET Taken(T) :
        from \in P \cup {to} /\ \A s \in P \ {to} : (s + 1) % SizeOf(T) \in P \cup {to}
  BY DEF Way
<1> DEFINE Q == P \cup {to}
<1>2. Q \in SUBSET Taken(T)
  BY <1>1
<1>3. \A s \in Q : s = to \/ (s + 1) % SizeOf(T) \in Q
  BY <1>1
<1>4. \A s \in Q \ {(to + 1) % SizeOf(T)} : (s + 1) % SizeOf(T) \in Q \cup {(to + 1) % SizeOf(T)}
  BY <1>3
<1>5. from \in Q \cup {(to + 1) % SizeOf(T)}
  BY <1>1
<1> QED
  BY <1>2, <1>4, <1>5 DEF Way

-----------------------------------------------------------------------------
(***************************************************************************)
(* The inductive invariant of OwnProducer.  What is in a slot is its key's *)
(* producer, found from where the key's hash points, and a key is in a     *)
(* table once.  A thread that searches is in no newer table, and ahead of  *)
(* it in this one if it is there at all.  One that adds itself has no      *)
(* producer, or the one it brings.                                         *)
(***************************************************************************)
Has(ps, t) == \E p \in DOMAIN ps : ps[p] = t

TableOK(T, ps) == \A s \in Taken(T) :
    /\ T[s].key \in Thread
    /\ T[s].value \in DOMAIN ps /\ ps[T[s].value] = T[s].key
    /\ Way(T, Home(T, T[s].key), s)
    /\ \A r \in Taken(T) : T[r].key = T[s].key => r = s

SearchOK(t, c, ts) ==
    /\ c.main \in DOMAIN ts /\ c.table \in DOMAIN ts /\ c.table <= c.main
    /\ \A h \in DOMAIN ts : h > c.table => ~HoldsIn(ts[h], t)
    /\ \A s \in DOMAIN ts[c.table] :
        ts[c.table][s].key = t => Way(ts[c.table], c.i % SizeOf(ts[c.table]), s)

PlaceOK(t, c, ts, ps) ==
    /\ c.main \in DOMAIN ts /\ c.value \in DOMAIN ps /\ ps[c.value] = t
    /\ \A h \in DOMAIN ts : h >= c.main => ~HoldsIn(ts[h], t)
    /\ Way(ts[c.main], Home(ts[c.main], t), c.i % SizeOf(ts[c.main]))

ThreadOK(t, c, ts, ps) ==
    /\ c.pc = "search" => SearchOK(t, c, ts)
    /\ c.pc \in TakesPart \cup {"count"} => c.main \in DOMAIN ts /\ ~Has(ps, t)
    /\ c.pc = "place" => PlaceOK(t, c, ts, ps)

ProducersInv == \A p, q \in DOMAIN producers : producers[p] = producers[q] => p = q
TablesInv == \A h \in DOMAIN tables : TableOK(tables[h], producers)
ThreadsInv == \A t \in Thread : ThreadOK(t, at[t], tables, producers)
KnownInv == \A t \in Thread :
    Has(producers, t) => At(t, "place") \/ \E h \in DOMAIN tables : HoldsIn(tables[h], t)
GotInv == \A t \in Thread : \A p \in got[t] : p \in DOMAIN producers /\ producers[p] = t

OwnInv == TypeOK /\ ProducersInv /\ TablesInv /\ ThreadsInv /\ KnownInv /\ GotInv

-----------------------------------------------------------------------------
\* What every step does: it takes nothing out of a slot and forgets no producer.
Keeps(ts, us) ==
    /\ DOMAIN ts \subseteq DOMAIN us
    /\ \A h \in DOMAIN ts :
        /\ DOMAIN us[h] = DOMAIN ts[h]
        /\ \A s \in Taken(ts[h]) : us[h][s] = ts[h][s]
Knows(ps, qs) == DOMAIN ps \subseteq DOMAIN qs /\ \A p \in DOMAIN ps : qs[p] = ps[p]

\* Nothing of thread t's is added.
NoneOf(t, ts, us) == \A h \in DOMAIN us : \A s \in DOMAIN us[h] :
    us[h][s].key = t => h \in DOMAIN ts /\ s \in DOMAIN ts[h] /\ ts[h][s].key = t

\* What is known of a thread stays known while others move.
LEMMA ThreadStays ==
    ASSUME NEW t \in Thread, NEW c, NEW ts, NEW us, NEW ps, NEW qs,
           Keeps(ts, us), Knows(ps, qs), NoneOf(t, ts, us), Has(qs, t) => Has(ps, t),
           ThreadOK(t, c, ts, ps)
    PROVE  ThreadOK(t, c, us, qs)
<1>0. t # None
  BY ThreadAssumption
<1>1. \A h \in DOMAIN ts : SizeOf(us[h]) = SizeOf(ts[h]) /\ Taken(ts[h]) \subseteq Taken(us[h])
  BY DEF Keeps, SizeOf, Taken
<1>2. \A h \in DOMAIN us : HoldsIn(us[h], t) => h \in DOMAIN ts /\ HoldsIn(ts[h], t)
  BY DEF NoneOf, HoldsIn
<1>3. \A h \in DOMAIN ts : \A from, to : Way(ts[h], from, to) => Way(us[h], from, to)
  BY <1>1, WayStays DEF Keeps
<1>4. CASE c.pc = "search"
  <2>1. SearchOK(t, c, ts)
    BY <1>4 DEF ThreadOK
  <2>2. /\ c.main \in DOMAIN us /\ c.table \in DOMAIN us /\ c.table <= c.main
        /\ \A h \in DOMAIN us : h > c.table => ~HoldsIn(us[h], t)
    BY <2>1, <1>2 DEF SearchOK, Keeps
  <2>3. ASSUME NEW s \in DOMAIN us[c.table], us[c.table][s].key = t
        PROVE  Way(us[c.table], c.i % SizeOf(us[c.table]), s)
    <3>1. c.table \in DOMAIN ts /\ s \in DOMAIN ts[c.table] /\ ts[c.table][s].key = t
      BY <2>2, <2>3 DEF NoneOf
    <3> QED
      BY <3>1, <2>1, <1>1, <1>3 DEF SearchOK, Keeps
  <2> QED
    BY <2>2, <2>3, <1>4 DEF ThreadOK, SearchOK, TakesPart
<1>5. CASE c.pc \in TakesPart \cup {"count"}
  BY <1>5 DEF ThreadOK, TakesPart, Keeps
<1>6. CASE c.pc = "place"
  <2>1. PlaceOK(t, c, ts, ps)
    BY <1>6 DEF ThreadOK
  <2>2. c.main \in DOMAIN us /\ c.value \in DOMAIN qs /\ qs[c.value] = t
    BY <2>1 DEF PlaceOK, Keeps, Knows
  <2>3. \A h \in DOMAIN us : h >= c.main => ~HoldsIn(us[h], t)
    BY <2>1, <1>2 DEF PlaceOK
  <2>4. Way(us[c.main], Home(us[c.main], t), c.i % SizeOf(us[c.main]))
    BY <2>1, <1>1, <1>3 DEF PlaceOK, Home
  <2> QED
    BY <2>2, <2>3, <2>4, <1>6 DEF ThreadOK, PlaceOK, TakesPart
<1> QED
  BY <1>4, <1>5, <1>6 DEF ThreadOK

-----------------------------------------------------------------------------
\* Every table is one, with the size the code reads.
LEMMA TableIsTable ==
    ASSUME TypeOK, NEW h \in DOMAIN tables
    PROVE  tables[h] \in Table /\ Size(h) = SizeOf(tables[h]) /\ Size(h) \in Nat \ {0}
<1>1. tables[h] \in Table
  BY DEF TypeOK
<1> QED
  BY <1>1, TableFacts DEF Size, SizeOf

\* The slot a thread looks at is one of the table's, and what is in it is an entry.
LEMMA SlotIsSlot ==
    ASSUME TypeOK, NEW t \in Thread, NEW h \in DOMAIN tables
    PROVE  /\ Slot(t, h) = at[t].i % SizeOf(tables[h]) /\ Slot(t, h) \in DOMAIN tables[h]
           /\ Probe(t, h) = tables[h][Slot(t, h)] /\ Probe(t, h) \in Entry
<1>1. at[t].i \in Nat
  BY DEF TypeOK, Ats
<1>2. tables[h] \in Table /\ Size(h) = SizeOf(tables[h])
  BY TableIsTable
<1>3. at[t].i % SizeOf(tables[h]) \in DOMAIN tables[h]
  BY <1>1, <1>2, SlotFacts
<1> QED
  BY <1>2, <1>3, TableFacts DEF Slot, Probe

\* The tables after a larger one was put in front of them.
LEMMA AppendFacts ==
    ASSUME TypeOK, NEW capacity \in Nat \ {0}, tables' = Append(tables, NewTable(capacity))
    PROVE  /\ tables' \in Seq(Table) /\ tables' # <<>> /\ Len(tables') = Len(tables) + 1
           /\ DOMAIN tables' = DOMAIN tables \cup {Len(tables) + 1}
           /\ \A h \in DOMAIN tables : tables'[h] = tables[h]
           /\ tables'[Len(tables) + 1] = NewTable(capacity)
<1>1. NewTable(capacity) \in Table /\ tables \in Seq(Table)
  BY NewTableFacts DEF TypeOK
<1>2. ASSUME NEW S, NEW s \in Seq(S), NEW e \in S
      PROVE  /\ Append(s, e) \in Seq(S) /\ Len(Append(s, e)) = Len(s) + 1
             /\ DOMAIN Append(s, e) = DOMAIN s \cup {Len(s) + 1}
             /\ \A h \in DOMAIN s : Append(s, e)[h] = s[h]
             /\ Append(s, e)[Len(s) + 1] = e
  OBVIOUS
<1>3. /\ tables' \in Seq(Table) /\ Len(tables') = Len(tables) + 1
      /\ DOMAIN tables' = DOMAIN tables \cup {Len(tables) + 1}
      /\ \A h \in DOMAIN tables : tables'[h] = tables[h]
      /\ tables'[Len(tables) + 1] = NewTable(capacity)
  BY <1>1, <1>2
<1>4. Len(tables) \in Nat
  BY <1>1
<1>5. tables' # <<>>
  BY <1>3, <1>4
<1> QED
  BY <1>3, <1>5

\* The tables after a thread put itself into one of them.
LEMMA PutInFacts ==
    ASSUME TypeOK, NEW t \in Thread, NEW h \in DOMAIN tables, NEW s \in DOMAIN tables[h], NEW v \in Nat,
           tables' = [tables EXCEPT ![h] = Put(tables[h], s, t, v)]
    PROVE  /\ tables' \in Seq(Table) /\ tables' # <<>> /\ DOMAIN tables' = DOMAIN tables /\ Len(tables') = Len(tables)
           /\ tables'[h] = Put(tables[h], s, t, v)
           /\ \A g \in DOMAIN tables \ {h} : tables'[g] = tables[g]
<1>1. tables[h] \in Table
  BY TableIsTable
<1>2. Put(tables[h], s, t, v) \in Table
  BY <1>1, PutFacts
<1>3. tables' = [tables EXCEPT ![h] = Put(tables[h], s, t, v)]
  OBVIOUS
<1>4. tables \in Seq(Table) /\ tables # <<>> /\ h \in DOMAIN tables
  BY DEF TypeOK
<1>5. ASSUME NEW S, NEW s1 \in Seq(S), NEW e \in S, NEW i \in DOMAIN s1
      PROVE  /\ [s1 EXCEPT ![i] = e] \in Seq(S) /\ DOMAIN [s1 EXCEPT ![i] = e] = DOMAIN s1
             /\ Len([s1 EXCEPT ![i] = e]) = Len(s1)
             /\ [s1 EXCEPT ![i] = e][i] = e /\ \A g \in DOMAIN s1 \ {i} : [s1 EXCEPT ![i] = e][g] = s1[g]
  OBVIOUS
<1>6. /\ tables' \in Seq(Table) /\ DOMAIN tables' = DOMAIN tables /\ Len(tables') = Len(tables)
      /\ tables'[h] = Put(tables[h], s, t, v)
      /\ \A g \in DOMAIN tables \ {h} : tables'[g] = tables[g]
  <2>1. PICK U : U = Put(tables[h], s, t, v)
    OBVIOUS
  <2>2. U \in Table /\ tables' = [tables EXCEPT ![h] = U]
    BY <1>2, <1>3, <2>1
  <2>3. /\ [tables EXCEPT ![h] = U] \in Seq(Table) /\ DOMAIN [tables EXCEPT ![h] = U] = DOMAIN tables
        /\ Len([tables EXCEPT ![h] = U]) = Len(tables)
        /\ [tables EXCEPT ![h] = U][h] = U
        /\ \A g \in DOMAIN tables \ {h} : [tables EXCEPT ![h] = U][g] = tables[g]
    BY <2>2, <1>4, <1>5
  <2> QED
    BY <2>1, <2>2, <2>3
<1>7. tables' # <<>>
  BY <1>4, <1>6
<1> QED
  BY <1>6, <1>7

-----------------------------------------------------------------------------
LEMMA InitTyped == Init => TypeOK
<1> SUFFICES ASSUME Init PROVE TypeOK
  OBVIOUS
<1>1. NewTable(FirstSize) \in Table
  BY HashAssumption, NewTableFacts
<1>2. tables \in Seq(Table) /\ tables # <<>>
  BY <1>1 DEF Init
<1>3. at \in [Thread -> Ats]
  BY DEF Init, Idle, Ats
<1>4. got \in [Thread -> SUBSET Nat]
  BY DEF Init
<1>6. producers \in Seq(Thread)
  BY DEF Init
<1>5. count \in Int /\ calls \in Nat
  BY DEF Init
<1>8. resizing \in BOOLEAN
  BY Zenon DEF Init
<1>7. tables # <<>>
  BY <1>2
<1> QED
  BY <1>2, <1>3, <1>4, <1>5, <1>6, <1>7, <1>8, Zenon DEF TypeOK

\* What a call goes on with, and what it answers, has its type.
LEMMA StepTyped ==
    ASSUME TypeOK, NEW t \in Thread, NEW c \in Ats, NEW g \in SUBSET Nat,
           at' = [at EXCEPT ![t] = c], got' = [got EXCEPT ![t] = g] \/ UNCHANGED got
    PROVE  at' \in [Thread -> Ats] /\ got' \in [Thread -> SUBSET Nat]
BY DEF TypeOK

LEMMA AnswerTyped ==
    ASSUME TypeOK, NEW t \in Thread, NEW p \in Nat \cup {None}, Answers(t, p)
    PROVE  at' \in [Thread -> Ats] /\ got' \in [Thread -> SUBSET Nat]
<1>1. Idle \in Ats
  BY DEF Idle, Ats
<1>2. got[t] \cup ({p} \ {None}) \in SUBSET Nat
  BY DEF TypeOK
<1>3. got' = [got EXCEPT ![t] = got[t] \cup ({p} \ {None})] /\ at' = [at EXCEPT ![t] = Idle]
  BY DEF Answers, Goes, TypeOK
<1> QED
  BY <1>1, <1>2, <1>3 DEF TypeOK

LEMMA NextTyped == OwnInv /\ [Next]_vars => TypeOK'
<1> SUFFICES ASSUME OwnInv, [Next]_vars PROVE TypeOK'
  OBVIOUS
<1>0. TypeOK /\ ThreadsInv
  BY DEF OwnInv
<1>1. ASSUME NEW t \in Thread, Call(t) PROVE TypeOK'
  <2>1. HashOf[t] \in Nat /\ Len(tables) \in Nat
    BY <1>0, HashAssumption DEF TypeOK
  <2>2. [Idle EXCEPT !.pc = "search", !.main = Len(tables), !.table = Len(tables), !.i = HashOf[t]] \in Ats
    <3>1. ASSUME NEW l \in Nat, NEW i \in Nat, NEW c \in Ats
          PROVE  [c EXCEPT !.pc = "search", !.main = l, !.table = l, !.i = i] \in Ats
      BY DEF Ats
    <3>2. Idle \in Ats
      BY DEF Idle, Ats
    <3> QED
      BY <2>1, <3>1, <3>2
  <2>3. at' \in [Thread -> Ats]
    BY <1>0, <1>1, <2>2 DEF Call, Goes, TypeOK
  <2>4. calls' \in Nat
    BY <1>0, <1>1 DEF Call, TypeOK
  <2> QED
    BY <1>0, <1>1, <2>3, <2>4, Zenon DEF Call, TypeOK
<1>2. ASSUME NEW t \in Thread, Search(t) PROVE TypeOK'
  <2>1. at[t].table \in DOMAIN tables /\ at[t].pc = "search"
    BY <1>0, <1>2 DEF Search, At, ThreadsInv, ThreadOK, SearchOK
  <2>2. Probe(t, at[t].table).value \in Nat \cup {None} /\ Size(at[t].table) \in Nat \ {0}
    <3>1. Probe(t, at[t].table) \in Entry /\ Size(at[t].table) \in Nat \ {0}
      BY <1>0, <2>1, SlotIsSlot, TableIsTable
    <3> QED
      BY <3>1 DEF Entry
  <2>3. at[t] \in Ats /\ HashOf[t] \in Nat /\ at[t].i \in Nat
    BY <1>0, HashAssumption DEF TypeOK, Ats
  <2>4. (at[t].i % Size(at[t].table)) + 1 \in Nat
    BY <2>2, <2>3
  <2>5. /\ [at[t] EXCEPT !.pc = "place", !.i = HashOf[t], !.value = Probe(t, at[t].table).value] \in Ats
        /\ [at[t] EXCEPT !.i = (at[t].i % Size(at[t].table)) + 1] \in Ats
    BY <2>2, <2>3, <2>4 DEF Ats
  <2>6. Older(t) \in Ats
    <3>1. at[t].table # 1 => at[t].table - 1 \in Nat
      BY <1>0, <2>1 DEF TypeOK
    <3>2. [at[t] EXCEPT !.pc = "count"] \in Ats
      BY <2>3 DEF Ats
    <3>3. at[t].table # 1 => [at[t] EXCEPT !.table = at[t].table - 1, !.i = HashOf[t]] \in Ats
      BY <2>3, <3>1 DEF Ats
    <3> QED
      BY <3>2, <3>3 DEF Older
  <2>7. at' \in [Thread -> Ats] /\ got' \in [Thread -> SUBSET Nat]
    <3>1. CASE Answers(t, Probe(t, at[t].table).value)
      BY <1>0, <2>2, <3>1, AnswerTyped
    <3>2. CASE /\ UNCHANGED got
               /\ \/ Goes(t, [at[t] EXCEPT !.pc = "place", !.i = HashOf[t], !.value = Probe(t, at[t].table).value])
                  \/ Goes(t, Older(t))
                  \/ Goes(t, [at[t] EXCEPT !.i = (at[t].i % Size(at[t].table)) + 1])
      BY <1>0, <2>5, <2>6, <3>2 DEF Goes, TypeOK
    <3> QED
      BY <1>2, <3>1, <3>2, Zenon DEF Search
  <2> QED
    BY <1>0, <1>2, <2>7, Zenon DEF Search, TypeOK
<1>3. ASSUME NEW t \in Thread, CountIn(t) PROVE TypeOK'
  <2>1. at[t] \in Ats /\ count + 1 \in Int
    BY <1>0 DEF TypeOK
  <2>2. [at[t] EXCEPT !.pc = "insert", !.n = count + 1] \in Ats
    BY <2>1 DEF Ats, TakesPart
  <2>3. at' \in [Thread -> Ats]
    BY <1>0, <1>3, <2>2 DEF CountIn, Goes, TypeOK
  <2>4. count' \in Int
    BY <1>3, <2>1 DEF CountIn
  <2> QED
    BY <1>0, <1>3, <2>3, <2>4, Zenon DEF CountIn, TypeOK
<1>4. ASSUME NEW t \in Thread, Insert(t) PROVE TypeOK'
  <2>1. [at[t] EXCEPT !.pc = "resize"] \in Ats /\ [at[t] EXCEPT !.pc = "fits"] \in Ats
    BY <1>0 DEF TypeOK, Ats, TakesPart
  <2>2. at' \in [Thread -> Ats]
    BY <1>0, <1>4, <2>1 DEF Insert, Goes, TypeOK
  <2>3. resizing' \in BOOLEAN
    BY <1>0, <1>4, Zenon DEF Insert, TypeOK
  <2> QED
    BY <1>0, <1>4, <2>2, <2>3, Zenon DEF Insert, TypeOK
<1>5. ASSUME NEW t \in Thread, Resize(t) PROVE TypeOK'
  <2>1. at[t] \in Ats /\ Len(tables) \in Nat /\ tables \in Seq(Table) /\ tables # <<>>
    BY <1>0 DEF TypeOK
  <2>2. /\ [at[t] EXCEPT !.pc = "clear", !.main = Len(tables)] \in Ats
        /\ [at[t] EXCEPT !.pc = "clear", !.main = Len(tables) + 1] \in Ats
    <3>1. ASSUME NEW l \in Nat PROVE [at[t] EXCEPT !.pc = "clear", !.main = l] \in Ats
      BY <2>1 DEF Ats, TakesPart
    <3>2. Len(tables) + 1 \in Nat
      BY <2>1
    <3> QED
      BY <2>1, <3>1, <3>2
  <2>3. at' \in [Thread -> Ats] /\ got' \in [Thread -> SUBSET Nat]
    <3>1. CASE Answers(t, None)
      BY <1>0, <3>1, AnswerTyped
    <3>2. CASE /\ UNCHANGED got
               /\ \/ Goes(t, [at[t] EXCEPT !.pc = "clear", !.main = Len(tables)])
                  \/ Goes(t, [at[t] EXCEPT !.pc = "clear", !.main = Len(tables) + 1])
      BY <1>0, <2>2, <3>2 DEF Goes, TypeOK
    <3> QED
      BY <1>5, <3>1, <3>2, Zenon DEF Resize
  <2>4. tables' \in Seq(Table) /\ tables' # <<>>
    <3>1. CASE UNCHANGED tables
      BY <2>1, <3>1
    <3>2. ASSUME NEW capacity \in (2 * Size(Len(tables)))..(4 * at[t].n), tables' = Append(tables, NewTable(capacity))
          PROVE  tables' \in Seq(Table) /\ tables' # <<>>
      <4>1. Len(tables) \in DOMAIN tables
        BY <2>1
      <4>2. Size(Len(tables)) \in Nat \ {0} /\ at[t].n \in Int
        BY <1>0, <2>1, <4>1, TableIsTable DEF Ats
      <4>3. capacity \in Nat \ {0}
        BY <4>2
      <4> QED
        BY <1>0, <3>2, <4>3, AppendFacts
    <3> QED
      BY <1>5, <3>1, <3>2 DEF Resize
  <2>5. count' \in Int
    BY <1>0, <1>5 DEF Resize, TypeOK
  <2>6. resizing' \in BOOLEAN
    BY <1>0, <1>5, Zenon DEF Resize, TypeOK
  <2> QED
    BY <1>0, <1>5, <2>3, <2>4, <2>5, <2>6, Zenon DEF Resize, TypeOK
<1>6. ASSUME NEW t \in Thread, Clear(t) PROVE TypeOK'
  <2>1. [at[t] EXCEPT !.pc = "fits"] \in Ats
    BY <1>0 DEF TypeOK, Ats, TakesPart
  <2>2. at' \in [Thread -> Ats]
    BY <1>0, <1>6, <2>1 DEF Clear, Goes, TypeOK
  <2>3. resizing' \in BOOLEAN
    BY <1>6, Zenon DEF Clear
  <2> QED
    BY <1>0, <1>6, <2>2, <2>3, Zenon DEF Clear, TypeOK
<1>7. ASSUME NEW t \in Thread, Create(t) PROVE TypeOK'
  <2>1. /\ at[t] \in Ats /\ Len(tables) \in Nat /\ HashOf[t] \in Nat
        /\ producers \in Seq(Thread) /\ Len(producers) + 1 \in Nat
    BY <1>0, HashAssumption DEF TypeOK
  <2>2. /\ [at[t] EXCEPT !.pc = "place", !.i = HashOf[t], !.value = Len(producers) + 1] \in Ats
        /\ [at[t] EXCEPT !.pc = "insert", !.main = Len(tables)] \in Ats
    BY <2>1 DEF Ats, TakesPart
  <2>3. at' \in [Thread -> Ats] /\ got' \in [Thread -> SUBSET Nat]
    <3>1. CASE Answers(t, None)
      BY <1>0, <3>1, AnswerTyped
    <3>2. CASE /\ UNCHANGED got
               /\ \/ Goes(t, [at[t] EXCEPT !.pc = "place", !.i = HashOf[t], !.value = Len(producers) + 1])
                  \/ Goes(t, [at[t] EXCEPT !.pc = "insert", !.main = Len(tables)])
      BY <1>0, <2>2, <3>2 DEF Goes, TypeOK
    <3> QED
      BY <1>7, <3>1, <3>2, Zenon DEF Create
  <2>4. producers' \in Seq(Thread)
    BY <1>7, <2>1 DEF Create
  <2>5. count' \in Int
    BY <1>0, <1>7 DEF Create, TypeOK
  <2> QED
    BY <1>0, <1>7, <2>3, <2>4, <2>5, Zenon DEF Create, TypeOK
<1>8. ASSUME NEW t \in Thread, Place(t) PROVE TypeOK'
  <2>1. at[t].main \in DOMAIN tables /\ at[t].value \in DOMAIN producers
    BY <1>0, <1>8 DEF Place, At, ThreadsInv, ThreadOK, PlaceOK
  <2>2. at[t] \in Ats /\ at[t].value \in Nat /\ at[t].i \in Nat
    <3>1. at[t] \in Ats /\ DOMAIN producers \subseteq Nat
      BY <1>0 DEF TypeOK
    <3> QED
      BY <2>1, <3>1 DEF Ats
  <2>3. /\ Slot(t, at[t].main) \in DOMAIN tables[at[t].main] /\ Size(at[t].main) \in Nat \ {0}
    BY <1>0, <2>1, SlotIsSlot, TableIsTable
  <2>4. CASE /\ tables' = [tables EXCEPT ![at[t].main][Slot(t, at[t].main)] = [key |-> t, value |-> at[t].value]]
             /\ Answers(t, at[t].value)
    <3>1. tables' \in Seq(Table) /\ tables' # <<>>
      <4>1. tables' = [tables EXCEPT ![at[t].main] = Put(tables[at[t].main], Slot(t, at[t].main), t, at[t].value)]
        BY <2>4 DEF Put
      <4> QED
        BY <1>0, <2>1, <2>2, <2>3, <4>1, PutInFacts
    <3>2. at' \in [Thread -> Ats] /\ got' \in [Thread -> SUBSET Nat]
      BY <1>0, <2>2, <2>4, AnswerTyped
    <3> QED
      BY <1>0, <1>8, <3>1, <3>2, Zenon DEF Place, TypeOK
  <2>5. CASE /\ Goes(t, [at[t] EXCEPT !.i = (at[t].i % Size(at[t].main)) + 1])
             /\ UNCHANGED <<tables, got>>
    <3>1. (at[t].i % Size(at[t].main)) + 1 \in Nat
      BY <2>2, <2>3
    <3>2. [at[t] EXCEPT !.i = (at[t].i % Size(at[t].main)) + 1] \in Ats
      BY <2>2, <3>1 DEF Ats
    <3>3. at' \in [Thread -> Ats]
      BY <1>0, <2>5, <3>2 DEF Goes, TypeOK
    <3> QED
      BY <1>0, <1>8, <2>5, <3>3, Zenon DEF Place, TypeOK
  <2> QED
    BY <1>8, <2>4, <2>5, Zenon DEF Place
<1>9. CASE UNCHANGED vars
  BY <1>0, <1>9, Zenon DEF vars, TypeOK
<1> QED
  BY <1>1, <1>2, <1>3, <1>4, <1>5, <1>6, <1>7, <1>8, <1>9, Zenon DEF Next, Rest

-----------------------------------------------------------------------------
\* A thread moves, and neither tables nor producers change.
LEMMA MoveKeeps ==
    ASSUME OwnInv, TypeOK', NEW t \in Thread, NEW c, at' = [at EXCEPT ![t] = c],
           UNCHANGED <<tables, producers>>, ThreadOK(t, c, tables, producers),
           at[t].pc = "place" => c.pc = "place",
           \A u \in Thread \ {t} : got'[u] = got[u],
           \A p \in got'[t] : p \in DOMAIN producers /\ producers[p] = t
    PROVE  OwnInv'
<1>1. at'[t] = c /\ \A u \in Thread \ {t} : at'[u] = at[u]
  BY DEF OwnInv, TypeOK
<1>2. ThreadsInv'
  BY <1>1 DEF OwnInv, ThreadsInv
<1>3. KnownInv'
  <2> SUFFICES ASSUME NEW u \in Thread, Has(producers, u)
               PROVE  at'[u].pc = "place" \/ \E h \in DOMAIN tables : HoldsIn(tables[h], u)
    BY Zenon DEF KnownInv, At
  <2>1. at[u].pc = "place" \/ \E h \in DOMAIN tables : HoldsIn(tables[h], u)
    BY DEF OwnInv, KnownInv, At
  <2> QED
    BY <1>1, <2>1
<1>4. GotInv'
  <2> SUFFICES ASSUME NEW u \in Thread, NEW p \in got'[u] PROVE p \in DOMAIN producers /\ producers[p] = u
    BY Zenon DEF GotInv
  <2>1. u # t => p \in got[u]
    OBVIOUS
  <2> QED
    BY <2>1 DEF OwnInv, GotInv
<1>5. ProducersInv' /\ TablesInv'
  BY Zenon DEF OwnInv, ProducersInv, TablesInv
<1> QED
  BY <1>2, <1>3, <1>4, <1>5, Zenon DEF OwnInv

\* What a thread is answered is its own.
LEMMA AnswerFacts ==
    ASSUME TypeOK, NEW t \in Thread, NEW p, Answers(t, p)
    PROVE  /\ at' = [at EXCEPT ![t] = Idle] /\ \A u \in Thread \ {t} : got'[u] = got[u]
           /\ got'[t] \subseteq got[t] \cup ({p} \ {None})
BY Zenon DEF Answers, Goes, TypeOK

LEMMA IdleOK ==
    ASSUME NEW t, NEW ts, NEW ps
    PROVE  ThreadOK(t, Idle, ts, ps) /\ Idle.pc = "idle"
BY DEF ThreadOK, Idle, TakesPart

LEMMA FailureKeeps ==
    ASSUME OwnInv, TypeOK', NEW t \in Thread, at[t].pc # "place", Answers(t, None), UNCHANGED <<tables, producers>>
    PROVE  OwnInv'
<1>1. TypeOK /\ GotInv
  BY DEF OwnInv
<1>2. /\ at' = [at EXCEPT ![t] = Idle] /\ \A u \in Thread \ {t} : got'[u] = got[u]
      /\ got'[t] \subseteq got[t]
  <2>1. got'[t] \subseteq got[t] \cup ({None} \ {None})
    BY <1>1, AnswerFacts
  <2> QED
    BY <1>1, <2>1, AnswerFacts
<1>3. \A p \in got'[t] : p \in DOMAIN producers /\ producers[p] = t
  BY <1>1, <1>2 DEF GotInv
<1> QED
  BY <1>2, <1>3, IdleOK, MoveKeeps, Zenon

LEMMA CallKeeps == ASSUME OwnInv, TypeOK', NEW t \in Thread, Call(t) PROVE OwnInv'
<1> DEFINE c == [Idle EXCEPT !.pc = "search", !.main = Len(tables), !.table = Len(tables), !.i = HashOf[t]]
<1>1. TypeOK /\ TablesInv /\ GotInv
  BY DEF OwnInv
<1>2. c.pc = "search" /\ c.main = Len(tables) /\ c.table = Len(tables) /\ c.i = HashOf[t]
  BY DEF Idle
<1>3. /\ DOMAIN tables = 1..Len(tables) /\ Len(tables) \in DOMAIN tables
      /\ \A h \in DOMAIN tables : ~(h > Len(tables))
  BY <1>1 DEF TypeOK
<1>4. ASSUME NEW s \in DOMAIN tables[Len(tables)], tables[Len(tables)][s].key = t
      PROVE  Way(tables[Len(tables)], HashOf[t] % SizeOf(tables[Len(tables)]), s)
  <2>1. s \in Taken(tables[Len(tables)])
    BY <1>4, ThreadAssumption DEF Taken
  <2> QED
    BY <1>1, <1>3, <1>4, <2>1 DEF TablesInv, TableOK, Home
<1>5. Len(tables) <= Len(tables)
  BY <1>1 DEF TypeOK
<1> HIDE DEF c
<1>6. SearchOK(t, c, tables)
  BY <1>2, <1>3, <1>4, <1>5 DEF SearchOK
<1>7. ThreadOK(t, c, tables, producers)
  BY <1>2, <1>6 DEF ThreadOK, TakesPart
<1>8. at' = [at EXCEPT ![t] = c] /\ UNCHANGED <<tables, producers, got>> /\ at[t].pc # "place"
  BY DEF Call, Goes, c, At
<1>9. \A p \in got'[t] : p \in DOMAIN producers /\ producers[p] = t
  BY <1>1, <1>8 DEF GotInv
<1> QED
  BY <1>7, <1>8, <1>9, MoveKeeps, Zenon

\* A thread with no producer yet goes on to another step, to the table it knew or to the newest.
LEMMA AddingKeeps ==
    ASSUME OwnInv, TypeOK', NEW t \in Thread, at[t].pc \in TakesPart \cup {"count"},
           NEW c, at' = [at EXCEPT ![t] = c], c.pc \in TakesPart, c.main \in {at[t].main, Len(tables)},
           UNCHANGED <<tables, producers, got>>
    PROVE  OwnInv'
<1>1. TypeOK /\ GotInv /\ ThreadOK(t, at[t], tables, producers)
  BY DEF OwnInv, ThreadsInv
<1>2. at[t].main \in DOMAIN tables /\ ~Has(producers, t) /\ at[t].pc # "place"
  BY <1>1 DEF ThreadOK, TakesPart
<1>3. Len(tables) \in DOMAIN tables
  BY <1>1 DEF TypeOK
<1>4. ThreadOK(t, c, tables, producers)
  BY <1>2, <1>3 DEF ThreadOK, TakesPart
<1>5. \A p \in got'[t] : p \in DOMAIN producers /\ producers[p] = t
  BY <1>1 DEF GotInv
<1> QED
  BY <1>2, <1>4, <1>5, MoveKeeps, Zenon

LEMMA SearchKeeps == ASSUME OwnInv, TypeOK', NEW t \in Thread, Search(t) PROVE OwnInv'
<1> DEFINE h == at[t].table
           T == tables[h]
           s == Slot(t, h)
           e == Probe(t, h)
<1>1. TypeOK /\ TablesInv /\ GotInv /\ KnownInv /\ ThreadOK(t, at[t], tables, producers) /\ t # None
  BY ThreadAssumption DEF OwnInv, ThreadsInv
<1>2. at[t].pc = "search" /\ SearchOK(t, at[t], tables) /\ UNCHANGED <<tables, producers>> /\ at[t].pc # "place"
  BY <1>1 DEF Search, At, ThreadOK
<1>3. h \in DOMAIN tables /\ at[t].main \in DOMAIN tables /\ h <= at[t].main
  BY <1>2 DEF SearchOK
<1>4. T \in Table /\ Size(h) = SizeOf(T) /\ s = at[t].i % SizeOf(T) /\ s \in DOMAIN T /\ e = T[s]
  BY <1>1, <1>3, TableIsTable, SlotIsSlot
<1>5. at[t] \in Ats /\ h \in Nat /\ DOMAIN tables = 1..Len(tables)
  BY <1>1 DEF TypeOK, Ats
<1>6. ASSUME e.key = t
      PROVE  /\ e.value \in DOMAIN producers /\ producers[e.value] = t
  BY <1>1, <1>3, <1>4, <1>6 DEF TablesInv, TableOK, Taken
<1>7. \A p \in got[t] : p \in DOMAIN producers /\ producers[p] = t
  BY <1>1 DEF GotInv
<1>8. CASE e.key = t /\ Answers(t, e.value)
  <2>1. \A p \in got'[t] : p \in DOMAIN producers /\ producers[p] = t
    BY <1>1, <1>6, <1>7, <1>8, AnswerFacts
  <2>2. at' = [at EXCEPT ![t] = Idle] /\ \A u \in Thread \ {t} : got'[u] = got[u]
    BY <1>1, <1>8, AnswerFacts
  <2> QED
    BY <1>2, <2>1, <2>2, IdleOK, MoveKeeps, Zenon
<1>9. CASE /\ e.key = t /\ h # at[t].main /\ UNCHANGED got
           /\ Goes(t, [at[t] EXCEPT !.pc = "place", !.i = HashOf[t], !.value = e.value])
  <2> DEFINE c == [at[t] EXCEPT !.pc = "place", !.i = HashOf[t], !.value = e.value]
  <2>1. c.pc = "place" /\ c.main = at[t].main /\ c.i = HashOf[t] /\ c.value = e.value
    BY <1>5 DEF Ats
  <2>2. \A g \in DOMAIN tables : g >= at[t].main => ~HoldsIn(tables[g], t)
    BY <1>2, <1>3, <1>5, <1>9 DEF SearchOK, Ats
  <2>3. Way(tables[at[t].main], Home(tables[at[t].main], t), HashOf[t] % SizeOf(tables[at[t].main]))
    BY WayHere DEF Home
  <2> HIDE DEF c
  <2>4. PlaceOK(t, c, tables, producers)
    BY <1>3, <1>6, <1>9, <2>1, <2>2, <2>3 DEF PlaceOK
  <2>5. ThreadOK(t, c, tables, producers)
    BY <2>1, <2>4 DEF ThreadOK, TakesPart
  <2>6. at' = [at EXCEPT ![t] = c] /\ UNCHANGED got
    BY <1>9 DEF Goes, c
  <2> QED
    BY <1>2, <1>7, <2>5, <2>6, MoveKeeps, Zenon
<1>10. CASE e.key = None /\ Goes(t, Older(t)) /\ UNCHANGED got
  <2>1. \A r \in DOMAIN T : T[r].key # t
    <3> SUFFICES ASSUME NEW r \in DOMAIN T, T[r].key = t PROVE FALSE
      OBVIOUS
    <3>1. Way(T, s, r)
      BY <1>2, <1>4 DEF SearchOK
    <3>2. s \in Taken(T)
      BY <1>1, <1>4, <1>10, <3>1, WayGoesOn
    <3> QED
      BY <1>4, <1>10, <3>2 DEF Taken
  <2>2. \A g \in DOMAIN tables : g >= h => ~HoldsIn(tables[g], t)
    BY <1>2, <1>3, <1>5, <2>1 DEF SearchOK, HoldsIn
  <2> HIDE DEF T, s, e
  <2>3. CASE h = 1
    <3>1. \A g \in DOMAIN tables : ~HoldsIn(tables[g], t)
      BY <1>5, <2>2, <2>3
    <3>2. ~Has(producers, t)
      BY <1>1, <1>2, <3>1 DEF KnownInv, At
    <3> DEFINE c == [at[t] EXCEPT !.pc = "count"]
    <3>3. c.pc = "count" /\ c.main = at[t].main
      BY <1>5 DEF Ats
    <3>4. at' = [at EXCEPT ![t] = c]
      BY <1>10, <2>3 DEF Goes, Older
    <3> HIDE DEF c
    <3>5. ThreadOK(t, c, tables, producers)
      BY <1>3, <3>2, <3>3 DEF ThreadOK, TakesPart
    <3> QED
      BY <1>2, <1>7, <1>10, <3>4, <3>5, MoveKeeps, Zenon
  <2>4. CASE h # 1
    <3> DEFINE c == [at[t] EXCEPT !.table = at[t].table - 1, !.i = HashOf[t]]
    <3>1. c.pc = "search" /\ c.main = at[t].main /\ c.table = h - 1 /\ c.i = HashOf[t]
      BY <1>2, <1>5 DEF Ats
    <3>2. at' = [at EXCEPT ![t] = c]
      BY <1>10, <2>4 DEF Goes, Older
    <3> HIDE DEF c
    <3>3. h - 1 \in DOMAIN tables /\ h - 1 <= at[t].main
      BY <1>3, <1>5, <2>4
    <3>4. \A g \in DOMAIN tables : g > h - 1 => ~HoldsIn(tables[g], t)
      BY <1>5, <2>2
    <3>5. ASSUME NEW r \in DOMAIN tables[h - 1], tables[h - 1][r].key = t
          PROVE  Way(tables[h - 1], HashOf[t] % SizeOf(tables[h - 1]), r)
      <4>1. r \in Taken(tables[h - 1])
        BY <1>1, <3>5 DEF Taken
      <4> QED
        BY <1>1, <3>3, <3>5, <4>1 DEF TablesInv, TableOK, Home
    <3>6. SearchOK(t, c, tables)
      BY <1>3, <3>1, <3>3, <3>4, <3>5 DEF SearchOK
    <3>7. ThreadOK(t, c, tables, producers)
      BY <3>1, <3>6 DEF ThreadOK, TakesPart
    <3> QED
      BY <1>2, <1>7, <1>10, <3>2, <3>7, MoveKeeps, Zenon
  <2> QED
    BY <2>3, <2>4
<1>11. CASE /\ e.key \notin {t, None} /\ UNCHANGED got
            /\ Goes(t, [at[t] EXCEPT !.i = (at[t].i % Size(h)) + 1])
  <2> DEFINE c == [at[t] EXCEPT !.i = (at[t].i % Size(h)) + 1]
  <2>1. c.pc = "search" /\ c.main = at[t].main /\ c.table = h /\ c.i = s + 1
    BY <1>2, <1>4, <1>5 DEF Ats
  <2>2. ASSUME NEW r \in DOMAIN T, T[r].key = t PROVE Way(T, (s + 1) % SizeOf(T), r)
    <3>1. Way(T, s, r)
      BY <1>2, <1>4, <2>2 DEF SearchOK
    <3>2. r # s
      BY <1>4, <1>11, <2>2
    <3> QED
      BY <3>1, <3>2, WayGoesOn
  <2>3. at' = [at EXCEPT ![t] = c]
    BY <1>11 DEF Goes
  <2> HIDE DEF c, s, e
  <2>4. SearchOK(t, c, tables)
    BY <1>2, <2>1, <2>2 DEF SearchOK
  <2>5. ThreadOK(t, c, tables, producers)
    BY <2>1, <2>4 DEF ThreadOK, TakesPart
  <2> QED
    BY <1>2, <1>7, <1>11, <2>3, <2>5, MoveKeeps, Zenon
<1> QED
  BY <1>8, <1>9, <1>10, <1>11, Zenon DEF Search

-----------------------------------------------------------------------------
\* A table stays right as the list of producers grows, and as a thread that is not in it is put where
\* a way leads.
LEMMA TableKnows ==
    ASSUME NEW T, NEW ps, NEW qs, Knows(ps, qs), TableOK(T, ps)
    PROVE  TableOK(T, qs)
BY DEF TableOK, Knows

LEMMA TableTakes ==
    ASSUME NEW T \in Table, NEW ps, TableOK(T, ps), NEW t \in Thread, NEW v \in Nat, v \in DOMAIN ps, ps[v] = t,
           NEW s \in DOMAIN T, T[s].key = None, ~HoldsIn(T, t), Way(T, Home(T, t), s)
    PROVE  TableOK(Put(T, s, t, v), ps)
<1> DEFINE U == Put(T, s, t, v)
<1>0. t # None
  BY ThreadAssumption
<1>1. /\ DOMAIN U = DOMAIN T /\ U[s] = [key |-> t, value |-> v] /\ \A r \in DOMAIN T \ {s} : U[r] = T[r]
  BY PutFacts
<1> HIDE DEF U
<1>2. Taken(U) = Taken(T) \cup {s} /\ s \notin Taken(T) /\ SizeOf(U) = SizeOf(T)
  BY <1>0, <1>1 DEF Taken, SizeOf
<1>3. \A from, to : Way(T, from, to) => Way(U, from, to)
  BY <1>1, <1>2, WayStays
<1>4. \A r \in Taken(T) : U[r] = T[r] /\ T[r].key # t
  BY <1>1, <1>2 DEF Taken, HoldsIn
<1>5. U[s].key = t /\ U[s].value = v
  BY <1>1
<1> SUFFICES ASSUME NEW r \in Taken(U)
             PROVE  /\ U[r].key \in Thread
                    /\ U[r].value \in DOMAIN ps /\ ps[U[r].value] = U[r].key
                    /\ Way(U, Home(U, U[r].key), r)
                    /\ \A q \in Taken(U) : U[q].key = U[r].key => q = r
  BY DEF TableOK, U
<1>6. CASE r = s
  BY <1>2, <1>3, <1>4, <1>5, <1>6 DEF Home
<1>7. CASE r \in Taken(T)
  <2>1. /\ T[r].key \in Thread
        /\ T[r].value \in DOMAIN ps /\ ps[T[r].value] = T[r].key
        /\ Way(T, Home(T, T[r].key), r)
        /\ \A q \in Taken(T) : T[q].key = T[r].key => q = r
    BY <1>7 DEF TableOK
  <2> QED
    BY <1>2, <1>3, <1>4, <1>5, <1>7, <2>1 DEF Home
<1> QED
  BY <1>2, <1>6, <1>7

\* A thread moves, and tables or producers come to be more.
LEMMA GrowthKeeps ==
    ASSUME OwnInv, TypeOK', NEW t \in Thread, NEW c, at' = [at EXCEPT ![t] = c],
           Keeps(tables, tables'), Knows(producers, producers'),
           ProducersInv', TablesInv', ThreadOK(t, c, tables', producers'),
           \A u \in Thread \ {t} : NoneOf(u, tables, tables') /\ (Has(producers', u) => Has(producers, u)),
           Has(producers', t) => c.pc = "place" \/ \E h \in DOMAIN tables' : HoldsIn(tables'[h], t),
           \A u \in Thread \ {t} : got'[u] = got[u],
           \A p \in got'[t] : p \in DOMAIN producers' /\ producers'[p] = t
    PROVE  OwnInv'
<1>1. at'[t] = c /\ \A u \in Thread \ {t} : at'[u] = at[u]
  BY DEF OwnInv, TypeOK
<1>2. ThreadsInv'
  <2> SUFFICES ASSUME NEW u \in Thread PROVE ThreadOK(u, at'[u], tables', producers')
    BY Zenon DEF ThreadsInv
  <2>1. CASE u # t
    <3>1. ThreadOK(u, at[u], tables, producers)
      BY DEF OwnInv, ThreadsInv
    <3> QED
      BY <1>1, <2>1, <3>1, ThreadStays
  <2> QED
    BY <1>1, <2>1
<1>3. KnownInv'
  <2> SUFFICES ASSUME NEW u \in Thread, Has(producers', u)
               PROVE  at'[u].pc = "place" \/ \E h \in DOMAIN tables' : HoldsIn(tables'[h], u)
    BY Zenon DEF KnownInv, At
  <2>1. CASE u # t
    <3>1. at[u].pc = "place" \/ \E h \in DOMAIN tables : HoldsIn(tables[h], u)
      BY <2>1 DEF OwnInv, KnownInv, At
    <3>2. \A h \in DOMAIN tables : HoldsIn(tables[h], u) => h \in DOMAIN tables' /\ HoldsIn(tables'[h], u)
      BY ThreadAssumption DEF Keeps, HoldsIn, Taken
    <3> QED
      BY <1>1, <2>1, <3>1, <3>2
  <2> QED
    BY <1>1, <2>1
<1>4. GotInv'
  <2> SUFFICES ASSUME NEW u \in Thread, NEW p \in got'[u] PROVE p \in DOMAIN producers' /\ producers'[p] = u
    BY Zenon DEF GotInv
  <2>1. u # t => p \in DOMAIN producers /\ producers[p] = u
    BY DEF OwnInv, GotInv
  <2> QED
    BY <2>1 DEF Knows
<1> QED
  BY <1>2, <1>3, <1>4, Zenon DEF OwnInv

LEMMA ResizeKeeps == ASSUME OwnInv, TypeOK', NEW t \in Thread, Resize(t) PROVE OwnInv'
<1>1. TypeOK /\ TablesInv /\ GotInv /\ ProducersInv /\ ThreadOK(t, at[t], tables, producers)
  BY DEF OwnInv, ThreadsInv
<1>2. /\ at[t].pc = "resize" /\ UNCHANGED producers /\ at[t].pc # "place" /\ at[t] \in Ats
      /\ at[t].pc \in TakesPart \cup {"count"} /\ ~Has(producers, t)
  BY <1>1 DEF Resize, At, TypeOK, ThreadOK, TakesPart
<1>3. CASE Goes(t, [at[t] EXCEPT !.pc = "clear", !.main = Len(tables)]) /\ UNCHANGED <<tables, got>>
  <2> DEFINE c == [at[t] EXCEPT !.pc = "clear", !.main = Len(tables)]
  <2>1. c.pc \in TakesPart /\ c.main \in {at[t].main, Len(tables)}
    BY <1>2 DEF Ats, TakesPart
  <2> QED
    BY <1>2, <1>3, <2>1, AddingKeeps DEF Goes
<1>4. CASE Answers(t, None) /\ UNCHANGED tables
  BY <1>2, <1>4, FailureKeeps
<1>5. ASSUME NEW capacity \in (2 * Size(Len(tables)))..(4 * at[t].n), tables' = Append(tables, NewTable(capacity)),
             Goes(t, [at[t] EXCEPT !.pc = "clear", !.main = Len(tables) + 1]), UNCHANGED got
      PROVE  OwnInv'
  <2> DEFINE c == [at[t] EXCEPT !.pc = "clear", !.main = Len(tables) + 1]
  <2>1. Len(tables) \in DOMAIN tables
    BY <1>1 DEF TypeOK
  <2>2. Size(Len(tables)) \in Nat \ {0} /\ at[t].n \in Int
    BY <1>1, <1>2, <2>1, TableIsTable DEF Ats
  <2>3. capacity \in Nat \ {0}
    BY <2>2
  <2>4. /\ DOMAIN tables' = DOMAIN tables \cup {Len(tables) + 1}
        /\ \A h \in DOMAIN tables : tables'[h] = tables[h]
        /\ tables'[Len(tables) + 1] = NewTable(capacity)
    BY <1>1, <1>5, <2>3, AppendFacts
  <2>5. \A s \in DOMAIN NewTable(capacity) : NewTable(capacity)[s].key = None
    BY <2>3, NewTableFacts
  <2> HIDE DEF NewTable
  <2>6. Keeps(tables, tables') /\ Knows(producers, producers')
    BY <1>2, <2>4 DEF Keeps, Knows
  <2>7. TablesInv'
    <3>1. TableOK(NewTable(capacity), producers)
      BY <2>5 DEF TableOK, Taken
    <3> QED
      BY <1>1, <1>2, <2>4, <3>1 DEF TablesInv
  <2>8. \A u \in Thread \ {t} : NoneOf(u, tables, tables') /\ (Has(producers', u) => Has(producers, u))
    BY <1>2, <2>4, <2>5, ThreadAssumption DEF NoneOf
  <2>9. c.pc = "clear" /\ c.main = Len(tables) + 1 /\ at' = [at EXCEPT ![t] = c]
    BY <1>2, <1>5 DEF Ats, Goes
  <2> HIDE DEF c
  <2>10. ThreadOK(t, c, tables', producers') /\ ~Has(producers', t)
    BY <1>2, <2>4, <2>9 DEF ThreadOK, TakesPart
  <2>11. ProducersInv'
    BY <1>1, <1>2, Zenon DEF ProducersInv
  <2>12. \A p \in got'[t] : p \in DOMAIN producers' /\ producers'[p] = t
    BY <1>1, <1>2, <1>5 DEF GotInv
  <2>13. \A u \in Thread \ {t} : got'[u] = got[u]
    BY <1>5
  <2> QED
    BY <2>6, <2>7, <2>8, <2>9, <2>10, <2>11, <2>12, <2>13, GrowthKeeps, Zenon
<1> QED
  BY <1>3, <1>4, <1>5 DEF Resize

LEMMA CreateKeeps == ASSUME OwnInv, TypeOK', NEW t \in Thread, Create(t) PROVE OwnInv'
<1>1. TypeOK /\ TablesInv /\ GotInv /\ ProducersInv /\ ThreadOK(t, at[t], tables, producers)
  BY DEF OwnInv, ThreadsInv
<1>2. /\ at[t].pc = "fits" /\ UNCHANGED tables /\ at[t].pc # "place" /\ at[t] \in Ats
      /\ at[t].pc \in TakesPart \cup {"count"} /\ ~Has(producers, t) /\ at[t].main \in DOMAIN tables
  BY <1>1 DEF Create, At, TypeOK, ThreadOK, TakesPart
<1>3. CASE Goes(t, [at[t] EXCEPT !.pc = "insert", !.main = Len(tables)]) /\ UNCHANGED <<producers, got>>
  <2> DEFINE c == [at[t] EXCEPT !.pc = "insert", !.main = Len(tables)]
  <2>1. c.pc \in TakesPart /\ c.main \in {at[t].main, Len(tables)}
    BY <1>2 DEF Ats, TakesPart
  <2> QED
    BY <1>2, <1>3, <2>1, AddingKeeps DEF Goes
<1>4. CASE Answers(t, None) /\ UNCHANGED producers
  BY <1>2, <1>4, FailureKeeps
<1>5. ASSUME producers' = Append(producers, t), UNCHANGED got,
             Goes(t, [at[t] EXCEPT !.pc = "place", !.i = HashOf[t], !.value = Len(producers) + 1])
      PROVE  OwnInv'
  <2> DEFINE c == [at[t] EXCEPT !.pc = "place", !.i = HashOf[t], !.value = Len(producers) + 1]
  <2>1. /\ DOMAIN producers' = DOMAIN producers \cup {Len(producers) + 1}
        /\ \A p \in DOMAIN producers : producers'[p] = producers[p]
        /\ producers'[Len(producers) + 1] = t /\ Len(producers) + 1 \notin DOMAIN producers
    BY <1>1, <1>5 DEF TypeOK
  <2>2. Keeps(tables, tables') /\ Knows(producers, producers')
    BY <1>2, <2>1 DEF Keeps, Knows
  <2>3. TablesInv'
    BY <1>1, <1>2, <2>2, TableKnows DEF TablesInv
  <2>4. \A u \in Thread \ {t} : NoneOf(u, tables, tables') /\ (Has(producers', u) => Has(producers, u))
    BY <1>2, <2>1 DEF NoneOf, Has
  <2>5. ProducersInv'
    <3>1. \A p \in DOMAIN producers : producers[p] # t
      BY <1>2 DEF Has
    <3> QED
      BY <1>1, <2>1, <3>1 DEF ProducersInv
  <2>6. \A h \in DOMAIN tables : ~HoldsIn(tables[h], t)
    <3> SUFFICES ASSUME NEW h \in DOMAIN tables, NEW s \in DOMAIN tables[h], tables[h][s].key = t PROVE FALSE
      BY DEF HoldsIn
    <3>1. s \in Taken(tables[h])
      BY ThreadAssumption DEF Taken
    <3> QED
      BY <1>1, <1>2, <3>1 DEF TablesInv, TableOK, Has
  <2>7. /\ c.pc = "place" /\ c.main = at[t].main /\ c.i = HashOf[t] /\ c.value = Len(producers) + 1
        /\ at' = [at EXCEPT ![t] = c]
    BY <1>2, <1>5 DEF Ats, Goes
  <2> HIDE DEF c
  <2>8. Way(tables[at[t].main], Home(tables[at[t].main], t), HashOf[t] % SizeOf(tables[at[t].main]))
    BY WayHere DEF Home
  <2>9. PlaceOK(t, c, tables', producers')
    BY <1>2, <2>1, <2>6, <2>7, <2>8 DEF PlaceOK
  <2>10. ThreadOK(t, c, tables', producers')
    BY <2>7, <2>9 DEF ThreadOK, TakesPart
  <2>11. \A p \in got'[t] : p \in DOMAIN producers' /\ producers'[p] = t
    BY <1>1, <1>5, <2>1 DEF GotInv
  <2>12. \A u \in Thread \ {t} : got'[u] = got[u]
    BY <1>5
  <2> QED
    BY <2>2, <2>3, <2>4, <2>5, <2>7, <2>10, <2>11, <2>12, GrowthKeeps, Zenon
<1> QED
  BY <1>3, <1>4, <1>5, Zenon DEF Create

LEMMA PlaceKeeps == ASSUME OwnInv, TypeOK', NEW t \in Thread, Place(t) PROVE OwnInv'
<1> DEFINE h == at[t].main
           T == tables[h]
           s == Slot(t, h)
           v == at[t].value
<1>1. TypeOK /\ TablesInv /\ GotInv /\ ProducersInv /\ ThreadOK(t, at[t], tables, producers) /\ t # None
  BY ThreadAssumption DEF OwnInv, ThreadsInv
<1>2. at[t].pc = "place" /\ PlaceOK(t, at[t], tables, producers) /\ UNCHANGED producers /\ at[t] \in Ats
  BY <1>1 DEF Place, At, ThreadOK, TypeOK
<1>3. /\ h \in DOMAIN tables /\ v \in DOMAIN producers /\ producers[v] = t /\ v \in Nat
      /\ \A g \in DOMAIN tables : g >= h => ~HoldsIn(tables[g], t)
  BY <1>1, <1>2 DEF PlaceOK, TypeOK
<1>4. T \in Table /\ Size(h) = SizeOf(T) /\ s = at[t].i % SizeOf(T) /\ s \in DOMAIN T /\ Probe(t, h) = T[s]
  BY <1>1, <1>3, TableIsTable, SlotIsSlot
<1>5. Way(T, Home(T, t), s)
  BY <1>2, <1>4 DEF PlaceOK
<1>6. \A p \in got[t] : p \in DOMAIN producers /\ producers[p] = t
  BY <1>1 DEF GotInv
<1>7. CASE /\ T[s].key # None /\ UNCHANGED <<tables, got>>
           /\ Goes(t, [at[t] EXCEPT !.i = (at[t].i % Size(h)) + 1])
  <2> DEFINE c == [at[t] EXCEPT !.i = (at[t].i % Size(h)) + 1]
  <2>1. /\ c.pc = "place" /\ c.main = h /\ c.value = v /\ c.i = s + 1
        /\ at' = [at EXCEPT ![t] = c]
    BY <1>2, <1>4, <1>7 DEF Ats, Goes
  <2>2. Way(T, Home(T, t), (s + 1) % SizeOf(T))
    BY <1>4, <1>5, <1>7, WayLeadsOn DEF Taken
  <2> HIDE DEF c, s
  <2>3. PlaceOK(t, c, tables, producers)
    BY <1>3, <2>1, <2>2 DEF PlaceOK
  <2>4. ThreadOK(t, c, tables, producers)
    BY <2>1, <2>3 DEF ThreadOK, TakesPart
  <2> QED
    BY <1>2, <1>6, <1>7, <2>1, <2>4, MoveKeeps, Zenon
<1>8. CASE /\ T[s].key = None /\ Answers(t, v)
           /\ tables' = [tables EXCEPT ![h][s] = [key |-> t, value |-> v]]
  <2>1. /\ DOMAIN tables' = DOMAIN tables /\ tables'[h] = Put(T, s, t, v)
        /\ \A g \in DOMAIN tables \ {h} : tables'[g] = tables[g]
    <3>1. s \in DOMAIN tables[h] /\ h \in DOMAIN tables /\ v \in Nat
      BY <1>3, <1>4
    <3>2. tables' = [tables EXCEPT ![h] = Put(tables[h], s, t, v)]
      BY <1>8 DEF Put
    <3>3. TypeOK
      BY <1>1
    <3> HIDE DEF s, h, v
    <3> QED
      BY <3>1, <3>2, <3>3, PutInFacts, Zenon
  <2>2. /\ DOMAIN Put(T, s, t, v) = DOMAIN T /\ Put(T, s, t, v)[s] = [key |-> t, value |-> v]
        /\ \A r \in DOMAIN T \ {s} : Put(T, s, t, v)[r] = T[r]
    BY <1>3, <1>4, PutFacts
  <2>3. s \notin Taken(T)
    BY <1>8 DEF Taken
  <2>4. Keeps(tables, tables') /\ Knows(producers, producers')
    <3>1. \A r \in Taken(T) : r \in DOMAIN T \ {s}
      BY <2>3 DEF Taken
    <3> HIDE DEF T, s, h, v
    <3>2. DOMAIN tables'[h] = DOMAIN T /\ \A r \in Taken(T) : tables'[h][r] = T[r]
      BY <2>1, <2>2, <3>1
    <3>3. \A g \in DOMAIN tables : DOMAIN tables'[g] = DOMAIN tables[g] /\ \A r \in Taken(tables[g]) : tables'[g][r] = tables[g][r]
      BY <2>1, <3>2 DEF T
    <3> QED
      BY <1>2, <2>1, <3>3 DEF Keeps, Knows
  <2>5. TablesInv'
    <3>1. TableOK(T, producers) /\ ~HoldsIn(T, t)
      BY <1>1, <1>3, <1>2 DEF TablesInv, Ats
    <3>2. TableOK(Put(T, s, t, v), producers)
      BY <1>3, <1>4, <1>5, <1>8, <3>1, TableTakes
    <3> QED
      BY <1>1, <1>2, <2>1, <3>2 DEF TablesInv
  <2>6. \A u \in Thread \ {t} : NoneOf(u, tables, tables') /\ (Has(producers', u) => Has(producers, u))
    <3>1. ASSUME NEW u \in Thread \ {t}, NEW g \in DOMAIN tables', NEW r \in DOMAIN tables'[g], tables'[g][r].key = u
          PROVE  g \in DOMAIN tables /\ r \in DOMAIN tables[g] /\ tables[g][r].key = u
      <4>1. CASE g = h
        <5>1. r \in DOMAIN T /\ (r = s => tables'[g][r].key = t)
          BY <2>1, <2>2, <3>1, <4>1
        <5> QED
          BY <1>3, <2>1, <2>2, <3>1, <4>1, <5>1
      <4>2. CASE g # h
        BY <2>1, <3>1, <4>2
      <4> QED
        BY <4>1, <4>2
    <3> QED
      BY <1>2, <3>1 DEF NoneOf
  <2>7. HoldsIn(tables'[h], t)
    <3>1. s \in DOMAIN T
      BY <1>4
    <3> HIDE DEF s, T, h
    <3>2. s \in DOMAIN tables'[h] /\ tables'[h][s].key = t
      BY <2>1, <2>2, <3>1
    <3> QED
      BY <3>2, Zenon DEF HoldsIn
  <2>8. /\ at' = [at EXCEPT ![t] = Idle] /\ \A u \in Thread \ {t} : got'[u] = got[u]
        /\ got'[t] \subseteq got[t] \cup ({v} \ {None})
    BY <1>1, <1>8, AnswerFacts
  <2>9. \A p \in got'[t] : p \in DOMAIN producers' /\ producers'[p] = t
    BY <1>2, <1>3, <1>6, <2>8
  <2>10. h \in DOMAIN tables' /\ ThreadOK(t, Idle, tables', producers') /\ ProducersInv'
    BY <1>1, <1>2, <1>3, <2>1, IdleOK, Zenon DEF ProducersInv
  <2> QED
    BY <2>4, <2>5, <2>6, <2>7, <2>8, <2>9, <2>10, GrowthKeeps, Zenon
<1> QED
  BY <1>4, <1>7, <1>8, Zenon DEF Place

-----------------------------------------------------------------------------
LEMMA InitOwn == Init => OwnInv
<1> SUFFICES ASSUME Init PROVE OwnInv
  OBVIOUS
<1>1. TypeOK
  BY InitTyped
<1>2. DOMAIN tables = {1} /\ tables[1] = NewTable(FirstSize) /\ DOMAIN producers = {}
  BY DEF Init
<1>3. \A s \in DOMAIN NewTable(FirstSize) : NewTable(FirstSize)[s].key = None
  BY HashAssumption, NewTableFacts
<1> HIDE DEF NewTable
<1>4. TablesInv
  BY <1>2, <1>3 DEF TablesInv, TableOK, Taken
<1>5. ThreadsInv
  BY IdleOK DEF Init, ThreadsInv
<1>6. ProducersInv /\ KnownInv
  BY <1>2 DEF ProducersInv, KnownInv, Has
<1>7. GotInv
  BY DEF Init, GotInv
<1> QED
  BY <1>1, <1>4, <1>5, <1>6, <1>7 DEF OwnInv

LEMMA OwnStep == OwnInv /\ [Next]_vars => OwnInv'
<1> SUFFICES ASSUME OwnInv, [Next]_vars PROVE OwnInv'
  OBVIOUS
<1>0. TypeOK' /\ TypeOK
  BY NextTyped DEF OwnInv
<1>1. ASSUME NEW t \in Thread, CountIn(t) PROVE OwnInv'
  <2> DEFINE c == [at[t] EXCEPT !.pc = "insert", !.n = count + 1]
  <2>1. c.pc \in TakesPart /\ c.main = at[t].main /\ at' = [at EXCEPT ![t] = c]
    BY <1>0, <1>1 DEF TypeOK, Ats, TakesPart, CountIn, Goes
  <2> HIDE DEF c
  <2> QED
    BY <1>0, <1>1, <2>1, AddingKeeps DEF CountIn, At
<1>2. ASSUME NEW t \in Thread, Insert(t) PROVE OwnInv'
  <2>1. ASSUME NEW pc \in {"resize", "fits"}, Goes(t, [at[t] EXCEPT !.pc = pc]) PROVE OwnInv'
    <3> DEFINE c == [at[t] EXCEPT !.pc = pc]
    <3>1. c.pc \in TakesPart /\ c.main = at[t].main /\ at' = [at EXCEPT ![t] = c]
      BY <1>0, <2>1 DEF TypeOK, Ats, TakesPart, Goes
    <3>2. at[t].pc \in TakesPart
      BY <1>2 DEF Insert, At, TakesPart
    <3> HIDE DEF c
    <3> QED
      BY <1>0, <1>2, <3>1, <3>2, AddingKeeps DEF Insert
  <2> QED
    BY <1>2, <2>1 DEF Insert
<1>3. ASSUME NEW t \in Thread, Clear(t) PROVE OwnInv'
  <2> DEFINE c == [at[t] EXCEPT !.pc = "fits"]
  <2>1. c.pc \in TakesPart /\ c.main = at[t].main /\ at' = [at EXCEPT ![t] = c] /\ at[t].pc \in TakesPart
    BY <1>0, <1>3 DEF TypeOK, Ats, TakesPart, Clear, Goes, At
  <2> HIDE DEF c
  <2> QED
    BY <1>0, <1>3, <2>1, AddingKeeps DEF Clear
<1>4. CASE UNCHANGED vars
  BY <1>4, Zenon DEF vars, OwnInv, TypeOK, ProducersInv, TablesInv, ThreadsInv, KnownInv, GotInv, At
<1> QED
  BY <1>0, <1>1, <1>2, <1>3, <1>4, CallKeeps, SearchKeeps, ResizeKeeps, CreateKeeps, PlaceKeeps, Zenon DEF Next, Rest

\* The inductive invariant holds throughout.
THEOREM OwnKept == Spec => []OwnInv
BY InitOwn, OwnStep, PTL DEF Spec

\* Every variable of the table of producers keeps to its type: the tables are tables, and what a thread is
\* about names a table there is.
THEOREM TypeCorrect == Spec => []TypeOK
<1>1. OwnInv => TypeOK
  BY DEF OwnInv
<1> QED
  BY <1>1, OwnKept, PTL

\* get_or_add_implicit_producer() answers a thread the same producer each time, and no other thread that
\* one, however many tables are put in front of one another meanwhile.
THEOREM OneProducerEach == Spec => []OwnProducer
<1>1. OwnInv => OwnProducer
  <2> SUFFICES ASSUME OwnInv, NEW t \in Thread
               PROVE  Cardinality(got[t]) <= 1 /\ \A u \in Thread : u # t => got[t] \cap got[u] = {}
    BY DEF OwnProducer
  <2>1. \A u \in Thread : \A p \in got[u] : p \in DOMAIN producers /\ producers[p] = u
    BY DEF OwnInv, GotInv
  <2>2. \A p, q \in got[t] : p = q
    BY <2>1 DEF OwnInv, ProducersInv
  <2>3. got[t] = {} => Cardinality(got[t]) <= 1
    BY FS_EmptySet
  <2>4. ASSUME got[t] # {} PROVE Cardinality(got[t]) <= 1
    <3>1. PICK p \in got[t] : TRUE
      BY <2>4
    <3>2. got[t] = {p}
      BY <2>2, <3>1
    <3> QED
      <4>1. Cardinality({p}) = 1
        BY FS_Singleton
      <4>2. Cardinality(got[t]) = 1
        BY <3>2, <4>1, Zenon
      <4> QED
        BY <4>2
  <2>5. \A u \in Thread : u # t => got[t] \cap got[u] = {}
    BY <2>1
  <2> QED
    BY <2>3, <2>4, <2>5
<1> QED
  BY <1>1, OwnKept, PTL

-----------------------------------------------------------------------------
(***************************************************************************)
(* Why a slot stays free.  A thread that was counted in has a rank, the    *)
(* number it was counted as; however many failed and were counted out, no  *)
(* more than k threads have a rank of k or less.  And a thread is in a     *)
(* table, or on its way into one, only if its rank leaves a quarter of the *)
(* table free: at first because the code looks, and later because tables   *)
(* grow.                                                                   *)
(***************************************************************************)
RoomOf(T) == (SizeOf(T) \div 2) + (SizeOf(T) \div 4)
Counted(a, ps) == {t \in Thread : a[t].pc \in TakesPart \/ Has(ps, t)}
UpTo(k, r, a, ps) == {t \in Counted(a, ps) : r[t] <= k}
InOrNear(t, h, a, ts) == HoldsIn(ts[h], t) \/ (a[t].pc = "place" /\ a[t].main = h)

RankOK(r, a, ts, ps) ==
    /\ \A k \in Nat : Cardinality(UpTo(k, r, a, ps)) <= k
    /\ \A t \in Thread : a[t].pc \in TakesPart => r[t] = a[t].n
    /\ \A t \in Thread, h \in DOMAIN ts : InOrNear(t, h, a, ts) => r[t] < RoomOf(ts[h])

RankInv == \E r \in [Thread -> Nat] : RankOK(r, at, tables, producers)
CountInv == count = Cardinality(Counted(at, producers))
GrowsInv == \A g, h \in DOMAIN tables : g <= h => SizeOf(tables[g]) <= SizeOf(tables[h])

RoomInv == OwnInv /\ RankInv /\ CountInv /\ GrowsInv

\* The threads counted in are finitely many.
LEMMA CountedFinite ==
    ASSUME NEW a, NEW ps
    PROVE  /\ IsFiniteSet(Counted(a, ps)) /\ Cardinality(Counted(a, ps)) \in Nat
           /\ \A S \in SUBSET Counted(a, ps) : IsFiniteSet(S) /\ Cardinality(S) \in Nat
                                               /\ Cardinality(S) <= Cardinality(Counted(a, ps))
<1>1. Counted(a, ps) \in SUBSET Thread /\ IsFiniteSet(Thread)
  BY ThreadAssumption DEF Counted
<1>2. IsFiniteSet(Counted(a, ps))
  BY <1>1, FS_Subset
<1> QED
  BY <1>2, FS_Subset, FS_CardinalityType

\* The ranks serve on where nobody new is counted in and nobody comes into a table unforeseen.
LEMMA RankStays ==
    ASSUME OwnInv, NEW r \in [Thread -> Nat], RankOK(r, at, tables, producers),
           NEW t \in Thread, NEW c, at' = [at EXCEPT ![t] = c], Keeps(tables, tables'),
           Counted(at', producers') \subseteq Counted(at, producers),
           c.pc \in TakesPart => at[t].pc \in TakesPart /\ c.n = at[t].n,
           c.pc = "place" => c.main \in DOMAIN tables /\ r[t] < RoomOf(tables[c.main]),
           \A u \in Thread, h \in DOMAIN tables' : HoldsIn(tables'[h], u) =>
              h \in DOMAIN tables /\ (HoldsIn(tables[h], u) \/ (u = t /\ r[t] < RoomOf(tables[h])))
    PROVE  RankOK(r, at', tables', producers')
<1>1. at'[t] = c /\ \A u \in Thread \ {t} : at'[u] = at[u]
  BY DEF OwnInv, TypeOK
<1>2. ASSUME NEW k \in Nat PROVE Cardinality(UpTo(k, r, at', producers')) <= k
  <2>1. UpTo(k, r, at', producers') \in SUBSET UpTo(k, r, at, producers)
    BY DEF UpTo
  <2>2. IsFiniteSet(UpTo(k, r, at, producers)) /\ Cardinality(UpTo(k, r, at, producers)) \in Nat
    BY CountedFinite DEF UpTo
  <2>3. /\ Cardinality(UpTo(k, r, at', producers')) <= Cardinality(UpTo(k, r, at, producers))
        /\ Cardinality(UpTo(k, r, at', producers')) \in Nat
    BY <2>1, <2>2, FS_Subset, FS_CardinalityType
  <2>4. Cardinality(UpTo(k, r, at, producers)) <= k
    BY DEF RankOK
  <2> QED
    BY <2>2, <2>3, <2>4
<1>3. ASSUME NEW u \in Thread, at'[u].pc \in TakesPart PROVE r[u] = at'[u].n
  BY <1>1, <1>3 DEF RankOK
<1>4. ASSUME NEW u \in Thread, NEW h \in DOMAIN tables', InOrNear(u, h, at', tables')
      PROVE  r[u] < RoomOf(tables'[h])
  <2>1. h \in DOMAIN tables => RoomOf(tables'[h]) = RoomOf(tables[h])
    BY DEF Keeps, RoomOf, SizeOf
  <2>2. CASE HoldsIn(tables'[h], u)
    BY <2>1, <2>2 DEF RankOK, InOrNear
  <2>3. CASE at'[u].pc = "place" /\ at'[u].main = h /\ u # t
    <3>1. PlaceOK(u, at[u], tables, producers) /\ at[u].pc = "place" /\ at[u].main = h
      BY <1>1, <2>3 DEF OwnInv, ThreadsInv, ThreadOK
    <3> QED
      BY <2>1, <3>1 DEF RankOK, InOrNear, PlaceOK
  <2>4. CASE at'[u].pc = "place" /\ at'[u].main = h /\ u = t
    BY <1>1, <2>1, <2>4
  <2> QED
    BY <1>4, <2>2, <2>3, <2>4 DEF InOrNear
<1> QED
  BY <1>2, <1>3, <1>4 DEF RankOK

\* Who has an entry has a producer.
LEMMA EntryHas ==
    ASSUME OwnInv, NEW t \in Thread, NEW h \in DOMAIN tables, HoldsIn(tables[h], t)
    PROVE  Has(producers, t)
<1>1. PICK s \in DOMAIN tables[h] : tables[h][s].key = t
  BY DEF HoldsIn
<1>2. s \in Taken(tables[h])
  BY <1>1, ThreadAssumption DEF Taken
<1> QED
  BY <1>1, <1>2 DEF OwnInv, TablesInv, TableOK, Has

\* A thread moves that was counted in before and is after, or neither, and tables and producers stay.
LEMMA MoveHasRoom ==
    ASSUME RoomInv, OwnInv', NEW t \in Thread, NEW c, at' = [at EXCEPT ![t] = c],
           UNCHANGED <<tables, producers, count>>,
           c.pc \in TakesPart <=> at[t].pc \in TakesPart,
           c.pc \in TakesPart => c.n = at[t].n,
           c.pc = "place" => c.main \in DOMAIN tables /\
              (InOrNear(t, c.main, at, tables) \/ \E h \in DOMAIN tables : h <= c.main /\ HoldsIn(tables[h], t))
    PROVE  RoomInv'
<1>1. OwnInv /\ CountInv /\ GrowsInv /\ TypeOK
  BY DEF RoomInv, OwnInv
<1>2. PICK r \in [Thread -> Nat] : RankOK(r, at, tables, producers)
  BY DEF RoomInv, RankInv
<1>3. at'[t] = c /\ \A u \in Thread \ {t} : at'[u] = at[u]
  BY <1>1 DEF TypeOK
<1>4. Counted(at', producers') = Counted(at, producers)
  BY <1>3 DEF Counted
<1>5. c.pc = "place" => c.main \in DOMAIN tables /\ r[t] < RoomOf(tables[c.main])
  <2> SUFFICES ASSUME c.pc = "place" PROVE c.main \in DOMAIN tables /\ r[t] < RoomOf(tables[c.main])
    OBVIOUS
  <2>1. c.main \in DOMAIN tables
    OBVIOUS
  <2>2. CASE InOrNear(t, c.main, at, tables)
    BY <1>2, <2>1, <2>2 DEF RankOK
  <2>3. ASSUME NEW h \in DOMAIN tables, h <= c.main, HoldsIn(tables[h], t) PROVE r[t] < RoomOf(tables[c.main])
    <3>1. r[t] < RoomOf(tables[h]) /\ SizeOf(tables[h]) <= SizeOf(tables[c.main])
      BY <1>1, <1>2, <2>1, <2>3 DEF RankOK, InOrNear, GrowsInv
    <3>2. SizeOf(tables[h]) \in Nat /\ SizeOf(tables[c.main]) \in Nat
      BY <1>1, <2>1, TableIsTable, TableFacts
    <3> QED
      BY <1>2, <3>1, <3>2 DEF RoomOf
  <2> QED
    BY <2>1, <2>2, <2>3
<1>6. Keeps(tables, tables')
  BY DEF Keeps
<1>7. RankOK(r, at', tables', producers')
  BY <1>1, <1>2, <1>4, <1>5, <1>6, RankStays
<1>8. RankInv'
  BY <1>2, <1>7 DEF RankInv
<1>9. CountInv' /\ GrowsInv'
  BY <1>1, <1>4 DEF CountInv, GrowsInv
<1> QED
  BY <1>8, <1>9 DEF RoomInv

\* A thread fails and is counted out: it has no producer.
LEMMA FailureHasRoom ==
    ASSUME RoomInv, OwnInv', NEW t \in Thread, at[t].pc \in TakesPart, at' = [at EXCEPT ![t] = Idle],
           UNCHANGED <<tables, producers>>, count' = count - 1
    PROVE  RoomInv'
<1>1. OwnInv /\ CountInv /\ GrowsInv /\ TypeOK
  BY DEF RoomInv, OwnInv
<1>2. PICK r \in [Thread -> Nat] : RankOK(r, at, tables, producers)
  BY DEF RoomInv, RankInv
<1>3. at'[t] = Idle /\ (\A u \in Thread \ {t} : at'[u] = at[u]) /\ Idle.pc = "idle"
  BY <1>1 DEF TypeOK, Idle
<1>4. ~Has(producers, t)
  BY <1>1 DEF OwnInv, ThreadsInv, ThreadOK, TakesPart
<1>5. Counted(at', producers') = Counted(at, producers) \ {t} /\ t \in Counted(at, producers)
  BY <1>3, <1>4 DEF Counted, TakesPart
<1>6. Cardinality(Counted(at', producers')) = Cardinality(Counted(at, producers)) - 1
  BY <1>5, CountedFinite, FS_RemoveElement
<1>7. Keeps(tables, tables')
  BY DEF Keeps
<1>8. RankOK(r, at', tables', producers')
  <2>1. Idle.pc \notin TakesPart /\ Idle.pc # "place"
    BY <1>3 DEF TakesPart
  <2>2. Counted(at', producers') \subseteq Counted(at, producers)
    BY <1>5
  <2>3. \A u \in Thread, h \in DOMAIN tables' : HoldsIn(tables'[h], u) =>
            h \in DOMAIN tables /\ (HoldsIn(tables[h], u) \/ (u = t /\ r[t] < RoomOf(tables[h])))
    OBVIOUS
  <2> HIDE DEF Idle
  <2> QED
    BY <1>1, <1>2, <1>7, <2>1, <2>2, <2>3, RankStays
<1>9. RankInv' /\ GrowsInv'
  BY <1>1, <1>2, <1>8 DEF RankInv, GrowsInv
<1>10. CountInv'
  BY <1>1, <1>6 DEF CountInv
<1> QED
  BY <1>9, <1>10 DEF RoomInv

\* A thread that is counted in is the last so far: its rank is how many there are.
LEMMA CountInHasRoom == ASSUME RoomInv, OwnInv', NEW t \in Thread, CountIn(t) PROVE RoomInv'
<1>1. OwnInv /\ CountInv /\ GrowsInv /\ TypeOK
  BY DEF RoomInv, OwnInv
<1>2. PICK r \in [Thread -> Nat] : RankOK(r, at, tables, producers)
  BY DEF RoomInv, RankInv
<1> DEFINE c == [at[t] EXCEPT !.pc = "insert", !.n = count + 1]
<1>3. /\ at' = [at EXCEPT ![t] = c] /\ at[t].pc = "count" /\ count' = count + 1
      /\ UNCHANGED <<tables, producers>>
  BY DEF CountIn, Goes, At
<1>4. c.pc = "insert" /\ c.n = count + 1
  BY <1>1 DEF TypeOK, Ats
<1> HIDE DEF c
<1>5. at'[t] = c /\ \A u \in Thread \ {t} : at'[u] = at[u]
  BY <1>1, <1>3 DEF TypeOK
<1>6. ~Has(producers, t)
  BY <1>1, <1>3 DEF OwnInv, ThreadsInv, ThreadOK
<1>7. Counted(at', producers') = Counted(at, producers) \cup {t} /\ t \notin Counted(at, producers)
  BY <1>3, <1>4, <1>5, <1>6 DEF Counted, TakesPart
<1>8. Cardinality(Counted(at', producers')) = Cardinality(Counted(at, producers)) + 1
  BY <1>7, CountedFinite, FS_AddElement
<1>9. count \in Nat /\ count' = Cardinality(Counted(at', producers'))
  BY <1>1, <1>3, <1>8, CountedFinite DEF CountInv
<1> DEFINE q == [r EXCEPT ![t] = count + 1]
<1>10. q \in [Thread -> Nat] /\ q[t] = count + 1 /\ \A u \in Thread \ {t} : q[u] = r[u]
  BY <1>2, <1>9
<1> HIDE DEF q
<1>11. ASSUME NEW k \in Nat PROVE Cardinality(UpTo(k, q, at', producers')) <= k
  <2>1. CASE k < count + 1
    <3>1. UpTo(k, q, at', producers') = UpTo(k, r, at, producers)
      BY <1>7, <1>9, <1>10, <2>1 DEF UpTo, Counted
    <3> QED
      BY <1>2, <3>1 DEF RankOK
  <2>2. CASE k >= count + 1
    <3>1. /\ Cardinality(UpTo(k, q, at', producers')) <= Cardinality(Counted(at', producers'))
          /\ Cardinality(UpTo(k, q, at', producers')) \in Nat
      BY CountedFinite DEF UpTo
    <3> QED
      BY <1>3, <1>9, <2>2, <3>1
  <2> QED
    BY <1>9, <2>1, <2>2
<1>12. ASSUME NEW u \in Thread, at'[u].pc \in TakesPart PROVE q[u] = at'[u].n
  BY <1>2, <1>4, <1>5, <1>10, <1>12 DEF RankOK
<1>13. ASSUME NEW u \in Thread, NEW h \in DOMAIN tables, InOrNear(u, h, at', tables)
       PROVE  q[u] < RoomOf(tables[h])
  <2>1. u # t
    BY <1>1, <1>4, <1>5, <1>6, <1>13, EntryHas DEF InOrNear
  <2> QED
    BY <1>2, <1>5, <1>10, <1>13, <2>1 DEF RankOK, InOrNear
<1>14. RankOK(q, at', tables', producers')
  BY <1>3, <1>11, <1>12, <1>13 DEF RankOK
<1>15. RankInv' /\ GrowsInv' /\ CountInv'
  BY <1>1, <1>3, <1>9, <1>10, <1>14 DEF RankInv, GrowsInv, CountInv
<1> QED
  BY <1>15 DEF RoomInv

LEMMA SearchHasRoom == ASSUME RoomInv, OwnInv', NEW t \in Thread, Search(t) PROVE RoomInv'
<1> DEFINE h == at[t].table
<1>1. OwnInv /\ TypeOK /\ at[t].pc = "search" /\ UNCHANGED <<tables, producers, count>> /\ at[t] \in Ats
  BY DEF RoomInv, OwnInv, Search, At, TypeOK
<1>2. SearchOK(t, at[t], tables)
  BY <1>1 DEF OwnInv, ThreadsInv, ThreadOK
<1>3. h \in DOMAIN tables /\ at[t].main \in DOMAIN tables /\ h <= at[t].main
  BY <1>2 DEF SearchOK
<1>4. Slot(t, h) \in DOMAIN tables[h] /\ Probe(t, h) = tables[h][Slot(t, h)]
  BY <1>1, <1>3, SlotIsSlot
<1>5. PICK c : /\ at' = [at EXCEPT ![t] = c] /\ c.pc \in {"idle", "search", "count", "place"}
               /\ c.pc = "place" => c.main = at[t].main /\ Probe(t, h).key = t
  <2>1. Idle.pc = "idle" /\ [at[t] EXCEPT !.i = (at[t].i % Size(h)) + 1].pc = "search"
    BY <1>1 DEF Idle, Ats
  <2>2. /\ [at[t] EXCEPT !.pc = "place", !.i = HashOf[t], !.value = Probe(t, h).value].pc = "place"
        /\ [at[t] EXCEPT !.pc = "place", !.i = HashOf[t], !.value = Probe(t, h).value].main = at[t].main
    BY <1>1 DEF Ats
  <2>3. Older(t).pc \in {"search", "count"}
    BY <1>1 DEF Older, Ats
  <2>4. CASE Probe(t, h).key = t /\ Answers(t, Probe(t, h).value)
    BY <2>1, <2>4 DEF Answers, Goes
  <2>5. CASE /\ Probe(t, h).key = t
             /\ Goes(t, [at[t] EXCEPT !.pc = "place", !.i = HashOf[t], !.value = Probe(t, h).value])
    BY <2>2, <2>5 DEF Goes
  <2>6. CASE Goes(t, Older(t))
    BY <2>3, <2>6 DEF Goes
  <2>7. CASE Goes(t, [at[t] EXCEPT !.i = (at[t].i % Size(h)) + 1])
    BY <2>1, <2>7 DEF Goes
  <2> QED
    BY <2>4, <2>5, <2>6, <2>7, Zenon DEF Search
<1>6. c.pc = "place" => h <= c.main /\ HoldsIn(tables[h], t) /\ c.main \in DOMAIN tables
  BY <1>3, <1>4, <1>5 DEF HoldsIn
<1>7. c.pc \notin TakesPart /\ at[t].pc \notin TakesPart
  BY <1>1, <1>5 DEF TakesPart
<1> QED
  BY <1>1, <1>3, <1>5, <1>6, <1>7, MoveHasRoom

LEMMA ResizeHasRoom == ASSUME RoomInv, OwnInv', NEW t \in Thread, Resize(t) PROVE RoomInv'
<1>1. OwnInv /\ CountInv /\ GrowsInv /\ TypeOK
  BY DEF RoomInv, OwnInv
<1>2. at[t].pc = "resize" /\ at[t].pc \in TakesPart /\ UNCHANGED producers /\ at[t] \in Ats
  BY <1>1 DEF Resize, At, TakesPart, TypeOK
<1>3. CASE Goes(t, [at[t] EXCEPT !.pc = "clear", !.main = Len(tables)]) /\ UNCHANGED <<tables, count>>
  <2> DEFINE c == [at[t] EXCEPT !.pc = "clear", !.main = Len(tables)]
  <2>1. c.pc = "clear" /\ c.n = at[t].n /\ at' = [at EXCEPT ![t] = c]
    BY <1>2, <1>3 DEF Ats, Goes
  <2>2. c.pc \in TakesPart /\ c.pc # "place"
    BY <2>1 DEF TakesPart
  <2> HIDE DEF c
  <2> QED
    BY <1>2, <1>3, <2>1, <2>2, MoveHasRoom
<1>4. CASE Answers(t, None) /\ UNCHANGED tables /\ count' = count - 1
  BY <1>2, <1>4, FailureHasRoom DEF Answers, Goes
<1>5. ASSUME NEW capacity \in (2 * Size(Len(tables)))..(4 * at[t].n), tables' = Append(tables, NewTable(capacity)),
             Goes(t, [at[t] EXCEPT !.pc = "clear", !.main = Len(tables) + 1]), UNCHANGED count
      PROVE  RoomInv'
  <2> DEFINE c == [at[t] EXCEPT !.pc = "clear", !.main = Len(tables) + 1]
  <2>1. c.pc = "clear" /\ c.n = at[t].n /\ at' = [at EXCEPT ![t] = c]
    BY <1>2, <1>5 DEF Ats, Goes
  <2> HIDE DEF c
  <2>2. Len(tables) \in DOMAIN tables /\ DOMAIN tables = 1..Len(tables) /\ Len(tables) \in Nat
    BY <1>1 DEF TypeOK
  <2>3. /\ Size(Len(tables)) \in Nat \ {0} /\ Size(Len(tables)) = SizeOf(tables[Len(tables)])
        /\ at[t].n \in Int
    BY <1>1, <1>2, <2>2, TableIsTable DEF Ats
  <2>4. capacity \in Nat \ {0} /\ SizeOf(tables[Len(tables)]) <= capacity
    BY <2>3
  <2>5. /\ DOMAIN tables' = DOMAIN tables \cup {Len(tables) + 1}
        /\ \A h \in DOMAIN tables : tables'[h] = tables[h]
        /\ tables'[Len(tables) + 1] = NewTable(capacity)
    BY <1>1, <1>5, <2>4, AppendFacts
  <2>6. /\ SizeOf(NewTable(capacity)) = capacity
        /\ \A s \in DOMAIN NewTable(capacity) : NewTable(capacity)[s].key = None
    BY <2>4, NewTableFacts
  <2> HIDE DEF NewTable
  <2>7. PICK r \in [Thread -> Nat] : RankOK(r, at, tables, producers)
    BY DEF RoomInv, RankInv
  <2>8. Counted(at', producers') = Counted(at, producers)
    <3>1. at'[t] = c /\ \A u \in Thread \ {t} : at'[u] = at[u]
      BY <1>1, <2>1 DEF TypeOK
    <3> QED
      BY <1>2, <2>1, <3>1 DEF Counted, TakesPart
  <2>9. Keeps(tables, tables')
    BY <2>5 DEF Keeps
  <2>10. RankOK(r, at', tables', producers')
    <3>1. \A u \in Thread, h \in DOMAIN tables' : HoldsIn(tables'[h], u) =>
              h \in DOMAIN tables /\ (HoldsIn(tables[h], u) \/ (u = t /\ r[t] < RoomOf(tables[h])))
      BY <2>5, <2>6, ThreadAssumption DEF HoldsIn
    <3>2. Counted(at', producers') \subseteq Counted(at, producers) /\ c.pc # "place"
      BY <2>1, <2>8
    <3> QED
      BY <1>1, <1>2, <2>1, <2>7, <2>9, <3>1, <3>2, RankStays
  <2>11. GrowsInv'
    <3> SUFFICES ASSUME NEW g \in DOMAIN tables', NEW h \in DOMAIN tables', g <= h
                 PROVE  SizeOf(tables'[g]) <= SizeOf(tables'[h])
      BY DEF GrowsInv
    <3>1. CASE h \in DOMAIN tables
      <4>1. g \in DOMAIN tables
        BY <2>2, <2>5, <3>1
      <4> QED
        BY <1>1, <2>5, <3>1, <4>1 DEF GrowsInv
    <3>2. CASE h = Len(tables) + 1 /\ g \in DOMAIN tables
      <4>1. SizeOf(tables[g]) <= SizeOf(tables[Len(tables)])
        BY <1>1, <2>2, <3>2 DEF GrowsInv
      <4>2. SizeOf(tables[g]) \in Nat /\ SizeOf(tables[Len(tables)]) \in Nat
        BY <1>1, <2>2, <3>2, TableIsTable, TableFacts
      <4> QED
        BY <2>4, <2>5, <2>6, <3>2, <4>1, <4>2
    <3>3. CASE h = Len(tables) + 1 /\ g = h
      BY <2>4, <2>5, <2>6, <3>3
    <3> QED
      BY <2>5, <3>1, <3>2, <3>3
  <2>12. CountInv' /\ RankInv'
    BY <1>1, <1>5, <2>7, <2>8, <2>10 DEF CountInv, RankInv
  <2> QED
    BY <2>11, <2>12 DEF RoomInv
<1> QED
  BY <1>3, <1>4, <1>5 DEF Resize

LEMMA CreateHasRoom == ASSUME RoomInv, OwnInv', NEW t \in Thread, Create(t) PROVE RoomInv'
<1>1. OwnInv /\ CountInv /\ GrowsInv /\ TypeOK
  BY DEF RoomInv, OwnInv
<1>2. at[t].pc = "fits" /\ at[t].pc \in TakesPart /\ UNCHANGED tables /\ at[t] \in Ats
  BY <1>1 DEF Create, At, TakesPart, TypeOK
<1>3. CASE Goes(t, [at[t] EXCEPT !.pc = "insert", !.main = Len(tables)]) /\ UNCHANGED <<producers, count>>
  <2> DEFINE c == [at[t] EXCEPT !.pc = "insert", !.main = Len(tables)]
  <2>1. c.pc = "insert" /\ c.n = at[t].n /\ at' = [at EXCEPT ![t] = c]
    BY <1>2, <1>3 DEF Ats, Goes
  <2>2. c.pc \in TakesPart /\ c.pc # "place"
    BY <2>1 DEF TakesPart
  <2> HIDE DEF c
  <2> QED
    BY <1>2, <1>3, <2>1, <2>2, MoveHasRoom
<1>4. CASE Answers(t, None) /\ UNCHANGED producers /\ count' = count - 1
  BY <1>2, <1>4, FailureHasRoom DEF Answers, Goes
<1>5. ASSUME Room(t), producers' = Append(producers, t), UNCHANGED count,
             Goes(t, [at[t] EXCEPT !.pc = "place", !.i = HashOf[t], !.value = Len(producers) + 1])
      PROVE  RoomInv'
  <2> DEFINE c == [at[t] EXCEPT !.pc = "place", !.i = HashOf[t], !.value = Len(producers) + 1]
  <2>1. c.pc = "place" /\ c.main = at[t].main /\ at' = [at EXCEPT ![t] = c]
    BY <1>2, <1>5 DEF Ats, Goes
  <2> HIDE DEF c
  <2>2. PICK r \in [Thread -> Nat] : RankOK(r, at, tables, producers)
    BY DEF RoomInv, RankInv
  <2>3. at[t].main \in DOMAIN tables
    BY <1>1, <1>2 DEF OwnInv, ThreadsInv, ThreadOK
  <2>4. r[t] < RoomOf(tables[at[t].main])
    <3>1. at[t].n < (Size(at[t].main) \div 2) + (Size(at[t].main) \div 4)
      BY <1>5 DEF Room
    <3>2. r[t] = at[t].n /\ Size(at[t].main) = SizeOf(tables[at[t].main])
      BY <1>1, <1>2, <2>2, <2>3, TableIsTable DEF RankOK
    <3> QED
      BY <3>1, <3>2 DEF RoomOf
  <2>5. /\ DOMAIN producers' = DOMAIN producers \cup {Len(producers) + 1}
        /\ \A p \in DOMAIN producers : producers'[p] = producers[p]
        /\ producers'[Len(producers) + 1] = t
    BY <1>1, <1>5 DEF TypeOK
  <2>6. Counted(at', producers') = Counted(at, producers)
    <3>1. at'[t] = c /\ \A u \in Thread \ {t} : at'[u] = at[u]
      BY <1>1, <2>1 DEF TypeOK
    <3>2. \A u \in Thread : Has(producers', u) <=> u = t \/ Has(producers, u)
      BY <2>5 DEF Has
    <3>3. at[t].pc \in TakesPart
      BY <1>2
    <3> QED
      BY <3>1, <3>2, <3>3 DEF Counted
  <2>7. Keeps(tables, tables')
    BY <1>2 DEF Keeps
  <2>8. RankOK(r, at', tables', producers')
    <3>1. c.pc \notin TakesPart
      BY <2>1 DEF TakesPart
    <3>2. \A u \in Thread, h \in DOMAIN tables' : HoldsIn(tables'[h], u) =>
              h \in DOMAIN tables /\ (HoldsIn(tables[h], u) \/ (u = t /\ r[t] < RoomOf(tables[h])))
      BY <1>2
    <3>3. Counted(at', producers') \subseteq Counted(at, producers)
      BY <2>6
    <3> QED
      BY <1>1, <2>1, <2>2, <2>3, <2>4, <2>7, <3>1, <3>2, <3>3, RankStays
  <2>9. CountInv' /\ RankInv' /\ GrowsInv'
    BY <1>1, <1>2, <1>5, <2>2, <2>6, <2>8 DEF CountInv, RankInv, GrowsInv
  <2> QED
    BY <2>9 DEF RoomInv
<1> QED
  BY <1>3, <1>4, <1>5, Zenon DEF Create

LEMMA PlaceHasRoom == ASSUME RoomInv, OwnInv', NEW t \in Thread, Place(t) PROVE RoomInv'
<1> DEFINE h == at[t].main
           T == tables[h]
           s == Slot(t, h)
           v == at[t].value
<1>1. OwnInv /\ CountInv /\ GrowsInv /\ TypeOK
  BY DEF RoomInv, OwnInv
<1>2. at[t].pc = "place" /\ at[t].pc \notin TakesPart /\ UNCHANGED <<producers, count>> /\ at[t] \in Ats
  BY <1>1 DEF Place, At, TakesPart, TypeOK
<1>3. PlaceOK(t, at[t], tables, producers)
  BY <1>1, <1>2 DEF OwnInv, ThreadsInv, ThreadOK
<1>4. h \in DOMAIN tables /\ v \in Nat
  BY <1>1, <1>3 DEF PlaceOK, TypeOK
<1>5. T \in Table /\ s \in DOMAIN T /\ Probe(t, h) = T[s]
  BY <1>1, <1>4, TableIsTable, SlotIsSlot
<1>6. CASE UNCHANGED tables /\ Goes(t, [at[t] EXCEPT !.i = (at[t].i % Size(h)) + 1])
  <2> DEFINE c == [at[t] EXCEPT !.i = (at[t].i % Size(h)) + 1]
  <2>1. c.pc = "place" /\ c.main = h /\ at' = [at EXCEPT ![t] = c]
    BY <1>2, <1>6 DEF Ats, Goes
  <2>2. c.pc \notin TakesPart /\ InOrNear(t, c.main, at, tables)
    BY <1>2, <2>1 DEF InOrNear, TakesPart
  <2> HIDE DEF c
  <2> QED
    BY <1>2, <1>4, <1>6, <2>1, <2>2, MoveHasRoom
<1>7. CASE /\ T[s].key = None /\ Answers(t, v)
           /\ tables' = [tables EXCEPT ![h][s] = [key |-> t, value |-> v]]
  <2>1. /\ DOMAIN tables' = DOMAIN tables /\ tables'[h] = Put(T, s, t, v)
        /\ \A g \in DOMAIN tables \ {h} : tables'[g] = tables[g]
    <3>1. s \in DOMAIN tables[h] /\ h \in DOMAIN tables /\ v \in Nat
      BY <1>4, <1>5
    <3>2. tables' = [tables EXCEPT ![h] = Put(tables[h], s, t, v)]
      BY <1>7 DEF Put
    <3>3. TypeOK
      BY <1>1
    <3> HIDE DEF s, h, v
    <3> QED
      BY <3>1, <3>2, <3>3, PutInFacts, Zenon
  <2>2. /\ DOMAIN Put(T, s, t, v) = DOMAIN T /\ Put(T, s, t, v)[s] = [key |-> t, value |-> v]
        /\ \A r \in DOMAIN T \ {s} : Put(T, s, t, v)[r] = T[r]
    BY <1>4, <1>5, PutFacts
  <2>3. Keeps(tables, tables')
    <3>1. \A r \in Taken(T) : r \in DOMAIN T \ {s}
      BY <1>7 DEF Taken
    <3> HIDE DEF T, s, h, v
    <3>2. DOMAIN tables'[h] = DOMAIN T /\ \A r \in Taken(T) : tables'[h][r] = T[r]
      BY <2>1, <2>2, <3>1
    <3>3. \A g \in DOMAIN tables :
            DOMAIN tables'[g] = DOMAIN tables[g] /\ \A r \in Taken(tables[g]) : tables'[g][r] = tables[g][r]
      BY <2>1, <3>2 DEF T
    <3> QED
      BY <2>1, <3>3 DEF Keeps
  <2>4. PICK r \in [Thread -> Nat] : RankOK(r, at, tables, producers)
    BY DEF RoomInv, RankInv
  <2>5. r[t] < RoomOf(T)
    BY <1>2, <1>4, <2>4 DEF RankOK, InOrNear
  <2>6. \A u \in Thread, g \in DOMAIN tables' : HoldsIn(tables'[g], u) =>
            g \in DOMAIN tables /\ (HoldsIn(tables[g], u) \/ (u = t /\ r[t] < RoomOf(tables[g])))
    <3> SUFFICES ASSUME NEW u \in Thread, NEW g \in DOMAIN tables', HoldsIn(tables'[g], u)
                 PROVE  HoldsIn(tables[g], u) \/ (u = t /\ r[t] < RoomOf(tables[g]))
      BY <2>1
    <3>1. CASE g = h
      <4>1. PICK q \in DOMAIN tables'[g] : tables'[g][q].key = u
        BY DEF HoldsIn
      <4>2. CASE q = s
        BY <2>1, <2>2, <2>5, <3>1, <4>1, <4>2
      <4>3. CASE q # s
        <5>1. q \in DOMAIN T /\ T[q].key = u
          BY <2>1, <2>2, <3>1, <4>1, <4>3
        <5> QED
          BY <3>1, <5>1, Zenon DEF HoldsIn
      <4> QED
        BY <4>2, <4>3
    <3>2. CASE g # h
      BY <2>1, <3>2
    <3> QED
      BY <3>1, <3>2
  <2>7. at' = [at EXCEPT ![t] = Idle] /\ Idle.pc \notin TakesPart /\ Idle.pc # "place"
    BY <1>7 DEF Answers, Goes, Idle, TakesPart
  <2>8. Counted(at', producers') = Counted(at, producers)
    <3>1. at'[t] = Idle /\ \A u \in Thread \ {t} : at'[u] = at[u]
      BY <1>1, <2>7 DEF TypeOK
    <3> QED
      BY <1>2, <2>7, <3>1 DEF Counted
  <2>9. RankOK(r, at', tables', producers')
    <3>1. Counted(at', producers') \subseteq Counted(at, producers)
      BY <2>8
    <3> HIDE DEF Idle
    <3> QED
      BY <1>1, <2>3, <2>4, <2>6, <2>7, <3>1, RankStays
  <2>10. GrowsInv'
    BY <1>1, <2>1, <2>3 DEF GrowsInv, Keeps, SizeOf
  <2>11. CountInv' /\ RankInv'
    BY <1>1, <1>2, <2>4, <2>8, <2>9 DEF CountInv, RankInv
  <2> QED
    BY <2>10, <2>11 DEF RoomInv
<1> QED
  BY <1>5, <1>6, <1>7, Zenon DEF Place

LEMMA InitHasRoom == Init => RoomInv
<1> SUFFICES ASSUME Init PROVE RoomInv
  OBVIOUS
<1>1. OwnInv
  BY InitOwn
<1>2. DOMAIN tables = {1} /\ tables[1] = NewTable(FirstSize) /\ DOMAIN producers = {} /\ count = 0
  BY DEF Init
<1>3. \A s \in DOMAIN NewTable(FirstSize) : NewTable(FirstSize)[s].key = None
  BY HashAssumption, NewTableFacts
<1>4. \A t \in Thread : at[t].pc = "idle"
  BY DEF Init, Idle
<1> HIDE DEF NewTable
<1>5. Counted(at, producers) = {}
  BY <1>2, <1>4 DEF Counted, Has, TakesPart
<1>6. CountInv
  BY <1>2, <1>5, FS_EmptySet DEF CountInv
<1>7. GrowsInv
  <2>1. SizeOf(tables[1]) \in Nat
    BY <1>1, <1>2, TableIsTable, TableFacts DEF OwnInv
  <2> QED
    BY <1>2, <2>1 DEF GrowsInv
<1> DEFINE r == [t \in Thread |-> 0]
<1>8. RankOK(r, at, tables, producers)
  <2>1. ASSUME NEW k \in Nat PROVE Cardinality(UpTo(k, r, at, producers)) <= k
    <3>1. UpTo(k, r, at, producers) = {}
      BY <1>5 DEF UpTo
    <3> QED
      BY <3>1, FS_EmptySet
  <2>2. \A t \in Thread : at[t].pc \notin TakesPart
    BY <1>4 DEF TakesPart
  <2>3. \A t \in Thread, h \in DOMAIN tables : ~InOrNear(t, h, at, tables)
    BY <1>2, <1>3, <1>4, ThreadAssumption DEF InOrNear, HoldsIn
  <2> QED
    BY <2>1, <2>2, <2>3 DEF RankOK
<1>9. r \in [Thread -> Nat]
  OBVIOUS
<1> HIDE DEF r
<1>10. RankInv
  BY <1>8, <1>9 DEF RankInv
<1> QED
  BY <1>1, <1>6, <1>7, <1>10 DEF RoomInv

LEMMA RoomStep == RoomInv /\ [Next]_vars => RoomInv'
<1> SUFFICES ASSUME RoomInv, [Next]_vars PROVE RoomInv'
  OBVIOUS
<1>0. OwnInv /\ TypeOK /\ OwnInv'
  BY OwnStep DEF RoomInv, OwnInv
<1>1. ASSUME NEW t \in Thread, Call(t) PROVE RoomInv'
  <2> DEFINE c == [Idle EXCEPT !.pc = "search", !.main = Len(tables), !.table = Len(tables), !.i = HashOf[t]]
  <2>1. c.pc = "search" /\ at' = [at EXCEPT ![t] = c] /\ at[t].pc = "idle" /\ UNCHANGED <<tables, producers, count>>
    BY <1>1 DEF Call, Goes, At, Idle
  <2>2. c.pc \notin TakesPart /\ at[t].pc \notin TakesPart /\ c.pc # "place"
    BY <2>1 DEF TakesPart
  <2> HIDE DEF c
  <2> QED
    BY <1>0, <2>1, <2>2, MoveHasRoom
<1>2. ASSUME NEW t \in Thread, Insert(t) PROVE RoomInv'
  <2>1. ASSUME NEW pc \in {"resize", "fits"}, Goes(t, [at[t] EXCEPT !.pc = pc]) PROVE RoomInv'
    <3> DEFINE c == [at[t] EXCEPT !.pc = pc]
    <3>1. c.pc = pc /\ c.n = at[t].n /\ at' = [at EXCEPT ![t] = c] /\ UNCHANGED <<tables, producers, count>>
      BY <1>0, <1>2, <2>1 DEF TypeOK, Ats, Goes, Insert
    <3>2. c.pc \in TakesPart /\ at[t].pc \in TakesPart /\ c.pc # "place"
      BY <1>2, <3>1 DEF Insert, At, TakesPart
    <3> HIDE DEF c
    <3> QED
      BY <1>0, <3>1, <3>2, MoveHasRoom
  <2> QED
    BY <1>2, <2>1 DEF Insert
<1>3. ASSUME NEW t \in Thread, Clear(t) PROVE RoomInv'
  <2> DEFINE c == [at[t] EXCEPT !.pc = "fits"]
  <2>1. c.pc = "fits" /\ c.n = at[t].n /\ at' = [at EXCEPT ![t] = c] /\ UNCHANGED <<tables, producers, count>>
    BY <1>0, <1>3 DEF TypeOK, Ats, Goes, Clear
  <2>2. c.pc \in TakesPart /\ at[t].pc \in TakesPart /\ c.pc # "place"
    BY <1>3, <2>1 DEF Clear, At, TakesPart
  <2> HIDE DEF c
  <2> QED
    BY <1>0, <2>1, <2>2, MoveHasRoom
<1>4. CASE UNCHANGED vars
  <2>1. UNCHANGED <<tables, count, producers, at>>
    BY <1>4 DEF vars
  <2>2. RankInv' /\ CountInv' /\ GrowsInv'
    BY <2>1 DEF RoomInv, RankInv, CountInv, GrowsInv
  <2> QED
    BY <1>0, <2>2 DEF RoomInv
<1> QED
  BY <1>0, <1>1, <1>2, <1>3, <1>4, SearchHasRoom, CountInHasRoom, ResizeHasRoom, CreateHasRoom, PlaceHasRoom,
     Zenon DEF Next, Rest

\* "Not an infinite loop because at least one slot is free in the hash table" (concurrentqueue.h:3375): no
\* table is ever full, whatever grows, fails to grow, or is counted out.
THEOREM NeverFull == Spec => []SlotFree
<1>1. RoomInv => SlotFree
  <2> SUFFICES ASSUME RoomInv, NEW h \in DOMAIN tables, \A s \in DOMAIN tables[h] : tables[h][s].key # None
               PROVE  FALSE
    BY DEF SlotFree
  <2> DEFINE T == tables[h]
  <2>1. OwnInv /\ TypeOK /\ TableOK(T, producers)
    BY DEF RoomInv, OwnInv, TablesInv
  <2>2. T \in Table /\ SizeOf(T) \in Nat \ {0} /\ IsFiniteSet(DOMAIN T) /\ Taken(T) = DOMAIN T
    BY <2>1, TableIsTable, TableFacts DEF Taken
  <2>3. PICK r \in [Thread -> Nat] : RankOK(r, at, tables, producers)
    BY DEF RoomInv, RankInv
  <2> DEFINE k == RoomOf(T)
             U == UpTo(k, r, at, producers)
             key == [s \in DOMAIN T |-> T[s].key]
  <2>4. k \in Nat /\ k < SizeOf(T)
    BY <2>2 DEF RoomOf
  <2>5. Cardinality(U) <= k /\ IsFiniteSet(U) /\ Cardinality(U) \in Nat
    BY <2>3, <2>4, CountedFinite DEF RankOK, UpTo
  <2>6. ASSUME NEW s \in DOMAIN T PROVE T[s].key \in U
    <3>1. T[s].key \in Thread /\ HoldsIn(T, T[s].key)
      BY <2>1, <2>2 DEF TableOK, HoldsIn
    <3>2. r[T[s].key] < k /\ Has(producers, T[s].key)
      BY <2>1, <2>3, <3>1, EntryHas DEF RankOK, InOrNear
    <3>3. r[T[s].key] \in Nat
      BY <3>1
    <3> QED
      BY <2>4, <3>1, <3>2, <3>3 DEF UpTo, Counted
  <2> HIDE DEF T, U, k
  <2>7. Cardinality(U) < Cardinality(DOMAIN T)
    BY <2>2, <2>4, <2>5 DEF SizeOf
  <2>8. key \in [DOMAIN T -> U]
    BY <2>6
  <2> HIDE DEF key
  <2>9. \E s, q \in DOMAIN T : s # q /\ key[s] = key[q]
    BY <2>2, <2>5, <2>7, <2>8, FS_PigeonHole
  <2> USE DEF key
  <2> QED
    BY <2>1, <2>2, <2>9 DEF TableOK
<1>2. Spec => []RoomInv
  BY InitHasRoom, RoomStep, PTL DEF Spec
<1> QED
  BY <1>1, <1>2, PTL

\* A thread finds its own producer again, and the search for it ends in every table.
THEOREM ProducersFound == Spec => []ProducersKnown
<1>1. OwnProducer /\ SlotFree => ProducersKnown
  BY DEF ProducersKnown
<1> QED
  BY <1>1, OneProducerEach, NeverFull, PTL

-----------------------------------------------------------------------------
(* The producers of tokens, as ProducerTokens has them *)

CONSTANTS Token, Consumer, Others, Most, EXPLICIT_CONSUMER_CONSUMPTION_QUOTA_BEFORE_ROTATE, MaxProducers
VARIABLES listed, counted, inactive, owner, held, does, globalOffset, nextId, consumer, call, asked, grown

T == INSTANCE ProducerTokens WITH producers <- listed, count <- counted, at <- does, calls <- asked

tokens == <<listed, counted, inactive, owner, held, does>>
consumers == <<globalOffset, nextId, consumer, call>>

Explicit == 1..MaxProducers
In(seq) == {seq[i] : i \in DOMAIN seq}
Distinct(seq) == \A i, j \in DOMAIN seq : seq[i] = seq[j] => i = j
Listed == In(listed)
Created == Listed \cap Explicit
Adding == {t \in Token : does[t].pc = "add"}

\* The list: those created for tokens are numbered in turn, and those counted first are to come.
ListOK ==
    /\ listed \in Seq(Listed) /\ Distinct(listed) /\ None \notin Listed /\ Listed \subseteq T!Places
    /\ counted = Len(listed) + Cardinality(Adding)
    /\ \E k \in Nat : Created = 1..k /\ k + Cardinality(Adding) <= MaxProducers

\* A token's producer is in the list; one without a producer may be looking for one, or have found it.
Seeking == {"look", "catch", "add", "own"}
TokensOK ==
    /\ DOMAIN does = Token /\ \A t \in Token :
        /\ DOMAIN does[t] = {"pc", "p", "rest"} /\ does[t].pc \in {"idle", "mark"} \cup Seeking
        /\ does[t].pc \in Seeking => held[t] = None
        /\ does[t].pc = "mark" => held[t] # None
        /\ does[t].pc = "own" => does[t].p \in Created
    /\ held \in [Token -> Created \cup {None}] /\ owner \in [Explicit -> Token \cup {None}]
    /\ inactive \subseteq Created
    /\ T!OneOwner

\* A consumer's place is in the list.
HasPlace(k) == k # None /\ k.desired # None
ConsumerOK(k) == k # None =>
    /\ k \in T!ConsumerTokens /\ DOMAIN k = {"initialOffset", "lastKnownGlobalOffset", "itemsConsumed", "current", "desired"}
    /\ k.initialOffset \in Nat /\ k.lastKnownGlobalOffset \in Int
    /\ k.desired = None => k.lastKnownGlobalOffset = -1
    /\ k.desired # None => k.desired \in Listed /\ k.current \in Listed

\* What was read of the list is what it ends with, as it grows at its front.
Ends(tail) ==
    /\ tail \in Seq(Listed) /\ Len(tail) <= Len(listed)
    /\ \A i \in 1..Len(tail) : tail[i] = listed[Len(listed) - Len(tail) + i]

\* A search that has found nothing has tried the token's producer and those that follow, around the
\* list's end, up to the one that is next.
Wrapped(n, x) == IF x <= n THEN x ELSE x - n
Round(tail, from, tried, p) == \E a \in 1..Len(tail) :
    /\ tail[a] = from /\ Len(tried) \in 1..(Len(tail) - 1)
    /\ \A j \in 1..Len(tried) : tried[j] = tail[Wrapped(Len(tail), a + j - 1)]
    /\ p = tail[Wrapped(Len(tail), a + Len(tried))]

Searching == {"first", "next", "others"}
CallOK(k, r) ==
    /\ DOMAIN r = {"pc", "bulk", "left", "tail", "p", "got", "tried", "before"}
    /\ r.pc \in {"idle", "rotate", "return"} \cup Searching
    /\ r.got \in Nat /\ r.tried \in Seq(In(r.tried))
    /\ r.pc # "idle" => k # None
    /\ r.pc \in {"idle", "rotate", "first"} => r.got = 0 /\ r.tried = <<>>
    /\ r.pc = "rotate" => Ends(r.tail) /\ r.before = In(r.tail) /\ (k.desired # None => k.desired \in In(r.tail))
    /\ r.pc \in {"rotate"} \cup Searching => r.left \in Nat \ {0}
    /\ r.pc \in Searching => k.desired # None /\ r.p \in Listed
    /\ r.pc \in {"first", "next"} => r.p = k.current /\ r.before \subseteq Listed
    /\ r.pc = "next" /\ r.got = 0 => r.tried = <<r.p>>
    /\ r.pc = "others" => Ends(r.tail) /\ r.tail # <<>>
    /\ r.pc = "others" /\ r.got = 0 => r.before \subseteq In(r.tail) /\ Round(r.tail, k.current, r.tried, r.p)
    /\ r.pc = "return" /\ r.got = 0 => Distinct(r.tried) /\ r.before \subseteq In(r.tried)

ConsumersOK ==
    /\ globalOffset \in Nat /\ nextId \in Nat
    /\ DOMAIN consumer = Consumer /\ DOMAIN call = Consumer
    /\ \A c \in Consumer : ConsumerOK(consumer[c]) /\ CallOK(consumer[c], call[c])

\* Where a consumer's place is, as long as the list is what it was.
PlaceOf(k) == listed[((k.lastKnownGlobalOffset - k.initialOffset) % Len(listed)) + 1]
PlacesOK == ~grown => \A c \in Consumer :
    /\ HasPlace(consumer[c]) => consumer[c].desired = PlaceOf(consumer[c])
    /\ HasPlace(consumer[c]) \/ call[c].pc # "idle" => counted = Len(listed)
    /\ call[c].pc = "rotate" => call[c].tail = listed

TokensInv == ListOK /\ TokensOK /\ ConsumersOK /\ PlacesOK

LEMMA SameFinite == /\ T!TokensAssumption => IsFiniteSet(Token)
                    /\ \A S : T!Cardinality(S) = Cardinality(S) /\ T!Range(S) = In(S)
<1>1. T!TokensAssumption => IsFiniteSet(Token)
  BY DEF T!TokensAssumption, T!IsFiniteSet, IsFiniteSet
<1>2. \A S : T!Cardinality(S) = Cardinality(S)
  BY DEF T!Cardinality, Cardinality
<1>3. \A S : T!Range(S) = In(S)
  BY DEF T!Range, In
<1>. QED
  BY <1>1, <1>2, <1>3

LEMMA TokenConstants == ASSUME T!TokensAssumption PROVE
    /\ IsFiniteSet(Token) /\ None \notin Token /\ MaxProducers \in Nat /\ Most \in Nat \ {0}
    /\ Others \in Seq(In(Others)) /\ Distinct(Others) /\ None \notin Explicit \cup In(Others)
    /\ Explicit \cap In(Others) = {} /\ T!Explicit = Explicit
    /\ T!Places = Explicit \cup In(Others) /\ None \notin T!ConsumerTokens
BY SameFinite DEF T!Places, T!TokensAssumption, T!Explicit, Explicit, Distinct

LEMMA CreatedIs == ASSUME T!TokensAssumption PROVE T!Created = Created
BY SameFinite, TokenConstants DEF T!Created, Created, Listed

LEMMA TokensStart == ASSUME T!TokensAssumption, T!Init PROVE TokensInv
<1>1. listed \in {<<>>, Others} /\ counted = Len(listed) /\ inactive = {} /\ owner = [p \in Explicit |-> None]
      /\ held = [t \in Token |-> None] /\ does = [t \in Token |-> T!Idle] /\ globalOffset = 0 /\ nextId = 0
      /\ consumer = [c \in Consumer |-> None] /\ call = [c \in Consumer |-> T!NoCall]
  BY TokenConstants DEF T!Init
<1>2. Adding = {} /\ Cardinality(Adding) = 0
  <2>1. Adding = {}
    BY <1>1 DEF Adding, T!Idle
  <2>. QED
    BY <2>1, FS_EmptySet
<1>3. listed \in Seq(Listed) /\ Distinct(listed) /\ None \notin Listed /\ Listed \subseteq T!Places /\ Created = {}
  <2>1. CASE listed = <<>>
    BY <2>1 DEF Listed, In, Created, Distinct
  <2>2. CASE listed = Others
    BY <2>2, TokenConstants DEF Listed, Created
  <2>. QED
    BY <1>1, <2>1, <2>2
<1>4. ListOK
  <2>1. Len(listed) \in Nat
    BY <1>3
  <2>2. Created = 1..0 /\ 0 + 0 <= MaxProducers
    BY <1>3, TokenConstants
  <2>. QED
    BY <1>1, <1>2, <1>3, <2>1, <2>2 DEF ListOK
<1>5. TokensOK
  <2>1. T!OneOwner
    <3>1. \A t \in Token : held[t] = None /\ does[t].pc = "idle"
      BY <1>1 DEF T!Idle
    <3>2. \A p \in Explicit : owner[p] = None /\ p # None
      BY <1>1, TokenConstants
    <3>. QED
      BY <1>1, <3>1, <3>2, TokenConstants DEF T!OneOwner, T!At
  <2>. QED
    BY <1>1, <2>1 DEF TokensOK, T!Idle, Seeking
<1>6. ConsumersOK
  <2>1. ASSUME NEW c \in Consumer PROVE CallOK(consumer[c], call[c])
    <3>1. /\ DOMAIN call[c] = {"pc", "bulk", "left", "tail", "p", "got", "tried", "before"}
          /\ call[c].pc = "idle" /\ call[c].got = 0 /\ call[c].tried = <<>>
      BY <1>1 DEF T!NoCall
    <3>2. call[c].tried \in Seq(In(call[c].tried))
      BY <3>1
    <3>. QED
      BY <3>1, <3>2 DEF CallOK, Searching
  <2>. QED
    BY <1>1, <2>1 DEF ConsumersOK, ConsumerOK
<1>7. PlacesOK
  BY <1>1 DEF PlacesOK, HasPlace, T!NoCall
<1>. QED
  BY <1>4, <1>5, <1>6, <1>7 DEF TokensInv

\* The steps of a token's thread.
LEMMA GoesTo == ASSUME TokensOK, NEW t \in Token, NEW r, T!Goes(t, r) PROVE
    /\ DOMAIN does' = Token /\ does'[t] = r /\ \A u \in Token \ {t} : does'[u] = does[u]
BY DEF T!Goes, TokensOK

\* Steps that leave the list alone.
LEMMA ListKept ==
    ASSUME TokensOK, ListOK, NEW t \in Token, UNCHANGED <<listed, counted>>, does'[t].pc # "add", does[t].pc # "add",
           \A u \in Token \ {t} : does'[u] = does[u]
    PROVE  ListOK' /\ Created' = Created
<1>1. Adding' = Adding
  BY DEF Adding
<1>2. Listed' = Listed /\ Created' = Created
  BY DEF Listed, Created, In
<1>. QED
  BY <1>1, <1>2 DEF ListOK, Distinct

\* What a token may have without another's having it.
Hands(t) == {p \in Explicit : p = held[t] \/ (does[t].pc = "own" /\ p = does[t].p)}
OwnersRight == /\ \A t, u \in Token : t # u => Hands(t) \cap Hands(u) = {}
               /\ \A t \in Token : Hands(t) \cap inactive = {}
               /\ \A t \in Token, p \in Explicit : owner[p] = t <=> held[t] = p /\ does[t].pc # "mark"

LEMMA OwnersAre == ASSUME T!TokensAssumption PROVE (T!OneOwner <=> OwnersRight) /\ (T!OneOwner <=> OwnersRight)'
BY TokenConstants DEF T!OneOwner, OwnersRight, T!At, Hands

\* A thread's step which changes neither what it has nor what is marked.
LEMMA SeekKeeps ==
    ASSUME T!TokensAssumption, TokensOK, NEW t \in Token,
           DOMAIN does' = Token, DOMAIN does'[t] = {"pc", "p", "rest"}, does'[t].pc \in {"idle", "look", "catch", "add"},
           \A u \in Token \ {t} : does'[u] = does[u], does[t].pc \notin {"own", "mark"},
           held[t] = None, UNCHANGED <<inactive, owner, held>>, Created' = Created
    PROVE  TokensOK'
<1>1. OwnersRight
  BY OwnersAre DEF TokensOK
<1>2. \A u \in Token : Hands(u)' = Hands(u) /\ (does[u].pc = "mark" <=> does'[u].pc = "mark")
  BY DEF Hands
<1>3. OwnersRight'
  BY <1>1, <1>2 DEF OwnersRight
<1>. QED
  BY <1>3, OwnersAre DEF TokensOK, Seeking

LEMMA ConstructKeeps == ASSUME T!TokensAssumption, TokensOK, ListOK, NEW t \in Token, T!Construct(t) PROVE ListOK' /\ TokensOK'
<1>1. does[t].pc = "idle" /\ held[t] = None /\ UNCHANGED <<listed, counted, inactive, owner, held>>
  BY DEF T!Construct, T!At
<1>2. /\ DOMAIN does' = Token /\ DOMAIN does'[t] = {"pc", "p", "rest"} /\ does'[t].pc = "look"
      /\ \A u \in Token \ {t} : does'[u] = does[u]
  <2>. DEFINE r == [T!Idle EXCEPT !.pc = "look", !.rest = listed]
  <2>1. T!Goes(t, r)
    BY DEF T!Construct
  <2>2. DOMAIN r = {"pc", "p", "rest"} /\ r.pc = "look"
    BY DEF T!Idle
  <2>. HIDE DEF r
  <2>. QED
    BY <2>1, <2>2, GoesTo
<1>. QED
  BY <1>1, <1>2, ListKept, SeekKeeps

\* One that is marked is caught by one thread, as the mark is gone with it.
LEMMA LookKeeps == ASSUME T!TokensAssumption, TokensOK, ListOK, NEW t \in Token, T!Look(t) PROVE ListOK' /\ TokensOK'
<1>. DEFINE rest == does[t].rest p == Head(rest)
<1>1. UNCHANGED <<listed, counted, owner, held>> /\ does[t].pc \in {"look", "catch"} /\ held[t] = None
      /\ DOMAIN does[t] = {"pc", "p", "rest"}
  BY DEF T!Look, T!At, TokensOK, Seeking
<1>2. CASE does[t].pc = "look" \/ p \notin inactive
  <2>1. PICK r : T!Goes(t, r) /\ r \in {[does[t] EXCEPT !.pc = "catch"], [does[t] EXCEPT !.rest = Tail(@)],
                 [does[t] EXCEPT !.pc = "look", !.rest = Tail(@)]} /\ UNCHANGED inactive
    <3>1. CASE does[t].pc = "look"
      <4>1. UNCHANGED inactive /\ T!Goes(t, IF p \in inactive THEN [does[t] EXCEPT !.pc = "catch"]
                                            ELSE [does[t] EXCEPT !.rest = Tail(@)])
        BY <3>1 DEF T!Look, T!At
      <4>. QED
        BY <4>1
    <3>2. CASE does[t].pc = "catch" /\ p \notin inactive
      <4>1. UNCHANGED inactive /\ T!Goes(t, [does[t] EXCEPT !.pc = "look", !.rest = Tail(@)])
        BY <3>2 DEF T!Look, T!At, T!Catch
      <4>. QED
        BY <4>1
    <3>. QED
      BY <1>1, <1>2, <3>1, <3>2
  <2>2. DOMAIN r = {"pc", "p", "rest"} /\ r.pc \in {"look", "catch"}
    BY <1>1, <2>1
  <2>3. DOMAIN does' = Token /\ does'[t] = r /\ \A u \in Token \ {t} : does'[u] = does[u]
    BY <2>1, GoesTo
  <2>. QED
    BY <1>1, <2>1, <2>2, <2>3, ListKept, SeekKeeps
<1>3. CASE does[t].pc = "catch" /\ p \in inactive
  <2>1. inactive' = inactive \ {p} /\ T!Goes(t, [T!Idle EXCEPT !.pc = "own", !.p = p])
    BY <1>3 DEF T!Look, T!At, T!Catch
  <2>2. /\ DOMAIN does' = Token /\ DOMAIN does'[t] = {"pc", "p", "rest"} /\ does'[t].pc = "own" /\ does'[t].p = p
        /\ \A u \in Token \ {t} : does'[u] = does[u]
    <3>. DEFINE r == [T!Idle EXCEPT !.pc = "own", !.p = p]
    <3>1. DOMAIN r = {"pc", "p", "rest"} /\ r.pc = "own" /\ r.p = p
      BY DEF T!Idle
    <3>. HIDE DEF r, p
    <3>. QED
      BY <2>1, <3>1, GoesTo DEF r
  <2>3. ListOK' /\ Created' = Created
    BY <1>1, <2>2, ListKept
  <2>4. p \in Created /\ p \in Explicit
    BY <1>3 DEF TokensOK, Created
  <2>5. OwnersRight'
    <3>1. OwnersRight
      BY OwnersAre DEF TokensOK
    <3>2. Hands(t)' = {p} /\ Hands(t) = {} /\ \A u \in Token \ {t} : Hands(u)' = Hands(u)
      BY <1>1, <1>3, <2>2, <2>4, TokenConstants DEF Hands
    <3>3. \A u \in Token : p \notin Hands(u)
      BY <1>3, <3>1 DEF OwnersRight
    <3>4. \A u, v \in Token : u # v => Hands(u)' \cap Hands(v)' = {}
      BY <3>1, <3>2, <3>3 DEF OwnersRight
    <3>5. \A u \in Token : Hands(u)' \cap inactive' = {}
      BY <2>1, <3>1, <3>2 DEF OwnersRight
    <3>6. \A u \in Token, q \in Explicit : owner'[q] = u <=> held'[u] = q /\ does'[u].pc # "mark"
      BY <1>1, <1>3, <2>2, <3>1 DEF OwnersRight
    <3>. QED
      BY <3>4, <3>5, <3>6 DEF OwnersRight
  <2>. QED
    BY <1>1, <2>1, <2>2, <2>3, <2>4, <2>5, OwnersAre DEF TokensOK, Seeking
<1>. QED
  BY <1>1, <1>2, <1>3

LEMMA AddingFinite == ASSUME T!TokensAssumption PROVE IsFiniteSet(Adding) /\ Cardinality(Adding) \in Nat
<1>1. IsFiniteSet(Adding)
  BY TokenConstants, FS_Subset DEF Adding
<1>. QED
  BY <1>1, FS_CardinalityType

LEMMA OneTo == ASSUME NEW k \in Nat PROVE IsFiniteSet(1..k) /\ Cardinality(1..k) = k
<1>1. IsFiniteSet(1..k) /\ Cardinality(1..k) = IF 1 > k THEN 0 ELSE k - 1 + 1
  BY FS_Interval
<1>. QED
  BY <1>1

\* A new producer is counted first, or the thread goes without.
LEMMA CreatingKeeps == ASSUME T!TokensAssumption, TokensOK, ListOK, NEW t \in Token, T!Create(t) PROVE ListOK' /\ TokensOK'
<1>1. does[t].pc = "look" /\ held[t] = None /\ UNCHANGED <<listed, inactive, owner, held>>
  BY DEF T!Create, T!At, TokensOK, Seeking
<1>2. Listed' = Listed /\ Created' = Created
  BY <1>1 DEF Listed, Created, In
<1>3. PICK r : T!Goes(t, r) /\ \/ counted' = counted /\ r = T!Idle
                               \/ /\ counted' = counted + 1 /\ counted < Len(listed) + MaxProducers - Cardinality(Created)
                                  /\ r = [T!Idle EXCEPT !.pc = "add"]
  BY SameFinite, CreatedIs DEF T!Create
<1>4. DOMAIN does' = Token /\ does'[t] = r /\ \A u \in Token \ {t} : does'[u] = does[u]
  BY <1>3, GoesTo
<1>5. CASE counted' = counted /\ r = T!Idle
  <2>1. DOMAIN r = {"pc", "p", "rest"} /\ r.pc = "idle"
    BY <1>5 DEF T!Idle
  <2>. QED
    BY <1>1, <1>2, <1>4, <1>5, <2>1, ListKept, SeekKeeps
<1>6. CASE counted' = counted + 1 /\ r = [T!Idle EXCEPT !.pc = "add"] /\ counted < Len(listed) + MaxProducers - Cardinality(Created)
  <2>1. DOMAIN r = {"pc", "p", "rest"} /\ r.pc = "add"
    BY <1>6 DEF T!Idle
  <2>2. Adding' = Adding \cup {t} /\ t \notin Adding
    BY <1>1, <1>4, <2>1 DEF Adding
  <2>3. Cardinality(Adding') = Cardinality(Adding) + 1
    BY <2>2, AddingFinite, FS_AddElement
  <2>4. PICK k \in Nat : Created = 1..k /\ k + Cardinality(Adding) <= MaxProducers
    BY DEF ListOK
  <2>5. Cardinality(Created) = k
    BY <2>4, OneTo
  <2>6. counted = Len(listed) + Cardinality(Adding) /\ Len(listed) \in Nat /\ Cardinality(Adding) \in Nat
    BY AddingFinite DEF ListOK
  <2>7. k + Cardinality(Adding') <= MaxProducers /\ counted' = Len(listed) + Cardinality(Adding')
    BY <1>6, <2>3, <2>5, <2>6, TokenConstants
  <2>8. ListOK'
    BY <1>1, <1>2, <2>4, <2>7 DEF ListOK, Distinct
  <2>. QED
    BY <1>1, <1>2, <1>4, <2>1, <2>8, SeekKeeps
<1>. QED
  BY <1>3, <1>5, <1>6

\* A list that has grown at its front.
Grown(p) == /\ listed' = <<p>> \o listed /\ Len(listed') = Len(listed) + 1 /\ Listed' = Listed \cup {p}
            /\ listed' \in Seq(Listed') /\ \A i \in 1..Len(listed) : listed'[i + 1] = listed[i]

LEMMA ListGrows == ASSUME listed \in Seq(Listed), NEW p, listed' = <<p>> \o listed PROVE Grown(p) /\ listed'[1] = p
<1>. DEFINE l == <<p>> \o listed S == Listed \cup {p}
<1>1. l \in Seq(S) /\ Len(l) = Len(listed) + 1 /\ l[1] = p /\ Len(listed) \in Nat
      /\ DOMAIN l = 1..(Len(listed) + 1) /\ DOMAIN listed = 1..Len(listed)
  OBVIOUS
<1>2. \A i \in 1..Len(listed) : l[i + 1] = listed[i]
  OBVIOUS
<1>. HIDE DEF l
<1>3. In(l) = S
  <2>1. ASSUME NEW i \in DOMAIN l PROVE l[i] \in S
    BY <1>1
  <2>2. ASSUME NEW x \in S PROVE \E i \in DOMAIN l : l[i] = x
    <3>1. CASE x = p
      BY <1>1, <3>1
    <3>2. CASE x \in Listed
      <4>1. PICK j \in DOMAIN listed : listed[j] = x
        BY <3>2 DEF Listed, In
      <4>2. j + 1 \in DOMAIN l /\ l[j + 1] = x
        BY <1>1, <1>2, <4>1
      <4>. QED
        BY <4>2
    <3>. QED
      BY <3>1, <3>2
  <2>. QED
    BY <2>1, <2>2 DEF In
<1>4. listed' = l
  BY DEF l
<1>5. Listed' = S
  BY <1>3, <1>4 DEF Listed, In
<1>. QED
  BY <1>1, <1>2, <1>4, <1>5 DEF Grown, l

LEMMA AddKeeps == ASSUME T!TokensAssumption, TokensOK, ListOK, NEW t \in Token, T!Add(t)
    PROVE ListOK' /\ TokensOK' /\ \E p : Grown(p)
<1>. DEFINE p == Cardinality(Created) + 1
<1>1. does[t].pc = "add" /\ held[t] = None /\ UNCHANGED <<counted, inactive, owner, held>> /\ listed' = <<p>> \o listed
  BY SameFinite, CreatedIs DEF T!Add, T!At, TokensOK, Seeking
<1>2. T!Goes(t, [T!Idle EXCEPT !.pc = "own", !.p = p])
  BY SameFinite, CreatedIs DEF T!Add
<1>3. PICK k \in Nat : Created = 1..k /\ k + Cardinality(Adding) <= MaxProducers
  BY DEF ListOK
<1>4. p = k + 1
  BY <1>3, OneTo
<1>. HIDE DEF p
<1>5. /\ DOMAIN does' = Token /\ DOMAIN does'[t] = {"pc", "p", "rest"} /\ does'[t].pc = "own" /\ does'[t].p = p
      /\ \A u \in Token \ {t} : does'[u] = does[u]
  <2>. DEFINE r == [T!Idle EXCEPT !.pc = "own", !.p = p]
  <2>1. DOMAIN r = {"pc", "p", "rest"} /\ r.pc = "own" /\ r.p = p
    BY DEF T!Idle
  <2>. HIDE DEF r
  <2>. QED
    BY <1>2, <2>1, GoesTo DEF r
<1>6. Adding' = Adding \ {t} /\ t \in Adding
  BY <1>1, <1>5 DEF Adding
<1>7. Cardinality(Adding') = Cardinality(Adding) - 1 /\ Cardinality(Adding) \in Nat /\ Cardinality(Adding') \in Nat
  <2>1. Cardinality(Adding') = Cardinality(Adding) - 1
    BY <1>6, AddingFinite, FS_RemoveElement
  <2>2. Cardinality(Adding) # 0
    BY <1>6, AddingFinite, FS_EmptySet
  <2>. QED
    BY <2>1, <2>2, AddingFinite
<1>8. p \in Explicit /\ p \notin Created /\ p \notin Listed /\ p # None /\ k + 1 + Cardinality(Adding') <= MaxProducers
  <2>1. k + 1 <= MaxProducers /\ k + 1 + Cardinality(Adding') <= MaxProducers
    BY <1>3, <1>7, TokenConstants
  <2>2. p \in Explicit /\ p \notin Created
    BY <1>3, <1>4, <2>1, TokenConstants DEF Explicit
  <2>. QED
    BY <2>1, <2>2, TokenConstants DEF Created
<1>9. Grown(p) /\ listed'[1] = p /\ Len(listed) \in Nat
  BY <1>1, ListGrows DEF ListOK
<1>10. Created' = 1..(k + 1) /\ Created' = Created \cup {p}
  <2>1. Created' = (Listed \cup {p}) \cap Explicit
    BY <1>9 DEF Grown, Created
  <2>2. Created' = Created \cup {p}
    BY <1>8, <2>1 DEF Created
  <2>3. 1..(k + 1) = (1..k) \cup {k + 1}
    OBVIOUS
  <2>. QED
    BY <1>3, <1>4, <2>2, <2>3
<1>11. Distinct(listed)'
  <2>. SUFFICES ASSUME NEW i \in DOMAIN listed', NEW j \in DOMAIN listed', listed'[i] = listed'[j] PROVE i = j
    BY DEF Distinct
  <2>1. i \in 1..(Len(listed) + 1) /\ j \in 1..(Len(listed) + 1) /\ DOMAIN listed = 1..Len(listed)
    BY <1>9 DEF Grown, ListOK
  <2>2. \A m \in 2..(Len(listed) + 1) : m - 1 \in DOMAIN listed /\ listed'[m] = listed[m - 1] /\ listed[m - 1] # p
    <3>. SUFFICES ASSUME NEW m \in 2..(Len(listed) + 1)
                  PROVE  m - 1 \in DOMAIN listed /\ listed'[m] = listed[m - 1] /\ listed[m - 1] # p
      OBVIOUS
    <3>1. m - 1 \in 1..Len(listed) /\ m = (m - 1) + 1
      BY <1>9
    <3>2. listed'[m] = listed[m - 1]
      BY <1>9, <3>1 DEF Grown
    <3>3. listed[m - 1] \in Listed
      BY <2>1, <3>1 DEF Listed, In
    <3>. QED
      BY <1>8, <2>1, <3>1, <3>2, <3>3
  <2>3. CASE i = 1 \/ j = 1
    BY <1>9, <2>1, <2>2, <2>3
  <2>4. CASE i # 1 /\ j # 1
    <3>1. i \in 2..(Len(listed) + 1) /\ j \in 2..(Len(listed) + 1)
      BY <1>9, <2>1, <2>4
    <3>2. i - 1 = j - 1
      BY <2>2, <3>1 DEF ListOK, Distinct
    <3>. QED
      BY <3>1, <3>2
  <2>. QED
    BY <2>3, <2>4
<1>12. ListOK'
  <2>1. None \notin Listed' /\ listed' \in Seq(Listed') /\ Listed' \subseteq T!Places
    BY <1>8, <1>9, TokenConstants DEF Grown, ListOK
  <2>2. counted' = Len(listed') + Cardinality(Adding')
    BY <1>1, <1>7, <1>9 DEF Grown, ListOK
  <2>. QED
    BY <1>8, <1>10, <1>11, <2>1, <2>2 DEF ListOK
<1>13. OwnersRight'
  <2>1. OwnersRight
    BY OwnersAre DEF TokensOK
  <2>2. Hands(t)' = {p} /\ Hands(t) = {} /\ \A u \in Token \ {t} : Hands(u)' = Hands(u)
    BY <1>1, <1>5, <1>8, TokenConstants DEF Hands
  <2>3. \A u \in Token : Hands(u) \subseteq Created
    BY TokenConstants DEF Hands, TokensOK
  <2>4. \A u, v \in Token : u # v => Hands(u)' \cap Hands(v)' = {}
    BY <1>8, <2>1, <2>2, <2>3 DEF OwnersRight
  <2>5. \A u \in Token : Hands(u)' \cap inactive' = {}
    BY <1>1, <1>8, <2>1, <2>2 DEF OwnersRight, TokensOK
  <2>6. \A u \in Token, q \in Explicit : owner'[q] = u <=> held'[u] = q /\ does'[u].pc # "mark"
    BY <1>1, <1>5, <2>1 DEF OwnersRight
  <2>. QED
    BY <2>4, <2>5, <2>6 DEF OwnersRight
<1>14. TokensOK'
  BY <1>1, <1>5, <1>10, <1>13, OwnersAre DEF TokensOK, Seeking
<1>. QED
  BY <1>9, <1>12, <1>14

LEMMA OwnKeeps == ASSUME T!TokensAssumption, TokensOK, ListOK, NEW t \in Token, T!Own(t) PROVE ListOK' /\ TokensOK'
<1>. DEFINE p == does[t].p
<1>1. does[t].pc = "own" /\ held[t] = None /\ p \in Created /\ UNCHANGED <<listed, counted, inactive>>
      /\ held' = [held EXCEPT ![t] = p] /\ owner' = [owner EXCEPT ![p] = t]
  BY DEF T!Own, T!At, TokensOK, Seeking
<1>2. p \in Explicit /\ p # None
  BY <1>1, TokenConstants DEF Created
<1>3. T!Goes(t, T!Idle) /\ DOMAIN T!Idle = {"pc", "p", "rest"} /\ T!Idle.pc = "idle"
  BY DEF T!Own, T!Idle
<1>4. DOMAIN does' = Token /\ DOMAIN does'[t] = {"pc", "p", "rest"} /\ does'[t].pc = "idle"
      /\ \A u \in Token \ {t} : does'[u] = does[u]
  BY <1>3, GoesTo
<1>5. ListOK' /\ Created' = Created
  BY <1>1, <1>4, ListKept
<1>6. held' \in [Token -> Created \cup {None}] /\ held'[t] = p /\ \A u \in Token \ {t} : held'[u] = held[u]
  BY <1>1 DEF TokensOK
<1>7. owner' \in [Explicit -> Token \cup {None}] /\ owner'[p] = t /\ \A q \in Explicit \ {p} : owner'[q] = owner[q]
  BY <1>1, <1>2 DEF TokensOK
<1>. HIDE DEF p
<1>8. OwnersRight'
  <2>1. OwnersRight
    BY OwnersAre DEF TokensOK
  <2>2. Hands(t)' = {p} /\ Hands(t) = {p} /\ \A u \in Token \ {t} : Hands(u)' = Hands(u)
    BY <1>1, <1>2, <1>4, <1>6, TokenConstants DEF Hands, p
  <2>3. \A u, v \in Token : u # v => Hands(u)' \cap Hands(v)' = {}
    BY <2>1, <2>2 DEF OwnersRight
  <2>4. \A u \in Token : Hands(u)' \cap inactive' = {}
    BY <1>1, <2>1, <2>2 DEF OwnersRight
  <2>5. ASSUME NEW u \in Token, NEW q \in Explicit PROVE owner'[q] = u <=> held'[u] = q /\ does'[u].pc # "mark"
    <3>1. owner[q] = u <=> held[u] = q /\ does[u].pc # "mark"
      BY <2>1 DEF OwnersRight
    <3>2. \A v \in Token \ {t} : held[v] # p
      BY <1>2, <2>1, <2>2 DEF OwnersRight, Hands
    <3>3. q # None
      BY TokenConstants
    <3>4. CASE u = t
      <4>1. CASE q = p
        BY <1>4, <1>6, <1>7, <3>4, <4>1
      <4>2. CASE q # p
        BY <1>1, <1>4, <1>6, <1>7, <3>1, <3>3, <3>4, <4>2
      <4>. QED
        BY <4>1, <4>2
    <3>5. CASE u # t
      BY <1>4, <1>6, <1>7, <3>1, <3>2, <3>5
    <3>. QED
      BY <3>4, <3>5
  <2>. QED
    BY <2>3, <2>4, <2>5 DEF OwnersRight
<1>. QED
  BY <1>1, <1>4, <1>5, <1>6, <1>7, <1>8, OwnersAre DEF TokensOK, Seeking

LEMMA DestroyKeeps == ASSUME T!TokensAssumption, TokensOK, ListOK, NEW t \in Token, T!Destroy(t) PROVE ListOK' /\ TokensOK'
<1>. DEFINE p == held[t]
<1>1. does[t].pc = "idle" /\ p # None /\ p \in Created /\ UNCHANGED <<listed, counted, inactive, held>>
      /\ owner' = [owner EXCEPT ![p] = None]
  BY DEF T!Destroy, T!At, TokensOK
<1>2. p \in Explicit
  BY <1>1 DEF Created
<1>3. T!Goes(t, [T!Idle EXCEPT !.pc = "mark"])
  BY DEF T!Destroy
<1>4. DOMAIN does' = Token /\ DOMAIN does'[t] = {"pc", "p", "rest"} /\ does'[t].pc = "mark"
      /\ \A u \in Token \ {t} : does'[u] = does[u]
  <2>. DEFINE r == [T!Idle EXCEPT !.pc = "mark"]
  <2>1. DOMAIN r = {"pc", "p", "rest"} /\ r.pc = "mark"
    BY DEF T!Idle
  <2>. HIDE DEF r
  <2>. QED
    BY <1>3, <2>1, GoesTo DEF r
<1>5. ListOK' /\ Created' = Created
  BY <1>1, <1>4, ListKept
<1>6. owner' \in [Explicit -> Token \cup {None}] /\ owner'[p] = None /\ \A q \in Explicit \ {p} : owner'[q] = owner[q]
  BY <1>1, <1>2 DEF TokensOK
<1>7. OwnersRight'
  <2>1. OwnersRight
    BY OwnersAre DEF TokensOK
  <2>2. \A u \in Token : Hands(u)' = Hands(u)
    BY <1>1, <1>4 DEF Hands
  <2>3. ASSUME NEW u \in Token, NEW q \in Explicit PROVE owner'[q] = u <=> held'[u] = q /\ does'[u].pc # "mark"
    <3>1. owner[q] = u <=> held[u] = q /\ does[u].pc # "mark"
      BY <2>1 DEF OwnersRight
    <3>2. \A v \in Token \ {t} : held[v] # p
      BY <1>2, <2>1 DEF OwnersRight, Hands
    <3>3. u # None
      BY TokenConstants
    <3>4. CASE q = p
      <4>1. CASE u = t
        BY <1>4, <1>6, <3>3, <3>4, <4>1
      <4>2. CASE u # t
        BY <1>1, <1>6, <3>2, <3>3, <3>4, <4>2
      <4>. QED
        BY <4>1, <4>2
    <3>5. CASE q # p
      BY <1>1, <1>4, <1>6, <3>1, <3>5
    <3>. QED
      BY <3>4, <3>5
  <2>. QED
    BY <1>1, <2>1, <2>2, <2>3 DEF OwnersRight
<1>. QED
  BY <1>1, <1>4, <1>5, <1>6, <1>7, OwnersAre DEF TokensOK, Seeking

\* Its mark comes last, when the token no longer has it.
LEMMA MarkKeeps == ASSUME T!TokensAssumption, TokensOK, ListOK, NEW t \in Token, T!Mark(t) PROVE ListOK' /\ TokensOK'
<1>. DEFINE p == held[t]
<1>1. does[t].pc = "mark" /\ p # None /\ p \in Created /\ UNCHANGED <<listed, counted, owner>>
      /\ inactive' = inactive \cup {p} /\ held' = [held EXCEPT ![t] = None]
  BY DEF T!Mark, T!At, TokensOK
<1>2. p \in Explicit
  BY <1>1 DEF Created
<1>3. T!Goes(t, T!Idle) /\ DOMAIN T!Idle = {"pc", "p", "rest"} /\ T!Idle.pc = "idle"
  BY DEF T!Mark, T!Idle
<1>4. DOMAIN does' = Token /\ DOMAIN does'[t] = {"pc", "p", "rest"} /\ does'[t].pc = "idle"
      /\ \A u \in Token \ {t} : does'[u] = does[u]
  BY <1>3, GoesTo
<1>5. ListOK' /\ Created' = Created
  BY <1>1, <1>4, ListKept
<1>6. held' \in [Token -> Created \cup {None}] /\ held'[t] = None /\ \A u \in Token \ {t} : held'[u] = held[u]
  BY <1>1 DEF TokensOK
<1>7. OwnersRight'
  <2>1. OwnersRight
    BY OwnersAre DEF TokensOK
  <2>2. Hands(t)' = {} /\ p \in Hands(t) /\ \A u \in Token \ {t} : Hands(u)' = Hands(u)
    BY <1>2, <1>4, <1>6, TokenConstants DEF Hands
  <2>3. \A u, v \in Token : u # v => Hands(u)' \cap Hands(v)' = {}
    BY <2>1, <2>2 DEF OwnersRight
  <2>4. \A u \in Token : Hands(u)' \cap inactive' = {}
    BY <1>1, <2>1, <2>2 DEF OwnersRight
  <2>5. ASSUME NEW u \in Token, NEW q \in Explicit PROVE owner'[q] = u <=> held'[u] = q /\ does'[u].pc # "mark"
    <3>1. owner[q] = u <=> held[u] = q /\ does[u].pc # "mark"
      BY <2>1 DEF OwnersRight
    <3>. QED
      BY <1>1, <1>4, <1>6, <3>1, TokenConstants
  <2>. QED
    BY <2>3, <2>4, <2>5 DEF OwnersRight
<1>8. inactive' \subseteq Created
  BY <1>1 DEF TokensOK
<1>. QED
  BY <1>4, <1>5, <1>6, <1>7, <1>8, <1>1, OwnersAre DEF TokensOK, Seeking

LEMMA SwapKeeps == ASSUME T!TokensAssumption, TokensOK, ListOK, NEW t \in Token, NEW u \in Token, T!Swap(t, u)
    PROVE ListOK' /\ TokensOK'
<1>. DEFINE p == held[t] q == held[u]
<1>1. t # u /\ does[t].pc = "idle" /\ does[u].pc = "idle" /\ p # None /\ UNCHANGED <<listed, counted, inactive, does>>
      /\ held' = [held EXCEPT ![t] = q, ![u] = p]
      /\ owner' = [x \in Explicit |-> IF x = p THEN u ELSE IF x = q THEN t ELSE owner[x]]
  BY TokenConstants DEF T!Swap, T!At
<1>2. p \in Created /\ p \in Explicit /\ q \in Created \cup {None} /\ None \notin Explicit
  BY <1>1, TokenConstants DEF TokensOK, Created
<1>3. ListOK' /\ Created' = Created
  BY <1>1, ListKept
<1>4. held' \in [Token -> Created \cup {None}] /\ held'[t] = q /\ held'[u] = p /\ \A v \in Token \ {t, u} : held'[v] = held[v]
  BY <1>1, <1>2 DEF TokensOK
<1>5. owner' \in [Explicit -> Token \cup {None}] /\ \A x \in Explicit : owner'[x] = IF x = p THEN u ELSE IF x = q THEN t ELSE owner[x]
  BY <1>1 DEF TokensOK
<1>. HIDE DEF p, q
<1>6. OwnersRight'
  <2>1. OwnersRight
    BY OwnersAre DEF TokensOK
  <2>2. Hands(t)' = Hands(u) /\ Hands(u)' = Hands(t) /\ \A v \in Token \ {t, u} : Hands(v)' = Hands(v)
    BY <1>1, <1>4 DEF Hands, p, q
  <2>3. \A v, w \in Token : v # w => Hands(v)' \cap Hands(w)' = {}
    BY <1>1, <2>1, <2>2 DEF OwnersRight
  <2>4. \A v \in Token : Hands(v)' \cap inactive' = {}
    BY <1>1, <2>1, <2>2 DEF OwnersRight
  <2>5. ASSUME NEW v \in Token, NEW x \in Explicit PROVE owner'[x] = v <=> held'[v] = x /\ does'[v].pc # "mark"
    <3>1. owner[x] = v <=> held[v] = x /\ does[v].pc # "mark"
      BY <2>1 DEF OwnersRight
    <3>2. \A w \in Token : (w # t => held[w] # p) /\ (w # u /\ q # None => held[w] # q)
      BY <1>2, <2>1 DEF OwnersRight, Hands, Created, p, q
    <3>3. owner[x] = t <=> held[t] = x
      BY <1>1, <2>1 DEF OwnersRight
    <3>4. owner[x] = u <=> held[u] = x
      BY <1>1, <2>1 DEF OwnersRight
    <3>5. p # q
      BY <1>1, <3>2 DEF q
    <3>6. CASE x = p
      BY <1>1, <1>4, <1>5, <3>2, <3>5, <3>6 DEF p, q
    <3>7. CASE x = q
      BY <1>1, <1>2, <1>4, <1>5, <3>2, <3>5, <3>7 DEF p, q
    <3>8. CASE x # p /\ x # q
      BY <1>1, <1>4, <1>5, <3>1, <3>3, <3>4, <3>8 DEF p, q
    <3>. QED
      BY <3>6, <3>7, <3>8
  <2>. QED
    BY <2>3, <2>4, <2>5 DEF OwnersRight
<1>7. DOMAIN does' = Token /\ \A v \in Token : does'[v] = does[v] /\ (does[v].pc # "idle" => v \notin {t, u})
  BY <1>1 DEF TokensOK
<1>. QED
  BY <1>1, <1>3, <1>4, <1>5, <1>6, <1>7, OwnersAre DEF TokensOK, Seeking

\* What consumers know of the list stays so when it grows.
LEMMA ConsumersStay ==
    ASSUME ListOK, ConsumersOK, UNCHANGED <<globalOffset, nextId, consumer, call>>, listed' = listed \/ \E p : Grown(p)
    PROVE  ConsumersOK'
<1>1. Listed \subseteq Listed' /\ Len(listed') \in Nat
  <2>1. CASE listed' = listed
    BY <2>1 DEF Listed, In, ListOK
  <2>2. ASSUME NEW p, Grown(p) PROVE Listed \subseteq Listed' /\ Len(listed') \in Nat
    BY <2>2 DEF Grown, ListOK
  <2>. QED
    BY <2>1, <2>2
<1>2. ASSUME NEW tail, Ends(tail) PROVE Ends(tail)'
  <2>1. CASE listed' = listed
    BY <1>2, <2>1 DEF Ends, Listed, In
  <2>2. ASSUME NEW p, Grown(p) PROVE Ends(tail)'
    <3>1. tail \in Seq(Listed') /\ Len(tail) \in Nat /\ Len(listed) \in Nat /\ Len(tail) <= Len(listed)
      BY <1>1, <1>2 DEF Ends, ListOK
    <3>2. ASSUME NEW i \in 1..Len(tail) PROVE tail[i] = listed'[Len(listed') - Len(tail) + i]
      <4>. DEFINE j == Len(listed) - Len(tail) + i
      <4>1. j \in 1..Len(listed) /\ Len(listed') - Len(tail) + i = j + 1
        BY <2>2, <3>1 DEF Grown
      <4>2. tail[i] = listed[j]
        BY <1>2 DEF Ends
      <4>. QED
        BY <2>2, <4>1, <4>2 DEF Grown
    <3>. QED
      BY <2>2, <3>1, <3>2 DEF Ends, Grown
  <2>. QED
    BY <2>1, <2>2
<1>3. ASSUME NEW k, NEW r, CallOK(k, r) PROVE CallOK(k, r)'
  <2>1. /\ r.pc = "rotate" => Ends(r.tail)'
        /\ r.pc = "others" => Ends(r.tail)'
        /\ r.pc \in Searching => r.p \in Listed'
        /\ r.pc \in {"first", "next"} => r.before \subseteq Listed'
    BY <1>1, <1>2, <1>3 DEF CallOK
  <2>. QED
    BY <1>3, <2>1 DEF CallOK
<1>4. \A k : ConsumerOK(k) => ConsumerOK(k)'
  BY <1>1 DEF ConsumerOK
<1>5. \A c \in Consumer : ConsumerOK(consumer'[c]) /\ CallOK(consumer'[c], call'[c])
  BY DEF ConsumersOK
<1>6. \A c \in Consumer : ConsumerOK(consumer[c])' /\ CallOK(consumer[c], call[c])'
  BY <1>3, <1>4, <1>5
<1>. QED
  BY <1>6 DEF ConsumersOK

\* The steps of a consumer, one at a time.
LEMMA OneConsumer ==
    ASSUME ConsumersOK, NEW c \in Consumer, listed' = listed, globalOffset' \in Nat, nextId' \in Nat,
           DOMAIN consumer' = Consumer, DOMAIN call' = Consumer,
           \A d \in Consumer \ {c} : consumer'[d] = consumer[d] /\ call'[d] = call[d],
           ConsumerOK(consumer'[c]), CallOK(consumer'[c], call'[c])
    PROVE  ConsumersOK'
<1>1. Listed' = Listed
  BY DEF Listed, In
<1>2. \A tail : Ends(tail)' <=> Ends(tail)
  BY <1>1 DEF Ends
<1>3. \A k : ConsumerOK(k)' <=> ConsumerOK(k)
  BY <1>1 DEF ConsumerOK
<1>4. \A k, r : CallOK(k, r)' <=> CallOK(k, r)
  BY <1>1, <1>2 DEF CallOK
<1>5. ASSUME NEW d \in Consumer PROVE ConsumerOK(consumer'[d]) /\ CallOK(consumer'[d], call'[d])
  BY DEF ConsumersOK
<1>6. \A d \in Consumer : ConsumerOK(consumer[d])' /\ CallOK(consumer[d], call[d])'
  BY <1>3, <1>4, <1>5
<1>. QED
  BY <1>6 DEF ConsumersOK

\* Where the others have their places they still have them.
LEMMA OnePlace ==
    ASSUME PlacesOK, NEW c \in Consumer, UNCHANGED <<listed, counted>>, ~grown' => ~grown,
           \A d \in Consumer \ {c} : consumer'[d] = consumer[d] /\ call'[d] = call[d],
           ~grown' => /\ HasPlace(consumer'[c]) => consumer'[c].desired = PlaceOf(consumer'[c])
                      /\ HasPlace(consumer'[c]) \/ call'[c].pc # "idle" => counted = Len(listed)
                      /\ call'[c].pc = "rotate" => call'[c].tail = listed
    PROVE  PlacesOK'
<1>1. \A k : PlaceOf(k)' = PlaceOf(k) /\ (HasPlace(k)' <=> HasPlace(k))
  BY DEF PlaceOf, HasPlace
<1>. SUFFICES ASSUME ~grown', NEW d \in Consumer
              PROVE  /\ HasPlace(consumer'[d]) => consumer'[d].desired = PlaceOf(consumer'[d])
                     /\ HasPlace(consumer'[d]) \/ call'[d].pc # "idle" => counted = Len(listed)
                     /\ call'[d].pc = "rotate" => call'[d].tail = listed
  BY <1>1 DEF PlacesOK, HasPlace, PlaceOf
<1>2. CASE d = c
  BY <1>2
<1>3. CASE d # c
  BY <1>3 DEF PlacesOK
<1>. QED
  BY <1>2, <1>3

LEMMA DoesTo == ASSUME ConsumersOK, NEW c \in Consumer, NEW r, T!Does(c, r) PROVE
    DOMAIN call' = Consumer /\ call'[c] = r /\ \A d \in Consumer \ {c} : call'[d] = call[d]
BY DEF T!Does, ConsumersOK

LEMMA EndsIn == ASSUME ListOK, NEW tail, Ends(tail) PROVE
    /\ Len(tail) \in Nat /\ DOMAIN tail = 1..Len(tail) /\ In(tail) \subseteq Listed /\ Distinct(tail)
    /\ Len(listed) \in Nat /\ DOMAIN listed = 1..Len(listed)
<1>1. Len(tail) \in Nat /\ DOMAIN tail = 1..Len(tail) /\ In(tail) \subseteq Listed /\ Len(listed) \in Nat
      /\ DOMAIN listed = 1..Len(listed) /\ Len(tail) <= Len(listed)
  BY DEF Ends, In, ListOK
<1>2. ASSUME NEW i \in DOMAIN tail, NEW j \in DOMAIN tail, tail[i] = tail[j] PROVE i = j
  <2>. DEFINE x == Len(listed) - Len(tail) + i y == Len(listed) - Len(tail) + j
  <2>1. x \in DOMAIN listed /\ y \in DOMAIN listed
    BY <1>1
  <2>2. listed[x] = listed[y]
    BY <1>1, <1>2 DEF Ends
  <2>3. x = y
    BY <2>1, <2>2 DEF ListOK, Distinct
  <2>. QED
    BY <1>1, <2>3
<1>. QED
  BY <1>1, <1>2 DEF Distinct

LEMMA WholeList == ASSUME ListOK PROVE Ends(listed) /\ In(listed) = Listed
<1>1. Len(listed) \in Nat /\ listed \in Seq(Listed)
  BY DEF ListOK
<1>2. \A i \in 1..Len(listed) : Len(listed) - Len(listed) + i = i
  BY <1>1
<1>. QED
  BY <1>1, <1>2 DEF Ends, Listed

LEMMA ConstructConsumerKeeps ==
    ASSUME T!TokensAssumption, ListOK, ConsumersOK, PlacesOK, NEW c \in Consumer, T!ConstructConsumer(c)
    PROVE  ConsumersOK' /\ PlacesOK'
<1>. DEFINE k == [T!Unused EXCEPT !.initialOffset = nextId]
<1>1. /\ consumer[c] = None /\ consumer' = [consumer EXCEPT ![c] = k] /\ nextId' = nextId + 1
      /\ UNCHANGED <<listed, counted, globalOffset, call, grown>>
  BY DEF T!ConstructConsumer, T!list
<1>2. /\ DOMAIN k = {"initialOffset", "lastKnownGlobalOffset", "itemsConsumed", "current", "desired"}
      /\ k.initialOffset = nextId /\ k.lastKnownGlobalOffset = -1 /\ k.desired = None
  BY DEF T!Unused
<1>2a. nextId \in Nat => k \in T!ConsumerTokens
  BY DEF T!Unused, T!ConsumerTokens
<1>. HIDE DEF k
<1>3. /\ DOMAIN consumer' = Consumer /\ consumer'[c] = k /\ \A d \in Consumer \ {c} : consumer'[d] = consumer[d]
      /\ DOMAIN call' = Consumer /\ nextId \in Nat /\ globalOffset \in Nat
  BY <1>1 DEF ConsumersOK
<1>4. call[c].pc = "idle" /\ CallOK(None, call[c])
  BY <1>1 DEF ConsumersOK, CallOK
<1>5. ConsumerOK(k) /\ CallOK(k, call[c])
  BY <1>2, <1>2a, <1>3, <1>4 DEF ConsumerOK, CallOK, Searching
<1>6. ConsumersOK'
  BY <1>1, <1>3, <1>5, OneConsumer
<1>7. PlacesOK'
  BY <1>1, <1>2, <1>3, <1>4, OnePlace DEF HasPlace
<1>. QED
  BY <1>6, <1>7

LEMMA DequeueKeeps ==
    ASSUME T!TokensAssumption, ListOK, ConsumersOK, PlacesOK, NEW c \in Consumer, NEW bulk \in BOOLEAN, T!Dequeue(c, bulk)
    PROVE  ConsumersOK' /\ PlacesOK'
<1>. DEFINE k == consumer[c]
            r == [T!NoCall EXCEPT !.bulk = bulk, !.left = IF bulk THEN Most ELSE 1, !.before = Listed,
                    !.tail = listed, !.p = k.current,
                    !.pc = IF k.desired = None \/ k.lastKnownGlobalOffset # globalOffset THEN "rotate" ELSE "first"]
<1>1. /\ k # None /\ call[c].pc = "idle" /\ T!Does(c, r) /\ grown' = (grown \/ counted # Len(listed))
      /\ UNCHANGED <<listed, counted, globalOffset, nextId, consumer>>
  BY SameFinite DEF T!Dequeue, T!CallAt, T!list, Listed
<1>2. /\ DOMAIN r = {"pc", "bulk", "left", "tail", "p", "got", "tried", "before"}
      /\ r.pc = (IF k.desired = None \/ k.lastKnownGlobalOffset # globalOffset THEN "rotate" ELSE "first")
      /\ r.got = 0 /\ r.tried = <<>> /\ r.before = Listed /\ r.tail = listed /\ r.p = k.current
      /\ r.left = (IF bulk THEN Most ELSE 1)
  BY DEF T!NoCall
<1>. HIDE DEF r
<1>3. DOMAIN call' = Consumer /\ call'[c] = r /\ \A d \in Consumer \ {c} : call'[d] = call[d]
  BY <1>1, DoesTo
<1>4. ConsumerOK(k) /\ DOMAIN consumer' = Consumer /\ nextId' \in Nat /\ globalOffset' \in Nat
  BY <1>1 DEF ConsumersOK
<1>5. r.left \in Nat \ {0} /\ r.tried \in Seq(In(r.tried))
  BY <1>2, TokenConstants
<1>6. CallOK(k, r)
  BY <1>1, <1>2, <1>4, <1>5, WholeList DEF CallOK, ConsumerOK, Searching
<1>7. ConsumersOK'
  BY <1>1, <1>3, <1>4, <1>6, OneConsumer
<1>8. PlacesOK'
  <2>1. ~grown' => (HasPlace(k) => k.desired = PlaceOf(k))
    BY <1>1 DEF PlacesOK
  <2>. QED
    BY <1>1, <1>2, <1>3, <2>1, OnePlace
<1>. QED
  BY <1>7, <1>8

LEMMA DivMod == ASSUME NEW a \in Int, NEW b \in Nat \ {0} PROVE
    a = b * (a \div b) + (a % b) /\ a % b \in 0..(b - 1) /\ a \div b \in Int
OBVIOUS

LEMMA TimesMore == ASSUME NEW n \in Nat \ {0}, NEW k \in Int, NEW j \in Int PROVE
    n * (k - j) = n * k - n * j /\ (k - j >= 1 => n * (k - j) >= n) /\ (k - j <= -1 => n * (k - j) <= -n)
OBVIOUS

\* Numbers that differ by times n leave the same.
LEMMA SameMod ==
    ASSUME NEW n \in Nat \ {0}, NEW a \in Int, NEW b \in Int, NEW k \in Int, a = b + n * k PROVE a % n = b % n
<1>. DEFINE qa == a \div n qb == b \div n ra == a % n rb == b % n
<1>1. a = n * qa + ra /\ ra \in 0..(n - 1) /\ qa \in Int /\ b = n * qb + rb /\ rb \in 0..(n - 1) /\ qb \in Int
  BY DivMod
<1>. HIDE DEF qa, qb, ra, rb
<1>. DEFINE q == qb + k
<1>2. n * q = n * qb + n * k /\ q \in Int
  BY <1>1
<1>. HIDE DEF q
<1>3. n * (q - qa) = ra - rb
  BY <1>1, <1>2, TimesMore
<1>4. ~ q - qa >= 1 /\ ~ q - qa <= -1
  BY <1>1, <1>2, <1>3, TimesMore
<1>5. q = qa
  BY <1>1, <1>2, <1>4
<1>6. n * q = n * qa
  BY <1>5
<1>7. ra = rb
  BY <1>1, <1>2, <1>6
<1>. QED
  BY <1>7 DEF ra, rb

\* n places on from the i-th.
LEMMA AfterIs ==
    ASSUME NEW tail, Len(tail) \in Nat \ {0}, DOMAIN tail = 1..Len(tail), Distinct(tail), NEW i \in DOMAIN tail, NEW n \in Int
    PROVE  T!After(tail, tail[i], n) = tail[((i - 1 + n) % Len(tail)) + 1] /\ T!After(tail, tail[i], n) \in In(tail)
<1>. DEFINE j == CHOOSE j \in DOMAIN tail : tail[j] = tail[i]
<1>1. j \in DOMAIN tail /\ tail[j] = tail[i]
  OBVIOUS
<1>2. j = i
  BY <1>1 DEF Distinct
<1>3. T!After(tail, tail[i], n) = tail[((j - 1 + n) % Len(tail)) + 1]
  BY DEF T!After
<1>4. (i - 1 + n) % Len(tail) \in 0..(Len(tail) - 1)
  <2>. DEFINE l == Len(tail) x == i - 1 + n
  <2>1. l \in Nat \ {0} /\ x \in Int
    OBVIOUS
  <2>. HIDE DEF l, x
  <2>2. x % l \in 0..(l - 1)
    BY <2>1, DivMod
  <2>. QED
    BY <2>2 DEF l, x
<1>5. ((i - 1 + n) % Len(tail)) + 1 \in DOMAIN tail
  BY <1>4
<1>. QED
  BY <1>2, <1>3, <1>5 DEF In

LEMMA PlaceMod ==
    ASSUME NEW n \in Nat \ {0}, NEW off \in Nat, NEW last \in Int, NEW to \in Int, NEW i \in 1..n,
           (i - 1) % n = (last - off) % n
    PROVE  /\ (i - 1 + (to - last)) % n = (to - off) % n
           /\ (i - 1 + ((to - last) % n)) % n = (to - off) % n
<1>. DEFINE a == (i - 1) \div n b == (last - off) \div n d == (to - last) \div n m == (to - last) % n r == (i - 1) % n
<1>1. i - 1 = n * a + r /\ last - off = n * b + r /\ a \in Int /\ b \in Int /\ r \in Int
  <2>1. i - 1 \in Int /\ last - off \in Int
    OBVIOUS
  <2>. QED
    BY <2>1, DivMod
<1>2. to - last = n * d + m /\ d \in Int /\ m \in Int
  BY DivMod
<1>. HIDE DEF a, b, d, m, r
<1>3. n * (a - b) = n * a - n * b /\ n * (a - b - d) = n * a - n * b - n * d
  BY <1>1, <1>2
<1>4. i - 1 + (to - last) = (to - off) + n * (a - b)
  BY <1>1, <1>3
<1>5. i - 1 + m = (to - off) + n * (a - b - d)
  BY <1>1, <1>2, <1>3
<1>. DEFINE x == i - 1 + (to - last) y == i - 1 + m z == to - off e == a - b f == a - b - d
<1>6. x = z + n * e /\ y = z + n * f /\ x \in Int /\ y \in Int /\ z \in Int
  BY <1>1, <1>2, <1>4, <1>5
<1>7. e \in Int /\ f \in Int
  BY <1>1, <1>2
<1>. HIDE DEF x, y, z, e, f
<1>8. x % n = z % n /\ y % n = z % n
  BY <1>6, <1>7, SameMod
<1>. QED
  BY <1>8 DEF m, x, y, z

LEMMA FirstMod ==
    ASSUME NEW n \in Nat \ {0}, NEW off \in Nat
    PROVE  ((1 - 1 + (n - 1 - (off % n))) % n) = ((-1) - off) % n
<1>. DEFINE q == off \div n r == off % n
<1>1. off = n * q + r /\ q \in Int /\ r \in Int
  BY DivMod
<1>. HIDE DEF q, r
<1>2. n * (q + 1) = n * q + n
  BY <1>1
<1>3. 1 - 1 + (n - 1 - r) = ((-1) - off) + n * (q + 1)
  BY <1>1, <1>2
<1>. DEFINE x == 1 - 1 + (n - 1 - r) z == (-1) - off k == q + 1
<1>4. x = z + n * k /\ x \in Int /\ z \in Int /\ k \in Int
  BY <1>1, <1>3
<1>. HIDE DEF x, z, k
<1>5. x % n = z % n
  BY <1>4, SameMod
<1>. QED
  BY <1>5 DEF r, x, z


\* What leaves the same, taken from one number, differs by a multiple.
LEMMA SameLeft ==
    ASSUME NEW n \in Nat \ {0}, NEW last \in Int, NEW a \in Nat, NEW b \in Nat
    PROVE  /\ (last - a) % n \in 0..(n - 1) /\ (last - b) % n \in 0..(n - 1)
           /\ (last - a) % n = (last - b) % n => (a - b) % n = 0
<1>. DEFINE u == last - a v == last - b x == u % n y == v % n p == u \div n q == v \div n
<1>1. u \in Int /\ v \in Int /\ a - b = v - u /\ a - b \in Int
  OBVIOUS
<1>. HIDE DEF u, v
<1>2. u = n * p + x /\ v = n * q + y /\ x \in 0..(n - 1) /\ y \in 0..(n - 1) /\ p \in Int /\ q \in Int
  BY <1>1, DivMod
<1>. HIDE DEF x, y, p, q
<1>3. ASSUME x = y PROVE (a - b) % n = 0
  <2>. DEFINE k == q - p e == a - b
  <2>1. k \in Int /\ n * k = n * q - n * p
    BY <1>2
  <2>. HIDE DEF k
  <2>. DEFINE z == 0
  <2>2. e = z + n * k /\ e \in Int /\ z \in Int
    BY <1>1, <1>2, <1>3, <2>1
  <2>. HIDE DEF e, z
  <2>3. e % n = z % n
    BY <2>1, <2>2, SameMod
  <2>4. z % n = 0
    BY DEF z
  <2>. QED
    BY <2>3, <2>4 DEF e
<1>. QED
  BY <1>2, <1>3 DEF x, y, u, v

\* The list's length was counted before it was read, and what was read is no longer than it is now.
LEMMA Lengths == ASSUME T!TokensAssumption, ListOK PROVE counted \in Nat /\ counted >= Len(listed) /\ Len(listed) \in Nat
BY AddingFinite DEF ListOK

\* A token that moves is still one.
LEMMA TokenMoves ==
    ASSUME NEW k \in T!ConsumerTokens, NEW p \in T!Places \cup {None}, NEW g \in Int, NEW n \in Nat
    PROVE  /\ [k EXCEPT !.desired = p, !.current = p, !.itemsConsumed = 0, !.lastKnownGlobalOffset = g] \in T!ConsumerTokens
           /\ [k EXCEPT !.current = p, !.itemsConsumed = n] \in T!ConsumerTokens
           /\ [k EXCEPT !.itemsConsumed = k.itemsConsumed + n] \in T!ConsumerTokens
<1>. DEFINE S == T!Places \cup {None}
<1>1. k \in [initialOffset : Nat, lastKnownGlobalOffset : Int, itemsConsumed : Nat, current : S, desired : S] /\ p \in S
  BY DEF T!ConsumerTokens
<1>. HIDE DEF S
<1>2. [k EXCEPT !.desired = p, !.current = p, !.itemsConsumed = 0, !.lastKnownGlobalOffset = g]
        \in [initialOffset : Nat, lastKnownGlobalOffset : Int, itemsConsumed : Nat, current : S, desired : S]
  BY <1>1
<1>3. [k EXCEPT !.current = p, !.itemsConsumed = n]
        \in [initialOffset : Nat, lastKnownGlobalOffset : Int, itemsConsumed : Nat, current : S, desired : S]
  BY <1>1
<1>4. [k EXCEPT !.itemsConsumed = k.itemsConsumed + n]
        \in [initialOffset : Nat, lastKnownGlobalOffset : Int, itemsConsumed : Nat, current : S, desired : S]
  BY <1>1
<1>. QED
  BY <1>2, <1>3, <1>4 DEF S, T!ConsumerTokens

LEMMA RotateKeeps ==
    ASSUME T!TokensAssumption, ListOK, ConsumersOK, PlacesOK, NEW c \in Consumer, T!Rotate(c)
    PROVE  ConsumersOK' /\ PlacesOK'
<1>. DEFINE k == consumer[c] r == call[c] tail == r.tail n == counted
            from == IF k.desired = None THEN T!FirstPlace(tail, n, k) ELSE k.desired
            delta == globalOffset - k.lastKnownGlobalOffset
            p == T!After(tail, from, IF delta >= n THEN delta % n ELSE delta)
            l == [k EXCEPT !.desired = p, !.current = p, !.itemsConsumed = 0, !.lastKnownGlobalOffset = globalOffset]
<1>1. r.pc = "rotate" /\ UNCHANGED <<listed, counted, globalOffset, nextId, grown>>
  BY DEF T!Rotate, T!CallAt, T!list
<1>2. /\ k # None /\ ConsumerOK(k) /\ CallOK(k, r) /\ Ends(tail) /\ r.before = In(tail) /\ r.got = 0 /\ r.tried = <<>>
      /\ k.desired # None => k.desired \in In(tail)
      /\ globalOffset \in Nat /\ nextId \in Nat /\ DOMAIN consumer = Consumer /\ DOMAIN call = Consumer
  BY <1>1 DEF ConsumersOK, CallOK
<1>3. /\ DOMAIN r = {"pc", "bulk", "left", "tail", "p", "got", "tried", "before"} /\ r.left \in Nat \ {0}
      /\ r.tried \in Seq(In(r.tried))
  BY <1>1, <1>2 DEF CallOK
<1>4. CASE tail = <<>> /\ k.desired = None
  <2>. DEFINE s == [r EXCEPT !.pc = "return"]
  <2>1. consumer' = consumer /\ T!Does(c, s)
    BY <1>4 DEF T!Rotate
  <2>2. /\ DOMAIN s = {"pc", "bulk", "left", "tail", "p", "got", "tried", "before"} /\ s.pc = "return"
        /\ s.got = 0 /\ s.tried = <<>> /\ s.before = {} /\ s.tried \in Seq(In(s.tried))
    <3>1. DOMAIN tail = {} /\ In(tail) = {}
      BY <1>4 DEF In
    <3>. QED
      BY <1>2, <1>3, <3>1
  <2>. HIDE DEF s
  <2>3. DOMAIN call' = Consumer /\ call'[c] = s /\ \A d \in Consumer \ {c} : call'[d] = call[d]
    BY <2>1, DoesTo
  <2>4. CallOK(k, s)
    BY <1>2, <2>2 DEF CallOK, Searching, Distinct
  <2>5. ConsumersOK'
    BY <1>1, <1>2, <2>1, <2>3, <2>4, OneConsumer
  <2>6. PlacesOK'
    <3>1. ~grown => counted = Len(listed)
      BY <1>1 DEF PlacesOK
    <3>2. ~HasPlace(k)
      BY <1>4 DEF HasPlace
    <3>. QED
      BY <1>1, <2>1, <2>2, <2>3, <3>1, <3>2, OnePlace
  <2>. QED
    BY <2>5, <2>6
<1>5. CASE ~(tail = <<>> /\ k.desired = None)
  <2>. DEFINE s == [r EXCEPT !.pc = "first", !.p = p]
  <2>1. consumer' = [consumer EXCEPT ![c] = l] /\ T!Does(c, s)
    BY <1>5 DEF T!Rotate
  <2>2. Len(tail) \in Nat \ {0} /\ DOMAIN tail = 1..Len(tail) /\ Distinct(tail) /\ In(tail) \subseteq Listed /\ n \in Nat \ {0}
    <3>1. tail # <<>>
      BY <1>2, <1>5 DEF In
    <3>2. Len(tail) \in Nat /\ DOMAIN tail = 1..Len(tail) /\ Distinct(tail) /\ In(tail) \subseteq Listed
          /\ Len(tail) <= Len(listed) /\ tail \in Seq(Listed)
      BY <1>2, EndsIn DEF Ends
    <3>3. Len(tail) # 0
      BY <3>1, <3>2
    <3>. QED
      BY <3>2, <3>3, Lengths
  <2>. DEFINE off == k.initialOffset last == k.lastKnownGlobalOffset
              place == n - 1 - (off % n)
              steps == IF delta >= n THEN delta % n ELSE delta
  <2>3. off \in Nat /\ last \in Int /\ (k.desired = None => last = -1) /\ delta \in Int
    BY <1>2 DEF ConsumerOK
  <2>4. place \in Int /\ steps \in Int
    <3>1. off \in Int /\ off % n \in Int /\ delta % n \in Int
      <4>. HIDE DEF off, delta, n
      <4>. QED
        BY <2>2, <2>3, DivMod
    <3>. QED
      BY <2>2, <2>3, <3>1
  <2>5. \E i \in DOMAIN tail : from = tail[i] /\ (k.desired = None => i = ((1 - 1 + place) % Len(tail)) + 1)
    <3>1. CASE k.desired = None
      <4>1. 1 \in DOMAIN tail /\ Head(tail) = tail[1]
        BY <2>2
      <4>2. from = T!After(tail, tail[1], place)
        BY <3>1, <4>1 DEF T!FirstPlace
      <4>. DEFINE m == Len(tail) x == 1 - 1 + place
      <4>3. from = tail[(x % m) + 1]
        <5>. HIDE DEF place, from
        <5>. QED
          BY <2>2, <2>4, <4>1, <4>2, AfterIs
      <4>4. x \in Int
        BY <2>4
      <4>5. m \in Nat \ {0} /\ DOMAIN tail = 1..m
        BY <2>2
      <4>. HIDE DEF x, m, from
      <4>6. (x % m) + 1 \in DOMAIN tail
        <5>1. x % m \in 0..(m - 1)
          BY <4>4, <4>5, DivMod
        <5>. QED
          BY <4>5, <5>1
      <4>. QED
        BY <4>3, <4>6 DEF x, m
    <3>2. CASE k.desired # None
      BY <1>2, <3>2 DEF In
    <3>. QED
      BY <3>1, <3>2
  <2>6. PICK i \in DOMAIN tail : from = tail[i] /\ (k.desired = None => i = ((1 - 1 + place) % Len(tail)) + 1)
    BY <2>5
  <2>7. p = tail[((i - 1 + steps) % Len(tail)) + 1] /\ p \in In(tail)
    <3>1. p = T!After(tail, tail[i], steps)
      BY <2>6
    <3>. HIDE DEF p, steps
    <3>. QED
      BY <2>2, <2>4, <2>6, <3>1, AfterIs
  <2>8. p \in Listed /\ p # None /\ p \in T!Places
    BY <2>2, <2>7 DEF ListOK
  <2>. HIDE DEF p
  <2>9. /\ DOMAIN l = {"initialOffset", "lastKnownGlobalOffset", "itemsConsumed", "current", "desired"}
        /\ l.initialOffset = off /\ l.lastKnownGlobalOffset = globalOffset /\ l.desired = p /\ l.current = p
    BY <1>2 DEF ConsumerOK
  <2>9a. l \in T!ConsumerTokens
    <3>1. k \in T!ConsumerTokens /\ globalOffset \in Int
      BY <1>2 DEF ConsumerOK
    <3>. HIDE DEF k
    <3>. QED
      BY <2>8, <3>1, TokenMoves DEF l
  <2>10. /\ DOMAIN s = {"pc", "bulk", "left", "tail", "p", "got", "tried", "before"} /\ s.pc = "first" /\ s.p = p
         /\ s.left = r.left /\ s.got = 0 /\ s.tried = <<>> /\ s.before = In(tail) /\ s.tried \in Seq(In(s.tried))
    BY <1>2, <1>3
  <2>. HIDE DEF l, s
  <2>11. DOMAIN call' = Consumer /\ call'[c] = s /\ \A d \in Consumer \ {c} : call'[d] = call[d]
    BY <2>1, DoesTo
  <2>12. DOMAIN consumer' = Consumer /\ consumer'[c] = l /\ \A d \in Consumer \ {c} : consumer'[d] = consumer[d]
    BY <1>2, <2>1
  <2>13. ConsumerOK(l) /\ l.desired # None
    BY <1>2, <2>3, <2>8, <2>9, <2>9a DEF ConsumerOK
  <2>14. CallOK(l, s)
    <3>1. l # None
      BY <2>9a, TokenConstants
    <3>. QED
      BY <1>3, <2>2, <2>8, <2>9, <2>10, <3>1 DEF CallOK, Searching
  <2>15. ConsumersOK'
    BY <1>1, <1>2, <2>11, <2>12, <2>13, <2>14, OneConsumer
  <2>16. PlacesOK'
    <3>. SUFFICES ASSUME ~grown PROVE l.desired = PlaceOf(l) /\ counted = Len(listed)
      BY <1>1, <2>10, <2>11, <2>12, OnePlace
    <3>1. n = Len(listed) /\ tail = listed /\ (HasPlace(k) => k.desired = PlaceOf(k))
      BY <1>1 DEF PlacesOK
    <3>2. DOMAIN tail = 1..n /\ Distinct(tail) /\ Len(tail) = n /\ i \in 1..n
      BY <2>2, <2>6, <3>1
    <3>3. (i - 1) % n = (last - off) % n
      <4>. DEFINE x == IF k.desired = None THEN 1 - 1 + place ELSE last - off
      <4>1. i = (x % n) + 1 /\ x \in Int
        <5>1. CASE k.desired = None
          BY <2>4, <2>6, <3>2, <5>1
        <5>2. CASE k.desired # None
          <6>. DEFINE y == last - off j == (y % n) + 1
          <6>1. k.desired = listed[j] /\ from = tail[i] /\ from = k.desired
            BY <1>2, <2>6, <3>1, <5>2 DEF HasPlace, PlaceOf
          <6>2. y \in Int
            BY <2>3
          <6>3. y % n \in 0..(n - 1)
            <7>. HIDE DEF y, n
            <7>. QED
              BY <2>2, <6>2, DivMod
          <6>4. j \in DOMAIN tail
            BY <3>2, <6>3
          <6>. HIDE DEF j
          <6>5. i = j
            BY <3>1, <3>2, <6>1, <6>4 DEF Distinct
          <6>. QED
            BY <5>2, <6>2, <6>5 DEF j
        <5>. QED
          BY <5>1, <5>2
      <4>2. x % n = (last - off) % n
        <5>1. CASE k.desired = None
          <6>1. (1 - 1 + (n - 1 - (off % n))) % n = ((-1) - off) % n
            <7>. HIDE DEF n, off
            <7>. QED
              BY <2>2, <2>3, FirstMod
          <6>. QED
            BY <2>3, <5>1, <6>1
        <5>2. CASE k.desired # None
          BY <5>2
        <5>. QED
          BY <5>1, <5>2
      <4>. HIDE DEF x
      <4>3. i - 1 = x % n /\ x % n \in 0..(n - 1)
        <5>. HIDE DEF n
        <5>1. x % n \in 0..(n - 1)
          BY <2>2, <4>1, DivMod
        <5>. QED
          BY <4>1, <5>1
      <4>4. \A z \in 0..(n - 1) : z % n = z
        <5>. HIDE DEF n
        <5>. QED
          BY <2>2
      <4>. QED
        BY <4>2, <4>3, <4>4
    <3>4. (i - 1 + steps) % n = (globalOffset - off) % n
      <4>. HIDE DEF n, off, last
      <4>1. /\ (i - 1 + (globalOffset - last)) % n = (globalOffset - off) % n
            /\ (i - 1 + ((globalOffset - last) % n)) % n = (globalOffset - off) % n
        <5>1. n \in Nat \ {0} /\ off \in Nat /\ last \in Int /\ globalOffset \in Int /\ i \in 1..n
          BY <1>2, <2>2, <2>3, <3>2
        <5>. QED
          BY <3>3, <5>1, PlaceMod, Zenon
      <4>. QED
        BY <4>1 DEF last
    <3>5. p = listed[((globalOffset - off) % Len(listed)) + 1]
      <4>. HIDE DEF steps, off, n
      <4>. QED
        BY <2>7, <3>1, <3>2, <3>4
    <3>. QED
      BY <2>9, <3>1, <3>5 DEF PlaceOf
  <2>. QED
    BY <2>15, <2>16
<1>. QED
  BY <1>4, <1>5

\* What was tried, with one more.
LEMMA OneMore ==
    ASSUME NEW s, s \in Seq(In(s)), NEW p
    PROVE  LET u == Append(s, p) IN
           /\ u \in Seq(In(u)) /\ Len(s) \in Nat /\ Len(u) = Len(s) + 1 /\ DOMAIN u = 1..(Len(s) + 1) /\ u[Len(s) + 1] = p
           /\ \A i \in 1..Len(s) : u[i] = s[i]
<1>. DEFINE u == Append(s, p) S == In(s) \cup {p}
<1>1. s \in Seq(S) /\ p \in S
  BY DEF In
<1>. HIDE DEF S
<1>2. /\ Len(s) \in Nat /\ Len(u) = Len(s) + 1 /\ DOMAIN u = 1..(Len(s) + 1) /\ u[Len(s) + 1] = p
      /\ \A i \in 1..Len(s) : u[i] = s[i]
  BY <1>1
<1>3. u \in Seq(S)
  BY <1>1
<1>4. u \in Seq(In(u))
  <2>. HIDE DEF u
  <2>1. \A i \in DOMAIN u : u[i] \in In(u)
    BY DEF In
  <2>2. u = [i \in 1..(Len(s) + 1) |-> u[i]]
    BY <1>2, <1>3
  <2>3. u \in [1..(Len(s) + 1) -> In(u)]
    BY <1>2, <2>1, <2>2
  <2>. QED
    BY <1>2, <2>3
<1>. QED
  BY <1>2, <1>4

\* The steps of a call leave a place where it was.
LEMMA SamePlace ==
    ASSUME PlacesOK, NEW c \in Consumer, UNCHANGED <<listed, counted, grown>>, call[c].pc # "idle", call'[c].pc # "rotate",
           \A d \in Consumer \ {c} : consumer'[d] = consumer[d] /\ call'[d] = call[d],
           consumer[c] # None,
           consumer'[c].desired = consumer[c].desired, consumer'[c].initialOffset = consumer[c].initialOffset,
           consumer'[c].lastKnownGlobalOffset = consumer[c].lastKnownGlobalOffset
    PROVE  PlacesOK'
<1>1. PlaceOf(consumer'[c]) = PlaceOf(consumer[c])
  BY DEF PlaceOf
<1>2. ~grown => counted = Len(listed)
  BY DEF PlacesOK
<1>3. ~grown => (HasPlace(consumer'[c]) => consumer'[c].desired = PlaceOf(consumer'[c]))
  BY <1>1 DEF PlacesOK, HasPlace
<1>. QED
  BY <1>2, <1>3, OnePlace

LEMMA TryCurrentKeeps ==
    ASSUME T!TokensAssumption, ListOK, ConsumersOK, PlacesOK, NEW c \in Consumer, NEW n \in 0..Most, T!TryCurrent(c, n)
    PROVE  ConsumersOK' /\ PlacesOK'
<1>. DEFINE k == consumer[c] q == call[c] r == T!Tried(q) all == n = q.left sum == k.itemsConsumed + n
            l == [k EXCEPT !.itemsConsumed = k.itemsConsumed + n]
            s == [r EXCEPT !.got = n, !.left = @ - n, !.pc = IF all THEN "return" ELSE "next"]
<1>1. q.pc = "first" /\ UNCHANGED <<listed, counted, nextId, grown>>
  BY DEF T!TryCurrent, T!CallAt, T!list
<1>2. /\ k # None /\ ConsumerOK(k) /\ CallOK(k, q) /\ q.got = 0 /\ q.tried = <<>> /\ q.left \in Nat \ {0}
      /\ k.desired # None /\ q.p \in Listed /\ q.p = k.current /\ q.before \subseteq Listed
      /\ globalOffset \in Nat /\ nextId \in Nat /\ DOMAIN consumer = Consumer /\ DOMAIN call = Consumer
      /\ DOMAIN q = {"pc", "bulk", "left", "tail", "p", "got", "tried", "before"} /\ q.tried \in Seq(In(q.tried))
  BY <1>1 DEF ConsumersOK, CallOK, Searching
<1>3. /\ DOMAIN r = DOMAIN q /\ r.left = q.left /\ r.pc = q.pc /\ r.p = q.p /\ r.before = q.before /\ r.tail = q.tail
      /\ r.tried = Append(q.tried, q.p)
  BY <1>2 DEF T!Tried
<1>4. consumer' = [consumer EXCEPT ![c].itemsConsumed = sum] /\ n <= q.left /\ T!Does(c, s) /\ globalOffset' \in Nat
  <2>1. n <= r.left /\ consumer' = [consumer EXCEPT ![c].itemsConsumed = sum]
        /\ T!Does(c, [r EXCEPT !.got = n, !.left = @ - n, !.pc = IF n = r.left THEN "return" ELSE "next"])
        /\ globalOffset' \in {globalOffset, globalOffset + 1}
    BY DEF T!TryCurrent
  <2>. HIDE DEF r
  <2>. QED
    BY <1>2, <1>3, <2>1
<1>. HIDE DEF r
<1>5. /\ DOMAIN s = {"pc", "bulk", "left", "tail", "p", "got", "tried", "before"} /\ s.pc = (IF all THEN "return" ELSE "next")
      /\ s.got = n /\ s.left = q.left - n /\ s.p = q.p /\ s.before = q.before /\ s.tried = Append(q.tried, q.p)
  BY <1>2, <1>3
<1>6. /\ DOMAIN consumer' = Consumer /\ consumer'[c] = l /\ \A d \in Consumer \ {c} : consumer'[d] = consumer[d]
  BY <1>2, <1>4
<1>7. l \in T!ConsumerTokens /\ n \in Nat
  <2>1. k \in T!ConsumerTokens /\ n \in Nat /\ 0 \in Int /\ None \in T!Places \cup {None}
    BY <1>2, TokenConstants DEF ConsumerOK
  <2>. QED
    BY <2>1, TokenMoves
<1>8. /\ DOMAIN l = {"initialOffset", "lastKnownGlobalOffset", "itemsConsumed", "current", "desired"} /\ l # None
      /\ l.initialOffset = k.initialOffset /\ l.lastKnownGlobalOffset = k.lastKnownGlobalOffset
      /\ l.desired = k.desired /\ l.current = k.current
  BY <1>2, <1>7, TokenConstants DEF ConsumerOK
<1>. HIDE DEF s, l
<1>9. DOMAIN call' = Consumer /\ call'[c] = s /\ \A d \in Consumer \ {c} : call'[d] = call[d]
  BY <1>4, DoesTo
<1>10. s.tried \in Seq(In(s.tried)) /\ s.tried = <<s.p>>
  <2>. DEFINE u == Append(q.tried, q.p)
  <2>1. u \in Seq(In(u))
    BY <1>2, OneMore
  <2>2. u = <<q.p>>
    BY <1>2
  <2>. QED
    BY <1>5, <2>1, <2>2
<1>11. ConsumerOK(l)
  BY <1>2, <1>7, <1>8 DEF ConsumerOK
<1>12. s.left \in Nat /\ (s.pc = "next" => s.left # 0) /\ (s.pc = "return" => s.got # 0)
  BY <1>2, <1>4, <1>5, <1>7
<1>13. CallOK(l, s)
  BY <1>2, <1>5, <1>7, <1>8, <1>10, <1>12 DEF CallOK, Searching
<1>14. ConsumersOK'
  BY <1>1, <1>2, <1>4, <1>6, <1>9, <1>11, <1>13, OneConsumer
<1>15. PlacesOK'
  BY <1>1, <1>2, <1>5, <1>6, <1>8, <1>9, SamePlace
<1>. QED
  BY <1>14, <1>15

LEMMA ReturnKeeps ==
    ASSUME T!TokensAssumption, ListOK, ConsumersOK, PlacesOK, NEW c \in Consumer, T!Return(c)
    PROVE  ConsumersOK' /\ PlacesOK'
<1>1. call[c].pc = "return" /\ T!Does(c, T!NoCall) /\ UNCHANGED <<listed, counted, globalOffset, nextId, consumer, grown>>
  BY DEF T!Return, T!CallAt, T!list
<1>2. /\ DOMAIN T!NoCall = {"pc", "bulk", "left", "tail", "p", "got", "tried", "before"}
      /\ T!NoCall.pc = "idle" /\ T!NoCall.got = 0 /\ T!NoCall.tried = <<>>
  BY DEF T!NoCall
<1>3. DOMAIN call' = Consumer /\ call'[c] = T!NoCall /\ \A d \in Consumer \ {c} : call'[d] = call[d]
  BY <1>1, DoesTo
<1>4. consumer[c] # None /\ ConsumerOK(consumer[c]) /\ DOMAIN consumer' = Consumer /\ globalOffset' \in Nat /\ nextId' \in Nat
  BY <1>1 DEF ConsumersOK, CallOK
<1>5. T!NoCall.tried \in Seq(In(T!NoCall.tried))
  BY <1>2
<1>6. CallOK(consumer[c], T!NoCall)
  BY <1>2, <1>5 DEF CallOK, Searching
<1>7. ConsumersOK'
  BY <1>1, <1>3, <1>4, <1>6, OneConsumer
<1>8. PlacesOK'
  BY <1>1, <1>2, <1>3, <1>4, SamePlace
<1>. QED
  BY <1>7, <1>8

\* The producer that follows one of the list, by what was read of it.
LEMMA NextIs ==
    ASSUME ListOK, NEW c \in Consumer, NEW tail, Ends(tail), Len(tail) # 0, call[c].p \in Listed
    PROVE  /\ T!NextOf(c, tail) \in Listed
           /\ \A x \in 1..Len(tail) : call[c].p = tail[x] => T!NextOf(c, tail) = tail[Wrapped(Len(tail), x + 1)]
<1>. DEFINE p == call[c].p i == CHOOSE i \in DOMAIN listed : listed[i] = p m == Len(tail) n == Len(listed)
<1>1. m \in Nat \ {0} /\ n \in Nat /\ DOMAIN tail = 1..m /\ DOMAIN listed = 1..n /\ In(tail) \subseteq Listed /\ m <= n
      /\ Distinct(listed) /\ \A x \in 1..m : tail[x] = listed[n - m + x]
  BY EndsIn DEF Ends, ListOK
<1>2. i \in 1..n /\ listed[i] = p
  <2>1. \E j \in DOMAIN listed : listed[j] = p
    BY DEF Listed, In
  <2>2. i \in DOMAIN listed /\ listed[i] = p
    BY <2>1
  <2>. QED
    BY <1>1, <2>2
<1>3. T!NextOf(c, tail) = IF i = n THEN tail[1] ELSE listed[i + 1]
  <2>1. Head(tail) = tail[1]
    BY DEF Ends
  <2>. QED
    BY <2>1 DEF T!NextOf
<1>. HIDE DEF i, m, n
<1>4. T!NextOf(c, tail) \in Listed
  <2>1. i = n => tail[1] \in Listed
    <3>1. 1 \in DOMAIN tail
      BY <1>1
    <3>. QED
      BY <1>1, <3>1 DEF In
  <2>2. i # n => listed[i + 1] \in Listed
    <3>1. i # n => i + 1 \in DOMAIN listed
      BY <1>1, <1>2
    <3>. QED
      BY <3>1 DEF Listed, In
  <2>. QED
    BY <1>3, <2>1, <2>2
<1>5. ASSUME NEW x \in 1..m, p = tail[x] PROVE T!NextOf(c, tail) = tail[Wrapped(m, x + 1)]
  <2>1. n - m + x \in DOMAIN listed /\ listed[n - m + x] = p
    BY <1>1, <1>5
  <2>2. i = n - m + x
    BY <1>1, <1>2, <2>1 DEF Distinct
  <2>3. CASE x = m
    BY <1>1, <1>3, <2>2, <2>3 DEF Wrapped
  <2>4. CASE x # m
    <3>1. x + 1 \in 1..m /\ i + 1 = n - m + (x + 1) /\ i # n
      BY <1>1, <2>2, <2>4
    <3>. QED
      BY <1>1, <1>3, <3>1 DEF Wrapped
  <2>. QED
    BY <2>3, <2>4
<1>. QED
  BY <1>4, <1>5 DEF m, p

\* Producers tried one after another, from the a-th on, are none twice; and once the first is next, they are all.
Walks(tail, m, a, tried, t) == DOMAIN tried = 1..t /\ \A j \in 1..t : tried[j] = tail[Wrapped(m, a + j - 1)]

LEMMA WalkDistinct ==
    ASSUME NEW m \in Nat \ {0}, NEW tail, DOMAIN tail = 1..m, Distinct(tail), NEW a \in 1..m,
           NEW tried, NEW t \in 0..m, Walks(tail, m, a, tried, t)
    PROVE  Distinct(tried) /\ (t = m => In(tail) \subseteq In(tried))
<1>. USE DEF Walks
<1>1. \A j \in 1..t : Wrapped(m, a + j - 1) \in 1..m
  BY DEF Wrapped
<1>2. ASSUME NEW i \in DOMAIN tried, NEW j \in DOMAIN tried, tried[i] = tried[j] PROVE i = j
  <2>1. Wrapped(m, a + i - 1) = Wrapped(m, a + j - 1)
    BY <1>1, <1>2 DEF Distinct
  <2>. QED
    BY <2>1 DEF Wrapped
<1>3. ASSUME t = m, NEW x \in 1..m PROVE tail[x] \in In(tried)
  <2>. DEFINE j == IF x >= a THEN x - a + 1 ELSE x + m - a + 1
  <2>1. j \in 1..t /\ Wrapped(m, a + j - 1) = x
    BY <1>3 DEF Wrapped
  <2>. HIDE DEF j
  <2>2. tried[j] = tail[x]
    BY <2>1
  <2>. QED
    BY <2>1, <2>2 DEF In
<1>. QED
  BY <1>2, <1>3 DEF Distinct, In

LEMMA WrappedNext == ASSUME NEW m \in Nat \ {0}, NEW a \in 1..m, NEW t \in 1..(m - 1) PROVE
    /\ Wrapped(m, a + t) \in 1..m /\ Wrapped(m, Wrapped(m, a + t) + 1) = Wrapped(m, a + (t + 1))
    /\ Wrapped(m, a + (t + 1)) \in 1..m /\ (Wrapped(m, a + (t + 1)) = a <=> t + 1 = m)
BY DEF Wrapped

LEMMA FirstNextKeeps ==
    ASSUME T!TokensAssumption, ListOK, ConsumersOK, PlacesOK, NEW c \in Consumer, T!FirstNext(c)
    PROVE  ConsumersOK' /\ PlacesOK'
<1>. DEFINE k == consumer[c] q == call[c] p == T!NextOf(c, listed)
            back == [q EXCEPT !.pc = "return"] on == [q EXCEPT !.pc = "others", !.p = p, !.tail = listed]
            s == IF p = k.current THEN back ELSE on
<1>1. q.pc = "next" /\ UNCHANGED <<listed, counted, globalOffset, nextId, consumer, grown>> /\ T!Does(c, s)
  BY DEF T!FirstNext, T!CallAt, T!list, T!GoOn
<1>2. /\ k # None /\ ConsumerOK(k) /\ CallOK(k, q) /\ (q.got = 0 => q.tried = <<q.p>>) /\ q.left \in Nat \ {0} /\ q.got \in Nat
      /\ k.desired # None /\ q.p \in Listed /\ q.p = k.current /\ q.before \subseteq Listed
      /\ globalOffset \in Nat /\ nextId \in Nat /\ DOMAIN consumer = Consumer
      /\ DOMAIN q = {"pc", "bulk", "left", "tail", "p", "got", "tried", "before"} /\ q.tried \in Seq(In(q.tried))
  BY <1>1 DEF ConsumersOK, CallOK, Searching
<1>3. DOMAIN call' = Consumer /\ call'[c] = s /\ \A d \in Consumer \ {c} : call'[d] = call[d]
  BY <1>1, DoesTo
<1>. DEFINE n == Len(listed)
<1>4. Ends(listed) /\ In(listed) = Listed /\ n \in Nat \ {0} /\ DOMAIN listed = 1..n /\ Distinct(listed)
  <2>1. Ends(listed) /\ In(listed) = Listed /\ n \in Nat /\ DOMAIN listed = 1..n /\ Distinct(listed)
    BY WholeList, EndsIn
  <2>2. DOMAIN listed # {}
    BY <1>2 DEF Listed, In
  <2>. QED
    BY <2>1, <2>2
<1>5. PICK a \in 1..n : q.p = listed[a]
  BY <1>2, <1>4 DEF Listed, In
<1>6. p \in Listed /\ p = listed[Wrapped(n, a + 1)] /\ Wrapped(n, a + 1) \in 1..n
  <2>1. p \in Listed /\ p = listed[Wrapped(n, a + 1)]
    BY <1>2, <1>4, <1>5, NextIs
  <2>2. Wrapped(n, a + 1) \in 1..n
    BY <1>4 DEF Wrapped
  <2>. QED
    BY <2>1, <2>2
<1>. HIDE DEF p
<1>7. ASSUME p = k.current PROVE CallOK(k, s)
  <2>1. s = back /\ DOMAIN back = DOMAIN q /\ back.pc = "return" /\ back.got = q.got /\ back.tried = q.tried /\ back.before = q.before
    BY <1>2, <1>7
  <2>2. Wrapped(n, a + 1) = a
    BY <1>2, <1>4, <1>5, <1>6, <1>7 DEF Distinct
  <2>3. n = 1
    BY <1>4, <2>2 DEF Wrapped
  <2>4. Listed = {q.p}
    BY <1>4, <1>5, <2>3 DEF Listed, In
  <2>5. \A x : Distinct(<<x>>) /\ x \in In(<<x>>)
    <3>. SUFFICES ASSUME NEW x PROVE Distinct(<<x>>) /\ x \in In(<<x>>)
      OBVIOUS
    <3>1. DOMAIN <<x>> = {1} /\ <<x>>[1] = x
      OBVIOUS
    <3>. QED
      BY <3>1 DEF Distinct, In
  <2>6. q.got = 0 => Distinct(q.tried) /\ q.before \subseteq In(q.tried)
    BY <1>2, <2>4, <2>5
  <2>. HIDE DEF back
  <2>7. CallOK(k, s)
    BY <1>2, <2>1, <2>6 DEF CallOK, Searching
  <2>. QED
    BY <2>1, <2>7
<1>8. ASSUME p # k.current PROVE CallOK(k, s)
  <2>1. /\ s = on /\ DOMAIN on = DOMAIN q /\ on.pc = "others" /\ on.got = q.got /\ on.tried = q.tried /\ on.before = q.before
        /\ on.tail = listed /\ on.p = p /\ on.left = q.left
    BY <1>2, <1>8
  <2>2. q.got = 0 => Round(listed, k.current, q.tried, p)
    <3>1. Wrapped(n, a) = a /\ Wrapped(n, a + 1 - 1) = a
      BY <1>4 DEF Wrapped
    <3>2. n # 1
      BY <1>2, <1>5, <1>6, <1>8
    <3>. SUFFICES ASSUME q.got = 0 PROVE Round(listed, k.current, q.tried, p)
      OBVIOUS
    <3>3. Len(q.tried) = 1 /\ q.tried[1] = q.p
      <4>1. q.tried = <<q.p>>
        BY <1>2
      <4>. QED
        BY <4>1
    <3>4. listed[a] = k.current /\ Len(q.tried) \in 1..(n - 1) /\ p = listed[Wrapped(n, a + Len(q.tried))]
      BY <1>2, <1>4, <1>5, <1>6, <3>2, <3>3
    <3>5. \A j \in 1..Len(q.tried) : q.tried[j] = listed[Wrapped(n, a + j - 1)]
      <4>. SUFFICES ASSUME NEW j \in 1..1 PROVE q.tried[j] = listed[Wrapped(n, a + j - 1)]
        BY <3>3
      <4>1. j = 1
        OBVIOUS
      <4>. QED
        BY <1>5, <3>1, <3>3, <4>1
    <3>. QED
      BY <3>4, <3>5 DEF Round
  <2>3. listed # <<>>
    BY <1>4
  <2>. HIDE DEF on
  <2>4. CallOK(k, s)
    BY <1>2, <1>4, <1>6, <2>1, <2>2, <2>3 DEF CallOK, Searching
  <2>. QED
    BY <2>1, <2>4
<1>9. CallOK(k, s) /\ s.pc \in {"return", "others"}
  <2>1. s.pc \in {"return", "others"}
    BY <1>2
  <2>. QED
    BY <1>7, <1>8, <2>1
<1>. HIDE DEF s
<1>10. ConsumersOK'
  BY <1>1, <1>2, <1>3, <1>9, OneConsumer
<1>11. PlacesOK'
  BY <1>1, <1>2, <1>3, <1>9, SamePlace
<1>. QED
  BY <1>10, <1>11

\* A search goes on to the next producer, or has come round.
LEMMA RoundGoesOn ==
    ASSUME ListOK, NEW c \in Consumer, NEW tail, Ends(tail), tail # <<>>, NEW from, NEW tried, tried \in Seq(In(tried)),
           Round(tail, from, tried, call[c].p)
    PROVE  LET p == T!NextOf(c, tail) u == Append(tried, call[c].p) IN
           /\ p # from => Round(tail, from, u, p)
           /\ p = from => Distinct(u) /\ In(tail) \subseteq In(u)
<1>. DEFINE m == Len(tail) t == Len(tried) q == call[c].p p == T!NextOf(c, tail) u == Append(tried, q)
<1>1. m \in Nat \ {0} /\ DOMAIN tail = 1..m /\ Distinct(tail) /\ In(tail) \subseteq Listed
  <2>1. m # 0
    BY DEF Ends
  <2>. QED
    BY <2>1, EndsIn
<1>2. PICK a \in 1..m : tail[a] = from /\ t \in 1..(m - 1) /\ (\A j \in 1..t : tried[j] = tail[Wrapped(m, a + j - 1)])
                        /\ q = tail[Wrapped(m, a + t)]
  BY DEF Round
<1>3. /\ Wrapped(m, a + t) \in 1..m /\ Wrapped(m, Wrapped(m, a + t) + 1) = Wrapped(m, a + (t + 1))
      /\ Wrapped(m, a + (t + 1)) \in 1..m /\ (Wrapped(m, a + (t + 1)) = a <=> t + 1 = m)
  <2>. HIDE DEF m, t
  <2>. QED
    BY <1>1, <1>2, WrappedNext
<1>4. q \in Listed
  BY <1>1, <1>2, <1>3 DEF In
<1>5. p = tail[Wrapped(m, a + (t + 1))]
  <2>1. \A x \in 1..m : q = tail[x] => p = tail[Wrapped(m, x + 1)]
    BY <1>1, <1>4, NextIs
  <2>. HIDE DEF p, q, m, t
  <2>. QED
    BY <1>2, <1>3, <2>1
<1>6. u \in Seq(In(u)) /\ Len(u) = t + 1 /\ DOMAIN u = 1..(t + 1) /\ u[t + 1] = q /\ \A i \in 1..t : u[i] = tried[i]
  BY OneMore
<1>. HIDE DEF p, q, u, m, t
<1>7. t \in Nat /\ t + 1 \in 1..m
  BY <1>1, <1>2
<1>8. \A j \in 1..(t + 1) : u[j] = tail[Wrapped(m, a + j - 1)]
  <2>. SUFFICES ASSUME NEW j \in 1..(t + 1) PROVE u[j] = tail[Wrapped(m, a + j - 1)]
    OBVIOUS
  <2>1. CASE j = t + 1
    <3>1. a + j - 1 = a + t
      BY <1>7, <2>1
    <3>. QED
      BY <1>2, <1>6, <2>1, <3>1
  <2>2. CASE j # t + 1
    <3>1. j \in 1..t
      BY <1>7, <2>2
    <3>. QED
      BY <1>2, <1>6, <3>1
  <2>. QED
    BY <2>1, <2>2
<1>9. ASSUME p # from PROVE Round(tail, from, u, p)
  <2>1. t + 1 # m
    BY <1>2, <1>3, <1>5, <1>9
  <2>2. t + 1 \in 1..(m - 1)
    BY <1>1, <1>7, <2>1
  <2>. QED
    BY <1>2, <1>5, <1>6, <1>8, <2>2 DEF Round, m
<1>10. ASSUME p = from PROVE Distinct(u) /\ In(tail) \subseteq In(u)
  <2>1. t + 1 = m
    BY <1>1, <1>2, <1>3, <1>5, <1>10 DEF Distinct
  <2>. DEFINE v == t + 1
  <2>2. v \in 0..m /\ v = m /\ Walks(tail, m, a, u, v)
    BY <1>6, <1>7, <1>8, <2>1 DEF Walks
  <2>. HIDE DEF v
  <2>. QED
    BY <1>1, <2>2, WalkDistinct
<1>. QED
  BY <1>9, <1>10 DEF p, q, u

LEMMA TryOtherKeeps ==
    ASSUME T!TokensAssumption, ListOK, ConsumersOK, PlacesOK, NEW c \in Consumer, NEW n \in 0..Most, T!TryOther(c, n)
    PROVE  ConsumersOK' /\ PlacesOK'
<1>. DEFINE k == consumer[c] q == call[c] r == T!Tried(q) then == [r EXCEPT !.got = @ + n, !.left = @ - n]
            l == IF n = 0 THEN k ELSE [k EXCEPT !.current = q.p, !.itemsConsumed = n]
            p == T!NextOf(c, q.tail)
            back == [then EXCEPT !.pc = "return"] on == [then EXCEPT !.pc = "others", !.p = p, !.tail = q.tail]
            s == IF n = q.left \/ p = l.current THEN back ELSE on
<1>1. q.pc = "others" /\ UNCHANGED <<listed, counted, globalOffset, nextId, grown>>
  BY DEF T!TryOther, T!CallAt, T!list
<1>2. /\ k # None /\ ConsumerOK(k) /\ CallOK(k, q) /\ q.left \in Nat \ {0} /\ q.got \in Nat
      /\ k.desired # None /\ q.p \in Listed /\ Ends(q.tail) /\ q.tail # <<>>
      /\ (q.got = 0 => q.before \subseteq In(q.tail) /\ Round(q.tail, k.current, q.tried, q.p))
      /\ globalOffset \in Nat /\ nextId \in Nat /\ DOMAIN consumer = Consumer /\ DOMAIN call = Consumer
      /\ DOMAIN q = {"pc", "bulk", "left", "tail", "p", "got", "tried", "before"} /\ q.tried \in Seq(In(q.tried))
  BY <1>1 DEF ConsumersOK, CallOK, Searching
<1>3. /\ DOMAIN then = DOMAIN q /\ then.left = q.left - n /\ then.pc = q.pc /\ then.p = q.p /\ then.before = q.before
      /\ then.tail = q.tail /\ then.got = q.got + n /\ then.tried = Append(q.tried, q.p)
      /\ r.left = q.left /\ r.p = q.p /\ r.tail = q.tail
  BY <1>2 DEF T!Tried
<1>4. n <= q.left /\ consumer' = IF n = 0 THEN consumer ELSE [consumer EXCEPT ![c].current = q.p, ![c].itemsConsumed = n]
  <2>1. n <= r.left /\ consumer' = IF n = 0 THEN consumer ELSE [consumer EXCEPT ![c].current = r.p, ![c].itemsConsumed = n]
    BY DEF T!TryOther
  <2>. HIDE DEF r
  <2>. QED
    BY <1>3, <2>1
<1>5. DOMAIN consumer' = Consumer /\ consumer'[c] = l /\ \A d \in Consumer \ {c} : consumer'[d] = consumer[d]
  BY <1>2, <1>4
<1>6. T!Does(c, s)
  <2>1. IF n = r.left THEN T!Does(c, back) ELSE T!GoOn(c, then, r.tail)
    BY DEF T!TryOther
  <2>2. T!GoOn(c, then, q.tail) => T!Does(c, IF p = consumer'[c].current THEN back ELSE on)
    BY DEF T!GoOn
  <2>. HIDE DEF r, then, back, on, p, l
  <2>. QED
    BY <1>3, <1>5, <2>1, <2>2
<1>. HIDE DEF then
<1>7. /\ DOMAIN back = DOMAIN q /\ back.pc = "return" /\ back.got = q.got + n /\ back.before = q.before
      /\ back.tried = Append(q.tried, q.p)
      /\ DOMAIN on = DOMAIN q /\ on.pc = "others" /\ on.got = q.got + n /\ on.before = q.before
      /\ on.tried = Append(q.tried, q.p) /\ on.p = p /\ on.tail = q.tail /\ on.left = q.left - n
  BY <1>2, <1>3
<1>. HIDE DEF back, on, p
<1>8. p \in Listed
  <2>1. Len(q.tail) # 0
    BY <1>2 DEF Ends
  <2>. QED
    BY <1>2, <2>1, NextIs DEF p
<1>9. l \in T!ConsumerTokens /\ n \in Nat
  <2>1. k \in T!ConsumerTokens /\ n \in Nat /\ 0 \in Int /\ q.p \in T!Places \cup {None}
    BY <1>2, TokenConstants DEF ConsumerOK, ListOK
  <2>. QED
    BY <2>1, TokenMoves
<1>10. /\ DOMAIN l = {"initialOffset", "lastKnownGlobalOffset", "itemsConsumed", "current", "desired"} /\ l # None
       /\ l.initialOffset = k.initialOffset /\ l.lastKnownGlobalOffset = k.lastKnownGlobalOffset
       /\ l.desired = k.desired /\ l.current \in Listed /\ (n = 0 => l = k)
  <2>1. l # None
    BY <1>9, TokenConstants
  <2>. QED
    BY <1>2, <2>1 DEF ConsumerOK
<1>. HIDE DEF l
<1>11. ConsumerOK(l)
  BY <1>2, <1>9, <1>10 DEF ConsumerOK
<1>12. /\ Append(q.tried, q.p) \in Seq(In(Append(q.tried, q.p)))
       /\ q.got = 0 => /\ p # k.current => Round(q.tail, k.current, Append(q.tried, q.p), p)
                       /\ p = k.current => Distinct(Append(q.tried, q.p)) /\ In(q.tail) \subseteq In(Append(q.tried, q.p))
  <2>1. Append(q.tried, q.p) \in Seq(In(Append(q.tried, q.p)))
    BY <1>2, OneMore
  <2>2. ASSUME q.got = 0
        PROVE  /\ p # k.current => Round(q.tail, k.current, Append(q.tried, q.p), p)
               /\ p = k.current => Distinct(Append(q.tried, q.p)) /\ In(q.tail) \subseteq In(Append(q.tried, q.p))
    <3>. DEFINE tail == q.tail tried == q.tried from == k.current
    <3>1. Ends(tail) /\ tail # <<>> /\ tried \in Seq(In(tried)) /\ Round(tail, from, tried, call[c].p)
      BY <1>2, <2>2
    <3>. HIDE DEF tail, tried, from
    <3>2. LET p1 == T!NextOf(c, tail) u == Append(tried, call[c].p) IN
          /\ p1 # from => Round(tail, from, u, p1)
          /\ p1 = from => Distinct(u) /\ In(tail) \subseteq In(u)
      BY <3>1, RoundGoesOn
    <3>. QED
      BY <3>2 DEF p, tail, tried, from
  <2>. QED
    BY <2>1, <2>2
<1>13. ASSUME n = q.left PROVE CallOK(l, back)
  <2>1. back.got # 0 /\ back.got \in Nat
    BY <1>2, <1>7, <1>9, <1>13
  <2>. QED
    BY <1>2, <1>7, <1>10, <1>12, <2>1 DEF CallOK, Searching
<1>14. ASSUME n # q.left, p = l.current PROVE CallOK(l, back)
  <2>1. back.got \in Nat /\ (back.got = 0 => n = 0 /\ q.got = 0)
    BY <1>2, <1>7, <1>9
  <2>2. back.got = 0 => Distinct(back.tried) /\ back.before \subseteq In(back.tried)
    BY <1>2, <1>7, <1>10, <1>12, <1>14, <2>1
  <2>. QED
    BY <1>2, <1>7, <1>10, <1>12, <2>1, <2>2 DEF CallOK, Searching
<1>15. ASSUME n # q.left, p # l.current PROVE CallOK(l, on)
  <2>1. on.got \in Nat /\ (on.got = 0 => n = 0 /\ q.got = 0) /\ on.left \in Nat \ {0}
    BY <1>2, <1>4, <1>7, <1>9, <1>15
  <2>2. on.got = 0 => on.before \subseteq In(on.tail) /\ Round(on.tail, l.current, on.tried, on.p)
    BY <1>2, <1>7, <1>10, <1>12, <1>15, <2>1
  <2>. QED
    BY <1>2, <1>7, <1>8, <1>10, <1>12, <2>1, <2>2 DEF CallOK, Searching
<1>16. CallOK(l, s) /\ s.pc \in {"return", "others"}
  BY <1>7, <1>13, <1>14, <1>15
<1>. HIDE DEF s
<1>17. DOMAIN call' = Consumer /\ call'[c] = s /\ \A d \in Consumer \ {c} : call'[d] = call[d]
  BY <1>6, DoesTo
<1>18. ConsumersOK'
  BY <1>1, <1>2, <1>5, <1>11, <1>16, <1>17, OneConsumer
<1>19. PlacesOK'
  BY <1>1, <1>2, <1>5, <1>10, <1>16, <1>17, SamePlace
<1>. QED
  BY <1>18, <1>19

\* A step that no consumer is waiting out leaves no place to be wrong.
LEMMA GrowsPlace == ASSUME T!Grows, UNCHANGED <<consumer, call>> PROVE PlacesOK'
<1>. SUFFICES ASSUME ~grown', NEW c \in Consumer PROVE call[c].pc = "idle" /\ ~HasPlace(consumer[c])
  BY DEF PlacesOK, HasPlace
<1>. QED
  BY DEF T!Grows, T!CallAt, HasPlace

LEMMA TokenStep ==
    ASSUME T!TokensAssumption, TokensInv, NEW t \in Token,
           T!Construct(t) \/ T!Look(t) \/ T!Create(t) \/ T!Add(t) \/ T!Own(t) \/ T!Destroy(t) \/ T!Mark(t)
             \/ \E u \in Token : T!Swap(t, u)
    PROVE  TokensInv'
<1>1. ListOK' /\ TokensOK' /\ (listed' = listed \/ \E p : Grown(p))
  <2>1. T!Add(t) => ListOK' /\ TokensOK' /\ \E p : Grown(p)
    BY AddKeeps DEF TokensInv
  <2>2. ASSUME ~T!Add(t) PROVE ListOK' /\ TokensOK'
    BY <2>2, ConstructKeeps, LookKeeps, CreatingKeeps, OwnKeeps, DestroyKeeps, MarkKeeps, SwapKeeps DEF TokensInv
  <2>3. ASSUME ~T!Add(t) PROVE listed' = listed
    BY <2>3 DEF T!Construct, T!Look, T!Create, T!Own, T!Destroy, T!Mark, T!Swap
  <2>. QED
    BY <2>1, <2>2, <2>3
<1>2. UNCHANGED <<globalOffset, nextId, consumer, call>>
  BY DEF T!rotation, T!Construct, T!Look, T!Create, T!Add, T!Own, T!Destroy, T!Mark, T!Swap
<1>3. ConsumersOK'
  BY <1>1, <1>2, ConsumersStay DEF TokensInv
<1>4. (listed' = listed /\ counted' = counted /\ grown' = grown) \/ T!Grows
  BY DEF T!Construct, T!Look, T!Create, T!Add, T!Own, T!Destroy, T!Mark, T!Swap
<1>5. PlacesOK'
  <2>1. CASE T!Grows
    BY <1>2, <2>1, GrowsPlace
  <2>2. CASE listed' = listed /\ counted' = counted /\ grown' = grown
    BY <1>2, <2>2 DEF TokensInv, PlacesOK, PlaceOf, HasPlace
  <2>. QED
    BY <1>4, <2>1, <2>2
<1>. QED
  BY <1>1, <1>3, <1>5 DEF TokensInv

\* What a consumer does leaves the list and the tokens alone.
LEMMA ConsumerStep ==
    ASSUME T!TokensAssumption, TokensInv, NEW c \in Consumer,
           \/ T!ConstructConsumer(c) \/ T!Dequeue(c, TRUE) \/ T!Dequeue(c, FALSE)
           \/ T!Rotate(c) \/ T!FirstNext(c) \/ T!Return(c)
           \/ \E n \in 0..Most : T!TryCurrent(c, n) \/ T!TryOther(c, n)
    PROVE  TokensInv'
<1>1. ConsumersOK' /\ PlacesOK'
  <2>1. T!Dequeue(c, TRUE) \/ T!Dequeue(c, FALSE) => ConsumersOK' /\ PlacesOK'
    BY DequeueKeeps DEF TokensInv
  <2>2. \A n \in 0..Most : T!TryCurrent(c, n) \/ T!TryOther(c, n) => ConsumersOK' /\ PlacesOK'
    BY TryCurrentKeeps, TryOtherKeeps DEF TokensInv
  <2>3. T!ConstructConsumer(c) \/ T!Rotate(c) \/ T!FirstNext(c) \/ T!Return(c) => ConsumersOK' /\ PlacesOK'
    BY ConstructConsumerKeeps, RotateKeeps, FirstNextKeeps, ReturnKeeps DEF TokensInv
  <2>. QED
    BY <2>1, <2>2, <2>3
<1>2. UNCHANGED <<listed, counted, inactive, owner, held, does>>
  BY DEF T!list, T!ConstructConsumer, T!Dequeue, T!Rotate, T!FirstNext, T!Return, T!TryCurrent, T!TryOther
<1>3. ListOK'
  BY <1>2 DEF TokensInv, ListOK, Listed, In, Distinct, Created, Adding
<1>4. TokensOK'
  <2>1. OwnersRight
    BY OwnersAre DEF TokensInv, TokensOK
  <2>2. OwnersRight'
    BY <1>2, <2>1 DEF OwnersRight, Hands
  <2>3. Created' = Created
    BY <1>2 DEF Created, Listed, In
  <2>. QED
    BY <1>2, <2>2, <2>3, OwnersAre DEF TokensInv, TokensOK
<1>. QED
  BY <1>1, <1>3, <1>4 DEF TokensInv

LEMMA TokensStutter == ASSUME T!TokensAssumption, TokensInv, UNCHANGED T!vars PROVE TokensInv'
<1>1. UNCHANGED <<listed, counted, inactive, owner, held, does, globalOffset, nextId, consumer, call, grown>>
  BY DEF T!vars, T!list, T!rotation
<1>2. ConsumersOK'
  BY <1>1, ConsumersStay DEF TokensInv
<1>3. PlacesOK'
  BY <1>1 DEF TokensInv, PlacesOK, PlaceOf, HasPlace
<1>4. ListOK'
  BY <1>1 DEF TokensInv, ListOK, Listed, In, Distinct, Created, Adding
<1>5. TokensOK'
  <2>1. OwnersRight
    BY OwnersAre DEF TokensInv, TokensOK
  <2>2. OwnersRight'
    BY <1>1, <2>1 DEF OwnersRight, Hands
  <2>3. Created' = Created
    BY <1>1 DEF Created, Listed, In
  <2>. QED
    BY <1>1, <2>2, <2>3, OwnersAre DEF TokensInv, TokensOK
<1>. QED
  BY <1>2, <1>3, <1>4, <1>5 DEF TokensInv

LEMMA TokensStep == ASSUME T!TokensAssumption PROVE TokensInv /\ [T!Next]_(T!vars) => TokensInv'
<1>. SUFFICES ASSUME TokensInv, [T!Next]_(T!vars) PROVE TokensInv'
  OBVIOUS
<1>1. ASSUME NEW t \in Token,
             T!Construct(t) \/ T!Look(t) \/ T!Create(t) \/ T!Add(t) \/ T!Own(t) \/ T!Destroy(t) \/ T!Mark(t)
      PROVE  TokensInv'
  BY <1>1, TokenStep
<1>2. ASSUME NEW t \in Token, NEW u \in Token, T!Swap(t, u) PROVE TokensInv'
  BY <1>2, TokenStep
<1>3. ASSUME NEW c \in Consumer,
             \/ T!ConstructConsumer(c) \/ T!Dequeue(c, TRUE) \/ T!Dequeue(c, FALSE)
             \/ T!Rotate(c) \/ T!FirstNext(c) \/ T!Return(c)
             \/ \E n \in 0..Most : T!TryCurrent(c, n) \/ T!TryOther(c, n)
      PROVE  TokensInv'
  BY <1>3, ConsumerStep
<1>4. CASE T!Rest \/ UNCHANGED T!vars
  BY <1>4, TokensStutter DEF T!Rest
<1>. QED
  BY <1>1, <1>2, <1>3, <1>4 DEF T!Next

\* A sequence with no two alike has as many elements as places.
LEMMA CountDistinct == ASSUME NEW s, s \in Seq(In(s)), Distinct(s) PROVE Cardinality(In(s)) = Len(s)
<1>. DEFINE n == Len(s) f == [i \in 1..n |-> s[i]]
<1>1. n \in Nat /\ DOMAIN s = 1..n
  OBVIOUS
<1>2. f \in Bijection(1..n, In(s))
  <2>1. f \in [1..n -> In(s)]
    BY <1>1 DEF In
  <2>2. \A i, j \in 1..n : f[i] = f[j] => i = j
    BY <1>1 DEF Distinct
  <2>3. \A x \in In(s) : \E i \in 1..n : f[i] = x
    BY <1>1 DEF In
  <2>. HIDE DEF f, n
  <2>. QED
    BY <2>1, <2>2, <2>3, Fun_IsBij
<1>. HIDE DEF n
<1>3. ExistsBijection(1..n, In(s))
  BY <1>2 DEF ExistsBijection
<1>4. Cardinality(In(s)) = n
  BY <1>1, <1>3, FS_CountingElements
<1>. QED
  BY <1>4 DEF n

\* What a search has tried so far is none twice.
LEMMA RoundDistinct ==
    ASSUME ListOK, NEW tail, Ends(tail), tail # <<>>, NEW from, NEW tried, tried \in Seq(In(tried)),
           NEW p, Round(tail, from, tried, p)
    PROVE  Distinct(tried)
<1>. DEFINE m == Len(tail) t == Len(tried)
<1>1. m \in Nat \ {0} /\ DOMAIN tail = 1..m /\ Distinct(tail) /\ t \in Nat /\ DOMAIN tried = 1..t
  <2>1. m # 0
    BY DEF Ends
  <2>. QED
    BY <2>1, EndsIn
<1>2. PICK a \in 1..m : t \in 1..(m - 1) /\ \A j \in 1..t : tried[j] = tail[Wrapped(m, a + j - 1)]
  BY DEF Round
<1>. HIDE DEF m, t
<1>3. t \in 0..m
  BY <1>1, <1>2
<1>4. Walks(tail, m, a, tried, t)
  BY <1>1, <1>2 DEF Walks
<1>. QED
  BY <1>1, <1>3, <1>4, WalkDistinct

\* The tokens' invariant says what is right of them.
LEMMA TokensInvRight == ASSUME T!TokensAssumption, TokensInv PROVE T!TokensRight
<1>1. T!OneOwner
  BY DEF TokensInv, TokensOK
<1>2. T!LengthFirst
  BY Lengths DEF TokensInv, T!LengthFirst
<1>3. T!EveryoneTried
  <2>. SUFFICES ASSUME NEW c \in Consumer, call[c].got = 0
                PROVE  /\ Cardinality(In(call[c].tried)) = Len(call[c].tried)
                       /\ call[c].pc = "return" => call[c].before \subseteq In(call[c].tried)
    BY SameFinite DEF T!EveryoneTried, T!CallAt
  <2>. DEFINE q == call[c] k == consumer[c]
  <2>1. CallOK(k, q) /\ q.tried \in Seq(In(q.tried))
    BY DEF TokensInv, ConsumersOK, CallOK
  <2>2. Distinct(q.tried)
    <3>1. CASE q.pc \in {"idle", "rotate", "first", "next"}
      <4>1. q.tried = <<>> \/ q.tried = <<q.p>>
        BY <2>1, <3>1 DEF CallOK
      <4>2. \A x : Distinct(<<x>>) /\ Distinct(<<>>)
        BY DEF Distinct
      <4>. QED
        BY <4>1, <4>2
    <3>2. CASE q.pc = "return"
      BY <2>1, <3>2 DEF CallOK
    <3>3. CASE q.pc = "others"
      <4>1. Ends(q.tail) /\ q.tail # <<>> /\ Round(q.tail, k.current, q.tried, q.p)
        BY <2>1, <3>3 DEF CallOK
      <4>. QED
        BY <2>1, <4>1, RoundDistinct DEF TokensInv
    <3>. QED
      BY <2>1, <3>1, <3>2, <3>3 DEF CallOK, Searching
  <2>3. q.pc = "return" => q.before \subseteq In(q.tried)
    BY <2>1 DEF CallOK
  <2>. QED
    BY <2>1, <2>2, <2>3, CountDistinct
<1>4. T!PlacesApart
  <2>. DEFINE n == Len(listed)
  <2>. SUFFICES ASSUME ~grown, NEW c \in Consumer, NEW d \in Consumer, HasPlace(consumer[c]), HasPlace(consumer[d]),
                       consumer[c].lastKnownGlobalOffset = consumer[d].lastKnownGlobalOffset,
                       (consumer[c].initialOffset - consumer[d].initialOffset) % n # 0
                PROVE  consumer[c].desired # consumer[d].desired
    BY DEF T!PlacesApart, HasPlace
  <2>. DEFINE k == consumer[c] l == consumer[d] last == k.lastKnownGlobalOffset
              x == (last - k.initialOffset) % n y == (last - l.initialOffset) % n
  <2>1. /\ k.initialOffset \in Nat /\ l.initialOffset \in Nat /\ last \in Int /\ k.desired \in Listed
    BY DEF TokensInv, ConsumersOK, ConsumerOK, HasPlace
  <2>2. k.desired = listed[x + 1] /\ l.desired = listed[y + 1]
    BY DEF TokensInv, PlacesOK, PlaceOf
  <2>3. n \in Nat \ {0} /\ DOMAIN listed = 1..n /\ Distinct(listed)
    <3>1. n \in Nat /\ DOMAIN listed = 1..n /\ Distinct(listed)
      BY DEF TokensInv, ListOK
    <3>2. DOMAIN listed # {}
      BY <2>1 DEF Listed, In
    <3>. QED
      BY <3>1, <3>2
  <2>. DEFINE a == k.initialOffset b == l.initialOffset
  <2>4. x \in 0..(n - 1) /\ y \in 0..(n - 1) /\ (x = y => (a - b) % n = 0)
    <3>. HIDE DEF n, last, a, b
    <3>1. n \in Nat \ {0} /\ last \in Int /\ a \in Nat /\ b \in Nat
      BY <2>1, <2>3 DEF a, b
    <3>2. x = (last - a) % n /\ y = (last - b) % n
      BY DEF a, b
    <3>. HIDE DEF x, y
    <3>. QED
      BY <3>1, <3>2, SameLeft
  <2>5. x # y
    BY <2>4
  <2>6. x + 1 \in DOMAIN listed /\ y + 1 \in DOMAIN listed /\ x + 1 # y + 1
    <3>. HIDE DEF x, y, n
    <3>. QED
      BY <2>3, <2>4, <2>5
  <2>. QED
    BY <2>2, <2>3, <2>6 DEF Distinct
<1>. QED
  BY <1>1, <1>2, <1>3, <1>4 DEF T!TokensRight

\* However many tokens are made, moved, given up and made again, and whatever consumers find meanwhile: no two tokens
\* have one producer, the list is not longer than its length, a consumer that finds nothing has tried every producer
\* there was when it began, once, and consumers that had their places with no producer being added are as far apart
\* as they can be.
THEOREM TokensAreRight == T!TokensAssumption => (T!Init /\ [][T!Next]_(T!vars) => []T!TokensRight)
<1>. SUFFICES ASSUME T!TokensAssumption PROVE T!Init /\ [][T!Next]_(T!vars) => []T!TokensRight
  OBVIOUS
<1>1. T!Init => TokensInv
  BY TokensStart
<1>2. TokensInv /\ [T!Next]_(T!vars) => TokensInv'
  BY TokensStep
<1>3. TokensInv => T!TokensRight
  BY TokensInvRight
<1>. QED
  BY <1>1, <1>2, <1>3, PTL

=============================================================================

------------------------ MODULE ImplicitQueue_proofs ------------------------
(***************************************************************************)
(* Proofs about ImplicitQueue, for any consumers, producers and calls.     *)
(*                                                                         *)
(* The counters wrap, but as they were equal at first and the calls are    *)
(* not too many, each is a number of steps ahead of where they began, s,   *)
(* that has not come around (Since); of these numbers the invariants are.  *)
(* At the bottom is that what consumers are counted in for lies in the     *)
(* order in which they counted themselves in, one after the other, whether *)
(* or not it is there: whoever has looked has its items even if all those  *)
(* before it find theirs (SeenInv).                                        *)
(***************************************************************************)
EXTENDS ImplicitQueue, FiniteSetTheorems, FunctionTheorems, SequenceTheorems, TLAPS

Half == Wrap \div 2
Counter == 0..(Wrap - 1)

\* The most that a call may take.
Most == Half \div MaxTakes

\* How far a counter is from where it began.
Since(s, x) == (x - s) % Wrap

-----------------------------------------------------------------------------
(* The invariants *)

Fields == {"pc", "alone", "rest", "best", "size", "found", "bulk", "max", "got", "p", "tail", "over", "want",
           "mine", "n", "index", "header", "slot", "block", "moved"}
Asking == {"verify", "excess", "claim"}
Counting == {"check", "commit"} \cup Asking
Finding == {"index", "tail", "base", "move"}
Emptying == {"empty", "unlink", "free"}
Trial == {"load"} \cup Counting \cup Finding \cup Emptying

\* What a consumer is about: each producer is tried once, for no more than there is room for.
TakeOK(t) ==
    /\ DOMAIN t = Fields
    /\ t.pc \in {"idle", "size", "return"} \cup Trial
    /\ t.rest \in Seq(Producer) /\ \A i, j \in DOMAIN t.rest : t.rest[i] = t.rest[j] => i = j
    /\ t.got \in Seq(Range(t.got))
    /\ t.max \in 0..Most
    /\ t.alone \in BOOLEAN
    /\ t.pc = "idle" => ~t.alone
    /\ t.pc \in {"idle", "return"} => t.rest = <<>>
    /\ t.pc = "size" =>
        /\ t.got = <<>> /\ t.max > 0 /\ t.rest # <<>>
        /\ t.size \in Nat /\ t.found \in 0..2
        /\ IF t.found = 0 THEN t.size = 0 ELSE t.best \in Producer
    /\ t.pc \in Trial => t.p \in Producer /\ \A i \in DOMAIN t.rest : t.rest[i] # t.p
    /\ t.pc \in {"load", "check"} => Len(t.got) < t.max
    /\ t.pc = "check" => t.tail \in Counter
    /\ t.pc \in {"check", "commit", "verify"} => t.over \in Counter
    /\ t.pc = "verify" => t.mine \in Counter
    /\ t.pc \in {"commit"} \cup Asking => t.want \in 1..(t.max - Len(t.got))
    /\ t.pc = "excess" => t.n \in 0..(t.want - 1)
    /\ t.pc = "claim" => t.n = t.want
    /\ t.pc \in Finding => t.n \in 1..(t.max - Len(t.got)) /\ t.index \in Counter
    /\ t.pc \in Emptying =>
        /\ t.n \in Nat /\ t.moved \in 1..t.n /\ t.n - t.moved <= t.max - Len(t.got)
        /\ t.index \in Counter /\ Len(t.got) > 0

AddFields == {"pc", "n", "alloc", "start", "at", "fresh", "undone"}

TypeInv ==
    /\ tailIndex \in [Producer -> Counter] /\ headIndex \in [Producer -> Counter]
    /\ optimistic \in [Producer -> Counter] /\ overcommit \in [Producer -> Counter]
    /\ made \in [Producer -> Nat]
    /\ DOMAIN take = Consumer /\ \A c \in Consumer : TakeOK(take[c])
    /\ takes \in 0..MaxTakes
    /\ DOMAIN add = Producer
    /\ \A p \in Producer :
        /\ DOMAIN add[p] = AddFields /\ made[p] <= MaxItems
        /\ add[p].pc # "idle" => add[p].n \in Nat \ {0} /\ made[p] + add[p].n <= MaxItems

\* As many as the consumers' numbers f add up to.
Pairs(f) == UNION {{c} \X (1..f[c]) : c \in Consumer}
Total(f) == Cardinality(Pairs(f))

\* What each consumer has counted itself in for at producer p, what it knows it will have, and what those
\* asked for who counted themselves in before d, who has yet to look.
Want(tk, p) == [c \in Consumer |-> IF tk[c].p = p /\ tk[c].pc \in Asking THEN tk[c].want ELSE 0]
Grant(tk, p) == [c \in Consumer |-> IF tk[c].p = p /\ tk[c].pc \in {"excess", "claim"} THEN tk[c].n ELSE 0]
Verifies(t, p) == t.pc = "verify" /\ t.p = p
Ahead(tk, s, d) == [c \in Consumer |->
    IF Verifies(tk[c], tk[d].p) /\ Since(s, tk[c].mine) < Since(s, tk[d].mine) THEN tk[c].want ELSE 0]

\* The consumers that may yet count themselves in at p in the call that they are in.
May(t, p) == t.pc = "size" \/ (\E i \in DOMAIN t.rest : t.rest[i] = p) \/ (t.p = p /\ t.pc \in {"load", "check", "commit"})
Yet(tk, p) == {c \in Consumer : May(tk[c], p)}

CountInv(s) == \A p \in Producer :
    /\ Since(s, tailIndex[p]) = made[p]
    /\ Since(s, headIndex[p]) + Total(Grant(take, p)) <= made[p]
    /\ Since(s, optimistic[p]) - overcommit[p] = Since(s, headIndex[p]) + Total(Want(take, p))

AskedInv(s) == \A p \in Producer :
    Since(s, optimistic[p]) + Most * Cardinality(Yet(take, p)) <= Most * takes

Apart(s, t, u) ==
    Since(s, t.mine) + t.want <= Since(s, u.mine) \/ Since(s, u.mine) + u.want <= Since(s, t.mine)

\* What a consumer has read was so, as the counters only grow.
Early(s, t) ==
    /\ t.pc = "check" => Since(s, t.tail) <= made[t.p]
    /\ t.pc \in {"check", "commit", "verify"} => t.over <= overcommit[t.p]

\* A consumer who has yet to look: those before it leave its items to it, or it finds itself beyond them.
Before(tk, s, c) == Since(s, headIndex[tk[c].p]) + Total(Grant(tk, tk[c].p)) + Total(Ahead(tk, s, c))
Looks(s, c) == LET t == take[c] p == t.p IN
    /\ t.over <= Since(s, t.mine) /\ Since(s, t.mine) + t.want <= Since(s, optimistic[p])
    /\ \A d \in Consumer \ {c} : Verifies(take[d], p) => Apart(s, t, take[d])
    /\ Before(take, s, c) + t.want <= made[p] \/ Before(take, s, c) <= Since(s, t.mine) - t.over

SeenInv(s) == \A c \in Consumer : Early(s, take[c]) /\ (take[c].pc = "verify" => Looks(s, c))

Main(s) == TypeInv /\ CountInv(s) /\ AskedInv(s) /\ SeenInv(s)

\* A consumer that is alone, and has nothing so far, has a producer before it that has something.
HasSome(s, p) == Since(s, headIndex[p]) < made[p]
SomeLeft(s, t) == \E i \in DOMAIN t.rest : HasSome(s, t.rest[i])

AloneAt(s, c) == LET t == take[c] p == t.p IN
    /\ \A d \in Consumer \ {c} : TakeAt(d, "idle")
    /\ t.got = <<>> =>
        /\ t.pc # "return"
        /\ t.pc = "size" => (t.found > 0 /\ HasSome(s, t.best)) \/ SomeLeft(s, t)
        /\ t.pc = "size" /\ t.found > 0 => HasSome(s, t.best)
        /\ t.pc = "load" => HasSome(s, p) \/ SomeLeft(s, t)
        /\ t.pc = "check" => t.over = overcommit[p] /\ (Since(s, headIndex[p]) < Since(s, t.tail) \/ SomeLeft(s, t))
        /\ t.pc = "commit" => t.over = overcommit[p] /\ HasSome(s, p)
        /\ t.pc = "verify" => Since(s, t.mine) - t.over = Since(s, headIndex[p]) /\ HasSome(s, p)
        /\ t.pc \in {"excess", "claim"} => t.n > 0

AloneInv(s) == \A c \in Consumer : take[c].alone => AloneAt(s, c)

Inv == \E s \in Seen : Main(s) /\ AloneInv(s)

-----------------------------------------------------------------------------
(* The constants, and numbers that wrap *)

LEMMA DivOf == ASSUME NEW a \in Int, NEW b \in Nat \ {0} PROVE
    a = b * (a \div b) + (a % b) /\ a % b \in 0..(b - 1) /\ a \div b \in Int
OBVIOUS

LEMMA Constants == ASSUME QueueAssumption PROVE
    /\ Wrap \in Nat \ {0} /\ Half \in Nat /\ Wrap = 2 * Half /\ MaxItems \in Nat /\ MaxItems < Half
    /\ Most \in Nat /\ Most * MaxTakes <= Half /\ Most >= 1 /\ \A n \in TakeSizes : n \in 1..Most
    /\ IsFiniteSet(Consumer) /\ BlockSize \in Nat \ {0} /\ MaxTakes \in Nat \ {0} /\ Seen \subseteq Counter
<1>. USE DEF QueueAssumption
<1>1. Wrap = 2 * (Wrap \div 2) + (Wrap % 2) /\ Wrap \div 2 \in Int
  BY DivOf
<1>2. Half \in Nat /\ Wrap = 2 * Half
  BY <1>1 DEF Half
<1>3. Half = MaxTakes * Most + (Half % MaxTakes) /\ Half % MaxTakes \in 0..(MaxTakes - 1) /\ Most \in Int
  BY <1>2, DivOf DEF Most
<1>4. ASSUME NEW n \in Nat, n * MaxTakes <= Half PROVE n <= Most
  <2>. SUFFICES ASSUME n >= Most + 1 PROVE FALSE
    BY <1>3, <1>4
  <2>1. n * MaxTakes >= (Most + 1) * MaxTakes
    BY <1>3
  <2>. QED
    BY <1>2, <1>3, <1>4, <2>1
<1>5. \A n \in TakeSizes \cup {1} : n \in Nat \ {0} /\ n <= Most
  BY <1>4 DEF Half
<1>6. Most * MaxTakes <= Half
  BY <1>2, <1>3
<1>. QED
  BY <1>2, <1>3, <1>5, <1>6 DEF Half, Counter

LEMMA Plain == ASSUME QueueAssumption PROVE Counter \subseteq Nat /\ Most \in Nat
BY Constants DEF Counter

LEMMA Bounded == ASSUME QueueAssumption, NEW t, TakeOK(t) PROVE
    t.max \in 0..Most /\ t.max \in Nat /\ t.got \in Seq(Range(t.got)) /\ Len(t.got) \in Nat
<1>1. t.max \in 0..Most /\ t.got \in Seq(Range(t.got))
  BY DEF TakeOK
<1>. QED
  BY <1>1, Plain

LEMMA Around == ASSUME NEW W \in Nat \ {0}, NEW k \in Int, NEW j \in Int PROVE
    /\ (k - j) * W = k * W - j * W /\ (k + j) * W = k * W + j * W
    /\ k >= 1 => k * W >= W
    /\ k <= -1 => k * W <= -W
    /\ 0 * W = 0 /\ (-1) * W = -W
OBVIOUS

\* A number is what is left of it, and so many times around.
LEMMA ModEx == ASSUME NEW W \in Nat \ {0}, NEW a \in Int PROVE \E k \in Int : a = k * W + (a % W)
<1>1. a = W * (a \div W) + (a % W) /\ a \div W \in Int
  BY DivOf
<1>2. W * (a \div W) = (a \div W) * W
  BY <1>1
<1>. QED
  BY <1>1, <1>2, Zenon

LEMMA RestUniq ==
    ASSUME NEW W \in Nat \ {0}, NEW k \in Int, NEW j \in Int, NEW r \in 0..(W - 1), NEW q \in 0..(W - 1),
           k * W + r = j * W + q
    PROVE  r = q
<1>1. (k - j) * W = q - r
  BY Around
<1>2. ~ k - j >= 1 /\ ~ k - j <= -1
  BY <1>1, Around
<1>3. k = j
  BY <1>2
<1>. QED
  BY <1>3

LEMMA ModUniq ==
    ASSUME NEW W \in Nat \ {0}, NEW k \in Int, NEW r \in 0..(W - 1), NEW a \in Int, a = k * W + r PROVE a % W = r
<1>. DEFINE q == a % W
<1>1. q \in 0..(W - 1)
  BY DivOf
<1>2. PICK j \in Int : a = j * W + q
  BY ModEx
<1>. HIDE DEF q
<1>3. q = r
  BY <1>1, <1>2, RestUniq
<1>. QED
  BY <1>3 DEF q

\* Numbers that differ by times around leave the same.
LEMMA ModSame == ASSUME NEW W \in Nat \ {0}, NEW k \in Int, NEW b \in Int PROVE (b + k * W) % W = b % W
<1>. DEFINE q == b % W
<1>1. q \in 0..(W - 1)
  BY DivOf
<1>2. PICK j \in Int : b = j * W + q
  BY ModEx
<1>. HIDE DEF q
<1>. DEFINE i == j + k x == b + k * W
<1>3. x = i * W + q /\ i \in Int /\ x \in Int
  BY <1>1, <1>2, Around
<1>. HIDE DEF i, x
<1>4. x % W = q
  BY <1>1, <1>3, ModUniq
<1>. QED
  BY <1>4 DEF q, x

LEMMA ModNear ==
    ASSUME NEW W \in Nat \ {0}, NEW r \in 1..(W - 1) PROVE r % W = r /\ 0 % W = 0 /\ (-r) % W = W - r
<1>1. r = 0 * W + r /\ 0 = 0 * W + 0 /\ -r = (-1) * W + (W - r)
  BY Around
<1>. QED
  BY <1>1, ModUniq

LEMMA ModZero == ASSUME NEW W \in Nat \ {0} PROVE 0 % W = 0
<1>1. 0 = 0 * W + 0
  BY Around
<1>. QED
  BY <1>1, ModUniq

LEMMA SinceType == ASSUME QueueAssumption, NEW s \in Counter, NEW x \in Int PROVE Since(s, x) \in Counter
<1>1. x - s \in Int /\ Wrap \in Nat \ {0}
  BY Constants DEF Counter
<1>. QED
  BY <1>1, DivOf DEF Since, Counter

LEMMA SinceSelf == ASSUME QueueAssumption, NEW s \in Counter PROVE Since(s, s) = 0
<1>1. s - s = 0
  BY Constants DEF Counter
<1>. QED
  BY <1>1, Constants, ModZero DEF Since

LEMMA Whole == ASSUME QueueAssumption, NEW x \in Int, NEW y \in Int PROVE
    /\ \E k \in Int : x - y = k * Wrap + Since(y, x)
    /\ \E k \in Int : x + y = k * Wrap + Plus(x, y)
    /\ \E k \in Int : x - y = k * Wrap + Minus(x, y)
    /\ Since(y, x) \in Counter /\ Plus(x, y) \in Counter /\ Minus(x, y) \in Counter
<1>1. x - y \in Int /\ x + y \in Int
  OBVIOUS
<1>. QED
  BY <1>1, Constants, ModEx, DivOf DEF Since, Plus, Minus, Counter

\* A counter that does not come around is as much further.
LEMMA SincePlus ==
    ASSUME QueueAssumption, NEW s \in Counter, NEW x \in Counter, NEW n \in Nat, Since(s, x) + n < Wrap
    PROVE  Since(s, Plus(x, n)) = Since(s, x) + n /\ Plus(x, n) \in Counter
<1>0. s \in Int /\ x \in Int /\ Wrap \in Nat \ {0}
  BY Constants DEF Counter
<1>1. PICK k \in Int : x - s = k * Wrap + Since(s, x)
  BY <1>0, Whole
<1>2. PICK j \in Int : x + n = j * Wrap + Plus(x, n)
  BY <1>0, n \in Int, Whole
<1>3. Since(s, x) \in 0..(Wrap - 1) /\ Plus(x, n) \in 0..(Wrap - 1)
  BY <1>0, Whole DEF Counter
<1>. DEFINE i == k - j a == Plus(x, n) - s r == Since(s, x) + n
<1>4. a = i * Wrap + r /\ i \in Int /\ a \in Int /\ r \in 0..(Wrap - 1)
  BY <1>0, <1>1, <1>2, <1>3, Around
<1>. HIDE DEF i, a, r
<1>5. a % Wrap = r
  BY <1>0, <1>4, ModUniq
<1>. QED
  BY <1>3, <1>5 DEF Since, Counter, a, r

LEMMA SinceMinus ==
    ASSUME QueueAssumption, NEW s \in Counter, NEW x \in Int, NEW y \in Int
    PROVE  Minus(x, y) = (Since(s, x) - Since(s, y)) % Wrap
<1>0. s \in Int /\ Wrap \in Nat \ {0}
  BY Constants DEF Counter
<1>1. PICK k \in Int : x - s = k * Wrap + Since(s, x)
  BY <1>0, Whole
<1>2. PICK j \in Int : y - s = j * Wrap + Since(s, y)
  BY <1>0, Whole
<1>3. Since(s, x) \in 0..(Wrap - 1) /\ Since(s, y) \in 0..(Wrap - 1)
  BY <1>0, Whole DEF Counter
<1>. DEFINE i == k - j a == x - y b == Since(s, x) - Since(s, y)
<1>4. a = b + i * Wrap /\ i \in Int /\ a \in Int /\ b \in Int
  BY <1>0, <1>1, <1>2, <1>3, Around
<1>. HIDE DEF i, a, b
<1>5. a % Wrap = b % Wrap
  BY <1>0, <1>4, ModSame
<1>. QED
  BY <1>5 DEF Minus, a, b

\* What Check and Verify compute.
LEMMA SinceOver ==
    ASSUME QueueAssumption, NEW s \in Counter, NEW x \in Int, NEW y \in Int, NEW v \in Int
    PROVE  Minus(x, Minus(y, v)) = (Since(s, x) - (Since(s, y) - v)) % Wrap
<1>0. s \in Int /\ Wrap \in Nat \ {0}
  BY Constants DEF Counter
<1>1. PICK k \in Int : x - s = k * Wrap + Since(s, x)
  BY <1>0, Whole
<1>2. PICK j \in Int : y - s = j * Wrap + Since(s, y)
  BY <1>0, Whole
<1>3. PICK i \in Int : y - v = i * Wrap + Minus(y, v)
  BY Whole
<1>4. Since(s, x) \in 0..(Wrap - 1) /\ Since(s, y) \in 0..(Wrap - 1) /\ Minus(y, v) \in Int
  BY <1>0, Whole DEF Counter
<1>. DEFINE h == (k - j) + i a == x - Minus(y, v) b == Since(s, x) - (Since(s, y) - v)
<1>5. a = b + h * Wrap /\ h \in Int /\ a \in Int /\ b \in Int
  BY <1>0, <1>1, <1>2, <1>3, <1>4, Around
<1>. HIDE DEF h, a, b
<1>6. a % Wrap = b % Wrap
  BY <1>0, <1>5, ModSame
<1>. QED
  BY <1>6 DEF Minus, a, b

\* A difference that is less than half around is read for what it is.
LEMMA LessIsLess ==
    ASSUME QueueAssumption, NEW d \in Int, -Half <= d, d < Half
    PROVE  /\ circular_less_than(0, d % Wrap) <=> d > 0
           /\ d > 0 => d % Wrap = d
<1>0. Wrap \in Nat \ {0} /\ Half \in Nat /\ Wrap = 2 * Half
  BY Constants
<1>1. CASE d > 0
  <2>1. d % Wrap = d /\ (0 - d) % Wrap = Wrap - d
    <3>1. 0 - d = -d /\ d \in 1..(Wrap - 1)
      BY <1>0, <1>1
    <3>. QED
      BY <1>0, <3>1, ModNear
  <2>2. (0 - (d % Wrap)) % Wrap = Wrap - d
    BY <2>1
  <2>. QED
    BY <1>0, <1>1, <2>1, <2>2 DEF circular_less_than, Half
<1>2. CASE d = 0
  <2>1. d % Wrap = 0 /\ 0 - (d % Wrap) = 0 /\ (0 - (d % Wrap)) % Wrap = 0
    BY <1>0, <1>2, ModZero
  <2>. QED
    BY <1>0, <1>2, <2>1 DEF circular_less_than, Half
<1>3. CASE d < 0
  <2>1. -d \in 1..(Wrap - 1) /\ -(-d) = d
    BY <1>0, <1>3
  <2>2. d % Wrap = Wrap + d /\ Wrap + d \in 1..(Wrap - 1)
    <3>. DEFINE r == -d
    <3>1. r \in 1..(Wrap - 1) /\ d = -r
      BY <2>1
    <3>. HIDE DEF r
    <3>2. (-r) % Wrap = Wrap - r
      BY <1>0, <3>1, ModNear
    <3>. QED
      BY <1>0, <3>1, <3>2
  <2>3. 0 - (d % Wrap) = -(Wrap + d)
    BY <1>0, <2>2
  <2>4. (-(Wrap + d)) % Wrap = Wrap - (Wrap + d)
    BY <1>0, <2>2, ModNear
  <2>5. (0 - (d % Wrap)) % Wrap = -d
    BY <1>0, <2>3, <2>4
  <2>. QED
    BY <1>0, <1>3, <2>5 DEF circular_less_than, Half
<1>. QED
  BY <1>1, <1>2, <1>3

\* Which of two counters comes first.
LEMMA LessSince ==
    ASSUME QueueAssumption, NEW s \in Counter, NEW x \in Counter, NEW y \in Counter,
           Since(s, x) <= Since(s, y), Since(s, y) - Since(s, x) < Half
    PROVE  /\ circular_less_than(x, y) <=> Since(s, x) < Since(s, y)
           /\ Minus(y, x) = Since(s, y) - Since(s, x)
           /\ x = y <=> Since(s, x) = Since(s, y)
<1>0. Wrap \in Nat \ {0} /\ Half \in Nat /\ Wrap = 2 * Half /\ x \in Int /\ y \in Int /\ s \in Int
  BY Constants DEF Counter
<1>1. Since(s, x) \in 0..(Wrap - 1) /\ Since(s, y) \in 0..(Wrap - 1)
  BY <1>0, Whole DEF Counter
<1>2. Minus(y, x) = (Since(s, y) - Since(s, x)) % Wrap /\ Minus(x, y) = (Since(s, x) - Since(s, y)) % Wrap
  BY <1>0, SinceMinus
<1>3. CASE Since(s, x) = Since(s, y)
  <2>1. Minus(y, x) = 0 /\ Minus(x, y) = 0
    <3>1. Since(s, y) - Since(s, x) = 0 /\ Since(s, x) - Since(s, y) = 0
      BY <1>1, <1>3
    <3>. QED
      BY <1>0, <1>2, <3>1, ModZero
  <2>2. PICK k \in Int : x - y = k * Wrap + Minus(x, y)
    BY <1>0, Whole
  <2>3. x - y < Wrap /\ x - y > -Wrap
    BY <1>0 DEF Counter
  <2>4. ~ k >= 1 /\ ~ k <= -1
    BY <1>0, <2>1, <2>2, <2>3, Around
  <2>5. k = 0 /\ 0 * Wrap = 0
    BY <1>0, <2>4, Around
  <2>6. x = y
    BY <1>0, <2>1, <2>2, <2>5
  <2>. QED
    BY <1>0, <1>1, <1>3, <2>1, <2>6 DEF circular_less_than, Minus, Half
<1>4. CASE Since(s, x) < Since(s, y)
  <2>. DEFINE d == Since(s, y) - Since(s, x)
  <2>1. d \in 1..(Wrap - 1) /\ d < Half /\ Since(s, x) - Since(s, y) = -d
    BY <1>0, <1>1, <1>4
  <2>. HIDE DEF d
  <2>2. d % Wrap = d /\ (-d) % Wrap = Wrap - d
    BY <1>0, <2>1, ModNear
  <2>3. Minus(y, x) = d /\ Minus(x, y) = Wrap - d
    BY <1>2, <2>1, <2>2 DEF d
  <2>. QED
    BY <1>0, <1>1, <1>4, <2>1, <2>3 DEF circular_less_than, Minus, Half, d
<1>. QED
  BY <1>1, <1>3, <1>4

-----------------------------------------------------------------------------
(* What consumers' numbers add up to *)

Numbers == [Consumer -> Nat]

LEMMA PairsOf == ASSUME NEW f \in Numbers PROVE
    \A x : x \in Pairs(f) <=> \E c \in Consumer, i \in Int : i \in 1..f[c] /\ x = <<c, i>>
BY DEF Pairs

LEMMA TotalType == ASSUME QueueAssumption, NEW f \in Numbers PROVE IsFiniteSet(Pairs(f)) /\ Total(f) \in Nat
<1>. DEFINE g == [c \in Consumer |-> {c} \X (1..f[c])]
            S == {{c} \X (1..f[c]) : c \in Consumer}
<1>1. g \in [Consumer -> S] /\ \A T \in S : \E c \in Consumer : g[c] = T
  OBVIOUS
<1>2. g \in Surjection(Consumer, S)
  BY <1>1, Fun_IsSurj, Zenon
<1>3. IsFiniteSet(S)
  BY <1>2, Constants, FS_Surjection
<1>4. \A T \in S : IsFiniteSet(T)
  <2>. SUFFICES ASSUME NEW c \in Consumer PROVE IsFiniteSet({c} \X (1..f[c]))
    OBVIOUS
  <2>1. IsFiniteSet(1..f[c])
    BY FS_Interval, f[c] \in Int DEF Numbers
  <2>2. IsFiniteSet({c})
    BY FS_Singleton, Zenon
  <2>. QED
    BY <2>1, <2>2, FS_Product
<1>5. IsFiniteSet(UNION S)
  BY <1>3, <1>4, FS_UNION
<1>. QED
  BY <1>5, FS_CardinalityType DEF Pairs, Total

LEMMA TotalZero == ASSUME QueueAssumption, NEW f \in Numbers, \A c \in Consumer : f[c] = 0 PROVE Total(f) = 0
<1>1. Pairs(f) = {}
  BY PairsOf
<1>. QED
  BY <1>1, FS_EmptySet DEF Total

LEMMA TotalMono ==
    ASSUME QueueAssumption, NEW f \in Numbers, NEW g \in Numbers, \A c \in Consumer : f[c] <= g[c]
    PROVE  Total(f) <= Total(g)
<1>1. Pairs(f) \subseteq Pairs(g)
  <2>. SUFFICES ASSUME NEW c \in Consumer, NEW i \in 1..f[c] PROVE <<c, i>> \in Pairs(g)
    BY PairsOf
  <2>1. i \in 1..g[c]
    BY DEF Numbers
  <2>. QED
    BY <2>1, PairsOf
<1>. QED
  BY <1>1, TotalType, FS_Subset DEF Total

\* One of the numbers changes.
LEMMA TotalChange ==
    ASSUME QueueAssumption, NEW f \in Numbers, NEW c \in Consumer, NEW n \in Nat
    PROVE  [f EXCEPT ![c] = n] \in Numbers /\ Total([f EXCEPT ![c] = n]) = Total(f) - f[c] + n
<1>. DEFINE z == [f EXCEPT ![c] = 0] g == [f EXCEPT ![c] = n]
<1>1. z \in Numbers /\ g \in Numbers /\ f[c] \in Nat
  BY DEF Numbers
<1>2. ASSUME NEW h \in Numbers, \A d \in Consumer \ {c} : h[d] = f[d], NEW m \in Nat, h[c] = m
      PROVE  Total(h) = Total(z) + m
  <2>0. \A d \in Consumer : z[d] = IF d = c THEN 0 ELSE h[d]
    BY <1>2 DEF Numbers
  <2>. HIDE DEF z
  <2>1. Pairs(h) = Pairs(z) \cup ({c} \X (1..m))
    <3>2. ASSUME NEW x, x \in Pairs(h) PROVE x \in Pairs(z) \cup ({c} \X (1..m))
      <4>1. PICK d \in Consumer, i \in Int : i \in 1..h[d] /\ x = <<d, i>>
        BY <3>2, PairsOf
      <4>. QED
        BY <1>1, <1>2, <2>0, <4>1, PairsOf
    <3>3. ASSUME NEW x, x \in Pairs(z) \cup ({c} \X (1..m)) PROVE x \in Pairs(h)
      <4>1. CASE x \in Pairs(z)
        <5>1. PICK d \in Consumer, i \in Int : i \in 1..z[d] /\ x = <<d, i>>
          BY <1>1, <4>1, PairsOf
        <5>2. i \in 1..h[d]
          BY <2>0, <5>1
        <5>. QED
          BY <5>1, <5>2, PairsOf
      <4>2. CASE x \in {c} \X (1..m)
        BY <1>2, <4>2, PairsOf
      <4>. QED
        BY <3>3, <4>1, <4>2
    <3>. QED
      BY <3>2, <3>3
  <2>2. Pairs(z) \cap ({c} \X (1..m)) = {}
    <3>. SUFFICES ASSUME NEW x, x \in Pairs(z), x \in {c} \X (1..m) PROVE FALSE
      OBVIOUS
    <3>1. PICK d \in Consumer, i \in Int : i \in 1..z[d] /\ x = <<d, i>>
      BY <1>1, PairsOf
    <3>2. d = c /\ z[c] = 0
      BY <2>0, <3>1
    <3>. QED
      BY <3>1, <3>2
  <2>3. IsFiniteSet({c} \X (1..m)) /\ Cardinality({c} \X (1..m)) = m
    <3>0. Cardinality({c}) = 1 /\ IsFiniteSet({c})
      BY FS_Singleton, Zenon
    <3>1. Cardinality(1..m) = m /\ IsFiniteSet(1..m)
      BY FS_Interval
    <3>2. Cardinality({c} \X (1..m)) = Cardinality({c}) * Cardinality(1..m) /\ IsFiniteSet({c} \X (1..m))
      BY <3>0, <3>1, FS_Product
    <3>. QED
      BY <3>0, <3>1, <3>2
  <2>4. IsFiniteSet(Pairs(z)) /\ Cardinality(Pairs(z)) \in Nat
    BY <1>1, TotalType DEF Total
  <2>5. Cardinality(Pairs(z) \cup ({c} \X (1..m))) = Cardinality(Pairs(z)) + m - Cardinality({})
    BY <2>2, <2>3, <2>4, FS_Union
  <2>. QED
    BY <2>1, <2>4, <2>5, FS_EmptySet DEF Total
<1>3. Total(f) = Total(z) + f[c] /\ Total(g) = Total(z) + n
  <2>1. g[c] = n /\ \A d \in Consumer \ {c} : g[d] = f[d]
    BY DEF Numbers
  <2>. HIDE DEF g, z
  <2>. QED
    BY <1>1, <1>2, <2>1
<1>4. Total(z) \in Nat
  BY <1>1, TotalType
<1>. QED
  BY <1>1, <1>3, <1>4

\* Numbers of some consumers, and of others, together.
LEMMA TotalApart ==
    ASSUME QueueAssumption, NEW f \in Numbers, NEW g \in Numbers, NEW h \in Numbers,
           \A c \in Consumer : (f[c] = 0 \/ g[c] = 0) /\ f[c] <= h[c] /\ g[c] <= h[c]
    PROVE  Total(f) + Total(g) <= Total(h)
<1>1. Pairs(f) \cap Pairs(g) = {}
  <2>. SUFFICES ASSUME NEW x, x \in Pairs(f), x \in Pairs(g) PROVE FALSE
    OBVIOUS
  <2>1. PICK c \in Consumer, i \in Int : i \in 1..f[c] /\ x = <<c, i>>
    BY PairsOf
  <2>2. PICK d \in Consumer, j \in Int : j \in 1..g[d] /\ x = <<d, j>>
    BY PairsOf
  <2>3. c = d /\ i = j
    BY <2>1, <2>2
  <2>4. f[c] >= 1 /\ g[c] >= 1
    BY <2>1, <2>2, <2>3 DEF Numbers
  <2>. QED
    BY <2>4
<1>2. Pairs(f) \subseteq Pairs(h) /\ Pairs(g) \subseteq Pairs(h)
  <2>1. ASSUME NEW c \in Consumer, NEW i \in 1..f[c] PROVE <<c, i>> \in Pairs(h)
    <3>1. i \in 1..h[c]
      BY DEF Numbers
    <3>. QED
      BY <3>1, PairsOf
  <2>2. ASSUME NEW c \in Consumer, NEW i \in 1..g[c] PROVE <<c, i>> \in Pairs(h)
    <3>1. i \in 1..h[c]
      BY DEF Numbers
    <3>. QED
      BY <3>1, PairsOf
  <2>. QED
    BY <2>1, <2>2, PairsOf
<1>3. Cardinality(Pairs(f) \cup Pairs(g)) = Total(f) + Total(g) - 0
  BY <1>1, TotalType, FS_Union, FS_EmptySet DEF Total
<1>4. Cardinality(Pairs(f) \cup Pairs(g)) <= Total(h)
  BY <1>2, TotalType, FS_Subset DEF Total
<1>. QED
  BY <1>3, <1>4, TotalType

-----------------------------------------------------------------------------
(* What the steps make of a consumer *)

LEMMA MinOf == ASSUME NEW a \in Int, NEW b \in Int PROVE
    Min({a, b}) = (IF a <= b THEN a ELSE b) /\ Max({a, b}) = (IF a >= b THEN a ELSE b)
<1>1. Min({a, b}) = (IF a <= b THEN a ELSE b)
  BY SMT DEF Min
<1>2. Max({a, b}) = (IF a >= b THEN a ELSE b)
  BY SMT DEF Max
<1>. QED
  BY <1>1, <1>2

OthersKeep(c) == DOMAIN take' = Consumer /\ \A d \in Consumer \ {c} : take'[d] = take[d]

LEMMA TakesTo == ASSUME DOMAIN take = Consumer, NEW c \in Consumer, NEW u, Takes(c, u) PROVE
    take'[c] = u /\ OthersKeep(c)
BY DEF Takes, OthersKeep

LEMMA Fits == DOMAIN TakeIdle = Fields
BY DEF TakeIdle, Fields

LEMMA NoItems == Len(<<>>) = 0 /\ DOMAIN <<>> = {} /\ \A S : <<>> \in Seq(S)
OBVIOUS

\* A consumer is on its way with what it has to the producers of a list.
OnTo(t, rest, u) ==
    /\ TakeOK(u) /\ u.got = t.got /\ u.alone = t.alone
    /\ IF rest = <<>> THEN u.pc = "return" ELSE u.pc = "load" /\ u.p = rest[1]
    /\ \A p : (u.pc = "load" /\ u.p = p) \/ (\E i \in DOMAIN u.rest : u.rest[i] = p) <=> \E i \in DOMAIN rest : rest[i] = p

LEMMA TryingIsOn ==
    ASSUME QueueAssumption, NEW t, NEW rest, t.got \in Seq(Range(t.got)), t.max \in 0..Most, t.alone \in BOOLEAN,
           rest \in Seq(Producer), \A i, j \in DOMAIN rest : rest[i] = rest[j] => i = j,
           rest # <<>> => Len(t.got) < t.max
    PROVE  OnTo(t, rest, Trying(t, rest))
<1>. DEFINE u == Trying(t, rest)
<1>1. CASE rest = <<>>
  <2>1. /\ DOMAIN u = Fields /\ u.got = t.got /\ u.alone = t.alone /\ u.pc = "return" /\ u.rest = <<>> /\ u.max = 0
    BY <1>1, Fits DEF Trying, TakeIdle, Fields
  <2>. HIDE DEF u
  <2>2. TakeOK(u)
    BY <2>1, NoItems, Constants DEF TakeOK, Trial, Counting, Asking, Finding, Emptying
  <2>. QED
    BY <1>1, <2>1, <2>2, NoItems DEF OnTo, u
<1>2. CASE rest # <<>>
  <2>1. /\ DOMAIN u = Fields /\ u.got = t.got /\ u.alone = t.alone /\ u.pc = "load" /\ u.rest = Tail(rest)
        /\ u.p = Head(rest) /\ u.max = t.max
    BY <1>2, Fits DEF Trying, TakeIdle, Fields
  <2>. HIDE DEF u
  <2>2. /\ Tail(rest) \in Seq(Producer) /\ DOMAIN Tail(rest) = 1..(Len(rest) - 1) /\ DOMAIN rest = 1..Len(rest)
        /\ Len(rest) \in Nat /\ Len(rest) > 0 /\ Head(rest) = rest[1] /\ Head(rest) \in Producer
        /\ \A i \in 1..(Len(rest) - 1) : Tail(rest)[i] = rest[i + 1]
    BY <1>2
  <2>3. \A i, j \in DOMAIN u.rest : u.rest[i] = u.rest[j] => i = j
    <3>. SUFFICES ASSUME NEW i \in 1..(Len(rest) - 1), NEW j \in 1..(Len(rest) - 1), rest[i + 1] = rest[j + 1] PROVE i = j
      BY <2>1, <2>2
    <3>1. i + 1 \in DOMAIN rest /\ j + 1 \in DOMAIN rest
      BY <2>2
    <3>2. i + 1 = j + 1
      BY <3>1
    <3>. QED
      BY <3>2
  <2>4. \A i \in DOMAIN u.rest : u.rest[i] # u.p
    <3>. SUFFICES ASSUME NEW i \in 1..(Len(rest) - 1), rest[i + 1] = rest[1] PROVE FALSE
      BY <2>1, <2>2
    <3>1. i + 1 \in DOMAIN rest /\ 1 \in DOMAIN rest
      BY <2>2
    <3>2. i + 1 = 1
      BY <3>1
    <3>. QED
      BY <3>2
  <2>5. TakeOK(u)
    BY <1>2, <2>1, <2>2, <2>3, <2>4 DEF TakeOK, Trial, Counting, Asking, Finding, Emptying
  <2>6. ASSUME NEW p PROVE (u.pc = "load" /\ u.p = p) \/ (\E i \in DOMAIN u.rest : u.rest[i] = p) <=> \E i \in DOMAIN rest : rest[i] = p
    <3>1. ASSUME NEW i \in DOMAIN u.rest, u.rest[i] = p PROVE \E j \in DOMAIN rest : rest[j] = p
      <4>1. i + 1 \in DOMAIN rest /\ rest[i + 1] = p
        BY <2>1, <2>2, <3>1
      <4>. QED
        BY <4>1
    <3>2. ASSUME NEW i \in DOMAIN rest, rest[i] = p, i # 1 PROVE \E j \in DOMAIN u.rest : u.rest[j] = p
      <4>1. i - 1 \in DOMAIN u.rest /\ u.rest[i - 1] = rest[(i - 1) + 1]
        BY <2>1, <2>2, <3>2
      <4>. QED
        BY <2>2, <3>2, <4>1
    <3>3. 1 \in DOMAIN rest /\ u.p = rest[1]
      BY <2>1, <2>2
    <3>. QED
      BY <2>1, <3>1, <3>2, <3>3
  <2>. QED
    BY <1>2, <2>1, <2>2, <2>5, <2>6 DEF OnTo, u
<1>. QED
  BY <1>1, <1>2

\* A consumer that is still at the same producer.
Stays(t, u) == TakeOK(u) /\ u.p = t.p /\ u.rest = t.rest /\ u.got = t.got /\ u.alone = t.alone /\ u.max = t.max

Skipped(c) == Trying(take[c], take[c].rest)

LEMMA AtTrial == ASSUME TypeInv, NEW c \in Consumer PROVE LET t == take[c] IN
    /\ TakeOK(t) /\ DOMAIN t = Fields /\ t.max \in 0..Most /\ Len(t.got) \in Nat /\ DOMAIN take = Consumer
    /\ t.pc \in Trial => t.p \in Producer /\ \A i \in DOMAIN t.rest : t.rest[i] # t.p
BY DEF TypeInv, TakeOK

LEMMA SkipIsOn == ASSUME QueueAssumption, TypeInv, NEW c \in Consumer, Len(take[c].got) < take[c].max
    PROVE  OnTo(take[c], take[c].rest, Skipped(c))
BY TryingIsOn DEF TypeInv, TakeOK, Skipped

LEMMA CounterTypes == ASSUME QueueAssumption, TypeInv, NEW p \in Producer PROVE
    /\ tailIndex[p] \in Counter /\ headIndex[p] \in Counter /\ optimistic[p] \in Counter /\ overcommit[p] \in Counter
    /\ made[p] \in Nat /\ made[p] <= MaxItems /\ Counter \subseteq Nat
BY Constants DEF TypeInv, Counter

LEMMA LoadEffect == ASSUME QueueAssumption, TypeInv, NEW c \in Consumer, LoadCounts(c) PROVE
    LET t == take[c] u == take'[c] IN
    /\ OthersKeep(c) /\ t.pc = "load" /\ u.pc = "check" /\ Stays(t, u)
    /\ u.tail = tailIndex[t.p] /\ u.over = overcommit[t.p]
<1>. DEFINE t == take[c] u == [t EXCEPT !.pc = "check", !.tail = tailIndex[t.p], !.over = overcommit[t.p]]
<1>1. TakeOK(t) /\ DOMAIN t = Fields /\ DOMAIN take = Consumer /\ t.pc = "load"
  BY AtTrial DEF LoadCounts, TakeAt
<1>2. take'[c] = u /\ OthersKeep(c)
  BY <1>1, TakesTo DEF LoadCounts
<1>3. /\ DOMAIN u = Fields /\ u.pc = "check" /\ u.p = t.p /\ u.rest = t.rest /\ u.got = t.got /\ u.alone = t.alone
      /\ u.max = t.max /\ u.tail = tailIndex[t.p] /\ u.over = overcommit[t.p]
  BY <1>1 DEF Fields
<1>. HIDE DEF u
<1>4. tailIndex[t.p] \in Counter /\ overcommit[t.p] \in Counter
  BY <1>1, AtTrial, CounterTypes DEF Trial
<1>5. TakeOK(u)
  BY <1>1, <1>3, <1>4 DEF TakeOK, Trial, Counting, Asking, Finding, Emptying
<1>. QED
  BY <1>1, <1>2, <1>3, <1>5 DEF Stays

\* What Check and Verify see as what there is.
Excess(x, y, v) == Minus(x, Minus(y, v))

LEMMA ExcessSees ==
    ASSUME QueueAssumption, NEW s \in Counter, NEW x \in Int, NEW y \in Int, NEW v \in Int, NEW d \in Int,
           d = Since(s, x) - (Since(s, y) - v), -Half <= d, d < Half
    PROVE  /\ circular_less_than(0, Excess(x, y, v)) <=> d > 0
           /\ d > 0 => Excess(x, y, v) = d
<1>1. Excess(x, y, v) = d % Wrap
  BY SinceOver DEF Excess
<1>. QED
  BY <1>1, LessIsLess

LEMMA SomeExcess == ASSUME QueueAssumption, NEW x \in Int, NEW y \in Int, NEW v \in Int PROVE
    Excess(x, y, v) \in Counter /\ (circular_less_than(0, Excess(x, y, v)) => Excess(x, y, v) > 0)
<1>1. Minus(y, v) \in Int
  BY Whole, Constants DEF Counter
<1>2. Excess(x, y, v) \in Counter
  BY <1>1, Whole DEF Excess
<1>3. ASSUME circular_less_than(0, 0) PROVE FALSE
  <2>1. 0 - 0 = 0 /\ 0 % Wrap = 0
    BY Constants, ModZero
  <2>. QED
    BY <1>3, <2>1, Constants DEF circular_less_than, Half
<1>. QED
  BY <1>2, <1>3, Constants DEF Counter

LEMMA CheckEffect == ASSUME QueueAssumption, TypeInv, NEW c \in Consumer, Check(c, Skipped(c)) PROVE
    LET t == take[c] u == take'[c] d == Excess(t.tail, optimistic[t.p], t.over) IN
    /\ OthersKeep(c) /\ t.pc = "check"
    /\ IF circular_less_than(0, d) THEN u.pc = "commit" /\ Stays(t, u) /\ u.over = t.over ELSE OnTo(t, t.rest, u)
<1>. DEFINE t == take[c] d == Excess(t.tail, optimistic[t.p], t.over)
            u == [t EXCEPT !.pc = "commit", !.tail = 0, !.want = Min({d, t.max - Len(t.got)})]
<1>1. TakeOK(t) /\ DOMAIN t = Fields /\ DOMAIN take = Consumer /\ t.pc = "check" /\ t.max \in Nat /\ Len(t.got) \in Nat
      /\ Len(t.got) < t.max
  <2>1. TakeOK(t) /\ DOMAIN t = Fields /\ DOMAIN take = Consumer /\ t.pc = "check"
    BY AtTrial DEF Check, TakeAt
  <2>2. Len(t.got) < t.max
    BY <2>1 DEF TakeOK
  <2>. QED
    BY <2>1, <2>2, Bounded
<1>2. take'[c] = (IF circular_less_than(0, d) THEN u ELSE Skipped(c)) /\ OthersKeep(c)
  <2>1. Takes(c, IF circular_less_than(0, d) THEN u ELSE Skipped(c))
    BY DEF Check, Excess
  <2>. HIDE DEF d, u
  <2>. QED
    BY <1>1, <2>1, TakesTo
<1>3. optimistic[t.p] \in Counter /\ t.tail \in Counter /\ t.over \in Counter
  BY <1>1, AtTrial, CounterTypes DEF Trial, TakeOK, Counting
<1>4. d \in Nat /\ (circular_less_than(0, d) => d > 0)
  BY <1>3, SomeExcess, Constants DEF Counter
<1>. HIDE DEF d
<1>5. /\ DOMAIN u = Fields /\ u.pc = "commit" /\ u.p = t.p /\ u.rest = t.rest /\ u.got = t.got /\ u.alone = t.alone
      /\ u.max = t.max /\ u.over = t.over /\ u.want = Min({d, t.max - Len(t.got)})
  BY <1>1 DEF Fields
<1>. HIDE DEF u
<1>6. ASSUME d > 0 PROVE TakeOK(u)
  <2>1. u.want \in 1..(t.max - Len(t.got))
    BY <1>1, <1>4, <1>5, <1>6, MinOf
  <2>. QED
    BY <1>1, <1>3, <1>5, <2>1 DEF TakeOK, Trial, Counting, Asking, Finding, Emptying
<1>7. OnTo(t, t.rest, Skipped(c))
  BY <1>1, SkipIsOn
<1>. QED
  BY <1>1, <1>2, <1>4, <1>5, <1>6, <1>7 DEF Stays, d

LEMMA CommitEffect == ASSUME QueueAssumption, TypeInv, NEW c \in Consumer, Commit(c) PROVE
    LET t == take[c] u == take'[c] IN
    /\ OthersKeep(c) /\ t.pc = "commit" /\ u.pc = "verify" /\ Stays(t, u)
    /\ u.want = t.want /\ u.over = t.over /\ u.mine = optimistic[t.p] /\ t.want \in 1..Most
<1>. DEFINE t == take[c] u == [t EXCEPT !.pc = "verify", !.mine = optimistic[t.p]]
<1>1. TakeOK(t) /\ DOMAIN t = Fields /\ DOMAIN take = Consumer /\ t.pc = "commit"
  BY AtTrial DEF Commit, TakeAt
<1>2. take'[c] = u /\ OthersKeep(c)
  BY <1>1, TakesTo DEF Commit
<1>3. /\ DOMAIN u = Fields /\ u.pc = "verify" /\ u.p = t.p /\ u.rest = t.rest /\ u.got = t.got /\ u.alone = t.alone
      /\ u.max = t.max /\ u.want = t.want /\ u.over = t.over /\ u.mine = optimistic[t.p]
  BY <1>1 DEF Fields
<1>. HIDE DEF u
<1>4. optimistic[t.p] \in Counter
  BY <1>1, AtTrial, CounterTypes DEF Trial, Counting
<1>5. TakeOK(u)
  BY <1>1, <1>3, <1>4 DEF TakeOK, Trial, Counting, Asking, Finding, Emptying
<1>6. t.want \in 1..Most
  BY <1>1, Constants DEF TakeOK
<1>. QED
  BY <1>1, <1>2, <1>3, <1>5, <1>6 DEF Stays

LEMMA VerifyEffect == ASSUME QueueAssumption, TypeInv, NEW c \in Consumer, Verify(c) PROVE
    LET t == take[c] u == take'[c] d == Excess(tailIndex[t.p], t.mine, t.over) IN
    /\ OthersKeep(c) /\ t.pc = "verify" /\ u.pc \in {"excess", "claim"} /\ Stays(t, u) /\ u.want = t.want
    /\ t.want \in Nat \ {0} /\ u.n \in 0..t.want
    /\ u.n = IF circular_less_than(0, d) THEN (IF t.want <= d THEN t.want ELSE d) ELSE 0
<1>. DEFINE t == take[c] d == Excess(tailIndex[t.p], t.mine, t.over)
            n == IF circular_less_than(0, d) THEN Min({t.want, d}) ELSE 0
            u == [t EXCEPT !.n = n, !.mine = 0, !.over = 0, !.pc = IF n < t.want THEN "excess" ELSE "claim"]
<1>1. TakeOK(t) /\ DOMAIN t = Fields /\ DOMAIN take = Consumer /\ t.pc = "verify"
  BY AtTrial DEF Verify, TakeAt
<1>2. take'[c] = u /\ OthersKeep(c)
  BY <1>1, TakesTo DEF Verify, Excess
<1>3. tailIndex[t.p] \in Counter /\ t.mine \in Counter /\ t.over \in Counter
  BY <1>1, AtTrial, CounterTypes DEF Trial, TakeOK, Counting, Asking
<1>4. d \in Nat /\ (circular_less_than(0, d) => d > 0)
  BY <1>3, SomeExcess, Constants DEF Counter
<1>. HIDE DEF d
<1>5. t.want \in 1..(t.max - Len(t.got)) /\ t.max \in Nat /\ Len(t.got) \in Nat
  BY <1>1, AtTrial, Constants DEF TakeOK, Asking
<1>6. n = (IF circular_less_than(0, d) THEN (IF t.want <= d THEN t.want ELSE d) ELSE 0) /\ n \in 0..t.want
  BY <1>4, <1>5, MinOf
<1>. HIDE DEF n
<1>7. /\ DOMAIN u = Fields /\ u.pc = (IF n < t.want THEN "excess" ELSE "claim") /\ u.p = t.p /\ u.rest = t.rest
      /\ u.got = t.got /\ u.alone = t.alone /\ u.max = t.max /\ u.want = t.want /\ u.n = n
  BY <1>1 DEF Fields
<1>. HIDE DEF u
<1>8. TakeOK(u)
  BY <1>1, <1>5, <1>6, <1>7 DEF TakeOK, Trial, Counting, Asking, Finding, Emptying
<1>. QED
  BY <1>1, <1>2, <1>5, <1>6, <1>7, <1>8 DEF Stays, d

LEMMA ExcessEffect == ASSUME QueueAssumption, TypeInv, NEW c \in Consumer, CountExcessOut(c, Skipped(c)) PROVE
    LET t == take[c] u == take'[c] IN
    /\ OthersKeep(c) /\ t.pc = "excess" /\ t.want \in 1..Most /\ t.n \in 0..(t.want - 1)
    /\ IF t.n = 0 THEN OnTo(t, t.rest, u) ELSE u.pc = "claim" /\ Stays(t, u) /\ u.want = t.n /\ u.n = t.n
<1>. DEFINE t == take[c] u == [t EXCEPT !.pc = "claim", !.want = t.n]
<1>1. TakeOK(t) /\ DOMAIN t = Fields /\ DOMAIN take = Consumer /\ t.pc = "excess"
  BY AtTrial DEF CountExcessOut, TakeAt
<1>2. take'[c] = (IF t.n = 0 THEN Skipped(c) ELSE u) /\ OthersKeep(c)
  BY <1>1, TakesTo DEF CountExcessOut
<1>3. /\ DOMAIN u = Fields /\ u.pc = "claim" /\ u.p = t.p /\ u.rest = t.rest /\ u.got = t.got /\ u.alone = t.alone
      /\ u.max = t.max /\ u.want = t.n /\ u.n = t.n
  BY <1>1 DEF Fields
<1>. HIDE DEF u
<1>4. t.want \in 1..Most /\ t.want \in 1..(t.max - Len(t.got)) /\ t.n \in 0..(t.want - 1) /\ t.max \in Nat /\ Len(t.got) \in Nat
  <2>1. t.want \in 1..(t.max - Len(t.got)) /\ t.n \in 0..(t.want - 1)
    BY <1>1 DEF TakeOK, Asking
  <2>2. t.max \in 0..Most /\ t.max \in Nat /\ Len(t.got) \in Nat /\ Most \in Nat
    BY <1>1, Bounded, Plain
  <2>. QED
    BY <2>1, <2>2
<1>5. ASSUME t.n # 0 PROVE TakeOK(u)
  <2>1. /\ t.got \in Seq(Range(t.got)) /\ t.max \in 0..Most /\ t.alone \in BOOLEAN /\ t.p \in Producer
        /\ t.rest \in Seq(Producer) /\ \A i, j \in DOMAIN t.rest : t.rest[i] = t.rest[j] => i = j
        /\ \A i \in DOMAIN t.rest : t.rest[i] # t.p
    BY <1>1 DEF TakeOK, Trial, Counting, Asking
  <2>2. u.want \in 1..(u.max - Len(u.got)) /\ u.n = u.want
    <3>1. t.n \in 1..(t.max - Len(t.got))
      BY <1>4, <1>5
    <3>. QED
      BY <1>3, <3>1
  <2>. QED
    BY <1>3, <2>1, <2>2 DEF TakeOK, Trial, Counting, Asking, Finding, Emptying
<1>6. OnTo(t, t.rest, Skipped(c))
  BY <1>4, SkipIsOn
<1>. QED
  BY <1>1, <1>2, <1>3, <1>4, <1>5, <1>6 DEF Stays

LEMMA ClaimEffect == ASSUME QueueAssumption, TypeInv, NEW c \in Consumer, Claim(c) PROVE
    LET t == take[c] u == take'[c] IN
    /\ OthersKeep(c) /\ t.pc = "claim" /\ t.want \in Nat \ {0} /\ t.n = t.want
    /\ u.pc = "index" /\ Stays(t, u) /\ u.n = t.n
<1>. DEFINE t == take[c] u == [t EXCEPT !.pc = "index", !.want = 0, !.index = headIndex[t.p]]
<1>1. TakeOK(t) /\ DOMAIN t = Fields /\ DOMAIN take = Consumer /\ t.pc = "claim"
  BY AtTrial DEF Claim, TakeAt
<1>2. take'[c] = u /\ OthersKeep(c)
  BY <1>1, TakesTo DEF Claim
<1>3. /\ DOMAIN u = Fields /\ u.pc = "index" /\ u.p = t.p /\ u.rest = t.rest /\ u.got = t.got /\ u.alone = t.alone
      /\ u.max = t.max /\ u.n = t.n /\ u.index = headIndex[t.p]
  BY <1>1 DEF Fields
<1>. HIDE DEF u
<1>4. t.want \in 1..(t.max - Len(t.got)) /\ t.n = t.want /\ headIndex[t.p] \in Counter /\ t.max \in Nat /\ Len(t.got) \in Nat
  BY <1>1, AtTrial, CounterTypes, Constants DEF Trial, Counting, Asking, TakeOK
<1>5. TakeOK(u)
  BY <1>1, <1>3, <1>4 DEF TakeOK, Trial, Counting, Asking, Finding, Emptying
<1>. QED
  BY <1>1, <1>2, <1>3, <1>4, <1>5 DEF Stays

\* What may come of a step of consumer c that is not at the counters.
Away(c) == LET t == take[c] u == take'[c] IN
    /\ OthersKeep(c) /\ TakeOK(u) /\ (u.alone => t.alone)
    /\ t.pc \notin Counting \cup {"idle", "load"} /\ u.pc \notin Counting
    /\ \A p : May(u, p) => May(t, p)

\* It has something, or is about to.
Goes(c) == Away(c) /\ (take'[c].alone => take'[c].got # <<>> \/ take'[c].pc \in Finding)

LEMMA ReturnEffect == ASSUME QueueAssumption, TypeInv, NEW c \in Consumer, Return(c) PROVE Goes(c)
<1>1. take[c].pc = "return" /\ take'[c] = TakeIdle /\ OthersKeep(c)
  BY AtTrial, TakesTo DEF Return, TakeAt
<1>2. /\ TakeIdle.pc = "idle" /\ TakeIdle.rest = <<>> /\ TakeIdle.got = <<>> /\ TakeIdle.max = 0 /\ TakeIdle.alone = FALSE
  BY DEF TakeIdle
<1>3. TakeOK(TakeIdle)
  <2>1. TakeIdle.got \in Seq(Range(TakeIdle.got)) /\ TakeIdle.rest \in Seq(Producer) /\ DOMAIN TakeIdle.rest = {}
    BY <1>2, NoItems
  <2>2. 0 \in 0..Most
    BY Constants
  <2>. QED
    BY <1>2, <2>1, <2>2, Fits DEF TakeOK, Trial, Counting, Asking, Finding, Emptying
<1>4. \A p : ~May(TakeIdle, p)
  BY <1>2, NoItems DEF May
<1>. QED
  BY <1>1, <1>2, <1>3, <1>4 DEF Goes, Away, Counting, Asking

LEMMA FindEffect ==
    ASSUME QueueAssumption, TypeInv, NEW c \in Consumer, FindIndex(c) \/ FindTail(c) \/ FindSlot(c)
    PROVE  Goes(c)
<1>. DEFINE t == take[c]
<1>0. TakeOK(t) /\ DOMAIN t = Fields /\ DOMAIN take = Consumer
  BY AtTrial
<1>1. ASSUME NEW u, u.pc \in Finding, t.pc \in {"index", "tail", "base"}, Takes(c, u), DOMAIN u = Fields,
             u.p = t.p, u.rest = t.rest, u.got = t.got, u.alone = t.alone, u.max = t.max, u.n = t.n, u.index = t.index
      PROVE  Goes(c)
  <2>1. take'[c] = u /\ OthersKeep(c)
    BY <1>0, <1>1, TakesTo
  <2>2. TakeOK(u)
    BY <1>0, <1>1 DEF TakeOK, Trial, Counting, Asking, Finding, Emptying
  <2>3. \A p : May(u, p) => May(t, p)
    BY <1>1 DEF May, Finding
  <2>. QED
    BY <1>1, <2>1, <2>2, <2>3 DEF Goes, Away, Counting, Asking, Finding
<1>2. CASE FindIndex(c)
  <2>. DEFINE u == [t EXCEPT !.pc = "tail", !.header = Current(t.p)]
  <2>1. /\ u.pc = "tail" /\ DOMAIN u = Fields /\ u.p = t.p /\ u.rest = t.rest /\ u.got = t.got /\ u.alone = t.alone
        /\ u.max = t.max /\ u.n = t.n /\ u.index = t.index
    BY <1>0 DEF Fields
  <2>2. Takes(c, u) /\ t.pc = "index"
    BY <1>2 DEF FindIndex, TakeAt
  <2>. HIDE DEF u
  <2>. QED
    BY <1>1, <2>1, <2>2 DEF Finding
<1>3. CASE FindTail(c)
  <2>. DEFINE u == [t EXCEPT !.pc = "base", !.slot = headers[t.p][t.header].tail]
  <2>1. /\ u.pc = "base" /\ DOMAIN u = Fields /\ u.p = t.p /\ u.rest = t.rest /\ u.got = t.got /\ u.alone = t.alone
        /\ u.max = t.max /\ u.n = t.n /\ u.index = t.index
    BY <1>0 DEF Fields
  <2>2. Takes(c, u) /\ t.pc = "tail"
    BY <1>3 DEF FindTail, TakeAt
  <2>. HIDE DEF u
  <2>. QED
    BY <1>1, <2>1, <2>2 DEF Finding
<1>4. CASE FindSlot(c)
  <2>. DEFINE u == [t EXCEPT !.pc = "move", !.slot = SlotFor(t.p, t.index, t.header, t.slot)]
  <2>1. /\ u.pc = "move" /\ DOMAIN u = Fields /\ u.p = t.p /\ u.rest = t.rest /\ u.got = t.got /\ u.alone = t.alone
        /\ u.max = t.max /\ u.n = t.n /\ u.index = t.index
    BY <1>0 DEF Fields
  <2>2. Takes(c, u) /\ t.pc = "base"
    BY <1>4 DEF FindSlot, TakeAt
  <2>. HIDE DEF u
  <2>. QED
    BY <1>1, <2>1, <2>2 DEF Finding
<1>. QED
  BY <1>2, <1>3, <1>4

LEMMA MoveEffect == ASSUME QueueAssumption, TypeInv, NEW c \in Consumer, Move(c) PROVE
    Goes(c)
<1>. DEFINE t == take[c]
            b == entries[t.p][FoundEntry(t)].value
            n == Min({t.n, BlockSize - (t.index % BlockSize)})
            more == [k \in 1..n |-> cells[b][(t.index + k - 1) % BlockSize]]
            u == [t EXCEPT !.pc = "empty", !.block = b, !.moved = n, !.got = @ \o more]
<1>1. TakeOK(t) /\ DOMAIN t = Fields /\ DOMAIN take = Consumer /\ t.pc = "move"
  BY AtTrial DEF Move, TakeAt
<1>2. take'[c] = u /\ OthersKeep(c)
  BY <1>1, TakesTo DEF Move
<1>3. t.n \in 1..(t.max - Len(t.got)) /\ t.index \in Counter /\ t.max \in Nat /\ Len(t.got) \in Nat /\ t.got \in Seq(Range(t.got))
  BY <1>1, AtTrial, Constants DEF TakeOK, Finding
<1>4. n \in 1..t.n
  <2>. DEFINE room == BlockSize - (t.index % BlockSize)
  <2>0. t.index \in Int /\ BlockSize \in Nat \ {0}
    BY <1>3, Constants DEF Counter
  <2>1. t.index % BlockSize \in 0..(BlockSize - 1)
    BY <2>0, DivOf
  <2>2. room \in Nat \ {0}
    BY <2>0, <2>1
  <2>. HIDE DEF room
  <2>3. Min({t.n, room}) \in 1..t.n
    BY <1>3, <2>2, MinOf
  <2>. QED
    BY <2>3 DEF room
<1>. HIDE DEF n
<1>5. more \in Seq(Range(more)) /\ Len(more) = n
  <2>1. \A k \in 1..n : more[k] \in Range(more)
    BY DEF Range
  <2>2. n \in Nat
    BY <1>3, <1>4
  <2>3. more \in [1..n -> Range(more)]
    BY <2>1
  <2>. HIDE DEF more
  <2>. QED
    BY <2>2, <2>3, SeqDef, LenProperties
<1>. HIDE DEF more
<1>6. /\ DOMAIN u = Fields /\ u.pc = "empty" /\ u.p = t.p /\ u.rest = t.rest /\ u.got = t.got \o more /\ u.alone = t.alone
      /\ u.max = t.max /\ u.n = t.n /\ u.index = t.index /\ u.moved = n
  BY <1>1 DEF Fields
<1>. HIDE DEF u
<1>7. u.got \in Seq(Range(u.got)) /\ Len(u.got) = Len(t.got) + n
  <2>. DEFINE S == Range(t.got) \cup Range(more)
  <2>1. t.got \in Seq(S) /\ more \in Seq(S)
    BY <1>3, <1>5
  <2>. HIDE DEF S
  <2>. DEFINE both == t.got \o more
  <2>2. both \in Seq(S) /\ Len(both) = Len(t.got) + Len(more)
    BY <2>1, ConcatProperties, Zenon
  <2>3. u.got = both
    BY <1>6
  <2>. HIDE DEF both
  <2>4. u.got \in Seq(S) /\ Len(u.got) = Len(t.got) + n
    BY <1>5, <2>2, <2>3
  <2>5. u.got \in [1..Len(u.got) -> Range(u.got)] /\ Len(u.got) \in Nat
    BY <2>4 DEF Range
  <2>. QED
    BY <2>4, <2>5, SeqDef
<1>8. TakeOK(u)
  <2>1. /\ t.max \in 0..Most /\ t.alone \in BOOLEAN /\ t.p \in Producer
        /\ t.rest \in Seq(Producer) /\ \A i, j \in DOMAIN t.rest : t.rest[i] = t.rest[j] => i = j
        /\ \A i \in DOMAIN t.rest : t.rest[i] # t.p
    BY <1>1 DEF TakeOK, Trial, Finding
  <2>2. u.n \in Nat /\ u.moved \in 1..u.n /\ u.n - u.moved <= u.max - Len(u.got) /\ Len(u.got) > 0
    <3>. DEFINE all == t.n max == t.max had == Len(t.got) has == Len(u.got)
    <3>1. n \in 1..all /\ all \in 1..(max - had) /\ max \in Nat /\ had \in Nat /\ has = had + n
      BY <1>3, <1>4, <1>7
    <3>2. u.n = all /\ u.moved = n /\ u.max = max
      BY <1>6
    <3>. HIDE DEF all, max, had, has
    <3>3. all \in Nat /\ n \in 1..all /\ all - n <= max - has /\ has > 0
      BY <3>1
    <3>. QED
      BY <3>2, <3>3 DEF has
  <2>. QED
    BY <1>3, <1>6, <1>7, <2>1, <2>2 DEF TakeOK, Trial, Counting, Asking, Finding, Emptying
<1>9. \A p : May(u, p) => May(t, p)
  BY <1>6 DEF May
<1>10. u.got # <<>>
  BY <1>3, <1>4, <1>7
<1>. QED
  BY <1>1, <1>2, <1>6, <1>8, <1>9, <1>10 DEF Goes, Away, Counting, Asking

LEMMA OnwardIsOn ==
    ASSUME QueueAssumption, NEW t, TakeOK(t), t.pc \in Emptying
    PROVE  LET u == Onward(t) IN
        /\ TakeOK(u) /\ u.got = t.got /\ u.got # <<>> /\ u.alone = t.alone /\ u.pc \notin Counting
        /\ \A p : May(u, p) => May(t, p)
<1>. DEFINE left == t.n - t.moved
<1>0. t.got \in Seq(Range(t.got)) /\ Len(t.got) \in Nat /\ t.max \in 0..Most /\ t.max \in Nat
  BY Constants DEF TakeOK
<1>1. /\ DOMAIN t = Fields /\ t.p \in Producer /\ t.n \in Nat /\ t.moved \in 1..t.n /\ left \in Nat
      /\ left <= t.max - Len(t.got) /\ t.index \in Counter /\ Len(t.got) > 0 /\ Len(t.got) \in Nat
      /\ t.max \in 0..Most /\ t.max \in Nat
  BY <1>0 DEF TakeOK, Trial, Emptying
<1>2. t.got # <<>>
  BY <1>1, NoItems
<1>3. CASE left > 0
  <2>. DEFINE u == [t EXCEPT !.pc = "move", !.slot = (@ + 1) % Capacity(t.p, t.header), !.n = left,
                   !.index = Plus(@, t.moved), !.block = 0, !.moved = 0]
  <2>1. Onward(t) = u
    BY <1>3 DEF Onward
  <2>2. /\ DOMAIN u = Fields /\ u.pc = "move" /\ u.p = t.p /\ u.rest = t.rest /\ u.got = t.got /\ u.alone = t.alone
        /\ u.max = t.max /\ u.n = left /\ u.index = Plus(t.index, t.moved)
    <3>1. DOMAIN t = Fields
      BY <1>1
    <3>. HIDE DEF left
    <3>. QED
      BY <3>1 DEF Fields
  <2>. HIDE DEF u
  <2>3. u.index \in Counter
    <3>1. t.index \in Int /\ t.moved \in Int
      <4>1. t.index \in Nat
        BY <1>1, Plain
      <4>. QED
        BY <1>1, <4>1
    <3>. QED
      BY <2>2, <3>1, Whole
  <2>4. u.n \in 1..(u.max - Len(u.got))
    BY <1>1, <1>3, <2>2
  <2>5. TakeOK(u)
    BY <2>2, <2>3, <2>4 DEF TakeOK, Trial, Counting, Asking, Finding, Emptying
  <2>6. \A p : May(u, p) => May(t, p)
    BY <2>2 DEF May
  <2>7. u.pc \notin Counting
    BY <2>2 DEF Counting, Asking
  <2>. QED
    BY <1>2, <2>1, <2>2, <2>5, <2>6, <2>7
<1>4. CASE left = 0
  <2>. DEFINE rest == IF Len(t.got) = t.max THEN <<>> ELSE t.rest u == Trying(t, rest)
  <2>1. Onward(t) = u
    BY <1>4 DEF Onward
  <2>2. rest \in Seq(Producer) /\ (rest # <<>> => Len(t.got) < t.max /\ rest = t.rest)
    BY <1>1, <1>4, NoItems DEF TakeOK
  <2>. HIDE DEF rest
  <2>3. \A i, j \in DOMAIN rest : rest[i] = rest[j] => i = j
    <3>1. CASE rest = <<>>
      BY <3>1, NoItems
    <3>2. CASE rest # <<>>
      BY <2>2, <3>2 DEF TakeOK
    <3>. QED
      BY <3>1, <3>2
  <2>4. OnTo(t, rest, u)
    BY <1>1, <2>2, <2>3, TryingIsOn DEF TakeOK
  <2>. HIDE DEF u
  <2>5. \A p : May(u, p) => May(t, p)
    BY <2>2, <2>4, NoItems DEF OnTo, May
  <2>6. u.pc \notin Counting
    BY <2>4 DEF OnTo, Counting, Asking
  <2>. QED
    BY <1>2, <2>1, <2>4, <2>5, <2>6 DEF OnTo
<1>. QED
  BY <1>1, <1>3, <1>4

LEMMA EmptyEffect ==
    ASSUME QueueAssumption, TypeInv, NEW c \in Consumer, SetEmpty(c) \/ Unlink(c) \/ Free(c)
    PROVE  Goes(c)
<1>. DEFINE t == take[c]
<1>1. TakeOK(t) /\ DOMAIN t = Fields /\ DOMAIN take = Consumer /\ t.pc \in Emptying /\ Len(t.got) > 0
  BY AtTrial DEF SetEmpty, Unlink, Free, TakeAt, Emptying, TakeOK
<1>2. t.got # <<>>
  BY <1>1, NoItems
<1>3. ASSUME NEW u, u.pc \in Emptying, DOMAIN u = Fields, u.p = t.p, u.rest = t.rest, u.got = t.got, u.alone = t.alone,
             u.max = t.max, u.n = t.n, u.index = t.index, u.moved = t.moved, Takes(c, u)
      PROVE  Goes(c)
  <2>1. take'[c] = u /\ OthersKeep(c)
    BY <1>1, <1>3, TakesTo
  <2>2. TakeOK(u)
    BY <1>1, <1>3 DEF TakeOK, Trial, Counting, Asking, Finding, Emptying
  <2>3. \A p : May(u, p) => May(t, p)
    BY <1>3 DEF May, Emptying
  <2>. QED
    BY <1>1, <1>2, <1>3, <2>1, <2>2, <2>3 DEF Goes, Away, Counting, Asking, Emptying
<1>4. ASSUME Takes(c, Onward(t)) PROVE Goes(c)
  <2>1. take'[c] = Onward(t) /\ OthersKeep(c)
    BY <1>1, <1>4, TakesTo
  <2>. QED
    BY <1>1, <2>1, OnwardIsOn DEF Goes, Away, Counting, Asking, Emptying
<1>. DEFINE u1 == [t EXCEPT !.pc = "unlink"] u2 == [t EXCEPT !.pc = "free"]
<1>5. /\ DOMAIN u1 = Fields /\ u1.p = t.p /\ u1.rest = t.rest /\ u1.got = t.got /\ u1.alone = t.alone
      /\ u1.max = t.max /\ u1.n = t.n /\ u1.index = t.index /\ u1.moved = t.moved /\ u1.pc = "unlink"
  BY <1>1 DEF Fields
<1>6. /\ DOMAIN u2 = Fields /\ u2.p = t.p /\ u2.rest = t.rest /\ u2.got = t.got /\ u2.alone = t.alone
      /\ u2.max = t.max /\ u2.n = t.n /\ u2.index = t.index /\ u2.moved = t.moved /\ u2.pc = "free"
  BY <1>1 DEF Fields
<1>7. Takes(c, u1) \/ Takes(c, u2) \/ Takes(c, Onward(t))
  BY DEF SetEmpty, Unlink, Free
<1>. HIDE DEF u1, u2
<1>. QED
  BY <1>3, <1>4, <1>5, <1>6, <1>7 DEF Emptying

LEMMA BestFirst == ASSUME QueueAssumption, NEW b \in Producer PROVE
    LET l == <<b>> \o RemoveAt(List, PlaceOf(b)) IN
    /\ l \in Seq(Producer) /\ l # <<>> /\ l[1] = b
    /\ \A i, j \in DOMAIN l : l[i] = l[j] => i = j
<1>. DEFINE k == PlaceOf(b) low == SubSeq(List, 1, k - 1) high == SubSeq(List, k + 1, Len(List)) l == <<b>> \o (low \o high)
<1>1. List \in Seq(Producer) /\ DOMAIN List = 1..Len(List) /\ Len(List) \in Nat /\ Range(List) = Producer
      /\ \A i, j \in DOMAIN List : List[i] = List[j] => i = j
  BY DEF QueueAssumption
<1>2. k \in 1..Len(List) /\ List[k] = b
  <2>1. \E i \in DOMAIN List : List[i] = b
    BY <1>1 DEF Range
  <2>. QED
    BY <1>1, <2>1 DEF PlaceOf
<1>. HIDE DEF k
<1>3. /\ low \in Seq(Producer) /\ Len(low) = k - 1 /\ \A i \in 1..(k - 1) : low[i] = List[i]
      /\ high \in Seq(Producer) /\ Len(high) = Len(List) - k /\ \A i \in 1..(Len(List) - k) : high[i] = List[k + i]
  <2>1. \A i \in 1..(k - 1) : List[i] \in Producer
    BY <1>1, <1>2
  <2>2. \A i \in (k + 1)..Len(List) : List[i] \in Producer
    BY <1>1, <1>2
  <2>3. /\ low \in Seq(Producer) /\ Len(low) = (IF 1 <= k - 1 THEN (k - 1) - 1 + 1 ELSE 0)
        /\ \A i \in 1..((k - 1) - 1 + 1) : low[i] = List[1 + i - 1]
    BY <1>2, <2>1, SubSeqProperties
  <2>4. /\ high \in Seq(Producer) /\ Len(high) = (IF k + 1 <= Len(List) THEN Len(List) - (k + 1) + 1 ELSE 0)
        /\ \A i \in 1..(Len(List) - (k + 1) + 1) : high[i] = List[(k + 1) + i - 1]
    BY <1>1, <1>2, <2>2, SubSeqProperties
  <2>. HIDE DEF low, high
  <2>5. Len(low) = k - 1 /\ Len(high) = Len(List) - k
    <3>1. k \in Int /\ 1 <= k /\ k <= Len(List) /\ Len(List) \in Nat
      BY <1>1, <1>2
    <3>2. Len(low) = (IF 1 <= k - 1 THEN (k - 1) - 1 + 1 ELSE 0)
      BY <2>3
    <3>3. Len(high) = (IF k + 1 <= Len(List) THEN Len(List) - (k + 1) + 1 ELSE 0)
      BY <2>4
    <3>. QED
      BY <3>1, <3>2, <3>3
  <2>6. ASSUME NEW i \in 1..(k - 1) PROVE low[i] = List[i]
    <3>1. i \in 1..((k - 1) - 1 + 1) /\ 1 + i - 1 = i
      BY <1>2
    <3>. QED
      BY <2>3, <3>1
  <2>7. ASSUME NEW i \in 1..(Len(List) - k) PROVE high[i] = List[k + i]
    <3>1. i \in 1..(Len(List) - (k + 1) + 1) /\ (k + 1) + i - 1 = k + i
      BY <1>1, <1>2
    <3>. QED
      BY <2>4, <3>1
  <2>. QED
    BY <2>3, <2>4, <2>5, <2>6, <2>7
<1>. HIDE DEF low, high
<1>4. /\ l \in Seq(Producer) /\ Len(l) = Len(List) /\ DOMAIN l = 1..Len(List) /\ l[1] = b
      /\ \A i \in 2..Len(List) : l[i] = IF i <= k THEN List[i - 1] ELSE List[i]
  <2>. DEFINE both == low \o high
  <2>1. /\ both \in Seq(Producer) /\ Len(both) = Len(List) - 1
        /\ \A i \in 1..(Len(List) - 1) : both[i] = IF i <= k - 1 THEN List[i] ELSE List[i + 1]
    <3>1. /\ both \in Seq(Producer) /\ Len(both) = Len(low) + Len(high)
          /\ \A i \in 1..(Len(low) + Len(high)) : both[i] = IF i <= Len(low) THEN low[i] ELSE high[i - Len(low)]
      BY <1>3, ConcatProperties
    <3>. HIDE DEF both
    <3>2. Len(low) + Len(high) = Len(List) - 1
      BY <1>1, <1>2, <1>3
    <3>3. ASSUME NEW i \in 1..(Len(List) - 1) PROVE both[i] = IF i <= k - 1 THEN List[i] ELSE List[i + 1]
      <4>1. both[i] = IF i <= Len(low) THEN low[i] ELSE high[i - Len(low)]
        BY <3>1, <3>2
      <4>2. CASE i <= k - 1
        BY <1>3, <4>1, <4>2
      <4>3. CASE ~ i <= k - 1
        <5>1. i - (k - 1) \in 1..(Len(List) - k) /\ k + (i - (k - 1)) = i + 1
          BY <1>1, <1>2, <4>3
        <5>. QED
          BY <1>3, <4>1, <4>3, <5>1
      <4>. QED
        BY <4>2, <4>3
    <3>. QED
      BY <3>1, <3>2, <3>3
  <2>. DEFINE first == <<b>>
  <2>2. first \in Seq(Producer) /\ Len(first) = 1 /\ first[1] = b
    OBVIOUS
  <2>3. l = first \o both
    OBVIOUS
  <2>. HIDE DEF both, first, l
  <2>4. /\ l \in Seq(Producer) /\ Len(l) = 1 + Len(both)
        /\ \A i \in 1..(1 + Len(both)) : l[i] = IF i <= 1 THEN first[i] ELSE both[i - 1]
    <3>1. /\ first \o both \in Seq(Producer) /\ Len(first \o both) = Len(first) + Len(both)
          /\ \A i \in 1..(Len(first) + Len(both)) :
                (first \o both)[i] = IF i <= Len(first) THEN first[i] ELSE both[i - Len(first)]
      <4>1. first \in Seq(Producer) /\ both \in Seq(Producer)
        BY <2>1, <2>2
      <4>. QED
        BY <4>1, ConcatProperties, Zenon
    <3>2. l \in Seq(Producer) /\ Len(l) = 1 + Len(both)
      BY <2>2, <2>3, <3>1
    <3>. QED
      BY <2>2, <2>3, <3>1, <3>2
  <2>5. Len(l) = Len(List) /\ DOMAIN l = 1..Len(List)
    BY <1>1, <2>1, <2>4
  <2>6. l[1] = b
    BY <1>1, <1>2, <2>1, <2>2, <2>4
  <2>7. ASSUME NEW i \in 2..Len(List) PROVE l[i] = IF i <= k THEN List[i - 1] ELSE List[i]
    <3>1. l[i] = both[i - 1] /\ i - 1 \in 1..(Len(List) - 1)
      BY <1>1, <2>1, <2>4
    <3>. QED
      BY <1>1, <1>2, <2>1, <3>1
  <2>. QED
    BY <2>4, <2>5, <2>6, <2>7
<1>5. l = <<b>> \o RemoveAt(List, PlaceOf(b))
  BY DEF RemoveAt, low, high, k
<1>. HIDE DEF l
<1>6. ASSUME NEW i \in DOMAIN l, NEW j \in DOMAIN l, l[i] = l[j] PROVE i = j
  <2>. DEFINE At(m) == IF m = 1 THEN k ELSE IF m <= k THEN m - 1 ELSE m
  <2>1. \A m \in DOMAIN l : At(m) \in DOMAIN List /\ l[m] = List[At(m)]
    BY <1>1, <1>2, <1>4
  <2>2. At(i) = At(j)
    BY <1>1, <1>6, <2>1
  <2>. QED
    BY <1>2, <1>4, <2>2
<1>7. l # <<>>
  BY <1>1, <1>2, <1>4
<1>. QED
  BY <1>4, <1>5, <1>6, <1>7

\* What a consumer that looks at the sizes sees.
Most3(t) == LET p == Head(t.rest) size == size_approx(p) IN
    [t EXCEPT !.rest = Tail(@), !.found = IF size > 0 THEN @ + 1 ELSE @,
              !.best = IF size > t.size THEN p ELSE @, !.size = Max({size, t.size})]

LEMMA SeenSize ==
    ASSUME QueueAssumption, TypeInv, NEW t, TakeOK(t), t.pc = "size"
    PROVE  LET p == Head(t.rest) size == size_approx(p) v == Most3(t) IN
        /\ DOMAIN v = Fields /\ v.pc = "size" /\ v.rest = Tail(t.rest) /\ v.got = <<>> /\ v.max = t.max
        /\ v.alone = t.alone /\ p \in Producer /\ p = t.rest[1] /\ size \in Nat /\ v.found \in 0..3 /\ v.size \in Nat
        /\ v.found = (IF size > 0 THEN t.found + 1 ELSE t.found)
        /\ v.best = (IF size > t.size THEN p ELSE t.best)
        /\ IF v.found = 0 THEN v.size = 0 /\ size = 0 /\ t.found = 0
           ELSE v.best \in Producer /\ ((v.best = p /\ size > 0) \/ (v.best = t.best /\ t.found > 0))
<1>. DEFINE p == Head(t.rest) size == size_approx(p) v == Most3(t)
<1>1. /\ DOMAIN t = Fields /\ t.rest \in Seq(Producer) /\ t.rest # <<>> /\ t.got = <<>> /\ t.size \in Nat /\ t.found \in 0..2
      /\ IF t.found = 0 THEN t.size = 0 ELSE t.best \in Producer
  BY DEF TakeOK
<1>2. p \in Producer /\ p = t.rest[1]
  BY <1>1
<1>3. size \in Nat
  <2>1. Minus(tailIndex[p], headIndex[p]) \in Nat
    <3>1. tailIndex[p] \in Int /\ headIndex[p] \in Int
      BY <1>2, CounterTypes
    <3>2. Minus(tailIndex[p], headIndex[p]) \in Counter
      BY <3>1, Whole
    <3>. QED
      BY <3>2, Constants DEF Counter
  <2>. QED
    BY <2>1 DEF size_approx
<1>. HIDE DEF size, p
<1>4. Max({size, t.size}) = IF size >= t.size THEN size ELSE t.size
  <2>1. size \in Int /\ t.size \in Int
    BY <1>1, <1>3
  <2>. QED
    BY <2>1, MinOf, Zenon
<1>5. /\ DOMAIN v = Fields /\ v.pc = "size" /\ v.rest = Tail(t.rest) /\ v.got = <<>> /\ v.max = t.max
      /\ v.alone = t.alone /\ v.found = (IF size > 0 THEN t.found + 1 ELSE t.found)
      /\ v.best = (IF size > t.size THEN p ELSE t.best) /\ v.size = Max({size, t.size})
  BY <1>1 DEF Fields, Most3, size, p
<1>. HIDE DEF v
<1>6. v.found \in 0..3 /\ v.size \in Nat
  BY <1>1, <1>3, <1>4, <1>5
<1>7. IF v.found = 0 THEN v.size = 0 /\ size = 0 /\ t.found = 0
      ELSE v.best \in Producer /\ ((v.best = p /\ size > 0) \/ (v.best = t.best /\ t.found > 0))
  BY <1>1, <1>2, <1>3, <1>4, <1>5
<1>. QED
  BY <1>2, <1>3, <1>5, <1>6, <1>7 DEF size, p, v

LEMMA SizeEffect == ASSUME QueueAssumption, TypeInv, NEW c \in Consumer, Size(c) PROVE
    LET t == take[c] u == take'[c] v == Most3(t) IN
    /\ Away(c) /\ t.pc = "size" /\ TakeOK(t) /\ u.got = <<>>
    /\ \/ u = v /\ u.pc = "size"
       \/ v.found > 0 /\ u.pc = "load" /\ u.p = v.best
       \/ v.found = 0 /\ Tail(t.rest) = <<>> /\ u.pc = "return"
<1>. DEFINE t == take[c] v == Most3(t) others == RemoveAt(List, PlaceOf(v.best))
<1>1. TakeOK(t) /\ DOMAIN take = Consumer /\ t.pc = "size" /\ t.got = <<>> /\ t.max \in 0..Most /\ t.max > 0
      /\ t.alone \in BOOLEAN /\ t.rest \in Seq(Producer) /\ t.rest # <<>>
      /\ \A i, j \in DOMAIN t.rest : t.rest[i] = t.rest[j] => i = j
  BY AtTrial DEF Size, TakeAt, TakeOK
<1>2. /\ DOMAIN v = Fields /\ v.pc = "size" /\ v.rest = Tail(t.rest) /\ v.got = <<>> /\ v.max = t.max
      /\ v.alone = t.alone /\ v.found \in 0..3 /\ v.size \in Nat
      /\ IF v.found = 0 THEN v.size = 0 ELSE v.best \in Producer
  BY <1>1, SeenSize
<1>3. Size(c) => Takes(c, CASE v.found < 3 /\ v.rest # <<>> -> v
                             [] (v.found = 3 \/ v.rest = <<>>) /\ v.found > 0 -> Trying(t, <<v.best>> \o others)
                             [] OTHER -> Trying(t, <<>>))
  BY DEF Size, Most3
<1>. HIDE DEF v
<1>4. \A p : May(t, p)
  BY <1>1 DEF May
<1>5. CASE v.found < 3 /\ v.rest # <<>>
  <2>1. take'[c] = v /\ OthersKeep(c)
    BY <1>1, <1>3, <1>5, TakesTo
  <2>2. \A i, j \in DOMAIN v.rest : v.rest[i] = v.rest[j] => i = j
    <3>1. /\ DOMAIN t.rest = 1..Len(t.rest) /\ Len(t.rest) \in Nat /\ DOMAIN v.rest = 1..(Len(t.rest) - 1)
          /\ \A i \in 1..(Len(t.rest) - 1) : v.rest[i] = t.rest[i + 1]
      BY <1>1, <1>2
    <3>. SUFFICES ASSUME NEW i \in 1..(Len(t.rest) - 1), NEW j \in 1..(Len(t.rest) - 1), t.rest[i + 1] = t.rest[j + 1]
                  PROVE  i = j
      BY <3>1
    <3>2. i + 1 \in DOMAIN t.rest /\ j + 1 \in DOMAIN t.rest
      BY <3>1
    <3>3. i + 1 = j + 1
      BY <1>1, <3>2
    <3>. QED
      BY <3>3
  <2>3. v.rest \in Seq(Producer) /\ v.got \in Seq(Range(v.got)) /\ v.found \in 0..2
    BY <1>1, <1>2, <1>5, NoItems
  <2>4. TakeOK(v)
    BY <1>1, <1>2, <1>5, <2>2, <2>3 DEF TakeOK, Trial, Counting, Asking, Finding, Emptying
  <2>. QED
    BY <1>1, <1>2, <1>4, <2>1, <2>4 DEF Away, Counting, Asking, v
<1>6. CASE (v.found = 3 \/ v.rest = <<>>) /\ v.found > 0
  <2>. DEFINE l == <<v.best>> \o others u == Trying(t, l)
  <2>1. take'[c] = u /\ OthersKeep(c)
    <3>1. ~(v.found < 3 /\ v.rest # <<>>)
      BY <1>6
    <3>. QED
      BY <1>1, <1>3, <1>6, <3>1, TakesTo
  <2>2. l \in Seq(Producer) /\ l # <<>> /\ l[1] = v.best /\ \A i, j \in DOMAIN l : l[i] = l[j] => i = j
    BY <1>2, <1>6, BestFirst
  <2>. HIDE DEF l
  <2>3. OnTo(t, l, u)
    <3>1. t.got \in Seq(Range(t.got)) /\ t.max \in 0..Most /\ t.alone \in BOOLEAN /\ Len(t.got) < t.max
      BY <1>1, NoItems
    <3>. QED
      BY <2>2, <3>1, TryingIsOn
  <2>. HIDE DEF u
  <2>. QED
    BY <1>1, <1>4, <1>6, <2>1, <2>2, <2>3 DEF OnTo, Away, Counting, Asking, v
<1>7. CASE v.found = 0 /\ v.rest = <<>>
  <2>. DEFINE u == Trying(t, <<>>)
  <2>1. take'[c] = u /\ OthersKeep(c)
    BY <1>1, <1>3, <1>7, TakesTo
  <2>2. t.got \in Seq(Range(t.got))
    BY <1>1 DEF TakeOK
  <2>3. OnTo(t, <<>>, u)
    BY <1>1, <2>2, NoItems, TryingIsOn
  <2>. HIDE DEF u
  <2>. QED
    BY <1>1, <1>2, <1>4, <1>7, <2>1, <2>3 DEF OnTo, Away, Counting, Asking, v
<1>. QED
  BY <1>2, <1>5, <1>6, <1>7

\* The call begins, and nobody else is alone any longer.
LEMMA DequeueEffect ==
    ASSUME QueueAssumption, TypeInv, NEW c \in Consumer, NEW bulk \in BOOLEAN, NEW n \in TakeSizes \cup {1}, Dequeue(c, bulk, n)
    PROVE  LET u == take'[c] IN
        /\ DOMAIN take' = Consumer /\ take[c].pc = "idle" /\ takes' = takes + 1 /\ takes' \in 0..MaxTakes
        /\ \A d \in Consumer \ {c} : take'[d] = [take[d] EXCEPT !.alone = FALSE]
        /\ TakeOK(u) /\ u.pc \in {"size", "load"} /\ u.got = <<>>
        /\ u.pc = "size" => u.rest = List /\ u.found = 0
        /\ u.pc = "load" => \A p \in Producer : u.p = p \/ \E i \in DOMAIN u.rest : u.rest[i] = p
        /\ u.alone => /\ \A d \in Consumer \ {c} : TakeAt(d, "idle")
                      /\ \E p \in Producer : headIndex[p] # tailIndex[p]
<1>. DEFINE alone == /\ \A d \in Consumer \ {c} : TakeAt(d, "idle")
                     /\ \E p \in Producer : headIndex[p] # tailIndex[p]
            called == [TakeIdle EXCEPT !.bulk = bulk, !.max = n, !.alone = alone, !.rest = List, !.pc = "size"]
            u == IF bulk THEN Trying(called, List) ELSE called
<1>1. take[c].pc = "idle" /\ takes < MaxTakes /\ takes' = takes + 1 /\ DOMAIN take' = Consumer
      /\ take'[c] = u /\ \A d \in Consumer \ {c} : take'[d] = [take[d] EXCEPT !.alone = FALSE]
  BY DEF Dequeue, TakeAt
<1>2. takes' \in 0..MaxTakes
  BY <1>1, Constants DEF TypeInv
<1>3. n \in 1..Most /\ Most \in Nat
  BY Constants DEF QueueAssumption
<1>4. List \in Seq(Producer) /\ List # <<>> /\ \A i, j \in DOMAIN List : List[i] = List[j] => i = j
  BY DEF QueueAssumption
<1>5. alone \in BOOLEAN
  OBVIOUS
<1>. HIDE DEF alone
<1>6. /\ DOMAIN called = Fields /\ called.pc = "size" /\ called.rest = List /\ called.got = <<>> /\ called.max = n
      /\ called.alone = alone /\ called.size = 0 /\ called.found = 0
  BY Fits DEF TakeIdle, Fields
<1>. HIDE DEF called
<1>7. called.got \in Seq(Range(called.got)) /\ Len(called.got) < called.max
  BY <1>3, <1>6, NoItems
<1>8. CASE ~bulk
  <2>1. TakeOK(called)
    BY <1>3, <1>4, <1>5, <1>6, <1>7 DEF TakeOK, Trial, Counting, Asking, Finding, Emptying
  <2>. QED
    BY <1>1, <1>2, <1>6, <1>8, <2>1 DEF alone
<1>9. CASE bulk
  <2>1. OnTo(called, List, u)
    <3>1. called.max \in 0..Most /\ called.alone \in BOOLEAN
      BY <1>3, <1>5, <1>6
    <3>2. OnTo(called, List, Trying(called, List))
      BY <1>4, <1>7, <3>1, TryingIsOn
    <3>. QED
      BY <1>9, <3>2
  <2>. HIDE DEF u
  <2>2. \A p \in Producer : \E i \in DOMAIN List : List[i] = p
    BY DEF QueueAssumption, Range
  <2>3. TakeOK(u) /\ u.got = <<>> /\ u.alone = alone /\ u.pc = "load"
    BY <1>4, <1>6, <2>1 DEF OnTo
  <2>4. \A p \in Producer : u.p = p \/ \E i \in DOMAIN u.rest : u.rest[i] = p
    BY <2>1, <2>2 DEF OnTo
  <2>. QED
    BY <1>1, <1>2, <2>3, <2>4 DEF alone
<1>. QED
  BY <1>8, <1>9

-----------------------------------------------------------------------------
(* Types *)

\* A producer's step that does not publish.
AddsOnly(p) ==
    \/ \E a \in AddCalls : Enqueue(p, a[1], a[2])
    \/ StoreKey(p) \/ ExposeEntry(p) \/ (\E b \in Block \cup {None} : Requisition(p, b))
    \/ Throw(p) \/ Undo(p) \/ Undone(p)

LEMMA IdleFits == DOMAIN AddIdle = AddFields /\ AddIdle.pc = "idle"
BY DEF AddIdle, AddFields

LEMMA AddsTo ==
    ASSUME TypeInv, NEW p \in Producer, NEW r, Adds(p, r), DOMAIN r = AddFields,
           r.pc # "idle" => r.n \in Nat \ {0} /\ made[p] + r.n <= MaxItems,
           UNCHANGED <<Counts, made, take, takes>>
    PROVE  TypeInv'
<1>1. DOMAIN add = Producer
  BY DEF TypeInv
<1>2. DOMAIN add' = Producer /\ add'[p] = r /\ \A q \in Producer \ {p} : add'[q] = add[q]
  BY <1>1 DEF Adds
<1>3. take' = take /\ takes' = takes /\ made' = made /\ Counts' = Counts
  OBVIOUS
<1>4. \A c \in Consumer : TakeOK(take'[c])
  BY <1>3 DEF TypeInv
<1>. QED
  BY <1>2, <1>3, <1>4 DEF TypeInv, Counts

\* What a step makes of the record of what a producer is about.
LEMMA AddsKeep ==
    ASSUME QueueAssumption, TypeInv, NEW p \in Producer, AddsOnly(p)
    PROVE  TypeInv' /\ UNCHANGED <<Counts, made, take, takes>>
<1>. DEFINE a == add[p]
<1>1. UNCHANGED <<Counts, made, take, takes>>
  BY DEF AddsOnly, Enqueue, StoreKey, ExposeEntry, Requisition, Throw, Undo, Undone
<1>2. DOMAIN a = AddFields /\ (a.pc # "idle" => a.n \in Nat \ {0} /\ made[p] + a.n <= MaxItems)
  BY DEF TypeInv
<1>3. ASSUME NEW r, Adds(p, r), DOMAIN r = AddFields, r.n = a.n, a.pc # "idle" PROVE TypeInv'
  BY <1>1, <1>2, <1>3, AddsTo
<1>4. ASSUME NEW r, Adds(p, r), r = AddIdle PROVE TypeInv'
  BY <1>1, <1>4, IdleFits, AddsTo
<1>5. DOMAIN Failed(p) = AddFields /\ Failed(p).n = a.n
  BY <1>2 DEF Failed, AddFields
<1>6. ASSUME NEW e \in AddCalls, Enqueue(p, e[1], e[2]) PROVE TypeInv'
  <2>. DEFINE base == Base(Minus(tailIndex[p], 1))
              r == [AddIdle EXCEPT !.n = e[1], !.alloc = e[2], !.start = tailBlock[p], !.at = Plus(base, BlockSize),
                        !.pc = IF base = Base(Plus(tailIndex[p], e[1] - 1)) THEN "fill" ELSE "entry"]
  <2>1. DOMAIN r = AddFields /\ r.n = e[1]
    BY DEF AddIdle, AddFields
  <2>2. Adds(p, r) /\ made[p] + e[1] <= MaxItems
    BY <1>6 DEF Enqueue
  <2>3. e[1] \in Nat \ {0}
    BY DEF QueueAssumption
  <2>. HIDE DEF r
  <2>. QED
    BY <1>1, <2>1, <2>2, <2>3, AddsTo
<1>7. CASE StoreKey(p)
  <2>. DEFINE r == [a EXCEPT !.pc = "expose"]
  <2>1. a.pc = "entry" /\ (Adds(p, r) \/ add' = add \/ Adds(p, Failed(p)))
    BY <1>7 DEF StoreKey, AddAt
  <2>2. DOMAIN r = AddFields /\ r.n = a.n
    BY <1>2 DEF AddFields
  <2>3. CASE add' = add
    <3>1. take' = take /\ takes' = takes /\ made' = made /\ Counts' = Counts
      BY <1>1
    <3>2. \A c \in Consumer : TakeOK(take'[c])
      BY <3>1 DEF TypeInv
    <3>. QED
      BY <2>3, <3>1, <3>2 DEF TypeInv, Counts
  <2>. HIDE DEF r
  <2>. QED
    BY <1>1, <1>3, <1>5, <2>1, <2>2, <2>3
<1>8. CASE ExposeEntry(p)
  <2>. DEFINE r == [a EXCEPT !.pc = "block"]
  <2>1. a.pc = "expose" /\ Adds(p, r)
    BY <1>8 DEF ExposeEntry, AddAt
  <2>2. DOMAIN r = AddFields /\ r.n = a.n
    BY <1>2 DEF AddFields
  <2>. HIDE DEF r
  <2>. QED
    BY <1>1, <1>3, <2>1, <2>2
<1>9. ASSUME NEW b \in Block \cup {None}, Requisition(p, b) PROVE TypeInv'
  <2>. DEFINE then == CASE a.at = Base(Plus(tailIndex[p], a.n - 1)) -> "fill" [] OTHER -> "entry"
              r == [a EXCEPT !.fresh = Append(@, b), !.pc = then, !.at = IF then = "fill" THEN @ ELSE Plus(@, BlockSize)]
  <2>1. a.pc = "block" /\ (Adds(p, r) \/ Adds(p, Failed(p)))
    BY <1>9 DEF Requisition, AddAt
  <2>. HIDE DEF then
  <2>2. DOMAIN r = AddFields /\ r.n = a.n
    BY <1>2 DEF AddFields
  <2>. HIDE DEF r
  <2>. QED
    BY <1>3, <1>5, <2>1, <2>2
<1>10. CASE Throw(p)
  <2>1. a.pc = "fill" /\ Adds(p, Failed(p))
    BY <1>10 DEF Throw, AddAt
  <2>. QED
    BY <1>1, <1>3, <1>5, <2>1
<1>11. CASE Undo(p)
  <2>. DEFINE r == [a EXCEPT !.undone = @ + 1, !.at = Plus(a.at, BlockSize)]
  <2>1. a.pc = "undo" /\ Adds(p, r)
    BY <1>11 DEF Undo, AddAt
  <2>2. DOMAIN r = AddFields /\ r.n = a.n
    BY <1>2 DEF AddFields
  <2>. HIDE DEF r
  <2>. QED
    BY <1>1, <1>3, <2>1, <2>2
<1>12. CASE Undone(p)
  <2>1. Adds(p, AddIdle)
    BY <1>12 DEF Undone
  <2>. QED
    BY <1>1, <1>4, <2>1
<1>. QED
  BY <1>1, <1>6, <1>7, <1>8, <1>9, <1>10, <1>11, <1>12 DEF AddsOnly

LEMMA PublishEffect ==
    ASSUME QueueAssumption, TypeInv, NEW p \in Producer, Publish(p)
    PROVE  /\ TypeInv' /\ UNCHANGED <<headIndex, optimistic, overcommit, take, takes>>
           /\ \E n \in Nat : /\ made[p] + n <= MaxItems
                             /\ tailIndex' = [tailIndex EXCEPT ![p] = Plus(@, n)] /\ made' = [made EXCEPT ![p] = @ + n]
<1>. DEFINE n == add[p].n
<1>1. /\ add[p].pc = "fill" /\ tailIndex' = [tailIndex EXCEPT ![p] = Plus(@, n)] /\ made' = [made EXCEPT ![p] = @ + n]
      /\ Adds(p, AddIdle) /\ UNCHANGED <<headIndex, optimistic, overcommit, take, takes>>
  BY DEF Publish, AddAt
<1>2. n \in Nat /\ made[p] + n <= MaxItems /\ made[p] \in Nat /\ DOMAIN add = Producer
  BY <1>1 DEF TypeInv
<1>. HIDE DEF n
<1>3. Plus(tailIndex[p], n) \in Counter
  <2>1. tailIndex[p] \in Int /\ n \in Int
    BY <1>2, CounterTypes
  <2>. QED
    BY <2>1, Whole
<1>4. DOMAIN add' = Producer /\ add'[p] = AddIdle /\ \A q \in Producer \ {p} : add'[q] = add[q]
  BY <1>1, <1>2 DEF Adds
<1>5. tailIndex' \in [Producer -> Counter] /\ made' \in [Producer -> Nat] /\ \A q \in Producer : made'[q] <= MaxItems
  BY <1>1, <1>2, <1>3 DEF TypeInv
<1>6. \A c \in Consumer : TakeOK(take'[c])
  BY <1>1 DEF TypeInv
<1>7. \A q \in Producer \ {p} : made'[q] = made[q]
  BY <1>1 DEF TypeInv
<1>8. TypeInv'
  BY <1>1, <1>4, <1>5, <1>6, <1>7, IdleFits DEF TypeInv
<1>. QED
  BY <1>1, <1>2, <1>8

\* What a consumer's step must be like to be well-typed.
LEMMA TakesType ==
    ASSUME QueueAssumption, TypeInv, UNCHANGED <<tailIndex, made, add>>, takes' \in 0..MaxTakes,
           headIndex' \in [Producer -> Counter], optimistic' \in [Producer -> Counter], overcommit' \in [Producer -> Counter],
           DOMAIN take' = Consumer, \A c \in Consumer : TakeOK(take'[c])
    PROVE  TypeInv'
BY DEF TypeInv

-----------------------------------------------------------------------------
(* The counters *)

LEMMA Weights ==
    ASSUME QueueAssumption, NEW tk, \A c \in Consumer : TakeOK(tk[c]), NEW s, NEW p, NEW d
    PROVE  /\ Want(tk, p) \in Numbers /\ Grant(tk, p) \in Numbers /\ Ahead(tk, s, d) \in Numbers
           /\ \A c \in Consumer : /\ Grant(tk, p)[c] <= Want(tk, p)[c]
                                  /\ (Grant(tk, tk[d].p)[c] = 0 \/ Ahead(tk, s, d)[c] = 0)
                                  /\ Ahead(tk, s, d)[c] <= Want(tk, tk[d].p)[c]
           /\ Total(Want(tk, p)) \in Nat /\ Total(Grant(tk, p)) \in Nat /\ Total(Ahead(tk, s, d)) \in Nat
<1>1. ASSUME NEW c \in Consumer PROVE
        /\ tk[c].pc \in Asking => tk[c].want \in Nat
        /\ tk[c].pc \in {"excess", "claim"} => tk[c].n \in Nat /\ tk[c].n <= tk[c].want
  <2>1. TakeOK(tk[c]) /\ Len(tk[c].got) \in Nat /\ tk[c].max \in Int
    BY Constants DEF TakeOK
  <2>2. tk[c].pc \in Asking => tk[c].want \in Nat
    BY <2>1 DEF TakeOK, Asking
  <2>. QED
    BY <2>1, <2>2 DEF TakeOK, Asking
<1>2. Want(tk, p) \in Numbers /\ Grant(tk, p) \in Numbers /\ Ahead(tk, s, d) \in Numbers
  BY <1>1 DEF Want, Grant, Ahead, Numbers, Asking, Verifies
<1>3. ASSUME NEW c \in Consumer PROVE
        /\ Grant(tk, p)[c] <= Want(tk, p)[c]
        /\ (Grant(tk, tk[d].p)[c] = 0 \/ Ahead(tk, s, d)[c] = 0)
        /\ Ahead(tk, s, d)[c] <= Want(tk, tk[d].p)[c]
  BY <1>1 DEF Want, Grant, Ahead, Numbers, Asking, Verifies
<1>. QED
  BY <1>2, <1>3, TotalType

\* A number that one is part of.
LEMMA TotalHas == ASSUME QueueAssumption, NEW f \in Numbers, NEW c \in Consumer PROVE f[c] <= Total(f) /\ f[c] \in Nat
<1>1. [f EXCEPT ![c] = 0] \in Numbers /\ Total([f EXCEPT ![c] = 0]) = Total(f) - f[c] + 0
  BY TotalChange
<1>2. Total([f EXCEPT ![c] = 0]) \in Nat /\ Total(f) \in Nat
  BY <1>1, TotalType
<1>. QED
  BY <1>1, <1>2 DEF Numbers

\* For the counters, a consumer is as it was.
Alike(t, u) ==
    \/ t.pc \notin Asking /\ u.pc \notin Asking
    \/ u.pc = t.pc /\ u.p = t.p /\ u.want = t.want /\ u.n = t.n /\ u.mine = t.mine /\ u.over = t.over

LEMMA SameWeights ==
    ASSUME NEW tk, NEW uk, NEW c \in Consumer, Alike(tk[c], uk[c])
    PROVE  /\ \A p : Want(uk, p)[c] = Want(tk, p)[c] /\ Grant(uk, p)[c] = Grant(tk, p)[c]
           /\ \A p : Verifies(tk[c], p) <=> Verifies(uk[c], p)
           /\ \A s : \A d \in Consumer : Alike(tk[d], uk[d]) /\ uk[d].pc = "verify" => Ahead(uk, s, d)[c] = Ahead(tk, s, d)[c]
<1>1. Alike(tk[c], uk[c])
  OBVIOUS
<1>2. \A p : Want(uk, p)[c] = Want(tk, p)[c]
  BY <1>1 DEF Alike, Want
<1>3. \A p : Grant(uk, p)[c] = Grant(tk, p)[c]
  BY <1>1 DEF Alike, Grant, Asking
<1>4. \A p : Verifies(tk[c], p) <=> Verifies(uk[c], p)
  BY <1>1 DEF Alike, Asking, Verifies
<1>5. ASSUME NEW s, NEW d \in Consumer, Alike(tk[d], uk[d]), uk[d].pc = "verify" PROVE Ahead(uk, s, d)[c] = Ahead(tk, s, d)[c]
  <2>1. uk[d].p = tk[d].p /\ uk[d].mine = tk[d].mine
    BY <1>5 DEF Alike, Asking
  <2>2. Verifies(tk[c], tk[d].p) => uk[c].want = tk[c].want /\ uk[c].mine = tk[c].mine
    BY <1>1 DEF Alike, Asking, Verifies
  <2>. QED
    BY <1>1, <1>4, <2>1, <2>2 DEF Ahead
<1>. QED
  BY <1>2, <1>3, <1>4, <1>5

LEMMA MostMono == ASSUME QueueAssumption, NEW i \in Nat, NEW j \in Nat, i <= j PROVE
    Most * i <= Most * j /\ Most * (j + 1) = Most * j + Most /\ Most * i \in Nat
BY Constants

LEMMA YetFinite == ASSUME QueueAssumption, NEW tk, NEW p PROVE
    /\ IsFiniteSet(Yet(tk, p)) /\ Cardinality(Yet(tk, p)) \in Nat
    /\ \A uk : Yet(uk, p) \subseteq Yet(tk, p) => Cardinality(Yet(uk, p)) <= Cardinality(Yet(tk, p))
<1>1. IsFiniteSet(Consumer) /\ \A uk : Yet(uk, p) \subseteq Consumer
  BY Constants DEF Yet
<1>2. \A uk : IsFiniteSet(Yet(uk, p))
  BY <1>1, FS_Subset
<1>. QED
  BY <1>2, FS_Subset, FS_CardinalityType

\* Nobody may count themselves in more often.
LEMMA AskedStays ==
    ASSUME QueueAssumption, NEW s, AskedInv(s), takes' = takes, takes \in Nat, optimistic' = optimistic,
           \A c \in Consumer : \A p : May(take'[c], p) => May(take[c], p),
           \A p \in Producer : Since(s, optimistic[p]) \in Int
    PROVE  AskedInv(s)'
<1>. SUFFICES ASSUME NEW p \in Producer
              PROVE  Since(s, optimistic[p]) + Most * Cardinality(Yet(take', p)) <= Most * takes
  BY DEF AskedInv
<1>1. Cardinality(Yet(take', p)) <= Cardinality(Yet(take, p))
  <2>1. Yet(take', p) \subseteq Yet(take, p)
    BY DEF Yet
  <2>. QED
    BY <2>1, YetFinite
<1>2. Cardinality(Yet(take', p)) \in Nat /\ Cardinality(Yet(take, p)) \in Nat
  BY YetFinite
<1>. DEFINE i == Cardinality(Yet(take', p)) j == Cardinality(Yet(take, p))
<1>3. Since(s, optimistic[p]) + Most * j <= Most * takes
  BY DEF AskedInv
<1>. HIDE DEF i, j
<1>4. Most * i <= Most * j /\ Most * i \in Nat /\ Most * j \in Nat /\ Most * takes \in Nat
  BY <1>1, <1>2, MostMono DEF i, j
<1>5. Since(s, optimistic[p]) + Most * i <= Most * takes
  BY <1>3, <1>4
<1>. QED
  BY <1>5 DEF i

\* What the counters are, in numbers.
LEMMA Ranges ==
    ASSUME QueueAssumption, NEW s \in Counter, Main(s), NEW p \in Producer
    PROVE  /\ tailIndex[p] \in Counter /\ headIndex[p] \in Counter /\ optimistic[p] \in Counter /\ overcommit[p] \in Nat
           /\ Since(s, headIndex[p]) \in Nat /\ Since(s, optimistic[p]) \in Nat /\ made[p] \in Nat /\ made[p] < Half
           /\ Since(s, tailIndex[p]) = made[p] /\ Since(s, optimistic[p]) <= Half /\ overcommit[p] <= Since(s, optimistic[p])
           /\ Since(s, optimistic[p]) - overcommit[p] = Since(s, headIndex[p]) + Total(Want(take, p))
           /\ Since(s, headIndex[p]) + Total(Grant(take, p)) <= made[p] /\ Since(s, headIndex[p]) <= made[p]
           /\ Total(Want(take, p)) \in Nat /\ Total(Grant(take, p)) \in Nat /\ Counter \subseteq Nat /\ Half < Wrap
<1>1. /\ tailIndex[p] \in Counter /\ headIndex[p] \in Counter /\ optimistic[p] \in Counter /\ overcommit[p] \in Counter
      /\ made[p] \in Nat /\ made[p] < Half /\ Counter \subseteq Nat /\ Half < Wrap
  BY CounterTypes, Constants DEF Main
<1>2. Since(s, headIndex[p]) \in Nat /\ Since(s, optimistic[p]) \in Nat
  BY <1>1, SinceType
<1>3. Total(Want(take, p)) \in Nat /\ Total(Grant(take, p)) \in Nat
  BY Weights DEF Main, TypeInv
<1>4. Since(s, optimistic[p]) <= Half
  <2>. DEFINE i == Cardinality(Yet(take, p)) a == Most * i b == Most * takes c == Most * MaxTakes
  <2>1. i \in Nat /\ takes \in Nat /\ takes <= MaxTakes /\ MaxTakes \in Nat
    BY YetFinite, Constants DEF Main, TypeInv
  <2>2. Since(s, optimistic[p]) + a <= b
    BY DEF Main, AskedInv
  <2>. HIDE DEF i
  <2>3. a \in Nat /\ b \in Nat /\ b <= c /\ c \in Nat
    BY <2>1, MostMono
  <2>4. c <= Half /\ Half \in Nat
    BY Constants
  <2>. HIDE DEF a, b, c
  <2>. QED
    BY <1>2, <2>2, <2>3, <2>4
<1>5. /\ Since(s, tailIndex[p]) = made[p]
      /\ Since(s, optimistic[p]) - overcommit[p] = Since(s, headIndex[p]) + Total(Want(take, p))
      /\ Since(s, headIndex[p]) + Total(Grant(take, p)) <= made[p]
  BY DEF Main, CountInv
<1>. DEFINE o == Since(s, optimistic[p]) h == Since(s, headIndex[p]) w == Total(Want(take, p)) g == Total(Grant(take, p))
<1>6. o - overcommit[p] = h + w /\ h + g <= made[p] /\ o \in Nat /\ h \in Nat /\ w \in Nat /\ g \in Nat
      /\ overcommit[p] \in Nat
  BY <1>1, <1>2, <1>3, <1>5
<1>. HIDE DEF o, h, w, g
<1>7. overcommit[p] <= o /\ h <= made[p]
  BY <1>1, <1>6
<1>. QED
  BY <1>1, <1>2, <1>3, <1>4, <1>5, <1>6, <1>7 DEF o, h

\* A step that the counters do not notice.
LEMMA QuietStep ==
    ASSUME QueueAssumption, NEW s \in Counter, Main(s), TypeInv', AskedInv(s)', UNCHANGED <<Counts, made>>,
           \A c \in Consumer : Alike(take[c], take'[c]), \A c \in Consumer : Early(s, take[c])'
    PROVE  Main(s)'
<1>0. tailIndex' = tailIndex /\ headIndex' = headIndex /\ optimistic' = optimistic /\ overcommit' = overcommit /\ made' = made
  BY DEF Counts
<1>1. \A c \in Consumer : TakeOK(take[c]) /\ TakeOK(take'[c])
  BY DEF Main, TypeInv
<1>2. ASSUME NEW p PROVE Want(take', p) = Want(take, p) /\ Grant(take', p) = Grant(take, p)
  <2>1. ASSUME NEW c \in Consumer PROVE Want(take', p)[c] = Want(take, p)[c] /\ Grant(take', p)[c] = Grant(take, p)[c]
    <3>1. Alike(take[c], take'[c])
      OBVIOUS
    <3>. QED
      BY <3>1, SameWeights
  <2>2. Want(take, p) \in Numbers /\ Grant(take, p) \in Numbers /\ Want(take', p) \in Numbers /\ Grant(take', p) \in Numbers
    BY <1>1, Weights
  <2>. QED
    BY <2>1, <2>2 DEF Numbers
<1>3. ASSUME NEW d \in Consumer, take'[d].pc = "verify" PROVE Ahead(take', s, d) = Ahead(take, s, d)
  <2>1. \A c \in Consumer : Ahead(take', s, d)[c] = Ahead(take, s, d)[c]
    BY <1>3, SameWeights
  <2>2. Ahead(take, s, d) \in Numbers /\ Ahead(take', s, d) \in Numbers
    BY <1>1, Weights
  <2>. QED
    BY <2>1, <2>2 DEF Numbers
<1>4. CountInv(s)'
  BY <1>0, <1>2 DEF Main, CountInv
<1>5. ASSUME NEW c \in Consumer, take'[c].pc = "verify" PROVE Looks(s, c)'
  <2>. DEFINE t == take[c] u == take'[c]
  <2>1. t.pc = "verify" /\ u.p = t.p /\ u.want = t.want /\ u.mine = t.mine /\ u.over = t.over
    BY <1>5 DEF Alike, Asking
  <2>2. Looks(s, c)
    BY <2>1 DEF Main, SeenInv
  <2>3. Before(take, s, c)' = Before(take, s, c)
    BY <1>0, <1>2, <1>3, <1>5, <2>1 DEF Before
  <2>4. ASSUME NEW d \in Consumer \ {c}, Verifies(take'[d], u.p) PROVE Apart(s, u, take'[d])
    <3>1. Verifies(take[d], t.p) /\ take'[d].want = take[d].want /\ take'[d].mine = take[d].mine
      BY <2>1, <2>4 DEF Alike, Asking, Verifies
    <3>. QED
      BY <2>1, <2>2, <3>1 DEF Looks, Apart
  <2>. QED
    BY <1>0, <2>1, <2>2, <2>3, <2>4 DEF Looks
<1>6. SeenInv(s)'
  BY <1>5 DEF SeenInv
<1>. QED
  BY <1>4, <1>6 DEF Main

\* Only consumer c changes.
LEMMA OneChanges ==
    ASSUME QueueAssumption, NEW s, NEW c \in Consumer, OthersKeep(c),
           \A d \in Consumer : TakeOK(take[d]) /\ TakeOK(take'[d])
    PROVE  /\ \A p : /\ Want(take, p)[c] \in Nat /\ Want(take', p)[c] \in Nat
                     /\ Grant(take, p)[c] \in Nat /\ Grant(take', p)[c] \in Nat
                     /\ Total(Want(take', p)) = Total(Want(take, p)) - Want(take, p)[c] + Want(take', p)[c]
                     /\ Total(Grant(take', p)) = Total(Grant(take, p)) - Grant(take, p)[c] + Grant(take', p)[c]
           /\ \A d \in Consumer \ {c} : take[d].pc = "verify" =>
                /\ Ahead(take, s, d)[c] \in Nat /\ Ahead(take', s, d)[c] \in Nat
                /\ Total(Ahead(take, s, d)) \in Nat /\ Ahead(take, s, d)[c] <= Total(Ahead(take, s, d))
                /\ Total(Ahead(take', s, d)) = Total(Ahead(take, s, d)) - Ahead(take, s, d)[c] + Ahead(take', s, d)[c]
<1>1. ASSUME NEW f \in Numbers, NEW g \in Numbers, \A d \in Consumer \ {c} : g[d] = f[d]
      PROVE  f[c] \in Nat /\ g[c] \in Nat /\ Total(g) = Total(f) - f[c] + g[c] /\ Total(f) \in Nat /\ f[c] <= Total(f)
  <2>1. f[c] \in Nat /\ g[c] \in Nat
    BY DEF Numbers
  <2>2. g = [f EXCEPT ![c] = g[c]]
    BY <1>1 DEF Numbers
  <2>. QED
    BY <2>1, <2>2, TotalChange, TotalHas, TotalType
<1>2. \A d \in Consumer \ {c} : Alike(take[d], take'[d])
  BY DEF OthersKeep, Alike
<1>0. (\A d \in Consumer : TakeOK(take[d])) /\ (\A d \in Consumer : TakeOK(take'[d]))
  OBVIOUS
<1>3. ASSUME NEW p PROVE
        /\ Want(take, p) \in Numbers /\ Want(take', p) \in Numbers
        /\ Grant(take, p) \in Numbers /\ Grant(take', p) \in Numbers
        /\ \A d \in Consumer \ {c} : Want(take', p)[d] = Want(take, p)[d] /\ Grant(take', p)[d] = Grant(take, p)[d]
  <2>1. \A d \in Consumer \ {c} : Want(take', p)[d] = Want(take, p)[d] /\ Grant(take', p)[d] = Grant(take, p)[d]
    BY <1>2, SameWeights
  <2>2. Want(take, p) \in Numbers /\ Grant(take, p) \in Numbers
    BY <1>0, Weights
  <2>3. Want(take', p) \in Numbers /\ Grant(take', p) \in Numbers
    BY <1>0, Weights
  <2>. QED
    BY <2>1, <2>2, <2>3
<1>4. ASSUME NEW d \in Consumer \ {c}, take[d].pc = "verify" PROVE
        /\ Ahead(take, s, d) \in Numbers /\ Ahead(take', s, d) \in Numbers
        /\ \A e \in Consumer \ {c} : Ahead(take', s, d)[e] = Ahead(take, s, d)[e]
  <2>1. take'[d].pc = "verify"
    BY <1>4 DEF OthersKeep
  <2>2. \A e \in Consumer \ {c} : Ahead(take', s, d)[e] = Ahead(take, s, d)[e]
    BY <1>2, <2>1, SameWeights
  <2>3. Ahead(take, s, d) \in Numbers
    BY <1>0, Weights
  <2>4. Ahead(take', s, d) \in Numbers
    BY <1>0, Weights
  <2>. QED
    BY <2>2, <2>3, <2>4
<1>. QED
  BY <1>1, <1>3, <1>4

\* Those that have yet to look, when only consumer c changes.
LEMMA OthersLook ==
    ASSUME QueueAssumption, NEW s \in Counter, Main(s), NEW c \in Consumer, OthersKeep(c),
           NEW d \in Consumer \ {c}, take'[d].pc = "verify"
    PROVE  /\ take[d].pc = "verify" /\ take'[d] = take[d] /\ take[d].p \in Producer /\ Looks(s, d) /\ TakeOK(take[d])
           /\ take[d].want \in Nat \ {0} /\ Since(s, take[d].mine) \in Nat /\ take[d].over \in Nat
<1>1. take[d].pc = "verify" /\ take'[d] = take[d] /\ TakeOK(take[d]) /\ Looks(s, d)
  BY DEF OthersKeep, Main, TypeInv, SeenInv
<1>2. take[d].p \in Producer /\ take[d].mine \in Counter /\ take[d].over \in Counter /\ Len(take[d].got) \in Nat
      /\ take[d].max \in Nat
  BY <1>1, Constants DEF TakeOK, Trial, Counting, Asking
<1>3. take[d].want \in Nat \ {0}
  BY <1>1, <1>2 DEF TakeOK, Asking
<1>4. Since(s, take[d].mine) \in Nat /\ take[d].over \in Nat
  <2>1. take[d].mine \in Int /\ Counter \subseteq Nat
    BY <1>2, Constants DEF Counter
  <2>. QED
    BY <1>2, <2>1, SinceType
<1>. QED
  BY <1>1, <1>2, <1>3, <1>4

\* What one who has yet to look finds before it.
LEMMA BeforeType ==
    ASSUME QueueAssumption, NEW s \in Counter, Main(s), NEW c \in Consumer, take[c].p \in Producer
    PROVE  /\ Before(take, s, c) \in Nat /\ Total(Ahead(take, s, c)) \in Nat
           /\ Before(take, s, c) = Since(s, headIndex[take[c].p]) + Total(Grant(take, take[c].p)) + Total(Ahead(take, s, c))
<1>1. Total(Ahead(take, s, c)) \in Nat
  BY Weights DEF Main, TypeInv
<1>. QED
  BY <1>1, Ranges DEF Before

LEMMA CommitStep ==
    ASSUME QueueAssumption, NEW s \in Counter, Main(s), TypeInv', NEW c \in Consumer, Commit(c), UNCHANGED <<made, takes>>
    PROVE  Main(s)'
<1>. DEFINE t == take[c] u == take'[c] p == t.p w == t.want o == Since(s, optimistic[p])
<1>1. /\ OthersKeep(c) /\ t.pc = "commit" /\ u.pc = "verify" /\ Stays(t, u) /\ u.want = w /\ u.over = t.over
      /\ u.mine = optimistic[p] /\ w \in 1..Most /\ Most \in Nat
  BY CommitEffect, Constants DEF Main
<1>2. \A d \in Consumer : TakeOK(take[d]) /\ TakeOK(take'[d])
  BY DEF Main, TypeInv
<1>3. p \in Producer /\ u.p = p /\ \A i \in DOMAIN t.rest : t.rest[i] # p
  BY <1>1, <1>2 DEF TakeOK, Trial, Counting, Stays
<1>4. /\ optimistic' = [optimistic EXCEPT ![p] = Plus(@, w)] /\ tailIndex' = tailIndex /\ headIndex' = headIndex
      /\ overcommit' = overcommit /\ made' = made /\ takes' = takes
  BY DEF Commit
<1>5. \A q \in Producer : (q # p => optimistic'[q] = optimistic[q]) /\ (q = p => optimistic'[q] = Plus(optimistic[p], w))
  BY <1>4 DEF Main, TypeInv
<1>6. AskedInv(s) /\ CountInv(s)
  BY DEF Main
<1>7. \A q \in Producer : Yet(take', q) \subseteq Yet(take, q) /\ c \notin Yet(take', p) /\ c \in Yet(take, p)
  <2>1. ~May(u, p) /\ May(t, p) /\ \A q : May(u, q) => May(t, q)
    BY <1>1, <1>3 DEF May, Stays
  <2>. QED
    BY <1>1, <2>1 DEF Yet, OthersKeep
<1>8. Since(s, Plus(optimistic[p], w)) = o + w /\ o + w <= Half
      /\ o + w + Most * Cardinality(Yet(take', p)) <= Most * takes
  <2>. DEFINE i == Cardinality(Yet(take', p)) j == Cardinality(Yet(take, p))
  <2>1. i \in Nat /\ j \in Nat /\ i + 1 <= j
    <3>1. Yet(take', p) \cup {c} \subseteq Yet(take, p) /\ c \notin Yet(take', p)
      BY <1>3, <1>7
    <3>2. Cardinality(Yet(take', p) \cup {c}) = Cardinality(Yet(take', p)) + 1
      BY <3>1, YetFinite, FS_AddElement
    <3>. QED
      BY <3>1, <3>2, YetFinite, FS_Subset
  <2>2. o + Most * j <= Most * takes /\ takes \in Nat /\ takes <= MaxTakes
    BY <1>3, <1>6, Constants DEF AskedInv, Main, TypeInv
  <2>. HIDE DEF i, j
  <2>3. Most * (i + 1) <= Most * j /\ Most * (i + 1) = Most * i + Most /\ Most * i \in Nat /\ Most * j \in Nat
    BY <2>1, MostMono
  <2>4. Most * takes <= Most * MaxTakes /\ Most * MaxTakes <= Half /\ Most * takes \in Nat /\ Most * MaxTakes \in Nat /\ Half \in Nat
    BY <2>2, MostMono, Constants
  <2>. DEFINE a == Most * i b == Most * j d == Most * takes e == Most * MaxTakes
  <2>5. o \in Nat /\ w \in Nat /\ w <= Most
    BY <1>1, <1>3, Ranges
  <2>6. Most * (i + 1) = a + Most /\ a + Most <= b /\ o + b <= d /\ d <= e /\ e <= Half /\ a \in Nat /\ b \in Nat /\ d \in Nat /\ e \in Nat
    BY <2>2, <2>3, <2>4
  <2>. HIDE DEF a, b, d, e, o, w
  <2>7. o + w + a <= d /\ o + w <= Half
    BY <1>1, <2>4, <2>5, <2>6
  <2>8. o + w < Wrap /\ w \in Nat
    BY <2>5, <2>7, Constants
  <2>9. Since(s, Plus(optimistic[p], w)) = o + w
    BY <1>3, <2>8, Ranges, SincePlus DEF o
  <2>. QED
    BY <2>7, <2>9 DEF a, d, i
<1>9. ASSUME NEW q \in Producer PROVE
        /\ Total(Want(take', q)) = Total(Want(take, q)) + (IF q = p THEN w ELSE 0)
        /\ Total(Grant(take', q)) = Total(Grant(take, q))
  <2>1. /\ Want(take, q)[c] = 0 /\ Want(take', q)[c] = (IF q = p THEN w ELSE 0)
        /\ Grant(take, q)[c] = 0 /\ Grant(take', q)[c] = 0
    BY <1>1, <1>3 DEF Want, Grant, Asking
  <2>2. Total(Want(take, q)) \in Nat /\ Total(Grant(take, q)) \in Nat
    BY Ranges
  <2>. QED
    BY <1>1, <1>2, <2>1, <2>2, OneChanges
<1>10. CountInv(s)'
  <2>. SUFFICES ASSUME NEW q \in Producer PROVE
        /\ Since(s, tailIndex[q]) = made[q]
        /\ Since(s, headIndex[q]) + Total(Grant(take', q)) <= made[q]
        /\ Since(s, optimistic'[q]) - overcommit[q] = Since(s, headIndex[q]) + Total(Want(take', q))
    BY <1>4 DEF CountInv
  <2>1. Since(s, optimistic'[q]) = Since(s, optimistic[q]) + (IF q = p THEN w ELSE 0)
    BY <1>5, <1>8, Ranges
  <2>. DEFINE o1 == Since(s, optimistic[q]) h == Since(s, headIndex[q]) all == Total(Want(take, q)) v == overcommit[q]
  <2>2. o1 - v = h + all /\ o1 \in Nat /\ v \in Nat /\ h \in Nat /\ all \in Nat
    BY Ranges
  <2>3. w \in Nat /\ Total(Want(take', q)) = all + (IF q = p THEN w ELSE 0) /\ Since(s, optimistic'[q]) = o1 + (IF q = p THEN w ELSE 0)
    BY <1>1, <1>9, <2>1
  <2>4. h + Total(Grant(take', q)) <= made[q] /\ Since(s, tailIndex[q]) = made[q]
    BY <1>9, Ranges
  <2>. HIDE DEF o1, h, all, v, w
  <2>5. (o1 + (IF q = p THEN w ELSE 0)) - v = h + (all + (IF q = p THEN w ELSE 0))
    BY <2>2, <2>3
  <2>. QED
    BY <2>3, <2>4, <2>5 DEF o1, h, v
<1>11. AskedInv(s)'
  <2>. SUFFICES ASSUME NEW q \in Producer
                PROVE  Since(s, optimistic'[q]) + Most * Cardinality(Yet(take', q)) <= Most * takes
    BY <1>4 DEF AskedInv
  <2>1. CASE q = p
    BY <1>5, <1>8, <2>1
  <2>2. CASE q # p
    <3>. DEFINE i == Cardinality(Yet(take', q)) j == Cardinality(Yet(take, q)) a == Most * i b == Most * j d == Most * takes
    <3>1. i \in Nat /\ j \in Nat /\ i <= j /\ takes \in Nat
      BY <1>7, YetFinite, Constants DEF Main, TypeInv
    <3>2. Since(s, optimistic[q]) + b <= d /\ optimistic'[q] = optimistic[q]
      BY <1>5, <1>6, <2>2 DEF AskedInv
    <3>. HIDE DEF i, j
    <3>3. a <= b /\ a \in Nat /\ b \in Nat /\ d \in Nat
      BY <3>1, MostMono
    <3>. HIDE DEF a, b, d
    <3>4. Since(s, optimistic'[q]) + a <= d
      BY <3>2, <3>3, Ranges
    <3>. QED
      BY <3>4 DEF a, d, i
  <2>. QED
    BY <2>1, <2>2
<1>12. SeenInv(s)'
  <2>. SUFFICES ASSUME NEW d \in Consumer PROVE Early(s, take[d])' /\ (take'[d].pc = "verify" => Looks(s, d)')
    BY DEF SeenInv
  <2>1. \A e \in Consumer : Early(s, take[e])
    BY DEF Main, SeenInv
  <2>2. Early(s, take[d])'
    <3>1. CASE d = c
      BY <1>1, <1>3, <1>4, <2>1, <3>1 DEF Early
    <3>2. CASE d # c
      BY <1>1, <1>4, <2>1, <3>2 DEF Early, OthersKeep
    <3>. QED
      BY <3>1, <3>2
  <2>3. ASSUME NEW e \in Consumer \ {c}, Verifies(take[e], p)
        PROVE  Since(s, take[e].mine) + take[e].want <= o /\ Since(s, take[e].mine) < o /\ take'[e] = take[e]
    <3>1. take'[e].pc = "verify"
      BY <1>1, <2>3 DEF OthersKeep, Verifies
    <3>. QED
      BY <1>1, <1>3, <2>3, <3>1, OthersLook, Ranges DEF Looks, Verifies
  <2>4. ASSUME take'[d].pc = "verify", d # c PROVE Looks(s, d)'
    <3>. DEFINE q == take[d].p
    <3>1. /\ take[d].pc = "verify" /\ take'[d] = take[d] /\ q \in Producer /\ Looks(s, d)
          /\ take[d].want \in Nat \ {0} /\ Since(s, take[d].mine) \in Nat
      BY <1>1, <2>4, OthersLook
    <3>2. Ahead(take, s, d)[c] = 0 /\ Ahead(take', s, d)[c] = 0
      <4>1. ~Verifies(take[c], q) /\ c \in Consumer /\ u = take'[c] /\ q = take'[d].p
        BY <1>1, <3>1 DEF Verifies
      <4>2. Verifies(u, q) => ~ Since(s, u.mine) < Since(s, take'[d].mine)
        <5>. SUFFICES ASSUME Verifies(u, q) PROVE ~ Since(s, u.mine) < Since(s, take'[d].mine)
          OBVIOUS
        <5>1. q = p /\ Verifies(take[d], p)
          BY <1>3, <3>1 DEF Verifies
        <5>2. Since(s, take[d].mine) < o /\ Since(s, u.mine) = o
          BY <1>1, <2>3, <2>4, <5>1
        <5>. QED
          BY <1>3, <3>1, <5>2, Ranges
      <4>3. Ahead(take, s, d)[c] = 0
        BY <4>1 DEF Ahead
      <4>4. Ahead(take', s, d)[c] = 0
        BY <4>1, <4>2 DEF Ahead
      <4>. QED
        BY <4>3, <4>4
    <3>3. Total(Ahead(take', s, d)) = Total(Ahead(take, s, d))
      <4>1. /\ Total(Ahead(take, s, d)) \in Nat
            /\ Total(Ahead(take', s, d)) = Total(Ahead(take, s, d)) - Ahead(take, s, d)[c] + Ahead(take', s, d)[c]
        BY <1>1, <1>2, <2>4, <3>1, OneChanges
      <4>. QED
        BY <3>2, <4>1
    <3>4. Before(take, s, d)' = Before(take, s, d)
      BY <1>4, <1>9, <3>1, <3>3 DEF Before
    <3>5. Since(s, optimistic[q]) <= Since(s, optimistic'[q]) /\ Since(s, optimistic[q]) \in Int /\ Since(s, optimistic'[q]) \in Int
      BY <1>1, <1>5, <1>8, <3>1, Ranges
    <3>6. ASSUME NEW e \in Consumer \ {d}, Verifies(take'[e], q) PROVE Apart(s, take[d], take'[e])
      <4>1. CASE e = c
        BY <1>1, <1>3, <2>3, <2>4, <3>1, <3>6, <4>1 DEF Apart, Verifies
      <4>2. CASE e # c
        BY <1>1, <3>1, <3>6, <4>2 DEF Looks, OthersKeep
      <4>. QED
        BY <4>1, <4>2
    <3>7. Since(s, take[d].mine) + take[d].want <= Since(s, optimistic'[q])
      BY <3>1, <3>5 DEF Looks
    <3>. QED
      BY <1>4, <3>1, <3>4, <3>6, <3>7 DEF Looks
  <2>5. Looks(s, c)'
    <3>1. t.over <= overcommit[p] /\ t.over \in Nat
      <4>1. t.over \in Counter /\ Counter \subseteq Nat
        BY <1>1, <1>2, Plain DEF TakeOK
      <4>2. t.over <= overcommit[p]
        BY <1>1, <2>1 DEF Early
      <4>. QED
        BY <4>1, <4>2
    <3>2. t.over <= Since(s, u.mine) /\ Since(s, u.mine) + u.want <= Since(s, optimistic'[p])
      BY <1>1, <1>3, <1>5, <1>8, <3>1, Ranges
    <3>3. ASSUME NEW e \in Consumer \ {c}, Verifies(take'[e], p) PROVE Apart(s, u, take'[e])
      BY <1>1, <2>3, <3>3 DEF Apart, OthersKeep
    <3>4. Before(take', s, c) <= Since(s, u.mine) - u.over
      <4>. DEFINE g == Total(Grant(take, p)) a == Total(Ahead(take', s, c)) h == Since(s, headIndex[p])
                  all == Total(Want(take, p))
      <4>1. \A e \in Consumer : Want(take, p)[e] = IF e = c THEN 0 ELSE Want(take', p)[e]
        BY <1>1, <1>3 DEF Want, OthersKeep, Asking
      <4>2. \A e \in Consumer : Grant(take, p)[e] = 0 \/ Ahead(take', s, c)[e] = 0
        BY <1>1, <1>3 DEF Grant, Ahead, OthersKeep, Verifies
      <4>3. \A e \in Consumer : Ahead(take', s, c)[e] <= Want(take, p)[e]
        <5>. SUFFICES ASSUME NEW e \in Consumer PROVE Ahead(take', s, c)[e] <= Want(take, p)[e]
          OBVIOUS
        <5>1. CASE e = c
          <6>1. Ahead(take', s, c)[c] = 0
            <7>1. Since(s, u.mine) \in Int
              BY <1>1, <1>3, Ranges
            <7>. QED
              BY <7>1 DEF Ahead
          <6>. QED
            BY <4>1, <5>1, <6>1
        <5>2. CASE e # c
          BY <1>2, <1>3, <4>1, <5>2, Weights
        <5>. QED
          BY <5>1, <5>2
      <4>4. /\ Grant(take, p) \in Numbers /\ Want(take, p) \in Numbers /\ Ahead(take', s, c) \in Numbers
            /\ \A e \in Consumer : Grant(take, p)[e] <= Want(take, p)[e]
            /\ g \in Nat /\ a \in Nat /\ all \in Nat
        BY <1>2, Weights
      <4>5. g + a <= all
        BY <4>2, <4>3, <4>4, TotalApart
      <4>6. o - overcommit[p] = h + all /\ o \in Nat /\ h \in Nat /\ overcommit[p] \in Nat
        BY <1>3, Ranges
      <4>8. Since(s, headIndex[p]) + Total(Grant(take', p)) + Total(Ahead(take', s, c)) = h + g + a
        BY <1>3, <1>9
      <4>. HIDE DEF g, a, h, all, o
      <4>9. h + g + a <= o - t.over
        BY <3>1, <4>4, <4>5, <4>6
      <4>. QED
        BY <1>1, <1>3, <4>8, <4>9 DEF Before, o
    <3>5. Before(take, s, c)' = Before(take', s, c)
      BY <1>4 DEF Before
    <3>. QED
      BY <1>1, <1>3, <1>4, <3>2, <3>3, <3>4, <3>5 DEF Looks
  <2>. QED
    BY <2>2, <2>4, <2>5
<1>. QED
  BY <1>10, <1>11, <1>12 DEF Main

LEMMA VerifyStep ==
    ASSUME QueueAssumption, NEW s \in Counter, Main(s), TypeInv', NEW c \in Consumer, Verify(c), UNCHANGED <<made, takes>>
    PROVE  Main(s)'
<1>. DEFINE t == take[c] u == take'[c] p == t.p w == t.want n == u.n m == Since(s, t.mine)
            x == made[p] - (m - t.over)
<1>1. /\ OthersKeep(c) /\ t.pc = "verify" /\ u.pc \in {"excess", "claim"} /\ Stays(t, u) /\ u.want = w /\ w \in Nat \ {0}
      /\ n \in 0..w
  BY VerifyEffect DEF Main
<1>2. /\ \A d \in Consumer : TakeOK(take[d]) /\ TakeOK(take'[d])
      /\ \A d \in Consumer : TakeOK(take[d])
  BY DEF Main, TypeInv
<1>3. p \in Producer /\ u.p = p /\ t.over \in Nat /\ t.mine \in Counter /\ m \in Nat /\ t.over \in Counter /\ Looks(s, c)
  <2>1. p \in Producer /\ t.over \in Counter /\ t.mine \in Counter /\ Counter \subseteq Nat /\ u.p = p
    <3>1. TakeOK(t) /\ u.p = p /\ Counter \subseteq Nat
      BY <1>1, <1>2, Constants DEF Stays, Counter
    <3>. QED
      BY <1>1, <3>1 DEF TakeOK, Trial, Counting, Asking
  <2>2. m \in Counter
    <3>1. t.mine \in Int
      BY <2>1
    <3>. QED
      BY <3>1, SinceType
  <2>3. Looks(s, c)
    BY <1>1 DEF Main, SeenInv
  <2>. HIDE DEF t, u, p, m
  <2>. QED
    BY <2>1, <2>2, <2>3
<1>4. Counts' = Counts /\ made' = made /\ takes' = takes
  BY DEF Verify
<1>5. /\ tailIndex' = tailIndex /\ headIndex' = headIndex /\ optimistic' = optimistic /\ overcommit' = overcommit
  BY <1>4 DEF Counts
<1>6. AskedInv(s)'
  <2>1. \A d \in Consumer : \A q : May(take'[d], q) => May(take[d], q)
    BY <1>1 DEF May, Stays, OthersKeep
  <2>2. takes \in Nat /\ \A q \in Producer : Since(s, optimistic[q]) \in Int
    BY Ranges, Constants DEF Main, TypeInv
  <2>. QED
    BY <1>4, <1>5, <2>1, <2>2, AskedStays DEF Main
\* What the consumer finds is what is beyond all that was counted in before it.
<1>7. n = IF x > 0 THEN (IF w <= x THEN w ELSE x) ELSE 0
  <2>1. n = IF circular_less_than(0, Excess(tailIndex[p], t.mine, t.over))
            THEN (IF w <= Excess(tailIndex[p], t.mine, t.over) THEN w ELSE Excess(tailIndex[p], t.mine, t.over)) ELSE 0
    BY VerifyEffect DEF Main
  <2>2. -Half <= x /\ x < Half /\ x \in Int
    <3>1. t.over <= m /\ m + w <= Since(s, optimistic[p])
      BY <1>3 DEF Looks
    <3>2. made[p] \in Nat /\ made[p] < Half /\ Since(s, optimistic[p]) <= Half /\ Since(s, optimistic[p]) \in Nat /\ Half \in Nat
      BY <1>3, Ranges, Constants
    <3>. HIDE DEF m, w
    <3>. QED
      BY <1>1, <1>3, <3>1, <3>2
  <2>3. /\ circular_less_than(0, Excess(tailIndex[p], t.mine, t.over)) <=> x > 0
        /\ x > 0 => Excess(tailIndex[p], t.mine, t.over) = x
    <3>1. tailIndex[p] \in Int /\ t.mine \in Int /\ t.over \in Int /\ x = Since(s, tailIndex[p]) - (Since(s, t.mine) - t.over)
      BY <1>3, Ranges
    <3>. HIDE DEF x
    <3>. QED
      BY <2>2, <3>1, ExcessSees
  <2>. HIDE DEF x
  <2>. QED
    BY <2>1, <2>3
<1>8. ASSUME NEW q \in Producer PROVE
        /\ Total(Want(take', q)) = Total(Want(take, q))
        /\ Total(Grant(take', q)) = Total(Grant(take, q)) + (IF q = p THEN n ELSE 0)
  <2>1. /\ Want(take, q)[c] = Want(take', q)[c] /\ Grant(take, q)[c] = 0
        /\ Grant(take', q)[c] = (IF q = p THEN n ELSE 0)
    BY <1>1, <1>3 DEF Want, Grant, Asking
  <2>2. Total(Want(take, q)) \in Nat /\ Total(Grant(take, q)) \in Nat
    BY Ranges
  <2>3. /\ Want(take, q)[c] \in Nat
        /\ Total(Want(take', q)) = Total(Want(take, q)) - Want(take, q)[c] + Want(take', q)[c]
        /\ Total(Grant(take', q)) = Total(Grant(take, q)) - Grant(take, q)[c] + Grant(take', q)[c]
    BY <1>1, <1>2, OneChanges
  <2>4. n \in Nat
    BY <1>1
  <2>. HIDE DEF n
  <2>. QED
    BY <2>1, <2>2, <2>3, <2>4
<1>9. /\ Before(take, s, c) \in Nat /\ Total(Ahead(take, s, c)) \in Nat
      /\ Before(take, s, c) = Since(s, headIndex[p]) + Total(Grant(take, p)) + Total(Ahead(take, s, c))
  BY <1>3, BeforeType
<1>10. n > 0 => Before(take, s, c) + n <= made[p]
  <2>1. Before(take, s, c) + w <= made[p] \/ Before(take, s, c) <= m - t.over
    BY <1>3 DEF Looks
  <2>. DEFINE b == Before(take, s, c)
  <2>2. b \in Nat /\ made[p] \in Nat
    BY <1>3, <1>9, Ranges
  <2>. HIDE DEF b, m, w, n
  <2>. QED
    BY <1>1, <1>3, <1>7, <2>1, <2>2 DEF b
<1>11. CountInv(s)'
  <2>. SUFFICES ASSUME NEW q \in Producer PROVE
        /\ Since(s, tailIndex[q]) = made[q]
        /\ Since(s, headIndex[q]) + Total(Grant(take', q)) <= made[q]
        /\ Since(s, optimistic[q]) - overcommit[q] = Since(s, headIndex[q]) + Total(Want(take', q))
    BY <1>4, <1>5 DEF CountInv
  <2>1. Since(s, headIndex[q]) + Total(Grant(take', q)) <= made[q]
    <3>. DEFINE h == Since(s, headIndex[q]) g == Total(Grant(take, q)) a == Total(Ahead(take, s, c)) b == Before(take, s, c)
    <3>1. h + g <= made[q] /\ h \in Nat /\ g \in Nat /\ made[q] \in Nat /\ Total(Grant(take', q)) = g + (IF q = p THEN n ELSE 0)
      BY <1>8, Ranges
    <3>2. q = p => a \in Nat /\ b = h + g + a /\ (n > 0 => b + n <= made[q])
      BY <1>9, <1>10
    <3>. HIDE DEF h, g, a, b, n
    <3>3. h + (g + (IF q = p THEN n ELSE 0)) <= made[q]
      BY <1>1, <3>1, <3>2
    <3>. QED
      BY <3>1, <3>3 DEF h
  <2>. QED
    BY <1>8, <2>1, Ranges
<1>12. SeenInv(s)'
  <2>. SUFFICES ASSUME NEW d \in Consumer PROVE Early(s, take[d])' /\ (take'[d].pc = "verify" => Looks(s, d)')
    BY DEF SeenInv
  <2>1. Early(s, take[d])'
    <3>1. Early(s, take[d])
      BY DEF Main, SeenInv
    <3>2. CASE d = c
      BY <1>1, <3>2 DEF Early
    <3>3. CASE d # c
      BY <1>1, <1>4, <1>5, <3>1, <3>3 DEF Early, OthersKeep
    <3>. QED
      BY <3>2, <3>3
  <2>2. ASSUME take'[d].pc = "verify" PROVE Looks(s, d)'
    <3>. DEFINE q == take[d].p wd == take[d].want md == Since(s, take[d].mine)
    <3>0. d # c
      BY <1>1, <2>2
    <3>1. /\ take[d].pc = "verify" /\ take'[d] = take[d] /\ q \in Producer /\ Looks(s, d) /\ wd \in Nat \ {0} /\ md \in Nat
          /\ take[d].over \in Nat
      BY <1>1, <2>2, <3>0, OthersLook
    <3>2. ASSUME NEW e \in Consumer \ {d}, Verifies(take'[e], q) PROVE Apart(s, take[d], take'[e])
      <4>1. e # c
        BY <1>1, <3>2 DEF Verifies
      <4>. QED
        BY <1>1, <3>1, <3>2, <4>1 DEF Looks, OthersKeep
    <3>3. /\ Before(take, s, d) \in Nat
          /\ Before(take, s, d) = Since(s, headIndex[q]) + Total(Grant(take, q)) + Total(Ahead(take, s, d))
      BY <3>1, BeforeType
    <3>4. Before(take, s, d)' = Since(s, headIndex[q]) + Total(Grant(take', q)) + Total(Ahead(take', s, d))
      BY <1>5, <3>1 DEF Before
    <3>5. Before(take, s, d)' \in Int /\ (Before(take, s, d)' <= Before(take, s, d) \/ Before(take, s, d)' + wd <= made[q])
      <4>1. /\ Ahead(take, s, d)[c] \in Nat /\ Total(Ahead(take, s, d)) \in Nat
            /\ Total(Ahead(take', s, d)) = Total(Ahead(take, s, d)) - Ahead(take, s, d)[c] + Ahead(take', s, d)[c]
        BY <1>1, <1>2, <3>0, <3>1, OneChanges
      <4>2. Ahead(take', s, d)[c] = 0
        BY <1>1 DEF Ahead, Verifies
      <4>3. Since(s, headIndex[q]) \in Nat /\ Total(Grant(take, q)) \in Nat /\ made[q] \in Nat
        BY <3>1, Ranges
      <4>4. CASE q # p
        <5>1. Ahead(take, s, d)[c] = 0
          BY <1>1, <4>4 DEF Ahead, Verifies
        <5>2. Total(Grant(take', q)) = Total(Grant(take, q)) /\ Total(Ahead(take', s, d)) = Total(Ahead(take, s, d))
          BY <1>8, <3>1, <4>1, <4>2, <4>3, <4>4, <5>1
        <5>. QED
          BY <3>3, <3>4, <5>2
      <4>5. CASE q = p /\ m < md
        <5>1. Ahead(take, s, d)[c] = w
          BY <1>1, <4>5 DEF Ahead, Verifies
        <5>. DEFINE h == Since(s, headIndex[q]) g == Total(Grant(take, q)) a == Total(Ahead(take, s, d))
        <5>2. /\ Before(take, s, d)' = h + (g + n) + (a - w + 0) /\ Before(take, s, d) = h + g + a
              /\ h \in Nat /\ g \in Nat /\ a \in Nat
          BY <1>8, <3>1, <3>3, <3>4, <4>1, <4>2, <4>3, <4>5, <5>1
        <5>. HIDE DEF h, g, a, n, w
        <5>3. h + (g + n) + (a - w + 0) <= h + g + a /\ h + (g + n) + (a - w + 0) \in Int
          BY <1>1, <5>2
        <5>. QED
          BY <5>2, <5>3
      <4>6. CASE q = p /\ ~ m < md
        <5>1. md + wd <= m
          <6>1. Apart(s, t, take[d])
            BY <1>3, <3>0, <3>1, <4>6 DEF Looks, Verifies
          <6>2. ~ m + w <= md
            BY <1>1, <1>3, <3>1, <4>6
          <6>. QED
            BY <6>1, <6>2 DEF Apart
        <5>2. Ahead(take, s, d)[c] = 0
          BY <4>6 DEF Ahead
        <5>. DEFINE h == Since(s, headIndex[q]) g == Total(Grant(take, q)) a == Total(Ahead(take, s, d))
                    b == Total(Ahead(take, s, c))
        <5>3. a + wd <= b /\ b \in Nat
          <6>. DEFINE f == [Ahead(take, s, d) EXCEPT ![d] = wd]
          <6>1. Ahead(take, s, d) \in Numbers /\ Ahead(take, s, c) \in Numbers
            BY <1>2, Weights
          <6>2. Ahead(take, s, d)[d] = 0 /\ Ahead(take, s, c)[d] = wd
            BY <1>3, <3>1, <4>6, <5>1 DEF Ahead, Verifies
          <6>3. f \in Numbers /\ Total(f) = a - 0 + wd
            BY <3>1, <6>1, <6>2, TotalChange
          <6>4. \A e \in Consumer : f[e] <= Ahead(take, s, c)[e]
            <7>. SUFFICES ASSUME NEW e \in Consumer PROVE f[e] <= Ahead(take, s, c)[e]
              OBVIOUS
            <7>1. CASE e = d
              BY <3>1, <6>1, <6>2, <7>1 DEF Numbers
            <7>2. CASE e # d
              <8>1. f[e] = Ahead(take, s, d)[e]
                BY <6>1, <7>2 DEF Numbers
              <8>2. CASE Verifies(take[e], q) /\ Since(s, take[e].mine) < md
                <9>1. Since(s, take[e].mine) \in Int
                  <10>1. take[e].mine \in Int
                    <11>1. TakeOK(take[e]) /\ take[e].pc = "verify"
                      BY <1>2, <8>2 DEF Verifies
                    <11>. QED
                      BY <11>1, Constants DEF TakeOK, Counter
                  <10>2. Since(s, take[e].mine) \in Counter
                    BY <10>1, SinceType
                  <10>. QED
                    BY <10>2, Constants DEF Counter
                <9>2. Since(s, take[e].mine) < m
                  BY <1>3, <3>1, <5>1, <8>2, <9>1
                <9>3. Ahead(take, s, c)[e] = take[e].want /\ Ahead(take, s, d)[e] = take[e].want
                  BY <4>6, <8>2, <9>2 DEF Ahead
                <9>4. Ahead(take, s, d)[e] \in Nat
                  BY <6>1 DEF Numbers
                <9>. QED
                  BY <8>1, <9>3, <9>4
              <8>3. CASE ~(Verifies(take[e], q) /\ Since(s, take[e].mine) < md)
                <9>1. Ahead(take, s, d)[e] = 0
                  BY <8>3 DEF Ahead
                <9>. QED
                  BY <6>1, <8>1, <9>1 DEF Numbers
              <8>. QED
                BY <8>2, <8>3
            <7>. QED
              BY <7>1, <7>2
          <6>5. Total(f) <= b
            <7>. HIDE DEF f
            <7>. QED
              BY <6>1, <6>3, <6>4, TotalMono
          <6>6. a \in Nat /\ b \in Nat
            BY <1>9, <4>1
          <6>. HIDE DEF f, a, b
          <6>. QED
            BY <3>1, <6>3, <6>5, <6>6
        <5>4. /\ Before(take, s, d)' = h + (g + n) + (a - 0 + 0) /\ Before(take, s, d) = h + g + a
              /\ Before(take, s, c) = h + g + b /\ h \in Nat /\ g \in Nat /\ a \in Nat
          BY <1>8, <1>9, <3>1, <3>3, <3>4, <4>1, <4>2, <4>3, <4>6, <5>2
        <5>5. n > 0 => h + g + b + n <= made[q]
          BY <1>10, <4>6, <5>4
        <5>. HIDE DEF h, g, a, b, n, wd
        <5>6. /\ h + (g + n) + (a - 0 + 0) \in Int
              /\ h + (g + n) + (a - 0 + 0) <= h + g + a \/ h + (g + n) + (a - 0 + 0) + wd <= made[q]
          BY <1>1, <3>1, <4>3, <5>3, <5>4, <5>5
        <5>. QED
          BY <5>4, <5>6
      <4>. QED
        BY <1>3, <3>1, <4>4, <4>5, <4>6
    <3>6. Before(take, s, d) + wd <= made[q] \/ Before(take, s, d) <= md - take[d].over
      BY <3>1 DEF Looks
    <3>7. Before(take, s, d)' + wd <= made[q] \/ Before(take, s, d)' <= md - take[d].over
      <4>. DEFINE b == Before(take, s, d) b1 == Before(take, s, d)'
      <4>1. made[q] \in Nat
        BY <3>1, Ranges
      <4>2. b \in Nat /\ b1 \in Int /\ (b1 <= b \/ b1 + wd <= made[q]) /\ (b + wd <= made[q] \/ b <= md - take[d].over)
        BY <3>3, <3>5, <3>6
      <4>. HIDE DEF b, b1, wd, md
      <4>3. b1 + wd <= made[q] \/ b1 <= md - take[d].over
        BY <3>1, <4>1, <4>2
      <4>. QED
        BY <4>3 DEF b1
    <3>. QED
      BY <1>4, <1>5, <3>1, <3>2, <3>7 DEF Looks
  <2>. QED
    BY <2>1, <2>2
<1>. QED
  BY <1>6, <1>11, <1>12 DEF Main

\* A consumer that has looked counts itself out, or claims.
LEMMA LooksOn ==
    ASSUME QueueAssumption, NEW s \in Counter, Main(s), NEW c \in Consumer, OthersKeep(c), TypeInv',
           take[c].pc # "verify", take'[c].pc \notin {"check", "commit", "verify"}, optimistic' = optimistic, made' = made,
           \A q \in Producer : /\ overcommit[q] <= overcommit'[q]
                               /\ Since(s, headIndex'[q]) + Total(Grant(take', q))
                                    = Since(s, headIndex[q]) + Total(Grant(take, q))
    PROVE  SeenInv(s)'
<1>1. \A d \in Consumer : TakeOK(take[d]) /\ TakeOK(take'[d])
  BY DEF Main, TypeInv
<1>. SUFFICES ASSUME NEW d \in Consumer PROVE Early(s, take[d])' /\ (take'[d].pc = "verify" => Looks(s, d)')
  BY DEF SeenInv
<1>2. Early(s, take[d])'
  <2>1. CASE d = c
    BY <2>1 DEF Early
  <2>2. CASE d # c /\ take[d].pc \in {"check", "commit", "verify"}
    <3>1. take'[d] = take[d] /\ Early(s, take[d]) /\ take[d].p \in Producer /\ take[d].over \in Counter
      BY <1>1, <2>2 DEF OthersKeep, Main, SeenInv, TakeOK, Trial, Counting, Asking
    <3>2. overcommit[take[d].p] \in Nat /\ overcommit'[take[d].p] \in Counter /\ Counter \subseteq Nat
          /\ overcommit[take[d].p] <= overcommit'[take[d].p]
      BY <3>1, Ranges DEF TypeInv
    <3>3. take[d].over <= overcommit[take[d].p]
      BY <2>2, <3>1 DEF Early
    <3>. DEFINE a == take[d].over b == overcommit[take[d].p] b1 == overcommit'[take[d].p]
    <3>4. a \in Nat /\ b \in Nat /\ b1 \in Nat /\ a <= b /\ b <= b1
      BY <3>1, <3>2, <3>3
    <3>. HIDE DEF a, b, b1
    <3>5. a <= b1
      BY <3>4
    <3>. QED
      BY <3>1, <3>5 DEF Early, a, b1
  <2>3. CASE d # c /\ take[d].pc \notin {"check", "commit", "verify"}
    BY <2>3 DEF Early, OthersKeep
  <2>. QED
    BY <2>1, <2>2, <2>3
<1>3. ASSUME take'[d].pc = "verify" PROVE Looks(s, d)'
  <2>. DEFINE q == take[d].p
  <2>0. d # c
    BY <1>3
  <2>1. take[d].pc = "verify" /\ take'[d] = take[d] /\ q \in Producer /\ Looks(s, d)
    BY <1>3, <2>0, OthersLook
  <2>2. ASSUME NEW e \in Consumer \ {d}, Verifies(take'[e], q) PROVE Apart(s, take[d], take'[e])
    BY <2>1, <2>2 DEF Looks, OthersKeep, Verifies
  <2>3. Total(Ahead(take', s, d)) = Total(Ahead(take, s, d))
    <3>1. Ahead(take, s, d)[c] = 0 /\ Ahead(take', s, d)[c] = 0
      BY DEF Ahead, Verifies
    <3>2. /\ Total(Ahead(take, s, d)) \in Nat
          /\ Total(Ahead(take', s, d)) = Total(Ahead(take, s, d)) - Ahead(take, s, d)[c] + Ahead(take', s, d)[c]
      BY <1>1, <2>0, <2>1, OneChanges
    <3>. QED
      BY <3>1, <3>2
  <2>4. Before(take, s, d)' = Before(take, s, d)
    BY <2>1, <2>3 DEF Before
  <2>. QED
    BY <2>1, <2>2, <2>4 DEF Looks
<1>. QED
  BY <1>2, <1>3

LEMMA ExcessStep ==
    ASSUME QueueAssumption, NEW s \in Counter, Main(s), TypeInv', NEW c \in Consumer, CountExcessOut(c, Skipped(c)),
           UNCHANGED <<made, takes>>
    PROVE  Main(s)'
<1>. DEFINE t == take[c] u == take'[c] p == t.p w == t.want n == t.n v == overcommit[p] o == Since(s, optimistic[p])
<1>1. /\ OthersKeep(c) /\ t.pc = "excess" /\ w \in Nat \ {0} /\ n \in 0..(w - 1)
      /\ IF n = 0 THEN OnTo(t, t.rest, u) ELSE u.pc = "claim" /\ Stays(t, u) /\ u.want = n /\ u.n = n
  BY ExcessEffect DEF Main
<1>2. \A d \in Consumer : TakeOK(take[d]) /\ TakeOK(take'[d])
  BY DEF Main, TypeInv
<1>3. p \in Producer
  BY <1>1, <1>2 DEF TakeOK, Trial, Counting, Asking
<1>4. /\ overcommit' = [overcommit EXCEPT ![p] = Plus(@, w - n)] /\ tailIndex' = tailIndex /\ headIndex' = headIndex
      /\ optimistic' = optimistic /\ made' = made /\ takes' = takes
  BY DEF CountExcessOut
<1>5. \A q \in Producer : overcommit'[q] = IF q = p THEN Plus(v, w - n) ELSE overcommit[q]
  BY <1>4 DEF Main, TypeInv
<1>6. u.pc \in {"return", "load", "claim"} /\ (u.pc # "claim" <=> n = 0) /\ \A q : May(u, q) => May(t, q)
  <2>1. CASE n = 0
    BY <1>1, <2>1 DEF OnTo, May
  <2>2. CASE n # 0
    BY <1>1, <2>2 DEF Stays, May
  <2>. QED
    BY <2>1, <2>2
<1>7. AskedInv(s)'
  <2>1. \A d \in Consumer : \A q : May(take'[d], q) => May(take[d], q)
    BY <1>1, <1>6 DEF OthersKeep
  <2>2. takes \in Nat /\ \A q \in Producer : Since(s, optimistic[q]) \in Int
    BY Ranges, Constants DEF Main, TypeInv
  <2>. QED
    BY <1>4, <2>1, <2>2, AskedStays DEF Main
<1>8. ASSUME NEW q \in Producer PROVE
        /\ Total(Want(take', q)) = Total(Want(take, q)) - (IF q = p THEN w - n ELSE 0)
        /\ Total(Grant(take', q)) = Total(Grant(take, q))
  <2>1. /\ Want(take, q)[c] = (IF q = p THEN w ELSE 0) /\ Want(take', q)[c] = (IF q = p THEN n ELSE 0)
        /\ Grant(take, q)[c] = Grant(take', q)[c]
    <3>1. CASE n = 0
      BY <1>1, <1>6, <3>1 DEF Want, Grant, Asking
    <3>2. CASE n # 0
      BY <1>1, <1>6, <3>2 DEF Want, Grant, Asking, Stays
    <3>. QED
      BY <3>1, <3>2
  <2>2. /\ Total(Want(take, q)) \in Nat /\ Total(Grant(take, q)) \in Nat /\ Grant(take, q)[c] \in Nat
        /\ Total(Want(take', q)) = Total(Want(take, q)) - Want(take, q)[c] + Want(take', q)[c]
        /\ Total(Grant(take', q)) = Total(Grant(take, q)) - Grant(take, q)[c] + Grant(take', q)[c]
    BY <1>1, <1>2, OneChanges, Ranges
  <2>. HIDE DEF n, w
  <2>. QED
    BY <1>1, <2>1, <2>2
<1>9. Plus(v, w - n) = v + (w - n) /\ v + (w - n) \in Nat /\ v \in Nat
  <2>. DEFINE h == Since(s, headIndex[p]) all == Total(Want(take, p))
  <2>1. o - v = h + all /\ o \in Nat /\ v \in Nat /\ h \in Nat /\ all \in Nat /\ o <= Half /\ Half < Wrap
    BY <1>3, Ranges
  <2>2. w <= all
    <3>1. Want(take, p) \in Numbers /\ Want(take, p)[c] = w
      BY <1>1, <1>2, Weights DEF Want, Asking
    <3>. QED
      BY <3>1, TotalHas
  <2>3. Half \in Nat /\ Wrap \in Nat \ {0}
    BY Constants
  <2>. HIDE DEF h, all, o, v, w, n
  <2>4. v + (w - n) \in 1..(Wrap - 1)
    BY <1>1, <2>1, <2>2, <2>3
  <2>5. (v + (w - n)) % Wrap = v + (w - n)
    BY <2>3, <2>4, ModNear
  <2>. QED
    BY <2>1, <2>4, <2>5 DEF Plus
<1>10. CountInv(s)'
  <2>. SUFFICES ASSUME NEW q \in Producer PROVE
        /\ Since(s, tailIndex[q]) = made[q]
        /\ Since(s, headIndex[q]) + Total(Grant(take', q)) <= made[q]
        /\ Since(s, optimistic[q]) - overcommit'[q] = Since(s, headIndex[q]) + Total(Want(take', q))
    BY <1>4 DEF CountInv
  <2>. DEFINE h == Since(s, headIndex[q]) all == Total(Want(take, q)) a == Since(s, optimistic[q]) b == overcommit[q]
              k == IF q = p THEN w - n ELSE 0
  <2>1. a - b = h + all /\ a \in Nat /\ b \in Nat /\ h \in Nat /\ all \in Nat /\ h + Total(Grant(take, q)) <= made[q]
        /\ Since(s, tailIndex[q]) = made[q]
    BY Ranges
  <2>2. overcommit'[q] = b + k /\ Total(Want(take', q)) = all - k
    BY <1>5, <1>8, <1>9, <2>1
  <2>3. k \in Int
    BY <1>1
  <2>. HIDE DEF h, all, a, b, k
  <2>4. a - (b + k) = h + (all - k)
    BY <2>1, <2>3
  <2>. QED
    BY <1>8, <2>1, <2>2, <2>4 DEF a, h
<1>11. SeenInv(s)'
  <2>1. \A q \in Producer : overcommit[q] <= overcommit'[q]
    <3>. SUFFICES ASSUME NEW q \in Producer PROVE overcommit[q] <= overcommit'[q]
      OBVIOUS
    <3>1. overcommit[q] \in Nat
      BY Ranges
    <3>2. v <= v + (w - n)
      <4>. HIDE DEF v, w, n
      <4>. QED
        BY <1>1, <1>9
    <3>. QED
      BY <1>5, <1>9, <3>1, <3>2
  <2>2. \A q \in Producer : Since(s, headIndex'[q]) + Total(Grant(take', q)) = Since(s, headIndex[q]) + Total(Grant(take, q))
    BY <1>4, <1>8
  <2>. QED
    BY <1>1, <1>4, <1>6, <2>1, <2>2, LooksOn
<1>. QED
  BY <1>7, <1>10, <1>11 DEF Main

LEMMA ClaimStep ==
    ASSUME QueueAssumption, NEW s \in Counter, Main(s), TypeInv', NEW c \in Consumer, Claim(c), UNCHANGED <<made, takes>>
    PROVE  Main(s)'
<1>. DEFINE t == take[c] u == take'[c] p == t.p n == t.n
<1>1. OthersKeep(c) /\ t.pc = "claim" /\ n \in Nat \ {0} /\ t.want = n /\ u.pc = "index" /\ Stays(t, u)
  BY ClaimEffect DEF Main
<1>2. \A d \in Consumer : TakeOK(take[d]) /\ TakeOK(take'[d])
  BY DEF Main, TypeInv
<1>3. p \in Producer
  BY <1>1, <1>2 DEF TakeOK, Trial, Counting, Asking
<1>4. /\ headIndex' = [headIndex EXCEPT ![p] = Plus(@, n)] /\ tailIndex' = tailIndex /\ overcommit' = overcommit
      /\ optimistic' = optimistic /\ made' = made /\ takes' = takes
  BY DEF Claim
<1>5. \A q \in Producer : headIndex'[q] = IF q = p THEN Plus(headIndex[p], n) ELSE headIndex[q]
  BY <1>4 DEF Main, TypeInv
<1>6. AskedInv(s)'
  <2>1. \A d \in Consumer : \A q : May(take'[d], q) => May(take[d], q)
    BY <1>1 DEF OthersKeep, May, Stays
  <2>2. takes \in Nat /\ \A q \in Producer : Since(s, optimistic[q]) \in Int
    BY Ranges, Constants DEF Main, TypeInv
  <2>. QED
    BY <1>4, <2>1, <2>2, AskedStays DEF Main
<1>7. ASSUME NEW q \in Producer PROVE
        /\ Total(Want(take', q)) = Total(Want(take, q)) - (IF q = p THEN n ELSE 0)
        /\ Total(Grant(take', q)) = Total(Grant(take, q)) - (IF q = p THEN n ELSE 0)
        /\ (q = p => n <= Total(Grant(take, q)))
  <2>1. /\ Want(take, q)[c] = (IF q = p THEN n ELSE 0) /\ Want(take', q)[c] = 0
        /\ Grant(take, q)[c] = (IF q = p THEN n ELSE 0) /\ Grant(take', q)[c] = 0
    BY <1>1 DEF Want, Grant, Asking
  <2>2. /\ Total(Want(take, q)) \in Nat /\ Total(Grant(take, q)) \in Nat
        /\ Total(Want(take', q)) = Total(Want(take, q)) - Want(take, q)[c] + Want(take', q)[c]
        /\ Total(Grant(take', q)) = Total(Grant(take, q)) - Grant(take, q)[c] + Grant(take', q)[c]
    BY <1>1, <1>2, OneChanges, Ranges
  <2>3. Grant(take, q)[c] <= Total(Grant(take, q))
    BY <1>2, Weights, TotalHas
  <2>. HIDE DEF n
  <2>. QED
    BY <1>1, <2>1, <2>2, <2>3
<1>8. ASSUME NEW q \in Producer PROVE Since(s, headIndex'[q]) = Since(s, headIndex[q]) + (IF q = p THEN n ELSE 0)
  <2>. DEFINE h == Since(s, headIndex[q]) g == Total(Grant(take, q))
  <2>1. h + g <= made[q] /\ h \in Nat /\ g \in Nat /\ made[q] \in Nat /\ made[q] < Half /\ Half < Wrap
    BY Ranges
  <2>2. Half \in Nat /\ Wrap \in Nat
    BY Constants
  <2>3. CASE q = p
    <3>1. n <= g
      BY <1>7, <2>3
    <3>. HIDE DEF h, g, n
    <3>2. h + n < Wrap
      BY <1>1, <2>1, <2>2, <3>1
    <3>3. headIndex[q] \in Counter /\ n \in Nat
      BY <1>1, Ranges
    <3>4. Since(s, Plus(headIndex[q], n)) = h + n
      BY <3>2, <3>3, SincePlus DEF h
    <3>. QED
      BY <1>5, <2>3, <3>4 DEF h, n
  <2>4. CASE q # p
    BY <1>5, <2>1, <2>4
  <2>. QED
    BY <2>3, <2>4
<1>9. CountInv(s)'
  <2>. SUFFICES ASSUME NEW q \in Producer PROVE
        /\ Since(s, tailIndex[q]) = made[q]
        /\ Since(s, headIndex'[q]) + Total(Grant(take', q)) <= made[q]
        /\ Since(s, optimistic[q]) - overcommit[q] = Since(s, headIndex'[q]) + Total(Want(take', q))
    BY <1>4 DEF CountInv
  <2>. DEFINE h == Since(s, headIndex[q]) all == Total(Want(take, q)) g == Total(Grant(take, q)) k == IF q = p THEN n ELSE 0
              a == Since(s, optimistic[q]) b == overcommit[q]
  <2>1. a - b = h + all /\ h + g <= made[q] /\ a \in Nat /\ b \in Nat /\ h \in Nat /\ g \in Nat /\ all \in Nat
        /\ made[q] \in Nat /\ Since(s, tailIndex[q]) = made[q]
    BY Ranges
  <2>2. Since(s, headIndex'[q]) = h + k /\ Total(Want(take', q)) = all - k /\ Total(Grant(take', q)) = g - k
    BY <1>7, <1>8
  <2>3. k \in Int
    BY <1>1
  <2>. HIDE DEF h, all, g, k, a, b
  <2>4. (h + k) + (g - k) <= made[q] /\ a - b = (h + k) + (all - k)
    BY <2>1, <2>3
  <2>. QED
    BY <2>1, <2>2, <2>4 DEF a, b
<1>10. SeenInv(s)'
  <2>1. ASSUME NEW q \in Producer
        PROVE  /\ overcommit[q] <= overcommit'[q]
               /\ Since(s, headIndex'[q]) + Total(Grant(take', q)) = Since(s, headIndex[q]) + Total(Grant(take, q))
    <3>. DEFINE h == Since(s, headIndex[q]) g == Total(Grant(take, q)) k == IF q = p THEN n ELSE 0
    <3>1. h \in Nat /\ g \in Nat /\ k \in Int /\ overcommit[q] \in Nat /\ overcommit'[q] = overcommit[q]
      BY <1>1, <1>4, Ranges
    <3>2. Since(s, headIndex'[q]) = h + k /\ Total(Grant(take', q)) = g - k
      BY <1>7, <1>8
    <3>. HIDE DEF h, g, k
    <3>3. (h + k) + (g - k) = h + g
      BY <3>1
    <3>. QED
      BY <3>1, <3>2, <3>3 DEF h, g
  <2>. QED
    BY <1>1, <1>4, <2>1, LooksOn
<1>. QED
  BY <1>6, <1>9, <1>10 DEF Main

LEMMA PublishStep ==
    ASSUME QueueAssumption, NEW s \in Counter, Main(s), TypeInv', NEW p \in Producer, Publish(p)
    PROVE  Main(s)'
<1>1. PICK n \in Nat : /\ made[p] + n <= MaxItems
                       /\ tailIndex' = [tailIndex EXCEPT ![p] = Plus(@, n)] /\ made' = [made EXCEPT ![p] = @ + n]
  BY PublishEffect DEF Main
<1>2. headIndex' = headIndex /\ optimistic' = optimistic /\ overcommit' = overcommit /\ take' = take /\ takes' = takes
  BY PublishEffect DEF Main
<1>3. ASSUME NEW q \in Producer PROVE
        made'[q] \in Nat /\ made[q] \in Nat /\ made[q] <= made'[q] /\ Since(s, tailIndex'[q]) = made'[q]
  <2>1. made[q] \in Nat /\ tailIndex[q] \in Counter /\ Since(s, tailIndex[q]) = made[q]
    BY Ranges
  <2>2. CASE q # p
    BY <1>1, <2>1, <2>2 DEF Main, TypeInv
  <2>3. CASE q = p
    <3>1. made'[q] = made[q] + n /\ tailIndex'[q] = Plus(tailIndex[q], n)
      BY <1>1, <2>3 DEF Main, TypeInv
    <3>2. made[q] + n < Wrap
      BY <1>1, <2>1, <2>3, Constants
    <3>. QED
      BY <2>1, <3>1, <3>2, SincePlus
  <2>. QED
    BY <2>2, <2>3
<1>4. CountInv(s)'
  <2>. SUFFICES ASSUME NEW q \in Producer PROVE
        /\ Since(s, headIndex[q]) + Total(Grant(take, q)) <= made'[q]
        /\ Since(s, optimistic[q]) - overcommit[q] = Since(s, headIndex[q]) + Total(Want(take, q))
    BY <1>2, <1>3 DEF CountInv
  <2>. DEFINE a == Since(s, headIndex[q]) + Total(Grant(take, q))
  <2>1. a \in Nat /\ a <= made[q]
    BY Ranges
  <2>. HIDE DEF a
  <2>2. a <= made'[q]
    BY <1>3, <2>1
  <2>. QED
    BY <2>2, Ranges DEF a
<1>5. AskedInv(s)'
  BY <1>2 DEF Main, AskedInv
<1>6. SeenInv(s)'
  <2>. SUFFICES ASSUME NEW c \in Consumer PROVE Early(s, take[c])' /\ (take[c].pc = "verify" => Looks(s, c)')
    BY <1>2 DEF SeenInv
  <2>1. TakeOK(take[c]) /\ Early(s, take[c])
    BY DEF Main, TypeInv, SeenInv
  <2>2. Early(s, take[c])'
    <3>1. CASE take[c].pc = "check"
      <4>1. take[c].p \in Producer /\ take[c].tail \in Int
        BY <2>1, <3>1, Constants DEF TakeOK, Trial, Counting, Counter
      <4>2. Since(s, take[c].tail) \in Counter /\ Counter \subseteq Nat
        <5>1. Since(s, take[c].tail) \in Counter
          BY <4>1, SinceType
        <5>. QED
          BY <5>1, Constants DEF Counter
      <4>. DEFINE a == Since(s, take[c].tail)
      <4>3. a \in Nat /\ a <= made[take[c].p]
        BY <2>1, <3>1, <4>2 DEF Early
      <4>. HIDE DEF a
      <4>4. a <= made'[take[c].p]
        BY <1>3, <4>1, <4>3
      <4>. QED
        BY <1>2, <2>1, <3>1, <4>4 DEF Early, a
    <3>2. CASE take[c].pc # "check"
      BY <1>2, <2>1, <3>2 DEF Early
    <3>. QED
      BY <3>1, <3>2
  <2>3. ASSUME take[c].pc = "verify" PROVE Looks(s, c)'
    <3>. DEFINE q == take[c].p b == Before(take, s, c) w == take[c].want
    <3>1. q \in Producer /\ Looks(s, c) /\ w \in Nat /\ b \in Nat
      <4>1. q \in Producer /\ Looks(s, c)
        BY <2>1, <2>3 DEF TakeOK, Trial, Counting, Asking, Main, SeenInv
      <4>2. w \in Nat
        BY <2>1, <2>3, Constants DEF TakeOK, Asking
      <4>. QED
        BY <4>1, <4>2, BeforeType
    <3>2. Before(take, s, c)' = b
      BY <1>2 DEF Before
    <3>3. b + w <= made[q] => b + w <= made'[q]
      <4>. HIDE DEF b, w
      <4>. QED
        BY <1>3, <3>1
    <3>4. b + w <= made[q] \/ b <= Since(s, take[c].mine) - take[c].over
      BY <3>1 DEF Looks
    <3>. QED
      BY <1>2, <3>1, <3>2, <3>3, <3>4 DEF Looks
  <2>. QED
    BY <2>2, <2>3
<1>. QED
  BY <1>4, <1>5, <1>6 DEF Main

LEMMA LoadStep ==
    ASSUME QueueAssumption, NEW s \in Counter, Main(s), TypeInv', NEW c \in Consumer, LoadCounts(c), UNCHANGED <<made, takes>>
    PROVE  Main(s)'
<1>. DEFINE t == take[c] u == take'[c] p == t.p
<1>1. OthersKeep(c) /\ t.pc = "load" /\ u.pc = "check" /\ Stays(t, u) /\ u.tail = tailIndex[p] /\ u.over = overcommit[p]
  BY LoadEffect DEF Main
<1>2. Counts' = Counts /\ made' = made /\ takes' = takes
  BY DEF LoadCounts
<1>3. p \in Producer
  BY <1>1 DEF Main, TypeInv, TakeOK, Trial
<1>4. AskedInv(s)'
  <2>1. \A d \in Consumer : \A q : May(take'[d], q) => May(take[d], q)
    BY <1>1 DEF OthersKeep, May, Stays
  <2>2. takes \in Nat /\ \A q \in Producer : Since(s, optimistic[q]) \in Int
    BY Ranges, Constants DEF Main, TypeInv
  <2>. QED
    BY <1>2, <2>1, <2>2, AskedStays DEF Main, Counts
<1>5. \A d \in Consumer : Alike(take[d], take'[d])
  BY <1>1 DEF OthersKeep, Alike, Asking
<1>6. ASSUME NEW d \in Consumer PROVE Early(s, take[d])'
  <2>1. CASE d = c
    <3>1. Since(s, u.tail) = made[p] /\ made[p] \in Nat /\ overcommit[p] \in Nat
      BY <1>1, <1>3, Ranges
    <3>. QED
      BY <1>1, <1>2, <2>1, <3>1 DEF Early, Counts, Stays
  <2>2. CASE d # c
    <3>1. Early(s, take[d]) /\ take'[d] = take[d]
      BY <1>1, <2>2 DEF Main, SeenInv, OthersKeep
    <3>. QED
      BY <1>2, <3>1 DEF Early, Counts
  <2>. QED
    BY <2>1, <2>2
<1>. QED
  BY <1>2, <1>4, <1>5, <1>6, QuietStep

LEMMA CheckStep ==
    ASSUME QueueAssumption, NEW s \in Counter, Main(s), TypeInv', NEW c \in Consumer, Check(c, Skipped(c)),
           UNCHANGED <<made, takes>>
    PROVE  Main(s)'
<1>. DEFINE t == take[c] u == take'[c]
<1>1. /\ OthersKeep(c) /\ t.pc = "check"
      /\ (u.pc = "commit" /\ Stays(t, u) /\ u.over = t.over) \/ OnTo(t, t.rest, u)
  BY CheckEffect DEF Main
<1>2. Counts' = Counts /\ made' = made /\ takes' = takes
  BY DEF Check
<1>3. \A q : May(u, q) => May(t, q)
  BY <1>1 DEF May, Stays, OnTo
<1>4. AskedInv(s)'
  <2>1. \A d \in Consumer : \A q : May(take'[d], q) => May(take[d], q)
    BY <1>1, <1>3 DEF OthersKeep
  <2>2. takes \in Nat /\ \A q \in Producer : Since(s, optimistic[q]) \in Int
    BY Ranges, Constants DEF Main, TypeInv
  <2>. QED
    BY <1>2, <2>1, <2>2, AskedStays DEF Main, Counts
<1>5. \A d \in Consumer : Alike(take[d], take'[d])
  BY <1>1 DEF OthersKeep, Alike, Asking, OnTo
<1>6. ASSUME NEW d \in Consumer PROVE Early(s, take[d])'
  <2>1. Early(s, take[d])
    BY DEF Main, SeenInv
  <2>2. CASE d = c
    BY <1>1, <1>2, <2>1, <2>2 DEF Early, Counts, Stays, OnTo
  <2>3. CASE d # c
    BY <1>1, <1>2, <2>1, <2>3 DEF Early, Counts, OthersKeep
  <2>. QED
    BY <2>2, <2>3
<1>. QED
  BY <1>2, <1>4, <1>5, <1>6, QuietStep

LEMMA AwayStep ==
    ASSUME QueueAssumption, NEW s \in Counter, Main(s), TypeInv', NEW c \in Consumer, Away(c), UNCHANGED <<Counts, made, takes>>
    PROVE  Main(s)'
<1>1. AskedInv(s)'
  <2>1. \A d \in Consumer : \A q : May(take'[d], q) => May(take[d], q)
    BY DEF Away, OthersKeep
  <2>2. takes \in Nat /\ \A q \in Producer : Since(s, optimistic[q]) \in Int
    BY Ranges, Constants DEF Main, TypeInv
  <2>. QED
    BY <2>1, <2>2, AskedStays DEF Main, Counts
<1>2. \A d \in Consumer : Alike(take[d], take'[d])
  BY DEF Away, OthersKeep, Alike, Counting
<1>3. ASSUME NEW d \in Consumer PROVE Early(s, take[d])'
  <2>1. Early(s, take[d])
    BY DEF Main, SeenInv
  <2>2. CASE d = c
    BY <2>2 DEF Away, Early, Counting, Asking
  <2>3. CASE d # c
    BY <2>1, <2>3 DEF Early, Counts, Away, OthersKeep
  <2>. QED
    BY <2>2, <2>3
<1>. QED
  BY <1>1, <1>2, <1>3, QuietStep

LEMMA DequeueStep ==
    ASSUME QueueAssumption, NEW s \in Counter, Main(s), TypeInv', NEW c \in Consumer,
           NEW bulk \in BOOLEAN, NEW n \in TakeSizes \cup {1}, Dequeue(c, bulk, n)
    PROVE  Main(s)'
<1>. DEFINE u == take'[c]
<1>1. /\ take[c].pc = "idle" /\ takes' = takes + 1 /\ u.pc \in {"size", "load"}
      /\ \A d \in Consumer \ {c} : take'[d] = [take[d] EXCEPT !.alone = FALSE]
  BY DequeueEffect DEF Main
<1>2. Counts' = Counts /\ made' = made
  BY DEF Dequeue
<1>3. ASSUME NEW d \in Consumer \ {c} PROVE
        /\ take'[d].pc = take[d].pc /\ take'[d].p = take[d].p /\ take'[d].want = take[d].want /\ take'[d].n = take[d].n
        /\ take'[d].mine = take[d].mine /\ take'[d].over = take[d].over /\ take'[d].tail = take[d].tail
        /\ take'[d].rest = take[d].rest
  <2>1. DOMAIN take[d] = Fields
    BY DEF Main, TypeInv, TakeOK
  <2>. QED
    BY <1>1, <2>1 DEF Fields
<1>4. AskedInv(s)'
  <2>. SUFFICES ASSUME NEW p \in Producer
                PROVE  Since(s, optimistic[p]) + Most * Cardinality(Yet(take', p)) <= Most * (takes + 1)
    BY <1>1, <1>2 DEF AskedInv, Counts
  <2>. DEFINE i == Cardinality(Yet(take', p)) j == Cardinality(Yet(take, p))
  <2>1. i \in Nat /\ j \in Nat /\ i <= j + 1
    <3>1. Yet(take', p) \subseteq Yet(take, p) \cup {c}
      BY <1>3 DEF Yet, May
    <3>2. IsFiniteSet(Yet(take, p) \cup {c}) /\ Cardinality(Yet(take, p) \cup {c}) \in {j, j + 1}
      BY YetFinite, FS_AddElement
    <3>3. i <= Cardinality(Yet(take, p) \cup {c})
      BY <3>1, <3>2, FS_Subset
    <3>4. i \in Nat /\ j \in Nat
      BY YetFinite
    <3>. QED
      BY <3>2, <3>3, <3>4
  <2>2. Since(s, optimistic[p]) + Most * j <= Most * takes /\ takes \in Nat /\ Since(s, optimistic[p]) \in Nat
    BY Ranges, Constants DEF Main, TypeInv, AskedInv
  <2>. HIDE DEF i, j
  <2>3. /\ Most * i <= Most * (j + 1) /\ Most * (j + 1) = Most * j + Most /\ Most * (takes + 1) = Most * takes + Most
        /\ Most * i \in Nat /\ Most * j \in Nat /\ Most * takes \in Nat /\ Most \in Nat
    <3>1. j + 1 \in Nat /\ Most * i <= Most * (j + 1) /\ Most * (j + 1) = Most * j + Most
      BY <2>1, MostMono
    <3>2. takes <= takes /\ Most * (takes + 1) = Most * takes + Most
      BY <2>2, MostMono
    <3>3. Most * i \in Nat /\ Most * j \in Nat /\ Most * takes \in Nat /\ Most \in Nat
      <4>1. \A k \in Nat : k <= k /\ Most * k \in Nat
        BY MostMono
      <4>. QED
        BY <2>1, <2>2, <4>1, Constants
    <3>. QED
      BY <3>1, <3>2, <3>3
  <2>. DEFINE a == Most * i b == Most * j d == Most * takes o == Since(s, optimistic[p])
  <2>4. o + b <= d /\ a <= b + Most /\ a \in Nat /\ b \in Nat /\ d \in Nat /\ o \in Nat /\ Most \in Nat
    BY <2>2, <2>3
  <2>. HIDE DEF a, b, d, o
  <2>5. o + a <= d + Most
    BY <2>4
  <2>. QED
    BY <2>3, <2>5 DEF o, a, d, i
<1>5. \A d \in Consumer : Alike(take[d], take'[d])
  BY <1>1, <1>3 DEF Alike, Asking
<1>6. ASSUME NEW d \in Consumer PROVE Early(s, take[d])'
  <2>1. Early(s, take[d])
    BY DEF Main, SeenInv
  <2>2. CASE d = c
    BY <1>1, <2>2 DEF Early
  <2>3. CASE d # c
    BY <1>2, <1>3, <2>1, <2>3 DEF Early, Counts
  <2>. QED
    BY <2>2, <2>3
<1>. QED
  BY <1>2, <1>4, <1>5, <1>6, QuietStep

-----------------------------------------------------------------------------
(* The specification *)

\* A consumer's step that leaves the producers alone.
Takings(c) ==
    \/ \E n \in TakeSizes : Dequeue(c, TRUE, n)
    \/ Dequeue(c, FALSE, 1)
    \/ Size(c) \/ Return(c) \/ CountedTake(c) \/ FindIndex(c) \/ FindTail(c) \/ FindSlot(c) \/ Move(c) \/ SetEmpty(c)
    \/ Unlink(c) \/ Free(c)

LEMMA Steps == [Next]_vars =>
    \/ \E p \in Producer : AddsOnly(p) \/ Publish(p)
    \/ \E c \in Consumer : Takings(c)
    \/ UNCHANGED vars
BY DEF Next, AddsOnly, Takings, Rest

\* What a step of a consumer that does not take from the counters is.
LEMMA AwaySteps ==
    ASSUME QueueAssumption, TypeInv, NEW c \in Consumer,
           \/ Size(c) \/ Return(c) \/ FindIndex(c) \/ FindTail(c) \/ FindSlot(c) \/ Move(c) \/ SetEmpty(c)
           \/ Unlink(c) \/ Free(c)
    PROVE  Away(c) /\ UNCHANGED <<Counts, made, add, takes>>
<1>1. Away(c)
  BY SizeEffect, ReturnEffect, FindEffect, MoveEffect, EmptyEffect DEF Goes
<1>. QED
  BY <1>1 DEF Size, Return, FindIndex, FindTail, FindSlot, Move, SetEmpty, Unlink, Free

\* Counting in and out keeps the consumers and the counters what they are.
LEMMA CountedType ==
    ASSUME QueueAssumption, TypeInv, NEW c \in Consumer, CountedTake(c)
    PROVE  TypeInv'
<1>. DEFINE t == take[c] p == t.p
<1>1. UNCHANGED <<made, add, takes>> /\ TakeStep(c, Skipped(c))
  BY DEF CountedTake, Blocks, Index, Skipped
<1>2. OthersKeep(c) /\ TakeOK(take'[c]) /\ p \in Producer
  <2>1. t.pc \in Trial => p \in Producer
    BY AtTrial
  <2>. QED
    BY <1>1, <2>1, LoadEffect, CheckEffect, CommitEffect, VerifyEffect, ExcessEffect, ClaimEffect
       DEF TakeStep, Stays, OnTo, Trial, Counting, Asking
<1>3. \A x \in Int, y \in Int : Plus(x, y) \in Counter
  BY Whole
<1>4. /\ tailIndex' = tailIndex
      /\ headIndex' \in [Producer -> Counter] /\ optimistic' \in [Producer -> Counter] /\ overcommit' \in [Producer -> Counter]
  <2>0. headIndex \in [Producer -> Counter] /\ optimistic \in [Producer -> Counter] /\ overcommit \in [Producer -> Counter]
        /\ Counter \subseteq Int
    BY Constants DEF TypeInv, Counter
  <2>1. CASE LoadCounts(c) \/ Check(c, Skipped(c)) \/ Verify(c)
    BY <2>0, <2>1 DEF LoadCounts, Check, Verify, Counts
  <2>2. CASE Commit(c)
    <3>1. t.want \in Int /\ optimistic[p] \in Int
      <4>1. t.want \in Int
        BY <2>2, CommitEffect, Constants
      <4>. QED
        BY <1>2, <2>0, <4>1
    <3>2. Plus(optimistic[p], t.want) \in Counter
      BY <1>3, <3>1
    <3>. QED
      BY <2>0, <2>2, <3>2 DEF Commit
  <2>3. CASE CountExcessOut(c, Skipped(c))
    <3>1. t.want - t.n \in Int /\ overcommit[p] \in Int
      <4>1. t.want - t.n \in Int
        BY <2>3, ExcessEffect, Constants
      <4>. QED
        BY <1>2, <2>0, <4>1
    <3>2. Plus(overcommit[p], t.want - t.n) \in Counter
      BY <1>3, <3>1
    <3>. QED
      BY <2>0, <2>3, <3>2 DEF CountExcessOut
  <2>4. CASE Claim(c)
    <3>1. t.n \in Int /\ headIndex[p] \in Int
      <4>1. t.n \in Int
        BY <2>4, ClaimEffect, Constants
      <4>. QED
        BY <1>2, <2>0, <4>1
    <3>2. Plus(headIndex[p], t.n) \in Counter
      BY <1>3, <3>1
    <3>. QED
      BY <2>0, <2>4, <3>2 DEF Claim
  <2>. QED
    BY <1>1, <2>1, <2>2, <2>3, <2>4 DEF TakeStep
<1>5. takes' \in 0..MaxTakes /\ DOMAIN take' = Consumer /\ \A d \in Consumer : TakeOK(take'[d])
  BY <1>1, <1>2 DEF TypeInv, OthersKeep
<1>. QED
  BY <1>1, <1>4, <1>5, TakesType

LEMMA TypeStep == ASSUME QueueAssumption, TypeInv, [Next]_vars PROVE TypeInv'
<1>1. ASSUME NEW p \in Producer, AddsOnly(p) \/ Publish(p) PROVE TypeInv'
  BY <1>1, AddsKeep, PublishEffect
<1>2. ASSUME NEW c \in Consumer, NEW bulk \in BOOLEAN, NEW n \in TakeSizes \cup {1}, Dequeue(c, bulk, n) PROVE TypeInv'
  <2>1. /\ DOMAIN take' = Consumer /\ takes' \in 0..MaxTakes /\ TakeOK(take'[c])
        /\ \A d \in Consumer \ {c} : take'[d] = [take[d] EXCEPT !.alone = FALSE]
    BY <1>2, DequeueEffect
  <2>2. UNCHANGED <<Counts, made, add>>
    BY <1>2 DEF Dequeue
  <2>3. ASSUME NEW d \in Consumer \ {c} PROVE TakeOK(take'[d])
    <3>. DEFINE t == take[d] u == [t EXCEPT !.alone = FALSE]
    <3>1. TakeOK(t) /\ DOMAIN t = Fields
      BY DEF TypeInv, TakeOK
    <3>2. /\ DOMAIN u = Fields /\ u.alone = FALSE /\ u.pc = t.pc /\ u.rest = t.rest /\ u.best = t.best /\ u.size = t.size
          /\ u.found = t.found /\ u.max = t.max /\ u.got = t.got /\ u.p = t.p /\ u.tail = t.tail /\ u.over = t.over
          /\ u.want = t.want /\ u.mine = t.mine /\ u.n = t.n /\ u.index = t.index /\ u.moved = t.moved
      BY <3>1 DEF Fields
    <3>3. u.alone \in BOOLEAN /\ ~u.alone
      BY <3>2
    <3>. HIDE DEF u
    <3>4. TakeOK(u)
      BY <3>1, <3>2, <3>3 DEF TakeOK
    <3>. QED
      BY <2>1, <3>4 DEF u
  <2>4. /\ headIndex' \in [Producer -> Counter] /\ optimistic' \in [Producer -> Counter]
        /\ overcommit' \in [Producer -> Counter] /\ UNCHANGED <<tailIndex, made, add>>
    BY <2>2 DEF TypeInv, Counts
  <2>. QED
    BY <2>1, <2>3, <2>4, TakesType
<1>3. ASSUME NEW c \in Consumer, Away(c), UNCHANGED <<Counts, made, add, takes>> PROVE TypeInv'
  <2>1. /\ headIndex' \in [Producer -> Counter] /\ optimistic' \in [Producer -> Counter]
        /\ overcommit' \in [Producer -> Counter] /\ UNCHANGED <<tailIndex, made, add>> /\ takes' \in 0..MaxTakes
    BY <1>3 DEF TypeInv, Counts
  <2>2. DOMAIN take' = Consumer /\ \A d \in Consumer : TakeOK(take'[d])
    BY <1>3 DEF TypeInv, Away, OthersKeep
  <2>. QED
    BY <2>1, <2>2, TakesType
<1>4. ASSUME NEW c \in Consumer, Takings(c) PROVE TypeInv'
  <2>1. CASE \E n \in TakeSizes : Dequeue(c, TRUE, n)
    BY <1>2, <2>1
  <2>2. CASE Dequeue(c, FALSE, 1)
    BY <1>2, <2>2
  <2>3. CASE CountedTake(c)
    BY <2>3, CountedType
  <2>. QED
    BY <1>3, <1>4, <2>1, <2>2, <2>3, AwaySteps DEF Takings
<1>5. CASE UNCHANGED vars
  <2>1. \A c \in Consumer : TakeOK(take'[c])
    BY <1>5 DEF TypeInv, vars
  <2>. QED
    BY <1>5, <2>1 DEF TypeInv, vars, Counts
<1>. QED
  BY <1>1, <1>4, <1>5, Steps

LEMMA MainStep == ASSUME QueueAssumption, NEW s \in Counter, Main(s), [Next]_vars PROVE Main(s)'
<1>0. TypeInv /\ TypeInv'
  BY TypeStep DEF Main
<1>1. ASSUME UNCHANGED <<Counts, made, take, takes>> PROVE Main(s)'
  <2>1. AskedInv(s)'
    BY <1>1 DEF Main, AskedInv, Counts
  <2>2. \A c \in Consumer : Alike(take[c], take'[c])
    BY <1>1 DEF Alike
  <2>3. \A c \in Consumer : Early(s, take[c])'
    BY <1>1 DEF Main, SeenInv, Early, Counts
  <2>. QED
    BY <1>0, <1>1, <2>1, <2>2, <2>3, QuietStep
<1>2. ASSUME NEW p \in Producer, AddsOnly(p) \/ Publish(p) PROVE Main(s)'
  BY <1>0, <1>1, <1>2, AddsKeep, PublishStep
<1>3. ASSUME NEW c \in Consumer, CountedTake(c) PROVE Main(s)'
  <2>1. UNCHANGED <<made, takes>> /\ TakeStep(c, Skipped(c))
    BY <1>3 DEF CountedTake, Skipped
  <2>. QED
    BY <1>0, <2>1, LoadStep, CheckStep, CommitStep, VerifyStep, ExcessStep, ClaimStep DEF TakeStep
<1>4. ASSUME NEW c \in Consumer, Takings(c) PROVE Main(s)'
  <2>1. CASE \E n \in TakeSizes : Dequeue(c, TRUE, n)
    BY <1>0, <2>1, DequeueStep
  <2>2. CASE Dequeue(c, FALSE, 1)
    BY <1>0, <2>2, DequeueStep
  <2>3. CASE CountedTake(c)
    BY <1>3, <2>3
  <2>. QED
    BY <1>0, <1>4, <2>1, <2>2, <2>3, AwaySteps, AwayStep DEF Takings
<1>. QED
  BY <1>1, <1>2, <1>4, Steps DEF vars

LEMMA Starts == ASSUME QueueAssumption, Init PROVE \E s \in Seen : Main(s) /\ AloneInv(s)
<1>1. PICK s \in Seen : tailIndex = [p \in Producer |-> s]
  BY DEF Init
<1>2. /\ headIndex = tailIndex /\ optimistic = tailIndex /\ overcommit = [p \in Producer |-> 0]
      /\ made = [p \in Producer |-> 0] /\ add = [p \in Producer |-> AddIdle] /\ take = [c \in Consumer |-> TakeIdle]
      /\ takes = 0
  BY DEF Init
<1>3. s \in Counter /\ 0 \in Counter /\ 0 \in 0..Most /\ MaxTakes \in Nat /\ MaxItems \in Nat
  BY Constants DEF Counter
<1>4. /\ TakeIdle.pc = "idle" /\ TakeIdle.rest = <<>> /\ TakeIdle.got = <<>> /\ TakeIdle.max = 0 /\ TakeIdle.alone \in BOOLEAN
      /\ ~TakeIdle.alone
  BY DEF TakeIdle
<1>5. TakeOK(TakeIdle)
  <2>1. TakeIdle.got \in Seq(Range(TakeIdle.got)) /\ TakeIdle.rest \in Seq(Producer) /\ DOMAIN TakeIdle.rest = {}
    BY <1>4, NoItems
  <2>. QED
    BY <1>3, <1>4, <2>1, Fits DEF TakeOK, Trial, Counting, Asking, Finding, Emptying
<1>6. TypeInv
  BY <1>1, <1>2, <1>3, <1>5, IdleFits DEF TypeInv
<1>7. \A c \in Consumer : take[c] = TakeIdle
  BY <1>2
<1>8. ASSUME NEW p \in Producer PROVE
        /\ Since(s, tailIndex[p]) = 0 /\ Since(s, headIndex[p]) = 0 /\ Since(s, optimistic[p]) = 0 /\ overcommit[p] = 0
        /\ made[p] = 0 /\ Total(Want(take, p)) = 0 /\ Total(Grant(take, p)) = 0 /\ Cardinality(Yet(take, p)) = 0
  <2>1. Since(s, s) = 0
    BY <1>3, SinceSelf
  <2>2. Want(take, p) \in Numbers /\ Grant(take, p) \in Numbers
    BY <1>5, <1>7, Weights
  <2>3. \A c \in Consumer : Want(take, p)[c] = 0 /\ Grant(take, p)[c] = 0
    BY <1>4, <1>7 DEF Want, Grant, Asking
  <2>4. Yet(take, p) = {}
    BY <1>4, <1>7, NoItems DEF Yet, May
  <2>. QED
    BY <1>1, <1>2, <2>1, <2>2, <2>3, <2>4, TotalZero, FS_EmptySet
<1>9. CountInv(s)
  BY <1>8 DEF CountInv
<1>10. AskedInv(s)
  <2>1. Most * 0 = 0
    BY Constants
  <2>. QED
    BY <1>2, <1>8, <2>1 DEF AskedInv
<1>11. SeenInv(s) /\ AloneInv(s)
  BY <1>4, <1>7 DEF SeenInv, Early, AloneInv
<1>. QED
  BY <1>6, <1>9, <1>10, <1>11 DEF Main

\* What is on its way is what the consumers' numbers say.
LEMMA OnTheWay == ASSUME QueueAssumption, TypeInv, NEW p \in Producer PROVE InFlight(p) = Total(Want(take, p))
<1>. DEFINE some == {c \in DOMAIN take : take[c].p = p /\ take[c].pc \in {"verify", "excess", "claim"}}
            way == UNION {{c} \X (1..take[c].want) : c \in some}
<1>1. DOMAIN take = Consumer /\ Want(take, p) \in Numbers
  BY Weights DEF TypeInv
<1>2. \A c \in some : c \in Consumer /\ Want(take, p)[c] = take[c].want
  BY <1>1 DEF Want, Asking
<1>3. \A c \in Consumer \ some : Want(take, p)[c] = 0
  BY <1>1 DEF Want, Asking
<1>. HIDE DEF some
<1>4. ASSUME NEW x, x \in way PROVE x \in Pairs(Want(take, p))
  <2>1. PICK c \in some : x \in {c} \X (1..take[c].want)
    BY <1>4
  <2>2. PICK i \in 1..take[c].want : x = <<c, i>>
    BY <2>1
  <2>3. c \in Consumer /\ i \in Int /\ i \in 1..Want(take, p)[c]
    BY <1>2, <2>2
  <2>. QED
    BY <1>1, <2>2, <2>3, PairsOf
<1>5. ASSUME NEW x, x \in Pairs(Want(take, p)) PROVE x \in way
  <2>1. PICK c \in Consumer, i \in Int : i \in 1..Want(take, p)[c] /\ x = <<c, i>>
    BY <1>1, <1>5, PairsOf
  <2>2. c \in some
    BY <1>3, <2>1
  <2>3. x \in {c} \X (1..take[c].want)
    BY <1>2, <2>1, <2>2
  <2>. QED
    BY <2>2, <2>3
<1>6. way = Pairs(Want(take, p))
  BY <1>4, <1>5
<1>. QED
  BY <1>6 DEF InFlight, Total, some

LEMMA Settled == ASSUME QueueAssumption, NEW s \in Counter, Main(s) PROVE CountsSettle
<1>. SUFFICES ASSUME NEW p \in Producer
              PROVE  /\ Plus(headIndex[p], InFlight(p)) = Minus(optimistic[p], overcommit[p])
                     /\ headIndex[p] = tailIndex[p] \/ circular_less_than(headIndex[p], tailIndex[p])
  BY DEF CountsSettle, Main, TypeInv
<1>. DEFINE h == headIndex[p] o == optimistic[p] v == overcommit[p] w == Total(Want(take, p))
<1>1. /\ h \in Counter /\ o \in Counter /\ v \in Nat /\ w \in Nat /\ Counter \subseteq Nat
      /\ Since(s, o) - v = Since(s, h) + w /\ tailIndex[p] \in Counter /\ s \in Int /\ Wrap \in Nat \ {0}
      /\ Since(s, h) \in Nat /\ Since(s, o) \in Nat
  BY Ranges, Constants DEF Counter
<1>2. Plus(h, InFlight(p)) = Minus(o, v)
  <2>1. InFlight(p) = w
    BY OnTheWay DEF Main
  <2>2. h \in Int /\ o \in Int
    <3>1. h \in Nat /\ o \in Nat
      BY <1>1, Zenon
    <3>. QED
      BY <3>1
  <2>3. PICK k \in Int : h - s = k * Wrap + Since(s, h)
    BY <1>1, <2>2, Whole
  <2>4. PICK j \in Int : o - s = j * Wrap + Since(s, o)
    BY <1>1, <2>2, Whole
  <2>. DEFINE i == j - k a == o - v b == h + w
  <2>5. a = b + i * Wrap /\ i \in Int /\ a \in Int /\ b \in Int
    <3>1. i * Wrap = j * Wrap - k * Wrap
      BY <1>1, Around
    <3>2. j * Wrap \in Int /\ k * Wrap \in Int
      BY <1>1
    <3>. DEFINE x == j * Wrap y == k * Wrap z == i * Wrap ho == Since(s, h) oo == Since(s, o)
    <3>3. h - s = y + ho /\ o - s = x + oo /\ z = x - y /\ oo - v = ho + w /\ x \in Int /\ y \in Int /\ ho \in Nat /\ oo \in Nat
      BY <1>1, <2>3, <2>4, <3>1, <3>2
    <3>. HIDE DEF x, y, z, ho, oo, h, o, v, w
    <3>4. o - v = (h + w) + z
      BY <1>1, <2>2, <3>3
    <3>. QED
      BY <1>1, <2>2, <3>4 DEF z
  <2>. HIDE DEF a, b, i
  <2>6. a % Wrap = b % Wrap
    BY <1>1, <2>5, ModSame
  <2>. QED
    BY <2>1, <2>6 DEF Plus, Minus, a, b
<1>3. h = tailIndex[p] \/ circular_less_than(h, tailIndex[p])
  <2>1. /\ Since(s, h) <= Since(s, tailIndex[p]) /\ Since(s, tailIndex[p]) - Since(s, h) < Half
        /\ Since(s, h) \in Nat /\ Since(s, tailIndex[p]) \in Nat
    <3>. DEFINE a == Since(s, h) m == made[p]
    <3>1. Since(s, tailIndex[p]) = m /\ a <= m /\ m < Half /\ a \in Nat /\ m \in Nat /\ Half \in Nat
      BY Ranges, Constants
    <3>. HIDE DEF a, m
    <3>2. m - a < Half
      BY <3>1
    <3>. QED
      BY <3>1, <3>2 DEF a
  <2>2. (circular_less_than(h, tailIndex[p]) <=> Since(s, h) < Since(s, tailIndex[p]))
        /\ (h = tailIndex[p] <=> Since(s, h) = Since(s, tailIndex[p]))
    BY <1>1, <2>1, LessSince
  <2>. QED
    BY <2>1, <2>2
<1>. QED
  BY <1>2, <1>3

\* Whatever the counters began at, and however often they wrap, the producers and the consumers are
\* always in a state that the code expects: what is asked for fits what is missing, what is claimed
\* is what was found, and no counter of items leaves its range.
THEOREM QueueTypes == QueueAssumption => (Spec => []TypeInv)
<1>. SUFFICES ASSUME QueueAssumption PROVE Spec => []TypeInv
  OBVIOUS
<1>1. Init => TypeInv
  BY Starts DEF Main
<1>2. TypeInv /\ [Next]_vars => TypeInv'
  BY TypeStep
<1>. QED
  BY <1>1, <1>2, PTL DEF Spec

\* However many consumers count themselves in and out at ProducerBase's counters, in whatever order:
\* what they have counted in and neither claimed nor counted out, and the head, make up the
\* difference of the two counters, and the head never passes the tail.
THEOREM QueueCounts == QueueAssumption => (Spec => []CountsSettle)
<1>. SUFFICES ASSUME QueueAssumption PROVE Spec => []CountsSettle
  OBVIOUS
<1>. DEFINE I == \E s \in Seen : Main(s)
<1>0. Seen \subseteq Counter
  BY Constants
<1>1. Init => I
  BY Starts
<1>2. I /\ [Next]_vars => I'
  BY <1>0, MainStep
<1>3. I => CountsSettle
  BY <1>0, Settled
<1>. HIDE DEF I
<1>. QED
  BY <1>1, <1>2, <1>3, PTL DEF Spec

-----------------------------------------------------------------------------
(* A consumer that is alone *)

LEMMA AloneCounts ==
    ASSUME QueueAssumption, NEW s \in Counter, Main(s), NEW c \in Consumer, take[c].pc \notin Asking, NEW p \in Producer,
           \A d \in Consumer \ {c} : TakeAt(d, "idle")
    PROVE  Since(s, optimistic[p]) - overcommit[p] = Since(s, headIndex[p])
<1>1. Want(take, p) \in Numbers
  BY Weights DEF Main, TypeInv
<1>2. \A d \in Consumer : Want(take, p)[d] = 0
  BY DEF Want, TakeAt, Asking
<1>3. Total(Want(take, p)) = 0
  BY <1>1, <1>2, TotalZero
<1>. QED
  BY <1>3, Ranges

\* The head is before the tail where there is something.
LEMMA SomeMeans ==
    ASSUME QueueAssumption, NEW s \in Counter, Main(s), NEW p \in Producer
    PROVE  /\ HasSome(s, p) <=> headIndex[p] # tailIndex[p]
           /\ HasSome(s, p) <=> size_approx(p) > 0
<1>. DEFINE h == Since(s, headIndex[p]) m == made[p]
<1>1. h \in Nat /\ m \in Nat /\ h <= m /\ m < Half /\ Since(s, tailIndex[p]) = m /\ Half \in Nat
      /\ headIndex[p] \in Counter /\ tailIndex[p] \in Counter
  BY Ranges, Constants
<1>2. m - h < Half
  <2>. HIDE DEF m, h
  <2>. QED
    BY <1>1
<1>3. /\ circular_less_than(headIndex[p], tailIndex[p]) <=> h < m
      /\ Minus(tailIndex[p], headIndex[p]) = m - h /\ (headIndex[p] = tailIndex[p] <=> h = m)
  BY <1>1, <1>2, LessSince
<1>4. HasSome(s, p) <=> h < m
  BY DEF HasSome
<1>. HIDE DEF m, h
<1>5. size_approx(p) = IF h < m THEN m - h ELSE 0
  BY <1>3 DEF size_approx
<1>. QED
  BY <1>1, <1>3, <1>4, <1>5

LEMMA AloneSize ==
    ASSUME QueueAssumption, NEW s \in Counter, Main(s), NEW c \in Consumer, Size(c), take[c].alone, AloneAt(s, c),
           UNCHANGED <<Counts, made>>
    PROVE  AloneAt(s, c)'
<1>. DEFINE t == take[c] u == take'[c] p == Head(t.rest) v == Most3(t) size == size_approx(p)
<1>1. /\ Away(c) /\ t.pc = "size" /\ TakeOK(t) /\ u.got = <<>>
      /\ \/ u = v /\ u.pc = "size"
         \/ v.found > 0 /\ u.pc = "load" /\ u.p = v.best
         \/ v.found = 0 /\ Tail(t.rest) = <<>> /\ u.pc = "return"
  BY SizeEffect DEF Main
<1>2. /\ v.rest = Tail(t.rest) /\ p \in Producer /\ p = t.rest[1] /\ size \in Nat /\ v.found \in 0..3
      /\ v.found = (IF size > 0 THEN t.found + 1 ELSE t.found)
      /\ IF v.found = 0 THEN size = 0 /\ t.found = 0
         ELSE v.best \in Producer /\ ((v.best = p /\ size > 0) \/ (v.best = t.best /\ t.found > 0))
  BY <1>1, SeenSize DEF Main
<1>3. /\ t.got = <<>> /\ t.rest \in Seq(Producer) /\ t.rest # <<>> /\ t.found \in 0..2
  BY <1>1 DEF TakeOK
<1>4. /\ (t.found > 0 /\ HasSome(s, t.best)) \/ SomeLeft(s, t)
      /\ t.found > 0 => HasSome(s, t.best)
      /\ \A d \in Consumer \ {c} : TakeAt(d, "idle")
  BY <1>1, <1>3 DEF AloneAt
<1>5. HasSome(s, p) <=> size > 0
  BY <1>2, SomeMeans
<1>6. \A q : HasSome(s, q)' <=> HasSome(s, q)
  BY DEF HasSome, Counts
<1>. HIDE DEF size, v
<1>7. v.found > 0 => HasSome(s, v.best)
  BY <1>2, <1>4, <1>5
<1>8. v.found = 0 => \E i \in DOMAIN Tail(t.rest) : HasSome(s, Tail(t.rest)[i])
  <2>. SUFFICES ASSUME v.found = 0 PROVE \E i \in DOMAIN Tail(t.rest) : HasSome(s, Tail(t.rest)[i])
    OBVIOUS
  <2>1. PICK i \in DOMAIN t.rest : HasSome(s, t.rest[i])
    BY <1>2, <1>4 DEF SomeLeft
  <2>2. i # 1
    BY <1>2, <1>5, <2>1
  <2>3. i - 1 \in DOMAIN Tail(t.rest) /\ Tail(t.rest)[i - 1] = t.rest[i]
    BY <1>3, <2>1, <2>2
  <2>. QED
    BY <2>1, <2>3
<1>9. \A d \in Consumer \ {c} : TakeAt(d, "idle")'
  BY <1>1, <1>4 DEF Away, OthersKeep, TakeAt
<1>10. u.pc # "return"
  BY <1>1, <1>8
<1>11. u.pc = "size" => (u.found > 0 /\ HasSome(s, u.best)) \/ \E i \in DOMAIN u.rest : HasSome(s, u.rest[i])
  <2>. SUFFICES ASSUME u.pc = "size" PROVE (u.found > 0 /\ HasSome(s, u.best)) \/ \E i \in DOMAIN u.rest : HasSome(s, u.rest[i])
    OBVIOUS
  <2>1. u = v
    BY <1>1
  <2>2. CASE v.found = 0
    BY <1>2, <1>8, <2>1, <2>2
  <2>3. CASE v.found > 0
    BY <1>7, <2>1, <2>3
  <2>. QED
    BY <1>2, <2>2, <2>3
<1>12. u.pc = "size" /\ u.found > 0 => HasSome(s, u.best)
  BY <1>1, <1>7
<1>13. u.pc = "load" => HasSome(s, u.p)
  BY <1>1, <1>7
<1>14. u.pc \in {"size", "load", "return"}
  BY <1>1
<1>. QED
  BY <1>6, <1>9, <1>10, <1>11, <1>12, <1>13, <1>14 DEF AloneAt, SomeLeft

LEMMA AloneCheck ==
    ASSUME QueueAssumption, NEW s \in Counter, Main(s), NEW c \in Consumer, Check(c, Skipped(c)), take[c].alone, AloneAt(s, c),
           UNCHANGED made
    PROVE  AloneAt(s, c)'
<1>. DEFINE t == take[c] u == take'[c] p == t.p e == Excess(t.tail, optimistic[p], t.over)
<1>1. /\ OthersKeep(c) /\ t.pc = "check"
      /\ IF circular_less_than(0, e) THEN u.pc = "commit" /\ Stays(t, u) /\ u.over = t.over ELSE OnTo(t, t.rest, u)
  BY CheckEffect DEF Main
<1>2. Counts' = Counts
  BY DEF Check
<1>3. p \in Producer /\ t.tail \in Int /\ t.over \in Int /\ Since(s, t.tail) <= made[p]
  <2>1. TakeOK(t) /\ Early(s, t)
    BY DEF Main, TypeInv, SeenInv
  <2>2. p \in Producer /\ t.tail \in Counter /\ t.over \in Counter /\ Since(s, t.tail) <= made[p]
    BY <1>1, <2>1 DEF TakeOK, Trial, Counting, Early
  <2>. QED
    BY <2>2, Constants DEF Counter
<1>4. \A d \in Consumer \ {c} : TakeAt(d, "idle")
  BY DEF AloneAt
<1>5. \A d \in Consumer \ {c} : TakeAt(d, "idle")'
  BY <1>1, <1>4 DEF OthersKeep, TakeAt
<1>6. u.got = t.got
  BY <1>1 DEF Stays, OnTo
<1>7. CASE t.got # <<>>
  BY <1>5, <1>6, <1>7 DEF AloneAt
<1>8. CASE t.got = <<>>
  <2>1. t.over = overcommit[p] /\ (Since(s, headIndex[p]) < Since(s, t.tail) \/ SomeLeft(s, t))
    BY <1>1, <1>8 DEF AloneAt
  <2>2. \A q : HasSome(s, q)' <=> HasSome(s, q)
    BY <1>2 DEF HasSome, Counts
  <2>3. circular_less_than(0, e) <=> Since(s, headIndex[p]) < Since(s, t.tail)
    <3>. DEFINE a == Since(s, t.tail) h == Since(s, headIndex[p]) o == Since(s, optimistic[p]) m == made[p] x == a - (o - t.over)
    <3>1. o - t.over = h
      BY <1>1, <1>3, <1>4, <2>1, AloneCounts DEF Asking
    <3>2. a \in Nat
      BY <1>3, SinceType, Constants DEF Counter
    <3>3. h \in Nat /\ h <= m /\ m \in Nat /\ m < Half /\ Half \in Nat /\ o \in Nat /\ optimistic[p] \in Int
      BY <1>3, Ranges, Constants
    <3>4. a <= m
      BY <1>3
    <3>. HIDE DEF a, h, o, m
    <3>5. x = a - h /\ -Half <= x /\ x < Half /\ x \in Int
      BY <1>3, <3>1, <3>2, <3>3, <3>4
    <3>6. x = Since(s, t.tail) - (Since(s, optimistic[p]) - t.over)
      BY DEF a, o
    <3>. HIDE DEF x
    <3>7. circular_less_than(0, e) <=> x > 0
      BY <1>3, <3>3, <3>5, <3>6, ExcessSees
    <3>. QED
      BY <3>2, <3>3, <3>5, <3>7 DEF a, h
  <2>4. CASE circular_less_than(0, e)
    <3>1. HasSome(s, p)
      <4>. DEFINE a == Since(s, t.tail) h == Since(s, headIndex[p])
      <4>1. h \in Nat /\ made[p] \in Nat /\ a \in Nat
        <5>1. a \in Counter
          BY <1>3, SinceType
        <5>. QED
          BY <1>3, <5>1, Ranges
      <4>2. h < a /\ a <= made[p]
        BY <1>3, <2>3, <2>4
      <4>. HIDE DEF a, h
      <4>3. h < made[p]
        BY <4>1, <4>2
      <4>. QED
        BY <4>3 DEF HasSome, h
    <3>2. u.pc = "commit" /\ u.p = p /\ u.over = overcommit'[p]
      BY <1>1, <1>2, <2>1, <2>4 DEF Stays, Counts
    <3>. QED
      BY <1>5, <2>2, <3>1, <3>2 DEF AloneAt
  <2>5. CASE ~circular_less_than(0, e)
    <3>1. PICK i \in DOMAIN t.rest : HasSome(s, t.rest[i])
      BY <2>1, <2>3, <2>5 DEF SomeLeft
    <3>2. OnTo(t, t.rest, u)
      BY <1>1, <2>5
    <3>3. t.rest # <<>>
      BY <3>1, NoItems
    <3>4. u.pc = "load"
      BY <3>2, <3>3 DEF OnTo
    <3>5. u.p = t.rest[i] \/ \E j \in DOMAIN u.rest : u.rest[j] = t.rest[i]
      BY <3>1, <3>2 DEF OnTo
    <3>6. HasSome(s, u.p) \/ \E j \in DOMAIN u.rest : HasSome(s, u.rest[j])
      BY <3>1, <3>5
    <3>. QED
      BY <1>5, <2>2, <3>4, <3>6 DEF AloneAt, SomeLeft
  <2>. QED
    BY <2>4, <2>5
<1>. QED
  BY <1>7, <1>8

LEMMA AloneCounted ==
    ASSUME QueueAssumption, NEW s \in Counter, Main(s), NEW c \in Consumer, take[c].alone, AloneAt(s, c),
           LoadCounts(c) \/ Commit(c) \/ Verify(c) \/ CountExcessOut(c, Skipped(c)) \/ Claim(c), UNCHANGED made
    PROVE  AloneAt(s, c)'
<1>. DEFINE t == take[c] u == take'[c] p == t.p
<1>1. OthersKeep(c) /\ t.pc \in {"load", "commit", "verify", "excess", "claim"}
  BY LoadEffect, CommitEffect, VerifyEffect, ExcessEffect, ClaimEffect DEF Main
<1>2. p \in Producer
  BY <1>1 DEF Main, TypeInv, TakeOK, Trial, Counting, Asking
<1>3. \A d \in Consumer \ {c} : TakeAt(d, "idle")
  BY DEF AloneAt
<1>4. \A d \in Consumer \ {c} : TakeAt(d, "idle")'
  BY <1>1, <1>3 DEF OthersKeep, TakeAt
<1>5. made[p] \in Nat /\ Since(s, headIndex[p]) \in Nat /\ Since(s, tailIndex[p]) = made[p]
      /\ Since(s, headIndex[p]) <= made[p] /\ made[p] < Half /\ Half \in Nat
  BY <1>2, Ranges, Constants
<1>6. CASE LoadCounts(c)
  <2>1. u.pc = "check" /\ Stays(t, u) /\ u.tail = tailIndex[p] /\ u.over = overcommit[p] /\ t.pc = "load"
    BY <1>6, LoadEffect DEF Main
  <2>2. headIndex' = headIndex /\ overcommit' = overcommit /\ made' = made
    BY <1>6 DEF LoadCounts, Counts
  <2>3. t.got = <<>> => HasSome(s, p) \/ SomeLeft(s, t)
    BY <2>1 DEF AloneAt
  <2>4. \A q : HasSome(s, q)' <=> HasSome(s, q)
    BY <2>2 DEF HasSome
  <2>5. t.got = <<>> => Since(s, headIndex'[p]) < Since(s, u.tail) \/ \E i \in DOMAIN u.rest : HasSome(s, u.rest[i])
    BY <1>5, <2>1, <2>2, <2>3 DEF HasSome, SomeLeft, Stays
  <2>6. u.p = p /\ u.got = t.got /\ u.over = overcommit'[p]
    BY <2>1, <2>2 DEF Stays
  <2>. QED
    BY <1>4, <2>1, <2>4, <2>5, <2>6 DEF AloneAt, SomeLeft
<1>7. CASE Commit(c)
  <2>1. u.pc = "verify" /\ Stays(t, u) /\ u.mine = optimistic[p] /\ u.over = t.over /\ t.pc = "commit"
    BY <1>7, CommitEffect DEF Main
  <2>2. headIndex' = headIndex /\ made' = made
    BY <1>7 DEF Commit
  <2>3. t.got = <<>> => t.over = overcommit[p] /\ HasSome(s, p)
    BY <2>1 DEF AloneAt
  <2>4. Since(s, optimistic[p]) - overcommit[p] = Since(s, headIndex[p])
    BY <1>2, <1>3, <2>1, AloneCounts DEF Asking
  <2>5. \A q : HasSome(s, q)' <=> HasSome(s, q)
    BY <2>2 DEF HasSome
  <2>6. t.got = <<>> => Since(s, u.mine) - u.over = Since(s, headIndex'[p]) /\ HasSome(s, p)
    BY <2>1, <2>2, <2>3, <2>4
  <2>7. u.p = p /\ u.got = t.got
    BY <2>1 DEF Stays
  <2>. QED
    BY <1>4, <2>1, <2>5, <2>6, <2>7 DEF AloneAt
<1>8. CASE Verify(c)
  <2>. DEFINE e == Excess(tailIndex[p], t.mine, t.over)
  <2>1. /\ u.pc \in {"excess", "claim"} /\ Stays(t, u) /\ t.pc = "verify" /\ t.want \in Nat \ {0}
        /\ u.n = IF circular_less_than(0, e) THEN (IF t.want <= e THEN t.want ELSE e) ELSE 0
    BY <1>8, VerifyEffect DEF Main
  <2>2. ASSUME t.got = <<>> PROVE u.n > 0
    <3>. DEFINE h == Since(s, headIndex[p]) m == Since(s, t.mine) x == made[p] - (m - t.over)
    <3>1. m - t.over = h /\ h < made[p]
      BY <2>1, <2>2 DEF AloneAt, HasSome
    <3>2. t.mine \in Int /\ t.over \in Int /\ tailIndex[p] \in Int
      <4>1. t.mine \in Counter /\ t.over \in Counter
        BY <2>1 DEF Main, TypeInv, TakeOK
      <4>. QED
        BY <1>2, <4>1, Ranges
    <3>3. h \in Nat
      BY <1>5
    <3>4. x = Since(s, tailIndex[p]) - (Since(s, t.mine) - t.over)
      BY <1>5
    <3>. HIDE DEF h, m
    <3>5. x > 0 /\ -Half <= x /\ x < Half /\ x \in Int
      BY <1>5, <3>1, <3>3
    <3>. HIDE DEF x
    <3>6. circular_less_than(0, e) /\ e = x
      BY <3>2, <3>4, <3>5, ExcessSees
    <3>. QED
      BY <2>1, <3>5, <3>6
  <2>. QED
    BY <1>4, <2>1, <2>2 DEF AloneAt, Stays
<1>9. CASE CountExcessOut(c, Skipped(c))
  <2>1. /\ t.pc = "excess"
        /\ IF t.n = 0 THEN OnTo(t, t.rest, u) ELSE u.pc = "claim" /\ Stays(t, u) /\ u.n = t.n
    BY <1>9, ExcessEffect DEF Main
  <2>2. t.got = <<>> => t.n > 0
    BY <2>1 DEF AloneAt
  <2>3. CASE t.n = 0
    <3>1. u.got # <<>>
      BY <2>1, <2>2, <2>3 DEF OnTo
    <3>. QED
      BY <1>4, <3>1 DEF AloneAt
  <2>4. CASE t.n # 0
    BY <1>4, <2>1, <2>2, <2>4 DEF AloneAt, Stays
  <2>. QED
    BY <2>3, <2>4
<1>10. CASE Claim(c)
  <2>1. u.pc = "index"
    BY <1>10, ClaimEffect DEF Main
  <2>. QED
    BY <1>4, <2>1 DEF AloneAt
<1>. QED
  BY <1>6, <1>7, <1>8, <1>9, <1>10

LEMMA AloneBegins ==
    ASSUME QueueAssumption, NEW s \in Counter, Main(s), NEW c \in Consumer, NEW bulk \in BOOLEAN,
           NEW n \in TakeSizes \cup {1}, Dequeue(c, bulk, n)
    PROVE  AloneInv(s)'
<1>. DEFINE u == take'[c]
<1>1. /\ \A d \in Consumer \ {c} : take'[d] = [take[d] EXCEPT !.alone = FALSE]
      /\ u.pc \in {"size", "load"} /\ u.got = <<>>
      /\ u.pc = "size" => u.rest = List /\ u.found = 0
      /\ u.pc = "load" => \A p \in Producer : u.p = p \/ \E i \in DOMAIN u.rest : u.rest[i] = p
      /\ u.alone => /\ \A d \in Consumer \ {c} : TakeAt(d, "idle")
                    /\ \E p \in Producer : headIndex[p] # tailIndex[p]
  BY DequeueEffect DEF Main
<1>2. Counts' = Counts /\ made' = made
  BY DEF Dequeue
<1>3. \A q : HasSome(s, q)' <=> HasSome(s, q)
  BY <1>2 DEF HasSome, Counts
<1>4. \A d \in Consumer : DOMAIN take[d] = Fields
  BY DEF Main, TypeInv, TakeOK
<1>5. \A d \in Consumer \ {c} : ~take'[d].alone /\ take'[d].pc = take[d].pc
  BY <1>1, <1>4 DEF Fields
<1>6. ASSUME u.alone PROVE AloneAt(s, c)'
  <2>1. PICK p \in Producer : HasSome(s, p)
    BY <1>1, <1>6, SomeMeans
  <2>2. \A d \in Consumer \ {c} : TakeAt(d, "idle")'
    BY <1>1, <1>5, <1>6 DEF TakeAt
  <2>3. CASE u.pc = "size"
    <3>1. \E i \in DOMAIN List : List[i] = p
      BY DEF QueueAssumption, Range
    <3>2. \E i \in DOMAIN u.rest : HasSome(s, u.rest[i])
      BY <1>1, <2>1, <2>3, <3>1
    <3>. QED
      BY <1>1, <1>3, <2>2, <2>3, <3>2 DEF AloneAt, SomeLeft
  <2>4. CASE u.pc = "load"
    <3>1. HasSome(s, u.p) \/ \E i \in DOMAIN u.rest : HasSome(s, u.rest[i])
      BY <1>1, <2>1, <2>4
    <3>. QED
      BY <1>3, <2>2, <2>4, <3>1 DEF AloneAt, SomeLeft
  <2>. QED
    BY <1>1, <2>3, <2>4
<1>. QED
  BY <1>5, <1>6 DEF AloneInv

LEMMA AloneStep == ASSUME QueueAssumption, NEW s \in Counter, Main(s), AloneInv(s), [Next]_vars PROVE AloneInv(s)'
<1>1. ASSUME take' = take, headIndex' = headIndex, overcommit' = overcommit,
             \A p \in Producer : made[p] <= made'[p] /\ made'[p] \in Nat
      PROVE  AloneInv(s)'
  <2>1. ASSUME NEW p \in Producer, HasSome(s, p) PROVE HasSome(s, p)'
    <3>. DEFINE h == Since(s, headIndex[p])
    <3>1. h \in Nat /\ made[p] \in Nat /\ h < made[p]
      BY <2>1, Ranges DEF HasSome
    <3>. HIDE DEF h
    <3>2. h < made'[p]
      BY <1>1, <3>1
    <3>. QED
      BY <1>1, <3>2 DEF HasSome, h
  <2>2. ASSUME NEW c \in Consumer, take[c].alone PROVE AloneAt(s, c)'
    <3>. DEFINE t == take[c]
    <3>1. AloneAt(s, c) /\ TakeOK(t)
      BY <2>2 DEF AloneInv, Main, TypeInv
    <3>2. /\ t.pc \in {"load", "check", "commit", "verify"} => t.p \in Producer
          /\ t.pc = "size" /\ t.found > 0 => t.best \in Producer
          /\ t.rest \in Seq(Producer) /\ \A i \in DOMAIN t.rest : t.rest[i] \in Producer
      BY <3>1 DEF TakeOK, Trial, Counting, Asking
    <3>3. SomeLeft(s, t) => \E i \in DOMAIN t.rest : HasSome(s, t.rest[i])'
      BY <1>1, <2>1, <3>2 DEF SomeLeft
    <3>4. SomeLeft(s, t) => SomeLeft(s, t)'
      BY <1>1, <3>3 DEF SomeLeft
    <3>. QED
      BY <1>1, <2>1, <3>1, <3>2, <3>4 DEF AloneAt, TakeAt
  <2>. QED
    BY <1>1, <2>2 DEF AloneInv
<1>2. ASSUME NEW p \in Producer, AddsOnly(p) \/ Publish(p) PROVE AloneInv(s)'
  <2>1. CASE AddsOnly(p)
    <3>1. \A q \in Producer : made[q] <= made[q] /\ made[q] \in Nat
      BY Ranges
    <3>2. UNCHANGED <<Counts, made, take>>
      BY <2>1, AddsKeep DEF Main
    <3>. QED
      BY <1>1, <3>1, <3>2 DEF Counts
  <2>2. CASE Publish(p)
    <3>1. PICK n \in Nat : made' = [made EXCEPT ![p] = @ + n]
      BY <2>2, PublishEffect DEF Main
    <3>2. headIndex' = headIndex /\ overcommit' = overcommit /\ take' = take
      BY <2>2, PublishEffect DEF Main
    <3>3. ASSUME NEW q \in Producer PROVE made[q] <= made'[q] /\ made'[q] \in Nat
      BY <3>1, Ranges DEF Main, TypeInv
    <3>. QED
      BY <1>1, <3>2, <3>3
  <2>. QED
    BY <1>2, <2>1, <2>2
\* Only its own steps matter to a consumer that is alone.
<1>3. ASSUME NEW c \in Consumer, OthersKeep(c), take[c].pc # "idle", take'[c].alone => AloneAt(s, c)' PROVE AloneInv(s)'
  <2>. SUFFICES ASSUME NEW d \in Consumer, take'[d].alone PROVE AloneAt(s, d)'
    BY DEF AloneInv
  <2>1. d = c
    <3>. SUFFICES ASSUME d # c PROVE FALSE
      OBVIOUS
    <3>1. AloneAt(s, d)
      BY <1>3 DEF AloneInv, OthersKeep
    <3>. QED
      BY <1>3, <3>1 DEF AloneAt, TakeAt
  <2>. QED
    BY <1>3, <2>1
<1>4. ASSUME NEW c \in Consumer, Goes(c) PROVE AloneInv(s)'
  <2>1. ASSUME take'[c].alone PROVE AloneAt(s, c)'
    <3>1. take[c].alone /\ OthersKeep(c) /\ (take'[c].got # <<>> \/ take'[c].pc \in Finding)
      BY <1>4, <2>1 DEF Goes, Away
    <3>2. \A d \in Consumer \ {c} : TakeAt(d, "idle")'
      BY <3>1 DEF AloneInv, AloneAt, OthersKeep, TakeAt
    <3>. QED
      BY <3>1, <3>2 DEF AloneAt, Finding
  <2>. QED
    BY <1>3, <1>4, <2>1 DEF Goes, Away
<1>5. ASSUME NEW c \in Consumer, Size(c) PROVE AloneInv(s)'
  <2>1. Away(c) /\ UNCHANGED <<Counts, made>>
    BY <1>5, AwaySteps DEF Main
  <2>2. take'[c].alone => AloneAt(s, c)'
    BY <1>5, <2>1, AloneSize DEF Away, AloneInv
  <2>. QED
    BY <1>3, <2>1, <2>2 DEF Away
<1>6. ASSUME NEW c \in Consumer, CountedTake(c) PROVE AloneInv(s)'
  <2>1. UNCHANGED made /\ TakeStep(c, Skipped(c))
    BY <1>6 DEF CountedTake, Skipped
  <2>2. /\ OthersKeep(c) /\ take'[c].alone = take[c].alone
        /\ take[c].pc \in {"load", "check", "commit", "verify", "excess", "claim"}
    BY <2>1, LoadEffect, CheckEffect, CommitEffect, VerifyEffect, ExcessEffect, ClaimEffect DEF TakeStep, Main, Stays, OnTo
  <2>3. take'[c].alone => AloneAt(s, c)'
    <3>. SUFFICES ASSUME take'[c].alone PROVE AloneAt(s, c)'
      OBVIOUS
    <3>1. take[c].alone /\ AloneAt(s, c)
      BY <2>2 DEF AloneInv
    <3>. QED
      BY <2>1, <3>1, AloneCheck, AloneCounted DEF TakeStep
  <2>. QED
    BY <1>3, <2>2, <2>3
<1>7. ASSUME NEW c \in Consumer, Takings(c) PROVE AloneInv(s)'
  <2>1. CASE \E n \in TakeSizes : Dequeue(c, TRUE, n)
    BY <2>1, AloneBegins
  <2>2. CASE Dequeue(c, FALSE, 1)
    BY <2>2, AloneBegins
  <2>3. CASE Return(c) \/ FindIndex(c) \/ FindTail(c) \/ FindSlot(c) \/ Move(c) \/ SetEmpty(c) \/ Unlink(c) \/ Free(c)
    BY <1>4, <2>3, ReturnEffect, FindEffect, MoveEffect, EmptyEffect DEF Main
  <2>. QED
    BY <1>5, <1>6, <1>7, <2>1, <2>2, <2>3 DEF Takings
<1>8. CASE UNCHANGED vars
  <2>1. \A q \in Producer : made[q] <= made[q] /\ made[q] \in Nat
    BY Ranges
  <2>. QED
    BY <1>1, <1>8, <2>1 DEF vars, Counts
<1>. QED
  BY <1>2, <1>7, <1>8, Steps

\* A call to try_dequeue() or try_dequeue_bulk() that no other consumer gets in the way of does not
\* come back empty-handed when there was something in the queue as it began, of whichever producers,
\* and whatever these add or fail to add meanwhile.
THEOREM QueueAloneFinds == QueueAssumption => (Spec => []AloneFinds)
<1>. SUFFICES ASSUME QueueAssumption PROVE Spec => []AloneFinds
  OBVIOUS
<1>0. Seen \subseteq Counter
  BY Constants
<1>1. Init => Inv
  BY Starts DEF Inv
<1>2. Inv /\ [Next]_vars => Inv'
  BY <1>0, MainStep, AloneStep DEF Inv
<1>3. Inv => AloneFinds
  BY DEF Inv, Main, TypeInv, AloneInv, AloneAt, AloneFinds, TakeAt
<1>. QED
  BY <1>1, <1>2, <1>3, PTL DEF Spec

=============================================================================

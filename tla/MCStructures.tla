---------------------------- MODULE MCStructures ----------------------------
(***************************************************************************)
(* The parts of the library that are an object and its operations, each on *)
(* small inputs of its own.  They have nothing to do with each other: in a *)
(* behaviour one of them moves and the others stay as they are created.    *)
(***************************************************************************)
EXTENDS ProducerHash, SequencesExt

CONSTANTS t1, t2, t3, r1, r2, r3

\* Of t1 and t2 the hashes are the same, and t3's is where they go on.
ThreadHash == (t1 :> 1) @@ (t2 :> 1) @@ (t3 :> 2)
Replica == {r1, r2, r3}
Limits == {3, 4}
MaxWrites == 2
Times == {1, 2}
CountRange == 2
Bits == 3
UsedKey == {<<0, 0, 0>>, <<0, 0, 1>>, <<0, 1, 1>>, <<1, 0, 0>>, <<1, 0, 1>>}
Values == [s \in {"a", "b"} |-> IF s = "a" THEN {1, 2} ELSE {1}]
HashBits == 3
Origins == {<<0, 0, 0>>, <<1, 0, 1>>}
ManyValues == 2
Byte == {0, 1, 63, 128, 255}
MaxBytes == 4
Letter == {"a", "=", "LF"}
MaxLetters == 5
Option == {<<"a">>, <<"b">>}
Setting == {<<>>, <<"x">>, <<"y", "=", "z">>}
MaxSteps == 6
TIGER_SZ_BLOCK == 64
Sizes == {1, 7, 55, 64, 65}
MaxLength == 200
RingKey == {"v", "w", "x", "y", "z"}
RingHash == [k \in RingKey |->
    CASE k = "v" -> 0 [] k = "w" -> 2 [] k = "x" -> 3 [] k = "y" -> 5 [] OTHER -> 2]

VARIABLES
    part,                          \* the part that moves
    mon, pc, owed, released,       \* MonitorUse
    timed, limit, version, known,  \* VersionNetwork
    tree, entries,                 \* MerkleTree
    table, origin, size, members,  \* RoutingTable
    ring,                          \* HashRing
    bytes, letters,                \* what is given to Serialize's functions
    config, file, saved, steps,    \* ConfigFile
    ctx, message, ended            \* Tiger

monitor == <<mon, pc, owed, released>>
versions == <<timed, limit, version, known>>
trees == <<tree, entries>>
routes == <<table, origin, size, members>>
rings == <<ring>>
codecs == <<bytes, letters>>
configs == <<config, file, saved, steps>>
hashes == <<ctx, message, ended>>
others == <<codecs, configs, hashes>>
threads == vars  \* ProducerHash's, which this module extends
allVars == <<part, monitor, versions, trees, routes, rings, others, threads>>

M == INSTANCE MonitorUse
V == INSTANCE VersionNetwork
T == INSTANCE MerkleTree
R == INSTANCE RoutingTable
H == INSTANCE HashRing WITH RingPlace <- 0..5, HashOf <- RingHash
B == INSTANCE Serialize
F == INSTANCE ConfigFile
G == INSTANCE Tiger

\* What Serialize's functions are given is every sequence up to a length.
AddByte ==
    /\ letters = <<>> /\ Len(bytes) < MaxBytes
    /\ \E b \in Byte : bytes' = Append(bytes, b) /\ UNCHANGED letters
AddLetter ==
    /\ bytes = <<>> /\ Len(letters) < MaxLetters
    /\ \E c \in Letter : letters' = Append(letters, c) /\ UNCHANGED bytes

InitPart ==
    /\ part \in {"monitor", "versions", "trees", "routes", "rings", "codecs", "configs", "hashes", "threads"}
    /\ M!Init /\ V!Init /\ T!Init /\ R!Init /\ H!Init /\ F!Init /\ G!Init /\ Init
    /\ bytes = <<>> /\ letters = <<>>
    /\ part # "versions" => limit = 4
    /\ timed => part = "versions" /\ limit = 3
    /\ part # "routes" => origin = <<0, 0, 0>>
    /\ part # "hashes" => ctx.version = 1

Move ==
    /\ UNCHANGED part
    /\ \/ part = "monitor" /\ M!Next /\ UNCHANGED <<versions, trees, routes, rings, others, threads>>
       \/ part = "versions" /\ V!Next /\ UNCHANGED <<monitor, trees, routes, rings, others, threads>>
       \/ part = "trees" /\ T!Next /\ UNCHANGED <<monitor, versions, routes, rings, others, threads>>
       \/ part = "routes" /\ R!Next /\ UNCHANGED <<monitor, versions, trees, rings, others, threads>>
       \/ part = "rings" /\ H!Next /\ UNCHANGED <<monitor, versions, trees, routes, others, threads>>
       \/ part = "threads" /\ Next /\ UNCHANGED <<monitor, versions, trees, routes, rings, others>>
       \/ /\ UNCHANGED <<monitor, versions, trees, routes, rings, threads>>
          /\ \/ part = "codecs" /\ (AddByte \/ AddLetter) /\ UNCHANGED <<configs, hashes>>
             \/ part = "configs" /\ F!Next /\ UNCHANGED <<codecs, hashes>>
             \/ part = "hashes" /\ G!Next /\ UNCHANGED <<codecs, configs>>

PartSpec == InitPart /\ [][Move]_allVars /\ M!Fairness

-----------------------------------------------------------------------------
\* The parts' properties, stated and explained in their modules.

\* No signal of the monitor is lost on the one waiter that comes too late for it; signal_all() lets
\* all waiters go; and a cancelled wait() says so.
SignalsKept == []M!SignalNotLost /\ M!SignalReleasesAll /\ M!CancelIsFinal

\* Versions compare as the writes in them do.
ComparesWrites == V!ComparesWrites

\* A tree holds what was inserted, with the hashes of all of it, and enumerates it.
TreesTrue == T!HoldsEntries /\ T!HashesRight /\ T!EnumerationExact

\* What diff() says of two trees is so, and no difference escapes two peers that ask in turn.
DiffsTrue == T!DiffExact /\ T!AnswersFit /\ T!EveryDifferenceFound /\ T!TopsDiffer

\* A routing table finds its members, walks outward over all of them, and picks any of them; and a walk
\* around a ring of hashes comes to every place of it once.
PeersFound == R!FindsMembers /\ R!WalksOutward /\ R!RandomIsFair /\ H!WalksAround

Lexicographic(v, w) == \E i \in DOMAIN v : v[i] < w[i] /\ SubSeq(v, 1, i - 1) = SubSeq(w, 1, i - 1)

\* decode() gives back what encode() was given, whatever comes after a character that is foreign; and of
\* an encoding that breaks off, every byte that is whole in it and no other.
DecodesBack ==
    LET code == B!encode(bytes)
        whole == IF B!Equals \in ToSet(code) THEN SelectInSeq(code, LAMBDA c : c = B!Equals) - 1 ELSE Len(code)
    IN /\ \A c \in {0, B!Equals, 45, 200} : B!decode(code \o <<c>> \o code) = bytes
       /\ \A n \in 0..whole : B!decode(SubSeq(code, 1, n)) = SubSeq(bytes, 1, (3 * n) \div 4)

\* Encodings of equal lengths are in the order of what they encode (base64.cpp:45-48).
KeepsOrder ==
    \A i \in DOMAIN bytes : \A b \in Byte : bytes[i] < b =>
        LET greater == [j \in DOMAIN bytes |-> IF j < i THEN bytes[j] ELSE IF j = i THEN b ELSE 0]
        IN Lexicographic(B!encode(bytes), B!encode(greater))

\* split() cuts at every delimiter and nowhere else; join() undoes it.
SplitsAll ==
    \A d \in Letter : LET tokens == B!split(letters, d, FALSE) IN
        /\ B!join(tokens, d) = letters
        /\ \A i \in DOMAIN tokens : d \notin ToSet(tokens[i])
        /\ B!split(letters, d, TRUE) = SelectSeq(tokens, LAMBDA t : t # <<>>)
        /\ letters # <<>> => B!split(B!join(tokens, d), d, FALSE) = tokens

\* What is encoded, joined, saved or hashed in pieces is there again: decoded, split, loaded, or in
\* the digest of the whole.
CodecsRight ==
    CASE part = "codecs" -> DecodesBack /\ KeepsOrder /\ SplitsAll
      [] part = "configs" -> F!SettingsKept
      [] part = "hashes" -> G!DigestOfWhole
      [] OTHER -> TRUE

=============================================================================

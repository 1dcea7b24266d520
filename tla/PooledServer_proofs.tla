------------------------ MODULE PooledServer_proofs ------------------------
(***************************************************************************)
(* PooledServer, for every set of connections, of peers, of clients and    *)
(* every finite set of readers: while the server runs, no connection is    *)
(* kept that nobody reads from (EveryListened); and with one reader the    *)
(* end of a connection is the last that onRead() has of it (EndToldOnce).  *)
(*                                                                         *)
(* The argument for the first: before start() nothing is under way, while  *)
(* the server runs the set of reads is not released, and whatever run()    *)
(* has taken from that set and not found a message on is not open any more *)
(* (LifeInv).                                                              *)
(*                                                                         *)
(* For the second: a connection is in one place, in the hands of the       *)
(* acceptor, of one client, or past being added to the set; and the one    *)
(* reader has taken it out of its list, and takes it out of the set, when  *)
(* it tells of the end (PlaceInv).                                         *)
(***************************************************************************)
EXTENDS PooledServer, FiniteSetTheorems, WellFoundedInduction, TLAPS

LEMMA NoneFact == None \notin Conn
BY ConnAssumption

LEMMA LowestIn ==
    ASSUME NEW S \in SUBSET Conn, S # {}
    PROVE  Lowest(S) \in S
<1>1. S \subseteq Nat
  BY ConnAssumption
<1>2. PICK c \in S : \A d \in S : <<d, c>> \notin OpToRel(<, Nat)
  BY <1>1, WFMin, NatLessThanWellFounded, Zenon
<1>3. \A d \in S : <<d, c>> \notin {p \in Nat \X Nat : p[1] < p[2]}
  BY <1>2, Zenon DEF OpToRel
<1>4. \A d \in S : ~ (d < c)
  BY <1>1, <1>3
<1>5. \A d \in S : c <= d
  BY <1>1, <1>4
<1>. QED
  BY <1>5 DEF Lowest

LEMMA StoredFact ==
    ASSUME TypeOK, NEW a \in Address, NEW c \in Conn
    PROVE  Stored(a, c) \in Conn
BY DEF TypeOK, Stored

LEMMA InsertFact ==
    ASSUME TypeOK, NEW a \in Address, NEW c \in Conn, Insert(a, c)
    PROVE  DOMAIN pool' \subseteq Address /\ \A b \in DOMAIN pool' : pool'[b] \in Conn
BY DEF TypeOK, Insert, Stored

LEMMA EraseFact ==
    ASSUME TypeOK, NEW a \in Address, Erase(a)
    PROVE  DOMAIN pool' \subseteq Address /\ \A b \in DOMAIN pool' : pool'[b] \in Conn
BY DEF TypeOK, Erase

LEMMA EndpointFact ==
    ASSUME TypeOK, NEW c \in ConnOrNone
    PROVE  Endpoint(c) \subseteq Address
<1>1. peer \in [Conn -> Peer]
  BY DEF TypeOK
<1>2. CASE c \in Conn
  BY <1>1, <1>2 DEF Endpoint, Address
<1>3. CASE c = None
  BY <1>3 DEF Endpoint
<1>. QED
  BY <1>2, <1>3 DEF ConnOrNone

LEMMA CloseFact ==
    ASSUME TypeOK, NEW S, Close(S)
    PROVE  /\ state' \in [Conn -> {"unused", "offered", "open", "broken", "closed"}]
           /\ inbox' \in [Conn -> BOOLEAN]
           /\ readSet' \in SocketSet /\ writeSet' \in SocketSet
           /\ readSet'.up = readSet.up /\ readSet'.in \subseteq readSet.in
           /\ \A c \in Conn : state'[c] = IF c \in S THEN "closed" ELSE state[c]
BY DEF TypeOK, Close, SocketSet

-----------------------------------------------------------------------------
(* Types *)

\* A thread holds a connection exactly between the call that gives it one and the one that
\* sees to it; and nothing happens before start().
HandsInv ==
    /\ ctl = "idle" => acc.at = "off"
    /\ acc.conn = None <=> acc.at \in {"off", "loop", "accept"}
    /\ \A r \in Reader : rd[r].conn = None <=> rd[r].at \in {"off", "loop"}
    /\ \A k \in Client : cl[k].sock = None <=> cl[k].at \in {"idle", "connect"}

HandsOK == TypeOK /\ HandsInv

AccType == [at : {"off", "loop", "accept", "insert", "add"}, conn : ConnOrNone]
ReaderType == [at : {"off", "loop", "remove", "close", "erase", "insert"},
               reads : SUBSET Conn, conn : ConnOrNone]
HelperType == [at : {"off", "loop", "remove"}, reads : SUBSET Conn, conn : ConnOrNone]
ClientType == [at : {"idle", "connect", "insert", "drop", "add"},
               addr : Peer, sock : ConnOrNone, writer : ConnOrNone]

\* HandsOK by who changes it: each step changes one of these parts, or two.
ControlsOK ==
    /\ numReaders \in Nat /\ running \in BOOLEAN /\ listening \in BOOLEAN
    /\ ctl \in {"idle", "up", "release reads", "release writes", "close", "close all",
                "clear", "join", "stopped", "failed"}

ConnectionsOK ==
    /\ state \in [Conn -> {"unused", "offered", "open", "broken", "closed"}]
    /\ peer \in [Conn -> Peer] /\ inbox \in [Conn -> BOOLEAN]

ReadSetOK == readSet \in SocketSet /\ (~readSet.up => readSet.in = {})
WriteSetOK == writeSet \in SocketSet
PoolOK == DOMAIN pool \subseteq Address /\ \A a \in DOMAIN pool : pool[a] \in Conn
SetsOK == ReadSetOK /\ WriteSetOK /\ PoolOK

AcceptorOK ==
    acc \in AccType /\ (ctl = "idle" => acc.at = "off")
    /\ (acc.conn = None <=> acc.at \in {"off", "loop", "accept"})

ReadersOK ==
    rd \in [Reader -> ReaderType]
    /\ \A r \in Reader : rd[r].conn = None <=> rd[r].at \in {"off", "loop"}

HelperOK == wr \in HelperType

ClientsOK ==
    cl \in [Client -> ClientType]
    /\ \A k \in Client : cl[k].sock = None <=> cl[k].at \in {"idle", "connect"}

ToldOK == told \subseteq Conn

Parts == ControlsOK /\ ConnectionsOK /\ SetsOK /\ AcceptorOK /\ ReadersOK /\ HelperOK /\ ClientsOK /\ ToldOK

LEMMA PartsAreTypes == HandsOK <=> Parts
<1>1. HandsOK => Parts
  <2>. SUFFICES ASSUME HandsOK PROVE Parts
    OBVIOUS
  <2>1. ControlsOK /\ ConnectionsOK /\ SetsOK /\ HelperOK /\ ToldOK
    BY DEF HandsOK, TypeOK, ControlsOK, ConnectionsOK, SetsOK, ReadSetOK, WriteSetOK, PoolOK, HelperOK,
           HelperType, ToldOK
  <2>2. AcceptorOK /\ ReadersOK /\ ClientsOK
    BY DEF HandsOK, TypeOK, HandsInv, AcceptorOK, ReadersOK, ClientsOK, AccType, ReaderType, ClientType
  <2>. QED
    BY <2>1, <2>2 DEF Parts
<1>2. Parts => HandsOK
  <2>. SUFFICES ASSUME Parts PROVE HandsOK
    OBVIOUS
  <2>1. TypeOK
    BY DEF Parts, TypeOK, ControlsOK, ConnectionsOK, SetsOK, ReadSetOK, WriteSetOK, PoolOK, AcceptorOK,
           ReadersOK, HelperOK, ClientsOK, ToldOK, AccType, ReaderType, HelperType, ClientType
  <2>2. HandsInv
    BY DEF Parts, HandsInv, AcceptorOK, ReadersOK, ClientsOK
  <2>. QED
    BY <2>1, <2>2 DEF HandsOK
<1>. QED
  BY <1>1, <1>2

\* What a step leaves alone keeps its part.
LEMMA Kept ==
    ASSUME Parts
    PROVE  /\ UNCHANGED controls => ControlsOK'
           /\ UNCHANGED connections => ConnectionsOK'
           /\ UNCHANGED readSet => ReadSetOK'
           /\ UNCHANGED writeSet => WriteSetOK'
           /\ UNCHANGED pool => PoolOK'
           /\ UNCHANGED <<ctl, acc>> => AcceptorOK'
           /\ UNCHANGED rd => ReadersOK'
           /\ UNCHANGED wr => HelperOK'
           /\ UNCHANGED cl => ClientsOK'
           /\ UNCHANGED told => ToldOK'
<1>1. (UNCHANGED controls => ControlsOK') /\ (UNCHANGED connections => ConnectionsOK')
  BY DEF Parts, ControlsOK, ConnectionsOK, controls, connections
<1>2. (UNCHANGED readSet => ReadSetOK') /\ (UNCHANGED writeSet => WriteSetOK') /\ (UNCHANGED pool => PoolOK')
  BY DEF Parts, SetsOK, ReadSetOK, WriteSetOK, PoolOK
<1>3. (UNCHANGED <<ctl, acc>> => AcceptorOK') /\ (UNCHANGED wr => HelperOK') /\ (UNCHANGED told => ToldOK')
  BY DEF Parts, AcceptorOK, HelperOK, ToldOK
<1>4. UNCHANGED rd => ReadersOK'
  BY DEF Parts, ReadersOK
<1>5. UNCHANGED cl => ClientsOK'
  BY DEF Parts, ClientsOK
<1>. QED
  BY <1>1, <1>2, <1>3, <1>4, <1>5

\* Closing sockets, and putting one into the pool or taking an entry out, keep theirs.
LEMMA CloseKeeps == ASSUME Parts, NEW S, Close(S), UNCHANGED peer
                    PROVE  ConnectionsOK' /\ ReadSetOK' /\ WriteSetOK'
<1>1. TypeOK
  BY PartsAreTypes DEF HandsOK
<1>2. ConnectionsOK /\ ReadSetOK /\ WriteSetOK
  BY DEF Parts, SetsOK
<1>. QED
  BY <1>1, <1>2, CloseFact DEF ConnectionsOK, ReadSetOK, WriteSetOK, SocketSet

LEMMA InsertKeeps == ASSUME Parts, NEW c \in Conn, NEW d, \E a \in Endpoint(d) : Insert(a, c), d \in ConnOrNone
                     PROVE  PoolOK'
<1>1. TypeOK
  BY PartsAreTypes DEF HandsOK
<1>2. PICK a \in Address : Insert(a, c)
  BY <1>1, EndpointFact
<1>. QED
  BY <1>1, <1>2, InsertFact DEF PoolOK

LEMMA EraseKeeps == ASSUME Parts, \E a \in Endpoint(None) : Erase(a)
                    PROVE  PoolOK'
<1>1. TypeOK
  BY PartsAreTypes DEF HandsOK
<1>2. PICK a \in Address : Erase(a)
  BY <1>1, EndpointFact DEF ConnOrNone
<1>. QED
  BY <1>1, <1>2, EraseFact DEF PoolOK

LEMMA InitHands == Init => HandsOK
<1>. SUFFICES ASSUME Init PROVE HandsOK
  OBVIOUS
<1>1. numReaders \in Nat
  BY ReaderAssumption, FS_CardinalityType DEF Init
<1>2. pool = [a \in {} |-> None] /\ DOMAIN pool = {}
  BY DEF Init
<1>3. PICK p \in Peer : cl = [c \in Client |-> [at |-> "idle", addr |-> p, sock |-> None, writer |-> None]]
  BY DEF Init
<1>4. ControlsOK /\ ConnectionsOK
  BY <1>1 DEF Init, ControlsOK, ConnectionsOK
<1>5. SetsOK /\ HelperOK /\ ToldOK
  BY <1>2 DEF Init, SetsOK, ReadSetOK, WriteSetOK, PoolOK, HelperOK, HelperType, ToldOK, NewSet, SocketSet,
              Off, ConnOrNone
<1>6. AcceptorOK
  BY DEF Init, AcceptorOK, AccType, ConnOrNone
<1>7. ReadersOK
  BY DEF Init, ReadersOK, ReaderType, Off, ConnOrNone
<1>8. ClientsOK
  BY <1>3 DEF ClientsOK, ClientType, ConnOrNone
<1>. QED
  BY <1>4, <1>5, <1>6, <1>7, <1>8, PartsAreTypes DEF Parts

LEMMA ControlsParts == Parts /\ Controls => Parts'
<1>. SUFFICES ASSUME Parts, Controls PROVE Parts'
  OBVIOUS
<1>0. ControlsOK /\ ConnectionsOK /\ SetsOK /\ AcceptorOK
  BY DEF Parts
<1>1. CASE StartFails \/ Stop \/ Join
  <2>1. UNCHANGED <<connections, readSet, writeSet, pool, acc, rd, wr, cl, told>>
    BY <1>1 DEF StartFails, Stop, Join, sets, connections
  <2>2. ControlsOK' /\ AcceptorOK'
    BY <1>0, <1>1 DEF StartFails, Stop, Join, ControlsOK, AcceptorOK
  <2>. QED
    BY <2>1, <2>2, Kept DEF Parts, SetsOK
<1>2. CASE Start
  <2>1. PICK R \in SUBSET Reader :
            rd' = [r \in Reader |-> IF r \in R THEN [Off EXCEPT !.at = "loop"] ELSE Off]
    BY <1>2 DEF Start
  <2>2. ReadersOK'
    BY <2>1 DEF ReadersOK, Off, ReaderType, ConnOrNone
  <2>3. AcceptorOK' /\ ControlsOK'
    BY <1>0, <1>2 DEF Start, AcceptorOK, AccType, ControlsOK
  <2>4. HelperOK'
    BY <1>2 DEF Start, Parts, HelperOK, HelperType
  <2>5. UNCHANGED <<connections, readSet, writeSet, pool, cl, told>>
    BY <1>2 DEF Start, sets
  <2>. QED
    BY <2>2, <2>3, <2>4, <2>5, Kept DEF Parts, SetsOK
<1>3. ASSUME ctl' \notin {"idle"}, ctl' \in {"release writes", "close", "close all", "clear", "join"},
             UNCHANGED <<numReaders, running, acc, rd, wr, cl, told>>, listening' \in BOOLEAN,
             ConnectionsOK', SetsOK'
      PROVE  Parts'
  <2>1. ControlsOK' /\ AcceptorOK'
    BY <1>0, <1>3 DEF ControlsOK, AcceptorOK
  <2>. QED
    BY <1>3, <2>1, Kept DEF Parts
<1>4. CASE ReleaseReads
  <2>1. ReadSetOK'
    BY <1>4 DEF ReleaseReads, ReadSetOK, Released, SocketSet
  <2>2. ConnectionsOK' /\ WriteSetOK' /\ PoolOK'
    BY <1>4, Kept DEF ReleaseReads
  <2>. QED
    BY <1>0, <1>3, <1>4, <2>1, <2>2 DEF ReleaseReads, SetsOK, ControlsOK
<1>5. CASE ReleaseWrites
  <2>1. WriteSetOK'
    BY <1>5 DEF ReleaseWrites, WriteSetOK, Released, SocketSet
  <2>2. ConnectionsOK' /\ ReadSetOK' /\ PoolOK'
    BY <1>5, Kept DEF ReleaseWrites
  <2>. QED
    BY <1>0, <1>3, <1>5, <2>1, <2>2 DEF ReleaseWrites, SetsOK, ControlsOK
<1>6. CASE CloseSocket
  <2>1. ConnectionsOK'
    BY <1>0, <1>6 DEF CloseSocket, ConnectionsOK
  <2>2. SetsOK'
    BY <1>6, Kept DEF CloseSocket, sets, SetsOK
  <2>. QED
    BY <1>3, <1>6, <2>1, <2>2 DEF CloseSocket
<1>7. CASE CloseAll
  <2>1. ConnectionsOK' /\ ReadSetOK' /\ WriteSetOK'
    BY <1>7, CloseKeeps DEF CloseAll
  <2>2. PoolOK'
    BY <1>7, Kept DEF CloseAll
  <2>. QED
    BY <1>0, <1>3, <1>7, <2>1, <2>2 DEF CloseAll, SetsOK, ControlsOK
<1>8. CASE Clear
  <2>1. PoolOK'
    BY <1>8 DEF Clear, PoolOK
  <2>2. ConnectionsOK' /\ ReadSetOK' /\ WriteSetOK'
    BY <1>8, Kept DEF Clear
  <2>. QED
    BY <1>0, <1>3, <1>8, <2>1, <2>2 DEF Clear, SetsOK, ControlsOK
<1>. QED
  BY <1>1, <1>2, <1>4, <1>5, <1>6, <1>7, <1>8 DEF Controls

LEMMA AcceptsParts == Parts /\ Accepts => Parts'
<1>. SUFFICES ASSUME Parts, Accepts PROVE Parts'
  OBVIOUS
<1>. USE NoneFact
<1>0. AcceptorOK /\ acc \in AccType
  BY DEF Parts, AcceptorOK
<1>a. UNCHANGED <<numReaders, running, listening, ctl, rd, wr, cl, told>>
  BY DEF Accepts, AcceptorLoops, Accept, AcceptorInserts, AcceptorAdds, controls
<1>b. ControlsOK' /\ ReadersOK' /\ HelperOK' /\ ClientsOK' /\ ToldOK'
  BY <1>a, Kept DEF controls
<1>1. CASE AcceptorLoops
  <2>1. AcceptorOK'
    BY <1>0, <1>1, <1>a DEF AcceptorLoops, AcceptorOK, AccType, Parts, ControlsOK
  <2>. QED
    BY <1>1, <1>b, <2>1, Kept DEF AcceptorLoops, Parts, SetsOK, sets
<1>2. CASE Accept
  <2>1. AcceptorOK'
    <3>1. ctl # "idle" /\ acc.conn = None
      BY <1>0, <1>2 DEF Accept, AcceptorOK
    <3>2. CASE acc' = [acc EXCEPT !.at = "loop"]
      BY <1>0, <1>a, <3>1, <3>2 DEF AcceptorOK, AccType
    <3>3. CASE \E c \in Conn : acc' = [at |-> "insert", conn |-> c]
      BY <1>a, <3>1, <3>3 DEF AcceptorOK, AccType, ConnOrNone
    <3>. QED
      BY <1>2, <3>2, <3>3 DEF Accept
  <2>2. ConnectionsOK'
    BY <1>2 DEF Accept, Parts, ConnectionsOK
  <2>. QED
    BY <1>2, <1>b, <2>1, <2>2, Kept DEF Accept, Parts, SetsOK, sets
<1>3. CASE AcceptorInserts
  <2>1. acc.conn \in Conn
    BY <1>0, <1>3 DEF AcceptorInserts, AcceptorOK, AccType, ConnOrNone
  <2>2. PoolOK'
    BY <1>3, <2>1, InsertKeeps DEF AcceptorInserts, ConnOrNone
  <2>3. AcceptorOK'
    BY <1>0, <1>3, <1>a DEF AcceptorInserts, AcceptorOK, AccType
  <2>. QED
    BY <1>3, <1>b, <2>2, <2>3, Kept DEF AcceptorInserts, Parts, SetsOK
<1>4. CASE AcceptorAdds
  <2>1. acc.conn \in Conn
    BY <1>0, <1>4 DEF AcceptorAdds, AcceptorOK, AccType, ConnOrNone
  <2>2. ReadSetOK'
    BY <1>4, <2>1 DEF AcceptorAdds, Parts, SetsOK, ReadSetOK, SocketSet, CanAdd, With
  <2>3. AcceptorOK'
    BY <1>0, <1>4, <1>a DEF AcceptorAdds, AcceptorOK, AccType, ConnOrNone
  <2>. QED
    BY <1>4, <1>b, <2>2, <2>3, Kept DEF AcceptorAdds, Parts, SetsOK
<1>. QED
  BY <1>1, <1>2, <1>3, <1>4 DEF Accepts

LEMMA ReadsParts == Parts /\ (\E r \in Reader : Reads1(r)) => Parts'
<1>. SUFFICES ASSUME Parts, NEW r \in Reader, Reads1(r) PROVE Parts'
  OBVIOUS
<1>. USE NoneFact
<1>0. ReadersOK /\ rd \in [Reader -> ReaderType] /\ rd[r] \in ReaderType
  BY DEF Parts, ReadersOK
<1>a. UNCHANGED <<controls, ctl, acc, wr, cl>>
  BY DEF Reads1, ReaderWaits, Receive, ReaderRemoves, ReaderCloses, ReaderErases, ReaderInserts, controls
<1>b. ControlsOK' /\ AcceptorOK' /\ HelperOK' /\ ClientsOK'
  BY <1>a, Kept
<1>c. ASSUME NEW rec \in ReaderType, rd' = [rd EXCEPT ![r] = rec], rec.conn = None <=> rec.at \in {"off", "loop"}
      PROVE  ReadersOK'
  <2>1. rd' \in [Reader -> ReaderType]
    BY <1>0, <1>c
  <2>2. ASSUME NEW q \in Reader PROVE rd'[q].conn = None <=> rd'[q].at \in {"off", "loop"}
    BY <1>0, <1>c DEF ReadersOK
  <2>. QED
    BY <2>1, <2>2 DEF ReadersOK
<1>d. rd[r].conn = None <=> rd[r].at \in {"off", "loop"}
  BY <1>0 DEF ReadersOK
<1>1. CASE ReaderWaits(r)
  <2>1. PICK rec \in ReaderType : rd' = [rd EXCEPT ![r] = rec] /\ rec.conn = rd[r].conn /\ rec.at \in {"loop", "off"}
    <3>1. {c \in readSet.in : HasInput(c)} \in SUBSET Conn
      BY DEF Parts, SetsOK, ReadSetOK, SocketSet
    <3>2. [rd[r] EXCEPT !.reads = {c \in readSet.in : HasInput(c)}] \in ReaderType /\ [rd[r] EXCEPT !.at = "off"] \in ReaderType
      BY <1>0, <3>1 DEF ReaderType
    <3>3. CASE running
      BY <1>0, <1>1, <3>2, <3>3 DEF ReaderWaits, ReaderType
    <3>4. CASE ~running
      BY <1>0, <1>1, <3>2, <3>4 DEF ReaderWaits, ReaderType
    <3>. QED
      BY <3>3, <3>4
  <2>2. ReadersOK'
    BY <1>1, <1>c, <1>d, <2>1 DEF ReaderWaits
  <2>. QED
    BY <1>1, <1>b, <2>2, Kept DEF ReaderWaits, Parts, SetsOK, sets
<1>2. CASE Receive(r)
  <2>1. Lowest(rd[r].reads) \in Conn
    BY <1>0, <1>2, LowestIn DEF Receive, ReaderType
  <2>2. PICK c \in Conn, m \in BOOLEAN :
            /\ rd' = [rd EXCEPT ![r] = [at |-> IF m THEN "insert" ELSE "remove",
                                       reads |-> @.reads \ {c}, conn |-> c]]
            /\ inbox' = [inbox EXCEPT ![c] = inbox[c] /\ ~m]
    BY <1>2, <2>1 DEF Receive
  <2>3. [at |-> IF m THEN "insert" ELSE "remove", reads |-> rd[r].reads \ {c}, conn |-> c] \in ReaderType
    BY <1>0 DEF ReaderType, ConnOrNone
  <2>4. ReadersOK'
    BY <1>c, <2>2, <2>3
  <2>5. ConnectionsOK'
    BY <1>2, <2>2 DEF Receive, Parts, ConnectionsOK
  <2>. QED
    BY <1>2, <1>b, <2>4, <2>5, Kept DEF Receive, Parts, SetsOK, sets
<1>3. CASE ReaderRemoves(r)
  <2>1. ReadersOK'
    <3>1. [rd[r] EXCEPT !.at = "close"] \in ReaderType /\ rd[r].conn # None
      BY <1>0, <1>3, <1>d DEF ReaderRemoves, Reads, ReaderType
    <3>. QED
      BY <1>0, <1>3, <1>c, <3>1 DEF ReaderRemoves, Reads, ReaderType
  <2>2. rd[r].conn \in Conn
    BY <1>0, <1>3, <1>d DEF ReaderRemoves, Reads, ReaderType, ConnOrNone
  <2>3. ReadSetOK' /\ ToldOK'
    BY <1>3, <2>2 DEF ReaderRemoves, Without, Parts, SetsOK, ReadSetOK, SocketSet, ToldOK
  <2>. QED
    BY <1>3, <1>b, <2>1, <2>3, Kept DEF ReaderRemoves, Parts, SetsOK
<1>4. CASE ReaderCloses(r)
  <2>1. ReadersOK'
    <3>1. [rd[r] EXCEPT !.at = "erase"] \in ReaderType /\ rd[r].conn # None
      BY <1>0, <1>4, <1>d DEF ReaderCloses, Reads, ReaderType
    <3>. QED
      BY <1>0, <1>4, <1>c, <3>1 DEF ReaderCloses, Reads, ReaderType
  <2>2. ConnectionsOK' /\ ReadSetOK' /\ WriteSetOK'
    BY <1>4, CloseKeeps DEF ReaderCloses
  <2>. QED
    BY <1>4, <1>b, <2>1, <2>2, Kept DEF ReaderCloses, Parts, SetsOK
<1>5. ASSUME rd' = [rd EXCEPT ![r].at = "loop", ![r].conn = None] PROVE ReadersOK'
  <2>1. [rd[r] EXCEPT !.at = "loop", !.conn = None] \in ReaderType
    BY <1>0 DEF ReaderType, ConnOrNone
  <2>2. rd' = [rd EXCEPT ![r] = [rd[r] EXCEPT !.at = "loop", !.conn = None]]
    BY <1>0, <1>5
  <2>3. [rd[r] EXCEPT !.at = "loop", !.conn = None].conn = None /\ [rd[r] EXCEPT !.at = "loop", !.conn = None].at = "loop"
    BY <1>0 DEF ReaderType
  <2>. QED
    BY <1>c, <2>1, <2>2, <2>3
<1>6. CASE ReaderErases(r)
  <2>1. PoolOK'
    BY <1>6, EraseKeeps DEF ReaderErases
  <2>. QED
    BY <1>5, <1>6, <1>b, <2>1, Kept DEF ReaderErases, Parts, SetsOK
<1>7. CASE ReaderInserts(r)
  <2>1. rd[r].conn \in Conn
    BY <1>0, <1>7, <1>d DEF ReaderInserts, ReaderType, ConnOrNone
  <2>2. PoolOK'
    BY <1>7, <2>1, InsertKeeps DEF ReaderInserts, ConnOrNone
  <2>. QED
    BY <1>5, <1>7, <1>b, <2>2, Kept DEF ReaderInserts, Parts, SetsOK
<1>. QED
  BY <1>1, <1>2, <1>3, <1>4, <1>6, <1>7 DEF Reads1

LEMMA HelpsParts == Parts /\ Helps => Parts'
<1>. SUFFICES ASSUME Parts, Helps PROVE Parts'
  OBVIOUS
<1>0. wr \in HelperType
  BY DEF Parts, HelperOK
<1>a. UNCHANGED <<controls, connections, readSet, pool, ctl, acc, rd, cl, told>>
  BY DEF Helps, HelperWaits, HelperCalls, HelperRemoves, controls, sets
<1>b. ControlsOK' /\ ConnectionsOK' /\ ReadSetOK' /\ PoolOK' /\ AcceptorOK' /\ ReadersOK' /\ ClientsOK' /\ ToldOK'
  BY <1>a, Kept
<1>1. CASE HelperWaits
  <2>1. HelperOK'
    <3>1. CASE running
      BY <1>0, <1>1, <3>1 DEF HelperWaits, HelperOK, HelperType, Parts, SetsOK, WriteSetOK, SocketSet
    <3>2. CASE ~running
      BY <1>0, <1>1, <3>2 DEF HelperWaits, HelperOK, HelperType
    <3>. QED
      BY <3>1, <3>2
  <2>. QED
    BY <1>1, <1>b, <2>1, Kept DEF HelperWaits, Parts, SetsOK, sets
<1>2. CASE HelperCalls
  <2>1. Lowest(wr.reads) \in Conn
    BY <1>0, <1>2, LowestIn DEF HelperCalls, HelperType
  <2>2. HelperOK'
    BY <1>0, <1>2, <2>1 DEF HelperCalls, HelperOK, HelperType, ConnOrNone
  <2>. QED
    BY <1>2, <1>b, <2>2, Kept DEF HelperCalls, Parts, SetsOK, sets
<1>3. CASE HelperRemoves
  <2>1. HelperOK'
    BY <1>0, <1>3 DEF HelperRemoves, HelperOK, HelperType, ConnOrNone
  <2>2. WriteSetOK'
    BY <1>3 DEF HelperRemoves, Parts, SetsOK, WriteSetOK, SocketSet, Without
  <2>. QED
    BY <1>b, <2>1, <2>2 DEF Parts, SetsOK
<1>. QED
  BY <1>1, <1>2, <1>3 DEF Helps

LEMMA PeersParts == Parts /\ Peers => Parts'
<1>. SUFFICES ASSUME Parts, NEW c \in Conn,
                     PeerConnects(c) \/ PeerSends(c) \/ PeerLeaves(c) \/ WriterFails(c)
              PROVE Parts'
  BY DEF Peers
<1>a. UNCHANGED <<controls, ctl, pool, acc, rd, wr, cl, told>>
  BY DEF PeerConnects, PeerSends, PeerLeaves, WriterFails, controls, sets
<1>b. ControlsOK' /\ PoolOK' /\ AcceptorOK' /\ ReadersOK' /\ HelperOK' /\ ClientsOK' /\ ToldOK'
  BY <1>a, Kept
<1>1. CASE PeerConnects(c) \/ PeerSends(c) \/ PeerLeaves(c)
  <2>1. ConnectionsOK'
    BY <1>1 DEF PeerConnects, PeerSends, PeerLeaves, Parts, ConnectionsOK
  <2>2. ReadSetOK' /\ WriteSetOK'
    BY <1>1, Kept DEF PeerConnects, PeerSends, PeerLeaves, sets
  <2>. QED
    BY <1>b, <2>1, <2>2 DEF Parts, SetsOK
<1>2. CASE WriterFails(c)
  <2>1. ConnectionsOK' /\ ReadSetOK' /\ WriteSetOK'
    BY <1>2, CloseKeeps DEF WriterFails
  <2>. QED
    BY <1>b, <2>1 DEF Parts, SetsOK
<1>. QED
  BY <1>1, <1>2

LEMMA AwaitsParts == Parts /\ AnyAwaits => Parts'
<1>. SUFFICES ASSUME Parts, NEW c \in Awaited, WaitForWriter(c) PROVE Parts'
  BY DEF AnyAwaits
<1>1. c \in Conn
  BY ConnAssumption
<1>2. WriteSetOK'
  BY <1>1 DEF WaitForWriter, Parts, SetsOK, WriteSetOK, SocketSet, With
<1>3. UNCHANGED <<controls, connections, readSet, pool, ctl, acc, rd, wr, cl, told>>
  BY DEF WaitForWriter, controls
<1>. QED
  BY <1>2, <1>3, Kept DEF Parts, SetsOK

LEMMA AsksParts == Parts /\ AnyAsks => Parts'
<1>. SUFFICES ASSUME Parts, NEW k \in Client, Asks(k) PROVE Parts'
  BY DEF AnyAsks
<1>. USE NoneFact
<1>0. ClientsOK /\ cl \in [Client -> ClientType] /\ cl[k] \in ClientType
  BY DEF Parts, ClientsOK
<1>a. UNCHANGED <<controls, ctl, acc, rd, wr, told>>
  BY DEF Asks, GetWriter, Connect, ClientInserts, Drop, ClientAdds, controls
<1>b. ControlsOK' /\ AcceptorOK' /\ ReadersOK' /\ HelperOK' /\ ToldOK'
  BY <1>a, Kept
<1>c. ASSUME NEW rec \in ClientType, cl' = [cl EXCEPT ![k] = rec],
             rec.sock = None <=> rec.at \in {"idle", "connect"}
      PROVE  ClientsOK'
  <2>1. cl' \in [Client -> ClientType]
    BY <1>0, <1>c
  <2>2. ASSUME NEW j \in Client PROVE cl'[j].sock = None <=> cl'[j].at \in {"idle", "connect"}
    BY <1>0, <1>c DEF ClientsOK
  <2>. QED
    BY <2>1, <2>2 DEF ClientsOK
<1>d. cl[k].sock = None <=> cl[k].at \in {"idle", "connect"}
  BY <1>0 DEF ClientsOK
<1>1. CASE GetWriter(k)
  <2>1. ClientsOK'
    <3>. PICK p \in Peer : cl' = [cl EXCEPT ![k].at = "connect", ![k].addr = p]
      BY <1>1 DEF GetWriter
    <3>. DEFINE rec == [cl[k] EXCEPT !.at = "connect", !.addr = p]
    <3>1. rec \in ClientType /\ rec.sock = None /\ rec.at = "connect"
      BY <1>0, <1>1, <1>d DEF ClientType, GetWriter
    <3>2. cl' = [cl EXCEPT ![k] = rec]
      BY <1>0
    <3>. HIDE DEF rec
    <3>. QED
      BY <1>c, <3>1, <3>2
  <2>. QED
    BY <1>1, <1>b, <2>1, Kept DEF GetWriter, Parts, SetsOK, sets
<1>2. CASE Connect(k)
  <2>1. ClientsOK'
    <3>1. CASE cl' = [cl EXCEPT ![k].at = "idle"]
      <4>1. [cl[k] EXCEPT !.at = "idle"] \in ClientType /\ [cl[k] EXCEPT !.at = "idle"].sock = None
            /\ [cl[k] EXCEPT !.at = "idle"].at = "idle"
        BY <1>0, <1>2, <1>d DEF ClientType, Connect
      <4>. QED
        BY <1>c, <3>1, <4>1
    <3>2. ASSUME NEW c \in Conn, cl' = [cl EXCEPT ![k].at = "insert", ![k].sock = c] PROVE ClientsOK'
      <4>. DEFINE rec == [cl[k] EXCEPT !.at = "insert", !.sock = c]
      <4>1. rec \in ClientType /\ rec.sock # None /\ rec.at = "insert"
        BY <1>0 DEF ClientType, ConnOrNone
      <4>2. cl' = [cl EXCEPT ![k] = rec]
        BY <1>0, <3>2
      <4>. HIDE DEF rec
      <4>. QED
        BY <1>c, <4>1, <4>2
    <3>. QED
      BY <1>2, <3>1, <3>2 DEF Connect
  <2>2. ConnectionsOK'
    BY <1>2 DEF Connect, Parts, ConnectionsOK
  <2>. QED
    BY <1>2, <1>b, <2>1, <2>2, Kept DEF Connect, Parts, SetsOK, sets
<1>3. CASE ClientInserts(k)
  <2>1. cl[k].sock \in Conn
    BY <1>0, <1>3, <1>d DEF ClientInserts, ClientType, ConnOrNone
  <2>2. TypeOK
    BY PartsAreTypes DEF HandsOK
  <2>3. PICK a \in Address :
            /\ Insert(a, cl[k].sock)
            /\ cl' = [cl EXCEPT ![k].at = IF a \in DOMAIN pool THEN "drop" ELSE "add",
                              ![k].writer = Stored(a, cl[k].sock)]
    BY <1>3, <2>1, <2>2, EndpointFact DEF ClientInserts, ConnOrNone
  <2>4. Stored(a, cl[k].sock) \in ConnOrNone
    BY <2>1, <2>2, StoredFact DEF ConnOrNone
  <2>5. ClientsOK'
    <3>1. PICK at \in {"drop", "add"} :
              cl' = [cl EXCEPT ![k].at = at, ![k].writer = Stored(a, cl[k].sock)]
      BY <2>3
    <3>. DEFINE rec == [cl[k] EXCEPT !.at = at, !.writer = Stored(a, cl[k].sock)]
    <3>2. rec \in ClientType /\ rec.sock = cl[k].sock /\ rec.at = at
      BY <1>0, <2>4 DEF ClientType
    <3>3. cl' = [cl EXCEPT ![k] = rec]
      BY <1>0, <3>1
    <3>. HIDE DEF rec
    <3>. QED
      BY <1>c, <2>1, <3>2, <3>3
  <2>6. PoolOK'
    BY <2>2, <2>1, <2>3, InsertFact DEF PoolOK
  <2>. QED
    BY <1>3, <1>b, <2>5, <2>6, Kept DEF ClientInserts, Parts, SetsOK
<1>4. ASSUME cl' = [cl EXCEPT ![k] = Idle(k)] PROVE ClientsOK'
  <2>1. Idle(k) \in ClientType /\ Idle(k).at = "idle" /\ Idle(k).sock = None
    BY <1>0 DEF Idle, ClientType, ConnOrNone
  <2>. QED
    BY <1>4, <1>c, <2>1
<1>5. CASE Drop(k)
  <2>1. ClientsOK' /\ ConnectionsOK' /\ ReadSetOK' /\ WriteSetOK'
    BY <1>4, <1>5, CloseKeeps DEF Drop
  <2>. QED
    BY <1>5, <1>b, <2>1, Kept DEF Drop, Parts, SetsOK
<1>6. CASE ClientAdds(k)
  <2>1. ClientsOK'
    BY <1>4, <1>6 DEF ClientAdds
  <2>2. ConnectionsOK' /\ ReadSetOK' /\ WriteSetOK'
    <3>1. CASE CanAdd(readSet, cl[k].sock)
      <4>1. cl[k].sock \in Conn
        BY <1>0, <1>6, <1>d DEF ClientAdds, ClientType, ConnOrNone
      <4>2. readSet' = With(readSet, cl[k].sock) /\ readSet.up /\ UNCHANGED <<state, peer, inbox, writeSet>>
        BY <1>6, <3>1 DEF ClientAdds, CanAdd
      <4>3. ReadSetOK'
        BY <4>1, <4>2 DEF Parts, SetsOK, ReadSetOK, SocketSet, With
      <4>. QED
        BY <4>2, <4>3, Kept DEF connections
    <3>2. CASE ~CanAdd(readSet, cl[k].sock)
      BY <1>6, <3>2, CloseKeeps DEF ClientAdds
    <3>. QED
      BY <3>1, <3>2
  <2>. QED
    BY <1>6, <1>b, <2>1, <2>2, Kept DEF ClientAdds, Parts, SetsOK
<1>. QED
  BY <1>1, <1>2, <1>3, <1>5, <1>6 DEF Asks

LEMMA NextHands == HandsOK /\ [Next]_vars => HandsOK'
<1>1. Parts /\ [Next]_vars => Parts'
  <2>. SUFFICES ASSUME Parts, [Next]_vars PROVE Parts'
    OBVIOUS
  <2>1. CASE Next
    BY <2>1, ControlsParts, AcceptsParts, ReadsParts, HelpsParts, PeersParts, AwaitsParts, AsksParts
       DEF Next, Serves
  <2>2. CASE UNCHANGED vars
    BY <2>2, Kept DEF vars, controls, sets, Parts, SetsOK
  <2>. QED
    BY <2>1, <2>2
<1>. QED
  BY <1>1, PartsAreTypes, PTL

\* Type correctness of the server's threads, its sets and its pool: what a thread passes to a call
\* on a socket is a socket, and no set that has been released has members.
THEOREM TypeCorrect == Spec => []TypeOK
<1>1. HandsOK => TypeOK
  BY DEF HandsOK
<1>. QED
  BY <1>1, InitHands, NextHands, PTL DEF Spec

-----------------------------------------------------------------------------
(* Every connection is listened to *)

Ended == {"broken", "closed"}
Begun == Ended \cup {"open"}

\* What a connection has gone through it does not go through again.
LEMMA StateMoves ==
    ASSUME HandsOK, [Next]_vars, NEW c \in Conn
    PROVE  /\ state[c] \in Ended => state'[c] \in Ended
           /\ state[c] \in Begun => state'[c] \in Begun
<1>. USE DEF HandsOK, Ended, Begun
<1>1. CASE Controls
  <2>1. CASE CloseAll
    BY <2>1, CloseFact DEF CloseAll
  <2>2. CASE CloseSocket
    BY <2>2 DEF CloseSocket, TypeOK
  <2>. QED
    BY <1>1, <2>1, <2>2 DEF Controls, StartFails, Start, Stop, ReleaseReads, ReleaseWrites, Clear, Join,
                            connections
<1>2. CASE Accepts
  BY <1>2 DEF Accepts, AcceptorLoops, Accept, AcceptorInserts, AcceptorAdds, connections, TypeOK
<1>3. ASSUME NEW r \in Reader, Reads1(r) PROVE state' = state \/ Close({rd[r].conn})
  BY <1>3 DEF Reads1, ReaderWaits, Receive, ReaderRemoves, ReaderCloses, ReaderErases, ReaderInserts, connections
<1>4. CASE \E r \in Reader : Reads1(r)
  BY <1>3, <1>4, CloseFact
<1>5. CASE Helps
  BY <1>5 DEF Helps, HelperWaits, HelperCalls, HelperRemoves, connections
<1>6. ASSUME NEW d \in Conn, PeerConnects(d) \/ PeerSends(d) \/ PeerLeaves(d) \/ WriterFails(d)
      PROVE  /\ state[c] \in Ended => state'[c] \in Ended
             /\ state[c] \in Begun => state'[c] \in Begun
  BY <1>6, CloseFact DEF PeerConnects, PeerSends, PeerLeaves, WriterFails, TypeOK
<1>7. CASE Peers
  BY <1>6, <1>7 DEF Peers
<1>8. CASE AnyAwaits
  BY <1>8 DEF AnyAwaits, WaitForWriter, connections
<1>9. ASSUME NEW k \in Client, Asks(k)
      PROVE  /\ state[c] \in Ended => state'[c] \in Ended
             /\ state[c] \in Begun => state'[c] \in Begun
  <2>1. CASE GetWriter(k) \/ ClientInserts(k)
    BY <2>1 DEF GetWriter, ClientInserts, connections
  <2>2. CASE Connect(k)
    BY <2>2 DEF Connect, TypeOK
  <2>3. CASE Drop(k)
    BY <2>3, CloseFact DEF Drop
  <2>4. CASE ClientAdds(k)
    BY <2>4, CloseFact DEF ClientAdds
  <2>. QED
    BY <1>9, <2>1, <2>2, <2>3, <2>4 DEF Asks
<1>10. CASE AnyAsks
  BY <1>9, <1>10 DEF AnyAsks
<1>11. CASE UNCHANGED vars
  BY <1>11 DEF vars, connections
<1>. QED
  BY <1>1, <1>2, <1>4, <1>5, <1>7, <1>8, <1>10, <1>11 DEF Next, Serves

\* While the server runs its set is not released, and before start() nothing is under way.
LifeControl ==
    /\ running => ctl = "up"
    /\ ctl \in {"idle", "up"} => readSet.up
    /\ ctl = "idle" => \A c \in Conn : state[c] = "unused"
    /\ ctl = "idle" => \A k \in Client : cl[k].at = "idle"
    /\ ctl = "idle" => \A r \in Reader : rd[r].at = "off"

\* What run() has yet to look at was open when the set reported it, and what it has found the end
\* of is over.
LifeReads(r) ==
    /\ \A c \in rd[r].reads : state[c] \in Begun
    /\ rd[r].at = "remove" => state[rd[r].conn] \in Ended

LifeInv == LifeControl /\ \A r \in Reader : LifeReads(r)

LEMMA InitLife == Init => LifeInv
<1>. SUFFICES ASSUME Init PROVE LifeInv
  OBVIOUS
<1>1. PICK p \in Peer : cl = [c \in Client |-> [at |-> "idle", addr |-> p, sock |-> None, writer |-> None]]
  BY DEF Init
<1>. QED
  BY <1>1 DEF Init, LifeInv, LifeControl, LifeReads, NewSet, Off

\* A set stays released, or not, whatever is added or removed.
LEMMA MemberFact == ASSUME TypeOK, NEW c PROVE With(readSet, c).up = readSet.up /\ Without(readSet, c).up = readSet.up
BY DEF TypeOK, SocketSet, With, Without

LEMMA NextLifeControl == HandsOK /\ LifeControl /\ [Next]_vars => LifeControl'
<1>. SUFFICES ASSUME HandsOK, LifeControl, [Next]_vars PROVE LifeControl'
  OBVIOUS
<1>. USE DEF HandsOK, LifeControl
<1>1. CASE Controls
  <2>1. CASE CloseAll
    BY <2>1 DEF CloseAll
  <2>2. CASE StartFails \/ Start
    BY <2>2 DEF StartFails, Start, sets
  <2>3. CASE Stop \/ ReleaseReads \/ ReleaseWrites \/ CloseSocket \/ Clear \/ Join
    <3>1. ctl' \notin {"idle", "up"} /\ (running' => running /\ ctl # "up")
      <4>1. CASE Stop
        BY <4>1 DEF Stop
      <4>2. CASE ReleaseReads \/ ReleaseWrites
        <5>1. ctl \in {"release reads", "release writes"} /\ ctl' \in {"release writes", "close"} /\ running' = running
          BY <4>2 DEF ReleaseReads, ReleaseWrites
        <5>. QED
          BY <5>1
      <4>3. CASE CloseSocket \/ Clear \/ Join
        <5>1. ctl \in {"close", "clear", "join"} /\ ctl' \in {"close all", "join", "stopped"} /\ running' = running
          BY <4>3 DEF CloseSocket, Clear, Join
        <5>. QED
          BY <5>1
      <4>. QED
        BY <2>3, <4>1, <4>2, <4>3
    <3>. QED
      BY <3>1
  <2>. QED
    BY <1>1, <2>1, <2>2, <2>3 DEF Controls
<1>2. CASE Accepts
  <2>1. UNCHANGED controls /\ ctl # "idle"
    BY <1>2 DEF Accepts, AcceptorLoops, Accept, AcceptorInserts, AcceptorAdds, HandsInv
  <2>2. readSet'.up = readSet.up
    <3>1. readSet' = readSet \/ readSet' = With(readSet, acc.conn)
      BY <1>2 DEF Accepts, AcceptorLoops, Accept, AcceptorInserts, AcceptorAdds, sets
    <3>. QED
      BY <3>1, MemberFact
  <2>. QED
    BY <2>1, <2>2 DEF controls
<1>3. ASSUME NEW r \in Reader, Reads1(r) PROVE LifeControl'
  <2>1. UNCHANGED controls /\ rd[r].at # "off"
    BY <1>3 DEF Reads1, ReaderWaits, Receive, ReaderRemoves, ReaderCloses, ReaderErases, ReaderInserts, Reads
  <2>2. readSet'.up = readSet.up
    BY <1>3, CloseFact DEF Reads1, ReaderWaits, Receive, ReaderRemoves, ReaderCloses, ReaderErases,
                           ReaderInserts, sets, Without, TypeOK, SocketSet
  <2>. QED
    BY <2>1, <2>2 DEF controls
<1>4. CASE \E r \in Reader : Reads1(r)
  BY <1>3, <1>4
<1>5. CASE Helps
  BY <1>5 DEF Helps, HelperWaits, HelperCalls, HelperRemoves, controls, connections, sets
<1>6. ASSUME NEW c \in Conn, PeerConnects(c) \/ PeerSends(c) \/ PeerLeaves(c) \/ WriterFails(c)
      PROVE  LifeControl'
  BY <1>6, CloseFact DEF PeerConnects, PeerSends, PeerLeaves, WriterFails, controls, sets
<1>7. CASE Peers
  BY <1>6, <1>7 DEF Peers
<1>8. CASE AnyAwaits
  BY <1>8 DEF AnyAwaits, WaitForWriter, controls, connections
<1>9. ASSUME NEW k \in Client, Asks(k) PROVE LifeControl'
  <2>1. UNCHANGED controls /\ ctl # "idle"
    BY <1>9 DEF Asks, GetWriter, Connect, ClientInserts, Drop, ClientAdds
  <2>2. readSet'.up = readSet.up
    <3>1. readSet' = readSet \/ readSet' = With(readSet, cl[k].sock) \/ Close({cl[k].sock})
      BY <1>9 DEF Asks, GetWriter, Connect, ClientInserts, Drop, ClientAdds, sets
    <3>. QED
      BY <3>1, MemberFact, CloseFact
  <2>. QED
    BY <2>1, <2>2 DEF controls
<1>10. CASE AnyAsks
  BY <1>9, <1>10 DEF AnyAsks
<1>11. CASE UNCHANGED vars
  BY <1>11 DEF vars, controls, connections, sets
<1>. QED
  BY <1>1, <1>2, <1>4, <1>5, <1>7, <1>8, <1>10, <1>11 DEF Next, Serves

LEMMA NextLifeReads ==
    ASSUME HandsOK, [Next]_vars, NEW r \in Reader, LifeReads(r)
    PROVE  LifeReads(r)'
<1>. USE DEF HandsOK
<1>0. rd[r] \in ReaderType /\ rd \in [Reader -> ReaderType]
  BY DEF TypeOK, ReaderType
<1>1. ASSUME rd'[r].reads = rd[r].reads, rd'[r].conn = rd[r].conn,
             rd'[r].at = "remove" => rd[r].at = "remove"
      PROVE  LifeReads(r)'
  BY <1>0, <1>1, StateMoves DEF LifeReads, HandsInv, ReaderType, ConnOrNone
<1>2. CASE rd' = rd
  BY <1>1, <1>2
<1>3. CASE Start
  <2>1. rd'[r].reads = {} /\ rd'[r].at # "remove"
    BY <1>3 DEF Start, Off
  <2>. QED
    BY <2>1 DEF LifeReads
<1>4. ASSUME NEW q \in Reader \ {r}, Reads1(q) PROVE rd'[r] = rd[r]
  BY <1>0, <1>4 DEF Reads1, ReaderWaits, Receive, ReaderRemoves, ReaderCloses, ReaderErases, ReaderInserts, Reads
<1>5. CASE ReaderWaits(r)
  <2>1. state' = state /\ rd'[r].at # "remove"
    BY <1>0, <1>5 DEF ReaderWaits, connections
  <2>2. rd'[r].reads \subseteq {c \in Conn : HasInput(c)}
    BY <1>0, <1>5 DEF ReaderWaits, TypeOK, SocketSet
  <2>. QED
    BY <2>1, <2>2 DEF LifeReads, HasInput, Begun, Ended
<1>6. CASE Receive(r)
  <2>. DEFINE c == Lowest(rd[r].reads)
  <2>1. c \in rd[r].reads /\ c \in Conn
    BY <1>0, <1>6, LowestIn DEF Receive, ReaderType
  <2>2. state[c] \in Begun
    BY <2>1 DEF LifeReads
  <2>3. PICK m \in BOOLEAN :
            /\ m \/ state[c] # "open"
            /\ rd' = [rd EXCEPT ![r] = [at |-> IF m THEN "insert" ELSE "remove",
                                       reads |-> @.reads \ {c}, conn |-> c]]
            /\ state' = state
    BY <1>6, <2>1 DEF Receive, TypeOK, Connected
  <2>. HIDE DEF c
  <2>. QED
    BY <1>0, <2>1, <2>2, <2>3 DEF LifeReads, Begun, Ended
<1>7. CASE ReaderRemoves(r) \/ ReaderCloses(r)
  BY <1>0, <1>1, <1>7 DEF ReaderRemoves, ReaderCloses, Reads, ReaderType
<1>8. CASE ReaderErases(r) \/ ReaderInserts(r)
  <2>1. rd'[r].reads = rd[r].reads /\ rd'[r].at = "loop"
    BY <1>0, <1>8 DEF ReaderErases, ReaderInserts, ReaderType
  <2>. QED
    BY <1>0, <2>1, StateMoves DEF LifeReads, ReaderType
<1>9. CASE \E q \in Reader : Reads1(q)
  BY <1>1, <1>4, <1>5, <1>6, <1>7, <1>8, <1>9 DEF Reads1
<1>10. CASE Controls
  BY <1>2, <1>3, <1>10 DEF Controls, StartFails, Stop, ReleaseReads, ReleaseWrites, CloseSocket, CloseAll, Clear, Join
<1>11. CASE Accepts \/ Helps
  BY <1>2, <1>11 DEF Accepts, AcceptorLoops, Accept, AcceptorInserts, AcceptorAdds,
                     Helps, HelperWaits, HelperCalls, HelperRemoves
<1>12. CASE Peers \/ AnyAwaits
  BY <1>2, <1>12 DEF Peers, PeerConnects, PeerSends, PeerLeaves, WriterFails, AnyAwaits, WaitForWriter
<1>13. CASE AnyAsks
  BY <1>2, <1>13 DEF AnyAsks, Asks, GetWriter, Connect, ClientInserts, Drop, ClientAdds
<1>14. CASE UNCHANGED vars
  BY <1>2, <1>14 DEF vars
<1>. QED
  BY <1>9, <1>10, <1>11, <1>12, <1>13, <1>14 DEF Next, Serves

LEMMA NextLife == HandsOK /\ LifeInv /\ [Next]_vars => LifeInv'
BY NextLifeControl, NextLifeReads DEF LifeInv

LEMMA InitListened == Init => AllListened
BY DEF Init, AllListened

\* A step of somebody who neither opens a connection nor holds one.
LEMMA Unheard ==
    ASSUME HandsOK, AllListened, running' => running,
           \A c \in Conn : state'[c] = "open" => state[c] = "open",
           \A c \in Conn : state'[c] = "open" /\ c \in readSet.in => c \in readSet'.in,
           acc'.conn = acc.conn, \A k \in Client : cl'[k].sock = cl[k].sock
    PROVE  AllListened'
BY DEF AllListened

LEMMA NextListened == HandsOK /\ LifeInv /\ AllListened /\ [Next]_vars => AllListened'
<1>. SUFFICES ASSUME HandsOK, LifeInv, AllListened, [Next]_vars PROVE AllListened'
  OBVIOUS
<1>. USE NoneFact DEF HandsOK
<1>0. ASSUME NEW S, Close(S)
      PROVE  /\ \A c \in Conn : state'[c] = "open" => state[c] = "open"
             /\ \A c \in Conn : state'[c] = "open" /\ c \in readSet.in => c \in readSet'.in
             /\ \A c \in S \cap Conn : state'[c] = "closed"
  BY <1>0 DEF Close, TypeOK, SocketSet
<1>1. CASE Start
  BY <1>1 DEF Start, LifeInv, LifeControl, AllListened, connections
<1>2. CASE Stop
  BY <1>2 DEF Stop, AllListened
<1>3. CASE CloseAll
  BY <1>0, <1>3, Unheard DEF CloseAll
<1>4. CASE ReleaseReads
  BY <1>4 DEF ReleaseReads, LifeInv, LifeControl, AllListened
<1>5. CASE CloseSocket
  BY <1>5, Unheard DEF CloseSocket, TypeOK, sets
<1>6. CASE StartFails \/ ReleaseWrites \/ Clear \/ Join
  <2>1. UNCHANGED <<running, state, readSet, acc, cl>>
    BY <1>6 DEF StartFails, ReleaseWrites, Clear, Join, connections, sets
  <2>. QED
    BY <2>1, Unheard
<1>7. CASE AcceptorLoops \/ AcceptorInserts
  <2>1. UNCHANGED <<running, state, readSet, cl>> /\ acc'.conn = acc.conn
    BY <1>7 DEF AcceptorLoops, AcceptorInserts, controls, connections, sets, TypeOK
  <2>. QED
    BY <2>1, Unheard
<1>8. CASE Accept
  <2>1. acc.conn = None
    BY <1>8 DEF Accept, HandsInv
  <2>2. UNCHANGED <<running, readSet, cl>>
    BY <1>8 DEF Accept, controls, sets
  <2>3. \A c \in Conn : state'[c] = "open" => state[c] = "open" \/ acc'.conn = c
    <3>1. CASE state' = state
      BY <3>1
    <3>2. CASE \E c \in Conn : state' = [state EXCEPT ![c] = "open"] /\ acc' = [at |-> "insert", conn |-> c]
      <4>. PICK c \in Conn : state' = [state EXCEPT ![c] = "open"] /\ acc' = [at |-> "insert", conn |-> c]
        BY <3>2
      <4>1. acc'.conn = c
        OBVIOUS
      <4>. QED
        BY <4>1 DEF TypeOK
    <3>. QED
      BY <1>8, <3>1, <3>2 DEF Accept
  <2>. QED
    BY <2>1, <2>2, <2>3 DEF AllListened
<1>9. CASE AcceptorAdds
  <2>1. running => readSet.up
    BY DEF LifeInv, LifeControl
  <2>2. running /\ Connected(acc.conn) => readSet' = With(readSet, acc.conn)
    BY <1>9, <2>1 DEF AcceptorAdds, CanAdd
  <2>3. readSet.in \subseteq readSet'.in
    BY <1>9 DEF AcceptorAdds, With, TypeOK, SocketSet
  <2>4. running /\ Connected(acc.conn) => acc.conn \in readSet'.in
    <3>1. With(readSet, acc.conn).in = readSet.in \cup {acc.conn}
      BY DEF With, TypeOK, SocketSet
    <3>. QED
      BY <2>2, <3>1
  <2>. QED
    BY <1>9, <2>3, <2>4 DEF AcceptorAdds, AllListened, Connected, controls, connections
<1>10. ASSUME NEW r \in Reader, Reads1(r) PROVE AllListened'
  <2>1. CASE ReaderWaits(r) \/ Receive(r) \/ ReaderErases(r) \/ ReaderInserts(r)
    BY <2>1, Unheard DEF ReaderWaits, Receive, ReaderErases, ReaderInserts, controls, connections, sets
  <2>2. CASE ReaderRemoves(r)
    <3>1. state[rd[r].conn] # "open"
      BY <2>2 DEF ReaderRemoves, Reads, LifeInv, LifeReads, Ended
    <3>2. \A c \in Conn : state[c] = "open" /\ c \in readSet.in => c \in readSet'.in
      BY <2>2, <3>1 DEF ReaderRemoves, Without, TypeOK, SocketSet
    <3>. QED
      BY <2>2, <3>2, Unheard DEF ReaderRemoves, controls, connections
  <2>3. CASE ReaderCloses(r)
    BY <1>0, <2>3, Unheard DEF ReaderCloses, controls
  <2>. QED
    BY <1>10, <2>1, <2>2, <2>3 DEF Reads1
<1>11. CASE Helps
  BY <1>11, Unheard DEF Helps, HelperWaits, HelperCalls, HelperRemoves, controls, connections, sets
<1>12. ASSUME NEW c \in Conn, PeerConnects(c) \/ PeerSends(c) \/ PeerLeaves(c) PROVE AllListened'
  <2>1. UNCHANGED <<running, readSet, acc, cl>>
    BY <1>12 DEF PeerConnects, PeerSends, PeerLeaves, controls, sets
  <2>2. \A d \in Conn : state'[d] = "open" => state[d] = "open"
    BY <1>12 DEF PeerConnects, PeerSends, PeerLeaves, TypeOK
  <2>. QED
    BY <2>1, <2>2, Unheard
<1>13. ASSUME NEW c \in Conn, WriterFails(c) PROVE AllListened'
  BY <1>0, <1>13, Unheard DEF WriterFails, controls
<1>14. CASE AnyAwaits
  BY <1>14, Unheard DEF AnyAwaits, WaitForWriter, controls, connections
<1>15. ASSUME NEW k \in Client, Asks(k) PROVE AllListened'
  <2>0. cl \in [Client -> ClientType]
    BY DEF TypeOK, ClientType
  <2>1. CASE GetWriter(k) \/ ClientInserts(k)
    <3>1. \A j \in Client : cl'[j].sock = cl[j].sock
      <4>1. CASE GetWriter(k)
        BY <2>0, <4>1 DEF GetWriter, ClientType
      <4>2. CASE ClientInserts(k)
        BY <2>0, <4>2 DEF ClientInserts, ClientType
      <4>. QED
        BY <2>1, <4>1, <4>2
    <3>. QED
      BY <2>1, <3>1, Unheard DEF GetWriter, ClientInserts, controls, connections, sets
  <2>2. CASE Connect(k)
    <3>1. cl[k].sock = None
      BY <2>2 DEF Connect, HandsInv
    <3>2. UNCHANGED <<running, readSet, acc>> /\ \A j \in Client \ {k} : cl'[j].sock = cl[j].sock
      BY <2>0, <2>2 DEF Connect, ClientType, controls, sets
    <3>3. \A c \in Conn : state'[c] = "open" => state[c] = "open" \/ cl'[k].sock = c
      <4>1. CASE state' = state
        BY <4>1
      <4>2. CASE \E c \in Conn : /\ state' = [state EXCEPT ![c] = "open"]
                                /\ cl' = [cl EXCEPT ![k].at = "insert", ![k].sock = c]
        <5>. PICK c \in Conn : /\ state' = [state EXCEPT ![c] = "open"]
                               /\ cl' = [cl EXCEPT ![k].at = "insert", ![k].sock = c]
          BY <4>2
        <5>1. cl'[k].sock = c
          BY <2>0 DEF ClientType
        <5>. QED
          BY <5>1 DEF TypeOK
      <4>. QED
        BY <2>2, <4>1, <4>2 DEF Connect
    <3>. QED
      BY <3>1, <3>2, <3>3 DEF AllListened
  <2>3. cl' = [cl EXCEPT ![k] = Idle(k)] => \A j \in Client \ {k} : cl'[j].sock = cl[j].sock
    BY <2>0
  <2>4. CASE Drop(k)
    <3>1. cl[k].sock \in Conn => state'[cl[k].sock] = "closed"
      BY <1>0, <2>4 DEF Drop
    <3>. QED
      BY <1>0, <2>3, <2>4, <3>1 DEF Drop, AllListened, controls
  <2>5. CASE ClientAdds(k)
    <3>1. CASE CanAdd(readSet, cl[k].sock)
      <4>1. readSet' = With(readSet, cl[k].sock) /\ state' = state
        BY <2>5, <3>1 DEF ClientAdds
      <4>2. readSet'.in = readSet.in \cup {cl[k].sock}
        BY <4>1 DEF With, TypeOK, SocketSet
      <4>. QED
        BY <2>3, <2>5, <4>1, <4>2 DEF ClientAdds, AllListened, controls
    <3>2. CASE ~CanAdd(readSet, cl[k].sock)
      <4>1. cl[k].sock \in Conn => state'[cl[k].sock] = "closed"
        BY <1>0, <2>5, <3>2 DEF ClientAdds
      <4>. QED
        BY <1>0, <2>3, <2>5, <3>2, <4>1 DEF ClientAdds, AllListened, controls
    <3>. QED
      BY <3>1, <3>2
  <2>. QED
    BY <1>15, <2>1, <2>2, <2>4, <2>5 DEF Asks
<1>16. CASE UNCHANGED vars
  BY <1>16, Unheard DEF vars, controls, connections, sets
<1>17. CASE Controls
  BY <1>1, <1>2, <1>3, <1>4, <1>5, <1>6, <1>17 DEF Controls
<1>18. CASE Accepts
  BY <1>7, <1>8, <1>9, <1>18 DEF Accepts
<1>. QED
  BY <1>10, <1>11, <1>12, <1>13, <1>14, <1>15, <1>16, <1>17, <1>18 DEF Next, Serves, Peers, AnyAsks

\* While the server runs, a connection that is open is in the set its readers wait on, or held by
\* the thread about to add it, for any number of readers, of clients and of connections.
THEOREM EveryListened == Spec => []AllListened
BY InitHands, NextHands, InitLife, NextLife, InitListened, NextListened, PTL DEF Spec

-----------------------------------------------------------------------------
(* The end of a connection is told last *)

\* A connection somebody reads from, or has read from.
Past(c) ==
    \/ c \in readSet.in \cup told
    \/ \E r \in Reader : c \in rd[r].reads \/ rd[r].conn = c

ByClient(c) == \E k \in Client : cl[k].sock = c

\* A connection is in one place: not begun, with the acceptor, with one client, or past them.
PlaceInv ==
    /\ \A c \in Conn : Past(c) => state[c] \in Begun /\ acc.conn # c /\ ~ByClient(c)
    /\ \A c \in Conn : acc.conn = c => state[c] \in Begun /\ ~ByClient(c)
    /\ \A c \in Conn : ByClient(c) => state[c] \in Begun
    /\ \A j, k \in Client : cl[j].sock = cl[k].sock /\ cl[k].sock # None => j = k

\* What the one reader is told of the end of is not to be read from again.
ReaderInv ==
    /\ \A q, r \in Reader : rd[q].at # "off" /\ rd[r].at # "off" => q = r
    /\ told \cap readSet.in = {}
    /\ \A r \in Reader : /\ told \cap rd[r].reads = {}
                         /\ rd[r].at \in {"remove", "insert"} => rd[r].conn \notin told
                         /\ rd[r].conn \notin rd[r].reads
                         /\ rd[r].at = "off" => rd[r].reads = {}

EndInv == HandsOK /\ PlaceInv /\ (numReaders = 1 => ReaderInv)

LEMMA InitEnd == Init => PlaceInv /\ ReaderInv
<1>. SUFFICES ASSUME Init PROVE PlaceInv /\ ReaderInv
  OBVIOUS
<1>1. PICK p \in Peer : cl = [c \in Client |-> [at |-> "idle", addr |-> p, sock |-> None, writer |-> None]]
  BY DEF Init
<1>2. \A c \in Conn : ~Past(c) /\ ~ByClient(c) /\ acc.conn # c
  BY <1>1, NoneFact DEF Init, Past, ByClient, NewSet, Off
<1>3. PlaceInv
  BY <1>1, <1>2 DEF PlaceInv
<1>. QED
  BY <1>3 DEF Init, ReaderInv, NewSet, Off

\* A step that gives nobody a connection.
LEMMA PlaceStable ==
    ASSUME HandsOK, [Next]_vars, PlaceInv, \A c \in Conn : Past(c)' => Past(c),
           acc'.conn \in {acc.conn, None}, \A k \in Client : cl'[k].sock \in {cl[k].sock, None}
    PROVE  PlaceInv'
<1>1. \A c \in Conn : ByClient(c)' => ByClient(c)
  BY NoneFact DEF ByClient
<1>2. \A c \in Conn : state[c] \in Begun => state'[c] \in Begun
  BY StateMoves
<1>3. \A c \in Conn : Past(c)' => state'[c] \in Begun /\ acc'.conn # c /\ ~ByClient(c)'
  BY <1>1, <1>2, NoneFact DEF PlaceInv
<1>4. \A c \in Conn : acc'.conn = c => state'[c] \in Begun /\ ~ByClient(c)'
  BY <1>1, <1>2, NoneFact DEF PlaceInv
<1>5. \A c \in Conn : ByClient(c)' => state'[c] \in Begun
  BY <1>1, <1>2 DEF PlaceInv
<1>6. \A j, k \in Client : cl'[j].sock = cl'[k].sock /\ cl'[k].sock # None => j = k
  BY DEF PlaceInv
<1>. QED
  BY <1>3, <1>4, <1>5, <1>6 DEF PlaceInv

\* Who is past stays so only by the set, the readers and what was told.
LEMMA PastStable ==
    ASSUME rd' = rd, told' = told, readSet'.in \subseteq readSet.in, NEW c, Past(c)'
    PROVE  Past(c)
BY DEF Past

LEMMA NextPlace == HandsOK /\ PlaceInv /\ [Next]_vars => PlaceInv'
<1>. SUFFICES ASSUME HandsOK, PlaceInv, [Next]_vars PROVE PlaceInv'
  OBVIOUS
<1>. USE NoneFact DEF HandsOK
<1>a. rd \in [Reader -> ReaderType] /\ cl \in [Client -> ClientType] /\ readSet \in SocketSet
  BY DEF TypeOK, ReaderType, ClientType
<1>b. ASSUME NEW S, Close(S) PROVE readSet'.in \subseteq readSet.in
  BY <1>b, CloseFact
<1>c. ASSUME rd' = rd, told' = told, readSet'.in \subseteq readSet.in,
             acc'.conn \in {acc.conn, None}, \A k \in Client : cl'[k].sock \in {cl[k].sock, None}
      PROVE  PlaceInv'
  <2>1. \A c \in Conn : Past(c)' => Past(c)
    BY <1>c, PastStable
  <2>. QED
    BY <1>c, <2>1, PlaceStable
<1>1. CASE Controls
  <2>1. CASE Start
    <3>1. \A r \in Reader : rd'[r].reads = {} /\ rd'[r].conn = None
      BY <2>1 DEF Start, Off
    <3>2. UNCHANGED <<told, readSet, cl>> /\ acc'.conn = acc.conn
      BY <2>1 DEF Start, sets, TypeOK
    <3>3. \A c \in Conn : Past(c)' => Past(c)
      BY <3>1, <3>2 DEF Past
    <3>. QED
      BY <3>2, <3>3, PlaceStable
  <2>2. CASE CloseAll
    BY <1>b, <1>c, <2>2 DEF CloseAll
  <2>3. CASE ReleaseReads
    BY <1>c, <2>3 DEF ReleaseReads, Released
  <2>4. CASE StartFails \/ Stop \/ ReleaseWrites \/ CloseSocket \/ Clear \/ Join
    BY <1>c, <2>4 DEF StartFails, Stop, ReleaseWrites, CloseSocket, Clear, Join, sets
  <2>. QED
    BY <1>1, <2>1, <2>2, <2>3, <2>4 DEF Controls
<1>2. CASE AcceptorLoops \/ AcceptorInserts
  <2>1. UNCHANGED <<rd, told, readSet, cl>> /\ acc'.conn = acc.conn
    BY <1>2 DEF AcceptorLoops, AcceptorInserts, sets, TypeOK
  <2>. QED
    BY <1>c, <2>1
<1>3. CASE Accept
  <2>1. CASE ~listening /\ acc' = [acc EXCEPT !.at = "loop"]
    <3>1. UNCHANGED <<rd, told, readSet, cl>> /\ acc'.conn = acc.conn
      BY <1>3, <2>1 DEF Accept, sets, TypeOK
    <3>. QED
      BY <1>c, <3>1
  <2>2. CASE \E c \in Conn : /\ state[c] = "offered"
                            /\ state' = [state EXCEPT ![c] = "open"]
                            /\ acc' = [at |-> "insert", conn |-> c]
    <3>. PICK c \in Conn : /\ state[c] = "offered"
                           /\ state' = [state EXCEPT ![c] = "open"]
                           /\ acc' = [at |-> "insert", conn |-> c]
      BY <2>2
    <3>1. UNCHANGED <<rd, told, readSet, cl>>
      BY <1>3 DEF Accept, sets
    <3>2. acc'.conn = c /\ state'[c] = "open" /\ \A d \in Conn \ {c} : state'[d] = state[d]
      BY DEF TypeOK
    <3>3. ~Past(c) /\ ~ByClient(c)
      BY DEF PlaceInv, Begun, Ended
    <3>4. \A d \in Conn : (Past(d)' <=> Past(d)) /\ (ByClient(d)' <=> ByClient(d))
      BY <3>1 DEF Past, ByClient
    <3>. QED
      BY <3>1, <3>2, <3>3, <3>4 DEF PlaceInv, Begun
  <2>. QED
    BY <1>3, <2>1, <2>2 DEF Accept
<1>4. CASE AcceptorAdds
  <2>1. UNCHANGED <<rd, told, cl, state>> /\ acc'.conn = None
    BY <1>4 DEF AcceptorAdds, connections
  <2>2. acc.conn \in Conn /\ readSet'.in \subseteq readSet.in \cup {acc.conn}
    BY <1>a, <1>4 DEF AcceptorAdds, With, SocketSet, HandsInv, TypeOK, ConnOrNone
  <2>3. \A c \in Conn : (Past(c)' => Past(c) \/ acc.conn = c) /\ (ByClient(c)' <=> ByClient(c))
    BY <2>1, <2>2 DEF Past, ByClient
  <2>. QED
    BY <2>1, <2>2, <2>3 DEF PlaceInv
<1>5. ASSUME NEW r \in Reader, Reads1(r) PROVE PlaceInv'
  <2>1. UNCHANGED <<acc, cl>>
    BY <1>5 DEF Reads1, ReaderWaits, Receive, ReaderRemoves, ReaderCloses, ReaderErases, ReaderInserts
  <2>2. /\ rd'[r].reads \subseteq rd[r].reads \cup readSet.in
        /\ rd'[r].conn \in rd[r].reads \cup {rd[r].conn, None}
        /\ \A q \in Reader \ {r} : rd'[q] = rd[q]
    <3>1. CASE ReaderWaits(r)
      BY <1>a, <3>1 DEF ReaderWaits, ReaderType
    <3>2. CASE Receive(r)
      <4>. DEFINE c == Lowest(rd[r].reads)
      <4>1. c \in rd[r].reads
        BY <1>a, <3>2, LowestIn DEF Receive, ReaderType
      <4>2. PICK at \in {"insert", "remove"} :
                rd' = [rd EXCEPT ![r] = [at |-> at, reads |-> @.reads \ {c}, conn |-> c]]
        BY <3>2 DEF Receive
      <4>. HIDE DEF c
      <4>. QED
        BY <1>a, <4>1, <4>2
    <3>3. CASE ReaderRemoves(r) \/ ReaderCloses(r)
      BY <1>a, <3>3 DEF ReaderRemoves, ReaderCloses, Reads, ReaderType
    <3>4. CASE ReaderErases(r) \/ ReaderInserts(r)
      BY <1>a, <3>4 DEF ReaderErases, ReaderInserts, ReaderType
    <3>. QED
      BY <1>5, <3>1, <3>2, <3>3, <3>4 DEF Reads1
  <2>3. readSet'.in \subseteq readSet.in /\ told' \subseteq told \cup {rd[r].conn}
    BY <1>a, <1>b, <1>5 DEF Reads1, ReaderWaits, Receive, ReaderRemoves, ReaderCloses, ReaderErases,
                            ReaderInserts, sets, Without, SocketSet
  <2>4. \A c \in Conn : Past(c)' => Past(c)
    BY <2>2, <2>3 DEF Past
  <2>. QED
    BY <2>1, <2>4, PlaceStable
<1>6. CASE Helps
  BY <1>c, <1>6 DEF Helps, HelperWaits, HelperCalls, HelperRemoves, sets
<1>7. ASSUME NEW c \in Conn, PeerConnects(c) \/ PeerSends(c) \/ PeerLeaves(c) \/ WriterFails(c)
      PROVE  PlaceInv'
  BY <1>b, <1>c, <1>7 DEF PeerConnects, PeerSends, PeerLeaves, WriterFails, sets
<1>8. CASE AnyAwaits
  BY <1>c, <1>8 DEF AnyAwaits, WaitForWriter
<1>9. ASSUME NEW k \in Client, Asks(k) PROVE PlaceInv'
  <2>1. CASE GetWriter(k)
    <3>1. \A j \in Client : cl'[j].sock = cl[j].sock
      BY <1>a, <2>1 DEF GetWriter, ClientType
    <3>. QED
      BY <1>c, <2>1, <3>1 DEF GetWriter, sets
  <2>2. CASE ClientInserts(k)
    <3>1. \A j \in Client : cl'[j].sock = cl[j].sock
      BY <1>a, <2>2 DEF ClientInserts, ClientType
    <3>. QED
      BY <1>c, <2>2, <3>1 DEF ClientInserts
  <2>3. cl' = [cl EXCEPT ![k] = Idle(k)] => /\ \A j \in Client \ {k} : cl'[j] = cl[j]
                                           /\ cl'[k].sock = None
    BY <1>a DEF Idle, ClientType
  <2>4. CASE Drop(k)
    BY <1>b, <1>c, <2>3, <2>4 DEF Drop
  <2>5. CASE Connect(k)
    <3>0. UNCHANGED <<rd, told, readSet, acc>>
      BY <2>5 DEF Connect, sets
    <3>1. CASE cl' = [cl EXCEPT ![k].at = "idle"]
      <4>1. \A j \in Client : cl'[j].sock = cl[j].sock
        BY <1>a, <3>1 DEF ClientType
      <4>. QED
        BY <1>c, <3>0, <4>1
    <3>2. CASE \E c \in Conn : /\ state[c] = "unused"
                              /\ state' = [state EXCEPT ![c] = "open"]
                              /\ cl' = [cl EXCEPT ![k].at = "insert", ![k].sock = c]
      <4>. PICK c \in Conn : /\ state[c] = "unused"
                             /\ state' = [state EXCEPT ![c] = "open"]
                             /\ cl' = [cl EXCEPT ![k].at = "insert", ![k].sock = c]
        BY <3>2
      <4>1. cl'[k].sock = c /\ \A j \in Client \ {k} : cl'[j] = cl[j]
        BY <1>a DEF ClientType
      <4>2. ~Past(c) /\ ~ByClient(c) /\ acc.conn # c
        BY DEF PlaceInv, Begun, Ended
      <4>3. \A d \in Conn : (Past(d)' <=> Past(d)) /\ (ByClient(d)' => ByClient(d) \/ d = c)
        BY <3>0, <4>1 DEF Past, ByClient
      <4>4. state'[c] = "open" /\ \A d \in Conn \ {c} : state'[d] = state[d]
        BY DEF TypeOK
      <4>5. \A i, j \in Client : cl'[i].sock = cl'[j].sock /\ cl'[j].sock # None => i = j
        <5>1. \A j \in Client : cl[j].sock # c
          BY <4>2 DEF ByClient
        <5>2. \A i, j \in Client : cl[i].sock = cl[j].sock /\ cl[j].sock # None => i = j
          BY DEF PlaceInv
        <5>3. \A j \in Client \ {k} : cl'[j].sock # cl'[k].sock /\ cl'[j].sock = cl[j].sock
          BY <4>1, <5>1
        <5>. SUFFICES ASSUME NEW i \in Client, NEW j \in Client,
                             cl'[i].sock = cl'[j].sock, cl'[j].sock # None
                      PROVE  i = j
          OBVIOUS
        <5>4. CASE i = k \/ j = k
          BY <5>3, <5>4
        <5>5. CASE i # k /\ j # k
          BY <5>2, <5>3, <5>5
        <5>. QED
          BY <5>4, <5>5
      <4>. QED
        BY <3>0, <4>2, <4>3, <4>4, <4>5 DEF PlaceInv, Begun
    <3>. QED
      BY <2>5, <3>1, <3>2 DEF Connect
  <2>6. CASE ClientAdds(k)
    <3>1. CASE ~CanAdd(readSet, cl[k].sock)
      BY <1>b, <1>c, <2>3, <2>6, <3>1 DEF ClientAdds
    <3>2. CASE CanAdd(readSet, cl[k].sock)
      <4>1. UNCHANGED <<rd, told, acc, state>> /\ readSet' = With(readSet, cl[k].sock)
        BY <2>6, <3>2 DEF ClientAdds
      <4>2. cl[k].sock \in Conn /\ readSet'.in = readSet.in \cup {cl[k].sock}
        BY <1>a, <2>6, <4>1 DEF ClientAdds, With, SocketSet, HandsInv, ClientType, ConnOrNone
      <4>3. \A j \in Client \ {k} : cl'[j] = cl[j] /\ cl'[k].sock = None
        BY <2>3, <2>6 DEF ClientAdds
      <4>4. cl'[k].sock = None
        BY <2>3, <2>6 DEF ClientAdds
      <4>5. \A c \in Conn : Past(c)' => Past(c) \/ c = cl[k].sock
        BY <4>1, <4>2 DEF Past
      <4>6. \A c \in Conn : ByClient(c)' => ByClient(c) /\ c # cl[k].sock
        BY <4>2, <4>3, <4>4 DEF ByClient, PlaceInv
      <4>7. ByClient(cl[k].sock)
        BY DEF ByClient
      <4>8. \A i, j \in Client : cl'[i].sock = cl'[j].sock /\ cl'[j].sock # None => i = j
        BY <4>3, <4>4 DEF PlaceInv
      <4>. QED
        BY <4>1, <4>2, <4>5, <4>6, <4>7, <4>8 DEF PlaceInv
    <3>. QED
      BY <3>1, <3>2
  <2>. QED
    BY <1>9, <2>1, <2>2, <2>4, <2>5, <2>6 DEF Asks
<1>10. CASE UNCHANGED vars
  BY <1>c, <1>10 DEF vars, sets
<1>. QED
  BY <1>1, <1>2, <1>3, <1>4, <1>5, <1>6, <1>7, <1>8, <1>9, <1>10
     DEF Next, Serves, Accepts, Peers, AnyAsks

LEMMA NextReader == HandsOK /\ PlaceInv /\ ReaderInv /\ numReaders = 1 /\ [Next]_vars => ReaderInv'
<1>. SUFFICES ASSUME HandsOK, PlaceInv, ReaderInv, numReaders = 1, [Next]_vars PROVE ReaderInv'
  OBVIOUS
<1>. USE NoneFact DEF HandsOK
<1>a. rd \in [Reader -> ReaderType] /\ cl \in [Client -> ClientType] /\ readSet \in SocketSet
  BY DEF TypeOK, ReaderType, ClientType
<1>b. ASSUME NEW S, Close(S) PROVE readSet'.in \subseteq readSet.in
  BY <1>b, CloseFact
<1>c. ASSUME rd' = rd, told' = told, readSet'.in \cap told \subseteq readSet.in PROVE ReaderInv'
  BY <1>c DEF ReaderInv
<1>1. CASE Start
  <2>1. PICK R \in SUBSET Reader :
            /\ Cardinality(R) = 1
            /\ rd' = [r \in Reader |-> IF r \in R THEN [Off EXCEPT !.at = "loop"] ELSE Off]
    BY <1>1 DEF Start
  <2>2. IsFiniteSet(R)
    BY ReaderAssumption, FS_Subset
  <2>3. PICK q : R = {q}
    BY <2>1, <2>2, FS_Singleton
  <2>4. \A r \in Reader : rd'[r].reads = {} /\ rd'[r].conn = None /\ rd'[r].at \in {"off", "loop"}
    BY <2>1 DEF Off
  <2>5. \A r \in Reader : rd'[r].at # "off" => r = q
    BY <2>1, <2>3 DEF Off
  <2>6. UNCHANGED <<told, readSet>>
    BY <1>1 DEF Start, sets
  <2>. QED
    BY <2>4, <2>5, <2>6 DEF ReaderInv
<1>2. CASE Controls
  <2>1. CASE CloseAll
    BY <1>b, <1>c, <2>1 DEF CloseAll
  <2>2. CASE ReleaseReads
    BY <1>c, <2>2 DEF ReleaseReads, Released
  <2>3. CASE StartFails \/ Stop \/ ReleaseWrites \/ CloseSocket \/ Clear \/ Join
    BY <1>c, <2>3 DEF StartFails, Stop, ReleaseWrites, CloseSocket, Clear, Join, sets
  <2>. QED
    BY <1>1, <1>2, <2>1, <2>2, <2>3 DEF Controls
<1>3. CASE Accepts
  <2>1. CASE AcceptorAdds
    <3>1. acc.conn \in Conn /\ readSet'.in \subseteq readSet.in \cup {acc.conn}
      BY <1>a, <2>1 DEF AcceptorAdds, With, SocketSet, HandsInv, TypeOK, ConnOrNone
    <3>2. acc.conn \notin told
      BY <3>1 DEF PlaceInv, Past
    <3>. QED
      BY <1>c, <2>1, <3>1, <3>2 DEF AcceptorAdds
  <2>. QED
    BY <1>c, <1>3, <2>1 DEF Accepts, AcceptorLoops, Accept, AcceptorInserts, sets
<1>4. ASSUME NEW r \in Reader, Reads1(r) PROVE ReaderInv'
  <2>0. rd[r].at # "off"
    BY <1>4 DEF Reads1, ReaderWaits, Receive, ReaderRemoves, ReaderCloses, ReaderErases, ReaderInserts, Reads
  <2>1. \A q \in Reader \ {r} : /\ rd'[q] = rd[q]
                              /\ rd[q].at = "off" /\ rd[q].reads = {} /\ rd[q].conn = None
    <3>1. \A q \in Reader \ {r} : rd'[q] = rd[q]
      BY <1>a, <1>4 DEF Reads1, ReaderWaits, Receive, ReaderRemoves, ReaderCloses, ReaderErases,
                        ReaderInserts, Reads
    <3>. QED
      BY <2>0, <3>1 DEF ReaderInv, HandsInv
  <2>2. ASSUME told' \cap readSet'.in = {}, told' \cap rd'[r].reads = {},
               rd'[r].at \in {"remove", "insert"} => rd'[r].conn \notin told',
               rd'[r].conn \notin rd'[r].reads, rd'[r].at = "off" => rd'[r].reads = {}
        PROVE  ReaderInv'
    BY <2>1, <2>2 DEF ReaderInv
  <2>3. CASE ReaderWaits(r)
    <3>1. rd[r].conn = None
      BY <2>3 DEF ReaderWaits, HandsInv
    <3>2. rd'[r].reads \subseteq readSet.in /\ rd'[r].conn = None /\ rd'[r].at \in {"loop", "off"}
      BY <1>a, <2>3, <3>1 DEF ReaderWaits, ReaderType
    <3>3. rd'[r].at = "off" => rd'[r].reads = {}
      BY <1>a, <2>3 DEF ReaderWaits, ReaderType
    <3>4. UNCHANGED <<told, readSet>>
      BY <2>3 DEF ReaderWaits, sets
    <3>. QED
      BY <1>a, <2>2, <3>2, <3>3, <3>4 DEF ReaderInv, SocketSet
  <2>4. CASE Receive(r)
    <3>. DEFINE c == Lowest(rd[r].reads)
    <3>1. c \in rd[r].reads
      BY <1>a, <2>4, LowestIn DEF Receive, ReaderType
    <3>2. PICK at \in {"insert", "remove"} :
              rd' = [rd EXCEPT ![r] = [at |-> at, reads |-> @.reads \ {c}, conn |-> c]]
      BY <2>4 DEF Receive
    <3>3. UNCHANGED <<told, readSet>>
      BY <2>4 DEF Receive, sets
    <3>. HIDE DEF c
    <3>4. rd'[r].reads = rd[r].reads \ {c} /\ rd'[r].conn = c /\ rd'[r].at = at
      BY <1>a, <3>2
    <3>5. c \notin told
      BY <3>1 DEF ReaderInv
    <3>. QED
      BY <2>2, <3>3, <3>4, <3>5 DEF ReaderInv
  <2>5. CASE ReaderRemoves(r)
    <3>1. readSet'.in = readSet.in \ {rd[r].conn} /\ told' = told \cup {rd[r].conn}
      BY <1>a, <2>5 DEF ReaderRemoves, Without, SocketSet
    <3>2. rd'[r].reads = rd[r].reads /\ rd'[r].conn = rd[r].conn /\ rd'[r].at = "close"
      BY <1>a, <2>5 DEF ReaderRemoves, Reads, ReaderType
    <3>. QED
      BY <2>2, <3>1, <3>2 DEF ReaderInv
  <2>6. CASE ReaderCloses(r)
    <3>1. readSet'.in \subseteq readSet.in /\ told' = told
      BY <1>b, <2>6 DEF ReaderCloses
    <3>2. rd'[r].reads = rd[r].reads /\ rd'[r].conn = rd[r].conn /\ rd'[r].at = "erase"
      BY <1>a, <2>6 DEF ReaderCloses, Reads, ReaderType
    <3>. QED
      BY <2>2, <3>1, <3>2 DEF ReaderInv
  <2>7. CASE ReaderErases(r) \/ ReaderInserts(r)
    <3>1. UNCHANGED <<told, readSet>>
      BY <2>7 DEF ReaderErases, ReaderInserts
    <3>2. rd'[r].reads = rd[r].reads /\ rd'[r].conn = None /\ rd'[r].at = "loop"
      BY <1>a, <2>7 DEF ReaderErases, ReaderInserts, ReaderType
    <3>. QED
      BY <1>a, <2>2, <3>1, <3>2 DEF ReaderInv, ReaderType
  <2>. QED
    BY <1>4, <2>3, <2>4, <2>5, <2>6, <2>7 DEF Reads1
<1>5. CASE Helps
  BY <1>c, <1>5 DEF Helps, HelperWaits, HelperCalls, HelperRemoves, sets
<1>6. CASE Peers
  BY <1>b, <1>c, <1>6 DEF Peers, PeerConnects, PeerSends, PeerLeaves, WriterFails, sets
<1>7. CASE AnyAwaits
  BY <1>c, <1>7 DEF AnyAwaits, WaitForWriter
<1>8. ASSUME NEW k \in Client, Asks(k) PROVE ReaderInv'
  <2>1. CASE ClientAdds(k) /\ CanAdd(readSet, cl[k].sock)
    <3>1. readSet' = With(readSet, cl[k].sock)
      BY <2>1 DEF ClientAdds
    <3>2. cl[k].sock \in Conn /\ readSet'.in = readSet.in \cup {cl[k].sock}
      BY <1>a, <2>1, <3>1 DEF ClientAdds, With, SocketSet, HandsInv, ClientType, ConnOrNone
    <3>3. cl[k].sock \notin told
      BY <3>2 DEF PlaceInv, Past, ByClient
    <3>. QED
      BY <1>c, <2>1, <3>2, <3>3 DEF ClientAdds
  <2>2. CASE ClientAdds(k) /\ ~CanAdd(readSet, cl[k].sock)
    BY <1>b, <1>c, <2>2 DEF ClientAdds
  <2>. QED
    BY <1>b, <1>c, <1>8, <2>1, <2>2 DEF Asks, GetWriter, Connect, ClientInserts, Drop, sets
<1>9. CASE UNCHANGED vars
  BY <1>c, <1>9 DEF vars, sets
<1>. QED
  BY <1>2, <1>3, <1>4, <1>5, <1>6, <1>7, <1>8, <1>9 DEF Next, Serves, AnyAsks

LEMMA NextEnd == EndInv /\ [Next]_vars => EndInv'
<1>. SUFFICES ASSUME EndInv, [Next]_vars PROVE EndInv'
  OBVIOUS
<1>1. HandsOK' /\ PlaceInv'
  BY NextHands, NextPlace DEF EndInv
<1>2. numReaders' = numReaders
  BY DEF Next, Serves, Controls, StartFails, Start, Stop, ReleaseReads, ReleaseWrites, CloseSocket, CloseAll,
         Clear, Join, Accepts, AcceptorLoops, Accept, AcceptorInserts, AcceptorAdds, Reads1, ReaderWaits,
         Receive, ReaderRemoves, ReaderCloses, ReaderErases, ReaderInserts, Helps, HelperWaits, HelperCalls,
         HelperRemoves, Peers, PeerConnects, PeerSends, PeerLeaves, WriterFails, AnyAwaits, WaitForWriter,
         AnyAsks, Asks, GetWriter, Connect, ClientInserts, Drop, ClientAdds, vars, controls
<1>. QED
  BY <1>1, <1>2, NextReader DEF EndInv

\* With one reader, onRead() is told of the end of a connection once, and given nothing of that
\* connection after it, for any number of clients and of connections.
THEOREM EndToldOnce == Spec => EndIsLast
<1>1. Init => EndInv
  BY InitHands, InitEnd DEF EndInv
<1>2. EndInv /\ [Next]_vars =>
        [numReaders = 1 => \A r \in Reader :
            ReaderRemoves(r) \/ ReaderInserts(r) => rd[r].conn \notin told]_vars
  <2>. SUFFICES ASSUME EndInv, numReaders = 1, NEW r \in Reader, ReaderRemoves(r) \/ ReaderInserts(r)
                PROVE  rd[r].conn \notin told
    OBVIOUS
  <2>1. rd[r].at \in {"remove", "insert"}
    BY DEF ReaderRemoves, ReaderInserts, Reads
  <2>. QED
    BY <2>1 DEF EndInv, ReaderInv
<1>. QED
  BY <1>1, <1>2, NextEnd, PTL DEF Spec, EndIsLast
=============================================================================

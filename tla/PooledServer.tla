---------------------------- MODULE PooledServer ----------------------------
(***************************************************************************)
(* PooledSocketServer (src/src/lib/socket/PooledSocketServer.h) with its   *)
(* SimplePool of connections, as UdtServer instantiates it (udt_socket,    *)
(* udt_socket_set).  Its threads:                                          *)
(*   - the controller, which calls start() and stop();                     *)
(*   - the acceptor, inside accept();                                      *)
(*   - the readers, inside run();                                          *)
(*   - the write helper, inside writeReady();                              *)
(*   - the clients, threads inside getWriter(), or calling waitForWriter().*)
(*                                                                         *)
(* A step is one call on a socket, on a socket set or on the pool's map,   *)
(* or one access to _running.  libudt is external: a socket is a number,   *)
(* its connection open, broken (the peer is gone) or closed (here), and a  *)
(* set of sockets reports those that have something to receive, an end     *)
(* included.                                                               *)
(*                                                                         *)
(* endpoint() leaves its sockaddr uninitialised when getpeername() fails,  *)
(* as it does for a socket that is not connected any more: what it answers *)
(* then may be any address.                                                *)
(***************************************************************************)
EXTENDS Integers, FiniteSets

CONSTANTS
    Conn,     \* the socket numbers connections get over the server's life, never reused
    Peer,     \* the addresses of peers
    Stray,    \* another address
    Reader,   \* the threads that may be spawned in run()
    Client,   \* the threads that call getWriter()
    Awaited,  \* the connections somebody calls waitForWriter() about
    None      \* no connection, an empty writer

ASSUME ConnAssumption == Conn \subseteq Nat /\ None \in Int \ Conn /\ Awaited \subseteq Conn
ASSUME ReaderAssumption == IsFiniteSet(Reader)
ASSUME StrayAssumption == Stray \notin Peer

VARIABLES
    numReaders, \* _numReaders: the readers start() spawns
    running,    \* _running
    listening,  \* _sock is open, and bound once the threads run
    state,      \* what has become of each connection
    peer,       \* whom it connects to
    inbox,      \* whether it has a message to receive
    readSet,    \* the members of _readSet, and whether it is released
    writeSet,   \* the same of _writeSet
    pool,       \* _connections: address -> socket
    ctl,        \* where the controller is
    acc,        \* where the acceptor is, and its conn
    rd,         \* where each reader is, what is left of its reads, and *it
    wr,         \* the same of the write helper
    cl,         \* where each client is in getWriter(), its endpoint, sock, and writer
    told        \* the connections whose end onRead() has been told

controls == <<numReaders, running, listening, ctl>>
connections == <<state, peer, inbox>>
sets == <<readSet, writeSet, pool>>
vars == <<controls, connections, sets, acc, rd, wr, cl, told>>

Address == Peer \cup {Stray}
ConnOrNone == Conn \cup {None}
SocketSet == [up : BOOLEAN, in : SUBSET Conn]

\* Types, and: a released set has no members; before start() there is none but a client's
\* connection.
TypeOK ==
    /\ numReaders \in Nat
    /\ running \in BOOLEAN /\ listening \in BOOLEAN
    /\ state \in [Conn -> {"unused", "offered", "open", "broken", "closed"}]
    /\ peer \in [Conn -> Peer]
    /\ inbox \in [Conn -> BOOLEAN]
    /\ readSet \in SocketSet /\ writeSet \in SocketSet
    /\ DOMAIN pool \subseteq Address /\ \A a \in DOMAIN pool : pool[a] \in Conn
    /\ ctl \in {"idle", "up", "release reads", "release writes", "close", "close all",
                "clear", "join", "stopped", "failed"}
    /\ acc \in [at : {"off", "loop", "accept", "insert", "add"}, conn : ConnOrNone]
    /\ rd \in [Reader -> [at : {"off", "loop", "remove", "close", "erase", "insert"},
                           reads : SUBSET Conn, conn : ConnOrNone]]
    /\ wr \in [at : {"off", "loop", "remove"}, reads : SUBSET Conn, conn : ConnOrNone]
    /\ cl \in [Client -> [at : {"idle", "connect", "insert", "drop", "add"},
                          addr : Peer, sock : ConnOrNone, writer : ConnOrNone]]
    /\ told \subseteq Conn
    /\ ~readSet.up => readSet.in = {}

NewSet == [up |-> TRUE, in |-> {}]
Released == [up |-> FALSE, in |-> {}]
Off == [at |-> "off", reads |-> {}, conn |-> None]

Init ==
    /\ numReaders \in 1..Cardinality(Reader)
    /\ running = FALSE /\ listening = TRUE
    /\ state = [c \in Conn |-> "unused"]
    /\ peer \in [Conn -> Peer]
    /\ inbox = [c \in Conn |-> FALSE]
    /\ readSet = NewSet /\ writeSet = NewSet
    /\ pool = [a \in {} |-> None]
    /\ ctl = "idle"
    /\ acc = [at |-> "off", conn |-> None]
    /\ rd = [r \in Reader |-> Off]
    /\ wr = Off
    /\ \E p \in Peer : cl = [c \in Client |-> [at |-> "idle", addr |-> p, sock |-> None, writer |-> None]]
    /\ told = {}

-----------------------------------------------------------------------------
(* The sockets and the sets, as libudt keeps them *)

Connected(c) == state[c] \in {"open", "broken"}

\* What endpoint() may answer.
Endpoint(c) == IF c # None /\ state[c] = "open" THEN {peer[c]} ELSE Address

\* Closing takes a socket out of the sets it is in.
Close(S) ==
    /\ state' = [c \in Conn |-> IF c \in S THEN "closed" ELSE state[c]]
    /\ inbox' = [c \in Conn |-> inbox[c] /\ c \notin S]
    /\ readSet' = [readSet EXCEPT !.in = @ \ S]
    /\ writeSet' = [writeSet EXCEPT !.in = @ \ S]

\* A variant for the mutation runs: a released set still takes members.
CanAddAlways(set, c) == Connected(c)

\* add() fails for a set that is released and for a socket that is closed.
CanAdd(set, c) == set.up /\ Connected(c)

With(set, c) == [set EXCEPT !.in = @ \cup {c}]
Without(set, c) == [set EXCEPT !.in = @ \ {c}]

HasInput(c) == state[c] = "broken" \/ (state[c] = "open" /\ inbox[c])

\* The peers: one offers a connection, sends on one, or is gone.
PeerConnects(c) ==
    /\ listening /\ ctl # "idle" /\ state[c] = "unused"
    /\ state' = [state EXCEPT ![c] = "offered"]
    /\ UNCHANGED <<controls, peer, inbox, sets, acc, rd, wr, cl, told>>

PeerSends(c) ==
    /\ state[c] = "open" /\ ~inbox[c]
    /\ inbox' = [inbox EXCEPT ![c] = TRUE]
    /\ UNCHANGED <<controls, state, peer, sets, acc, rd, wr, cl, told>>

PeerLeaves(c) ==
    /\ state[c] = "open"
    /\ state' = [state EXCEPT ![c] = "broken"]
    /\ UNCHANGED <<controls, peer, inbox, sets, acc, rd, wr, cl, told>>

-----------------------------------------------------------------------------
(* SimplePool *)

\* insert(): the one already stored under the address stays.
Stored(a, c) == IF a \in DOMAIN pool THEN pool[a] ELSE c
Insert(a, c) == pool' = [b \in DOMAIN pool \cup {a} |-> IF b = a THEN Stored(a, c) ELSE pool[b]]
Erase(a) == pool' = [b \in DOMAIN pool \ {a} |-> pool[b]]

-----------------------------------------------------------------------------
(* start() *)

\* The socket is not good, or cannot be bound or listened on; it is closed.
StartFails ==
    /\ ctl = "idle"
    /\ ctl' = "failed" /\ listening' = FALSE
    /\ UNCHANGED <<numReaders, running, connections, sets, acc, rd, wr, cl, told>>

\* A thread that has yet to begin is one that has not come to its loop's test.  Later calls
\* find _running, or after stop() a socket that is closed, and change nothing.
Start ==
    /\ ctl = "idle"
    /\ ctl' = "up" /\ running' = TRUE
    /\ wr' = [wr EXCEPT !.at = "loop"]
    /\ acc' = [acc EXCEPT !.at = "loop"]
    /\ \E R \in SUBSET Reader :
        /\ Cardinality(R) = numReaders
        /\ rd' = [r \in Reader |-> IF r \in R THEN [Off EXCEPT !.at = "loop"] ELSE Off]
    /\ UNCHANGED <<numReaders, listening, connections, sets, cl, told>>

(* stop() *)

Stop ==
    /\ ctl = "up" /\ ctl' = "release reads"
    /\ running' = FALSE
    /\ UNCHANGED <<numReaders, listening, connections, sets, acc, rd, wr, cl, told>>

ReleaseReads ==
    /\ ctl = "release reads" /\ ctl' = "release writes"
    /\ readSet' = Released
    /\ UNCHANGED <<numReaders, running, listening, connections, writeSet, pool, acc, rd, wr, cl, told>>

ReleaseWrites ==
    /\ ctl = "release writes" /\ ctl' = "close"
    /\ writeSet' = Released
    /\ UNCHANGED <<numReaders, running, listening, connections, readSet, pool, acc, rd, wr, cl, told>>

\* A variant for the mutation runs: stop() leaves the listening socket open.
CloseSocketForgotten ==
    /\ ctl = "close" /\ ctl' = "close all"
    /\ UNCHANGED <<numReaders, running, listening, connections, sets, acc, rd, wr, cl, told>>

\* Connections nobody has accepted go with the socket.
CloseSocket ==
    /\ ctl = "close" /\ ctl' = "close all"
    /\ listening' = FALSE
    /\ state' = [c \in Conn |-> IF state[c] = "offered" THEN "closed" ELSE state[c]]
    /\ UNCHANGED <<numReaders, running, peer, inbox, sets, acc, rd, wr, cl, told>>

\* close_all(), with the map locked, and then clear().
CloseAll ==
    /\ ctl = "close all" /\ ctl' = "clear"
    /\ Close({pool[a] : a \in DOMAIN pool})
    /\ UNCHANGED <<numReaders, running, listening, peer, pool, acc, rd, wr, cl, told>>

Clear ==
    /\ ctl = "clear" /\ ctl' = "join"
    /\ pool' = [a \in {} |-> None]
    /\ UNCHANGED <<numReaders, running, listening, connections, readSet, writeSet, acc, rd, wr, cl, told>>

Join ==
    /\ ctl = "join" /\ ctl' = "stopped"
    /\ wr.at = "off" /\ acc.at = "off" /\ \A r \in Reader : rd[r].at = "off"
    /\ UNCHANGED <<numReaders, running, listening, connections, sets, acc, rd, wr, cl, told>>

-----------------------------------------------------------------------------
(* accept() *)

AcceptorLoops ==
    /\ acc.at = "loop"
    /\ acc' = [acc EXCEPT !.at = IF running THEN "accept" ELSE "off"]
    /\ UNCHANGED <<controls, connections, sets, rd, wr, cl, told>>

\* UDT::accept() waits for a connection, and fails once the socket is closed.
Accept ==
    /\ acc.at = "accept"
    /\ \/ \E c \in Conn :
            /\ state[c] = "offered"
            /\ state' = [state EXCEPT ![c] = "open"]
            /\ acc' = [at |-> "insert", conn |-> c]
       \/ /\ ~listening
          /\ acc' = [acc EXCEPT !.at = "loop"]
          /\ UNCHANGED state
    /\ UNCHANGED <<controls, peer, inbox, sets, rd, wr, cl, told>>

\* The insert() called is the one that returns a writer, which is never null: the connection
\* is listened to even when its peer has another one in the pool.
AcceptorInserts ==
    /\ acc.at = "insert"
    /\ \E a \in Endpoint(acc.conn) : Insert(a, acc.conn)
    /\ acc' = [acc EXCEPT !.at = "add"]
    /\ UNCHANGED <<controls, connections, readSet, writeSet, rd, wr, cl, told>>

\* A connection that cannot be added is left alone.
AcceptorAdds ==
    /\ acc.at = "add"
    /\ readSet' = IF CanAdd(readSet, acc.conn) THEN With(readSet, acc.conn) ELSE readSet
    /\ acc' = [at |-> "loop", conn |-> None]
    /\ UNCHANGED <<controls, connections, writeSet, pool, rd, wr, cl, told>>

-----------------------------------------------------------------------------
(* run() *)

Reads(r, from, to) == rd[r].at = from /\ rd' = [rd EXCEPT ![r].at = to]

\* The loop's test once all that wait() returned is seen to, and the next wait(): it returns
\* what has something to receive, nothing after five seconds or from a released set, so that a
\* stop() in between shows at the next test.
ReaderWaits(r) ==
    /\ rd[r].at = "loop" /\ rd[r].reads = {}
    /\ rd' = IF running THEN [rd EXCEPT ![r].reads = {c \in readSet.in : HasInput(c)}]
                        ELSE [rd EXCEPT ![r].at = "off"]
    /\ UNCHANGED <<controls, connections, sets, acc, wr, cl, told>>

Lowest(S) == CHOOSE c \in S : \A d \in S : c <= d

\* recv() of a connection that is open blocks until it has a message or is not open any more.
Receive(r) ==
    LET c == Lowest(rd[r].reads)
        message == Connected(c) /\ inbox[c]
    IN  /\ rd[r].at = "loop" /\ rd[r].reads # {}
        /\ message \/ state[c] # "open"
        /\ rd' = [rd EXCEPT ![r] = [at |-> IF message THEN "insert" ELSE "remove",
                                    reads |-> @.reads \ {c}, conn |-> c]]
        /\ inbox' = [inbox EXCEPT ![c] = inbox[c] /\ ~message]
        /\ UNCHANGED <<controls, state, peer, sets, acc, wr, cl, told>>

\* A variant for the mutation runs: run() goes on with the connection whose end it has told.
ReaderRemovesAndGoesOn(r) ==
    /\ Reads(r, "remove", "insert")
    /\ readSet' = Without(readSet, rd[r].conn)
    /\ told' = told \cup {rd[r].conn}
    /\ UNCHANGED <<controls, connections, writeSet, pool, acc, wr, cl>>

\* The end is told to onRead() with no buffer.
ReaderRemoves(r) ==
    /\ Reads(r, "remove", "close")
    /\ readSet' = Without(readSet, rd[r].conn)
    /\ told' = told \cup {rd[r].conn}
    /\ UNCHANGED <<controls, connections, writeSet, pool, acc, wr, cl>>

\* close() of the pool closes the socket first,
ReaderCloses(r) ==
    /\ Reads(r, "close", "erase")
    /\ Close({rd[r].conn})
    /\ UNCHANGED <<controls, peer, pool, acc, wr, cl, told>>

\* and then asks the socket it has closed for the address to erase.
ReaderErases(r) ==
    /\ rd[r].at = "erase"
    /\ \E a \in Endpoint(None) : Erase(a)
    /\ rd' = [rd EXCEPT ![r].at = "loop", ![r].conn = None]
    /\ UNCHANGED <<controls, connections, readSet, writeSet, acc, wr, cl, told>>

\* The message goes to onRead() with the writer that insert() answers.
ReaderInserts(r) ==
    /\ rd[r].at = "insert"
    /\ \E a \in Endpoint(rd[r].conn) : Insert(a, rd[r].conn)
    /\ rd' = [rd EXCEPT ![r].at = "loop", ![r].conn = None]
    /\ UNCHANGED <<controls, connections, readSet, writeSet, acc, wr, cl, told>>

-----------------------------------------------------------------------------
(* writeReady() *)

\* As ReaderWaits: wait() returns those that can be written to, which depends on their peers.
HelperWaits ==
    /\ wr.at = "loop" /\ wr.reads = {}
    /\ IF running THEN \E S \in SUBSET writeSet.in : wr' = [wr EXCEPT !.reads = S]
                  ELSE wr' = [wr EXCEPT !.at = "off"]
    /\ UNCHANGED <<controls, connections, sets, acc, rd, cl, told>>

\* onWriteReady() says whether it is done with the connection.
HelperCalls ==
    /\ wr.at = "loop" /\ wr.reads # {}
    /\ LET c == Lowest(wr.reads)
       IN  \/ wr' = [wr EXCEPT !.reads = @ \ {c}]
          \/ wr' = [at |-> "remove", reads |-> wr.reads \ {c}, conn |-> c]
    /\ UNCHANGED <<controls, connections, sets, acc, rd, cl, told>>

HelperRemoves ==
    /\ wr.at = "remove"
    /\ writeSet' = Without(writeSet, wr.conn)
    /\ wr' = [wr EXCEPT !.at = "loop", !.conn = None]
    /\ UNCHANGED <<controls, connections, readSet, pool, acc, rd, cl, told>>

-----------------------------------------------------------------------------
(* The clients *)

WaitForWriter(c) ==
    /\ CanAdd(writeSet, c) /\ writeSet' = With(writeSet, c)
    /\ UNCHANGED <<controls, connections, readSet, pool, acc, rd, wr, cl, told>>

\* A writer whose send fails closes its socket (try_send()).
WriterFails(c) ==
    /\ state[c] = "broken"
    /\ Close({c})
    /\ UNCHANGED <<controls, peer, pool, acc, rd, wr, cl, told>>

Idle(k) == [cl[k] EXCEPT !.at = "idle", !.sock = None, !.writer = None]

\* getWriter(), when find() has no connection to answer with.
GetWriter(k) ==
    /\ cl[k].at = "idle" /\ ctl # "idle"
    /\ \E p \in Peer \ DOMAIN pool :
        cl' = [cl EXCEPT ![k].at = "connect", ![k].addr = p]
    /\ UNCHANGED <<controls, connections, sets, acc, rd, wr, told>>

\* A socket that cannot connect is forgotten.
Connect(k) ==
    /\ cl[k].at = "connect"
    /\ \/ /\ cl' = [cl EXCEPT ![k].at = "idle"]
          /\ UNCHANGED <<state, peer>>
       \/ \E c \in Conn :
            /\ state[c] = "unused"
            /\ peer[c] = cl[k].addr
            /\ state' = [state EXCEPT ![c] = "open"]
            /\ cl' = [cl EXCEPT ![k].at = "insert", ![k].sock = c]
    /\ UNCHANGED <<controls, peer, inbox, sets, acc, rd, wr, told>>

\* Whether the address was new decides what becomes of the socket.
ClientInserts(k) ==
    /\ cl[k].at = "insert"
    /\ \E a \in Endpoint(cl[k].sock) :
        /\ Insert(a, cl[k].sock)
        /\ cl' = [cl EXCEPT ![k].at = IF a \in DOMAIN pool THEN "drop" ELSE "add",
                            ![k].writer = Stored(a, cl[k].sock)]
    /\ UNCHANGED <<controls, connections, readSet, writeSet, acc, rd, wr, told>>

\* A variant for the mutation runs: the socket that is not needed stays open.
DropLeaves(k) ==
    /\ cl[k].at = "drop"
    /\ cl' = [cl EXCEPT ![k] = Idle(k)]
    /\ UNCHANGED <<controls, connections, sets, acc, rd, wr, told>>

\* The socket is not needed: another connection to the peer is used.
Drop(k) ==
    /\ cl[k].at = "drop"
    /\ Close({cl[k].sock})
    /\ cl' = [cl EXCEPT ![k] = Idle(k)]
    /\ UNCHANGED <<controls, peer, pool, acc, rd, wr, told>>

\* If it cannot be added the socket is closed and no writer returned, but the pool has it.
ClientAdds(k) ==
    /\ cl[k].at = "add"
    /\ IF CanAdd(readSet, cl[k].sock)
       THEN readSet' = With(readSet, cl[k].sock) /\ UNCHANGED <<state, inbox, writeSet>>
       ELSE Close({cl[k].sock})
    /\ cl' = [cl EXCEPT ![k] = Idle(k)]
    /\ UNCHANGED <<controls, peer, pool, acc, rd, wr, told>>

-----------------------------------------------------------------------------
Controls == StartFails \/ Start \/ Stop \/ ReleaseReads \/ ReleaseWrites \/ CloseSocket
            \/ CloseAll \/ Clear \/ Join
Accepts == AcceptorLoops \/ Accept \/ AcceptorInserts \/ AcceptorAdds
Reads1(r) == ReaderWaits(r) \/ Receive(r) \/ ReaderRemoves(r)
             \/ ReaderCloses(r) \/ ReaderErases(r) \/ ReaderInserts(r)
Helps == HelperWaits \/ HelperCalls \/ HelperRemoves
Asks(k) == GetWriter(k) \/ Connect(k) \/ ClientInserts(k) \/ Drop(k) \/ ClientAdds(k)
Peers == \E c \in Conn : PeerConnects(c) \/ PeerSends(c) \/ PeerLeaves(c) \/ WriterFails(c)

Serves == Controls \/ Accepts \/ Helps \/ Peers \/ \E r \in Reader : Reads1(r)
AnyAsks == \E k \in Client : Asks(k)
AnyAwaits == \E c \in Awaited : WaitForWriter(c)

Next == Serves \/ AnyAsks \/ AnyAwaits

\* The threads the server owns, and stop() once called, keep running; nothing makes anyone
\* call start(), stop() or getWriter(), or a peer send.
Fairness ==
    /\ WF_vars(ctl \notin {"idle", "up"} /\ Controls)
    /\ WF_vars(Accepts) /\ WF_vars(Helps)
    /\ \A r \in Reader : WF_vars(Reads1(r))

Spec == Init /\ [][Next]_vars /\ Fairness

-----------------------------------------------------------------------------
\* While the server runs, whatever connection it has open is listened to, or is in the hands of
\* the thread about to see to that: no connection is kept that nobody reads from.
AllListened ==
    running => \A c \in Conn : state[c] = "open" =>
        \/ c \in readSet.in
        \/ acc.conn = c
        \/ \E k \in Client : cl[k].sock = c

\* With one reader, onRead() has nothing of a connection any more once it was told of its end,
\* and is told of that once.
EndIsLast ==
    [][numReaders = 1 => \A r \in Reader :
        ReaderRemoves(r) \/ ReaderInserts(r) => rd[r].conn \notin told]_vars

\* When getWriter() finds that the connection it has just made is not needed, the one the pool has
\* instead is not one whose end the server has seen and dealt with.  It may be: the pool keeps those.
DroppedIsReplaced ==
    [][\A k \in Client : running /\ ClientInserts(k) /\ cl'[k].at = "drop" =>
        ~(cl'[k].writer \in told /\ \A r \in Reader : rd[r].conn # cl'[k].writer)]_vars

\* With one reader, what has arrived on a connection is read, unless the connection or the
\* server ends first.
MessagesRead ==
    \A c \in Conn :
        (numReaders = 1 /\ running /\ state[c] = "open" /\ c \in readSet.in /\ inbox[c])
            ~> (~inbox[c] \/ state[c] # "open" \/ ~running)

\* With one reader, stop() returns.
StopReturns == (numReaders = 1 /\ ctl = "release reads") ~> (ctl = "stopped")

=============================================================================

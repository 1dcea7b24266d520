----------------------------- MODULE MCServers -----------------------------
(***************************************************************************)
(* The servers: in a behaviour either the pooled one moves, or one of the  *)
(* two that loop on their socket.                                          *)
(***************************************************************************)
EXTENDS PooledServer

CONSTANTS t1, t2

VARIABLES
    part,                                                   \* which of the servers moves, and who uses it
    kind, up, socket, arrived, waiting, thread, stopping    \* LoopServer

L == INSTANCE LoopServer WITH Thread <- {t1, t2}, MaxArrivals <- 3

loops == <<kind, up, socket, arrived, waiting, thread, stopping>>
allVars == <<vars, part, loops>>

ServersInit ==
    /\ Init /\ L!Init
    /\ part \in {"clients", "writers", "loops"} /\ (part # "loops" => kind = "acceptor")

\* Of those who use the pooled server either clients ask for writers, of two connections, or somebody
\* awaits that one can be written to, of one.
ServersNext ==
    /\ UNCHANGED part
    /\ \/ part = "clients" /\ (Serves \/ AnyAsks) /\ UNCHANGED loops
       \/ part = "writers" /\ (Serves \/ AnyAwaits) /\ state'[2] = "unused" /\ UNCHANGED loops
       \/ part = "loops" /\ L!Next /\ UNCHANGED vars

\* A server that does not move is one that was not started, of which nothing is expected.
ServersSpec == ServersInit /\ [][ServersNext]_allVars /\ Fairness /\ L!Fairness

-----------------------------------------------------------------------------
TypesOK == TypeOK /\ L!TypeOK

\* Every stop() returns.
StopsReturn == StopReturns /\ L!StopReturns

\* Nothing that arrives is left lying.
ArrivalsSeenTo == MessagesRead /\ L!ArrivalsTaken

=============================================================================

----------------------------- MODULE LoopServer -----------------------------
(***************************************************************************)
(* StatelessSocketServer and StreamSocketAcceptorServer                    *)
(* (src/src/lib/socket/): threads that share one socket, each calling      *)
(* recv() or accept() on it in a loop, and stop(), which shuts the socket  *)
(* down and joins them.  The two differ in what a failed call does.        *)
(*                                                                         *)
(* The kernel is external: a call on the socket takes one of the datagrams *)
(* or connections that wait, blocks while there is none, may fail for      *)
(* another reason (a connection aborted, no descriptor left) and always    *)
(* fails once the socket is shut down or closed.  Its number is not given  *)
(* to another file while a thread may still use it.                        *)
(***************************************************************************)
EXTENDS Integers, FiniteSets

CONSTANTS
    Thread,      \* the readers or acceptors
    MaxArrivals  \* bound: what comes in while the server is up

VARIABLES
    kind,      \* which of the two servers it is
    up,        \* _running
    socket,    \* _sock: "none" before bind(), "bound", "shut down", "closed"
    arrived,   \* how much has come in
    waiting,   \* how much of it has not been taken
    thread,    \* where each thread is in run()
    stopping   \* where the controller is in start() or stop()

serverVars == <<kind, up, socket, arrived, waiting, thread, stopping>>

TypeOK ==
    /\ kind \in {"stateless", "acceptor"} /\ up \in BOOLEAN
    /\ socket \in {"none", "bound", "shut down", "closed"}
    /\ arrived \in 0..MaxArrivals /\ waiting \in 0..arrived
    /\ thread \in [Thread -> {"off", "test", "call", "serve"}]
    /\ stopping \in {"idle", "up", "shut down", "close", "join", "done"}

Init ==
    /\ kind \in {"stateless", "acceptor"}
    /\ up = FALSE /\ socket = "none"
    /\ arrived = 0 /\ waiting = 0
    /\ thread = [t \in Thread |-> "off"]
    /\ stopping = "idle"

Ready == socket = "bound" /\ waiting > 0
Fails == socket \in {"shut down", "closed"}

-----------------------------------------------------------------------------
\* start(): the socket is no good, or cannot be bound or listened on.
StartFails ==
    /\ stopping = "idle" /\ stopping' = "done"
    /\ socket' = "closed"
    /\ UNCHANGED <<kind, up, arrived, waiting, thread>>

Start ==
    /\ stopping = "idle" /\ stopping' = "up"
    /\ up' = TRUE /\ socket' = "bound"
    /\ thread' = [t \in Thread |-> "test"]
    /\ UNCHANGED <<kind, arrived, waiting>>

\* stop(): _running, shutdown() and close() of the socket, and the join.
Stop ==
    \/ /\ stopping = "up" /\ stopping' = "shut down" /\ up' = FALSE
       /\ UNCHANGED <<kind, socket, arrived, waiting, thread>>
    \/ /\ stopping = "shut down" /\ stopping' = "close" /\ socket' = "shut down"
       /\ UNCHANGED <<kind, up, arrived, waiting, thread>>
    \/ /\ stopping = "close" /\ stopping' = "join" /\ socket' = "closed"
       /\ UNCHANGED <<kind, up, arrived, waiting, thread>>
    \/ /\ stopping = "join" /\ stopping' = "done"
       /\ \A t \in Thread : thread[t] = "off"
       /\ UNCHANGED <<kind, up, socket, arrived, waiting, thread>>

Arrive ==
    /\ socket = "bound" /\ arrived < MaxArrivals
    /\ arrived' = arrived + 1 /\ waiting' = waiting + 1
    /\ UNCHANGED <<kind, up, socket, thread, stopping>>

-----------------------------------------------------------------------------
(* run() *)

Goes(t, from, to) == thread[t] = from /\ thread' = [thread EXCEPT ![t] = to]

Test(t) ==
    /\ Goes(t, "test", IF up THEN "call" ELSE "off")
    /\ UNCHANGED <<kind, up, socket, arrived, waiting, stopping>>

Take(t) ==
    /\ Ready
    /\ Goes(t, "call", "serve")
    /\ waiting' = waiting - 1
    /\ UNCHANGED <<kind, up, socket, arrived, stopping>>

\* onRead() or onConnect().
Serve(t) ==
    /\ Goes(t, "serve", "test")
    /\ UNCHANGED <<kind, up, socket, arrived, waiting, stopping>>

\* A variant for the mutation runs: a reader ends on a failed call too.
AfterAnyFailure == "off"

\* A reader that gets nothing goes on, an acceptor that gets no connection ends.
AfterFailure == IF kind = "stateless" THEN "test" ELSE "off"

CallFails(t) ==
    /\ Goes(t, "call", AfterFailure)
    /\ UNCHANGED <<kind, up, socket, arrived, waiting, stopping>>

\* Another reason to fail: accept() may at any time, recv() does not pass over what waits.
MayFail == ~Fails /\ (kind = "acceptor" \/ ~Ready)

Run(t) == Test(t) \/ Take(t) \/ Serve(t) \/ (Fails /\ CallFails(t))

Next ==
    \/ StartFails \/ Start \/ Stop \/ Arrive
    \/ \E t \in Thread : Run(t) \/ (MayFail /\ CallFails(t))

\* The threads and stop() once called keep running; a call need not fail while the socket is good.
Fairness ==
    /\ WF_serverVars(stopping # "up" /\ Stop)
    /\ \A t \in Thread : WF_serverVars(Run(t))

Spec == Init /\ [][Next]_serverVars /\ Fairness

-----------------------------------------------------------------------------
\* stop() returns: no thread stays in a call on the socket, whenever it made it.
StopReturns == (stopping = "shut down") ~> (stopping = "done")

\* What has come in is taken while the server is up: always by readers, by acceptors unless all of
\* them have ended on failed calls.
ArrivalsTaken ==
    waiting > 0 ~> (waiting = 0 \/ ~up \/ (kind = "acceptor" /\ \A t \in Thread : thread[t] = "off"))

=============================================================================

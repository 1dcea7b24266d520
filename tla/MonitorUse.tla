----------------------------- MODULE MonitorUse -----------------------------
(***************************************************************************)
(* Threads calling the operations of one turbo::monitor in any order.  The *)
(* only state outside the monitor is where each thread is in wait() or     *)
(* wait_for() (pc), and two records of what has happened for the           *)
(* properties: the signal nobody has received yet (owed) and the threads   *)
(* that were waiting when a signal_all or cancel came (released).          *)
(***************************************************************************)
EXTENDS Monitor

CONSTANT Thread

VARIABLES mon, pc, owed, released

vars == <<mon, pc, owed, released>>

\* Types, and: only threads inside wait() or wait_for() are in the condition variable.
TypeOK ==
    /\ mon \in MonitorOf(Thread)
    /\ pc \in [Thread -> {"out", "wait", "wait_for", "true", "false"}]
    /\ mon.waiting \subseteq {t \in Thread : pc[t] \in {"wait", "wait_for"}}
    /\ owed \in BOOLEAN
    /\ released \subseteq Thread

Init ==
    /\ mon = NewMonitor
    /\ pc = [t \in Thread |-> "out"]
    /\ owed = FALSE
    /\ released = {}

-----------------------------------------------------------------------------
Inside(t) == pc[t] \in {"wait", "wait_for"}

\* wait() and wait_for() that find the flag set.
WaitTakesFlag(t) ==
    /\ pc[t] = "out" /\ mon.flag
    /\ mon' = TakeFlag(mon)
    /\ pc' = [pc EXCEPT ![t] = IF Answer(mon) THEN "true" ELSE "false"]
    /\ owed' = FALSE
    /\ UNCHANGED released

\* ... that find it clear.
WaitBlocks(t) ==
    /\ pc[t] = "out" /\ ~mon.flag
    /\ mon' = Block(mon, t)
    /\ \E how \in {"wait", "wait_for"} : pc' = [pc EXCEPT ![t] = how]
    /\ UNCHANGED <<owed, released>>

\* A notified (or spuriously woken) thread gets the lock back and returns.
Return(t) ==
    /\ Inside(t) /\ t \notin mon.waiting
    /\ pc' = [pc EXCEPT ![t] = IF Answer(mon) THEN "true" ELSE "false"]
    /\ released' = released \ {t}
    /\ UNCHANGED <<mon, owed>>

\* wait_for() gives up.
Timeout(t) ==
    /\ pc[t] = "wait_for" /\ t \in mon.waiting
    /\ mon' = Leave(mon, t)
    /\ pc' = [pc EXCEPT ![t] = "false"]
    /\ UNCHANGED <<owed, released>>

SpuriousWakeup(t) ==
    /\ t \in mon.waiting
    /\ mon' = Leave(mon, t)
    /\ UNCHANGED <<pc, owed, released>>

\* The caller is done with the answer and may call again.
Use(t) ==
    /\ pc[t] \in {"true", "false"}
    /\ pc' = [pc EXCEPT ![t] = "out"]
    /\ UNCHANGED <<mon, owed, released>>

Notify(t) ==
    /\ pc[t] = "out"
    /\ mon' \in NotifyOne(mon) \cup {NotifyAll(mon)}
    /\ UNCHANGED <<pc, owed, released>>

\* signal_all() and cancel().
Signal(t) ==
    /\ pc[t] = "out"
    /\ \E c \in BOOLEAN : mon' = SignalAll(mon, c)
    /\ owed' = TRUE
    /\ released' = released \cup mon.waiting
    /\ UNCHANGED pc

Next ==
    \E t \in Thread :
        \/ WaitTakesFlag(t) \/ WaitBlocks(t) \/ Return(t) \/ Timeout(t)
        \/ SpuriousWakeup(t) \/ Use(t) \/ Notify(t) \/ Signal(t)

\* A thread that can get the lock gets it; nobody has to call, notify or time out.
Fairness == \A t \in Thread : WF_vars(Return(t))

Spec == Init /\ [][Next]_vars /\ Fairness

-----------------------------------------------------------------------------
\* A signal is never lost: from a signal_all or cancel on, no thread is left blocked
\* until some wait() has taken the flag (monitor.h: _flag is tested before _cv.wait).
SignalNotLost == owed => mon.waiting = {}

\* Whoever was waiting when signal_all or cancel came returns from its wait(), whatever
\* other threads do with the flag in the meantime.
SignalReleasesAll == \A t \in Thread : t \in released ~> t \notin released

\* After a cancel, and until the next signal_all or cancel, no wait() answers true.
CancelIsFinal ==
    [][\A t \in Thread : mon.cancelled /\ pc[t] # "true" => pc'[t] # "true"]_vars

=============================================================================

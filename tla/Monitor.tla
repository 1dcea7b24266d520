------------------------------ MODULE Monitor ------------------------------
(***************************************************************************)
(* turbo::monitor (src/src/lib/concurrent/monitor.h): a condition variable *)
(* with a sticky flag.  A monitor is a value, the record                   *)
(*     flag       _flag, set by signal_all and cancel, taken by one wait   *)
(*     cancelled  _cancelled, what the last signal_all or cancel left      *)
(*     waiting    the threads inside _cv.wait or _cv.wait_for              *)
(* and each operator below is what one critical section, or one call on    *)
(* the condition variable, makes of it.  The modules of the classes that   *)
(* own a monitor extend this one and give each thread the program counter  *)
(* that says where in wait() it is.                                        *)
(*                                                                         *)
(* wait() tests the flag and enters the condition variable under one lock, *)
(* so TakeFlag / Block are one step each.  A thread that has left          *)
(* "waiting" still has to get the lock back before wait() returns: that is *)
(* a step of the caller's.                                                 *)
(***************************************************************************)

\* A monitor some of the threads of T may be waiting on.
MonitorOf(T) == [flag : BOOLEAN, cancelled : BOOLEAN, waiting : SUBSET T]

NewMonitor == [flag |-> FALSE, cancelled |-> FALSE, waiting |-> {}]

\* wait() finds the flag set and takes it.
TakeFlag(m) == [m EXCEPT !.flag = FALSE]

\* wait() finds no flag and enters the condition variable.
Block(m, t) == [m EXCEPT !.waiting = @ \cup {t}]

\* A variant for the mutation runs: the thread goes, its entry stays.
LeaveBehind(m, t) == m

\* t leaves the condition variable unnotified: a timeout or a spurious wakeup.
Leave(m, t) == [m EXCEPT !.waiting = @ \ {t}]

\* notify_one(): the possible results.  It sets no flag, so with nobody in the
\* condition variable it leaves no trace.
NotifyOne(m) ==
    IF m.waiting = {} THEN {m} ELSE { Leave(m, t) : t \in m.waiting }

NotifyAll(m) == [m EXCEPT !.waiting = {}]

\* Variants of the next operator for the mutation runs: the flag forgotten, the notify
\* forgotten.
SignalAllUnflagged(m, c) == [flag |-> m.flag, cancelled |-> c, waiting |-> {}]
SignalAllSilent(m, c) == [flag |-> TRUE, cancelled |-> c, waiting |-> m.waiting]

\* signal_all() is SignalAll(m, FALSE) and cancel() is SignalAll(m, TRUE).  The
\* flag stays set whether or not somebody was waiting.
SignalAll(m, c) == [flag |-> TRUE, cancelled |-> c, waiting |-> {}]

\* A variant for the mutation runs: the cancellation ignored.
AnswerTrue(m) == TRUE

\* What a wait() that was not timed out returns, read under the lock on the way out.
Answer(m) == ~m.cancelled

=============================================================================

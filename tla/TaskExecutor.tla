---------------------------- MODULE TaskExecutor ----------------------------
(***************************************************************************)
(* What an executor of tasks promises, whoever its threads are: a task     *)
(* that was submitted is begun at most once, none is begun once stop() has *)
(* been called, a submitted task is given up only because of that call,    *)
(* and when stop() returns nothing is running.                             *)
(*                                                                         *)
(* ThreadPool (src/src/lib/concurrent/thread_pool.h) implements it.  Tasks *)
(* need not ever be begun: the class does not promise that much, see       *)
(* EveryTaskRuns there.                                                    *)
(***************************************************************************)
CONSTANT Task

VARIABLES
    stage,   \* how far each task has come
    phase    \* "open", "closing" while stop() is under way, "closed" when it has returned

vars == <<stage, phase>>

Stage == {"new", "pending", "running", "done", "discarded"}
Phase == {"open", "closing", "closed"}

TypeOK ==
    /\ stage \in [Task -> Stage]
    /\ phase \in Phase

Init ==
    /\ stage = [t \in Task |-> "new"]
    /\ phase = "open"

Move(t, from, to) ==
    /\ stage[t] = from
    /\ stage' = [stage EXCEPT ![t] = to]
    /\ UNCHANGED phase

Submit(t) == Move(t, "new", "pending")

Begin(t) == phase = "open" /\ Move(t, "pending", "running")

Finish(t) == Move(t, "running", "done")

Discard(t) == phase # "open" /\ Move(t, "pending", "discarded")

Stop ==
    /\ phase' = "closing"
    /\ UNCHANGED stage

StopReturns ==
    /\ phase = "closing"
    /\ \A t \in Task : stage[t] # "running"
    /\ phase' = "closed"
    /\ UNCHANGED stage

Next ==
    \/ \E t \in Task : Submit(t) \/ Begin(t) \/ Finish(t) \/ Discard(t)
    \/ Stop
    \/ StopReturns

Spec == Init /\ [][Next]_vars

=============================================================================

------------------------------ MODULE MCThreads ------------------------------
(***************************************************************************)
(* The two classes that have threads of their own run what they are given: *)
(* a thread_pool, or a deadline_thread.  Which of them a run of the model  *)
(* has is chosen at the beginning; the other one stands still.             *)
(***************************************************************************)
EXTENDS ThreadPool

CONSTANTS
    Job, Repeating, Delay, Scheduler, Stopper, NoJob, Grain, Horizon, MaxTime, Forever,
    Runner      \* deadline_thread's _thread

VARIABLES
    part,                                       \* the part that moves
    now, shutdown, jobs, notifyWork,            \* deadline_thread's
    place, interval, until, job,
    sched, arg, stop, used, late

D == INSTANCE DeadlineThread WITH Worker <- Runner, work <- notifyWork, pc <- place, fun <- job

ASSUME DeadlineAssumption == D!SchedulerAssumption

deadlineVars ==
    <<now, shutdown, jobs, notifyWork, place, interval, until, job, sched, arg, stop, used, late>>

\* A deadline_thread that ended unused, when the clock has stopped: it has no step left.
Over ==
    /\ now = MaxTime
    /\ shutdown = TRUE
    /\ jobs = {}
    /\ notifyWork = NewMonitor
    /\ place = "exited" /\ interval = 0 /\ until = 0 /\ job = NoJob
    /\ sched = [s \in Scheduler |-> "idle"]
    /\ arg = [s \in Scheduler |-> NoJob]
    /\ stop = [s \in Stopper |-> "joined"]
    /\ used = {}
    /\ late = 0

ThreadsInit ==
    /\ Init
    /\ \/ part = "pool" /\ Over
       \/ part = "deadline" /\ D!Init

ThreadsNext ==
    \/ part = "pool" /\ Next /\ UNCHANGED <<part, deadlineVars>>
    \/ part = "deadline" /\ D!Next /\ UNCHANGED <<part, vars>>

\* Of the part that stands still, nothing that fairness speaks of is enabled.
ThreadsSpec ==
    /\ ThreadsInit /\ [][ThreadsNext]_<<part, vars, deadlineVars>>
    /\ Fairness /\ D!Fairness

-----------------------------------------------------------------------------
\* DeadlineThread's properties; the pool's are ThreadPool's own.
JobsKept == D!JobsKept
BegunInTime == D!BegunInTime
AwakeWorkerRuns == D!AwakeWorkerRuns
SleeperIsWoken == D!SleeperIsWoken
IdleShutdownReturns == D!IdleShutdownReturns

=============================================================================

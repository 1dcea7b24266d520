--------------------------- MODULE DeadlineThread ---------------------------
(***************************************************************************)
(* turbo::deadline_thread (src/src/lib/concurrent/deadline_thread.h): one  *)
(* thread that runs jobs at their time, between                            *)
(*   - the schedulers, threads that call schedule() and schedule_repeat(); *)
(*   - the stoppers, threads that call shutdown() (the destructor does);   *)
(*   - the worker, the std::thread inside run().                           *)
(* DeadlineScheduler adds nothing but execute(), a schedule() in 0 ms.     *)
(*                                                                         *)
(* A step is one critical section, one access to _shutdown or one call on  *)
(* the monitor, of one thread.  The clock is a number of grains, Grain to  *)
(* the millisecond, that moves between any two steps: durations are cut to *)
(* whole milliseconds where the code cuts them.                            *)
(*                                                                         *)
(* The model begins when the constructor has returned.                     *)
(***************************************************************************)
EXTENDS Integers, Monitor

CONSTANTS
    Job,        \* the calls of schedule() and schedule_repeat()
    Repeating,  \* those of schedule_repeat()
    Delay,      \* the ms the callers pass
    Scheduler,
    Stopper,
    Worker,     \* _thread
    NoJob,      \* an empty std::function
    Grain,      \* grains in a millisecond
    Horizon,    \* bound: no first deadline is set beyond this time
    MaxTime,    \* bound: the clock stops here
    Forever     \* ~0 ms, 49 days: longer than any delay and than the clock runs

SchedulerAssumption ==
    /\ Grain \in Nat \ {0} /\ Horizon \in Nat /\ MaxTime \in Nat /\ Forever \in Nat
    /\ Delay \subseteq Nat
    /\ Horizon < MaxTime /\ MaxTime < Forever
    /\ Repeating \subseteq Job /\ NoJob \notin [job : Job, time : Nat, ms : Delay]

VARIABLES
    now,        \* system_clock::now(), and the clock of the condition variable
    shutdown,   \* _shutdown
    jobs,       \* _jobs
    work,       \* _notifyWork
    pc,         \* where the worker is in run()
    interval,   \* waitForWork()'s local
    until,      \* when its wait_for() times out
    fun,        \* doWork()'s local work, with the job it came from
    sched,      \* where each scheduler is in schedule()
    arg,        \* and the job it is about to push
    stop,       \* where each stopper is in shutdown()
    used,       \* the jobs that have been scheduled
    late        \* jobs that were taken after shutdown() set _shutdown

workerVars == <<pc, interval, until, fun>>
schedVars == <<sched, arg, used>>
vars == <<now, shutdown, jobs, work, workerVars, schedVars, stop, late>>

Entry == [job : Job, time : Nat, ms : Delay]

\* Types, and: a job is in hand exactly while it is taken, run or scheduled again.
TypeOK ==
    /\ now \in 0..MaxTime
    /\ shutdown \in BOOLEAN
    /\ jobs \subseteq Entry
    /\ work \in MonitorOf({Worker})
    /\ pc \in {"loop", "interval", "wait", "blocked", "dowork", "take", "run", "again", "exited"}
    /\ interval \in Nat
    /\ until \in Nat
    /\ fun \in Entry \cup {NoJob}
    /\ fun \in Entry <=> pc \in {"run", "again"}
    /\ sched \in [Scheduler -> {"idle", "push", "notify"}]
    /\ arg \in [Scheduler -> Entry \cup {NoJob}]
    /\ \A s \in Scheduler : arg[s] \in Entry <=> sched[s] = "push"
    /\ stop \in [Stopper -> {"out", "notify", "join", "joined", "turnedAway"}]
    /\ used \subseteq Job
    /\ late \in Nat

Init ==
    /\ now = 0
    /\ shutdown = FALSE
    /\ jobs = {}
    /\ work = NewMonitor
    /\ pc = "loop" /\ interval = 0 /\ until = 0 /\ fun = NoJob
    /\ sched = [s \in Scheduler |-> "idle"]
    /\ arg = [s \in Scheduler |-> NoJob]
    /\ stop = [s \in Stopper |-> "out"]
    /\ used = {}
    /\ late = 0

\* duration_cast cuts towards zero.
Millis(d) == IF d < 0 THEN -((-d) \div Grain) ELSE d \div Grain

MillisFromNow(t) == Millis(t - now)

\* The jobs the priority queue may have on top: the order is by time alone, so of those
\* with the earliest time it may be any.
Top == {e \in jobs : \A f \in jobs : e.time <= f.time}

Tick ==
    /\ now < MaxTime
    /\ now' = now + 1
    /\ UNCHANGED <<shutdown, jobs, work, workerVars, schedVars, stop, late>>

-----------------------------------------------------------------------------
(* schedule() and schedule_repeat(), which is a schedule() of a wrapper *)

\* A job repeated every 0 ms is left out: in the model it would stop the clock.
Schedule(s, j, ms) ==
    /\ sched[s] = "idle" /\ j \notin used
    /\ j \in Repeating => ms > 0
    /\ now + ms * Grain <= Horizon
    /\ used' = used \cup {j}
    /\ sched' = [sched EXCEPT ![s] = "push"]
    /\ arg' = [arg EXCEPT ![s] = [job |-> j, time |-> now + ms * Grain, ms |-> ms]]
    /\ UNCHANGED <<now, shutdown, jobs, work, workerVars, stop, late>>

Push(s) ==
    /\ sched[s] = "push"
    /\ jobs' = jobs \cup {arg[s]}
    /\ sched' = [sched EXCEPT ![s] = "notify"]
    /\ arg' = [arg EXCEPT ![s] = NoJob]
    /\ UNCHANGED <<now, shutdown, work, workerVars, used, stop, late>>

\* A variant for the mutation runs: the worker is not told.
ReturnSilently(s) ==
    /\ sched[s] = "notify"
    /\ sched' = [sched EXCEPT ![s] = "idle"]
    /\ UNCHANGED <<now, shutdown, jobs, work, workerVars, arg, used, stop, late>>

Notify(s) ==
    /\ sched[s] = "notify"
    /\ work' \in NotifyOne(work)
    /\ sched' = [sched EXCEPT ![s] = "idle"]
    /\ UNCHANGED <<now, shutdown, jobs, workerVars, arg, used, stop, late>>

-----------------------------------------------------------------------------
(* shutdown() *)

\* _shutdown.exchange(true): all but the first caller return at once.
Shutdown(s) ==
    /\ stop[s] = "out"
    /\ shutdown' = TRUE
    /\ stop' = [stop EXCEPT ![s] = IF shutdown THEN "turnedAway" ELSE "notify"]
    /\ UNCHANGED <<now, jobs, work, workerVars, schedVars, late>>

\* A variant for the mutation runs: the worker is not told.
StopSilently(s) ==
    /\ stop[s] = "notify"
    /\ stop' = [stop EXCEPT ![s] = "join"]
    /\ UNCHANGED <<now, shutdown, jobs, work, workerVars, schedVars, late>>

StopNotifies(s) ==
    /\ stop[s] = "notify"
    /\ work' = NotifyAll(work)
    /\ stop' = [stop EXCEPT ![s] = "join"]
    /\ UNCHANGED <<now, shutdown, jobs, workerVars, schedVars, late>>

\* A variant for the mutation runs: _thread.detach().
StopDetaches(s) ==
    /\ stop[s] = "join"
    /\ stop' = [stop EXCEPT ![s] = "joined"]
    /\ UNCHANGED <<now, shutdown, jobs, work, workerVars, schedVars, late>>

StopJoins(s) ==
    /\ stop[s] = "join" /\ pc = "exited"
    /\ stop' = [stop EXCEPT ![s] = "joined"]
    /\ UNCHANGED <<now, shutdown, jobs, work, workerVars, schedVars, late>>

-----------------------------------------------------------------------------
(* run() *)

At(from, to) == pc = from /\ pc' = to

Loop ==
    /\ At("loop", IF shutdown THEN "exited" ELSE "interval")
    /\ UNCHANGED <<now, shutdown, jobs, work, interval, until, fun, schedVars, stop, late>>

\* A variant for the mutation runs: the queue not looked at.
ComputeForever ==
    /\ At("interval", "wait")
    /\ interval' = Forever
    /\ UNCHANGED <<now, shutdown, jobs, work, until, fun, schedVars, stop, late>>

\* waitForWork() looks at the queue under _mutex ...
ComputeInterval ==
    /\ At("interval", "wait")
    /\ IF jobs = {}
       THEN interval' = Forever
       ELSE \E e \in Top : interval' = IF MillisFromNow(e.time) < 0 THEN 0 ELSE MillisFromNow(e.time)
    /\ UNCHANGED <<now, shutdown, jobs, work, until, fun, schedVars, stop, late>>

\* ... lets it go, and goes to sleep.  (Nobody sets this monitor's flag.)  Where the clock
\* stops, every sleep but that of 49 days is over.
Wait ==
    /\ At("wait", "blocked")
    /\ work' = Block(work, Worker)
    /\ until' = IF interval = Forever \/ now + interval * Grain <= MaxTime
                THEN now + interval * Grain ELSE MaxTime
    /\ UNCHANGED <<now, shutdown, jobs, interval, fun, schedVars, stop, late>>

Asleep == pc = "blocked" /\ Worker \in work.waiting

TimedOut ==
    /\ Asleep /\ now >= until
    /\ work' = Leave(work, Worker)
    /\ UNCHANGED <<now, shutdown, jobs, workerVars, schedVars, stop, late>>

SpuriousWakeup ==
    /\ Asleep
    /\ work' = Leave(work, Worker)
    /\ UNCHANGED <<now, shutdown, jobs, workerVars, schedVars, stop, late>>

\* waitForWork() does not look why wait_for() returned.
WaitReturns ==
    /\ Worker \notin work.waiting
    /\ At("blocked", "dowork")
    /\ UNCHANGED <<now, shutdown, jobs, work, interval, until, fun, schedVars, stop, late>>

\* A variant for the mutation runs: _shutdown not tested in doWork().
DoWorkAnyway ==
    /\ At("dowork", "take")
    /\ UNCHANGED <<now, shutdown, jobs, work, interval, until, fun, schedVars, stop, late>>

\* doWork() tests _shutdown ...
DoWork ==
    /\ At("dowork", IF shutdown THEN "loop" ELSE "take")
    /\ UNCHANGED <<now, shutdown, jobs, work, interval, until, fun, schedVars, stop, late>>

\* A variant for the mutation runs: off by one.
DueWithinOne(e) == MillisFromNow(e.time) <= 1

\* ... and under _mutex takes the first job if it is due.
Due(e) == MillisFromNow(e.time) <= 0

\* A variant for the mutation runs: _jobs.pop() forgotten.
TakePeeks(e) ==
    /\ At("take", "run")
    /\ e \in Top /\ Due(e)
    /\ fun' = e
    /\ late' = late + IF shutdown THEN 1 ELSE 0
    /\ UNCHANGED <<now, shutdown, jobs, work, interval, until, schedVars, stop>>

Take(e) ==
    /\ At("take", "run")
    /\ e \in Top /\ Due(e)
    /\ fun' = e
    /\ jobs' = jobs \ {e}
    /\ late' = late + IF shutdown THEN 1 ELSE 0
    /\ UNCHANGED <<now, shutdown, work, interval, until, schedVars, stop>>

\* A variant for the mutation runs: its result inverted.
TakeNothingGoesOn ==
    /\ At("take", "run")
    /\ \A e \in Top : ~Due(e)
    /\ UNCHANGED <<now, shutdown, jobs, work, interval, until, fun, schedVars, stop, late>>

TakeNothing ==
    /\ At("take", "loop")
    /\ \A e \in Top : ~Due(e)
    /\ UNCHANGED <<now, shutdown, jobs, work, interval, until, fun, schedVars, stop, late>>

\* A variant for the mutation runs: no repetition once the thread is shut down.
FinishForGood ==
    /\ At("run", IF fun.job \in Repeating /\ ~shutdown THEN "again" ELSE "dowork")
    /\ fun' = IF fun.job \in Repeating /\ ~shutdown
              THEN [fun EXCEPT !.time = now + fun.ms * Grain] ELSE NoJob
    /\ UNCHANGED <<now, shutdown, jobs, work, interval, until, schedVars, stop, late>>

\* The job returns.  The wrapper of schedule_repeat() then calls it again, which counts
\* from now, not from the last deadline.
Finish ==
    /\ At("run", IF fun.job \in Repeating THEN "again" ELSE "dowork")
    /\ fun' = IF fun.job \in Repeating THEN [fun EXCEPT !.time = now + fun.ms * Grain] ELSE NoJob
    /\ UNCHANGED <<now, shutdown, jobs, work, interval, until, schedVars, stop, late>>

\* The push of that schedule(); its notify_one() finds nobody, the only waiter is here.
PushAgain ==
    /\ At("again", "dowork")
    /\ jobs' = jobs \cup {fun}
    /\ fun' = NoJob
    /\ UNCHANGED <<now, shutdown, work, interval, until, schedVars, stop, late>>

-----------------------------------------------------------------------------
Run ==
    \/ Loop \/ ComputeInterval \/ Wait \/ TimedOut \/ WaitReturns
    \/ DoWork \/ (\E e \in jobs : Take(e)) \/ TakeNothing \/ Finish \/ PushAgain

Next ==
    \/ Tick
    \/ \E s \in Scheduler :
           Push(s) \/ Notify(s) \/ \E j \in Job, ms \in Delay : Schedule(s, j, ms)
    \/ \E s \in Stopper : Shutdown(s) \/ StopNotifies(s) \/ StopJoins(s)
    \/ Run
    \/ SpuriousWakeup

\* Time passes, jobs return, and every thread that can take a step takes it.
Fairness ==
    /\ WF_vars(Tick)
    /\ WF_vars(Run)
    /\ \A s \in Scheduler : WF_vars(Push(s) \/ Notify(s))
    /\ \A s \in Stopper : WF_vars(StopNotifies(s) \/ StopJoins(s))

Spec == Init /\ [][Next]_vars

FairSpec == Spec /\ Fairness

-----------------------------------------------------------------------------
(* Safety *)

\* Each job is in one place: about to be pushed, queued, or in hand.  So none is run twice
\* for one schedule(), and a repeating job has one next time.
Places(j) ==
    {<<"pushed", s>> : s \in {t \in Scheduler : arg[t] # NoJob /\ arg[t].job = j}}
    \cup {<<"queued", e>> : e \in {f \in jobs : f.job = j}}
    \cup {<<"in hand", f>> : f \in {g \in {fun} : g # NoJob /\ g.job = j}}

OnePlace == \A j \in Job : \A x, y \in Places(j) : x = y

\* A repeating job is never lost, not to a shutdown either: it is always somewhere.
RepeatsForGood == \A j \in Repeating \cap used : Places(j) # {}

\* No job is doubled, and none that repeats is lost, whatever schedule() and shutdown() do
\* while it is pushed again (deadline_thread.h:72-78, 135-139).
JobsKept == OnePlace /\ RepeatsForGood

\* No job is begun a millisecond or more before its time.
NotEarly == pc = "run" => fun.time < now + Grain

\* At most one job is begun after shutdown() has set _shutdown, the one whose doWork() had
\* seen it unset; none after shutdown() has joined.
OneLateJob == late <= 1 /\ ((\E s \in Stopper : stop[s] = "joined") => pc = "exited")

\* A job is begun neither before its time nor after the scheduler has ended, but for the one
\* that had passed the test of _shutdown (deadline_thread.h:72-78, 103-122).
BegunInTime == NotEarly /\ OneLateJob

-----------------------------------------------------------------------------
(* Liveness, of FairSpec *)

\* A worker on its way through run() takes every job there is a time for, unless it is shut
\* down, however many come together or are repeated.
AwakeWorkerRuns ==
    \A j \in Job \ Repeating :
        pc = "dowork" /\ (\E e \in jobs : e.job = j) ~> shutdown \/ ~(\E e \in jobs : e.job = j)

\* A schedule() that finds the worker asleep gets its job run.
SleeperIsWoken ==
    \A j \in Job \ Repeating :
        Asleep /\ (\E s \in Scheduler : sched[s] = "notify") /\ (\E e \in jobs : e.job = j)
            ~> shutdown \/ ~(\E e \in jobs : e.job = j)

\* shutdown() returns when the worker is asleep as it notifies, or has something to wake it.
\* (Of all the callers only the first comes that far.)
IdleShutdownReturns ==
    Asleep /\ (\E s \in Stopper : stop[s] = "notify") ~> \E s \in Stopper : stop[s] = "joined"

=============================================================================

----------------------------- MODULE ThreadPool -----------------------------
(***************************************************************************)
(* turbo::thread_pool (src/src/lib/concurrent/thread_pool.h) with the      *)
(* monitors it owns, between its callers:                                  *)
(*   - the controller, one thread that calls start() and stop() (the       *)
(*     destructor calls stop() too);                                       *)
(*   - the producers, threads that call execute() and try_execute();       *)
(*   - the workers, the std::threads start() spawns, each inside run().    *)
(*                                                                         *)
(* A step is one atomic operation of one thread: a load or store of        *)
(* _running, one critical section of a monitor, one call on the queue.     *)
(* moodycamel::ConcurrentQueue keeps the order of each producer's          *)
(* elements.  try_dequeue() looks at the producers one after another and   *)
(* takes the oldest element of one; it fails when it has come past all of  *)
(* them, though the queue was never empty as a whole.  In which order it   *)
(* looks is left open.  A try_execute() the queue refuses changes nothing  *)
(* and is not a step; one it accepts is an execute().                      *)
(*                                                                         *)
(* There may be more workers than NumThreads: start() spawns NumThreads    *)
(* more whenever it finds _running <= 0, which a caller that tries again   *)
(* after a failed start(), or after stop(), makes it do.                   *)
(***************************************************************************)
EXTENDS Integers, Sequences, FiniteSets, Monitor

CONSTANTS
    Worker,      \* the threads that can be spawned over the pool's life
    NumThreads,  \* _numThreads
    Producer,    \* the threads that submit tasks
    Task,        \* the submissions: two calls with the same function are two tasks
    NoTask,      \* an empty std::function
    Controller   \* the thread that starts and stops the pool

ASSUME SizeAssumption == IsFiniteSet(Worker) /\ NumThreads \in Nat \ {0}
ASSUME NameAssumption == NoTask \notin Task

VARIABLES
    running,     \* _running
    work,        \* _notifyWork
    ready,       \* _notifyRunning
    queue,       \* _queue: each producer's elements, oldest first
    pc,          \* where each worker is in run()
    fun,         \* run()'s local fun
    passed,      \* the producers each worker's try_dequeue() has come past
    ctl,         \* where the controller is in start() or stop()
    toSpawn,     \* threads start()'s loop has still to create
    result,      \* how the last start() ended
    phase,       \* "open" until stop() stores _running, "closed" when it has returned
    prod,        \* where each producer is in execute()
    submitted,   \* the tasks handed to execute()
    ran          \* the tasks that have run to their end

workerVars == <<pc, fun, passed, ran>>
controllerVars == <<ctl, toSpawn, result, phase>>
producerVars == <<prod, submitted>>
vars == <<running, work, ready, queue, workerVars, controllerVars, producerVars>>

WorkerPC == {"none", "begin", "signal", "loop", "wait", "blocked", "woken",
             "dequeue", "check", "exec", "exited"}
ControllerPC == {"idle", "spawn", "startBlocked", "startCheck", "stopSignal", "join"}

\* Types, and: a worker holds a task from a successful try_dequeue() to the end of its call.
TypeOK ==
    /\ running \in Int
    /\ work \in MonitorOf(Worker)
    /\ ready \in MonitorOf({Controller})
    /\ queue \in [Producer -> Seq(Task)]
    /\ pc \in [Worker -> WorkerPC]
    /\ fun \in [Worker -> Task \cup {NoTask}]
    /\ \A w \in Worker : fun[w] \in Task <=> pc[w] \in {"check", "exec"}
    /\ passed \in [Worker -> SUBSET Producer]
    /\ ctl \in ControllerPC
    /\ toSpawn \in 0..NumThreads
    /\ result \in {"none", "already", "up", "failed"}
    /\ phase \in {"open", "closing", "closed"}
    /\ prod \in [Producer -> {"idle", "notify"}]
    /\ submitted \subseteq Task
    /\ ran \subseteq Task

Init ==
    /\ running = 0
    /\ work = NewMonitor
    /\ ready = NewMonitor
    /\ queue = [p \in Producer |-> <<>>]
    /\ pc = [w \in Worker |-> "none"]
    /\ fun = [w \in Worker |-> NoTask]
    /\ passed = [w \in Worker |-> {}]
    /\ ctl = "idle"
    /\ toSpawn = 0
    /\ result = "none"
    /\ phase = "open"
    /\ prod = [p \in Producer |-> "idle"]
    /\ submitted = {}
    /\ ran = {}

At(w, from, to) == pc[w] = from /\ pc' = [pc EXCEPT ![w] = to]

-----------------------------------------------------------------------------
(* start() *)

StartFindsRunning ==
    /\ ctl = "idle" /\ running > 0
    /\ result' = "already"
    /\ UNCHANGED <<running, work, ready, queue, workerVars, ctl, toSpawn, phase, producerVars>>

\* The guard on Worker is a bound of the model: a pool whose threads are all used up is
\* started no more.
StartBegins ==
    /\ ctl = "idle" /\ running <= 0
    /\ Cardinality({w \in Worker : pc[w] = "none"}) >= NumThreads
    /\ ctl' = "spawn"
    /\ toSpawn' = NumThreads
    /\ result' = "none"
    /\ UNCHANGED <<running, work, ready, queue, workerVars, phase, producerVars>>

Spawn(w) ==
    /\ ctl = "spawn" /\ toSpawn > 0
    /\ At(w, "none", "begin")
    /\ toSpawn' = toSpawn - 1
    /\ UNCHANGED <<running, work, ready, queue, fun, passed, ran, ctl, result, phase, producerVars>>

StartWaits ==
    /\ ctl = "spawn" /\ toSpawn = 0
    /\ IF ready.flag
       THEN ready' = TakeFlag(ready) /\ ctl' = "startCheck"
       ELSE ready' = Block(ready, Controller) /\ ctl' = "startBlocked"
    /\ UNCHANGED <<running, work, queue, workerVars, toSpawn, result, phase, producerVars>>

StartNotified ==
    /\ ctl = "startBlocked" /\ Controller \notin ready.waiting
    /\ ctl' = "startCheck"
    /\ UNCHANGED <<running, work, ready, queue, workerVars, toSpawn, result, phase, producerVars>>

\* wait_for(10000) times out, or wakes up spuriously: start() does not look which.
StartGivesUp ==
    /\ ctl = "startBlocked" /\ Controller \in ready.waiting
    /\ ready' = Leave(ready, Controller)
    /\ ctl' = "startCheck"
    /\ UNCHANGED <<running, work, queue, workerVars, toSpawn, result, phase, producerVars>>

\* A variant for the mutation runs: any running worker will do.
StartReturnsEarly ==
    /\ ctl = "startCheck"
    /\ result' = IF running > 0 THEN "up" ELSE "failed"
    /\ ctl' = "idle"
    /\ UNCHANGED <<running, work, ready, queue, workerVars, toSpawn, phase, producerVars>>

StartReturns ==
    /\ ctl = "startCheck"
    /\ result' = IF running = NumThreads THEN "up" ELSE "failed"
    /\ ctl' = "idle"
    /\ UNCHANGED <<running, work, ready, queue, workerVars, toSpawn, phase, producerVars>>

(* stop() *)

\* A variant for the mutation runs: no room left for late ++_running.
StopAtMinusOne ==
    /\ ctl = "idle"
    /\ running' = -1
    /\ phase' = "closing"
    /\ ctl' = "stopSignal"
    /\ UNCHANGED <<work, ready, queue, workerVars, toSpawn, result, producerVars>>

Stop ==
    /\ ctl = "idle"
    /\ running' = -1 - NumThreads
    /\ phase' = "closing"
    /\ ctl' = "stopSignal"
    /\ UNCHANGED <<work, ready, queue, workerVars, toSpawn, result, producerVars>>

\* A variant for the mutation runs: notify_one() in place of signal_all().
StopNotifiesOne ==
    /\ ctl = "stopSignal"
    /\ work' \in NotifyOne(work)
    /\ ctl' = "join"
    /\ UNCHANGED <<running, ready, queue, workerVars, toSpawn, result, phase, producerVars>>

StopSignals ==
    /\ ctl = "stopSignal"
    /\ work' = SignalAll(work, FALSE)
    /\ ctl' = "join"
    /\ UNCHANGED <<running, ready, queue, workerVars, toSpawn, result, phase, producerVars>>

\* A variant for the mutation runs: detached threads.
StopDetaches ==
    /\ ctl = "join"
    /\ ctl' = "idle"
    /\ phase' = "closed"
    /\ UNCHANGED <<running, work, ready, queue, workerVars, toSpawn, result, producerVars>>

\* The joins of the loop together: a thread that has exited stays so, and those that
\* earlier calls of stop() joined have exited too.
StopJoins ==
    /\ ctl = "join"
    /\ \A w \in Worker : pc[w] \in {"none", "exited"}
    /\ ctl' = "idle"
    /\ phase' = "closed"
    /\ UNCHANGED <<running, work, ready, queue, workerVars, toSpawn, result, producerVars>>

-----------------------------------------------------------------------------
(* execute() and try_execute() *)

Execute(p, t) ==
    /\ prod[p] = "idle" /\ t \notin submitted
    /\ queue' = [queue EXCEPT ![p] = Append(@, t)]
    /\ submitted' = submitted \cup {t}
    /\ prod' = [prod EXCEPT ![p] = "notify"]
    /\ UNCHANGED <<running, work, ready, workerVars, controllerVars>>

ExecuteNotifies(p) ==
    /\ prod[p] = "notify"
    /\ work' \in NotifyOne(work)
    /\ prod' = [prod EXCEPT ![p] = "idle"]
    /\ UNCHANGED <<running, ready, queue, workerVars, controllerVars, submitted>>

-----------------------------------------------------------------------------
(* run() *)

Announce(w) ==
    /\ At(w, "begin", IF running + 1 = NumThreads THEN "signal" ELSE "loop")
    /\ running' = running + 1
    /\ UNCHANGED <<work, ready, queue, fun, passed, ran, controllerVars, producerVars>>

SignalReady(w) ==
    /\ At(w, "signal", "loop")
    /\ ready' = SignalAll(ready, FALSE)
    /\ UNCHANGED <<running, work, queue, fun, passed, ran, controllerVars, producerVars>>

Loop(w) ==
    /\ At(w, "loop", IF running > 0 THEN "wait" ELSE "exited")
    /\ UNCHANGED <<running, work, ready, queue, fun, passed, ran, controllerVars, producerVars>>

Wait(w) ==
    /\ At(w, "wait", IF work.flag THEN "woken" ELSE "blocked")
    /\ work' = IF work.flag THEN TakeFlag(work) ELSE Block(work, w)
    /\ UNCHANGED <<running, ready, queue, fun, passed, ran, controllerVars, producerVars>>

WaitReturns(w) ==
    /\ w \notin work.waiting
    /\ At(w, "blocked", "woken")
    /\ UNCHANGED <<running, work, ready, queue, fun, passed, ran, controllerVars, producerVars>>

SpuriousWakeup(w) ==
    /\ w \in work.waiting
    /\ work' = Leave(work, w)
    /\ UNCHANGED <<running, ready, queue, workerVars, controllerVars, producerVars>>

CheckWoken(w) ==
    /\ At(w, "woken", IF running <= 0 THEN "exited" ELSE "dequeue")
    /\ UNCHANGED <<running, work, ready, queue, fun, passed, ran, controllerVars, producerVars>>

\* A producer looks empty to w: it is, or another worker's search found it so and has yet
\* to end.  (That one may have counted itself in for an element that was not there, and
\* until it gives the count back it hides what has been added since; here it does so at the
\* end of its search, no sooner than in the queue.)
LooksEmpty(w, p) ==
    queue[p] = <<>> \/ \E v \in Worker \ {w} : pc[v] = "dequeue" /\ p \in passed[v]

\* try_dequeue() comes past a producer.
ComePast(w, p) ==
    /\ pc[w] = "dequeue" /\ p \notin passed[w]
    /\ LooksEmpty(w, p)
    /\ passed' = [passed EXCEPT ![w] = @ \cup {p}]
    /\ UNCHANGED <<running, work, ready, queue, pc, fun, ran, controllerVars, producerVars>>

\* A variant for the mutation runs: the element is read and not removed.
DequeuePeeks(w, p) ==
    /\ queue[p] # <<>> /\ p \notin passed[w]
    /\ At(w, "dequeue", "check")
    /\ fun' = [fun EXCEPT ![w] = Head(queue[p])]
    /\ passed' = [passed EXCEPT ![w] = {}]
    /\ UNCHANGED <<running, work, ready, queue, ran, controllerVars, producerVars>>

Dequeue(w, p) ==
    /\ queue[p] # <<>> /\ p \notin passed[w]
    /\ At(w, "dequeue", "check")
    /\ fun' = [fun EXCEPT ![w] = Head(queue[p])]
    /\ passed' = [passed EXCEPT ![w] = {}]
    /\ queue' = [queue EXCEPT ![p] = Tail(@)]
    /\ UNCHANGED <<running, work, ready, ran, controllerVars, producerVars>>

\* try_dequeue() returns false: it has come past every producer.
FindEmpty(w) ==
    /\ passed[w] = Producer
    /\ At(w, "dequeue", "loop")
    /\ passed' = [passed EXCEPT ![w] = {}]
    /\ UNCHANGED <<running, work, ready, queue, fun, ran, controllerVars, producerVars>>

\* A variant for the mutation runs: _running not tested again.
BeginTaskAnyway(w) ==
    /\ At(w, "check", "exec")
    /\ UNCHANGED <<running, work, ready, queue, fun, passed, ran, controllerVars, producerVars>>

\* The test of _running between try_dequeue() and the call.  A task taken off the queue
\* after stop() goes with the local variable that holds it.
BeginTask(w) ==
    /\ running > 0
    /\ At(w, "check", "exec")
    /\ UNCHANGED <<running, work, ready, queue, fun, passed, ran, controllerVars, producerVars>>

DropTask(w) ==
    /\ running <= 0
    /\ At(w, "check", "loop")
    /\ fun' = [fun EXCEPT ![w] = NoTask]
    /\ UNCHANGED <<running, work, ready, queue, passed, ran, controllerVars, producerVars>>

\* A variant for the mutation runs: one task per wakeup.
FinishTaskOnly(w) ==
    /\ At(w, "exec", "loop")
    /\ ran' = ran \cup {fun[w]}
    /\ fun' = [fun EXCEPT ![w] = NoTask]
    /\ UNCHANGED <<running, work, ready, queue, passed, controllerVars, producerVars>>

FinishTask(w) ==
    /\ At(w, "exec", "dequeue")
    /\ ran' = ran \cup {fun[w]}
    /\ fun' = [fun EXCEPT ![w] = NoTask]
    /\ UNCHANGED <<running, work, ready, queue, passed, controllerVars, producerVars>>

-----------------------------------------------------------------------------
Run(w) ==
    \/ Announce(w) \/ SignalReady(w) \/ Loop(w) \/ Wait(w) \/ WaitReturns(w)
    \/ CheckWoken(w) \/ (\E p \in Producer : ComePast(w, p) \/ Dequeue(w, p)) \/ FindEmpty(w)
    \/ BeginTask(w) \/ DropTask(w) \/ FinishTask(w)

\* What start() and stop() do once they have been called.
Proceed ==
    \/ (\E w \in Worker : Spawn(w)) \/ StartWaits \/ StartNotified \/ StartGivesUp
    \/ StartReturns \/ StopSignals \/ StopJoins

Next ==
    \/ StartFindsRunning \/ StartBegins \/ Stop \/ Proceed
    \/ \E p \in Producer : ExecuteNotifies(p) \/ \E t \in Task : Execute(p, t)
    \/ \E w \in Worker : Run(w) \/ SpuriousWakeup(w)

\* Every thread that can take its next step takes it: the scheduler runs them all, tasks
\* end, and wait_for() ends after ten seconds.  Nobody has to call the pool, and the
\* implementation of the condition variable owes nobody a spurious wakeup.
Fairness ==
    /\ WF_vars(Proceed)
    /\ \A p \in Producer : WF_vars(ExecuteNotifies(p))
    /\ \A w \in Worker : WF_vars(Run(w))

Spec == Init /\ [][Next]_vars

FairSpec == Spec /\ Fairness

-----------------------------------------------------------------------------
(* Safety *)

InQueue(t) == \E p \in Producer : \E i \in DOMAIN queue[p] : queue[p][i] = t
Held(t) == \E w \in Worker : fun[w] = t

\* A submitted task is in at most one place: one position of one producer's queue, one
\* worker's fun, or among those that have run.  (try_dequeue moves the std::function out
\* of the queue; run() calls it once.)
OnePlace ==
    /\ \A p, q \in Producer : \A i \in DOMAIN queue[p], j \in DOMAIN queue[q] :
           queue[p][i] = queue[q][j] => p = q /\ i = j
    /\ \A w, v \in Worker : fun[w] = fun[v] /\ fun[w] # NoTask => w = v
    /\ \A t \in Task : Held(t) => ~InQueue(t)
    /\ \A t \in ran : ~InQueue(t) /\ ~Held(t)

\* Once stop() has stored -1 - _numThreads, _running stays below 1 however many workers
\* have yet to execute their ++_running (the workers of a start() that gave up).
StopIsFinal == phase # "open" => running <= 0

\* start() returns true by its last line only when every worker has come up.
UpMeansAll == result = "up" => \A w \in Worker : pc[w] \notin {"none", "begin"}

\* start() sits out its ten seconds only while some worker has yet to come up: the last
\* one's signal_all cannot slip in before the wait_for and be missed.
StartNotStranded ==
    phase = "open" /\ Controller \in ready.waiting =>
        \E w \in Worker : pc[w] \in {"none", "begin", "signal"}

\* After stop() has returned no worker waits for, looks for or runs a task.
ClosedIsQuiet ==
    phase = "closed" => \A w \in Worker : pc[w] \in {"none", "begin", "signal", "loop", "exited"}

\* What start() and stop() say is true and stays true: up with every worker, down for good
\* and quiet, however late a worker counts itself in (thread_pool.h:59-77, 101).
LifeIsTrue == StopIsFinal /\ UpMeansAll /\ ClosedIsQuiet

-----------------------------------------------------------------------------
(* The executor it implements *)

Executing(t) == \E w \in Worker : fun[w] = t /\ pc[w] = "exec"

StageOf(t) ==
    IF t \in ran THEN "done"
    ELSE IF Executing(t) THEN "running"
    ELSE IF InQueue(t) \/ Held(t) THEN "pending"
    ELSE IF t \in submitted THEN "discarded"
    ELSE "new"

Executor == INSTANCE TaskExecutor WITH stage <- [t \in Task |-> StageOf(t)]

\* thread_pool keeps the promises of TaskExecutor.
IsExecutor == Executor!Spec

-----------------------------------------------------------------------------
(* Liveness, of FairSpec *)

\* A worker is looking for tasks, or has been notified in the condition variable and will look.
Looking(w) == pc[w] = "dequeue" \/ (pc[w] = "blocked" /\ w \notin work.waiting)

\* A task is queued where no search under way has been.
Ahead(t) ==
    \E p \in Producer :
        /\ \E i \in DOMAIN queue[p] : queue[p][i] = t
        /\ \A w \in Worker : p \notin passed[w]

\* A task that is queued while some worker is looking, and that nobody's try_dequeue() has come
\* past, is taken out, unless the pool is stopped: run() goes back to the monitor only after a
\* try_dequeue() that failed, and two searches may miss a task only if it came behind one of them.
\* (One that came behind is EveryTaskRuns' matter.)
AwakeWorkerDrains ==
    \A t \in Task :
        phase = "open" /\ Ahead(t) /\ (\E w \in Worker : Looking(w))
            ~> phase # "open" \/ ~InQueue(t)

\* stop() returns when the pool was idle: every worker in the condition variable, or gone,
\* when signal_all came.
IdleStopReturns ==
    (/\ ctl = "stopSignal"
     /\ \A w \in Worker : pc[w] \in {"none", "exited"} \/ w \in work.waiting)
        ~> ctl = "idle"

\* A task given to a started pool is run, unless the pool is stopped (thread_poolTest.cpp:32
\* asserts that the last of eleven tasks runs within a second).
EveryTaskRuns ==
    \A t \in Task : t \in submitted /\ result = "up" ~> t \in ran \/ phase # "open"

=============================================================================

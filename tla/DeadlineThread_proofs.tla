------------------------ MODULE DeadlineThread_proofs ------------------------
(***************************************************************************)
(* Proofs about DeadlineThread, for any jobs, schedulers and stoppers and  *)
(* any bounds of the clock.                                                *)
(***************************************************************************)
EXTENDS DeadlineThread, TLAPS

\* What the assumptions say, apart from the bounds.
LEMMA Constants == ASSUME SchedulerAssumption PROVE
    /\ Grain \in Nat /\ Grain > 0 /\ MaxTime \in Nat /\ Forever \in Nat
    /\ Delay \subseteq Nat /\ Repeating \subseteq Job /\ NoJob \notin Entry
BY DEF SchedulerAssumption, Entry

LEMMA Products == ASSUME SchedulerAssumption PROVE \A ms \in Nat : ms * Grain \in Nat
BY Constants

LEMMA MillisInt == ASSUME SchedulerAssumption PROVE \A d \in Int : Millis(d) \in Int
BY Constants DEF Millis

\* A job that is due is due in less than a millisecond.
LEMMA DueSoon == ASSUME SchedulerAssumption, NEW d \in Int, Millis(d) <= 0 PROVE d < Grain
<1>0. Grain \in Nat /\ Grain > 0
  BY Constants
<1>1. CASE d < 0
  BY <1>0, <1>1
<1>2. CASE d >= 0
  <2>1. d \div Grain <= 0
    BY <1>2 DEF Millis
  <2>2. d = Grain * (d \div Grain) + (d % Grain) /\ d % Grain < Grain /\ d \div Grain >= 0
    BY <1>0, <1>2
  <2>3. d \div Grain = 0
    BY <1>2, <2>1, <1>0, <2>2
  <2>. QED
    BY <1>2, <2>2, <1>0, <2>3
<1>. QED
  BY <1>1, <1>2

LEMMA Monitors ==
    /\ NewMonitor \in MonitorOf({Worker})
    /\ \A m \in MonitorOf({Worker}) :
           /\ Block(m, Worker) \in MonitorOf({Worker})
           /\ Leave(m, Worker) \in MonitorOf({Worker})
           /\ NotifyAll(m) \in MonitorOf({Worker})
           /\ NotifyOne(m) \subseteq MonitorOf({Worker})
BY DEF NewMonitor, MonitorOf, Block, Leave, NotifyAll, NotifyOne

\* Type correctness of deadline_thread: its queue, its worker's locals, its callers.
THEOREM TypeCorrect == ASSUME SchedulerAssumption PROVE Spec => []TypeOK
<1>. USE Constants, Products
<1>1. Init => TypeOK
  <2>. SUFFICES ASSUME Init PROVE TypeOK
    OBVIOUS
  <2>1. now \in 0..MaxTime
    BY DEF Init
  <2>2. /\ arg \in [Scheduler -> Entry \cup {NoJob}]
        /\ \A s \in Scheduler : arg[s] \in Entry <=> sched[s] = "push"
    BY DEF Init
  <2>3. work \in MonitorOf({Worker})
    BY Monitors DEF Init
  <2>. QED
    BY <2>1, <2>2, <2>3 DEF Init, TypeOK
<1>2. TypeOK /\ [Next]_vars => TypeOK'
  <2>. SUFFICES ASSUME TypeOK, [Next]_vars PROVE TypeOK'
    OBVIOUS
  <2>1. CASE Tick
    BY <2>1 DEF TypeOK, Tick, workerVars, schedVars
  <2>2. ASSUME NEW s \in Scheduler, NEW j \in Job, NEW ms \in Delay, Schedule(s, j, ms)
        PROVE TypeOK'
    <3>1. [job |-> j, time |-> now + ms * Grain, ms |-> ms] \in Entry
      BY DEF TypeOK, Entry
    <3>. QED
      BY <2>2, <3>1 DEF TypeOK, Schedule, workerVars
  <2>3. ASSUME NEW s \in Scheduler, Push(s) PROVE TypeOK'
    BY <2>3 DEF TypeOK, Push, workerVars
  <2>4. ASSUME NEW s \in Scheduler, Notify(s) PROVE TypeOK'
    BY <2>4, Monitors DEF TypeOK, Notify, workerVars
  <2>5. ASSUME NEW s \in Stopper, Shutdown(s) \/ StopNotifies(s) \/ StopJoins(s) PROVE TypeOK'
    BY <2>5, Monitors DEF TypeOK, Shutdown, StopNotifies, StopJoins, workerVars, schedVars
  <2>6. CASE Loop \/ WaitReturns \/ DoWork \/ TakeNothing
    BY <2>6 DEF TypeOK, Loop, WaitReturns, DoWork, TakeNothing, At, schedVars
  <2>7. CASE ComputeInterval
    <3>1. interval' \in Nat
      <4>1. CASE jobs = {}
        BY <2>7, <4>1 DEF ComputeInterval
      <4>2. CASE jobs # {}
        <5>1. PICK e \in Top :
                 interval' = IF MillisFromNow(e.time) < 0 THEN 0 ELSE MillisFromNow(e.time)
          BY <2>7, <4>2 DEF ComputeInterval
        <5>2. e.time - now \in Int
          BY DEF TypeOK, Top, Entry
        <5>. QED
          BY <5>1, <5>2, MillisInt DEF MillisFromNow
      <4>. QED
        BY <4>1, <4>2
    <3>. QED
      BY <2>7, <3>1 DEF TypeOK, ComputeInterval, At, schedVars
  <2>8. CASE Wait
    <3>1. now + interval * Grain \in Nat
      BY DEF TypeOK
    <3>. QED
      BY <2>8, <3>1, Monitors DEF TypeOK, Wait, At, schedVars
  <2>9. CASE TimedOut \/ SpuriousWakeup
    BY <2>9, Monitors DEF TypeOK, TimedOut, SpuriousWakeup, workerVars, schedVars
  <2>10. ASSUME NEW e \in jobs, Take(e) PROVE TypeOK'
    BY <2>10 DEF TypeOK, Take, At, schedVars
  <2>11. CASE Finish
    <3>1. fun \in Entry /\ now + fun.ms * Grain \in Nat
      BY <2>11 DEF TypeOK, Finish, At, Entry
    <3>2. [fun EXCEPT !.time = now + fun.ms * Grain] \in Entry
      BY <3>1 DEF Entry
    <3>. QED
      BY <2>11, <3>2 DEF TypeOK, Finish, At, schedVars
  <2>12. CASE PushAgain
    BY <2>12 DEF TypeOK, PushAgain, At, schedVars
  <2>13. CASE UNCHANGED vars
    BY <2>13 DEF TypeOK, vars, workerVars, schedVars
  <2>. QED
    BY <2>1, <2>2, <2>3, <2>4, <2>5, <2>6, <2>7, <2>8, <2>9, <2>10, <2>11, <2>12, <2>13
    DEF Next, Run
<1>. QED
  BY <1>1, <1>2, PTL DEF Spec

-----------------------------------------------------------------------------
\* What is known of the job that is being run, and of jobs begun after shutdown().
RunInv ==
    /\ NotEarly
    /\ late = 0 \/ (late = 1 /\ shutdown /\ pc # "take")
    /\ \A s \in Stopper : stop[s] = "joined" => pc = "exited"

LEMMA TakeOnTime == ASSUME SchedulerAssumption, TypeOK, NEW e \in jobs, Take(e) PROVE e.time < now + Grain
<1>1. e.time \in Nat /\ now \in Nat
  BY Constants DEF TypeOK, Entry
<1>2. Millis(e.time - now) <= 0
  BY DEF Take, Due, MillisFromNow
<1>3. e.time - now < Grain
  BY <1>1, <1>2, DueSoon
<1>. QED
  BY <1>1, <1>3, Constants

LEMMA RunStep == ASSUME SchedulerAssumption, TypeOK, RunInv, [Next]_vars PROVE RunInv'
<1>. USE DEF RunInv, NotEarly
<1>1. CASE Tick
  <2>1. now \in Nat /\ (pc = "run" => fun.time \in Nat)
    BY Constants DEF TypeOK, Entry
  <2>. QED
    BY <1>1, <2>1, Constants DEF Tick, workerVars
<1>2. CASE \E s \in Scheduler : Push(s) \/ Notify(s) \/ \E j \in Job, ms \in Delay : Schedule(s, j, ms)
  BY <1>2 DEF Push, Notify, Schedule, workerVars
<1>3. CASE \E s \in Stopper : Shutdown(s) \/ StopNotifies(s) \/ StopJoins(s)
  BY <1>3 DEF TypeOK, Shutdown, StopNotifies, StopJoins, workerVars
<1>4. CASE Loop \/ WaitReturns \/ DoWork \/ TakeNothing \/ ComputeInterval \/ Wait
  BY <1>4 DEF Loop, WaitReturns, DoWork, TakeNothing, ComputeInterval, Wait, At
<1>5. CASE TimedOut \/ SpuriousWakeup
  BY <1>5 DEF TimedOut, SpuriousWakeup, workerVars
<1>6. ASSUME NEW e \in jobs, Take(e) PROVE RunInv'
  BY <1>6, TakeOnTime DEF TypeOK, Take, At
<1>7. CASE Finish \/ PushAgain
  BY <1>7 DEF Finish, PushAgain, At
<1>8. CASE UNCHANGED vars
  BY <1>8 DEF vars, workerVars
<1>. QED
  BY <1>1, <1>2, <1>3, <1>4, <1>5, <1>6, <1>7, <1>8 DEF Next, Run

LEMMA RunInvariance == ASSUME SchedulerAssumption PROVE Spec => [](TypeOK /\ RunInv)
<1>1. Init => RunInv
  BY DEF Init, RunInv, NotEarly
<1>2. TypeOK /\ RunInv /\ [Next]_vars => RunInv'
  BY RunStep
<1>. QED
  BY <1>1, <1>2, TypeCorrect, PTL DEF Spec

\* doWork() begins no job a millisecond before its time, for all that durations are cut.
THEOREM NeverEarly == ASSUME SchedulerAssumption PROVE Spec => []NotEarly
<1>1. RunInv => NotEarly
  BY DEF RunInv
<1>. QED
  BY <1>1, RunInvariance, PTL

\* shutdown() may be overtaken by one job, and by none once it has joined the thread.
THEOREM LateJob == ASSUME SchedulerAssumption PROVE Spec => []OneLateJob
<1>1. RunInv => OneLateJob
  BY DEF RunInv, OneLateJob
<1>. QED
  BY <1>1, RunInvariance, PTL

\* The two together: a job is begun in its time and in the scheduler's.
THEOREM InTime == ASSUME SchedulerAssumption PROVE Spec => []BegunInTime
<1>1. NotEarly /\ OneLateJob => BegunInTime
  BY DEF BegunInTime
<1>. QED
  BY <1>1, NeverEarly, LateJob, PTL

-----------------------------------------------------------------------------
Pushed(j, s) == arg[s] # NoJob /\ arg[s].job = j
InHand(j) == fun # NoJob /\ fun.job = j

\* OnePlace taken apart, and: what is anywhere has been scheduled.
PlaceInv ==
    \A j \in Job :
        /\ \A s, t \in Scheduler : Pushed(j, s) /\ Pushed(j, t) => s = t
        /\ \A e, f \in jobs : e.job = j /\ f.job = j => e = f
        /\ \A s \in Scheduler, e \in jobs : ~(Pushed(j, s) /\ e.job = j)
        /\ \A s \in Scheduler : ~(Pushed(j, s) /\ InHand(j))
        /\ \A e \in jobs : ~(e.job = j /\ InHand(j))
        /\ (\E s \in Scheduler : Pushed(j, s)) \/ (\E e \in jobs : e.job = j) \/ InHand(j) => j \in used
        /\ j \in Repeating \cap used =>
              (\E s \in Scheduler : Pushed(j, s)) \/ (\E e \in jobs : e.job = j) \/ InHand(j)

LEMMA PlaceStep == ASSUME SchedulerAssumption, TypeOK, PlaceInv, [Next]_vars PROVE PlaceInv'
<1>. USE Constants
<1>1. ASSUME NEW s \in Scheduler, NEW k \in Job, NEW ms \in Delay, Schedule(s, k, ms)
      PROVE PlaceInv'
  <2>. DEFINE entry == [job |-> k, time |-> now + ms * Grain, ms |-> ms]
  <2>1. entry \in Entry /\ entry.job = k /\ entry # NoJob
    BY Products DEF TypeOK, Entry
  <2>2. /\ jobs' = jobs /\ fun' = fun /\ used' = used \cup {k} /\ k \notin used
        /\ arg' = [arg EXCEPT ![s] = entry] /\ sched[s] = "idle"
    BY <1>1 DEF Schedule, workerVars
  <2>3. arg[s] = NoJob
    BY <2>2 DEF TypeOK
  <2>4. \A j \in Job : /\ \A t \in Scheduler : Pushed(j, t)' <=> (Pushed(j, t) \/ (t = s /\ j = k))
                       /\ InHand(j)' <=> InHand(j)
    BY <2>1, <2>2, <2>3 DEF TypeOK, Pushed, InHand
  <2>. QED
    BY <2>2, <2>4 DEF PlaceInv
<1>2. ASSUME NEW s \in Scheduler, Push(s) PROVE PlaceInv'
  <2>1. PICK g \in Entry : g = arg[s]
    BY <1>2 DEF Push, TypeOK
  <2>2. /\ jobs' = jobs \cup {g} /\ fun' = fun /\ used' = used
        /\ arg' = [arg EXCEPT ![s] = NoJob]
    BY <1>2, <2>1 DEF Push, workerVars
  <2>3. \A j \in Job : /\ \A t \in Scheduler : Pushed(j, t)' <=> (Pushed(j, t) /\ t # s)
                       /\ Pushed(j, s) <=> g.job = j
                       /\ InHand(j)' <=> InHand(j)
    BY <2>1, <2>2 DEF TypeOK, Pushed, InHand
  <2>4. \A j \in Job : \A e, f \in jobs' : e.job = j /\ f.job = j => e = f
    BY <2>2, <2>3 DEF PlaceInv
  <2>5. \A j \in Job : \A t \in Scheduler, e \in jobs' : ~(Pushed(j, t)' /\ e.job = j)
    BY <2>2, <2>3 DEF PlaceInv
  <2>6. \A j \in Job : \A e \in jobs' : ~(e.job = j /\ InHand(j)')
    BY <2>2, <2>3 DEF PlaceInv
  <2>7. \A j \in Job :
            (\E t \in Scheduler : Pushed(j, t)') \/ (\E e \in jobs' : e.job = j) \/ InHand(j)'
            <=> (\E t \in Scheduler : Pushed(j, t)) \/ (\E e \in jobs : e.job = j) \/ InHand(j)
    BY <2>2, <2>3
  <2>. QED
    BY <2>2, <2>3, <2>4, <2>5, <2>6, <2>7 DEF PlaceInv
<1>3. ASSUME NEW e \in jobs, Take(e) PROVE PlaceInv'
  <2>1. /\ jobs' = jobs \ {e} /\ fun' = e /\ used' = used /\ arg' = arg
        /\ e \in Entry /\ fun = NoJob
    BY <1>3 DEF Take, TypeOK, At, schedVars
  <2>2. \A j \in Job : /\ \A t \in Scheduler : Pushed(j, t)' <=> Pushed(j, t)
                       /\ InHand(j)' <=> e.job = j
    BY <2>1 DEF Pushed, InHand
  <2>3. \A j \in Job : \A f \in jobs' : ~(f.job = j /\ e.job = j)
    BY <2>1 DEF PlaceInv
  <2>4. \A j \in Job : ~InHand(j)
    BY <2>1 DEF InHand
  <2>5. \A j \in Job :
            (\E t \in Scheduler : Pushed(j, t)') \/ (\E f \in jobs' : f.job = j) \/ InHand(j)'
            <=> (\E t \in Scheduler : Pushed(j, t)) \/ (\E f \in jobs : f.job = j)
    BY <2>1, <2>2
  <2>6. \A j \in Job : \A t \in Scheduler : ~(Pushed(j, t)' /\ InHand(j)')
    BY <2>2 DEF PlaceInv
  <2>. QED
    BY <2>1, <2>2, <2>3, <2>4, <2>5, <2>6 DEF PlaceInv
<1>4. CASE Finish
  <2>1. /\ jobs' = jobs /\ used' = used /\ arg' = arg /\ fun \in Entry
        /\ IF fun.job \in Repeating
           THEN fun' = [fun EXCEPT !.time = now + fun.ms * Grain] ELSE fun' = NoJob
    BY <1>4 DEF Finish, TypeOK, At, schedVars
  <2>2. fun.job \in Repeating => fun' # NoJob /\ fun'.job = fun.job
    <3>1. fun.ms * Grain \in Nat
      BY <2>1, Products DEF Entry
    <3>. QED
      BY <2>1, <3>1 DEF Entry, TypeOK
  <2>3. \A j \in Job : /\ \A t \in Scheduler : Pushed(j, t)' <=> Pushed(j, t)
                       /\ InHand(j)' => InHand(j)
                       /\ InHand(j) /\ j \in Repeating => InHand(j)'
    BY <2>1, <2>2 DEF Pushed, InHand
  <2>. QED
    BY <2>1, <2>3 DEF PlaceInv
<1>5. CASE PushAgain
  <2>1. /\ jobs' = jobs \cup {fun} /\ fun' = NoJob /\ used' = used /\ arg' = arg /\ fun \in Entry
    BY <1>5 DEF PushAgain, TypeOK, At, schedVars
  <2>2. \A j \in Job : /\ \A t \in Scheduler : Pushed(j, t)' <=> Pushed(j, t)
                       /\ ~InHand(j)'
                       /\ InHand(j) <=> fun.job = j
    BY <2>1 DEF Pushed, InHand
  <2>. QED
    BY <2>1, <2>2 DEF PlaceInv
<1>6. CASE UNCHANGED <<jobs, fun, arg, used>>
  BY <1>6 DEF PlaceInv, Pushed, InHand
<1>7. \/ \E s \in Scheduler, k \in Job, ms \in Delay : Schedule(s, k, ms)
      \/ \E s \in Scheduler : Push(s)
      \/ \E e \in jobs : Take(e)
      \/ Finish \/ PushAgain \/ UNCHANGED <<jobs, fun, arg, used>>
  BY DEF Next, Run, Tick, Notify, Shutdown, StopNotifies, StopJoins, Loop, ComputeInterval,
         Wait, TimedOut, SpuriousWakeup, WaitReturns, DoWork, TakeNothing, vars, workerVars,
         schedVars
<1>. QED
  BY <1>1, <1>2, <1>3, <1>4, <1>5, <1>6, <1>7

LEMMA PlaceInvariance == ASSUME SchedulerAssumption PROVE Spec => []PlaceInv
<1>1. Init => PlaceInv
  BY DEF Init, PlaceInv, Pushed, InHand
<1>2. TypeOK /\ PlaceInv /\ [Next]_vars => PlaceInv'
  BY PlaceStep
<1>. QED
  BY <1>1, <1>2, TypeCorrect, PTL DEF Spec

\* A job is in one place: between schedule()'s lines, in the queue, or in hand.
THEOREM JobsInOnePlace == ASSUME SchedulerAssumption PROVE Spec => []OnePlace
<1>1. ASSUME PlaceInv, NEW j \in Job, NEW x \in Places(j), NEW y \in Places(j) PROVE x = y
  <2>. DEFINE P == {<<"pushed", s>> : s \in {t \in Scheduler : Pushed(j, t)}}
              Q == {<<"queued", e>> : e \in {f \in jobs : f.job = j}}
              R == {<<"in hand", f>> : f \in {g \in {fun} : g # NoJob /\ g.job = j}}
  <2>1. Places(j) = P \cup Q \cup R
    BY DEF Places, Pushed
  <2>2. (P # {} => Q = {} /\ R = {}) /\ (Q # {} => R = {})
    <3>1. /\ P # {} => \E t \in Scheduler : Pushed(j, t)
          /\ Q # {} => \E e \in jobs : e.job = j
          /\ R # {} => InHand(j)
      BY DEF InHand
    <3>. QED
      BY <1>1, <3>1 DEF PlaceInv
  <2>3. /\ \A p, q \in P : p = q
        /\ \A p, q \in Q : p = q
        /\ \A p, q \in R : p = q
    BY <1>1 DEF PlaceInv
  <2>. QED
    BY <2>1, <2>2, <2>3
<1>2. PlaceInv => OnePlace
  BY <1>1 DEF OnePlace
<1>. QED
  BY <1>2, PlaceInvariance, PTL

\* The wrapper of schedule_repeat() keeps its job for good.
THEOREM RepeatsStay == ASSUME SchedulerAssumption PROVE Spec => []RepeatsForGood
<1>1. ASSUME PlaceInv, NEW j \in Repeating \cap used PROVE Places(j) # {}
  <2>1. (\E s \in Scheduler : Pushed(j, s)) \/ (\E e \in jobs : e.job = j) \/ InHand(j)
    <3>1. j \in Job
      BY Constants
    <3>. QED
      BY <1>1, <3>1 DEF PlaceInv
  <2>. QED
    BY <2>1 DEF Places, Pushed, InHand
<1>2. PlaceInv => RepeatsForGood
  BY <1>1 DEF RepeatsForGood
<1>. QED
  BY <1>2, PlaceInvariance, PTL

\* The two together: no job is doubled, and none that repeats is lost.
THEOREM JobsStay == ASSUME SchedulerAssumption PROVE Spec => []JobsKept
<1>1. OnePlace /\ RepeatsForGood => JobsKept
  BY DEF JobsKept
<1>. QED
  BY <1>1, JobsInOnePlace, RepeatsStay, PTL

=============================================================================

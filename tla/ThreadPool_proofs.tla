-------------------------- MODULE ThreadPool_proofs --------------------------
(***************************************************************************)
(* Proofs about ThreadPool, for any number of workers, producers and       *)
(* tasks.                                                                  *)
(*                                                                         *)
(* The results about stopping are about a pool that has as many workers as *)
(* one start() creates (OneLife): _running then counts the workers that    *)
(* have come up, and the invariant at the bottom of all of them, CountInv, *)
(* relates it to the workers that have not.                                *)
(*                                                                         *)
(* At the end, what is proved of the monitors the pool is built on, as     *)
(* MonitorUse uses them.                                                   *)
(***************************************************************************)
EXTENDS ThreadPool, FiniteSetTheorems, SequenceTheorems, TLAPS

OneLife == Cardinality(Worker) = NumThreads

\* The workers whose ++_running is still to come.
Pending == {w \in Worker : pc[w] \in {"none", "begin"}}

\* Every ++_running that has happened is in the count, or was wiped out by the store of
\* stop(), which leaves room for all those to come.
CountInv ==
    IF phase = "open" THEN running + Cardinality(Pending) = NumThreads
                      ELSE running + Cardinality(Pending) <= -1

\* When all workers have signalled, start() finds the flag or has been woken.
ReadyInv ==
    /\ Controller \in ready.waiting => ctl = "startBlocked"
    /\ phase = "open" /\ (ctl = "spawn" \/ Controller \in ready.waiting) =>
           \/ \E w \in Worker : pc[w] \in {"none", "begin", "signal"}
           \/ ctl = "spawn" /\ ready.flag

\* Inside stop() the store to _running has been made.
StopInv == ctl \in {"stopSignal", "join"} => phase = "closing"

LifeInv == TypeOK /\ StopInv /\ CountInv /\ ClosedIsQuiet /\ UpMeansAll

-----------------------------------------------------------------------------
(* Types *)

LEMMA MonitorSteps ==
    ASSUME NEW T, NEW m \in MonitorOf(T), NEW t \in T
    PROVE  /\ TakeFlag(m) \in MonitorOf(T)
           /\ TakeFlag(m).waiting = m.waiting
           /\ ~TakeFlag(m).flag
           /\ Block(m, t) \in MonitorOf(T)
           /\ Block(m, t).waiting = m.waiting \cup {t}
           /\ Leave(m, t) \in MonitorOf(T)
           /\ Leave(m, t).waiting = m.waiting \ {t}
BY DEF TakeFlag, Block, Leave, MonitorOf

LEMMA NotifyOneType ==
    ASSUME NEW T, NEW m \in MonitorOf(T), NEW n \in NotifyOne(m)
    PROVE  n \in MonitorOf(T) /\ n.waiting \subseteq m.waiting
BY DEF NotifyOne, Leave, MonitorOf

LEMMA RunType == ASSUME TypeOK, NEW w \in Worker, Run(w) PROVE TypeOK'
<1> USE DEF TypeOK, MonitorOf, WorkerPC, At, workerVars, controllerVars, producerVars
<1>1. CASE Announce(w) BY <1>1 DEF Announce
<1>2. CASE SignalReady(w) BY <1>2 DEF SignalReady, SignalAll
<1>3. CASE Loop(w) BY <1>3 DEF Loop
<1>4. CASE Wait(w) BY <1>4 DEF Wait, TakeFlag, Block
<1>5. CASE WaitReturns(w) BY <1>5 DEF WaitReturns
<1>6. CASE CheckWoken(w) BY <1>6 DEF CheckWoken
<1>7. ASSUME NEW p \in Producer, Dequeue(w, p) PROVE TypeOK'
  <2>1. queue[p] \in Seq(Task) /\ queue[p] # <<>> BY <1>7 DEF Dequeue
  <2>2. Head(queue[p]) \in Task /\ Tail(queue[p]) \in Seq(Task) BY <2>1
  <2> QED BY <1>7, <2>2 DEF Dequeue
<1>8. CASE FindEmpty(w) BY <1>8 DEF FindEmpty
<1>12. ASSUME NEW p \in Producer, ComePast(w, p) PROVE TypeOK' BY <1>12 DEF ComePast
<1>9. CASE BeginTask(w) BY <1>9 DEF BeginTask
<1>10. CASE DropTask(w) BY <1>10, NameAssumption DEF DropTask
<1>11. CASE FinishTask(w)
  <2>1. fun[w] \in Task BY <1>11 DEF FinishTask
  <2> QED BY <1>11, <2>1, NameAssumption DEF FinishTask
<1> QED BY <1>1, <1>2, <1>3, <1>4, <1>5, <1>6, <1>7, <1>8, <1>9, <1>10, <1>11, <1>12 DEF Run

LEMMA ProceedType == ASSUME TypeOK, Proceed PROVE TypeOK'
<1> USE DEF TypeOK, WorkerPC, ControllerPC, At, workerVars, controllerVars, producerVars
<1>1. ASSUME NEW w \in Worker, Spawn(w) PROVE TypeOK'
  <2>1. toSpawn' \in 0..NumThreads BY <1>1, SizeAssumption DEF Spawn
  <2> QED BY <1>1, <2>1 DEF Spawn
<1>2. CASE StartWaits
  <2>1. ready \in MonitorOf({Controller}) /\ Controller \in {Controller} OBVIOUS
  <2>2. /\ TakeFlag(ready) \in MonitorOf({Controller})
        /\ Block(ready, Controller) \in MonitorOf({Controller})
    BY <2>1, MonitorSteps
  <2>3. ready' \in MonitorOf({Controller}) BY <1>2, <2>2 DEF StartWaits
  <2> QED BY <1>2, <2>3 DEF StartWaits
<1>3. CASE StartNotified BY <1>3 DEF StartNotified
<1>4. CASE StartGivesUp
  <2>1. ready' \in MonitorOf({Controller}) BY <1>4, MonitorSteps DEF StartGivesUp
  <2> QED BY <1>4, <2>1 DEF StartGivesUp
<1>5. CASE StartReturns BY <1>5 DEF StartReturns
<1>6. CASE StopSignals BY <1>6 DEF StopSignals, SignalAll, MonitorOf
<1>7. CASE StopJoins BY <1>7 DEF StopJoins
<1> QED BY <1>1, <1>2, <1>3, <1>4, <1>5, <1>6, <1>7 DEF Proceed

LEMMA TypeInit == Init => TypeOK
BY NameAssumption, SizeAssumption
DEF Init, TypeOK, MonitorOf, NewMonitor, WorkerPC, ControllerPC

LEMMA TypeStep == ASSUME TypeOK, [Next]_vars PROVE TypeOK'
<1>1. CASE StartFindsRunning
  BY <1>1 DEF StartFindsRunning, TypeOK, workerVars, producerVars
<1>2. CASE StartBegins
  BY <1>2, SizeAssumption DEF StartBegins, TypeOK, ControllerPC, workerVars, producerVars
<1>3. CASE Stop
  BY <1>3, SizeAssumption DEF Stop, TypeOK, ControllerPC, workerVars, producerVars
<1>4. CASE Proceed BY <1>4, ProceedType
<1>5. ASSUME NEW p \in Producer, ExecuteNotifies(p) PROVE TypeOK'
  <2>1. work' \in MonitorOf(Worker) BY <1>5, NotifyOneType DEF ExecuteNotifies, TypeOK
  <2> QED BY <1>5, <2>1 DEF ExecuteNotifies, TypeOK, workerVars, controllerVars
<1>6. ASSUME NEW p \in Producer, NEW t \in Task, Execute(p, t) PROVE TypeOK'
  <2>1. queue' \in [Producer -> Seq(Task)] BY <1>6 DEF Execute, TypeOK
  <2> QED BY <1>6, <2>1 DEF Execute, TypeOK, workerVars, controllerVars
<1>7. ASSUME NEW w \in Worker, Run(w) PROVE TypeOK' BY <1>7, RunType
<1>8. ASSUME NEW w \in Worker, SpuriousWakeup(w) PROVE TypeOK'
  BY <1>8 DEF SpuriousWakeup, Leave, MonitorOf, TypeOK, workerVars, controllerVars, producerVars
<1>9. CASE UNCHANGED vars
  BY <1>9 DEF vars, TypeOK, workerVars, controllerVars, producerVars
<1> QED BY <1>1, <1>2, <1>3, <1>4, <1>5, <1>6, <1>7, <1>8, <1>9 DEF Next

\* The variables are always of their types, and a worker holds a task exactly while it is
\* between a successful try_dequeue() and the end of the call.
THEOREM TypeCorrect == Spec => []TypeOK
<1>1. TypeOK /\ [Next]_vars => TypeOK' BY TypeStep
<1> QED BY <1>1, TypeInit, PTL DEF Spec

-----------------------------------------------------------------------------
(* The life of a pool: start(), the count of ++_running, stop() *)

LEMMA PendingFinite ==
    ASSUME OneLife
    PROVE  /\ IsFiniteSet(Pending)
           /\ Cardinality(Pending) \in 0..NumThreads
           /\ \A w \in Worker : w \notin Pending => Cardinality(Pending) < NumThreads
<1>1. Pending \subseteq Worker /\ IsFiniteSet(Worker) BY SizeAssumption DEF Pending
<1>2. IsFiniteSet(Pending) /\ Cardinality(Pending) <= Cardinality(Worker) BY <1>1, FS_Subset
<1>3. Cardinality(Pending) \in Nat BY <1>2, FS_CardinalityType
<1>4. Cardinality(Pending) = Cardinality(Worker) => Pending = Worker BY <1>1, FS_Subset
<1> QED BY <1>2, <1>3, <1>4, SizeAssumption DEF OneLife

LEMMA RunMovesOne ==
    ASSUME TypeOK, NEW w \in Worker, Run(w)
    PROVE  /\ \A v \in Worker : v # w => pc'[v] = pc[v]
           /\ UNCHANGED controllerVars
BY DEF Run, Announce, SignalReady, Loop, Wait, WaitReturns, CheckWoken, Dequeue, ComePast,
       FindEmpty, BeginTask, DropTask, FinishTask, At, TypeOK

\* Only ++_running takes a worker out of Pending, and nothing puts one in.
LEMMA PendingRun ==
    ASSUME TypeOK, NEW w \in Worker, Run(w)
    PROVE  \/ Announce(w) /\ w \in Pending /\ Pending' = Pending \ {w}
           \/ Pending' = Pending /\ running' = running /\ w \notin Pending /\ ~Announce(w)
<1>1. CASE Announce(w)
  <2>1. pc[w] = "begin" /\ pc'[w] \in {"signal", "loop"} /\ \A v \in Worker \ {w} : pc'[v] = pc[v]
    BY <1>1 DEF Announce, At, TypeOK
  <2> QED BY <1>1, <2>1 DEF Pending
<1>2. CASE ~Announce(w)
  <2>1. /\ pc[w] \notin {"none", "begin"} /\ pc'[w] \notin {"none", "begin"}
        /\ \A v \in Worker \ {w} : pc'[v] = pc[v]
        /\ running' = running
    BY <1>2 DEF Run, SignalReady, Loop, Wait, WaitReturns, CheckWoken, Dequeue, ComePast, FindEmpty,
                BeginTask, DropTask, FinishTask, At, TypeOK
  <2> QED BY <1>2, <2>1 DEF Pending
<1> QED BY <1>1, <1>2

LEMMA CountFinal == ASSUME OneLife, TypeOK, CountInv PROVE StopIsFinal
BY PendingFinite DEF CountInv, StopIsFinal, TypeOK

LEMMA LifeRun ==
    ASSUME OneLife, LifeInv, NEW w \in Worker, Run(w)
    PROVE  CountInv' /\ ClosedIsQuiet' /\ UpMeansAll'
<1> USE DEF LifeInv
<1>1. phase' = phase /\ result' = result
  BY DEF Run, Announce, SignalReady, Loop, Wait, WaitReturns, CheckWoken, Dequeue, ComePast,
         FindEmpty, BeginTask, DropTask, FinishTask, controllerVars
<1>2. CountInv'
  <2>1. CASE Announce(w) /\ w \in Pending /\ Pending' = Pending \ {w}
    <3>1. Cardinality(Pending') = Cardinality(Pending) - 1
      BY <2>1, PendingFinite, FS_RemoveElement
    <3>2. running' = running + 1 BY <2>1 DEF Announce
    <3>3. Cardinality(Pending) \in Nat /\ NumThreads \in Nat /\ running \in Int
      BY PendingFinite, SizeAssumption DEF TypeOK
    <3>4. running' + Cardinality(Pending') = running + Cardinality(Pending)
      BY <3>1, <3>2, <3>3
    <3> QED BY <3>4, <1>1 DEF CountInv
  <2>2. CASE Pending' = Pending /\ running' = running
    BY <2>2, <1>1 DEF CountInv
  <2> QED BY <2>1, <2>2, PendingRun
<1>3. ClosedIsQuiet'
  <2> SUFFICES ASSUME phase = "closed", NEW v \in Worker
               PROVE  pc'[v] \in {"none", "begin", "signal", "loop", "exited"}
    BY <1>1 DEF ClosedIsQuiet
  <2>1. running <= 0 BY CountFinal DEF StopIsFinal
  <2>2. \A u \in Worker : pc[u] \in {"none", "begin", "signal", "loop", "exited"}
    BY DEF ClosedIsQuiet
  <2>3. v # w => pc'[v] = pc[v]
    BY RunMovesOne
  <2>4. pc'[w] \in {"signal", "loop", "exited"}
    <3>1. pc[w] \in {"none", "begin", "signal", "loop", "exited"} BY <2>2
    <3>2. Announce(w) \/ SignalReady(w) \/ Loop(w)
      BY <3>1 DEF Run, Wait, WaitReturns, CheckWoken, Dequeue, ComePast, FindEmpty,
                  BeginTask, DropTask, FinishTask, At
    <3>3. ~(running > 0) BY <2>1 DEF TypeOK
    <3> QED BY <3>2, <3>3 DEF Announce, SignalReady, Loop, At, TypeOK
  <2> QED BY <2>2, <2>3, <2>4
<1>4. UpMeansAll'
  <2>1. UpMeansAll <=> (result = "up" => Pending = {}) BY DEF UpMeansAll, Pending
  <2>2. UpMeansAll' <=> (result' = "up" => Pending' = {}) BY DEF UpMeansAll, Pending
  <2>3. Pending' = Pending \/ Pending' = Pending \ {w} BY PendingRun
  <2>4. UpMeansAll BY DEF LifeInv
  <2>5. CASE result = "up"
    <3>1. Pending = {} BY <2>1, <2>4, <2>5
    <3>2. Pending' = {} BY <2>3, <3>1
    <3> QED BY <2>2, <3>2
  <2>6. CASE result # "up" BY <1>1, <2>2, <2>6
  <2> QED BY <2>5, <2>6
<1> QED BY <1>2, <1>3, <1>4

LEMMA LifeProceed ==
    ASSUME OneLife, LifeInv, Proceed
    PROVE  CountInv' /\ ClosedIsQuiet' /\ UpMeansAll'
<1> USE DEF LifeInv
<1>1. ASSUME NEW w \in Worker, Spawn(w) PROVE CountInv' /\ ClosedIsQuiet' /\ UpMeansAll'
  <2>1. /\ pc[w] = "none" /\ pc'[w] = "begin" /\ \A v \in Worker \ {w} : pc'[v] = pc[v]
        /\ UNCHANGED <<running, phase, result>>
    BY <1>1 DEF Spawn, At, TypeOK
  <2>2. Pending' = Pending BY <2>1 DEF Pending
  <2> QED BY <2>1, <2>2 DEF CountInv, ClosedIsQuiet, UpMeansAll
<1>2. ASSUME StartWaits \/ StartNotified \/ StartGivesUp \/ StopSignals
      PROVE CountInv' /\ ClosedIsQuiet' /\ UpMeansAll'
  <2>1. UNCHANGED <<running, pc, phase, result>>
    BY <1>2 DEF StartWaits, StartNotified, StartGivesUp, StopSignals, workerVars
  <2> QED BY <2>1 DEF CountInv, ClosedIsQuiet, UpMeansAll, Pending
<1>3. CASE StartReturns
  <2>1. UNCHANGED <<running, pc, phase>> BY <1>3 DEF StartReturns, workerVars
  <2>2. result' = "up" => running = NumThreads BY <1>3 DEF StartReturns
  <2>3. running = NumThreads => Cardinality(Pending) = 0
    BY PendingFinite, SizeAssumption DEF CountInv, TypeOK
  <2>4. Cardinality(Pending) = 0 => Pending = {} BY PendingFinite, FS_EmptySet
  <2>5. UpMeansAll' BY <2>1, <2>2, <2>3, <2>4 DEF UpMeansAll, Pending
  <2> QED BY <2>1, <2>5 DEF CountInv, ClosedIsQuiet, Pending
<1>4. CASE StopJoins
  <2>1. UNCHANGED <<running, pc, result>> /\ phase' = "closed"
    BY <1>4 DEF StopJoins, workerVars
  <2>2. \A w \in Worker : pc[w] \in {"none", "exited"} BY <1>4 DEF StopJoins
  <2>3. phase # "open" BY <1>4 DEF StopJoins, StopInv
  <2> QED BY <2>1, <2>2, <2>3 DEF CountInv, ClosedIsQuiet, UpMeansAll, Pending
<1> QED BY <1>1, <1>2, <1>3, <1>4 DEF Proceed

LEMMA StopInvStep == ASSUME TypeOK, StopInv, [Next]_vars PROVE StopInv'
<1> USE DEF StopInv
<1>1. ASSUME NEW w \in Worker, Run(w) PROVE StopInv'
  <2>1. UNCHANGED <<ctl, phase>>
    BY <1>1 DEF Run, Announce, SignalReady, Loop, Wait, WaitReturns, CheckWoken, Dequeue,
                ComePast, FindEmpty, BeginTask, DropTask, FinishTask, controllerVars
  <2> QED BY <2>1
<1>2. CASE Proceed
  BY <1>2 DEF Proceed, Spawn, StartWaits, StartNotified, StartGivesUp, StartReturns,
              StopSignals, StopJoins
<1>3. CASE StartFindsRunning \/ StartBegins \/ Stop
  BY <1>3 DEF StartFindsRunning, StartBegins, Stop
<1>4. ASSUME NEW p \in Producer, ExecuteNotifies(p) \/ \E t \in Task : Execute(p, t)
      PROVE StopInv'
  BY <1>4 DEF ExecuteNotifies, Execute, controllerVars
<1>5. ASSUME NEW w \in Worker, SpuriousWakeup(w) PROVE StopInv'
  BY <1>5 DEF SpuriousWakeup, controllerVars
<1>6. CASE UNCHANGED vars BY <1>6 DEF vars, controllerVars
<1> QED BY <1>1, <1>2, <1>3, <1>4, <1>5, <1>6 DEF Next

LEMMA LifeInit == OneLife /\ Init => LifeInv
<1> SUFFICES ASSUME OneLife, Init PROVE LifeInv
  OBVIOUS
<1>1. TypeOK BY TypeInit
<1>2. Pending = Worker BY DEF Init, Pending
<1>3. CountInv BY <1>2, SizeAssumption DEF Init, CountInv, OneLife
<1> QED BY <1>1, <1>3 DEF Init, LifeInv, StopInv, ClosedIsQuiet, UpMeansAll

LEMMA LifeStep == ASSUME OneLife, LifeInv, [Next]_vars PROVE LifeInv'
<1>1. TypeOK' BY TypeStep DEF LifeInv
<1>2. StopInv' BY StopInvStep DEF LifeInv
<1>3. CountInv' /\ ClosedIsQuiet' /\ UpMeansAll'
  <2>1. CASE StartFindsRunning \/ StartBegins
    <3>1. UNCHANGED <<running, pc, phase>> /\ result' \in {"already", "none"}
      BY <2>1 DEF StartFindsRunning, StartBegins, workerVars
    <3> QED BY <3>1 DEF LifeInv, CountInv, ClosedIsQuiet, UpMeansAll, Pending
  <2>2. CASE Stop
    <3>1. running' = -1 - NumThreads /\ phase' = "closing" /\ UNCHANGED <<pc, result>>
      BY <2>2 DEF Stop, workerVars
    <3>2. Pending' = Pending BY <3>1 DEF Pending
    <3>3. CountInv' BY <3>1, <3>2, PendingFinite, SizeAssumption DEF CountInv
    <3> QED BY <3>1, <3>3 DEF LifeInv, ClosedIsQuiet, UpMeansAll
  <2>3. CASE Proceed BY <2>3, LifeProceed
  <2>4. ASSUME NEW w \in Worker, Run(w) PROVE CountInv' /\ ClosedIsQuiet' /\ UpMeansAll'
    BY <2>4, LifeRun
  <2>5. CASE \/ \E p \in Producer : ExecuteNotifies(p) \/ \E t \in Task : Execute(p, t)
             \/ \E w \in Worker : SpuriousWakeup(w)
             \/ UNCHANGED vars
    <3>1. UNCHANGED <<running, pc, phase, result>>
      BY <2>5 DEF ExecuteNotifies, Execute, SpuriousWakeup, vars, workerVars, controllerVars
    <3> QED BY <3>1 DEF LifeInv, CountInv, ClosedIsQuiet, UpMeansAll, Pending
  <2> QED BY <2>1, <2>2, <2>3, <2>4, <2>5 DEF Next
<1> QED BY <1>1, <1>2, <1>3 DEF LifeInv

LEMMA LifeInvariant == ASSUME OneLife PROVE Spec => []LifeInv
<1>1. Init => LifeInv BY LifeInit
<1>2. LifeInv /\ [Next]_vars => LifeInv' BY LifeStep
<1> QED BY <1>1, <1>2, PTL DEF Spec

\* Once stop() has stored -1 - _numThreads, no number of late ++_running brings _running
\* back above zero (thread_pool.h:70, 101).
THEOREM StopFinal == ASSUME OneLife PROVE Spec => []StopIsFinal
<1>1. LifeInv => StopIsFinal BY CountFinal DEF LifeInv
<1> QED BY <1>1, LifeInvariant, PTL

\* start() reports the pool up only with all workers past their ++_running (thread_pool.h:65).
THEOREM StartTruthful == ASSUME OneLife PROVE Spec => []UpMeansAll
<1>1. LifeInv => UpMeansAll BY DEF LifeInv
<1> QED BY <1>1, LifeInvariant, PTL

\* After stop() has returned no worker looks for, holds or runs a task (thread_pool.h:72-76).
THEOREM StopQuiet == ASSUME OneLife PROVE Spec => []ClosedIsQuiet
<1>1. LifeInv => ClosedIsQuiet BY DEF LifeInv
<1> QED BY <1>1, LifeInvariant, PTL

\* The three together: what start() and stop() say is true and stays true, for any number
\* of workers (thread_pool.h:59-77, 101).
THEOREM LifeTrue == ASSUME OneLife PROVE Spec => []LifeIsTrue
<1>1. LifeInv => LifeIsTrue BY CountFinal DEF LifeInv, LifeIsTrue
<1> QED BY <1>1, LifeInvariant, PTL

-----------------------------------------------------------------------------
(* start() is never stranded *)

LEMMA ReadyRun ==
    ASSUME OneLife, LifeInv, ReadyInv, NEW w \in Worker, Run(w)
    PROVE  ReadyInv'
<1> USE DEF LifeInv
<1>1. UNCHANGED <<ctl, phase>> BY RunMovesOne DEF controllerVars
<1>2. CASE SignalReady(w)
  <2>1. ready'.flag /\ ready'.waiting = {} BY <1>2 DEF SignalReady, SignalAll
  <2> QED BY <2>1, <1>1 DEF ReadyInv
<1>3. CASE ~SignalReady(w)
  <2>1. ready' = ready
    BY <1>3 DEF Run, Announce, Loop, Wait, WaitReturns, CheckWoken, Dequeue, ComePast, FindEmpty,
                BeginTask, DropTask, FinishTask
  <2> SUFFICES ASSUME phase = "open", ctl = "spawn" \/ Controller \in ready.waiting,
                      ~(ctl = "spawn" /\ ready.flag)
               PROVE  \E v \in Worker : pc'[v] \in {"none", "begin", "signal"}
    BY <1>1, <2>1 DEF ReadyInv
  <2>2. PICK u \in Worker : pc[u] \in {"none", "begin", "signal"} BY DEF ReadyInv
  <2>3. CASE u # w BY <2>2, <2>3, RunMovesOne
  <2>4. CASE u = w
    <3>1. Announce(w)
      BY <1>3, <2>2, <2>4
      DEF Run, Loop, Wait, WaitReturns, CheckWoken, Dequeue, ComePast, FindEmpty,
          BeginTask, DropTask, FinishTask, At
    <3>2. Cardinality(Pending) \in Nat /\ NumThreads \in Nat /\ running \in Int
      BY PendingFinite, SizeAssumption DEF TypeOK
    <3>3. CASE Pending = {w}
      <4>1. Cardinality(Pending) = 1 BY <3>3, FS_Singleton
      <4>2. running + 1 = NumThreads BY <4>1, <3>2 DEF CountInv
      <4>3. pc'[w] = "signal" BY <3>1, <4>2 DEF Announce, At, TypeOK
      <4> QED BY <4>3
    <3>4. CASE Pending # {w}
      <4>1. w \in Pending BY <3>1, PendingRun
      <4>2. PICK v \in Pending : v # w BY <3>4, <4>1
      <4>3. v \in Worker /\ pc[v] \in {"none", "begin"} BY <4>2 DEF Pending
      <4> QED BY <4>2, <4>3, RunMovesOne
    <3> QED BY <3>3, <3>4
  <2> QED BY <2>3, <2>4
<1> QED BY <1>2, <1>3

LEMMA ReadyStep == ASSUME OneLife, LifeInv, ReadyInv, [Next]_vars PROVE ReadyInv'
<1> USE DEF LifeInv
<1>1. ASSUME NEW w \in Worker, Run(w) PROVE ReadyInv' BY <1>1, ReadyRun
<1>2. CASE StartBegins
  <2>1. PICK w \in Worker : pc[w] = "none"
    <3>1. Cardinality({w \in Worker : pc[w] = "none"}) # 0
      BY <1>2, SizeAssumption DEF StartBegins
    <3> QED BY <3>1, FS_EmptySet
  <2>2. ctl = "idle" /\ ctl' = "spawn" /\ UNCHANGED <<ready, pc, phase>>
    BY <1>2 DEF StartBegins, workerVars
  <2> QED BY <2>1, <2>2 DEF ReadyInv
<1>3. ASSUME NEW w \in Worker, Spawn(w) PROVE ReadyInv'
  <2>1. pc'[w] = "begin" /\ ctl = "spawn" /\ UNCHANGED <<ctl, phase, ready>>
    BY <1>3 DEF Spawn, At, TypeOK
  <2> QED BY <2>1 DEF ReadyInv
<1>4. CASE StartWaits
  <2>1. ready \in MonitorOf({Controller}) /\ Controller \in {Controller} BY DEF TypeOK
  <2>2. /\ TakeFlag(ready).waiting = ready.waiting
        /\ Block(ready, Controller).waiting = ready.waiting \cup {Controller}
    BY <2>1, MonitorSteps
  <2>3. Controller \notin ready.waiting /\ UNCHANGED <<pc, phase>>
    BY <1>4 DEF StartWaits, ReadyInv, workerVars
  <2>4. CASE ready.flag
    BY <1>4, <2>2, <2>3, <2>4 DEF StartWaits, ReadyInv
  <2>5. CASE ~ready.flag
    <3>1. phase = "open" => \E w \in Worker : pc[w] \in {"none", "begin", "signal"}
      BY <1>4, <2>5 DEF StartWaits, ReadyInv
    <3>2. ctl' = "startBlocked" BY <1>4, <2>5 DEF StartWaits
    <3> QED BY <2>3, <3>1, <3>2 DEF ReadyInv
  <2> QED BY <2>4, <2>5
<1>5. CASE StartNotified
  BY <1>5 DEF StartNotified, ReadyInv, workerVars
<1>6. CASE StartGivesUp
  <2>1. ready \in MonitorOf({Controller}) /\ Controller \in {Controller} BY DEF TypeOK
  <2>2. Leave(ready, Controller).waiting = ready.waiting \ {Controller}
    BY <2>1, MonitorSteps
  <2>3. ready' = Leave(ready, Controller) /\ ctl' = "startCheck" BY <1>6 DEF StartGivesUp
  <2> QED BY <2>2, <2>3 DEF ReadyInv
<1>7. CASE StartReturns \/ StopSignals \/ StopJoins \/ StartFindsRunning \/ Stop
  <2>1. ctl # "startBlocked" /\ ctl' \notin {"spawn", "startBlocked"} /\ UNCHANGED ready
    BY <1>7 DEF StartReturns, StopSignals, StopJoins, StartFindsRunning, Stop
  <2> QED BY <2>1 DEF ReadyInv
<1>8. CASE \/ \E p \in Producer : ExecuteNotifies(p) \/ \E t \in Task : Execute(p, t)
           \/ \E w \in Worker : SpuriousWakeup(w)
           \/ UNCHANGED vars
  <2>1. UNCHANGED <<ready, ctl, phase, pc>>
    BY <1>8 DEF ExecuteNotifies, Execute, SpuriousWakeup, vars, workerVars, controllerVars
  <2> QED BY <2>1 DEF ReadyInv
<1> QED BY <1>1, <1>2, <1>3, <1>4, <1>5, <1>6, <1>7, <1>8 DEF Next, Proceed

\* start() sits in wait_for only while some worker has yet to signal that all are up: the
\* flag catches a signal that comes before the wait (thread_pool.h:64, 101-102).
THEOREM StartNeverStranded == ASSUME OneLife PROVE Spec => []StartNotStranded
<1>1. Init => ReadyInv BY DEF Init, ReadyInv, NewMonitor
<1>2. LifeInv /\ ReadyInv /\ [Next]_vars => ReadyInv' BY ReadyStep
<1>3. ReadyInv => StartNotStranded BY DEF ReadyInv, StartNotStranded
<1> QED BY <1>1, <1>2, <1>3, LifeInvariant, PTL DEF Spec

-----------------------------------------------------------------------------
(***************************************************************************)
(* What the pool does with the tasks: none is in two places, and a pool of *)
(* one life is a TaskExecutor.                                             *)
(***************************************************************************)

\* A task that is anywhere was submitted, and it is in one place.
TaskInv ==
    /\ OnePlace
    /\ \A t \in Task : InQueue(t) \/ Held(t) \/ t \in ran => t \in submitted

\* The steps that move no task.
Still == UNCHANGED <<queue, fun, ran, submitted>>

LEMMA StillPlaces ==
    ASSUME Still
    PROVE  \A t \in Task : (InQueue(t)' <=> InQueue(t)) /\ (Held(t)' <=> Held(t))
BY DEF Still, InQueue, Held

\* What execute() does to the queue.
LEMMA ExecutePlaces ==
    ASSUME TypeOK, NEW p \in Producer, NEW t \in Task, Execute(p, t)
    PROVE  /\ \A q \in Producer : \A i \in DOMAIN queue'[q] :
                  \/ i \in DOMAIN queue[q] /\ queue'[q][i] = queue[q][i]
                  \/ q = p /\ i = Len(queue[p]) + 1 /\ queue'[q][i] = t
           /\ \A u \in Task : (InQueue(u)' <=> InQueue(u) \/ u = t) /\ (Held(u)' <=> Held(u))
<1>1. queue' = [queue EXCEPT ![p] = Append(queue[p], t)] /\ UNCHANGED fun
  BY DEF Execute, workerVars
<1>2. /\ \A q \in Producer : q # p => queue'[q] = queue[q]
      /\ queue'[p] = Append(queue[p], t)
  BY <1>1 DEF TypeOK
<1>3. /\ queue[p] \in Seq(Task) /\ Len(queue[p]) \in Nat
      /\ DOMAIN queue[p] = 1..Len(queue[p])
      /\ DOMAIN queue'[p] = 1..(Len(queue[p]) + 1)
      /\ \A i \in 1..Len(queue[p]) : queue'[p][i] = queue[p][i]
      /\ queue'[p][Len(queue[p]) + 1] = t
  BY <1>2 DEF TypeOK
<1>4. \A q \in Producer : \A i \in DOMAIN queue'[q] :
          \/ i \in DOMAIN queue[q] /\ queue'[q][i] = queue[q][i]
          \/ q = p /\ i = Len(queue[p]) + 1 /\ queue'[q][i] = t
  BY <1>2, <1>3
<1>5. \A q \in Producer : \A i \in DOMAIN queue[q] :
          i \in DOMAIN queue'[q] /\ queue'[q][i] = queue[q][i]
  BY <1>2, <1>3
<1>6. InQueue(t)'
  <2>1. Len(queue[p]) + 1 \in DOMAIN queue'[p] BY <1>3
  <2> QED BY <2>1, <1>3 DEF InQueue
<1>7. \A u \in Task : InQueue(u)' <=> InQueue(u) \/ u = t
  BY <1>4, <1>5, <1>6 DEF InQueue
<1> QED BY <1>1, <1>4, <1>7 DEF Held

\* What a successful try_dequeue() does to it.
LEMMA DequeuePlaces ==
    ASSUME TypeOK, OnePlace, NEW p \in Producer, NEW w \in Worker, Dequeue(w, p)
    PROVE  LET h == Head(queue[p])
               From(q, i) == IF q = p THEN i + 1 ELSE i
           IN  /\ h \in Task /\ InQueue(h) /\ fun[w] \notin Task
               /\ \A q \in Producer : \A i \in DOMAIN queue'[q] :
                      /\ i \in Nat
                      /\ From(q, i) \in DOMAIN queue[q]
                      /\ queue'[q][i] = queue[q][From(q, i)]
               /\ \A u \in Task : InQueue(u)' <=> InQueue(u) /\ u # h
               /\ \A u \in Task : Held(u)' <=> Held(u) \/ u = h
               /\ \A v \in Worker : fun'[v] = IF v = w THEN h ELSE fun[v]
<1> DEFINE h == Head(queue[p])
           From(q, i) == IF q = p THEN i + 1 ELSE i
<1>1. /\ queue[p] \in Seq(Task) /\ queue[p] # <<>> /\ pc[w] = "dequeue"
      /\ queue' = [queue EXCEPT ![p] = Tail(queue[p])]
      /\ fun' = [fun EXCEPT ![w] = h]
  BY DEF Dequeue, TypeOK, At
<1>2. /\ h \in Task /\ h = queue[p][1]
      /\ Len(queue[p]) \in Nat \ {0}
      /\ DOMAIN queue[p] = 1..Len(queue[p])
      /\ Tail(queue[p]) \in Seq(Task)
      /\ Len(Tail(queue[p])) = Len(queue[p]) - 1
      /\ \A i \in 1..(Len(queue[p]) - 1) : Tail(queue[p])[i] = queue[p][i + 1]
  BY <1>1, HeadTailProperties, EmptySeq, LenProperties
<1>3. /\ \A q \in Producer : q # p => queue'[q] = queue[q]
      /\ queue'[p] = Tail(queue[p])
      /\ DOMAIN queue'[p] = 1..(Len(queue[p]) - 1)
  BY <1>1, <1>2, LenProperties DEF TypeOK
<1>4. InQueue(h)
  <2>1. 1 \in DOMAIN queue[p] BY <1>2
  <2> QED BY <1>2, <2>1 DEF InQueue
<1>5. fun[w] \notin Task BY <1>1 DEF TypeOK
<1>6. \A q \in Producer : \A i \in DOMAIN queue[q] : i \in Nat
  <2> SUFFICES ASSUME NEW q \in Producer, NEW i \in DOMAIN queue[q] PROVE i \in Nat
    OBVIOUS
  <2>1. queue[q] \in Seq(Task) BY DEF TypeOK
  <2>2. DOMAIN queue[q] = 1..Len(queue[q]) /\ Len(queue[q]) \in Nat BY <2>1, LenProperties
  <2> QED BY <2>2
<1>7. ASSUME NEW q \in Producer, NEW i \in DOMAIN queue'[q]
      PROVE  i \in Nat /\ From(q, i) \in DOMAIN queue[q] /\ queue'[q][i] = queue[q][From(q, i)]
  <2>1. CASE q = p BY <2>1, <1>2, <1>3
  <2>2. CASE q # p BY <2>2, <1>3, <1>6
  <2> QED BY <2>1, <2>2
<1>8. ASSUME NEW q \in Producer, NEW i \in DOMAIN queue[q], queue[q][i] # h
      PROVE  \E j \in DOMAIN queue'[q] : queue'[q][j] = queue[q][i]
  <2>1. CASE q = p
    <3>1. i \in 1..Len(queue[p]) /\ i # 1 BY <2>1, <1>2, <1>8
    <3>2. i - 1 \in 1..(Len(queue[p]) - 1) /\ (i - 1) + 1 = i BY <3>1, <1>2
    <3>3. i - 1 \in DOMAIN queue'[p] /\ queue'[p][i - 1] = queue[p][i] BY <3>2, <1>2, <1>3
    <3> QED BY <3>3, <2>1
  <2>2. CASE q # p BY <2>2, <1>3
  <2> QED BY <2>1, <2>2
<1>9. ASSUME NEW q \in Producer, NEW i \in DOMAIN queue'[q] PROVE queue'[q][i] # h
  <2>1. From(q, i) \in DOMAIN queue[q] /\ queue'[q][i] = queue[q][From(q, i)] /\ i \in Nat
    BY <1>7
  <2>2. 1 \in DOMAIN queue[p] BY <1>2
  <2>3. queue[q][From(q, i)] = queue[p][1] => q = p /\ From(q, i) = 1
    BY <2>1, <2>2 DEF OnePlace
  <2>4. CASE q = p
    <3>1. CASE i = 0 BY <3>1, <2>4, <1>3, <1>2
    <3>2. CASE i # 0 BY <3>2, <2>1, <2>3, <2>4, <1>2
    <3> QED BY <3>1, <3>2
  <2>5. CASE q # p BY <2>1, <2>3, <2>5, <1>2
  <2> QED BY <2>4, <2>5
<1>10. \A u \in Task : InQueue(u)' <=> InQueue(u) /\ u # h
  <2> SUFFICES ASSUME NEW u \in Task PROVE InQueue(u)' <=> InQueue(u) /\ u # h
    OBVIOUS
  <2>1. InQueue(u)' => InQueue(u) /\ u # h BY <1>7, <1>9 DEF InQueue
  <2>2. InQueue(u) /\ u # h => InQueue(u)' BY <1>8 DEF InQueue
  <2> QED BY <2>1, <2>2
<1>11. \A v \in Worker : fun'[v] = IF v = w THEN h ELSE fun[v] BY <1>1 DEF TypeOK
<1>12. \A u \in Task : Held(u)' <=> Held(u) \/ u = h BY <1>11, <1>5 DEF Held
<1> QED BY <1>2, <1>4, <1>5, <1>7, <1>10, <1>11, <1>12

\* What the end of a call, or of the local variable, does to the task.
LEMMA ReleasePlaces ==
    ASSUME TypeOK, OnePlace, NEW w \in Worker, DropTask(w) \/ FinishTask(w)
    PROVE  /\ fun[w] \in Task /\ Held(fun[w])
           /\ \A v \in Worker : fun'[v] = IF v = w THEN NoTask ELSE fun[v]
           /\ \A u \in Task : InQueue(u)' <=> InQueue(u)
           /\ \A u \in Task : Held(u)' <=> Held(u) /\ u # fun[w]
<1>1. /\ fun[w] \in Task
      /\ \A v \in Worker : fun'[v] = IF v = w THEN NoTask ELSE fun[v]
      /\ queue' = queue
  BY DEF DropTask, FinishTask, At, TypeOK
<1>2. Held(fun[w]) BY DEF Held
<1>3. \A u \in Task : InQueue(u)' <=> InQueue(u) BY <1>1 DEF InQueue
<1>4. \A v \in Worker : fun[v] = fun[w] => v = w BY <1>1, NameAssumption DEF OnePlace
<1>5. \A u \in Task : Held(u)' <=> Held(u) /\ u # fun[w] BY <1>1, <1>4, NameAssumption DEF Held
<1> QED BY <1>1, <1>2, <1>3, <1>5

\* Every other step moves no task.
LEMMA OtherStepsStill ==
    ASSUME TypeOK, [Next]_vars,
           ~ \E p \in Producer, t \in Task : Execute(p, t),
           ~ \E w \in Worker, p \in Producer : Dequeue(w, p),
           ~ \E w \in Worker : DropTask(w) \/ FinishTask(w)
    PROVE  Still
<1>1. ASSUME NEW w \in Worker, Run(w) PROVE Still
  <2>1. \/ Announce(w) \/ SignalReady(w) \/ Loop(w) \/ Wait(w) \/ WaitReturns(w)
        \/ CheckWoken(w) \/ (\E p \in Producer : ComePast(w, p)) \/ FindEmpty(w) \/ BeginTask(w)
    BY <1>1 DEF Run
  <2> QED
    BY <2>1 DEF Announce, SignalReady, Loop, Wait, WaitReturns, CheckWoken, ComePast, FindEmpty,
                BeginTask, Still, producerVars
<1>2. CASE Proceed
  BY <1>2 DEF Proceed, Spawn, StartWaits, StartNotified, StartGivesUp, StartReturns,
              StopSignals, StopJoins, Still, workerVars, producerVars
<1>3. CASE StartFindsRunning \/ StartBegins \/ Stop
  BY <1>3 DEF StartFindsRunning, StartBegins, Stop, Still, workerVars, producerVars
<1>4. ASSUME NEW p \in Producer, ExecuteNotifies(p) PROVE Still
  BY <1>4 DEF ExecuteNotifies, Still, workerVars
<1>5. ASSUME NEW w \in Worker, SpuriousWakeup(w) PROVE Still
  BY <1>5 DEF SpuriousWakeup, Still, workerVars, producerVars
<1>6. CASE UNCHANGED vars BY <1>6 DEF vars, workerVars, producerVars, Still
<1> QED BY <1>1, <1>2, <1>3, <1>4, <1>5, <1>6 DEF Next

LEMMA TaskStep == ASSUME TypeOK, TaskInv, [Next]_vars PROVE TaskInv'
<1> USE DEF TaskInv
<1>1. ASSUME NEW p \in Producer, NEW t \in Task, Execute(p, t) PROVE TaskInv'
  <2>1. /\ submitted' = submitted \cup {t} /\ UNCHANGED <<fun, ran>>
        /\ t \notin submitted
    BY <1>1 DEF Execute, workerVars
  <2>2. ~InQueue(t) /\ ~Held(t) /\ t \notin ran BY <2>1
  <2>3. \A u \in Task : (InQueue(u)' <=> InQueue(u) \/ u = t) /\ (Held(u)' <=> Held(u))
    BY <1>1, ExecutePlaces
  <2>4. ASSUME NEW q \in Producer, NEW r \in Producer,
               NEW i \in DOMAIN queue'[q], NEW j \in DOMAIN queue'[r],
               queue'[q][i] = queue'[r][j]
        PROVE  q = r /\ i = j
    <3>1. \/ i \in DOMAIN queue[q] /\ queue'[q][i] = queue[q][i]
          \/ q = p /\ i = Len(queue[p]) + 1 /\ queue'[q][i] = t
      BY <1>1, ExecutePlaces
    <3>2. \/ j \in DOMAIN queue[r] /\ queue'[r][j] = queue[r][j]
          \/ r = p /\ j = Len(queue[p]) + 1 /\ queue'[r][j] = t
      BY <1>1, ExecutePlaces
    <3>3. \A s \in Producer : \A k \in DOMAIN queue[s] : queue[s][k] # t
      BY <2>2 DEF InQueue
    <3> QED BY <2>4, <3>1, <3>2, <3>3 DEF OnePlace
  <2>5. OnePlace' BY <2>1, <2>2, <2>3, <2>4 DEF OnePlace, TypeOK
  <2> QED BY <2>1, <2>3, <2>5
<1>2. ASSUME NEW p \in Producer, NEW w \in Worker, Dequeue(w, p) PROVE TaskInv'
  <2> DEFINE h == Head(queue[p])
             From(q, i) == IF q = p THEN i + 1 ELSE i
  <2>1. UNCHANGED <<ran, submitted>> BY <1>2 DEF Dequeue, producerVars
  <2>2. /\ h \in Task /\ InQueue(h) /\ fun[w] \notin Task
        /\ \A q \in Producer : \A i \in DOMAIN queue'[q] :
               /\ i \in Nat
               /\ From(q, i) \in DOMAIN queue[q]
               /\ queue'[q][i] = queue[q][From(q, i)]
        /\ \A u \in Task : InQueue(u)' <=> InQueue(u) /\ u # h
        /\ \A u \in Task : Held(u)' <=> Held(u) \/ u = h
        /\ \A v \in Worker : fun'[v] = IF v = w THEN h ELSE fun[v]
    BY <1>2, DequeuePlaces
  <2>3. ASSUME NEW q \in Producer, NEW r \in Producer,
               NEW i \in DOMAIN queue'[q], NEW j \in DOMAIN queue'[r],
               queue'[q][i] = queue'[r][j]
        PROVE  q = r /\ i = j
    <3>1. q = r /\ From(q, i) = From(r, j) BY <2>2, <2>3 DEF OnePlace
    <3>2. i \in Nat /\ j \in Nat BY <2>2
    <3> QED BY <3>1, <3>2
  <2>4. ~Held(h) /\ h \notin ran BY <2>2 DEF OnePlace
  <2>5. \A v, u \in Worker : fun'[v] = fun'[u] /\ fun'[v] # NoTask => v = u
    BY <2>2, <2>4 DEF OnePlace, Held
  <2>6. \A t \in Task : Held(t)' => ~InQueue(t)' BY <2>2 DEF OnePlace
  <2>7. \A t \in ran' : ~InQueue(t)' /\ ~Held(t)' BY <2>1, <2>2, <2>4 DEF OnePlace, TypeOK
  <2>8. OnePlace' BY <2>3, <2>5, <2>6, <2>7 DEF OnePlace
  <2> QED BY <2>1, <2>2, <2>8
<1>3. ASSUME NEW w \in Worker, DropTask(w) \/ FinishTask(w) PROVE TaskInv'
  <2>1. UNCHANGED <<queue, submitted>> /\ (ran' = ran \/ ran' = ran \cup {fun[w]})
    BY <1>3 DEF DropTask, FinishTask, producerVars
  <2>2. /\ fun[w] \in Task /\ Held(fun[w])
        /\ \A v \in Worker : fun'[v] = IF v = w THEN NoTask ELSE fun[v]
        /\ \A u \in Task : InQueue(u)' <=> InQueue(u)
        /\ \A u \in Task : Held(u)' <=> Held(u) /\ u # fun[w]
    BY <1>3, ReleasePlaces
  <2>3. \A v, u \in Worker : fun'[v] = fun'[u] /\ fun'[v] # NoTask => v = u
    BY <2>2 DEF OnePlace
  <2>4. \A t \in ran' : ~InQueue(t)' /\ ~Held(t)' BY <2>1, <2>2 DEF OnePlace, TypeOK
  <2>5. OnePlace' BY <2>1, <2>2, <2>3, <2>4 DEF OnePlace
  <2> QED BY <2>1, <2>2, <2>5
<1>4. CASE Still
  <2>1. \A t \in Task : (InQueue(t)' <=> InQueue(t)) /\ (Held(t)' <=> Held(t))
    BY <1>4, StillPlaces
  <2>2. OnePlace' BY <1>4, <2>1 DEF OnePlace, Still, TypeOK
  <2> QED BY <1>4, <2>1, <2>2 DEF Still
<1> QED BY <1>1, <1>2, <1>3, <1>4, OtherStepsStill

LEMMA TaskInvariant == Spec => []TaskInv
<1>1. Init => TaskInv
  <2> SUFFICES ASSUME Init PROVE TaskInv
    OBVIOUS
  <2>1. \A p \in Producer : DOMAIN queue[p] = {} BY DEF Init
  <2>2. \A w \in Worker : fun[w] = NoTask BY DEF Init
  <2> QED BY <2>1, <2>2, NameAssumption DEF Init, TaskInv, OnePlace, InQueue, Held
<1>2. TypeOK /\ TaskInv /\ [Next]_vars => TaskInv' BY TaskStep
<1> QED BY <1>1, <1>2, TypeCorrect, PTL DEF Spec

\* No task is ever in two places: two positions of the queue, the queue and a worker, two
\* workers, or anywhere after it has run (thread_pool.h:80-84, 110-115).
THEOREM TasksInOnePlace == Spec => []OnePlace
<1>1. TaskInv => OnePlace BY DEF TaskInv
<1> QED BY <1>1, TaskInvariant, PTL

-----------------------------------------------------------------------------
(* No search comes past a task that was there before it *)

LEMMA AheadStep ==
    ASSUME TypeOK, TaskInv, [Next]_vars, NEW t \in Task, Ahead(t), InQueue(t)'
    PROVE  Ahead(t)'
<1>1. PICK p \in Producer : /\ \E i \in DOMAIN queue[p] : queue[p][i] = t
                            /\ \A w \in Worker : p \notin passed[w]
  BY DEF Ahead
<1>2. PICK i \in DOMAIN queue[p] : queue[p][i] = t
  BY <1>1
<1>3. SUFFICES /\ \E j \in DOMAIN queue'[p] : queue'[p][j] = t
               /\ \A w \in Worker : p \notin passed'[w]
  BY DEF Ahead
<1>4. ASSUME NEW q \in Producer, NEW u \in Task, Execute(q, u)
      PROVE  /\ \E j \in DOMAIN queue'[p] : queue'[p][j] = t
             /\ passed' = passed
  <2>1. passed' = passed /\ queue' = [queue EXCEPT ![q] = Append(queue[q], u)]
    BY <1>4 DEF Execute, workerVars
  <2>2. CASE q = p
    <3>1. queue'[p] = Append(queue[p], u) /\ queue[p] \in Seq(Task)
      BY <2>1, <2>2 DEF TypeOK
    <3>2. i \in DOMAIN queue'[p] /\ queue'[p][i] = queue[p][i]
      BY <3>1
    <3> QED BY <1>2, <2>1, <3>2
  <2>3. CASE q # p
    <3>1. queue'[p] = queue[p] BY <2>1, <2>3 DEF TypeOK
    <3> QED BY <1>2, <2>1, <3>1
  <2> QED BY <2>2, <2>3
<1>5. ASSUME NEW w \in Worker, NEW q \in Producer, Dequeue(w, q)
      PROVE  /\ \E j \in DOMAIN queue'[p] : queue'[p][j] = t
             /\ passed' = [passed EXCEPT ![w] = {}]
  <2> DEFINE From(r, j) == IF r = q THEN j + 1 ELSE j
  <2>1. PICK r \in Producer : \E j \in DOMAIN queue'[r] : queue'[r][j] = t
    BY DEF InQueue
  <2>2. PICK j \in DOMAIN queue'[r] : queue'[r][j] = t
    BY <2>1
  <2>3. From(r, j) \in DOMAIN queue[r] /\ queue[r][From(r, j)] = t
    BY <1>5, <2>2, DequeuePlaces DEF TaskInv
  <2>4. r = p BY <1>2, <2>3 DEF TaskInv, OnePlace
  <2> QED BY <1>5, <2>2, <2>4 DEF Dequeue
<1>6. ASSUME NEW w \in Worker, NEW q \in Producer, ComePast(w, q)
      PROVE  queue' = queue /\ passed' = [passed EXCEPT ![w] = passed[w] \cup {q}] /\ q # p
  <2>1. queue[p] # <<>> BY <1>2
  <2>2. ~LooksEmpty(w, p) BY <1>1, <2>1 DEF LooksEmpty
  <2> QED BY <1>6, <2>2 DEF ComePast
<1>7. ASSUME NEW w \in Worker, FindEmpty(w)
      PROVE  queue' = queue /\ passed' = [passed EXCEPT ![w] = {}]
  BY <1>7 DEF FindEmpty
<1>8. \/ \E q \in Producer, u \in Task : Execute(q, u)
      \/ \E w \in Worker : FindEmpty(w) \/ \E q \in Producer : Dequeue(w, q) \/ ComePast(w, q)
      \/ UNCHANGED <<queue, passed>>
  <2>1. ASSUME NEW w \in Worker, Run(w), ~FindEmpty(w),
               ~ \E q \in Producer : Dequeue(w, q) \/ ComePast(w, q)
        PROVE  UNCHANGED <<queue, passed>>
    <3>1. \/ Announce(w) \/ SignalReady(w) \/ Loop(w) \/ Wait(w) \/ WaitReturns(w)
          \/ CheckWoken(w) \/ BeginTask(w) \/ DropTask(w) \/ FinishTask(w)
      BY <2>1 DEF Run
    <3> QED
      BY <3>1 DEF Announce, SignalReady, Loop, Wait, WaitReturns, CheckWoken, BeginTask, DropTask,
                  FinishTask
  <2>2. CASE Proceed
    BY <2>2 DEF Proceed, Spawn, StartWaits, StartNotified, StartGivesUp, StartReturns,
                StopSignals, StopJoins, workerVars
  <2>3. CASE StartFindsRunning \/ StartBegins \/ Stop
    BY <2>3 DEF StartFindsRunning, StartBegins, Stop, workerVars
  <2>4. ASSUME NEW q \in Producer, ExecuteNotifies(q) PROVE UNCHANGED <<queue, passed>>
    BY <2>4 DEF ExecuteNotifies, workerVars
  <2>5. ASSUME NEW w \in Worker, SpuriousWakeup(w) PROVE UNCHANGED <<queue, passed>>
    BY <2>5 DEF SpuriousWakeup, workerVars
  <2>6. CASE UNCHANGED vars BY <2>6 DEF vars, workerVars
  <2> QED BY <2>1, <2>2, <2>3, <2>4, <2>5, <2>6 DEF Next
<1>9. CASE UNCHANGED <<queue, passed>> BY <1>1, <1>9
<1>10. ASSUME NEW q \in Producer, NEW u \in Task, Execute(q, u)
       PROVE  /\ \E j \in DOMAIN queue'[p] : queue'[p][j] = t
              /\ \A w \in Worker : p \notin passed'[w]
  BY <1>1, <1>4, <1>10
<1>11. ASSUME NEW w \in Worker,
              FindEmpty(w) \/ \E q \in Producer : Dequeue(w, q) \/ ComePast(w, q)
       PROVE  /\ \E j \in DOMAIN queue'[p] : queue'[p][j] = t
              /\ \A v \in Worker : p \notin passed'[v]
  <2>1. \E j \in DOMAIN queue'[p] : queue'[p][j] = t
    BY <1>2, <1>5, <1>6, <1>7, <1>11
  <2>2. PICK new \in SUBSET Producer : p \notin new /\ passed' = [passed EXCEPT ![w] = new]
    <3>1. CASE \E q \in Producer : ComePast(w, q)
      <4>1. PICK q \in Producer : ComePast(w, q) BY <3>1
      <4>2. passed[w] \cup {q} \in SUBSET Producer /\ p \notin passed[w] \cup {q}
        BY <1>1, <1>6, <4>1 DEF TypeOK
      <4> QED BY <1>6, <4>1, <4>2
    <3>2. CASE FindEmpty(w) \/ \E q \in Producer : Dequeue(w, q)
      BY <1>5, <1>7, <3>2
    <3> QED BY <1>11, <3>1, <3>2
  <2>3. \A v \in Worker : passed'[v] \in {passed[v], new}
    BY <2>2 DEF TypeOK
  <2> QED BY <1>1, <2>1, <2>2, <2>3
<1> QED BY <1>8, <1>9, <1>10, <1>11

\* A task that is queued where no search under way has been is missed by none: no
\* try_dequeue() comes past its producer, one begun later included, until it is taken
\* (thread_pool.h:110, concurrentqueue.h:1085-1121).
THEOREM NoneComesPast ==
    ASSUME NEW t \in Task
    PROVE  Spec => [][Ahead(t) => Ahead(t)' \/ ~InQueue(t)']_vars
<1>1. TypeOK /\ TaskInv /\ [Next]_vars => [Ahead(t) => Ahead(t)' \/ ~InQueue(t)']_vars
  BY AheadStep
<1> QED BY <1>1, TypeCorrect, TaskInvariant, PTL DEF Spec

-----------------------------------------------------------------------------
(* A pool of one life is a TaskExecutor *)

LEMMA SameStage ==
    ASSUME NEW t \in Task,
           InQueue(t)' <=> InQueue(t), Held(t)' <=> Held(t), Executing(t)' <=> Executing(t),
           t \in ran' <=> t \in ran, t \in submitted' <=> t \in submitted
    PROVE  StageOf(t)' = StageOf(t)
BY DEF StageOf

LEMMA MapUnchanged ==
    ASSUME \A t \in Task : StageOf(t)' = StageOf(t), phase' = phase
    PROVE  UNCHANGED Executor!vars
BY DEF Executor!vars

LEMMA MapMove ==
    ASSUME NEW t \in Task, NEW from, NEW to, StageOf(t) = from, StageOf(t)' = to,
           \A u \in Task : u # t => StageOf(u)' = StageOf(u), phase' = phase
    PROVE  Executor!Move(t, from, to)
<1>1. [u \in Task |-> StageOf(u)]' = [[u \in Task |-> StageOf(u)] EXCEPT ![t] = to]
  OBVIOUS
<1> QED BY <1>1 DEF Executor!Move

\* A worker that could give up a task has seen the store of stop(): until then _running
\* counts that worker at least.
LEMMA DropMeansStopped ==
    ASSUME OneLife, LifeInv, NEW w \in Worker, DropTask(w)
    PROVE  phase # "open"
<1>1. w \notin Pending /\ running <= 0 BY DEF DropTask, At, Pending
<1>2. Cardinality(Pending) < NumThreads /\ Cardinality(Pending) \in Nat /\ NumThreads \in Nat
  BY <1>1, PendingFinite, SizeAssumption
<1> QED BY <1>1, <1>2 DEF LifeInv, CountInv, TypeOK

LEMMA BeginMeansOpen ==
    ASSUME OneLife, LifeInv, NEW w \in Worker, BeginTask(w)
    PROVE  phase = "open"
<1>1. running > 0 /\ running \in Int BY DEF BeginTask, LifeInv, TypeOK
<1>2. phase # "open" => running <= 0 BY CountFinal DEF LifeInv, StopIsFinal
<1> QED BY <1>1, <1>2

\* The steps that change a task's stage.
LEMMA RefineTaskSteps ==
    ASSUME OneLife, LifeInv, TaskInv
    PROVE  /\ \A p \in Producer, t \in Task : Execute(p, t) => Executor!Submit(t)
           /\ \A w \in Worker : BeginTask(w) => Executor!Begin(fun[w]) /\ fun[w] \in Task
           /\ \A w \in Worker : DropTask(w) => Executor!Discard(fun[w]) /\ fun[w] \in Task
           /\ \A w \in Worker : FinishTask(w) => Executor!Finish(fun[w]) /\ fun[w] \in Task
<1> USE DEF LifeInv, TaskInv
<1>1. ASSUME NEW p \in Producer, NEW t \in Task, Execute(p, t) PROVE Executor!Submit(t)
  <2>1. /\ submitted' = submitted \cup {t} /\ UNCHANGED <<fun, ran, pc, phase>>
        /\ t \notin submitted
    BY <1>1 DEF Execute, workerVars, controllerVars
  <2>2. \A u \in Task : (InQueue(u)' <=> InQueue(u) \/ u = t) /\ (Held(u)' <=> Held(u))
    BY <1>1, ExecutePlaces
  <2>3. \A u \in Task : Executing(u)' <=> Executing(u) BY <2>1 DEF Executing
  <2>4. Executing(t) => Held(t) BY DEF Executing, Held
  <2>5. StageOf(t) = "new" /\ StageOf(t)' = "pending"
    BY <2>1, <2>2, <2>3, <2>4 DEF StageOf
  <2>6. \A u \in Task : u # t => StageOf(u)' = StageOf(u) BY <2>1, <2>2, <2>3, SameStage
  <2> QED BY <2>1, <2>5, <2>6, MapMove DEF Executor!Submit
<1>2. ASSUME NEW w \in Worker, BeginTask(w)
      PROVE  Executor!Begin(fun[w]) /\ fun[w] \in Task
  <2>1. /\ pc[w] = "check" /\ pc' = [pc EXCEPT ![w] = "exec"]
        /\ UNCHANGED <<queue, fun, ran, submitted, phase>>
    BY <1>2 DEF BeginTask, At, controllerVars, producerVars
  <2>2. fun[w] \in Task BY <2>1 DEF TypeOK
  <2>3. \A u \in Task : (InQueue(u)' <=> InQueue(u)) /\ (Held(u)' <=> Held(u))
    BY <2>1 DEF InQueue, Held
  <2>4. \A v \in Worker : fun[v] = fun[w] => v = w BY <2>2, NameAssumption DEF OnePlace
  <2>5. pc'[w] = "exec" /\ \A v \in Worker : v # w => pc'[v] = pc[v] BY <2>1 DEF TypeOK
  <2>6. ~Executing(fun[w]) /\ Executing(fun[w])' BY <2>1, <2>4, <2>5 DEF Executing
  <2>7. \A u \in Task : u # fun[w] => (Executing(u)' <=> Executing(u))
    BY <2>1, <2>5 DEF Executing
  <2>8. Held(fun[w]) /\ fun[w] \notin ran BY <2>2 DEF Held, OnePlace
  <2>9. StageOf(fun[w]) = "pending" /\ StageOf(fun[w])' = "running"
    BY <2>1, <2>6, <2>8 DEF StageOf
  <2>10. \A u \in Task : u # fun[w] => StageOf(u)' = StageOf(u)
    BY <2>1, <2>3, <2>7, SameStage
  <2>11. Executor!Move(fun[w], "pending", "running")
    BY <2>1, <2>2, <2>9, <2>10, MapMove
  <2> QED BY <1>2, <2>2, <2>11, BeginMeansOpen DEF Executor!Begin
<1>3. ASSUME NEW w \in Worker, NEW t \in Task, t = fun[w], DropTask(w) \/ FinishTask(w)
      PROVE  /\ t \in submitted /\ t \notin ran /\ Held(t)
             /\ ~InQueue(t)' /\ ~Held(t)' /\ ~Executing(t)' /\ phase' = phase
             /\ submitted' = submitted
             /\ \A u \in Task : u # t => StageOf(u)' = StageOf(u)
  <2>1. /\ UNCHANGED <<submitted, phase>> /\ ran' \subseteq ran \cup {t}
        /\ ran \subseteq ran' /\ pc'[w] # "exec"
        /\ \A v \in Worker : v # w => pc'[v] = pc[v]
    BY <1>3 DEF DropTask, FinishTask, At, TypeOK, producerVars, controllerVars
  <2>2. /\ Held(t)
        /\ \A v \in Worker : fun'[v] = IF v = w THEN NoTask ELSE fun[v]
        /\ \A u \in Task : InQueue(u)' <=> InQueue(u)
        /\ \A u \in Task : Held(u)' <=> Held(u) /\ u # t
    BY <1>3, ReleasePlaces
  <2>3. \A u \in Task : u # t => (Executing(u)' <=> Executing(u))
    BY <1>3, <2>1, <2>2, NameAssumption DEF Executing
  <2>4. Executing(t)' => Held(t)' BY DEF Executing, Held
  <2>5. ~InQueue(t) /\ t \in submitted /\ t \notin ran BY <2>2 DEF OnePlace
  <2>6. \A u \in Task : u # t => StageOf(u)' = StageOf(u)
    BY <2>1, <2>2, <2>3, SameStage
  <2> QED BY <2>1, <2>2, <2>4, <2>5, <2>6
<1>4. ASSUME NEW w \in Worker, DropTask(w)
      PROVE  Executor!Discard(fun[w]) /\ fun[w] \in Task
  <2>1. ran' = ran /\ pc[w] = "check" BY <1>4 DEF DropTask, At
  <2>2. PICK t \in Task : t = fun[w] BY <2>1 DEF TypeOK
  <2>3. \A v \in Worker : fun[v] = t => v = w BY <2>2, NameAssumption DEF OnePlace
  <2>4. ~Executing(t) BY <2>1, <2>3 DEF Executing
  <2>5. StageOf(t) = "pending" BY <1>3, <1>4, <2>2, <2>4 DEF StageOf
  <2>6. StageOf(t)' = "discarded" BY <1>3, <1>4, <2>1, <2>2 DEF StageOf
  <2>7. Executor!Move(t, "pending", "discarded") BY <1>3, <1>4, <2>2, <2>5, <2>6, MapMove
  <2> QED BY <1>4, <2>2, <2>7, DropMeansStopped DEF Executor!Discard
<1>5. ASSUME NEW w \in Worker, FinishTask(w)
      PROVE  Executor!Finish(fun[w]) /\ fun[w] \in Task
  <2>1. ran' = ran \cup {fun[w]} /\ pc[w] = "exec" BY <1>5 DEF FinishTask, At
  <2>2. PICK t \in Task : t = fun[w] BY <2>1 DEF TypeOK
  <2>3. Executing(t) BY <2>1, <2>2 DEF Executing
  <2>4. StageOf(t) = "running" BY <1>3, <1>5, <2>2, <2>3 DEF StageOf
  <2>5. StageOf(t)' = "done" BY <2>1, <2>2 DEF StageOf
  <2>6. Executor!Move(t, "running", "done") BY <1>3, <1>5, <2>2, <2>4, <2>5, MapMove
  <2> QED BY <2>2, <2>6 DEF Executor!Finish
<1> QED BY <1>1, <1>2, <1>4, <1>5

\* The steps that move a worker but no task from stage to stage.
LEMMA RefineSilentRun ==
    ASSUME LifeInv, TaskInv, NEW w \in Worker, Run(w),
           ~BeginTask(w), ~DropTask(w), ~FinishTask(w)
    PROVE  UNCHANGED Executor!vars
<1> USE DEF LifeInv, TaskInv
<1>1. UNCHANGED <<ran, submitted, phase>>
  BY DEF Run, Announce, SignalReady, Loop, Wait, WaitReturns, CheckWoken, Dequeue, ComePast,
         FindEmpty, controllerVars, producerVars
<1>2. /\ pc[w] # "exec" /\ pc'[w] # "exec"
      /\ \A v \in Worker : v # w => pc'[v] = pc[v]
  BY DEF Run, Announce, SignalReady, Loop, Wait, WaitReturns, CheckWoken, Dequeue, ComePast,
         FindEmpty, At, TypeOK
<1>3. ASSUME NEW p \in Producer, Dequeue(w, p) PROVE UNCHANGED Executor!vars
  <2> DEFINE h == Head(queue[p])
  <2>1. /\ h \in Task /\ InQueue(h) /\ fun[w] \notin Task
        /\ \A u \in Task : InQueue(u)' <=> InQueue(u) /\ u # h
        /\ \A u \in Task : Held(u)' <=> Held(u) \/ u = h
        /\ \A v \in Worker : fun'[v] = IF v = w THEN h ELSE fun[v]
    BY <1>3, DequeuePlaces
  <2>2. \A u \in Task : Executing(u)' <=> Executing(u) BY <2>1, <1>2 DEF Executing
  <2>3. \A u \in Task : StageOf(u)' = StageOf(u) BY <2>1, <2>2, <1>1 DEF StageOf
  <2> QED BY <2>3, <1>1, MapUnchanged
<1>4. CASE ~ \E p \in Producer : Dequeue(w, p)
  <2>1. UNCHANGED <<queue, fun>>
    BY <1>4 DEF Run, Announce, SignalReady, Loop, Wait, WaitReturns, CheckWoken, ComePast, FindEmpty
  <2>2. \A u \in Task : /\ InQueue(u)' <=> InQueue(u)
                        /\ Held(u)' <=> Held(u)
                        /\ Executing(u)' <=> Executing(u)
    BY <2>1, <1>2 DEF InQueue, Held, Executing
  <2>3. \A u \in Task : StageOf(u)' = StageOf(u) BY <2>2, <1>1, SameStage
  <2> QED BY <2>3, <1>1, MapUnchanged
<1> QED BY <1>3, <1>4

\* The steps that leave the tasks, and who executes them, alone.
LEMMA RefineStill ==
    ASSUME Still, \A w \in Worker : pc'[w] = "exec" <=> pc[w] = "exec"
    PROVE  \A t \in Task : StageOf(t)' = StageOf(t)
<1>1. \A t \in Task : Executing(t)' <=> Executing(t) BY DEF Still, Executing
<1>2. \A t \in Task : (InQueue(t)' <=> InQueue(t)) /\ (Held(t)' <=> Held(t)) BY StillPlaces
<1> QED BY <1>1, <1>2, SameStage DEF Still

LEMMA RefineStep ==
    ASSUME OneLife, LifeInv, TaskInv, [Next]_vars
    PROVE  [Executor!Next]_(Executor!vars)
<1> USE DEF LifeInv
<1>1. ASSUME NEW p \in Producer, NEW t \in Task, Execute(p, t) PROVE Executor!Next
  BY <1>1, RefineTaskSteps DEF Executor!Next
<1>2. ASSUME NEW w \in Worker, Run(w) PROVE [Executor!Next]_(Executor!vars)
  <2>1. CASE BeginTask(w) BY <2>1, RefineTaskSteps DEF Executor!Next
  <2>2. CASE DropTask(w) BY <2>2, RefineTaskSteps DEF Executor!Next
  <2>3. CASE FinishTask(w) BY <2>3, RefineTaskSteps DEF Executor!Next
  <2>4. CASE ~BeginTask(w) /\ ~DropTask(w) /\ ~FinishTask(w) BY <1>2, <2>4, RefineSilentRun
  <2> QED BY <2>1, <2>2, <2>3, <2>4
<1>3. CASE Stop
  <2>1. Still /\ pc' = pc /\ phase' = "closing"
    BY <1>3 DEF Stop, Still, workerVars, producerVars
  <2>2. [t \in Task |-> StageOf(t)]' = [t \in Task |-> StageOf(t)] BY <2>1, RefineStill
  <2> QED BY <2>1, <2>2 DEF Executor!Next, Executor!Stop
<1>4. CASE StopJoins
  <2>1. Still /\ pc' = pc /\ phase' = "closed" /\ phase = "closing"
    BY <1>4 DEF StopJoins, Still, workerVars, producerVars, StopInv
  <2>2. [t \in Task |-> StageOf(t)]' = [t \in Task |-> StageOf(t)] BY <2>1, RefineStill
  <2>3. \A t \in Task : ~Executing(t) BY <1>4 DEF StopJoins, Executing
  <2>4. \A t \in Task : StageOf(t) # "running" BY <2>3 DEF StageOf
  <2> QED BY <2>1, <2>2, <2>4 DEF Executor!Next, Executor!StopReturns
<1>5. CASE Proceed /\ ~StopJoins
  <2>1. Still /\ phase' = phase
    BY <1>5 DEF Proceed, Spawn, StartWaits, StartNotified, StartGivesUp, StartReturns,
                StopSignals, Still, workerVars, producerVars
  <2>2. \A w \in Worker : pc'[w] = "exec" <=> pc[w] = "exec"
    BY <1>5 DEF Proceed, Spawn, StartWaits, StartNotified, StartGivesUp, StartReturns,
                StopSignals, workerVars, At, TypeOK
  <2> QED BY <2>1, <2>2, RefineStill, MapUnchanged
<1>6. CASE \/ StartFindsRunning \/ StartBegins
           \/ \E p \in Producer : ExecuteNotifies(p)
           \/ \E w \in Worker : SpuriousWakeup(w)
           \/ UNCHANGED vars
  <2>1. Still /\ phase' = phase /\ pc' = pc
    BY <1>6 DEF StartFindsRunning, StartBegins, ExecuteNotifies, SpuriousWakeup, vars, Still,
                workerVars, controllerVars, producerVars
  <2> QED BY <2>1, RefineStill, MapUnchanged
<1> QED BY <1>1, <1>2, <1>3, <1>4, <1>5, <1>6 DEF Next

\* thread_pool implements TaskExecutor: a task is begun at most once and never after stop()
\* stored _running, none is given up before, and none is running when stop() returns
\* (thread_pool.h:68-117).
THEOREM PoolIsExecutor == ASSUME OneLife PROVE Spec => IsExecutor
<1>1. Init => Executor!Init
  <2> SUFFICES ASSUME Init PROVE Executor!Init
    OBVIOUS
  <2>1. \A t \in Task : ~InQueue(t) /\ ~Held(t) /\ ~Executing(t)
    BY NameAssumption DEF Init, InQueue, Held, Executing
  <2>2. \A t \in Task : StageOf(t) = "new" BY <2>1 DEF Init, StageOf
  <2> QED BY <2>2 DEF Init, Executor!Init
<1>2. LifeInv /\ TaskInv /\ [Next]_vars => [Executor!Next]_(Executor!vars) BY RefineStep
<1> QED BY <1>1, <1>2, LifeInvariant, TaskInvariant, PTL DEF Spec, IsExecutor, Executor!Spec

-----------------------------------------------------------------------------
(* The monitors themselves, as any threads use one of them *)

CONSTANT Waiter
VARIABLES mon, where, owed, released

M == INSTANCE MonitorUse WITH Thread <- Waiter, pc <- where

\* Type correctness, and that only threads inside wait() or wait_for() are in the condition variable,
\* with any number of threads.
THEOREM MonitorTypes == M!Spec => []M!TypeOK
<1>1. M!Init => M!TypeOK
  <2>. SUFFICES ASSUME M!Init PROVE M!TypeOK
    OBVIOUS
  <2>1. mon \in M!MonitorOf(Waiter) /\ mon.waiting = {}
    BY DEF M!Init, M!NewMonitor, M!MonitorOf
  <2>. QED
    BY <2>1 DEF M!Init, M!TypeOK
<1>2. M!TypeOK /\ [M!Next]_(M!vars) => M!TypeOK'
  <2>. SUFFICES ASSUME M!TypeOK, [M!Next]_(M!vars) PROVE M!TypeOK'
    OBVIOUS
  <2>. USE DEF M!TypeOK, M!MonitorOf
  <2>1. ASSUME NEW t \in Waiter, M!WaitTakesFlag(t) PROVE M!TypeOK'
    BY <2>1 DEF M!WaitTakesFlag, M!TakeFlag
  <2>2. ASSUME NEW t \in Waiter, M!WaitBlocks(t) PROVE M!TypeOK'
    BY <2>2 DEF M!WaitBlocks, M!Block
  <2>3. ASSUME NEW t \in Waiter, M!Timeout(t) \/ M!SpuriousWakeup(t) PROVE M!TypeOK'
    BY <2>3 DEF M!Timeout, M!SpuriousWakeup, M!Leave
  <2>4. ASSUME NEW t \in Waiter, M!Notify(t) PROVE M!TypeOK'
    BY <2>4 DEF M!Notify, M!NotifyOne, M!NotifyAll, M!Leave
  <2>5. ASSUME NEW t \in Waiter, M!Signal(t) PROVE M!TypeOK'
    BY <2>5 DEF M!Signal, M!SignalAll
  <2>6. ASSUME NEW t \in Waiter, M!Return(t) \/ M!Use(t) PROVE M!TypeOK'
    BY <2>6 DEF M!Return, M!Use, M!Inside
  <2>7. CASE UNCHANGED M!vars
    BY <2>7 DEF M!vars
  <2>. QED
    BY <2>1, <2>2, <2>3, <2>4, <2>5, <2>6, <2>7 DEF M!Next
<1>. QED
  BY <1>1, <1>2, PTL DEF M!Spec

\* A signal that nobody has received is still in the flag, which lets nobody block.
OwedInv == owed => mon.flag /\ mon.waiting = {}

\* For any number of threads that wait, time out and signal in any order, a signal is never lost on
\* one that comes to wait() after it: the test of _flag and the blocking are one critical section.
THEOREM NoSignalLost == M!Spec => []M!SignalNotLost
<1>1. M!Init => OwedInv
  BY DEF M!Init, OwedInv
<1>2. M!TypeOK /\ OwedInv /\ [M!Next]_(M!vars) => OwedInv'
  <2>. SUFFICES ASSUME M!TypeOK, OwedInv, [M!Next]_(M!vars) PROVE OwedInv'
    OBVIOUS
  <2>. USE DEF OwedInv
  <2>1. ASSUME NEW t \in Waiter, M!WaitTakesFlag(t) \/ M!WaitBlocks(t) PROVE OwedInv'
    BY <2>1 DEF M!WaitTakesFlag, M!WaitBlocks
  <2>2. ASSUME NEW t \in Waiter, M!Timeout(t) \/ M!SpuriousWakeup(t) PROVE OwedInv'
    BY <2>2 DEF M!Timeout, M!SpuriousWakeup
  <2>3. ASSUME NEW t \in Waiter, M!Notify(t) PROVE OwedInv'
    <3>1. owed => mon' \in {mon, M!NotifyAll(mon)}
      BY <2>3 DEF M!Notify, M!NotifyOne
    <3>2. M!NotifyAll(mon).flag = mon.flag /\ M!NotifyAll(mon).waiting = {}
      BY DEF M!TypeOK, M!MonitorOf, M!NotifyAll
    <3>. QED
      BY <2>3, <3>1, <3>2 DEF M!Notify
  <2>4. ASSUME NEW t \in Waiter, M!Signal(t) PROVE OwedInv'
    BY <2>4 DEF M!Signal, M!SignalAll
  <2>5. ASSUME NEW t \in Waiter, M!Return(t) \/ M!Use(t) PROVE OwedInv'
    BY <2>5 DEF M!Return, M!Use
  <2>6. CASE UNCHANGED M!vars
    BY <2>6 DEF M!vars
  <2>. QED
    BY <2>1, <2>2, <2>3, <2>4, <2>5, <2>6 DEF M!Next
<1>3. OwedInv => M!SignalNotLost
  BY DEF OwedInv, M!SignalNotLost
<1>. QED
  BY <1>1, <1>2, <1>3, MonitorTypes, PTL DEF M!Spec

\* For any number of threads, no wait() that returns between a cancel() and the next signal answers
\* true, be it by the flag or by a notification that came before the cancel().
THEOREM CancelHeard == M!Spec => M!CancelIsFinal
<1>1. M!TypeOK /\ [M!Next]_(M!vars) =>
        [\A t \in Waiter : mon.cancelled /\ where[t] # "true" => where'[t] # "true"]_(M!vars)
  <2>. SUFFICES ASSUME M!TypeOK, M!Next, NEW t \in Waiter, mon.cancelled, where[t] # "true"
                PROVE  where'[t] # "true"
    OBVIOUS
  <2>. USE DEF M!TypeOK, M!Answer
  <2>1. ASSUME NEW u \in Waiter, M!WaitTakesFlag(u) \/ M!Return(u) PROVE where'[t] # "true"
    BY <2>1 DEF M!WaitTakesFlag, M!Return
  <2>2. ASSUME NEW u \in Waiter, M!WaitBlocks(u) \/ M!Timeout(u) \/ M!Use(u) PROVE where'[t] # "true"
    BY <2>2 DEF M!WaitBlocks, M!Timeout, M!Use
  <2>3. ASSUME NEW u \in Waiter, M!SpuriousWakeup(u) \/ M!Notify(u) \/ M!Signal(u) PROVE where'[t] # "true"
    BY <2>3 DEF M!SpuriousWakeup, M!Notify, M!Signal
  <2>. QED
    BY <2>1, <2>2, <2>3 DEF M!Next
<1>. QED
  BY <1>1, MonitorTypes, PTL DEF M!Spec, M!CancelIsFinal

=============================================================================

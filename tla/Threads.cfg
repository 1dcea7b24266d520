SPECIFICATION ThreadsSpec
CONSTANTS
    Worker = {w1, w2}
    NumThreads = 2
    Producer = {p1, p2}
    Task = {a, b}
    NoTask = none
    Controller = main
    Job = {a, b}
    Repeating = {b}
    Delay = {0, 1}
    Scheduler = {s1, s2}
    Stopper = {t1}
    Runner = thread
    NoJob = none
    Grain = 2
    Horizon = 2
    MaxTime = 3
    Forever = 100
CHECK_DEADLOCK FALSE
INVARIANTS
    OnePlace
    LifeIsTrue
    StartNotStranded
    JobsKept
    BegunInTime
PROPERTIES
    IsExecutor
    AwakeWorkerDrains
    IdleStopReturns
    AwakeWorkerRuns
    SleeperIsWoken
    IdleShutdownReturns

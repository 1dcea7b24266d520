SPECIFICATION FairSpec
CONSTANTS
    Worker = {w1, w2}
    NumThreads = 2
    Producer = {p1}
    Task = {a}
    NoTask = none
    Controller = main
PROPERTY EveryTaskRuns

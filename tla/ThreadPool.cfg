CONSTANTS
    N = 2
    Callers = {c1, c2}
    Tasks = {t1, t2, t3}
    NoTask = NoTask
    NoCaller = NoCaller
SPECIFICATION FairSpec
INVARIANTS
    AcquiredWorkerIsIdle
    NoTaskRunsTwice
PROPERTIES
    ImplementsTaskPool
    TasksRunUnlessOverslept
CHECK_DEADLOCK FALSE

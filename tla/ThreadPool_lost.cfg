CONSTANTS
    N = 1
    Callers = {c1}
    Tasks = {t1, t2}
    NoTask = NoTask
    NoCaller = NoCaller
SPECIFICATION FairSpec
PROPERTIES
    EveryTaskRuns
CHECK_DEADLOCK FALSE

SPECIFICATION Spec
CONSTANTS
    Task = {t1, t2, t3}
    NoTask = NoTask
INVARIANTS
    OnePlace
    NoTaskLost
    NothingOutlivesRunner
    ReleasedUseIsLast
PROPERTIES
    QueuedTaskRuns
    DestructorReturns
CHECK_DEADLOCK FALSE

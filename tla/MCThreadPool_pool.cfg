SPECIFICATION FairSpec
CONSTANTS
    Task = {k1, k2, k3, k4}
    ThreadID = {t1, t2, t3, t4}
    maxThreads_ = 2
    NoTask = NoTask
INVARIANTS
    TypeOK
    CountersExact
    JoinsAreSafe
    ThreadObjectsBounded
    NoStrandedTask
PROPERTIES
    DestructorOwnsThreads
    ImplementsExecutor
    EveryTaskRuns
    DestructorReturns

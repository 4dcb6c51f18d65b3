SPECIFICATION Spec
CONSTANTS
    Spans = {s1, s2}
    Flushers = {f1, f2}
    Closers = {c1}
    Threads <- MCThreads
    None = None
    QueueCapacity = 2
    MaxBatchSize = 2
    ScheduleMode = "kOnEnd"
    AllocationMayFail = TRUE
    ExporterSays = {TRUE, FALSE}
SYMMETRY Symmetry
CONSTRAINT TwoInstances
INVARIANTS BSPTypeOK NoLostFlush FlushCovers OnEndWakeup PendingIsBacked ShutdownWakeup

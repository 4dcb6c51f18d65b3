SPECIFICATION Spec
CONSTANTS
    Spans = {s1, s2, s3}
    Flushers = {}
    Closers = {c1, c2}
    Threads <- MCThreads
    QueueCapacity = 1
    MaxBatchSize = 5
    ScheduleMode = "kTimed"
    AllocationMayFail = TRUE
    ExporterSays = {TRUE, FALSE}
    None = None
SYMMETRY Symmetry
INVARIANTS SizeAccounting CapacityBound ExportedOnce ShutdownMeansDrained NoStrandedSpan ExporterClosedLast
PROPERTIES LoneDropOnlyWhenFull ImplementsPipeline

SPECIFICATION Spec
CONSTANTS
    Spans = {s1, s2, s3}
    Flushers = {}
    Closers = {}
    Threads <- MCThreads
    QueueCapacity = 1
    MaxBatchSize = 1
    ScheduleMode = "kOnEnd"
    AllocationMayFail = FALSE
    ExporterSays = {TRUE}
    None = None
SYMMETRY Symmetry
PROPERTY DocDropOnlyWhenFull

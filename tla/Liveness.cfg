SPECIFICATION FairSpec
CONSTANTS
    Spans = {s1}
    Flushers = {f1}
    Closers = {c1}
    Threads <- MCThreads
    None = None
    QueueCapacity = 1
    MaxBatchSize = 1
    ScheduleMode = "kTimed"
    AllocationMayFail = TRUE
    ExporterSays = {TRUE}
INVARIANT FlushTrueMeansTaken
PROPERTY CallsReturn

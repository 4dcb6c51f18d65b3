SPECIFICATION FairSpec
CONSTANTS
    Loggers = {b, l}
    BuiltIn = b
    Console = console
    Structured = {v}
    Plain = {w}
    Sinks = {console, s}
    Thresholds <- SomeThresholds
    Parts = {"m", "n", "f"}
    Contexts <- SomeContexts
    Requests <- SomeRequests
    Configs = {k1, k2}
    Calls = {c1}
    SinkMayThrow = TRUE
    WaitForCalls = TRUE
    None = None
CHECK_DEADLOCK FALSE
INVARIANTS LoadedWriterOwned RecordArrives DefaultsAgree
PROPERTIES ImplementsSinkList LogCallsReturn

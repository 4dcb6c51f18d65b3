SPECIFICATION Spec
CONSTANTS
    Loggers = {b, l}
    BuiltIn = b
    Console = console
    Structured = {v}
    Plain = {w}
    Sinks = {console, s}
    Thresholds <- SomeThresholds
    Parts = {"m", "n", "f"}
    Contexts <- SomeContexts
    Requests <- OneRequest
    Configs = {k1, k2}
    Calls = {c1}
    SinkMayThrow = TRUE
    WaitForCalls = FALSE
    None = None
CHECK_DEADLOCK FALSE
INVARIANT HeldWriterAlive

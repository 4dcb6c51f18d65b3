SPECIFICATION ScopedSpec
CONSTANTS
    Threads = {t1}
    Guards = {g1, g2}
    Scopes = {k1}
    SpanIds = {s1, s2}
    r1 = r1
    ts = ts
    Zero = Zero
    None = None
    NoTracestate = NoTracestate
    Ids <- MCIds
    Tracestates <- MCTracestates
    Inbound <- MCInvalid
    Samplers = {}
    LowTraces = {}
    AllocationMayFail = FALSE
INVARIANT TypeOK
PROPERTY ImplementsStack
SYMMETRY Symmetry

SPECIFICATION UnscopedSpec
CONSTANTS
    Threads = {t1, t2}
    Guards = {g1, g2}
    Scopes = {k1}
    SpanIds = {s1, s2}
    r1 = r1
    ts = ts
    Zero = Zero
    None = None
    NoTracestate = NoTracestate
    Ids <- MCIds
    Tracestates <- MCTracestates
    Inbound <- MCRemote
    Samplers <- MCSamplers
    LowTraces = {s1}
    AllocationMayFail = TRUE
INVARIANTS OneHolder NoForgedContext Connected WholeTraces
SYMMETRY Symmetry

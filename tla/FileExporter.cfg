SPECIFICATION Spec
CONSTANTS
    e1 = e1  e2 = e2  e3 = e3
    Exports = {e1, e2, e3}
    BatchSize <- TwoAndTwoAndNone
    Flushes = {f1}
    Shutdowns = {s1, s2}
    Old <- SomeContent
    Torn = Torn
    None = None
CHECK_DEADLOCK FALSE
INVARIANTS FlushHonest BatchesWhole FailureIsFinal
PROPERTY ClosedForGood

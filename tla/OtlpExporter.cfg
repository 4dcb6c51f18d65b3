SPECIFICATION FairSpec
CONSTANTS
    Spans = {s}
    Identities <- OneIdentity
    Kinds = {"kServer"}
    Statuses <- SomeStatuses
    Attributes <- SomeAttributes
    kMaxAttributes = 1
    MaxClock = 2
    None = None
    Exports = {e1, e2}
    Others <- OneOther
    Setups <- SomeSetups
    StatusCodes = {199, 299, 300}
CHECK_DEADLOCK FALSE
INVARIANTS TimesMatch RequestFaithful ResultHonest ConnectionsClosed
PROPERTIES FirstEndCounts ExportsReturn

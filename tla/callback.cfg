SPECIFICATION FairSpec
CONSTANTS
    rec = rec
    ptr = ptr
    clr = clr
    v = v
    w = w
    Empty = Empty
    Records = {rec}
    Fields = {ptr, clr}
    Rows <- MCRows
    Configs <- DriftConfigs
    Ingesters = {i1, i2}
    i1 = i1
    i2 = i2
    Handlers = {h1}
    h1 = h1
    h2 = h2
    Requests <- MCRequests
    NoRequest = NoRequest
    NoBinding = NoBinding
    Refused <- MCRefused
    Limit = 2
    MaxIngests = 2
    MaxCrashes = 1
INVARIANTS
    TypeOK
    RootsReproducible
    ReleasesVerify
    AuditIsTruthful
PROPERTIES
    RefusedOnlyOnDrift
    ReleasedRootArrivesBarringFailures
CHECK_DEADLOCK FALSE

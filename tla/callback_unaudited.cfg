SPECIFICATION Spec
CONSTANTS
    rec = rec
    ptr = ptr
    clr = clr
    v = v
    w = w
    Empty = Empty
    Records = {rec}
    Fields = {ptr, clr}
    Rows <- MCRows
    Configs <- SteadyConfigs
    Ingesters = {i1}
    i1 = i1
    i2 = i2
    Handlers = {h1}
    h1 = h1
    h2 = h2
    Requests <- PointerRequests
    NoRequest = NoRequest
    NoBinding = NoBinding
    Refused = {}
    Limit = 2
    MaxIngests = 1
    MaxCrashes = 0
INVARIANT
    EndedIsAudited
CHECK_DEADLOCK FALSE

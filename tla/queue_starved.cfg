SPECIFICATION FairSpec
CONSTANTS
    Packages = {p1, r1}
    Ingesters = {i1}
    Timers = {t1}
    Refused = {r1}
    Limit = 1
    MaxCount = 1
    MaxCrashes = 1
    NoPackage = NoPackage
    p1 = p1
    p2 = p2
    r1 = r1
    i1 = i1
    t1 = t1
PROPERTY
    QueuedIsDelivered

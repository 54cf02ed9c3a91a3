SPECIFICATION FairSpec
CONSTANTS
    c1 = c1
    c2 = c2
    r1 = r1
    Releases = {c1, c2, r1}
    Timers = {t1, t2}
    t1 = t1
    t2 = t2
    Refused = {r1}
    Opens <- MCOpens
    Text <- MCOpens
    MaxTime = 2
    MaxCount = 2
    MaxCrashes = 1
    NoRelease = NoRelease
INVARIANTS
    IInv
    ReleasedInWindow
PROPERTIES
    ImplementsDelivery
    ReleaseIsDelivered

SPECIFICATION Spec
CONSTANTS
    c1 = c1
    c2 = c2
    r1 = r1
    Releases = {c1, c2, r1}
    Timers = {t1}
    t1 = t1
    Refused = {r1}
    Opens <- MCOpens
    Text <- OffsetText
    MaxTime = 2
    MaxCount = 1
    MaxCrashes = 0
    NoRelease = NoRelease
INVARIANT
    ReleasedInWindow

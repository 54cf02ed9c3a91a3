SPECIFICATION Spec
CONSTANTS
    p1 = p1
    p2 = p2
    low = low
    high = high
    other = other
    k1 = k1
    PolicyIds = {p1, p2}
    Classifications = {low, high, other}
    Rank <- MCRank
    Caveats = {k1}
    Raises = Raises
    UsedLabels <- MCLabels
    MaxSources = 1
    MaxLog = 3
    MaxEntities = 4
    MaxSize = 8
INVARIANTS
    TypeOK
    FlaggedIffSourceWithdrawn
    StaleIsReplaced
    TombstonesFollowLog
    IdsAreNeverReassigned
    ResolveIsClosure
    ProfileMarkIsLeast
PROPERTIES
    AppendOnly

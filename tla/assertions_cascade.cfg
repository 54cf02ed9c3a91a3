SPECIFICATION Spec
CONSTANTS
    p1 = p1
    p2 = p2
    low = low
    high = high
    other = other
    k1 = k1
    PolicyIds = {p1, p2}
    Classifications = {low, high, other}
    Rank <- MCRank
    Caveats = {k1}
    Raises = Raises
    UsedLabels <- OneLabel
    MaxSources = 1
    MaxLog = 3
    MaxEntities = 1
    MaxSize = 7
INVARIANTS
    EverythingDerivedIsFlagged

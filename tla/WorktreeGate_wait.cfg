SPECIFICATION FairLocksSpec
CONSTANTS
    WorktreeKey = {k1}
    Path = {d1}
    PathOf <- OnePath
    Process = {p1, p2, p3}
    None = None
PROPERTIES
    PrepareReports

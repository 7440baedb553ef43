SPECIFICATION FairSpec
CONSTANTS
    WorktreeKey = {k1, k2}
    Path = {d1}
    PathOf <- OnePath
    Process = {p1, p2, p3}
    None = None
INVARIANTS
    Inv
    DrainingExcludesBuilds
    OneClaim
    RemovalUndisturbed
PROPERTIES
    GateReleased

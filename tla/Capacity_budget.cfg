SPECIFICATION Spec
CONSTANTS
    Arena = {a1, a2, a3}
    Process = {p1, p2}
    None = None
    Unknown = Unknown
    Budget = 4
    LowWatermark = 80
    Reservation = {2}
    InitialSize = {1}
    UnreadableTrees = FALSE
SYMMETRY Symmetry
INVARIANTS
    Inv
    SnapshotCovers
    PlanIsEnough
PROPERTIES
    GrowthWithinBudget

SPECIFICATION Spec
CONSTANTS
    Arena = {a1, a2}
    Process = {p1, p2}
    None = None
    Unknown = Unknown
    Budget = 3
    LowWatermark = 80
    Reservation = {1, 2}
    InitialSize = {1}
    UnreadableTrees = TRUE
SYMMETRY Symmetry
INVARIANTS
    CompletedSizesRecorded

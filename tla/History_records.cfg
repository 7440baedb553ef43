SPECIFICATION Spec
CONSTANTS
    Process = {p1, p2}
    Receipt <- Receipts
    Size <- Sizes
    Policy <- Policies
    SampleLimit = 2
    None = None
    MaxFaults = 1
    MaxLosses = 1
SYMMETRY Symmetry
INVARIANTS
    Inv
    IndexCovers
    RetentionHolds
    KeepsMost
    ReservationCovers
PROPERTIES
    OldestFirst
    NoSampleLost

SPECIFICATION Spec
CONSTANTS
    Process = {p1, p2}
    Arena = {a1, a2}
    Nonce = {n1, n2, n3}
    None = None
    MaxFaults = 2
    MaxLosses = 1
SYMMETRY Symmetry
INVARIANTS
    Inv
    OneMarker
    ProbesKept
    StagingJournaled
    LeaseDurable
PROPERTIES
    CreationIsAtomic

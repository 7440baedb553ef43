SPECIFICATION FairSpec
CONSTANTS
    Arena = {a1}
    Process = {p1, p2}
    RetirementId = {r1}
    None = None
    Nobody = Nobody
    MaxRevision = 3
    MaxFaults = 1
INVARIANTS
    Inv
    CargoTreeProtected
    LeaseDiskAgree
    PlannedIsQuiescent
    ResumableIsQuiescent
PROPERTIES
    SuspectNeedsRecovery
    RetireOnlyQuiescent
    CollectionLockReleased

SPECIFICATION Spec
CONSTANTS
    Arena = {a1}
    Process = {p1}
    RetirementId = {r1}
    None = None
    Nobody = Nobody
    MaxRevision = 2
    MaxFaults = 1
PROPERTIES
    ResumeRechecksWorktree

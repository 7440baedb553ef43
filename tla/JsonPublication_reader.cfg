SPECIFICATION Spec
CONSTANTS
    Value = {v1, v2, v3}
    None = None
    Torn = Torn
    Reader = {r1}
SYMMETRY Symmetry
INVARIANTS
    AbsentMeansAbsent

SPECIFICATION Spec
CONSTANTS
    Names = {ann, bob}
    Nil = nil
    Blocked = blocked
    MaxEntities = 3
    MaxRows = 3
    MaxAttempts = 2
SYMMETRY SymmetryOfNames
INVARIANTS
    TypeOK
    NothingOpenBehind
PROPERTIES
    CenterEarned
    OutcomeFinal

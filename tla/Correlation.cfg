SPECIFICATION Spec
CONSTANTS
    Tracks = {t1, t2}
    Names = {ann, bob}
    Nil = nil
    Needed = 2
    Window = 3
    MaxFaces = 2
SYMMETRY SymmetryOfTracksAndNames
INVARIANTS
    TypeOK
    OneTrackPerName
    ConfirmedByVotes

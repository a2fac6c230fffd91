--------------------------- MODULE MCCorrelation ---------------------------
(* Model checking of Correlation: tracks and names are interchangeable.    *)
EXTENDS Correlation, TLC

SymmetryOfTracksAndNames == Permutations(Tracks) \cup Permutations(Names)

=============================================================================

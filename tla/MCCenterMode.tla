---------------------------- MODULE MCCenterMode ----------------------------
(* Model checking of CenterMode: two people, interchangeable.              *)
EXTENDS CenterMode, TLC

SymmetryOfNames == Permutations(Names)

=============================================================================

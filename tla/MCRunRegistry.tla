--------------------------- MODULE MCRunRegistry ---------------------------
(* Instances of RunRegistry for TLC.                                       *)
EXTENDS RunRegistry, TLC

CONSTANTS p1, p2, p3, s1, s2, s3, s4

Symmetry == Permutations(Requests) \cup Permutations(Scenarios)
=============================================================================

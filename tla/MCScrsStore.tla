---------------------------- MODULE MCScrsStore ----------------------------
(* Instances of ScrsStore for TLC.                                         *)
EXTENDS ScrsStore, TLC

CONSTANTS w1, w2, w3, c1, c2, c3

(* Writers and changes are only compared for equality, and the symmetric   *)
(* runs check no liveness.                                                 *)
Symmetry == Permutations(Writers) \cup Permutations(Changes)
=============================================================================

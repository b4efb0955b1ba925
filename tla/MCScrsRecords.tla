--------------------------- MODULE MCScrsRecords ---------------------------
(* Instances of ScrsRecords for TLC.                                       *)
EXTENDS ScrsRecords, TLC

CONSTANTS m1, m2, t1, t2, f1, f2, x1, l1, l2, n1, c1, c2

Symmetry == Permutations(Managers) \cup Permutations(Tids) \cup Permutations(Facts)
                \cup Permutations(Classes)

(* A risk request lists up to two threats, the other requests one each.    *)
MCMaxBatch == [k \in Kinds |-> IF k = "risk" THEN 2 ELSE 1]
=============================================================================

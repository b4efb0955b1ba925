----------------------------- MODULE Selections -----------------------------
(***************************************************************************)
(* A set listed in an order, and a part of a sequence.  They stand for     *)
(* sorted(), for list comprehensions with a condition and for slices; all  *)
(* are told by ranks, about which the provers can reason (they can neither *)
(* expand SelectSeq nor SetToSortSeq).                                     *)
(***************************************************************************)
EXTENDS Integers, Sequences, FiniteSets

(* The elements of a finite set in the order of before, which must be a    *)
(* strict total order of it.                                               *)
Ordered(set, before(_, _)) ==
    [n \in 1..Cardinality(set) |->
        CHOOSE x \in set : Cardinality({y \in set : before(y, x)}) = n - 1]

(* The elements of s at the given positions, in the order of s.            *)
Picked(s, positions) ==
    LET order == Ordered(positions, LAMBDA i, j : i < j)
    IN  [n \in DOMAIN order |-> s[order[n]]]

(* The first n elements, or all of them.                                   *)
First(n, s) == SubSeq(s, 1, IF n <= Len(s) THEN n ELSE Len(s))
=============================================================================

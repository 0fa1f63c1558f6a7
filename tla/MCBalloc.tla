------------------------------ MODULE MCBalloc ------------------------------
(***************************************************************************)
(* A small instance of Balloc for TLC: lists of two entries, and a file    *)
(* system that is full with one file.                                      *)
(***************************************************************************)
EXTENDS Balloc, TLC

CONSTANTS p1, p2, f1, f2, b1, b2, b3

Orders == {s \in [1..Cardinality(Blk) -> Blk] : IsInjective(s)}

MCStart == {[f \in File |-> IF f = g THEN s ELSE <<>>] : g \in File, s \in Orders}

Symmetry == Permutations(Proc) \cup Permutations(File) \cup Permutations(Blk)

=============================================================================

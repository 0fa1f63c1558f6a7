------------------------------- MODULE MCRmap -------------------------------
(***************************************************************************)
(* Small instances of Rmap for TLC.                                        *)
(***************************************************************************)
EXTENDS Rmap

CONSTANTS p1, p2

(* A text, and the three segments of a process: the largest first, and one *)
(* without data.                                                           *)
MCAsks == {<<1>>, <<2>>, <<2, 0, 1>>, <<2, 1, 1>>}

Symmetry == Permutations(Proc)

=============================================================================

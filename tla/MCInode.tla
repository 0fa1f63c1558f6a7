------------------------------ MODULE MCInode ------------------------------
(***************************************************************************)
(* Small instances of Inode for TLC.                                       *)
(***************************************************************************)
EXTENDS Inode

CONSTANTS p1, p2, p3

Symmetry == Permutations(Proc)

=============================================================================

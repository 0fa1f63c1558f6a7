------------------------------ MODULE MCTexts ------------------------------
(***************************************************************************)
(* Small instances of Texts for TLC.                                       *)
(***************************************************************************)
EXTENDS Texts

CONSTANTS p1, p2, p3, x1, x2, f1, f2, f3

(* With a text in core there is no room for the largest and another. *)
MCImg == [p \in Proc |-> IF p = p1 THEN 2 ELSE 1]

(* p2 and p3 share f2; three programs for two entries. *)
MCExecs == [p \in Proc |-> CASE p = p1 -> {f1, NoFile} [] p = p2 -> {f2} [] OTHER -> {f2, f3}]

(* Two processes and as many entries, and the races. *)
RaceExecs == [p \in Proc |-> IF p = p1 THEN {f1, f2} ELSE {f1, f3}]

Symmetry == Permutations(Text)

=============================================================================

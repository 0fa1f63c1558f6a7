------------------------------ MODULE MCSelect ------------------------------
(***************************************************************************)
(* A small instance of Select for TLC: two processes, one of which gets    *)
(* every signal and catches none, and one that catches SIGTSTP and SIGCONT *)
(* and gets nothing else.                                                  *)
(***************************************************************************)
EXTENDS Select

CONSTANTS p1, p2, t1

MCSent == [p \in Proc |-> IF p = p1 THEN Sig ELSE {"TSTP", "CONT"}]

MCCaught == [p \in Proc |-> IF p = p1 THEN {} ELSE {"TSTP", "CONT"}]

=============================================================================

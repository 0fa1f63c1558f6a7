------------------------------- MODULE MCPipe -------------------------------
(***************************************************************************)
(* Small instances of Pipe for TLC: blocks of two units, a pipe that is    *)
(* full with two.                                                          *)
(***************************************************************************)
EXTENDS Pipe

CONSTANTS p1, p2, a, b

(* Writes that fit at once and one that does not; no two in a row agree. *)
MCRequests == {<<a>>, <<b, a>>, <<b, a, b>>}

MCBlock == [o \in 0..4 |-> o \div 2]

=============================================================================

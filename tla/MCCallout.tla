----------------------------- MODULE MCCallout -----------------------------
(***************************************************************************)
(* A small instance of Callout for TLC.                                    *)
(***************************************************************************)
EXTENDS Callout

CONSTANTS w1, w2

(* No delay at all, the next tick, and more than one tick apart. *)
MCTimes == {0, 1, 2, 4}

=============================================================================

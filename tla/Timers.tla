------------------------------- MODULE Timers -------------------------------
(***************************************************************************)
(* What the callout list promises: timers that all run down together.  A   *)
(* timer is called only when its time is up, the one with the least time   *)
(* left first, and of two with the same time the later comer first.        *)
(***************************************************************************)
EXTENDS SequencesExt, Integers

CONSTANTS What, Times, NCallout, Nobody

VARIABLES pending,  \* the timers, by the time they have left
          calling   \* the timer being served

vars == <<pending, calling>>

Init == pending = <<>> /\ calling = Nobody

(* A timer is set, for one tick at least. *)
Set(w, t) ==
    LET left == IF t < 1 THEN 1 ELSE t IN
    /\ Len(pending) < NCallout
    /\ \E k \in 1..(Len(pending) + 1) :
          /\ \A i \in 1..(k - 1) : pending[i].left < left
          /\ \A i \in k..Len(pending) : pending[i].left >= left
          /\ pending' = InsertAt(pending, k, [what |-> w, left |-> left])
    /\ UNCHANGED calling

(* The first timer w is cancelled. *)
Cancel(w) ==
    /\ \E i \in DOMAIN pending : /\ pending[i].what = w
                                 /\ \A j \in 1..(i - 1) : pending[j].what # w
                                 /\ pending' = RemoveAt(pending, i)
    /\ UNCHANGED calling

Tick == /\ pending' = [i \in DOMAIN pending |-> [pending[i] EXCEPT !.left = @ - 1]]
        /\ UNCHANGED calling

Call == /\ calling = Nobody
        /\ pending # <<>> /\ Head(pending).left <= 0
        /\ calling' = Head(pending).what
        /\ pending' = Tail(pending)

Done == calling # Nobody /\ calling' = Nobody /\ UNCHANGED pending

Next == \/ \E w \in What, t \in Times : Set(w, t)
        \/ \E w \in What : Cancel(w)
        \/ Tick \/ Call \/ Done

Spec == Init /\ [][Next]_vars

=============================================================================

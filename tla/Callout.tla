------------------------------- MODULE Callout -------------------------------
(***************************************************************************)
(* The callout list of the kernel (src/sys/sys/kern_clock.c): timeout,     *)
(* untimeout, and the clock interrupt in its two halves.  hardclock counts *)
(* the list down at high priority, whatever it interrupts; softclock,      *)
(* which calls the functions, runs only when hardclock interrupted base    *)
(* priority, and is itself interrupted by the next ticks.                  *)
(*                                                                         *)
(* Every splclock() or splhigh() section is one action.                    *)
(***************************************************************************)
EXTENDS SequencesExt, Integers

CONSTANTS
    What,       \* the pairs of function and argument in use
    Times,      \* the delays timeout is called with
    NCallout,   \* entries of the callout table
    MaxLate,    \* bound: the ticks an event may be late before softclock runs
    Nobody      \* not in What

ASSUME CalloutAssumption == Times \subseteq Int /\ NCallout \in Nat /\ MaxLate \in Nat /\ Nobody \notin What

VARIABLES
    calltodo,   \* the entries of the list, [time : Int, what : What]
    soft,       \* softclock is active
    calling     \* what softclock took off the list and is calling

vars == <<calltodo, soft, calling>>

Entry(t, w) == [time |-> t, what |-> w]

Init == calltodo = <<>> /\ soft = FALSE /\ calling = Nobody

-----------------------------------------------------------------------------
(* timeout and untimeout *)

(* The delays that timeout's loop subtracts from t on its way past the     *)
(* first k entries: those of events not yet due.                           *)
Passed(q, k) ==
    LET passed[i \in 0..Len(q)] ==
            IF i = 0 THEN 0 ELSE passed[i - 1] + (IF q[i].time > 0 THEN q[i].time ELSE 0)
    IN  passed[k]

(* The loop stops before the first entry whose delay is not less than what *)
(* is left of t.                                                           *)
StopsAfter(q, t) == CHOOSE k \in 0..Len(q) :
                       /\ k = Len(q) \/ q[k + 1].time >= t - Passed(q, k)
                       /\ \A j \in 0..(k - 1) : q[j + 1].time < t - Passed(q, j)

(* Mutant of Insert: the next entry keeps its delay. *)
Insert_NoAdjust(q, t, w) ==
    LET k == StopsAfter(q, t) IN InsertAt(q, k + 1, Entry(t - Passed(q, k), w))

Insert(q, t, w) ==
    LET k == StopsAfter(q, t)
        left == t - Passed(q, k)
        later == IF k = Len(q) THEN q ELSE [q EXCEPT ![k + 1].time = @ - left]
    IN  InsertAt(later, k + 1, Entry(left, w))

(* timeout(fun, arg, t), by a process, an interrupt or the function        *)
(* softclock is calling.  With the table full it panics, which ends it all.*)
Timeout(w, t) ==
    /\ Len(calltodo) < NCallout
    /\ calltodo' = Insert(calltodo, IF t <= 0 THEN 1 ELSE t, w)
    /\ UNCHANGED <<soft, calling>>

First(q, w) == CHOOSE i \in DOMAIN q : q[i].what = w /\ \A j \in 1..(i - 1) : q[j].what # w

(* Entry i leaves the list, and the next is as far off as it was. *)
Delete(q, i) ==
    LET later == IF i < Len(q) /\ q[i].time > 0 THEN [q EXCEPT ![i + 1].time = @ + q[i].time] ELSE q
    IN  RemoveAt(later, i)

(* untimeout(fun, arg): only select calls it, for a process, so never      *)
(* while softclock runs.                                                   *)
Untimeout(w) ==
    /\ ~soft
    /\ \E i \in DOMAIN calltodo : calltodo[i].what = w
    /\ calltodo' = Delete(calltodo, First(calltodo, w))
    /\ UNCHANGED <<soft, calling>>

-----------------------------------------------------------------------------
(* The clock *)

(* hardclock decrements entries up to the first that is not overdue. *)
Countdown(q) == [i \in DOMAIN q |->
                    IF \A j \in 1..(i - 1) : q[j].time - 1 < 0
                    THEN [q[i] EXCEPT !.time = @ - 1] ELSE q[i]]

(* Mutant of NeedSoft: only the tick that makes an event due asks for      *)
(* softclock.                                                              *)
NeedSoft_Once(q) == \E i \in DOMAIN q : q[i].time = 0

(* The first event is due. *)
Due(q) == q # <<>> /\ Head(q).time <= 0

(* hardclock asks for softclock whenever its countdown leaves one due. *)
NeedSoft(q) == Due(q)

(* hardclock; base is BASEPRI(ps), which is false when softclock is what   *)
(* it interrupts.  Otherwise softclock is left to a later tick.            *)
Hardclock(base) ==
    /\ base => ~soft
    /\ \A i \in DOMAIN calltodo : calltodo[i].time > -(MaxLate + IF base THEN 1 ELSE 0)
    /\ calltodo' = Countdown(calltodo)
    /\ soft' = (soft \/ (base /\ NeedSoft(calltodo')))
    /\ UNCHANGED calling

(* softclock: take the head of the list if it is due. *)
Softclock ==
    /\ soft /\ calling = Nobody
    /\ Due(calltodo)
    /\ calling' = Head(calltodo).what
    /\ calltodo' = Tail(calltodo)
    /\ soft' = soft

(* The function has returned. *)
Called == calling # Nobody /\ calling' = Nobody /\ UNCHANGED <<calltodo, soft>>

SoftclockEnds ==
    /\ soft /\ calling = Nobody /\ ~Due(calltodo)
    /\ soft' = FALSE
    /\ UNCHANGED <<calltodo, calling>>

Next == \/ \E w \in What, t \in Times : Timeout(w, t)
        \/ \E w \in What : Untimeout(w)
        \/ \E base \in BOOLEAN : Hardclock(base)
        \/ Softclock \/ Called \/ SoftclockEnds

Spec == Init /\ [][Next]_vars

(* The functions return, softclock goes on when it is back, and the clock  *)
(* goes on ticking and does not always find the processor in a driver.     *)
Fairness == WF_vars(Called) /\ WF_vars(Softclock \/ SoftclockEnds) /\ WF_vars(Hardclock(TRUE))

FairSpec == Spec /\ Fairness

-----------------------------------------------------------------------------
(* Properties *)

(* The type of every variable; the list never has more entries than the    *)
(* table.                                                                  *)
TypeOK ==
    /\ calltodo \in Seq([time : Int, what : What])
    /\ Len(calltodo) <= NCallout
    /\ soft \in BOOLEAN
    /\ calling \in What \cup {Nobody}

(* How long each event has left, or how late it is (negative): those at    *)
(* the head that are due have their own time, the others what stands       *)
(* before them as well.                                                    *)
Left(i) == IF \A j \in 1..i : calltodo[j].time <= 0 THEN calltodo[i].time ELSE Passed(calltodo, i)

(* The list is a queue of timers, each with the time it has left: every    *)
(* tick takes one from all of them, at whatever point of the list they     *)
(* are, none is called early, and they are called in the order in which    *)
(* they are due.  And the variables keep their types.                      *)
Timers == INSTANCE Timers WITH
              pending <- [i \in DOMAIN calltodo |-> [what |-> calltodo[i].what, left |-> Left(i)]]

TimersSpec == []TypeOK /\ Timers!Spec

(* What is in the list and is not cancelled is called, though other timers *)
(* are set and cancelled all the time.                                     *)
Pending(w) == \E i \in DOMAIN calltodo : calltodo[i].what = w

IsCalled == \A w \in What :
                <>[][~Untimeout(w)]_vars => []<>(calling = w \/ ~Pending(w))

=============================================================================

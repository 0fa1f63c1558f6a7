-------------------------------- MODULE Synch --------------------------------
(***************************************************************************)
(* Sleeping, waking, stopping and signalling of processes: sleep, unsleep, *)
(* wakeup, setrun, setrq and swtch (src/sys/sys/kern_synch.c), psignal,    *)
(* issig and stop (kern_sig.c).                                            *)
(*                                                                         *)
(* Each operator maps the state k of the process table to its next state,  *)
(* so that a handler that calls several of them is one step.  A process is *)
(* on the sleep queue of p_wchan as long as that is not 0, and all queues  *)
(* are one: any two channels may have the same hash.  No process is        *)
(* traced, in vfork, a child of init or swapped out, and none masks or     *)
(* ignores a signal.                                                       *)
(***************************************************************************)
EXTENDS FiniteSets

CONSTANTS
    Proc,
    Chan,       \* what processes sleep on
    Breakable,  \* the channels slept on with pri > PZERO
    Sent,       \* Sent[p]: the signals that are sent to p
    Caught,     \* Caught[p]: the signals p has a handler for
    NoChan, NoProc

(* SIGINT ends a process and SIGKILL does so always (sigvec refuses it a   *)
(* handler); SIGTSTP stops one, SIGCONT continues it.                      *)
Sig == {"INT", "KILL", "TSTP", "CONT"}

ASSUME ProcAssumption == NoProc \notin Proc /\ IsFiniteSet(Proc)
ASSUME ChanAssumption == NoChan \notin Chan /\ Breakable \subseteq Chan
ASSUME SigAssumption ==
    Sent \in [Proc -> SUBSET Sig] /\ Caught \in [Proc -> SUBSET (Sig \ {"KILL"})]

Stat == {"SRUN", "SSLEEP", "SSTOP"}

(* p_stat, p_wchan, the run queue qs, p_sig; and whether a panic occurred. *)
Table == [stat : [Proc -> Stat], wchan : [Proc -> Chan \cup {NoChan}], qs : SUBSET Proc,
          sig : [Proc -> SUBSET Sig], panic : BOOLEAN]

InitTable == [stat |-> [p \in Proc |-> "SRUN"], wchan |-> [p \in Proc |-> NoChan], qs |-> Proc,
              sig |-> [p \in Proc |-> {}], panic |-> FALSE]

Setrq(k, p) == [k EXCEPT !.panic = @ \/ p \in k.qs, !.qs = @ \cup {p}]

Unsleep(k, p) == [k EXCEPT !.wchan[p] = NoChan]

(* Mutant of Setrun: without the unsleep. *)
Setrun_OnQueue(k, p) ==
    IF k.stat[p] = "SRUN" THEN [k EXCEPT !.panic = TRUE]
    ELSE Setrq([k EXCEPT !.stat[p] = "SRUN"], p)

(* setrun panics unless p sleeps or is stopped. *)
Setrun(k, p) ==
    IF k.stat[p] = "SRUN" THEN [k EXCEPT !.panic = TRUE]
    ELSE Setrq([Unsleep(k, p) EXCEPT !.stat[p] = "SRUN"], p)

(* All processes that sleep on c.  A stopped one stays stopped, but does   *)
(* not wait any more.                                                      *)
Wakeup(k, c) ==
    LET sleepers == {p \in Proc : k.wchan[p] = c}
        run == {p \in sleepers : k.stat[p] = "SSLEEP"} IN
    [k EXCEPT !.wchan = [p \in Proc |-> IF p \in sleepers THEN NoChan ELSE @[p]],
              !.stat = [p \in Proc |-> IF p \in run THEN "SRUN" ELSE @[p]],
              !.qs = @ \cup run,
              !.panic = \/ @ \/ run \cap k.qs # {}
                        \/ \E p \in Proc : k.wchan[p] # NoChan /\ k.stat[p] = "SRUN"]

(* Mutant of Stop: sets the abandoned state. *)
Stop_Wait(k, p) == [k EXCEPT !.stat[p] = "SWAIT"]

(* stop: the parent is told. *)
Stop(k, p) == [k EXCEPT !.stat[p] = "SSTOP"]

Catches(p, s) == s \in Caught[p]

(* Signals on which psig ends the process. *)
Fatal(p, s) == s \in {"INT", "KILL"} /\ ~Catches(p, s)

(* Sleeps that a signal may end. *)
MayBreak(k, p) == k.wchan[p] \in Breakable

(* psignal's first half: SIGCONT and the stop signals undo each other. *)
Posted(k, p, s) ==
    [k EXCEPT !.sig[p] = (@ \cup {s}) \ (CASE s = "CONT" -> {"TSTP"} [] s = "TSTP" -> {"CONT"} [] OTHER -> {})]

TakeAway(k, p, s) == [k EXCEPT !.sig[p] = @ \ {s}]

PsignalAsleep(k, p, s) ==
    IF ~MayBreak(k, p) THEN k
    ELSE IF s = "TSTP" /\ ~Catches(p, s) THEN Stop(TakeAway(k, p, s), p)
    ELSE Setrun(k, p)

(* Mutant of PsignalStopped: the sleep of a stopped process goes on. *)
PsignalStopped_Sleeps(k, p, s) ==
    CASE s = "KILL" -> Setrun(k, p)
      [] s = "CONT" -> IF Catches(p, s) \/ k.wchan[p] = NoChan
                       THEN Setrun(k, p)
                       ELSE [k EXCEPT !.stat[p] = "SSLEEP"]
      [] s = "TSTP" -> TakeAway(k, p, s)
      [] OTHER -> k

(* SIGKILL always makes the process run; SIGCONT continues it or its       *)
(* sleep; other signals see to it that the process looks at them when it   *)
(* is continued.                                                           *)
PsignalStopped(k, p, s) ==
    CASE s = "KILL" -> Setrun(k, p)
      [] s = "CONT" -> IF Catches(p, s) \/ k.wchan[p] = NoChan
                       THEN Setrun(k, p)
                       ELSE [k EXCEPT !.stat[p] = "SSLEEP"]
      [] s = "TSTP" -> TakeAway(k, p, s)
      [] OTHER -> IF MayBreak(k, p) THEN Unsleep(k, p) ELSE k

Psignal(k, p, s) ==
    CASE k.stat[p] = "SSLEEP" -> PsignalAsleep(Posted(k, p, s), p, s)
      [] k.stat[p] = "SSTOP"  -> PsignalStopped(Posted(k, p, s), p, s)
      [] k.stat[p] = "SRUN"   -> Posted(k, p, s)

(* issig: the signals in the order of their numbers, 2, 9, 18 and 19,      *)
(* until one stops p or is for psig, which calls the handler or exit.      *)
Issig(k, p) ==
    LET pending == k.sig[p]
        Send(s) == [kind |-> IF Fatal(p, s) THEN "exit" ELSE "send", k |-> TakeAway(k, p, s)] IN
    CASE "INT" \in pending -> Send("INT")
      [] "INT" \notin pending /\ "KILL" \in pending -> Send("KILL")
      [] pending \cap {"INT", "KILL"} = {} /\ "TSTP" \in pending ->
            IF Catches(p, "TSTP")
            THEN Send("TSTP")
            ELSE [kind |-> "stop", k |-> Stop(TakeAway(k, p, "TSTP"), p)]
      [] pending = {"CONT"} ->
            IF Catches(p, "CONT")
            THEN Send("CONT")
            ELSE [kind |-> "none", k |-> TakeAway(k, p, "CONT")]
      [] pending = {} -> [kind |-> "none", k |-> k]

=============================================================================

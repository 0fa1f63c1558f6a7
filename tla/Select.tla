------------------------------- MODULE Select -------------------------------
(***************************************************************************)
(* select on terminals: select, unselect, selscan and selwakeup            *)
(* (src/sys/sys/sys_generic.c), ttselect and ttwakeup (tty.c), over sleep, *)
(* wakeup and signals (Synch).                                             *)
(*                                                                         *)
(* A process looks at its terminals one by one, and goes to sleep on       *)
(* selwait.  Terminal and clock interrupts come between any two steps; a   *)
(* step is what the code does at raised priority.  Processes also sleep    *)
(* where signals do not disturb them (chan "disk").                        *)
(***************************************************************************)
EXTENDS Synch

CONSTANT Tty

ASSUME SleepAssumption ==
    /\ {"selwait", "disk"} \subseteq Chan
    /\ "selwait" \in Breakable /\ "disk" \notin Breakable

VARIABLES
    k,          \* the process table
    cpu,        \* the process that runs
    pc,         \* where each process is
    want,       \* want[p]: the terminals of p's select
    timed,      \* timed[p]: the select has a timeout
    expired,    \* expired[p]: that is over
    armed,      \* armed[p]: unselect(p) is in the callout list
    ssel,       \* SSEL in p_flag
    todo,       \* the terminals that the running process has still to look at
    found,      \* whether one had input
    collided,   \* whether nselcoll has moved since it began to
    rsel,       \* t_rsel
    coll,       \* TS_RCOLL
    ready       \* whether there is input

calls == <<pc, want, timed, expired, armed, ssel>>
scan == <<todo, found, collided>>
ttys == <<rsel, coll, ready>>
vars == <<k, cpu, calls, scan, ttys>>

Location == {"user", "trap", "stop trap", "exit", "retry", "scan", "check",
             "swtch", "issig", "stop issig", "asleep", "stop asleep", "block", "blocked"}

(* Those in which the processor is about to be given up: stat is not SRUN  *)
(* unless an interrupt has already changed it back.                        *)
Leaving == {"swtch", "block", "stop trap", "stop issig", "stop asleep"}

(* The locals of select are of no use before and after the scan. *)
ScanOver == todo' = {} /\ found' = FALSE /\ collided' = FALSE

(* In user mode, on the way back to it, or at the end. *)
Returning == {"user", "trap", "stop trap", "exit"}

InSelect == Location \ (Returning \cup {"block", "blocked"})

Runs(p, s) == cpu = p /\ pc[p] = s

Goto(p, s) == pc' = [pc EXCEPT ![p] = s]

Init ==
    /\ k = InitTable /\ cpu = NoProc
    /\ pc = [p \in Proc |-> "user"]
    /\ want = [p \in Proc |-> {}]
    /\ timed = [p \in Proc |-> FALSE] /\ expired = timed /\ armed = timed /\ ssel = timed
    /\ todo = {} /\ found = FALSE /\ collided = FALSE
    /\ rsel = [t \in Tty |-> NoProc]
    /\ coll = [t \in Tty |-> FALSE] /\ ready = coll

-----------------------------------------------------------------------------
(* swtch, and the way back to user mode *)

(* swtch's choice among the processes on the run queue. *)
Dispatch(p) ==
    /\ cpu = NoProc /\ p \in k.qs
    /\ k' = [k EXCEPT !.qs = @ \ {p}]
    /\ cpu' = p
    /\ UNCHANGED <<calls, scan, ttys>>

(* Where a process that has given up the processor goes on. *)
ComesBack(s) ==
    CASE s = "swtch" -> "asleep" [] s = "stop asleep" -> "asleep" [] s = "stop issig" -> "issig"
      [] s = "stop trap" -> "trap" [] s = "block" -> "blocked"

Swtch(p) ==
    /\ cpu = p /\ pc[p] \in Leaving
    /\ Goto(p, ComesBack(pc[p]))
    /\ cpu' = NoProc
    /\ UNCHANGED <<k, want, timed, expired, armed, ssel, scan, ttys>>

(* The end of the time slice: runrun is set. *)
Preempt(p) ==
    /\ Runs(p, "user")
    /\ k' = Setrq(k, p)
    /\ cpu' = NoProc
    /\ UNCHANGED <<calls, scan, ttys>>

(* Where psig leaves a process: it calls a handler, or exit. *)
AfterPsig(i) == IF i.kind = "exit" THEN "exit" ELSE "user"

(* The signals that issig finds on the way out of the kernel. *)
Trap(p) ==
    /\ Runs(p, "trap")
    /\ LET i == Issig(k, p) IN
       /\ k' = i.k
       /\ Goto(p, IF i.kind = "stop" THEN "stop trap" ELSE AfterPsig(i))
    /\ UNCHANGED <<cpu, want, timed, expired, armed, ssel, scan, ttys>>

(* psig calls exit.  Its parent waits for it and forks at once: a new      *)
(* process has the entry, the address of which t_rsel may still hold.      *)
Exit(p) ==
    /\ Runs(p, "exit")
    /\ k' = Setrq([k EXCEPT !.sig[p] = {}], p)
    /\ cpu' = NoProc
    /\ ssel' = [ssel EXCEPT ![p] = FALSE]
    /\ Goto(p, "user")
    /\ UNCHANGED <<want, timed, expired, armed, scan, ttys>>

(* A sleep at a priority that signals do not break. *)
Block(p) ==
    /\ Runs(p, "user")
    /\ k' = [k EXCEPT !.wchan[p] = "disk", !.stat[p] = "SSLEEP"]
    /\ Goto(p, "block")
    /\ UNCHANGED <<cpu, want, timed, expired, armed, ssel, scan, ttys>>

Unblocked(p) ==
    /\ Runs(p, "blocked")
    /\ Goto(p, "trap")
    /\ UNCHANGED <<k, cpu, want, timed, expired, armed, ssel, scan, ttys>>

-----------------------------------------------------------------------------
(* select *)

Call(p) ==
    /\ Runs(p, "user")
    /\ \E w \in SUBSET Tty \ {{}} : want' = [want EXCEPT ![p] = w]
    /\ \E b \in BOOLEAN : timed' = [timed EXCEPT ![p] = b]
    /\ expired' = [expired EXCEPT ![p] = FALSE]
    /\ Goto(p, "retry")
    /\ UNCHANGED <<k, cpu, armed, ssel, scan, ttys>>

(* The call is over, and p goes on at s. *)
Return(p, s) ==
    /\ Goto(p, s)
    /\ want' = [want EXCEPT ![p] = {}]
    /\ timed' = [timed EXCEPT ![p] = FALSE]
    /\ expired' = [expired EXCEPT ![p] = FALSE]
    /\ armed' = [armed EXCEPT ![p] = FALSE]

(* done: with the bits or without. *)
Done(p) == Return(p, "trap")

(* EINTR (through u_qsave), and psig, as the signal is in p_cursig. *)
Interrupted(p, i) == i.kind \in {"send", "exit"} /\ Return(p, AfterPsig(i))

Retry(p) ==
    /\ Runs(p, "retry")
    /\ collided' = FALSE /\ found' = FALSE
    /\ ssel' = [ssel EXCEPT ![p] = TRUE]
    /\ todo' = want[p]
    /\ Goto(p, "scan")
    /\ UNCHANGED <<k, cpu, want, timed, expired, armed, ttys>>

(* Mutant of Ttselect: never reports a collision. *)
Ttselect_NoCollision(p, t) == rsel' = [rsel EXCEPT ![t] = p] /\ UNCHANGED coll

(* ttselect, when there is no input: p leaves its name, or, if another is  *)
(* asleep there, word that there are two.                                  *)
Ttselect(p, t) ==
    IF rsel[t] # NoProc /\ k.wchan[rsel[t]] = "selwait"
    THEN coll' = [coll EXCEPT ![t] = TRUE] /\ UNCHANGED rsel
    ELSE rsel' = [rsel EXCEPT ![t] = p] /\ UNCHANGED coll

Scan(p) ==
    /\ Runs(p, "scan")
    /\ \E t \in todo :
          /\ todo' = todo \ {t}
          /\ IF ready[t]
             THEN found' = TRUE /\ UNCHANGED <<rsel, coll>>
             ELSE Ttselect(p, t) /\ UNCHANGED found
    /\ UNCHANGED <<k, cpu, calls, collided, ready>>

Scanned(p) ==
    /\ Runs(p, "scan") /\ todo = {}
    /\ IF found
       THEN Done(p) /\ ScanOver
       ELSE Goto(p, "check") /\ UNCHANGED <<want, timed, expired, armed, scan>>
    /\ UNCHANGED <<k, cpu, ssel, ttys>>

TimeOut(p) ==
    /\ Runs(p, "check") /\ timed[p] /\ expired[p]
    /\ Done(p) /\ ScanOver
    /\ UNCHANGED <<k, cpu, ssel, ttys>>

(* Something came while the terminals were looked at. *)
MustRetry(p) == ~ssel[p] \/ collided

Again(p) ==
    /\ Runs(p, "check") /\ ~(timed[p] /\ expired[p])
    /\ MustRetry(p)
    /\ ssel' = [ssel EXCEPT ![p] = FALSE]
    /\ Goto(p, "retry") /\ ScanOver
    /\ UNCHANGED <<k, cpu, want, timed, expired, armed, ttys>>

(* Mutant of Arm: forgets it. *)
Arm_Not(p) == UNCHANGED armed

(* select's timeout. *)
Arm(p) == armed' = [armed EXCEPT ![p] = timed[p]]

(* Still at splhigh: the timeout is set, and sleep puts p on its queue and *)
(* looks for signals.  One that is caught or kills ends the call; one that *)
(* stops p makes issig give up the processor; otherwise sleep does, at     *)
(* spl0.                                                                   *)
Sleep(p) ==
    /\ Runs(p, "check") /\ ~(timed[p] /\ expired[p])
    /\ ~MustRetry(p)
    /\ ssel' = [ssel EXCEPT ![p] = FALSE]
    /\ LET i == Issig([k EXCEPT !.wchan[p] = "selwait"], p) IN
       \/ /\ Interrupted(p, i)
          /\ k' = Unsleep(i.k, p)
          /\ UNCHANGED cpu
       \/ /\ i.kind = "stop"
          /\ k' = i.k
          /\ Goto(p, "issig") /\ cpu' = NoProc
          /\ Arm(p)
          /\ UNCHANGED <<want, timed, expired>>
       \/ /\ i.kind = "none"
          /\ k' = [i.k EXCEPT !.stat[p] = "SSLEEP"]
          /\ Goto(p, "swtch")
          /\ Arm(p)
          /\ UNCHANGED <<cpu, want, timed, expired>>
    /\ ScanOver
    /\ UNCHANGED ttys

(* sleep returns, and select looks again. *)
Awake(p) ==
    /\ Goto(p, "retry")
    /\ armed' = [armed EXCEPT ![p] = FALSE]
    /\ UNCHANGED <<want, timed, expired>>

(* Continued after a stop inside issig: look for more signals.  A wakeup   *)
(* may have come meanwhile, and then p_wchan is 0.                         *)
Issigged(p) ==
    /\ Runs(p, "issig")
    /\ LET i == Issig(k, p) IN
       \/ /\ Interrupted(p, i)
          /\ k' = Unsleep(i.k, p)
       \/ /\ i.kind = "stop"
          /\ k' = i.k
          /\ Goto(p, "stop issig") /\ UNCHANGED <<want, timed, expired, armed>>
       \/ /\ i.kind = "none" /\ k.wchan[p] = NoChan
          /\ k' = i.k
          /\ Awake(p)
    /\ UNCHANGED <<cpu, ssel, scan, ttys>>

(* sleep's second look for signals, after it was woken. *)
Woken(p) ==
    /\ Runs(p, "asleep")
    /\ LET i == Issig(k, p) IN
       /\ k' = i.k
       /\ \/ Interrupted(p, i)
          \/ i.kind = "stop" /\ Goto(p, "stop asleep") /\ UNCHANGED <<want, timed, expired, armed>>
          \/ i.kind = "none" /\ Awake(p)
    /\ UNCHANGED <<cpu, ssel, scan, ttys>>

-----------------------------------------------------------------------------
(* Interrupts *)

(* Mutant of Selwakeup1: makes a stopped process run. *)
Selwakeup1_Runs(j, p) == IF j.wchan[p] = "selwait" THEN Setrun(j, p) ELSE j

(* selwakeup's second half: p is woken if it is asleep in select; if it is *)
(* stopped there, it will look again when it is continued.                 *)
Selwakeup1(j, p) ==
    IF j.wchan[p] # "selwait" THEN j
    ELSE IF j.stat[p] = "SSLEEP" THEN Setrun(j, p) ELSE Unsleep(j, p)

(* Characters for t: ttwakeup, selwakeup. *)
Input(t) ==
    /\ ~ready[t]
    /\ ready' = [ready EXCEPT ![t] = TRUE]
    /\ IF rsel[t] = NoProc
       THEN UNCHANGED <<k, ssel, collided, rsel, coll>>
       ELSE LET p == rsel[t]
                j == IF coll[t] THEN Wakeup(k, "selwait") ELSE k IN
            /\ k' = Selwakeup1(j, p)
            /\ ssel' = [ssel EXCEPT ![p] = @ /\ j.wchan[p] = "selwait"]
            /\ collided' = (collided \/ (coll[t] /\ \E q \in Proc : pc[q] \in {"scan", "check"}))
            /\ rsel' = [rsel EXCEPT ![t] = NoProc]
            /\ coll' = [coll EXCEPT ![t] = FALSE]
    /\ UNCHANGED <<cpu, pc, want, timed, expired, armed, todo, found>>

(* Somebody else has read it all; for that the processor must be free. *)
Drain(t) ==
    /\ ready[t]
    /\ \A p \in Proc : cpu = p => pc[p] = "user"
    /\ ready' = [ready EXCEPT ![t] = FALSE]
    /\ UNCHANGED <<k, cpu, calls, scan, rsel, coll>>

(* The time is over.  unselect may come earlier: hzto counts in seconds.   *)
Expire(p) ==
    /\ timed[p] /\ ~expired[p]
    /\ expired' = [expired EXCEPT ![p] = TRUE]
    /\ UNCHANGED <<k, cpu, pc, want, timed, armed, ssel, scan, ttys>>

(* unselect, from softclock. *)
Unselect(p) ==
    /\ armed[p]
    /\ armed' = [armed EXCEPT ![p] = FALSE]
    /\ k' = CASE k.stat[p] = "SSLEEP" -> Setrun(k, p)
              [] k.stat[p] = "SSTOP" -> Unsleep(k, p)
              [] k.stat[p] = "SRUN" -> k
    /\ UNCHANGED <<cpu, pc, want, timed, expired, ssel, scan, ttys>>

(* kill, the terminal's keys, a timer. *)
Signal(p) ==
    /\ \E s \in Sent[p] : k' = Psignal(k, p, s)
    /\ UNCHANGED <<cpu, calls, scan, ttys>>

DiskDone ==
    /\ \E p \in Proc : k.wchan[p] = "disk"
    /\ k' = Wakeup(k, "disk")
    /\ UNCHANGED <<cpu, calls, scan, ttys>>

-----------------------------------------------------------------------------
Step(p) == \/ Swtch(p) \/ Trap(p) \/ Exit(p) \/ Unblocked(p) \/ Retry(p) \/ Scan(p) \/ Scanned(p)
           \/ TimeOut(p) \/ Again(p) \/ Sleep(p) \/ Issigged(p) \/ Woken(p)

Next == \/ \E p \in Proc : \/ Dispatch(p) \/ Preempt(p) \/ Block(p) \/ Call(p) \/ Step(p)
                           \/ Expire(p) \/ Unselect(p) \/ Signal(p)
        \/ \E t \in Tty : Input(t) \/ Drain(t)
        \/ DiskDone

Spec == Init /\ [][Next]_vars

(* Kernel code runs on, time slices end, ready processes are chosen in the *)
(* end (schedcpu ages priorities), the clock and the disk interrupt.       *)
Fairness ==
    /\ \A p \in Proc : /\ WF_vars(Step(p)) /\ SF_vars(Dispatch(p)) /\ SF_vars(Preempt(p))
                       /\ WF_vars(Expire(p)) /\ WF_vars(Unselect(p))
    /\ WF_vars(DiskDone)

FairSpec == Spec /\ Fairness

-----------------------------------------------------------------------------
(* Properties *)

TypeOK ==
    /\ k \in Table /\ cpu \in Proc \cup {NoProc}
    /\ pc \in [Proc -> Location]
    /\ want \in [Proc -> SUBSET Tty] /\ todo \subseteq Tty
    /\ {timed, expired, armed, ssel} \subseteq [Proc -> BOOLEAN]
    /\ found \in BOOLEAN /\ collided \in BOOLEAN
    /\ rsel \in [Tty -> Proc \cup {NoProc}] /\ {coll, ready} \subseteq [Tty -> BOOLEAN]

(* A process is in one place: it runs, is on the run queue, sleeps on a    *)
(* sleep queue or is stopped; also when it is woken, signalled or          *)
(* continued between the time it is made to sleep or stop and the time it  *)
(* gives up the processor.  And nobody panics about it.                    *)
InOnePlace ==
    /\ ~k.panic
    /\ \A p \in Proc :
          /\ k.stat[p] = "SSLEEP" => k.wchan[p] # NoChan
          /\ k.stat[p] = "SRUN" => k.wchan[p] = NoChan
          /\ IF cpu = p /\ pc[p] \notin Leaving
             THEN k.stat[p] = "SRUN" /\ p \notin k.qs
             ELSE (k.stat[p] = "SRUN") <=> (p \in k.qs)

(* Nobody waits in select for a terminal that has input already, or whose  *)
(* input will not wake it, be it stopped or not.                           *)
HearsInput ==
    \A p \in Proc : k.wchan[p] = "selwait" =>
        \A t \in want[p] : ~ready[t] /\ (rsel[t] = p \/ (rsel[t] # NoProc /\ coll[t]))

(* Nobody sleeps in select with a signal that should stop it or end its    *)
(* sleep, and nobody stays stopped that is to be killed.                   *)
HearsSignals ==
    \A p \in Proc :
        /\ k.stat[p] = "SSLEEP" /\ MayBreak(k, p) => \A s \in k.sig[p] : s = "CONT" /\ ~Catches(p, s)
        /\ k.stat[p] = "SSTOP" => "KILL" \notin k.sig[p]

(* Only SIGCONT and SIGKILL make a stopped process go on, neither input    *)
(* nor time nor another signal.                                            *)
StopHolds ==
    [][\A p \in Proc :
          k.stat[p] = "SSTOP" /\ k'.stat[p] # "SSTOP" => {"CONT", "KILL"} \cap k'.sig[p] # {}]_vars

(* select returns when there is input, and when its time is over.          *)
SelectReturns ==
    \A p \in Proc :
        (pc[p] \in InSelect /\ (timed[p] \/ \E t \in want[p] : ready[t]))
            ~> (pc[p] \in Returning \/ k.stat[p] = "SSTOP" \/ ~(timed[p] \/ \E t \in want[p] : ready[t]))

=============================================================================

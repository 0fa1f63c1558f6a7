---------------------------- MODULE SelectProofs ----------------------------
(***************************************************************************)
(* Proofs about Select for any processes, terminals and signals caught: a  *)
(* process is in one place, nobody sleeps in select through input or a     *)
(* signal, and only SIGCONT and SIGKILL end a stop.                        *)
(* The last part is about the callout list that select's timeouts are in:  *)
(* Callout implements Timers.                                              *)
(*                                                                         *)
(* The inductive invariant IInv adds to these that only the process that   *)
(* runs is about to leave the processor or looks at terminals (Control),   *)
(* that what it has looked at is marked (Looked), and what signals can be  *)
(* pending of a stopped process (Entry).  What a step does to the table of *)
(* processes k is said by lemmas on the operators of Synch, most of which  *)
(* change one entry (OneEntry); what interrupts do to the others is, at    *)
(* most, to end their sleep or their stop (OnlyWakes).                     *)
(***************************************************************************)
EXTENDS Select, SeqFacts

(* The callout list (Callout), beside the processes of Select.             *)
CONSTANTS What, Times, NCallout, MaxLate, Nobody
VARIABLES calltodo, soft, calling

Clock == INSTANCE Callout

(* The entry of q in the table j is right, when the processes in R run.    *)
Entry(j, q, R) ==
    /\ j.stat[q] = "SSLEEP" => j.wchan[q] # NoChan
    /\ j.stat[q] = "SRUN" => j.wchan[q] = NoChan
    /\ IF q \in R THEN j.stat[q] = "SRUN" /\ q \notin j.qs
                  ELSE (j.stat[q] = "SRUN") <=> (q \in j.qs)
    /\ ~({"TSTP", "CONT"} \subseteq j.sig[q])
    /\ j.stat[q] = "SSTOP" /\ MayBreak(j, q) => j.sig[q] = {}
    /\ j.stat[q] = "SSTOP" => "KILL" \notin j.sig[q]
    /\ j.stat[q] = "SSLEEP" /\ MayBreak(j, q) => \A s \in j.sig[q] : s = "CONT" /\ ~Catches(q, s)

Sound(j, R) == j \in Table /\ j.panic = FALSE /\ \A q \in Proc : Entry(j, q, R)

Running == {p \in Proc : cpu = p /\ pc[p] \notin Leaving}

Control == \A p \in Proc : pc[p] \in Leaving \cup {"scan", "check"} => cpu = p

(* Input for t will wake p, or make it look again. *)
Waits(p, t) == ready[t] = FALSE /\ (rsel[t] = p \/ (rsel[t] # NoProc /\ coll[t] = TRUE))

(* The terminals that p has looked at, unless it will start over. *)
Looked ==
    \A p \in Proc :
        /\ pc[p] \in {"scan", "check"} /\ ssel[p] = TRUE /\ collided = FALSE /\ found = FALSE
              => \A t \in want[p] : t \in todo \/ Waits(p, t)
        /\ pc[p] = "check" => todo = {} /\ found = FALSE

IInv == TypeOK /\ Sound(k, Running) /\ Control /\ Looked /\ HearsInput

-----------------------------------------------------------------------------
(* Types *)

LEMMA SetrunType ==
    ASSUME NEW j \in Table, NEW p \in Proc
    PROVE  Setrun(j, p) \in Table
BY DEF Table, Stat, Setrun, Setrq, Unsleep

LEMMA UnsleepType ==
    ASSUME NEW j \in Table, NEW p \in Proc
    PROVE  Unsleep(j, p) \in Table
BY SMTT(30) DEF Table, Stat, Unsleep

LEMMA WakeupType ==
    ASSUME NEW j \in Table, NEW c \in Chan
    PROVE  Wakeup(j, c) \in Table
BY ZenonT(60) DEF Table, Stat, Wakeup

LEMMA PostedType ==
    ASSUME NEW j \in Table, NEW p \in Proc, NEW s \in Sig
    PROVE  Posted(j, p, s) \in Table
BY DEF Table, Posted, Sig

LEMMA TakeAwayType ==
    ASSUME NEW j \in Table, NEW p \in Proc, NEW s \in Sig
    PROVE  TakeAway(j, p, s) \in Table
BY DEF Table, TakeAway

LEMMA StopType ==
    ASSUME NEW j \in Table, NEW p \in Proc
    PROVE  Stop(j, p) \in Table
BY DEF Table, Stat, Stop

-----------------------------------------------------------------------------
(* The operators of Synch *)

(* From j to j2 nobody goes to sleep, and only SIGCONT and SIGKILL end a   *)
(* stop.                                                                   *)
OnlyWakes(j, j2) ==
    \A q \in Proc : /\ j2.wchan[q] \in {j.wchan[q], NoChan}
                    /\ j.stat[q] = "SSTOP" /\ j2.stat[q] # "SSTOP" => {"CONT", "KILL"} \cap j2.sig[q] # {}

(* j and j2 have the same entry for q, which runs in both or in neither. *)
Same(j, j2, q, R, R2) ==
    /\ j2.stat[q] = j.stat[q] /\ j2.wchan[q] = j.wchan[q] /\ j2.sig[q] = j.sig[q]
    /\ (q \in j2.qs) <=> (q \in j.qs)
    /\ (q \in R2) <=> (q \in R)

(* One changed entry leaves the others as right as they were. *)
LEMMA OneEntry ==
    ASSUME NEW j, NEW j2 \in Table, NEW R, NEW R2, NEW p \in Proc,
           Sound(j, R), j2.panic = FALSE, Entry(j2, p, R2),
           \A q \in Proc \ {p} : Same(j, j2, q, R, R2)
    PROVE  Sound(j2, R2)
BY DEF Sound, Entry, Same, MayBreak

(* A process that is not waiting cannot be broken out of it. *)
LEMMA NoChanHolds ==
    NoChan \notin Breakable /\ NoChan \notin Chan
BY ChanAssumption

LEMMA SetrunSound ==
    ASSUME NEW j, NEW R, NEW p \in Proc, Sound(j, R), j.stat[p] # "SRUN"
    PROVE  /\ Sound(Setrun(j, p), R)
           /\ j.stat[p] = "SSLEEP" => OnlyWakes(j, Setrun(j, p))
<1> DEFINE j2 == Setrun(j, p)
<1>1. j \in Table /\ j.panic = FALSE /\ Entry(j, p, R)
  BY DEF Sound
<1>2. j2 \in Table
  BY <1>1, SetrunType
<1>3. p \notin j.qs /\ p \notin R
  BY <1>1 DEF Entry
<1>4. /\ j2.panic = FALSE /\ j2.qs = j.qs \cup {p} /\ j2.sig = j.sig
      /\ j2.stat = [j.stat EXCEPT ![p] = "SRUN"] /\ j2.wchan = [j.wchan EXCEPT ![p] = NoChan]
  BY <1>1, <1>3 DEF Setrun, Setrq, Unsleep, Table
<1>5. \A q \in Proc \ {p} : Same(j, j2, q, R, R)
  BY <1>1, <1>4 DEF Same, Table
<1>6. Entry(j2, p, R)
  BY <1>1, <1>3, <1>4, NoChanHolds DEF Entry, Table, MayBreak
<1>7. Sound(j2, R)
  BY <1>2, <1>4, <1>5, <1>6, OneEntry
<1>8. j.stat[p] = "SSLEEP" => OnlyWakes(j, j2)
  BY <1>1, <1>4 DEF OnlyWakes, Table
<1> QED
  BY <1>7, <1>8

LEMMA UnsleepSound ==
    ASSUME NEW j, NEW R, NEW p \in Proc, Sound(j, R), j.stat[p] # "SSLEEP"
    PROVE  Sound(Unsleep(j, p), R) /\ OnlyWakes(j, Unsleep(j, p))
<1> DEFINE j2 == Unsleep(j, p)
<1>1. j \in Table /\ j.panic = FALSE /\ Entry(j, p, R)
  BY DEF Sound
<1>2. j2 \in Table
  BY <1>1, UnsleepType
<1>3. /\ j2.panic = j.panic /\ j2.qs = j.qs /\ j2.sig = j.sig /\ j2.stat = j.stat
      /\ j2.wchan = [j.wchan EXCEPT ![p] = NoChan]
  BY <1>1 DEF Unsleep, Table
<1>4. \A q \in Proc \ {p} : Same(j, j2, q, R, R)
  BY <1>1, <1>3 DEF Same, Table
<1>5. Entry(j2, p, R)
  BY <1>1, <1>3, NoChanHolds DEF Entry, Table, MayBreak
<1>6. Sound(j2, R)
  BY <1>1, <1>2, <1>3, <1>4, <1>5, OneEntry
<1>7. OnlyWakes(j, j2)
  BY <1>1, <1>3 DEF OnlyWakes, Table
<1> QED
  BY <1>6, <1>7

LEMMA WakeupSound ==
    ASSUME NEW j, NEW R, NEW c \in Chan, Sound(j, R)
    PROVE  /\ Sound(Wakeup(j, c), R) /\ OnlyWakes(j, Wakeup(j, c))
           /\ \A q \in Proc : Wakeup(j, c).wchan[q] # c
<1> DEFINE j2 == Wakeup(j, c)
           run == {q \in Proc : j.wchan[q] = c /\ j.stat[q] = "SSLEEP"}
<1>1. j \in Table /\ j.panic = FALSE /\ \A q \in Proc : Entry(j, q, R)
  BY DEF Sound
<1>2. j2 \in Table
  BY <1>1, WakeupType
<1>3. run \cap j.qs = {}
  BY <1>1 DEF Entry, Table
<1>4. \A q \in Proc : ~(j.wchan[q] # NoChan /\ j.stat[q] = "SRUN")
  BY <1>1 DEF Entry
<1>5. /\ j2.wchan = [q \in Proc |-> IF j.wchan[q] = c THEN NoChan ELSE j.wchan[q]]
      /\ j2.stat = [q \in Proc |-> IF q \in run THEN "SRUN" ELSE j.stat[q]]
      /\ j2.qs = j.qs \cup run /\ j2.sig = j.sig
  BY <1>1 DEF Wakeup, Table
<1>6. j2.panic = FALSE
  BY <1>1, <1>3, <1>4 DEF Wakeup, Table
<1>7. ASSUME NEW q \in Proc PROVE Entry(j2, q, R)
  <2>1. Entry(j, q, R)
    BY <1>1
  <2>2. CASE q \in run
    BY <2>1, <2>2, <1>5, NoChanHolds DEF Entry, MayBreak
  <2>3. CASE q \notin run
    BY <2>1, <2>3, <1>5, NoChanHolds DEF Entry, MayBreak
  <2> QED
    BY <2>2, <2>3
<1>8. OnlyWakes(j, j2)
  BY <1>5 DEF OnlyWakes
<1>9. \A q \in Proc : j2.wchan[q] # c
  BY <1>5, NoChanHolds
<1> QED
  BY <1>2, <1>6, <1>7, <1>8, <1>9 DEF Sound

LEMMA Selwakeup1Sound ==
    ASSUME NEW j, NEW R, NEW p \in Proc, Sound(j, R)
    PROVE  /\ Sound(Selwakeup1(j, p), R) /\ OnlyWakes(j, Selwakeup1(j, p))
           /\ Selwakeup1(j, p).wchan[p] # "selwait"
<1>1. j \in Table /\ Entry(j, p, R)
  BY DEF Sound
<1>2. CASE j.wchan[p] # "selwait"
  BY <1>2 DEF Selwakeup1, OnlyWakes
<1>3. CASE j.wchan[p] = "selwait" /\ j.stat[p] = "SSLEEP"
  <2>1. Setrun(j, p).wchan[p] = NoChan
    BY <1>1, <1>3 DEF Setrun, Setrq, Unsleep, Table
  <2> QED
    BY <1>3, <2>1, SetrunSound, NoChanHolds, SleepAssumption DEF Selwakeup1
<1>4. CASE j.wchan[p] = "selwait" /\ j.stat[p] # "SSLEEP"
  <2>1. Unsleep(j, p).wchan[p] = NoChan
    BY <1>1 DEF Unsleep, Table
  <2> QED
    BY <1>4, <2>1, UnsleepSound, NoChanHolds, SleepAssumption DEF Selwakeup1
<1> QED
  BY <1>2, <1>3, <1>4

-----------------------------------------------------------------------------
(* Signals *)

(* The pending signals after psignal's first half. *)
After(S, s) == IF s = "CONT" THEN (S \cup {s}) \ {"TSTP"}
               ELSE IF s = "TSTP" THEN (S \cup {s}) \ {"CONT"} ELSE S \cup {s}

LEMMA PostedForm ==
    ASSUME NEW j \in Table, NEW p \in Proc, NEW s \in Sig
    PROVE  /\ Posted(j, p, s).stat = j.stat /\ Posted(j, p, s).wchan = j.wchan
           /\ Posted(j, p, s).qs = j.qs /\ Posted(j, p, s).panic = j.panic
           /\ Posted(j, p, s).sig = [j.sig EXCEPT ![p] = After(@, s)]
BY DEF Posted, After, Table, Sig

LEMMA PsignalAsleepSound ==
    ASSUME NEW j, NEW R, NEW p \in Proc, NEW s \in Sig, Sound(j, R), j.stat[p] = "SSLEEP"
    PROVE  LET j2 == PsignalAsleep(Posted(j, p, s), p, s) IN Sound(j2, R) /\ OnlyWakes(j, j2)
<1> DEFINE j1 == Posted(j, p, s)
           j2 == PsignalAsleep(j1, p, s)
<1>1. j \in Table /\ j.panic = FALSE /\ Entry(j, p, R)
  BY DEF Sound
<1>2. /\ j1 \in Table /\ j1.stat = j.stat /\ j1.wchan = j.wchan /\ j1.qs = j.qs /\ j1.panic = FALSE
      /\ j1.sig = [j.sig EXCEPT ![p] = After(@, s)]
  BY <1>1, PostedType, PostedForm
<1>3. MayBreak(j1, p) <=> MayBreak(j, p)
  BY <1>2 DEF MayBreak
<1>4. p \notin j.qs /\ p \notin R /\ j.wchan[p] # NoChan
  BY <1>1 DEF Entry
<1>5. ~({"TSTP", "CONT"} \subseteq j1.sig[p])
  BY <1>1, <1>2 DEF Entry, After, Table
<1>6. CASE ~MayBreak(j, p)
  <2>1. j2 = j1
    BY <1>3, <1>6 DEF PsignalAsleep
  <2>2. \A q \in Proc \ {p} : Same(j, j1, q, R, R)
    BY <1>1, <1>2 DEF Same, Table
  <2>3. Entry(j1, p, R)
    BY <1>1, <1>2, <1>3, <1>5, <1>6 DEF Entry
  <2>4. Sound(j1, R)
    BY <1>2, <2>2, <2>3, OneEntry
  <2>5. OnlyWakes(j, j1)
    BY <1>2 DEF OnlyWakes
  <2> QED
    BY <2>1, <2>4, <2>5
<1>7. CASE MayBreak(j, p) /\ s = "TSTP" /\ ~Catches(p, s)
  <2>1. j2 = Stop(TakeAway(j1, p, s), p)
    BY <1>3, <1>7 DEF PsignalAsleep
  <2>2. j2 \in Table
    BY <1>2, <2>1, TakeAwayType, StopType
  <2>3. /\ j2.stat = [j.stat EXCEPT ![p] = "SSTOP"] /\ j2.wchan = j.wchan /\ j2.qs = j.qs /\ j2.panic = FALSE
        /\ j2.sig = [j1.sig EXCEPT ![p] = @ \ {s}]
    BY <1>1, <1>2, <2>1 DEF Stop, TakeAway, Table
  <2>4. \A q \in Proc \ {p} : Same(j, j2, q, R, R)
    BY <1>1, <1>2, <2>3 DEF Same, Table
  <2>5. j2.sig[p] = {}
    <3>1. \A x \in j.sig[p] : x = "CONT"
      BY <1>1, <1>7 DEF Entry
    <3> QED
      BY <1>1, <1>2, <1>7, <2>3, <3>1 DEF After, Table
  <2>6. Entry(j2, p, R)
    BY <1>1, <1>4, <2>3, <2>5 DEF Entry, Table
  <2>7. Sound(j2, R)
    BY <2>2, <2>3, <2>4, <2>6, OneEntry
  <2>8. OnlyWakes(j, j2)
    BY <1>1, <2>3 DEF OnlyWakes, Table
  <2> QED
    BY <2>7, <2>8
<1>8. CASE MayBreak(j, p) /\ ~(s = "TSTP" /\ ~Catches(p, s))
  <2>1. j2 = Setrun(j1, p)
    BY <1>3, <1>8 DEF PsignalAsleep
  <2>2. j2 \in Table
    BY <1>2, <2>1, SetrunType
  <2>3. /\ j2.stat = [j.stat EXCEPT ![p] = "SRUN"] /\ j2.wchan = [j.wchan EXCEPT ![p] = NoChan]
        /\ j2.qs = j.qs \cup {p} /\ j2.panic = FALSE /\ j2.sig = j1.sig
    BY <1>1, <1>2, <1>4, <2>1 DEF Setrun, Setrq, Unsleep, Table
  <2>4. \A q \in Proc \ {p} : Same(j, j2, q, R, R)
    BY <1>1, <1>2, <2>3 DEF Same, Table
  <2>5. Entry(j2, p, R)
    BY <1>1, <1>4, <1>5, <2>3, NoChanHolds DEF Entry, Table, MayBreak
  <2>6. Sound(j2, R)
    BY <2>2, <2>3, <2>4, <2>5, OneEntry
  <2>7. OnlyWakes(j, j2)
    BY <1>1, <2>3 DEF OnlyWakes, Table
  <2> QED
    BY <2>6, <2>7
<1> QED
  BY <1>6, <1>7, <1>8

LEMMA PsignalStoppedSound ==
    ASSUME NEW j, NEW R, NEW p \in Proc, NEW s \in Sig, Sound(j, R), j.stat[p] = "SSTOP"
    PROVE  LET j2 == PsignalStopped(Posted(j, p, s), p, s) IN Sound(j2, R) /\ OnlyWakes(j, j2)
<1> DEFINE j1 == Posted(j, p, s)
           j2 == PsignalStopped(j1, p, s)
<1>1. j \in Table /\ j.panic = FALSE /\ Entry(j, p, R)
  BY DEF Sound
<1>2. /\ j1 \in Table /\ j1.stat = j.stat /\ j1.wchan = j.wchan /\ j1.qs = j.qs /\ j1.panic = FALSE
      /\ j1.sig = [j.sig EXCEPT ![p] = After(@, s)]
  BY <1>1, PostedType, PostedForm
<1>3. MayBreak(j1, p) <=> MayBreak(j, p)
  BY <1>2 DEF MayBreak
<1>4. p \notin j.qs /\ p \notin R
  BY <1>1 DEF Entry
<1>5. ~({"TSTP", "CONT"} \subseteq j1.sig[p])
  BY <1>1, <1>2 DEF Entry, After, Table
<1>6. MayBreak(j, p) => j1.sig[p] = {s}
  BY <1>1, <1>2 DEF Entry, After, Table
<1>a. s # "KILL" => "KILL" \notin j1.sig[p]
  BY <1>1, <1>2 DEF Entry, After, Table
<1>7. CASE s = "KILL" \/ (s = "CONT" /\ (Catches(p, s) \/ j.wchan[p] = NoChan))
  <2>1. j2 = Setrun(j1, p)
    BY <1>2, <1>7 DEF PsignalStopped
  <2>2. j2 \in Table
    BY <1>2, <2>1, SetrunType
  <2>3. /\ j2.stat = [j.stat EXCEPT ![p] = "SRUN"] /\ j2.wchan = [j.wchan EXCEPT ![p] = NoChan]
        /\ j2.qs = j.qs \cup {p} /\ j2.panic = FALSE /\ j2.sig = j1.sig
    BY <1>1, <1>2, <1>4, <2>1 DEF Setrun, Setrq, Unsleep, Table
  <2>4. \A q \in Proc \ {p} : Same(j, j2, q, R, R)
    BY <1>1, <1>2, <2>3 DEF Same, Table
  <2>5. Entry(j2, p, R)
    BY <1>1, <1>4, <1>5, <2>3, NoChanHolds DEF Entry, Table, MayBreak
  <2>6. Sound(j2, R)
    BY <2>2, <2>3, <2>4, <2>5, OneEntry
  <2>7. {"CONT", "KILL"} \cap j2.sig[p] # {}
    BY <1>1, <1>2, <1>7, <2>3 DEF After, Table
  <2>8. OnlyWakes(j, j2)
    BY <1>1, <2>3, <2>7 DEF OnlyWakes, Table
  <2> QED
    BY <2>6, <2>8
<1>8. CASE s = "CONT" /\ ~Catches(p, s) /\ j.wchan[p] # NoChan
  <2>1. j2 = [j1 EXCEPT !.stat[p] = "SSLEEP"]
    BY <1>2, <1>8 DEF PsignalStopped
  <2>2. /\ j2 \in Table
        /\ j2.stat = [j.stat EXCEPT ![p] = "SSLEEP"] /\ j2.wchan = j.wchan
        /\ j2.qs = j.qs /\ j2.panic = FALSE /\ j2.sig = j1.sig
    BY <1>1, <1>2, <2>1 DEF Table, Stat
  <2>3. \A q \in Proc \ {p} : Same(j, j2, q, R, R)
    BY <1>1, <1>2, <2>2 DEF Same, Table
  <2>4. MayBreak(j2, p) => MayBreak(j, p)
    BY <2>2 DEF MayBreak
  <2>5. Entry(j2, p, R)
    BY <1>1, <1>4, <1>5, <1>6, <1>8, <2>2, <2>4 DEF Entry, Table
  <2>6. Sound(j2, R)
    BY <2>2, <2>3, <2>5, OneEntry
  <2>7. "CONT" \in j2.sig[p]
    BY <1>1, <1>2, <1>8, <2>2 DEF After, Table
  <2>8. OnlyWakes(j, j2)
    BY <1>1, <2>2, <2>7 DEF OnlyWakes, Table
  <2> QED
    BY <2>6, <2>8
<1>9. CASE s = "TSTP"
  <2>1. j2 = TakeAway(j1, p, s)
    BY <1>9 DEF PsignalStopped
  <2>a. j2 \in Table
    BY <1>2, <2>1, TakeAwayType
  <2>2. /\ j2 \in Table /\ j2.stat = j.stat /\ j2.wchan = j.wchan /\ j2.qs = j.qs /\ j2.panic = FALSE
        /\ j2.sig = [j1.sig EXCEPT ![p] = @ \ {s}]
    BY <1>1, <1>2, <2>1, <2>a DEF TakeAway, Table
  <2>3. \A q \in Proc \ {p} : Same(j, j2, q, R, R)
    BY <1>1, <1>2, <2>2 DEF Same, Table
  <2>4. MayBreak(j2, p) => MayBreak(j, p)
    BY <2>2 DEF MayBreak
  <2>5. j2.sig[p] = j1.sig[p] \ {s}
    BY <1>2, <2>2 DEF Table
  <2>6. MayBreak(j2, p) => j2.sig[p] = {}
    BY <1>6, <2>4, <2>5
  <2>7. Entry(j2, p, R)
    BY <1>1, <1>4, <1>5, <1>9, <1>a, <2>2, <2>5, <2>6 DEF Entry
  <2>8. Sound(j2, R)
    BY <2>2, <2>3, <2>7, OneEntry
  <2>9. OnlyWakes(j, j2)
    BY <2>2 DEF OnlyWakes
  <2> QED
    BY <2>8, <2>9
<1>10. CASE s = "INT" /\ MayBreak(j, p)
  <2>1. j2 = Unsleep(j1, p)
    BY <1>3, <1>10 DEF PsignalStopped
  <2>a. j2 \in Table
    BY <1>2, <2>1, UnsleepType
  <2>2. /\ j2 \in Table /\ j2.stat = j.stat /\ j2.wchan = [j.wchan EXCEPT ![p] = NoChan]
        /\ j2.qs = j.qs /\ j2.panic = FALSE /\ j2.sig = j1.sig
    BY <1>1, <1>2, <2>1, <2>a DEF Unsleep, Table
  <2>3. \A q \in Proc \ {p} : Same(j, j2, q, R, R)
    BY <1>1, <1>2, <2>2 DEF Same, Table
  <2>4. Entry(j2, p, R)
    BY <1>1, <1>4, <1>5, <1>10, <1>a, <2>2, NoChanHolds DEF Entry, Table, MayBreak
  <2>5. Sound(j2, R)
    BY <2>2, <2>3, <2>4, OneEntry
  <2>6. OnlyWakes(j, j2)
    BY <1>1, <2>2 DEF OnlyWakes, Table
  <2> QED
    BY <2>5, <2>6
<1>11. CASE s = "INT" /\ ~MayBreak(j, p)
  <2>1. j2 = j1
    BY <1>3, <1>11 DEF PsignalStopped
  <2>2. \A q \in Proc \ {p} : Same(j, j1, q, R, R)
    BY <1>1, <1>2 DEF Same, Table
  <2>3. Entry(j1, p, R)
    BY <1>1, <1>2, <1>3, <1>5, <1>11, <1>a DEF Entry
  <2>4. Sound(j1, R)
    BY <1>2, <2>2, <2>3, OneEntry
  <2>5. OnlyWakes(j, j1)
    BY <1>2 DEF OnlyWakes
  <2> QED
    BY <2>1, <2>4, <2>5
<1> QED
  BY <1>7, <1>8, <1>9, <1>10, <1>11 DEF Sig

LEMMA PsignalSound ==
    ASSUME NEW j, NEW R, NEW p \in Proc, NEW s \in Sig, Sound(j, R)
    PROVE  Sound(Psignal(j, p, s), R) /\ OnlyWakes(j, Psignal(j, p, s))
<1>1. j \in Table /\ j.panic = FALSE /\ Entry(j, p, R)
  BY DEF Sound
<1>2. j.stat[p] \in {"SRUN", "SSLEEP", "SSTOP"}
  BY <1>1 DEF Table, Stat
<1>3. CASE j.stat[p] = "SSLEEP"
  BY <1>3, PsignalAsleepSound DEF Psignal
<1>4. CASE j.stat[p] = "SSTOP"
  BY <1>4, PsignalStoppedSound DEF Psignal
<1>5. CASE j.stat[p] = "SRUN"
  <2> DEFINE j2 == Posted(j, p, s)
  <2>1. Psignal(j, p, s) = j2
    BY <1>5 DEF Psignal
  <2>2. /\ j2 \in Table /\ j2.stat = j.stat /\ j2.wchan = j.wchan /\ j2.qs = j.qs /\ j2.panic = FALSE
        /\ j2.sig = [j.sig EXCEPT ![p] = After(@, s)]
    BY <1>1, PostedType, PostedForm
  <2>3. \A q \in Proc \ {p} : Same(j, j2, q, R, R)
    BY <1>1, <2>2 DEF Same, Table
  <2>4. ~({"TSTP", "CONT"} \subseteq j2.sig[p])
    BY <1>1, <2>2 DEF Entry, After, Table
  <2>5. Entry(j2, p, R)
    BY <1>1, <1>5, <2>2, <2>4 DEF Entry
  <2>6. Sound(j2, R)
    BY <2>2, <2>3, <2>5, OneEntry
  <2>7. OnlyWakes(j, j2)
    BY <2>2 DEF OnlyWakes
  <2> QED
    BY <2>1, <2>6, <2>7
<1> QED
  BY <1>2, <1>3, <1>4, <1>5

(* What issig may find, and what it leaves of the signals of p. *)
LEMMA IssigForm ==
    ASSUME NEW j \in Table, NEW p \in Proc, ~({"TSTP", "CONT"} \subseteq j.sig[p])
    PROVE  LET i == Issig(j, p) IN
           /\ i.kind \in {"send", "exit", "stop", "none"}
           /\ i.k \in Table
           /\ i.k.wchan = j.wchan /\ i.k.qs = j.qs /\ i.k.panic = j.panic
           /\ i.k.sig[p] \subseteq j.sig[p]
           /\ \A q \in Proc \ {p} : i.k.sig[q] = j.sig[q]
           /\ i.kind # "stop" => i.k.stat = j.stat
           /\ i.kind = "stop" => i.k.stat = [j.stat EXCEPT ![p] = "SSTOP"]
           /\ i.kind \in {"stop", "none"} => i.k.sig[p] = {}
<1> DEFINE i == Issig(j, p)
           P == j.sig[p]
           Sending(s) == [kind |-> IF Fatal(p, s) THEN "exit" ELSE "send", k |-> TakeAway(j, p, s)]
<1>0. P \subseteq Sig /\ "INT" \in Sig /\ "KILL" \in Sig /\ "TSTP" \in Sig /\ "CONT" \in Sig
  BY DEF Table, Sig
<1>1. ASSUME NEW s \in Sig
      PROVE  /\ TakeAway(j, p, s) \in Table
             /\ TakeAway(j, p, s).stat = j.stat /\ TakeAway(j, p, s).wchan = j.wchan
             /\ TakeAway(j, p, s).qs = j.qs /\ TakeAway(j, p, s).panic = j.panic
             /\ TakeAway(j, p, s).sig[p] = P \ {s}
             /\ \A q \in Proc \ {p} : TakeAway(j, p, s).sig[q] = j.sig[q]
  <2>1. TakeAway(j, p, s) \in Table
    BY TakeAwayType
  <2> QED
    BY <2>1 DEF TakeAway, Table
<1>2. ASSUME NEW s \in Sig, i = Sending(s)
      PROVE  /\ i.kind \in {"send", "exit"} /\ i.k \in Table
             /\ i.k.stat = j.stat /\ i.k.wchan = j.wchan /\ i.k.qs = j.qs /\ i.k.panic = j.panic
             /\ i.k.sig[p] \subseteq j.sig[p]
             /\ \A q \in Proc \ {p} : i.k.sig[q] = j.sig[q]
  <2>1. i.k = TakeAway(j, p, s) /\ i.kind \in {"send", "exit"}
    BY <1>2
  <2> HIDE DEF i
  <2> QED
    BY <1>1, <2>1
<1>3. CASE \/ "INT" \in P \/ "KILL" \in P
           \/ "TSTP" \in P /\ Catches(p, "TSTP")
           \/ P = {"CONT"} /\ Catches(p, "CONT")
  <2>1. PICK s \in Sig : i = Sending(s)
    BY <1>0, <1>3 DEF Issig
  <2> HIDE DEF Sending
  <2> QED
    BY <1>2, <2>1
<1>4. CASE P \cap {"INT", "KILL"} = {} /\ "TSTP" \in P /\ ~Catches(p, "TSTP")
  <2> DEFINE j1 == TakeAway(j, p, "TSTP")
  <2>1. i = [kind |-> "stop", k |-> Stop(j1, p)]
    BY <1>4 DEF Issig
  <2>2. /\ j1 \in Table /\ j1.stat = j.stat /\ j1.wchan = j.wchan /\ j1.qs = j.qs /\ j1.panic = j.panic
        /\ j1.sig[p] = {} /\ \A q \in Proc \ {p} : j1.sig[q] = j.sig[q]
    BY <1>0, <1>1, <1>4 DEF Sig
  <2>3. Stop(j1, p) \in Table
    BY <2>2, StopType
  <2>4. /\ Stop(j1, p).stat = [j1.stat EXCEPT ![p] = "SSTOP"] /\ Stop(j1, p).wchan = j1.wchan
        /\ Stop(j1, p).qs = j1.qs /\ Stop(j1, p).panic = j1.panic /\ Stop(j1, p).sig = j1.sig
    BY <2>2 DEF Stop, Table
  <2> QED
    BY <2>1, <2>2, <2>3, <2>4
<1>5. CASE P = {"CONT"} /\ ~Catches(p, "CONT")
  <2>1. i = [kind |-> "none", k |-> TakeAway(j, p, "CONT")]
    BY <1>5 DEF Issig
  <2> QED
    BY <1>0, <1>1, <1>5, <2>1
<1>6. CASE P = {}
  <2>1. i = [kind |-> "none", k |-> j]
    BY <1>6 DEF Issig
  <2> QED
    BY <1>6, <2>1
<1>7. \/ "INT" \in P \/ "KILL" \in P \/ P = {"CONT"} \/ P = {}
      \/ P \cap {"INT", "KILL"} = {} /\ "TSTP" \in P
  BY <1>0 DEF Sig
<1> HIDE DEF i, P
<1> QED
  BY <1>3, <1>4, <1>5, <1>6, <1>7 DEF P

-----------------------------------------------------------------------------
(* Steps of the process that runs *)

LEMMA Runner ==
    ASSUME IInv, NEW p \in Proc, cpu = p, pc[p] \notin Leaving
    PROVE  /\ k.stat[p] = "SRUN" /\ k.wchan[p] = NoChan /\ p \notin k.qs
           /\ ~({"TSTP", "CONT"} \subseteq k.sig[p])
           /\ k \in Table /\ k.panic = FALSE
           /\ p \in Running
BY DEF IInv, Sound, Entry, Running

(* A step of p, or to p, that ends neither in the midst of the scan nor    *)
(* asleep in select.                                                       *)
LEMMA OwnStep ==
    ASSUME IInv, TypeOK', NEW p \in Proc,
           cpu \in {p, NoProc}, cpu' \in {p, NoProc},
           pc'[p] \notin {"scan", "check"}, pc'[p] \in Leaving => cpu' = p,
           k'.panic = FALSE, Entry(k', p, Running'),
           k'.wchan[p] # "selwait" \/ (k'.wchan[p] = k.wchan[p] /\ want'[p] = want[p]),
           \A q \in Proc \ {p} :
              /\ k'.stat[q] = k.stat[q] /\ k'.wchan[q] = k.wchan[q] /\ k'.sig[q] = k.sig[q]
              /\ (q \in k'.qs) <=> (q \in k.qs)
              /\ pc'[q] = pc[q] /\ want'[q] = want[q],
           UNCHANGED ttys
    PROVE  IInv'
<1>1. \A q \in Proc \ {p} : q \notin Running /\ q \notin Running'
  BY ProcAssumption DEF Running
<1>2. \A q \in Proc \ {p} : Same(k, k', q, Running, Running')
  BY <1>1 DEF Same
<1>3. Sound(k, Running) /\ k' \in Table
  BY DEF IInv, TypeOK
<1>4. Sound(k', Running')
  BY <1>2, <1>3, OneEntry
<1>5. \A q \in Proc \ {p} : pc[q] \notin Leaving \cup {"scan", "check"}
  BY ProcAssumption DEF IInv, Control
<1>6. Control'
  BY <1>5 DEF Control
<1>7. Looked'
  BY <1>5 DEF Looked
<1>8. HearsInput'
  BY DEF IInv, HearsInput, ttys
<1> QED
  BY <1>4, <1>6, <1>7, <1>8 DEF IInv

LEMMA DispatchKeeps ==
    ASSUME IInv, NEW p \in Proc, Dispatch(p)
    PROVE  IInv'
<1>1. k \in Table /\ k.panic = FALSE /\ Entry(k, p, Running) /\ TypeOK
  BY DEF IInv, Sound
<1>2. /\ cpu = NoProc /\ cpu' = p /\ pc' = pc /\ want' = want /\ ttys' = ttys
      /\ k' = [k EXCEPT !.qs = @ \ {p}] /\ p \in k.qs
  BY DEF Dispatch, calls
<1>3. k' \in Table /\ k'.panic = FALSE /\ k'.qs = k.qs \ {p}
      /\ k'.stat = k.stat /\ k'.wchan = k.wchan /\ k'.sig = k.sig
  BY <1>1, <1>2 DEF Table
<1>4. TypeOK'
  BY <1>1, <1>2, <1>3 DEF TypeOK, Dispatch, calls, scan, ttys
<1>5. pc[p] \notin Leaving \cup {"scan", "check"}
  BY <1>2, ProcAssumption DEF IInv, Control
<1>6. p \in Running' /\ p \notin Running
  BY <1>2, <1>5, ProcAssumption DEF Running
<1>7. Entry(k', p, Running')
  BY <1>1, <1>2, <1>3, <1>6 DEF Entry, MayBreak
<1> QED
  BY <1>2, <1>3, <1>4, <1>5, <1>7, OwnStep

LEMMA SwtchKeeps ==
    ASSUME IInv, NEW p \in Proc, Swtch(p)
    PROVE  IInv'
<1>1. k \in Table /\ k.panic = FALSE /\ Entry(k, p, Running) /\ TypeOK
  BY DEF IInv, Sound
<1>2. /\ cpu = p /\ cpu' = NoProc /\ pc[p] \in Leaving /\ pc' = [pc EXCEPT ![p] = ComesBack(pc[p])]
      /\ want' = want /\ ttys' = ttys /\ k' = k
  BY DEF Swtch, Goto
<1>3. ComesBack(pc[p]) \in {"asleep", "issig", "trap", "blocked"}
  BY <1>2 DEF ComesBack, Leaving
<1>4. pc'[p] = ComesBack(pc[p]) /\ \A q \in Proc \ {p} : pc'[q] = pc[q]
  BY <1>1, <1>2 DEF TypeOK
<1>5. pc' \in [Proc -> Location]
  BY <1>1, <1>2, <1>3 DEF TypeOK, Location
<1>6. TypeOK'
  BY <1>1, <1>2, <1>5 DEF TypeOK, Swtch, scan, ttys
<1>7. pc'[p] \notin Leaving \cup {"scan", "check"}
  BY <1>3, <1>4 DEF Leaving
<1>8. p \notin Running' /\ p \notin Running
  BY <1>2, ProcAssumption DEF Running
<1>9. Entry(k', p, Running')
  BY <1>1, <1>2, <1>8 DEF Entry
<1> QED
  BY <1>1, <1>2, <1>4, <1>6, <1>7, <1>9, OwnStep

LEMMA PreemptKeeps ==
    ASSUME IInv, NEW p \in Proc, Preempt(p)
    PROVE  IInv'
<1>1. TypeOK
  BY DEF IInv
<1>2. /\ cpu = p /\ cpu' = NoProc /\ pc[p] = "user" /\ pc' = pc
      /\ want' = want /\ ttys' = ttys /\ k' = Setrq(k, p)
  BY DEF Preempt, Runs, calls
<1>3. pc[p] \notin Leaving \cup {"scan", "check"}
  BY <1>2 DEF Leaving
<1>4. /\ k.stat[p] = "SRUN" /\ k.wchan[p] = NoChan /\ p \notin k.qs
      /\ ~({"TSTP", "CONT"} \subseteq k.sig[p]) /\ k \in Table /\ k.panic = FALSE
  BY <1>2, <1>3, Runner
<1>5. k' \in Table /\ k'.panic = FALSE /\ k'.qs = k.qs \cup {p}
      /\ k'.stat = k.stat /\ k'.wchan = k.wchan /\ k'.sig = k.sig
  BY <1>2, <1>4 DEF Table, Setrq
<1>6. TypeOK'
  BY <1>1, <1>2, <1>5 DEF TypeOK, Preempt, calls, scan, ttys
<1>7. p \notin Running'
  BY <1>2, ProcAssumption DEF Running
<1>8. Entry(k', p, Running')
  BY <1>4, <1>5, <1>7 DEF Entry
<1> QED
  BY <1>2, <1>3, <1>5, <1>6, <1>8, OwnStep

LEMMA BlockKeeps ==
    ASSUME IInv, NEW p \in Proc, Block(p)
    PROVE  IInv'
<1>1. TypeOK
  BY DEF IInv
<1>2. /\ cpu = p /\ cpu' = p /\ pc[p] = "user" /\ pc' = [pc EXCEPT ![p] = "block"]
      /\ want' = want /\ ttys' = ttys /\ k' = [k EXCEPT !.wchan[p] = "disk", !.stat[p] = "SSLEEP"]
  BY DEF Block, Runs, Goto
<1>3. pc[p] \notin Leaving
  BY <1>2 DEF Leaving
<1>4. /\ p \notin k.qs /\ ~({"TSTP", "CONT"} \subseteq k.sig[p]) /\ k \in Table /\ k.panic = FALSE
  BY <1>2, <1>3, Runner
<1>5. k' \in Table /\ k'.panic = FALSE /\ k'.qs = k.qs
      /\ k'.stat = [k.stat EXCEPT ![p] = "SSLEEP"] /\ k'.wchan = [k.wchan EXCEPT ![p] = "disk"]
      /\ k'.sig = k.sig
  BY <1>2, <1>4, SleepAssumption DEF Table, Stat
<1>6. pc' \in [Proc -> Location] /\ pc'[p] = "block" /\ \A q \in Proc \ {p} : pc'[q] = pc[q]
  BY <1>1, <1>2 DEF TypeOK, Location
<1>7. TypeOK'
  BY <1>1, <1>2, <1>5, <1>6 DEF TypeOK, Block, scan, ttys
<1>8. p \notin Running'
  BY <1>2, <1>6 DEF Running, Leaving
<1>9. k'.stat[p] = "SSLEEP" /\ k'.wchan[p] = "disk" /\ \A q \in Proc \ {p} : k'.stat[q] = k.stat[q] /\ k'.wchan[q] = k.wchan[q]
  BY <1>4, <1>5 DEF Table
<1>10. Entry(k', p, Running')
  BY <1>4, <1>5, <1>8, <1>9, SleepAssumption, NoChanHolds DEF Entry, MayBreak
<1> QED
  BY <1>2, <1>5, <1>6, <1>7, <1>9, <1>10, OwnStep

(* Steps of the running process that leave the table and the terminals     *)
(* alone.                                                                  *)
LEMMA QuietStep ==
    ASSUME IInv, TypeOK', NEW p \in Proc, cpu = p, pc[p] \notin Leaving,
           UNCHANGED <<k, cpu, ttys>>,
           pc'[p] \notin Leaving \cup {"scan", "check"},
           \A q \in Proc \ {p} : pc'[q] = pc[q] /\ want'[q] = want[q]
    PROVE  IInv'
<1>1. /\ k.stat[p] = "SRUN" /\ k.wchan[p] = NoChan /\ p \notin k.qs
      /\ ~({"TSTP", "CONT"} \subseteq k.sig[p]) /\ k.panic = FALSE
  BY Runner
<1>2. p \in Running'
  BY DEF Running
<1>3. Entry(k', p, Running')
  BY <1>1, <1>2 DEF Entry
<1> QED
  BY <1>1, <1>3, OwnStep, NoChanHolds, SleepAssumption

LEMMA UnblockedKeeps ==
    ASSUME IInv, NEW p \in Proc, Unblocked(p)
    PROVE  IInv'
<1>1. TypeOK /\ cpu = p /\ pc[p] \notin Leaving /\ pc' = [pc EXCEPT ![p] = "trap"]
  BY DEF IInv, Unblocked, Runs, Leaving, Goto
<1>2. TypeOK'
  BY <1>1 DEF TypeOK, Location, Unblocked, scan, ttys
<1>3. pc'[p] = "trap" /\ \A q \in Proc \ {p} : pc'[q] = pc[q]
  BY <1>1 DEF TypeOK
<1> QED
  BY <1>1, <1>2, <1>3, QuietStep DEF Unblocked, Leaving

LEMMA CallKeeps ==
    ASSUME IInv, NEW p \in Proc, Call(p)
    PROVE  IInv'
<1>1. TypeOK /\ cpu = p /\ pc[p] \notin Leaving /\ pc' = [pc EXCEPT ![p] = "retry"]
  BY DEF IInv, Call, Runs, Leaving, Goto
<1>a. PICK w \in SUBSET Tty : want' = [want EXCEPT ![p] = w]
  BY DEF Call
<1>b. want' \in [Proc -> SUBSET Tty] /\ \A q \in Proc \ {p} : want'[q] = want[q]
  BY <1>1, <1>a DEF TypeOK
<1>c. PICK b \in BOOLEAN : timed' = [timed EXCEPT ![p] = b]
  BY DEF Call
<1>d. {timed', expired'} \subseteq [Proc -> BOOLEAN]
  BY <1>1, <1>c DEF TypeOK, Call
<1>e. pc' \in [Proc -> Location]
  BY <1>1 DEF TypeOK, Location
<1>2. TypeOK' /\ \A q \in Proc \ {p} : want'[q] = want[q]
  BY <1>1, <1>b, <1>d, <1>e DEF TypeOK, Call, scan, ttys
<1>3. pc'[p] = "retry" /\ \A q \in Proc \ {p} : pc'[q] = pc[q]
  BY <1>1 DEF TypeOK
<1> QED
  BY <1>1, <1>2, <1>3, QuietStep DEF Call, Leaving

(* Exit, and the new process in the entry of the old. *)
LEMMA ExitKeeps ==
    ASSUME IInv, NEW p \in Proc, Exit(p)
    PROVE  IInv'
<1>1. TypeOK
  BY DEF IInv
<1>2. /\ cpu = p /\ cpu' = NoProc /\ pc[p] = "exit" /\ pc' = [pc EXCEPT ![p] = "user"]
      /\ want' = want /\ ttys' = ttys /\ k' = Setrq([k EXCEPT !.sig[p] = {}], p)
  BY DEF Exit, Runs, Goto
<1>3. pc[p] \notin Leaving
  BY <1>2 DEF Leaving
<1>4. k.stat[p] = "SRUN" /\ k.wchan[p] = NoChan /\ p \notin k.qs /\ k \in Table /\ k.panic = FALSE
  BY <1>2, <1>3, Runner
<1>5. k' \in Table /\ k'.panic = FALSE /\ k'.qs = k.qs \cup {p}
      /\ k'.stat = k.stat /\ k'.wchan = k.wchan /\ k'.sig = [k.sig EXCEPT ![p] = {}]
  BY <1>2, <1>4 DEF Table, Setrq
<1>6. k'.sig[p] = {} /\ \A q \in Proc \ {p} : k'.sig[q] = k.sig[q]
  BY <1>4, <1>5 DEF Table
<1>7. pc' \in [Proc -> Location] /\ pc'[p] = "user" /\ \A q \in Proc \ {p} : pc'[q] = pc[q]
  BY <1>1, <1>2 DEF TypeOK, Location
<1>8. ssel' \in [Proc -> BOOLEAN]
  BY <1>1 DEF TypeOK, Exit
<1>9. TypeOK'
  BY <1>1, <1>2, <1>5, <1>7, <1>8 DEF TypeOK, Exit, scan, ttys
<1>10. p \notin Running' /\ pc'[p] \notin Leaving \cup {"scan", "check"}
  BY <1>2, <1>7, ProcAssumption DEF Running, Leaving
<1>11. Entry(k', p, Running')
  BY <1>4, <1>5, <1>6, <1>10 DEF Entry
<1>12. k'.wchan[p] # "selwait"
  BY <1>4, <1>5, NoChanHolds, SleepAssumption
<1> QED
  BY <1>2, <1>5, <1>6, <1>7, <1>9, <1>10, <1>11, <1>12, OwnStep

(* The end of a call, as select or a signal brings it about. *)
LEMMA ReturnForm ==
    ASSUME TypeOK, NEW p \in Proc, NEW s \in Returning, Return(p, s)
    PROVE  /\ pc' \in [Proc -> Location] /\ pc'[p] = s /\ \A q \in Proc \ {p} : pc'[q] = pc[q]
           /\ want' \in [Proc -> SUBSET Tty] /\ \A q \in Proc \ {p} : want'[q] = want[q]
           /\ {timed', expired', armed'} \subseteq [Proc -> BOOLEAN]
<1>1. s \in Location
  BY DEF Returning, Location
<1> QED
  BY <1>1 DEF TypeOK, Return, Goto

LEMMA DoneForm ==
    ASSUME TypeOK, NEW p \in Proc, Done(p)
    PROVE  /\ pc' \in [Proc -> Location] /\ pc'[p] = "trap" /\ \A q \in Proc \ {p} : pc'[q] = pc[q]
           /\ want' \in [Proc -> SUBSET Tty] /\ \A q \in Proc \ {p} : want'[q] = want[q]
           /\ {timed', expired', armed'} \subseteq [Proc -> BOOLEAN]
<1>1. "trap" \in Returning /\ Return(p, "trap")
  BY DEF Done, Returning
<1> QED
  BY <1>1, ReturnForm

LEMMA InterruptedForm ==
    ASSUME TypeOK, NEW p \in Proc, NEW i, Interrupted(p, i)
    PROVE  /\ pc' \in [Proc -> Location] /\ pc'[p] \in {"user", "exit"} /\ \A q \in Proc \ {p} : pc'[q] = pc[q]
           /\ want' \in [Proc -> SUBSET Tty] /\ \A q \in Proc \ {p} : want'[q] = want[q]
           /\ {timed', expired', armed'} \subseteq [Proc -> BOOLEAN]
           /\ i.kind \in {"send", "exit"}
<1>1. AfterPsig(i) \in {"user", "exit"} /\ Return(p, AfterPsig(i)) /\ i.kind \in {"send", "exit"}
  BY DEF Interrupted, AfterPsig
<1>2. AfterPsig(i) \in Returning
  BY <1>1 DEF Returning
<1> QED
  BY <1>1, <1>2, ReturnForm

LEMMA TimeOutKeeps ==
    ASSUME IInv, NEW p \in Proc, TimeOut(p)
    PROVE  IInv'
<1>1. TypeOK /\ cpu = p /\ pc[p] \notin Leaving /\ Done(p) /\ UNCHANGED <<k, cpu, ssel, ttys>> /\ ScanOver
  BY DEF IInv, TimeOut, Runs, Leaving
<1>2. /\ pc' \in [Proc -> Location] /\ pc'[p] = "trap" /\ \A q \in Proc \ {p} : pc'[q] = pc[q]
      /\ want' \in [Proc -> SUBSET Tty] /\ \A q \in Proc \ {p} : want'[q] = want[q]
      /\ {timed', expired', armed'} \subseteq [Proc -> BOOLEAN]
  BY <1>1, DoneForm
<1>3. TypeOK'
  BY ZenonT(60), <1>1, <1>2 DEF TypeOK, ScanOver, ttys
<1> QED
  BY <1>1, <1>2, <1>3, QuietStep DEF Leaving

LEMMA AgainKeeps ==
    ASSUME IInv, NEW p \in Proc, Again(p)
    PROVE  IInv'
<1>1. TypeOK /\ cpu = p /\ pc[p] \notin Leaving /\ pc' = [pc EXCEPT ![p] = "retry"]
  BY DEF IInv, Again, Runs, Leaving, Goto
<1>2. TypeOK'
  BY ZenonT(60), <1>1 DEF TypeOK, Location, Again, ScanOver, ttys
<1>3. pc'[p] = "retry" /\ \A q \in Proc \ {p} : pc'[q] = pc[q]
  BY <1>1 DEF TypeOK
<1> QED
  BY <1>1, <1>2, <1>3, QuietStep DEF Again, Leaving

(* A step of the running process that looks for signals with issig. *)
LEMMA IssigStep ==
    ASSUME IInv, TypeOK', NEW p \in Proc, cpu = p, pc[p] \notin Leaving,
           UNCHANGED <<cpu, ttys>>,
           k' = Issig(k, p).k,
           Issig(k, p).kind = "stop" <=> pc'[p] \in Leaving,
           pc'[p] \notin {"scan", "check"},
           \A q \in Proc \ {p} : pc'[q] = pc[q] /\ want'[q] = want[q]
    PROVE  IInv'
<1>1. /\ k.stat[p] = "SRUN" /\ k.wchan[p] = NoChan /\ p \notin k.qs
      /\ ~({"TSTP", "CONT"} \subseteq k.sig[p]) /\ k \in Table /\ k.panic = FALSE
  BY ZenonT(60), Runner
<1> DEFINE i == Issig(k, p)
<1>2. /\ i.kind \in {"send", "exit", "stop", "none"} /\ i.k \in Table
      /\ i.k.wchan = k.wchan /\ i.k.qs = k.qs /\ i.k.panic = k.panic
      /\ i.k.sig[p] \subseteq k.sig[p]
      /\ \A q \in Proc \ {p} : i.k.sig[q] = k.sig[q]
      /\ i.kind # "stop" => i.k.stat = k.stat
      /\ i.kind = "stop" => i.k.stat = [k.stat EXCEPT ![p] = "SSTOP"]
      /\ i.kind \in {"stop", "none"} => i.k.sig[p] = {}
  BY <1>1, IssigForm
<1>3. \A q \in Proc \ {p} : k'.stat[q] = k.stat[q]
  BY <1>1, <1>2 DEF Table
<1>4. p \in Running' <=> i.kind # "stop"
  BY DEF Running
<1>5. Entry(k', p, Running')
  <2>1. CASE i.kind = "stop"
    <3>1. k'.stat[p] = "SSTOP"
      BY <1>1, <1>2, <2>1 DEF Table
    <3> QED
      BY <1>1, <1>2, <1>4, <2>1, <3>1 DEF Entry
  <2>2. CASE i.kind # "stop"
    BY <1>1, <1>2, <1>4, <2>2 DEF Entry
  <2> QED
    BY <2>1, <2>2
<1>6. k'.panic = FALSE /\ k'.wchan[p] # "selwait"
  BY <1>1, <1>2, NoChanHolds, SleepAssumption
<1> QED
  BY ZenonT(60), <1>2, <1>3, <1>5, <1>6, OwnStep

(* Of a running process p_wchan is 0: unsleep changes nothing. *)
LEMMA UnsleepSame ==
    ASSUME NEW j \in Table, NEW p \in Proc, j.wchan[p] = NoChan
    PROVE  Unsleep(j, p) = j
<1>1. [j.wchan EXCEPT ![p] = NoChan] = j.wchan
  BY DEF Table
<1> QED
  BY <1>1 DEF Unsleep, Table

(* What the table's type is after issig. *)
LEMMA IssigRunner ==
    ASSUME IInv, NEW p \in Proc, cpu = p, pc[p] \notin Leaving
    PROVE  Issig(k, p).k \in Table /\ Unsleep(Issig(k, p).k, p) = Issig(k, p).k
<1>1. k.wchan[p] = NoChan /\ ~({"TSTP", "CONT"} \subseteq k.sig[p]) /\ k \in Table
  BY Runner
<1>2. Issig(k, p).k \in Table /\ Issig(k, p).k.wchan = k.wchan
  BY <1>1, IssigForm
<1> QED
  BY <1>1, <1>2, UnsleepSame

LEMMA TrapKeeps ==
    ASSUME IInv, NEW p \in Proc, Trap(p)
    PROVE  IInv'
<1>1. TypeOK /\ cpu = p /\ pc[p] = "trap" /\ pc[p] \notin Leaving
  BY DEF IInv, Trap, Runs, Leaving
<1>2. k' = Issig(k, p).k /\ pc' = [pc EXCEPT ![p] = IF Issig(k, p).kind = "stop" THEN "stop trap" ELSE AfterPsig(Issig(k, p))]
  BY DEF Trap, Goto
<1>3. k' \in Table
  BY <1>1, <1>2, IssigRunner
<1>4. /\ pc' \in [Proc -> Location]
      /\ pc'[p] = IF Issig(k, p).kind = "stop" THEN "stop trap" ELSE AfterPsig(Issig(k, p))
      /\ \A q \in Proc \ {p} : pc'[q] = pc[q]
  <2>1. AfterPsig(Issig(k, p)) \in Location /\ "stop trap" \in Location
    BY DEF AfterPsig, Location
  <2> QED
    BY <1>1, <1>2, <2>1 DEF TypeOK
<1>5. TypeOK'
  BY <1>1, <1>3, <1>4 DEF TypeOK, Trap, scan, ttys
<1>6. /\ Issig(k, p).kind = "stop" <=> pc'[p] \in Leaving
      /\ pc'[p] \notin {"scan", "check"}
  BY <1>4 DEF Leaving, AfterPsig
<1> QED
  BY <1>1, <1>2, <1>4, <1>5, <1>6, IssigStep DEF Trap

LEMMA AwakeForm ==
    ASSUME TypeOK, NEW p \in Proc, Awake(p)
    PROVE  /\ pc' \in [Proc -> Location] /\ pc'[p] = "retry" /\ \A q \in Proc \ {p} : pc'[q] = pc[q]
           /\ armed' \in [Proc -> BOOLEAN] /\ UNCHANGED <<want, timed, expired>>
BY DEF TypeOK, Awake, Goto, Location

LEMMA IssiggedKeeps ==
    ASSUME IInv, NEW p \in Proc, Issigged(p)
    PROVE  IInv'
<1> DEFINE i == Issig(k, p)
<1>1. TypeOK /\ cpu = p /\ pc[p] \notin Leaving /\ UNCHANGED <<cpu, ssel, scan, ttys>>
  BY DEF IInv, Issigged, Runs, Leaving
<1>2. i.k \in Table /\ Unsleep(i.k, p) = i.k
  BY <1>1, IssigRunner
<1>3. CASE Interrupted(p, i) /\ k' = Unsleep(i.k, p)
  <2>1. /\ pc' \in [Proc -> Location] /\ pc'[p] \in {"user", "exit"} /\ \A q \in Proc \ {p} : pc'[q] = pc[q]
        /\ want' \in [Proc -> SUBSET Tty] /\ \A q \in Proc \ {p} : want'[q] = want[q]
        /\ {timed', expired', armed'} \subseteq [Proc -> BOOLEAN]
        /\ i.kind \in {"send", "exit"}
    BY <1>1, <1>3, InterruptedForm
  <2>2. TypeOK'
    BY <1>1, <1>2, <1>3, <2>1 DEF TypeOK, scan, ttys
  <2> QED
    BY <1>1, <1>2, <1>3, <2>1, <2>2, IssigStep DEF Leaving
<1>4. CASE i.kind = "stop" /\ k' = i.k /\ Goto(p, "stop issig") /\ UNCHANGED <<want, timed, expired, armed>>
  <2>1. pc' \in [Proc -> Location] /\ pc'[p] = "stop issig" /\ \A q \in Proc \ {p} : pc'[q] = pc[q]
    BY <1>1, <1>4 DEF TypeOK, Goto, Location
  <2>2. TypeOK'
    BY <1>1, <1>2, <1>4, <2>1 DEF TypeOK, scan, ttys
  <2> QED
    BY <1>1, <1>4, <2>1, <2>2, IssigStep DEF Leaving
<1>5. CASE i.kind = "none" /\ k' = i.k /\ Awake(p)
  <2>1. /\ pc' \in [Proc -> Location] /\ pc'[p] = "retry" /\ \A q \in Proc \ {p} : pc'[q] = pc[q]
        /\ armed' \in [Proc -> BOOLEAN] /\ UNCHANGED <<want, timed, expired>>
    BY <1>1, <1>5, AwakeForm
  <2>2. TypeOK'
    BY <1>1, <1>2, <1>5, <2>1 DEF TypeOK, scan, ttys
  <2> QED
    BY <1>1, <1>5, <2>1, <2>2, IssigStep DEF Leaving
<1> QED
  BY <1>3, <1>4, <1>5 DEF Issigged

LEMMA WokenKeeps ==
    ASSUME IInv, NEW p \in Proc, Woken(p)
    PROVE  IInv'
<1> DEFINE i == Issig(k, p)
<1>1. TypeOK /\ cpu = p /\ pc[p] \notin Leaving /\ UNCHANGED <<cpu, ssel, scan, ttys>> /\ k' = i.k
  BY DEF IInv, Woken, Runs, Leaving
<1>2. i.k \in Table
  BY <1>1, IssigRunner
<1>3. CASE Interrupted(p, i)
  <2>1. /\ pc' \in [Proc -> Location] /\ pc'[p] \in {"user", "exit"} /\ \A q \in Proc \ {p} : pc'[q] = pc[q]
        /\ want' \in [Proc -> SUBSET Tty] /\ \A q \in Proc \ {p} : want'[q] = want[q]
        /\ {timed', expired', armed'} \subseteq [Proc -> BOOLEAN]
        /\ i.kind \in {"send", "exit"}
    BY <1>1, <1>3, InterruptedForm
  <2>2. TypeOK'
    BY <1>1, <1>2, <2>1 DEF TypeOK, scan, ttys
  <2> QED
    BY <1>1, <1>3, <2>1, <2>2, IssigStep DEF Leaving
<1>4. CASE i.kind = "stop" /\ Goto(p, "stop asleep") /\ UNCHANGED <<want, timed, expired, armed>>
  <2>1. pc' \in [Proc -> Location] /\ pc'[p] = "stop asleep" /\ \A q \in Proc \ {p} : pc'[q] = pc[q]
    BY <1>1, <1>4 DEF TypeOK, Goto, Location
  <2>2. TypeOK'
    BY <1>1, <1>2, <1>4, <2>1 DEF TypeOK, scan, ttys
  <2> QED
    BY <1>1, <1>4, <2>1, <2>2, IssigStep DEF Leaving
<1>5. CASE i.kind = "none" /\ Awake(p)
  <2>1. /\ pc' \in [Proc -> Location] /\ pc'[p] = "retry" /\ \A q \in Proc \ {p} : pc'[q] = pc[q]
        /\ armed' \in [Proc -> BOOLEAN] /\ UNCHANGED <<want, timed, expired>>
    BY <1>1, <1>5, AwakeForm
  <2>2. TypeOK'
    BY <1>1, <1>2, <2>1 DEF TypeOK, scan, ttys
  <2> QED
    BY <1>1, <1>5, <2>1, <2>2, IssigStep DEF Leaving
<1> QED
  BY <1>3, <1>4, <1>5 DEF Woken

-----------------------------------------------------------------------------
(* The scan, and falling asleep *)

(* A step of the running process within the scan, with what it must show   *)
(* of the terminals.                                                       *)
LEMMA ScanStep ==
    ASSUME IInv, TypeOK', NEW p \in Proc, cpu = p, pc[p] \notin Leaving,
           UNCHANGED <<k, cpu, want>>, pc'[p] \in {"scan", "check"},
           \A q \in Proc \ {p} : pc'[q] = pc[q],
           /\ ssel'[p] = TRUE /\ collided' = FALSE /\ found' = FALSE
              => \A t \in want[p] : t \in todo' \/ Waits(p, t)'
           /\ pc'[p] = "check" => todo' = {} /\ found' = FALSE,
           HearsInput'
    PROVE  IInv'
<1>1. \A q \in Proc \ {p} : pc[q] \notin Leaving \cup {"scan", "check"}
  BY ProcAssumption DEF IInv, Control
<1>2. Running' = Running
  BY DEF Running, Leaving
<1>3. Sound(k', Running')
  BY <1>2 DEF IInv
<1>4. Control'
  BY <1>1 DEF Control
<1>5. Looked'
  <2>1. \A q \in Proc \ {p} : pc'[q] \notin {"scan", "check"}
    BY <1>1
  <2> QED
    BY <2>1 DEF Looked
<1> QED
  BY <1>3, <1>4, <1>5 DEF IInv

LEMMA RetryKeeps ==
    ASSUME IInv, NEW p \in Proc, Retry(p)
    PROVE  IInv'
<1>1. TypeOK /\ cpu = p /\ pc[p] \notin Leaving
  BY DEF IInv, Retry, Runs, Leaving
<1>2. /\ pc' = [pc EXCEPT ![p] = "scan"] /\ ssel' = [ssel EXCEPT ![p] = TRUE]
      /\ todo' = want[p] /\ found' = FALSE /\ collided' = FALSE
      /\ UNCHANGED <<k, cpu, want, timed, expired, armed, ttys>>
  BY DEF Retry, Goto
<1>3. pc' \in [Proc -> Location] /\ pc'[p] = "scan" /\ \A q \in Proc \ {p} : pc'[q] = pc[q]
  BY <1>1, <1>2 DEF TypeOK, Location
<1>4. ssel' \in [Proc -> BOOLEAN] /\ todo' \subseteq Tty
  BY <1>1, <1>2 DEF TypeOK
<1>5. TypeOK'
  <2>1. {timed, expired, armed} \subseteq [Proc -> BOOLEAN] /\ UNCHANGED <<rsel, coll, ready>>
    BY <1>1, <1>2 DEF TypeOK, ttys
  <2>2. {timed', expired', armed', ssel'} \subseteq [Proc -> BOOLEAN]
    BY <1>2, <1>4, <2>1
  <2>3. /\ k' \in Table /\ cpu' \in Proc \cup {NoProc}
        /\ want' \in [Proc -> SUBSET Tty]
        /\ found' \in BOOLEAN /\ collided' \in BOOLEAN
        /\ rsel' \in [Tty -> Proc \cup {NoProc}] /\ {coll', ready'} \subseteq [Tty -> BOOLEAN]
    BY <1>1, <1>2, <2>1 DEF TypeOK
  <2> QED
    BY <1>3, <1>4, <2>2, <2>3 DEF TypeOK
<1>6. HearsInput'
  BY <1>2 DEF IInv, HearsInput, ttys
<1> QED
  BY <1>1, <1>2, <1>3, <1>5, <1>6, ScanStep

(* What ttselect leaves for p, and for those that wait already. *)
LEMMA TtselectWaits ==
    ASSUME IInv, NEW p \in Proc, NEW t \in Tty, Ttselect(p, t), ready[t] = FALSE,
           UNCHANGED <<k, want, ready>>
    PROVE  /\ Waits(p, t)'
           /\ rsel' \in [Tty -> Proc \cup {NoProc}] /\ coll' \in [Tty -> BOOLEAN]
           /\ \A u \in Tty \ {t} : rsel'[u] = rsel[u] /\ coll'[u] = coll[u]
           /\ HearsInput'
<1>1. TypeOK
  BY DEF IInv
<1>2. CASE rsel[t] # NoProc /\ k.wchan[rsel[t]] = "selwait"
  <2>1. coll' = [coll EXCEPT ![t] = TRUE] /\ rsel' = rsel
    BY <1>2 DEF Ttselect
  <2>2. /\ coll' \in [Tty -> BOOLEAN] /\ coll'[t] = TRUE
        /\ \A u \in Tty \ {t} : coll'[u] = coll[u]
    BY <1>1, <2>1 DEF TypeOK
  <2>3. HearsInput'
    BY <1>1, <1>2, <2>1, <2>2 DEF IInv, HearsInput, TypeOK
  <2> QED
    BY <1>1, <1>2, <2>1, <2>2, <2>3 DEF Waits, TypeOK
<1>3. CASE ~(rsel[t] # NoProc /\ k.wchan[rsel[t]] = "selwait")
  <2>1. rsel' = [rsel EXCEPT ![t] = p] /\ coll' = coll
    BY <1>3 DEF Ttselect
  <2>2. /\ rsel' \in [Tty -> Proc \cup {NoProc}] /\ rsel'[t] = p
        /\ \A u \in Tty \ {t} : rsel'[u] = rsel[u]
    BY <1>1, <2>1 DEF TypeOK
  <2>3. p # NoProc
    BY ProcAssumption
  <2>4. ASSUME NEW q \in Proc, k.wchan[q] = "selwait", NEW u \in want[q]
        PROVE  ~ready[u] /\ (rsel'[u] = q \/ (rsel'[u] # NoProc /\ coll[u]))
    <3>1. u \in Tty /\ ~ready[u] /\ (rsel[u] = q \/ (rsel[u] # NoProc /\ coll[u]))
      BY <1>1, <2>4 DEF IInv, HearsInput, TypeOK
    <3>2. CASE u = t
      <4>1. q # NoProc
        BY ProcAssumption
      <4> QED
        BY <1>3, <2>2, <2>3, <2>4, <3>1, <3>2, <4>1
    <3>3. CASE u # t
      BY <2>2, <3>1, <3>3
    <3> QED
      BY <3>2, <3>3
  <2>5. HearsInput'
    BY <2>1, <2>4 DEF HearsInput
  <2> QED
    BY <1>1, <2>1, <2>2, <2>5 DEF Waits, TypeOK
<1> QED
  BY <1>2, <1>3

LEMMA ScanKeeps ==
    ASSUME IInv, NEW p \in Proc, Scan(p)
    PROVE  IInv'
<1>1. /\ TypeOK /\ cpu = p /\ pc[p] = "scan" /\ pc[p] \notin Leaving
      /\ UNCHANGED <<k, cpu, pc, want, timed, expired, armed, ssel, collided, ready>>
  BY DEF IInv, Scan, Runs, Leaving, calls
<1>2. PICK t \in todo : /\ todo' = todo \ {t}
                        /\ IF ready[t] THEN found' = TRUE /\ UNCHANGED <<rsel, coll>>
                           ELSE Ttselect(p, t) /\ UNCHANGED found
  BY DEF Scan
<1>3. t \in Tty /\ want[p] \subseteq Tty
  BY <1>1 DEF TypeOK
<1>4. CASE ready[t] = TRUE
  <2>1. found' = TRUE /\ rsel' = rsel /\ coll' = coll
    BY <1>2, <1>4
  <2>2. TypeOK'
    BY <1>1, <1>2, <2>1 DEF TypeOK
  <2>3. HearsInput'
    BY <1>1, <2>1 DEF IInv, HearsInput
  <2> QED
    BY <1>1, <2>1, <2>2, <2>3, ScanStep
<1>5. CASE ready[t] = FALSE
  <2>1. Ttselect(p, t) /\ found' = found
    BY <1>2, <1>5
  <2>2. /\ Waits(p, t)'
        /\ rsel' \in [Tty -> Proc \cup {NoProc}] /\ coll' \in [Tty -> BOOLEAN]
        /\ \A u \in Tty \ {t} : rsel'[u] = rsel[u] /\ coll'[u] = coll[u]
        /\ HearsInput'
    BY <1>1, <1>3, <1>5, <2>1, TtselectWaits
  <2>3. TypeOK'
    BY <1>1, <1>2, <2>1, <2>2 DEF TypeOK
  <2>4. ASSUME ssel'[p] = TRUE, collided' = FALSE, found' = FALSE, NEW u \in want[p]
        PROVE  u \in todo' \/ Waits(p, u)'
    <3>1. u \in todo \/ Waits(p, u)
      BY <1>1, <2>1, <2>4 DEF IInv, Looked
    <3>2. CASE u = t
      BY <2>2, <3>2
    <3>3. CASE u # t
      BY <1>1, <1>2, <1>3, <2>2, <3>1, <3>3 DEF Waits
    <3> QED
      BY <3>2, <3>3
  <2> QED
    BY <1>1, <2>2, <2>3, <2>4, ScanStep
<1>6. ready[t] \in BOOLEAN
  BY <1>1, <1>3 DEF TypeOK
<1> QED
  BY <1>4, <1>5, <1>6

LEMMA ScannedKeeps ==
    ASSUME IInv, NEW p \in Proc, Scanned(p)
    PROVE  IInv'
<1>1. /\ TypeOK /\ cpu = p /\ pc[p] = "scan" /\ pc[p] \notin Leaving /\ todo = {}
      /\ UNCHANGED <<k, cpu, ssel, ttys>>
  BY DEF IInv, Scanned, Runs, Leaving
<1>2. CASE found = TRUE
  <2>1. Done(p) /\ ScanOver
    BY <1>2 DEF Scanned
  <2>2. /\ pc' \in [Proc -> Location] /\ pc'[p] = "trap" /\ \A q \in Proc \ {p} : pc'[q] = pc[q]
        /\ want' \in [Proc -> SUBSET Tty] /\ \A q \in Proc \ {p} : want'[q] = want[q]
        /\ {timed', expired', armed'} \subseteq [Proc -> BOOLEAN]
    BY <1>1, <2>1, DoneForm
  <2>3. TypeOK'
    BY <1>1, <2>1, <2>2 DEF TypeOK, ScanOver, ttys
  <2> QED
    BY <1>1, <2>2, <2>3, QuietStep DEF Leaving
<1>3. CASE found = FALSE
  <2>1. pc' = [pc EXCEPT ![p] = "check"] /\ UNCHANGED <<want, timed, expired, armed, scan>>
    BY <1>3 DEF Scanned, Goto
  <2>2. pc' \in [Proc -> Location] /\ pc'[p] = "check" /\ \A q \in Proc \ {p} : pc'[q] = pc[q]
    BY <1>1, <2>1 DEF TypeOK, Location
  <2>3. TypeOK'
    BY <1>1, <2>1, <2>2 DEF TypeOK, scan, ttys
  <2>4. HearsInput'
    BY <1>1, <2>1 DEF IInv, HearsInput, ttys
  <2>5. ssel'[p] = TRUE /\ collided' = FALSE /\ found' = FALSE
           => \A t \in want[p] : t \in todo' \/ Waits(p, t)'
    BY <1>1, <2>1 DEF IInv, Looked, Waits, scan, ttys
  <2> QED
    BY ZenonT(60), <1>1, <1>3, <2>1, <2>2, <2>3, <2>4, <2>5, ScanStep DEF scan
<1>4. found \in BOOLEAN
  BY <1>1 DEF TypeOK
<1> QED
  BY <1>2, <1>3, <1>4

LEMMA SleepKeeps ==
    ASSUME IInv, NEW p \in Proc, Sleep(p)
    PROVE  IInv'
<1> DEFINE j == [k EXCEPT !.wchan[p] = "selwait"]
           i == Issig(j, p)
<1>1. /\ TypeOK /\ cpu = p /\ pc[p] = "check" /\ pc[p] \notin Leaving /\ ssel[p] /\ ~collided
      /\ ssel' = [ssel EXCEPT ![p] = FALSE] /\ ScanOver /\ UNCHANGED ttys
  BY DEF IInv, Sleep, Runs, Leaving, MustRetry
<1>2. /\ k.stat[p] = "SRUN" /\ k.wchan[p] = NoChan /\ p \notin k.qs
      /\ ~({"TSTP", "CONT"} \subseteq k.sig[p]) /\ k \in Table /\ k.panic = FALSE
  BY <1>1, Runner
<1>3. /\ j \in Table /\ j.stat = k.stat /\ j.qs = k.qs /\ j.sig = k.sig /\ j.panic = k.panic
      /\ j.wchan[p] = "selwait" /\ \A q \in Proc \ {p} : j.wchan[q] = k.wchan[q]
  BY <1>2, SleepAssumption DEF Table
<1>a. \/ Interrupted(p, i) /\ k' = Unsleep(i.k, p) /\ UNCHANGED cpu
      \/ /\ i.kind = "stop" /\ k' = i.k /\ Goto(p, "issig") /\ cpu' = NoProc
         /\ Arm(p) /\ UNCHANGED <<want, timed, expired>>
      \/ /\ i.kind = "none" /\ k' = [i.k EXCEPT !.stat[p] = "SSLEEP"] /\ Goto(p, "swtch")
         /\ Arm(p) /\ UNCHANGED <<cpu, want, timed, expired>>
  BY DEF Sleep
<1> HIDE DEF j
<1>b. ~({"TSTP", "CONT"} \subseteq j.sig[p])
  BY <1>2, <1>3
<1>4. /\ i.kind \in {"send", "exit", "stop", "none"} /\ i.k \in Table
      /\ i.k.wchan = j.wchan /\ i.k.qs = j.qs /\ i.k.panic = j.panic
      /\ i.k.sig[p] \subseteq j.sig[p]
      /\ \A q \in Proc \ {p} : i.k.sig[q] = j.sig[q]
      /\ i.kind # "stop" => i.k.stat = j.stat
      /\ i.kind = "stop" => i.k.stat = [j.stat EXCEPT ![p] = "SSTOP"]
      /\ i.kind \in {"stop", "none"} => i.k.sig[p] = {}
  BY SMTT(30), <1>3, <1>b, IssigForm
<1> HIDE DEF i
<1>5. ssel' \in [Proc -> BOOLEAN]
  BY <1>1 DEF TypeOK
<1>6. CASE Interrupted(p, i) /\ k' = Unsleep(i.k, p) /\ UNCHANGED cpu
  <2>1. /\ pc' \in [Proc -> Location] /\ pc'[p] \in {"user", "exit"} /\ \A q \in Proc \ {p} : pc'[q] = pc[q]
        /\ want' \in [Proc -> SUBSET Tty] /\ \A q \in Proc \ {p} : want'[q] = want[q]
        /\ {timed', expired', armed'} \subseteq [Proc -> BOOLEAN]
        /\ i.kind \in {"send", "exit"}
    BY <1>1, <1>6, InterruptedForm
  <2>2. k' \in Table
    BY <1>4, <1>6, UnsleepType
  <2>3. /\ k'.stat = k.stat /\ k'.qs = k.qs /\ k'.panic = FALSE /\ k'.sig = i.k.sig
        /\ k'.wchan[p] = NoChan /\ \A q \in Proc \ {p} : k'.wchan[q] = k.wchan[q]
    <3>1. PICK l \in Table : l = i.k
      BY <1>4
    <3>2. k' = Unsleep(l, p) /\ l.stat = k.stat /\ l.qs = k.qs /\ l.panic = FALSE /\ l.wchan = j.wchan
      BY <1>2, <1>3, <1>4, <1>6, <2>1, <3>1
    <3>3. /\ k'.stat = l.stat /\ k'.qs = l.qs /\ k'.panic = l.panic /\ k'.sig = l.sig
          /\ k'.wchan = [l.wchan EXCEPT ![p] = NoChan]
      BY <3>2 DEF Unsleep, Table
    <3> QED
      BY <1>3, <3>1, <3>2, <3>3 DEF Table
  <2>4. TypeOK'
    BY <1>1, <1>5, <1>6, <2>1, <2>2 DEF TypeOK, ScanOver, ttys
  <2>5. p \in Running'
    BY <1>1, <1>6, <2>1 DEF Running, Leaving
  <2>6. Entry(k', p, Running')
    BY <1>2, <1>3, <1>4, <2>3, <2>5 DEF Entry
  <2>7. /\ \A q \in Proc \ {p} :
              /\ k'.stat[q] = k.stat[q] /\ k'.wchan[q] = k.wchan[q] /\ k'.sig[q] = k.sig[q]
              /\ (q \in k'.qs) <=> (q \in k.qs)
              /\ pc'[q] = pc[q] /\ want'[q] = want[q]
        /\ k'.wchan[p] # "selwait" /\ k'.panic = FALSE
    BY <1>3, <1>4, <2>1, <2>3, NoChanHolds, SleepAssumption
  <2>8. cpu' = p /\ pc'[p] \notin Leaving \cup {"scan", "check"}
    BY <1>1, <1>6, <2>1 DEF Leaving
  <2> QED
    BY <1>1, <2>4, <2>6, <2>7, <2>8, OwnStep
<1>7. ASSUME i.kind \in {"stop", "none"}, k' \in Table, k'.stat[p] \in {"SSTOP", "SSLEEP"}, k'.wchan = i.k.wchan,
             k'.qs = i.k.qs, k'.sig = i.k.sig, k'.panic = i.k.panic,
             \A q \in Proc \ {p} : k'.stat[q] = k.stat[q],
             Arm(p), UNCHANGED <<want, timed, expired>>,
             \/ pc' = [pc EXCEPT ![p] = "issig"] /\ cpu' = NoProc
             \/ pc' = [pc EXCEPT ![p] = "swtch"] /\ cpu' = cpu
      PROVE  IInv'
  <2>1. /\ pc' \in [Proc -> Location] /\ (\A q \in Proc \ {p} : pc'[q] = pc[q])
        /\ \/ pc'[p] = "issig" /\ cpu' = NoProc
           \/ pc'[p] = "swtch" /\ cpu' = p
    <3>1. pc \in [Proc -> Location]
      BY <1>1 DEF TypeOK
    <3>2. CASE pc' = [pc EXCEPT ![p] = "issig"] /\ cpu' = NoProc
      BY <3>1, <3>2 DEF Location
    <3>3. CASE pc' = [pc EXCEPT ![p] = "swtch"] /\ cpu' = cpu
      BY <1>1, <3>1, <3>3 DEF Location
    <3> QED
      BY <1>7, <3>2, <3>3
  <2>2. armed' \in [Proc -> BOOLEAN]
    BY <1>1, <1>7 DEF TypeOK, Arm
  <2>a. cpu' \in Proc \cup {NoProc}
    BY <2>1
  <2>b. k' \in Table /\ want' = want /\ timed' = timed /\ expired' = expired
    BY <1>7
  <2>c. todo' = {} /\ found' = FALSE /\ collided' = FALSE /\ rsel' = rsel /\ coll' = coll /\ ready' = ready
    BY <1>1 DEF ScanOver, ttys
  <2>d. pc' \in [Proc -> Location]
    BY <2>1
  <2>3. TypeOK'
    BY ZenonT(60), <1>1, <1>5, <2>2, <2>a, <2>b, <2>c, <2>d DEF TypeOK
  <2>4. \A q \in Proc : q \notin Running'
    BY <2>1, ProcAssumption DEF Running, Leaving
  <2>5. \A q \in Proc \ {p} : q \notin Running
    BY <1>1 DEF Running
  <2>6. \A q \in Proc \ {p} : Same(k, k', q, Running, Running')
    BY <1>3, <1>4, <1>7, <2>4, <2>5 DEF Same
  <2>7. Entry(k', p, Running')
    BY <1>2, <1>3, <1>4, <1>7, <2>4, NoChanHolds, SleepAssumption DEF Entry
  <2>8. Sound(k', Running')
    <3>1. Sound(k, Running) /\ k'.panic = FALSE
      BY <1>2, <1>3, <1>4, <1>7 DEF IInv
    <3> QED
      BY <1>7, <2>6, <2>7, <3>1, OneEntry
  <2>9. \A q \in Proc \ {p} : pc[q] \notin Leaving \cup {"scan", "check"}
    BY <1>1, ProcAssumption DEF IInv, Control
  <2>10. Control'
    BY <2>1, <2>9 DEF Control, Leaving
  <2>11. Looked'
    BY <2>1, <2>9 DEF Looked
  <2>12. \A t \in want[p] : Waits(p, t)
    BY <1>1 DEF IInv, Looked, TypeOK
  <2>13. HearsInput'
    <3>1. ASSUME NEW q \in Proc, k'.wchan[q] = "selwait", NEW t \in want[q]
          PROVE  ~ready[t] /\ (rsel[t] = q \/ (rsel[t] # NoProc /\ coll[t]))
      <4>1. CASE q = p
        BY <2>12, <3>1, <4>1 DEF Waits
      <4>2. CASE q # p
        BY <1>3, <1>4, <1>7, <3>1, <4>2 DEF IInv, HearsInput
      <4> QED
        BY <4>1, <4>2
    <3> QED
      BY <1>1, <1>7, <3>1 DEF HearsInput, ttys
  <2> QED
    BY <2>3, <2>8, <2>10, <2>11, <2>13 DEF IInv
<1>8. CASE /\ i.kind = "stop" /\ k' = i.k /\ Goto(p, "issig") /\ cpu' = NoProc
           /\ Arm(p) /\ UNCHANGED <<want, timed, expired>>
  <2>1. k'.stat[p] = "SSTOP" /\ \A q \in Proc \ {p} : k'.stat[q] = k.stat[q]
    BY <1>2, <1>3, <1>4, <1>8 DEF Table
  <2> QED
    BY <1>4, <1>7, <1>8, <2>1 DEF Goto
<1>9. CASE /\ i.kind = "none" /\ k' = [i.k EXCEPT !.stat[p] = "SSLEEP"] /\ Goto(p, "swtch")
           /\ Arm(p) /\ UNCHANGED <<cpu, want, timed, expired>>
  <2>1. i.k \in Table /\ i.k.stat = k.stat
    BY <1>3, <1>4, <1>9
  <2>2. /\ k' \in Table /\ k'.stat = [k.stat EXCEPT ![p] = "SSLEEP"] /\ k'.wchan = i.k.wchan
        /\ k'.qs = i.k.qs /\ k'.sig = i.k.sig /\ k'.panic = i.k.panic
    BY <1>9, <2>1 DEF Table, Stat
  <2>3. k'.stat[p] = "SSLEEP" /\ \A q \in Proc \ {p} : k'.stat[q] = k.stat[q]
    BY <1>2, <2>2 DEF Table
  <2> QED
    BY <1>7, <1>9, <2>2, <2>3 DEF Goto
<1> QED
  BY <1>a, <1>6, <1>8, <1>9

-----------------------------------------------------------------------------
(* Interrupts *)

(* One that touches the table at most by waking and continuing. *)
LEMMA Interrupt ==
    ASSUME IInv, TypeOK', Sound(k', Running), OnlyWakes(k, k'),
           UNCHANGED <<cpu, pc, want, ssel, scan, ttys>>
    PROVE  IInv'
<1>1. Running' = Running
  BY DEF Running
<1>2. Control' /\ Looked'
  BY DEF IInv, Control, Looked, Waits, scan, ttys
<1>3. ASSUME NEW p \in Proc, k'.wchan[p] = "selwait" PROVE k.wchan[p] = "selwait"
  BY <1>3, NoChanHolds, SleepAssumption DEF OnlyWakes
<1>4. HearsInput'
  BY <1>3 DEF IInv, HearsInput, ttys
<1> QED
  BY <1>1, <1>2, <1>4 DEF IInv

LEMMA ExpireKeeps ==
    ASSUME IInv, NEW p \in Proc, Expire(p)
    PROVE  IInv'
<1>1. TypeOK'
  BY DEF IInv, TypeOK, Expire, scan, ttys
<1>2. Sound(k', Running) /\ OnlyWakes(k, k')
  BY DEF IInv, Expire, OnlyWakes
<1> QED
  BY <1>1, <1>2, Interrupt DEF Expire

LEMMA UnselectWakes ==
    ASSUME IInv, NEW p \in Proc, Unselect(p)
    PROVE  Sound(k', Running) /\ OnlyWakes(k, k')
<1>1. Sound(k, Running) /\ k.stat[p] \in {"SRUN", "SSLEEP", "SSTOP"}
  BY DEF IInv, TypeOK, Table, Stat
<1>2. CASE k.stat[p] = "SSLEEP"
  <2>1. k' = Setrun(k, p)
    BY <1>2 DEF Unselect
  <2> QED
    BY <1>1, <1>2, <2>1, SetrunSound
<1>3. CASE k.stat[p] = "SSTOP"
  <2>1. k' = Unsleep(k, p)
    BY <1>3 DEF Unselect
  <2> QED
    BY <1>1, <1>3, <2>1, UnsleepSound
<1>4. CASE k.stat[p] = "SRUN"
  <2>1. k' = k
    BY <1>4 DEF Unselect
  <2> QED
    BY <1>1, <2>1 DEF OnlyWakes
<1> QED
  BY <1>1, <1>2, <1>3, <1>4

LEMMA UnselectKeeps ==
    ASSUME IInv, NEW p \in Proc, Unselect(p)
    PROVE  IInv'
<1>1. Sound(k', Running) /\ OnlyWakes(k, k')
  BY UnselectWakes
<1>2. k' \in Table
  BY <1>1 DEF Sound
<1>3. TypeOK'
  BY ZenonT(60), <1>2 DEF IInv, TypeOK, Unselect, scan, ttys
<1> QED
  BY <1>1, <1>3, Interrupt DEF Unselect

LEMMA SignalWakes ==
    ASSUME IInv, NEW p \in Proc, Signal(p)
    PROVE  Sound(k', Running) /\ OnlyWakes(k, k')
<1>1. PICK s \in Sig : k' = Psignal(k, p, s)
  BY SigAssumption DEF Signal
<1>2. Sound(k, Running)
  BY DEF IInv
<1> QED
  BY <1>1, <1>2, PsignalSound

LEMMA SignalKeeps ==
    ASSUME IInv, NEW p \in Proc, Signal(p)
    PROVE  IInv'
<1>1. Sound(k', Running) /\ OnlyWakes(k, k')
  BY SignalWakes
<1>2. k' \in Table
  BY <1>1 DEF Sound
<1>3. TypeOK'
  BY <1>2 DEF IInv, TypeOK, Signal, calls, scan, ttys
<1> QED
  BY <1>1, <1>3, Interrupt DEF Signal, calls

LEMMA DiskDoneWakes ==
    ASSUME IInv, DiskDone
    PROVE  Sound(k', Running) /\ OnlyWakes(k, k')
<1>1. Sound(k, Running) /\ k' = Wakeup(k, "disk") /\ "disk" \in Chan
  BY SleepAssumption DEF IInv, DiskDone
<1> QED
  BY <1>1, WakeupSound

LEMMA DiskDoneKeeps ==
    ASSUME IInv, DiskDone
    PROVE  IInv'
<1>1. Sound(k', Running) /\ OnlyWakes(k, k')
  BY DiskDoneWakes
<1>2. k' \in Table
  BY <1>1 DEF Sound
<1>3. TypeOK'
  BY <1>2 DEF IInv, TypeOK, DiskDone, calls, scan, ttys
<1> QED
  BY <1>1, <1>3, Interrupt DEF DiskDone, calls

LEMMA DrainKeeps ==
    ASSUME IInv, NEW t \in Tty, Drain(t)
    PROVE  IInv'
<1>1. /\ TypeOK /\ ready' = [ready EXCEPT ![t] = FALSE]
      /\ UNCHANGED <<k, cpu, calls, scan, rsel, coll>>
  BY DEF IInv, Drain
<1>2. TypeOK'
  BY <1>1 DEF TypeOK, calls, scan
<1>3. Sound(k', Running') /\ Control'
  BY <1>1 DEF IInv, Running, Control, calls
<1>4. \A u \in Tty : ready[u] = FALSE => ready'[u] = FALSE
  BY <1>1 DEF TypeOK
<1>5. \A p \in Proc : pc[p] \notin {"scan", "check"}
  BY DEF IInv, Control, Drain
<1>6. Looked'
  BY <1>1, <1>5 DEF Looked, calls
<1>7. \A u \in Tty : ~ready[u] => ~ready'[u]
  BY <1>1 DEF TypeOK
<1>8. HearsInput'
  BY <1>1, <1>7 DEF IInv, HearsInput, TypeOK, calls
<1> QED
  BY <1>2, <1>3, <1>6, <1>8 DEF IInv

(* What characters for t do to the table. *)
LEMMA InputWakes ==
    ASSUME IInv, NEW t \in Tty, Input(t)
    PROVE  /\ Sound(k', Running) /\ OnlyWakes(k, k')
           /\ rsel[t] # NoProc => k'.wchan[rsel[t]] # "selwait"
           /\ rsel[t] # NoProc /\ coll[t] => \A q \in Proc : k'.wchan[q] # "selwait"
<1>1. Sound(k, Running) /\ TypeOK
  BY DEF IInv
<1>2. CASE rsel[t] = NoProc
  BY <1>1, <1>2 DEF Input, OnlyWakes
<1>3. CASE rsel[t] # NoProc
  <2>1. PICK p \in Proc : p = rsel[t]
    BY <1>1, <1>3 DEF TypeOK
  <2>2. PICK j : j = IF coll[t] THEN Wakeup(k, "selwait") ELSE k
    OBVIOUS
  <2>3. k' = Selwakeup1(j, p)
    BY <1>3, <2>1, <2>2 DEF Input
  <2>4. /\ Sound(j, Running) /\ OnlyWakes(k, j)
        /\ coll[t] => \A q \in Proc : j.wchan[q] # "selwait"
    <3>1. CASE coll[t]
      BY <1>1, <2>2, <3>1, WakeupSound, SleepAssumption
    <3>2. CASE ~coll[t]
      BY <1>1, <2>2, <3>2 DEF OnlyWakes
    <3> QED
      BY <3>1, <3>2
  <2>5. Sound(k', Running) /\ OnlyWakes(j, k') /\ k'.wchan[p] # "selwait"
    BY <2>3, <2>4, Selwakeup1Sound
  <2>6. OnlyWakes(k, k')
    <3>1. ASSUME NEW q \in Proc PROVE k'.wchan[q] \in {k.wchan[q], NoChan}
      BY <2>4, <2>5 DEF OnlyWakes
    <3>2. ASSUME NEW q \in Proc, k.stat[q] = "SSTOP" PROVE k'.stat[q] = "SSTOP"
      <4>1. k.stat \in [Proc -> Stat] /\ k \in Table
        BY <1>1 DEF TypeOK, Table
      <4>2. j.stat[q] = "SSTOP" /\ j \in Table
        <5>1. CASE coll[t]
          BY ZenonT(30), <2>2, <2>4, <3>2, <4>1, <5>1 DEF Wakeup, Table, Sound
        <5>2. CASE ~coll[t]
          BY <2>2, <3>2, <4>1, <5>2
        <5> QED
          BY <5>1, <5>2
      <4>3. CASE j.wchan[p] # "selwait"
        BY <2>3, <4>2, <4>3 DEF Selwakeup1
      <4>4. CASE j.wchan[p] = "selwait" /\ j.stat[p] = "SSLEEP"
        <5>1. k' = Setrun(j, p)
          BY <2>3, <4>4 DEF Selwakeup1
        <5>2. p # q
          BY <4>2, <4>4
        <5> QED
          BY <4>2, <5>1, <5>2 DEF Setrun, Setrq, Unsleep, Table
      <4>5. CASE j.wchan[p] = "selwait" /\ j.stat[p] # "SSLEEP"
        <5>1. k' = Unsleep(j, p)
          BY <2>3, <4>5 DEF Selwakeup1
        <5> QED
          BY <4>2, <5>1 DEF Unsleep, Table
      <4> QED
        BY <4>3, <4>4, <4>5
    <3> QED
      BY <3>1, <3>2 DEF OnlyWakes
  <2>7. coll[t] => \A q \in Proc : k'.wchan[q] # "selwait"
    BY <2>4, <2>5, NoChanHolds, SleepAssumption DEF OnlyWakes
  <2> QED
    BY <2>1, <2>5, <2>6, <2>7
<1> QED
  BY <1>2, <1>3

LEMMA InputKeeps ==
    ASSUME IInv, NEW t \in Tty, Input(t)
    PROVE  IInv'
<1>1. /\ TypeOK /\ ready' = [ready EXCEPT ![t] = TRUE]
      /\ UNCHANGED <<cpu, pc, want, timed, expired, armed, todo, found>>
  BY DEF IInv, Input
<1>2. /\ Sound(k', Running) /\ OnlyWakes(k, k')
      /\ rsel[t] # NoProc => k'.wchan[rsel[t]] # "selwait"
      /\ rsel[t] # NoProc /\ coll[t] => \A q \in Proc : k'.wchan[q] # "selwait"
  BY InputWakes
<1>3. /\ ready' \in [Tty -> BOOLEAN]
      /\ \A u \in Tty \ {t} : ready'[u] = ready[u]
  BY <1>1 DEF TypeOK
<1>4. /\ ssel' \in [Proc -> BOOLEAN] /\ collided' \in BOOLEAN
      /\ rsel' \in [Tty -> Proc \cup {NoProc}] /\ coll' \in [Tty -> BOOLEAN]
      /\ \A u \in Tty \ {t} : rsel'[u] = rsel[u] /\ coll'[u] = coll[u]
  BY ZenonT(60), <1>1 DEF TypeOK, Input
<1>5. /\ \A q \in Proc : ssel'[q] = TRUE => ssel[q] = TRUE
      /\ collided' = FALSE => collided = FALSE
  BY <1>1 DEF TypeOK, Input
<1>6. k' \in Table
  BY <1>2 DEF Sound
<1>7. TypeOK'
  BY <1>1, <1>3, <1>4, <1>6 DEF TypeOK
<1>8. Running' = Running /\ Control'
  BY <1>1 DEF IInv, Control, Running
<1>9. \A p \in Proc : k'.wchan[p] = "selwait" => k.wchan[p] = "selwait"
  BY <1>2, NoChanHolds, SleepAssumption DEF OnlyWakes
<1>10. HearsInput'
  <2>1. ASSUME NEW p \in Proc, k'.wchan[p] = "selwait", NEW u \in want[p]
        PROVE  ~ready'[u] /\ (rsel'[u] = p \/ (rsel'[u] # NoProc /\ coll'[u]))
    <3>1. u \in Tty /\ ~ready[u] /\ (rsel[u] = p \/ (rsel[u] # NoProc /\ coll[u]))
      BY <1>1, <1>9, <2>1 DEF IInv, HearsInput, TypeOK
    <3>2. p # NoProc
      BY ProcAssumption
    <3>3. u # t
      BY <1>2, <2>1, <3>1, <3>2
    <3> QED
      BY <1>3, <1>4, <3>1, <3>3
  <2> QED
    BY <1>1, <2>1 DEF HearsInput
<1>11. Looked'
  <2>1. ASSUME NEW p \in Proc, pc[p] \in {"scan", "check"},
               ssel'[p] = TRUE, collided' = FALSE, found = FALSE, NEW u \in want[p]
        PROVE  u \in todo \/ Waits(p, u)'
    <3>1. u \in Tty /\ (u \in todo \/ Waits(p, u))
      BY <1>1, <1>5, <2>1 DEF IInv, Looked, TypeOK
    <3>2. CASE u # t
      BY <1>3, <1>4, <3>1, <3>2 DEF Waits
    <3>3. CASE u = t
      <4>1. SUFFICES ASSUME u \notin todo PROVE FALSE
        OBVIOUS
      <4>2. rsel[t] = p \/ (rsel[t] # NoProc /\ coll[t] = TRUE)
        BY <3>1, <3>3, <4>1 DEF Waits
      <4>3. rsel[t] # NoProc
        BY <4>2, ProcAssumption
      <4>4. coll[t] = FALSE
        BY <1>1, <2>1, <4>3 DEF Input, TypeOK
      <4>5. rsel[t] = p
        BY <4>2, <4>4
      <4>6. ssel' = [ssel EXCEPT ![p] = @ /\ k.wchan[p] = "selwait"]
        BY <4>3, <4>4, <4>5 DEF Input
      <4>7. cpu = p /\ pc[p] \notin Leaving
        BY <2>1 DEF IInv, Control, Leaving
      <4>8. k.wchan[p] = NoChan
        BY <4>7, Runner
      <4>9. (k.wchan[p] = "selwait") = FALSE
        BY <4>8, NoChanHolds, SleepAssumption
      <4>10. ssel'[p] = FALSE
        BY <1>1, <4>6, <4>9 DEF TypeOK
      <4> QED
        BY <2>1, <4>10
    <3> QED
      BY <3>2, <3>3
  <2>2. \A p \in Proc : pc[p] = "check" => todo = {} /\ found = FALSE
    BY DEF IInv, Looked
  <2> QED
    BY <1>1, <2>1, <2>2 DEF Looked
<1> QED
  BY <1>2, <1>7, <1>8, <1>10, <1>11 DEF IInv

-----------------------------------------------------------------------------
(* The theorems *)

LEMMA InitHolds == Init => IInv
<1> SUFFICES ASSUME Init PROVE IInv
  OBVIOUS
<1>1. /\ k = InitTable /\ cpu = NoProc /\ pc = [p \in Proc |-> "user"]
      /\ want = [p \in Proc |-> {}] /\ todo = {} /\ found = FALSE /\ collided = FALSE
      /\ timed = [p \in Proc |-> FALSE] /\ expired = timed /\ armed = timed /\ ssel = timed
      /\ rsel = [t \in Tty |-> NoProc] /\ coll = [t \in Tty |-> FALSE] /\ ready = coll
  BY DEF Init
<1>2. k \in Table /\ k.panic = FALSE
  BY <1>1 DEF InitTable, Table, Stat
<1>3. TypeOK
  BY <1>1, <1>2 DEF TypeOK, Location
<1>4. Running = {}
  BY <1>1, ProcAssumption DEF Running
<1>5. \A q \in Proc : Entry(k, q, {})
  BY <1>1, NoChanHolds DEF InitTable, Entry, MayBreak
<1>6. Control /\ Looked
  BY <1>1 DEF Control, Looked, Leaving
<1>7. HearsInput
  BY <1>1, NoChanHolds, SleepAssumption DEF HearsInput, InitTable
<1> QED
  BY <1>2, <1>3, <1>4, <1>5, <1>6, <1>7 DEF IInv, Sound

LEMMA NextKeeps == IInv /\ [Next]_vars => IInv'
<1> SUFFICES ASSUME IInv, [Next]_vars PROVE IInv'
  OBVIOUS
<1>1. CASE UNCHANGED vars
  BY <1>1 DEF vars, calls, scan, ttys, IInv, TypeOK, Sound, Entry, MayBreak, Running, Control, Looked, Waits,
     HearsInput
<1>2. ASSUME NEW p \in Proc, Step(p) PROVE IInv'
  BY <1>2, SwtchKeeps, TrapKeeps, ExitKeeps, UnblockedKeeps, RetryKeeps, ScanKeeps, ScannedKeeps, TimeOutKeeps,
     AgainKeeps, SleepKeeps, IssiggedKeeps, WokenKeeps DEF Step
<1>3. ASSUME NEW p \in Proc,
             Dispatch(p) \/ Preempt(p) \/ Block(p) \/ Call(p) \/ Expire(p) \/ Unselect(p) \/ Signal(p)
      PROVE  IInv'
  BY <1>3, DispatchKeeps, PreemptKeeps, BlockKeeps, CallKeeps, ExpireKeeps, UnselectKeeps, SignalKeeps
<1>4. ASSUME NEW t \in Tty, Input(t) \/ Drain(t) PROVE IInv'
  BY <1>4, InputKeeps, DrainKeeps
<1>5. CASE DiskDone
  BY <1>5, DiskDoneKeeps
<1> QED
  BY <1>1, <1>2, <1>3, <1>4, <1>5 DEF Next

LEMMA IInvAlways == Spec => []IInv
BY InitHolds, NextKeeps, PTL DEF Spec

(* Every variable keeps its type, in all interleavings of the processes    *)
(* with the interrupts.                                                    *)
THEOREM TypeCorrect == Spec => []TypeOK
<1>1. IInv => TypeOK
  BY DEF IInv
<1> QED
  BY <1>1, IInvAlways, PTL

(* A process runs, is on the run queue, sleeps on a sleep queue or is      *)
(* stopped, and sleep, wakeup, setrun, setrq and the signal code never     *)
(* panic, whenever the interrupts come.                                    *)
THEOREM OnePlace == Spec => []InOnePlace
<1>1. IInv => InOnePlace
  <2> SUFFICES ASSUME IInv PROVE InOnePlace
    OBVIOUS
  <2>1. Sound(k, Running)
    BY DEF IInv
  <2> QED
    BY <2>1 DEF Sound, Entry, Running, InOnePlace
<1> QED
  BY <1>1, IInvAlways, PTL

(* Nobody sleeps in select, stopped or not, for a terminal that has input, *)
(* or whose input would not wake it: what arrives during the scan is       *)
(* noticed through SSEL or nselcoll.                                       *)
THEOREM InputHeard == Spec => []HearsInput
<1>1. IInv => HearsInput
  BY DEF IInv
<1> QED
  BY <1>1, IInvAlways, PTL

(* Nobody sleeps in select with a signal that should stop it or end the    *)
(* sleep, whether it came before sleep looked for it or after, and nobody  *)
(* stays stopped with a SIGKILL.                                           *)
THEOREM SignalsHeard == Spec => []HearsSignals
<1>1. IInv => HearsSignals
  <2> SUFFICES ASSUME IInv PROVE HearsSignals
    OBVIOUS
  <2>1. Sound(k, Running)
    BY DEF IInv
  <2> QED
    BY <2>1 DEF Sound, Entry, HearsSignals
<1> QED
  BY <1>1, IInvAlways, PTL

(* Only the processes that run change their own entries, and a running     *)
(* process is not stopped.                                                 *)
LEMMA OwnNotStopped ==
    ASSUME IInv, NEW p \in Proc,
           Dispatch(p) \/ Preempt(p) \/ Block(p) \/ Call(p) \/ Step(p) \/ Expire(p)
    PROVE  \A q \in Proc : k.stat[q] = "SSTOP" => k'.stat[q] = "SSTOP"
<1>1. k \in Table
  BY DEF IInv, Sound
<1>2. CASE Dispatch(p) \/ Preempt(p) \/ Exit(p) \/ Call(p) \/ Expire(p)
  BY <1>1, <1>2 DEF Dispatch, Preempt, Exit, Call, Expire, Setrq, Table
<1>3. CASE Swtch(p) \/ Unblocked(p) \/ Retry(p) \/ Scan(p) \/ Scanned(p) \/ TimeOut(p) \/ Again(p)
  BY <1>3 DEF Swtch, Unblocked, Retry, Scan, Scanned, TimeOut, Again
<1>4. ASSUME cpu = p, pc[p] \notin Leaving, \A q \in Proc \ {p} : k'.stat[q] = k.stat[q]
      PROVE  \A q \in Proc : k.stat[q] = "SSTOP" => k'.stat[q] = "SSTOP"
  <2>1. k.stat[p] = "SRUN"
    BY <1>4, Runner
  <2> QED
    BY <1>4, <2>1
<1>5. CASE Block(p)
  <2>1. cpu = p /\ pc[p] \notin Leaving
    BY <1>5 DEF Block, Runs, Leaving
  <2> QED
    BY <1>1, <1>4, <1>5, <2>1 DEF Block, Table
<1>6. ASSUME cpu = p, pc[p] \notin Leaving
      PROVE  \A q \in Proc \ {p} : Issig(k, p).k.stat[q] = k.stat[q]
  <2>1. ~({"TSTP", "CONT"} \subseteq k.sig[p])
    BY <1>6, Runner
  <2>2. \/ Issig(k, p).k.stat = k.stat
        \/ Issig(k, p).k.stat = [k.stat EXCEPT ![p] = "SSTOP"]
    BY <1>1, <2>1, IssigForm
  <2> QED
    BY <1>1, <2>2 DEF Table
<1>7. CASE Trap(p) \/ Woken(p)
  <2>1. cpu = p /\ pc[p] \notin Leaving /\ k' = Issig(k, p).k
    BY <1>7 DEF Trap, Woken, Runs, Leaving
  <2> QED
    BY <1>4, <1>6, <2>1
<1>8. CASE Issigged(p)
  <2>1. cpu = p /\ pc[p] \notin Leaving
    BY <1>8 DEF Issigged, Runs, Leaving
  <2>2. k' = Issig(k, p).k \/ k' = Unsleep(Issig(k, p).k, p)
    BY <1>8 DEF Issigged
  <2>3. k' = Issig(k, p).k
    BY <2>1, <2>2, IssigRunner
  <2> QED
    BY <1>4, <1>6, <2>1, <2>3
<1>9. CASE Sleep(p)
  <2> DEFINE j == [k EXCEPT !.wchan[p] = "selwait"]
  <2>1. cpu = p /\ pc[p] \notin Leaving
    BY <1>9 DEF Sleep, Runs, Leaving
  <2>2. \/ k' = Unsleep(Issig(j, p).k, p)
        \/ k' = Issig(j, p).k
        \/ k' = [Issig(j, p).k EXCEPT !.stat[p] = "SSLEEP"]
    BY <1>9 DEF Sleep
  <2>3. j \in Table /\ j.stat = k.stat /\ j.sig = k.sig
    BY <1>1, SleepAssumption DEF Table
  <2> HIDE DEF j
  <2>4. ~({"TSTP", "CONT"} \subseteq j.sig[p])
    BY <2>1, <2>3, Runner
  <2>5. /\ Issig(j, p).k \in Table
        /\ \/ Issig(j, p).k.stat = j.stat
           \/ Issig(j, p).k.stat = [j.stat EXCEPT ![p] = "SSTOP"]
    BY <2>3, <2>4, IssigForm
  <2>6. PICK l \in Table : l = Issig(j, p).k
    BY <2>5
  <2>7. \A q \in Proc \ {p} : l.stat[q] = k.stat[q]
    BY <2>3, <2>5, <2>6 DEF Table
  <2>8. \A q \in Proc \ {p} : k'.stat[q] = l.stat[q]
    BY <2>2, <2>6 DEF Unsleep, Table
  <2> QED
    BY <1>4, <2>1, <2>7, <2>8
<1> QED
  BY <1>2, <1>3, <1>5, <1>7, <1>8, <1>9 DEF Step

(* Only SIGCONT and SIGKILL end a stop: neither input, nor selwakeup, nor  *)
(* unselect, nor the disk, nor another signal does.                        *)
THEOREM StopsHold == Spec => StopHolds
<1> DEFINE Holds == \A p \in Proc :
                       k.stat[p] = "SSTOP" /\ k'.stat[p] # "SSTOP" => {"CONT", "KILL"} \cap k'.sig[p] # {}
<1>1. IInv /\ [Next]_vars => [Holds]_vars
  <2> SUFFICES ASSUME IInv, [Next]_vars PROVE Holds
    OBVIOUS
  <2>1. CASE UNCHANGED vars
    BY <2>1 DEF vars
  <2>2. ASSUME NEW p \in Proc,
               Dispatch(p) \/ Preempt(p) \/ Block(p) \/ Call(p) \/ Step(p) \/ Expire(p)
        PROVE  Holds
    BY <2>2, OwnNotStopped
  <2>3. ASSUME OnlyWakes(k, k') PROVE Holds
    BY <2>3 DEF OnlyWakes
  <2>4. ASSUME NEW p \in Proc, Unselect(p) \/ Signal(p) PROVE Holds
    BY <2>3, <2>4, UnselectWakes, SignalWakes
  <2>5. ASSUME NEW t \in Tty, Input(t) \/ Drain(t) PROVE Holds
    BY <2>3, <2>5, InputWakes DEF Drain
  <2>6. CASE DiskDone
    BY <2>3, <2>6, DiskDoneWakes
  <2> QED
    BY <2>1, <2>2, <2>4, <2>5, <2>6 DEF Next
<1> QED
  BY <1>1, IInvAlways, PTL DEF Spec, StopHolds

-----------------------------------------------------------------------------
(* The callouts that bound select's sleep: the list of Callout implements  *)
(* Timers, whatever its constants.                                         *)

Event == [time : Int, what : What]

(* What an event of the list adds to the time of those after it.           *)
Delay(e) == IF e.time > 0 THEN e.time ELSE 0

(* What is late stands after what is as late, and nothing else.            *)
LateFirst(q) == \A j \in DOMAIN q : \A i \in 1..(j - 1) : q[j].time < 0 => q[i].time <= q[j].time

-----------------------------------------------------------------------------
(* The entries of a list and their delays are what they should be.         *)
LEMMA Entries ==
    ASSUME NEW q \in Seq(Event)
    PROVE  /\ Len(q) \in Nat /\ DOMAIN q = 1..Len(q)
           /\ \A i \in 1..Len(q) : /\ q[i] \in Event /\ q[i].time \in Int /\ q[i].what \in What
                                   /\ Delay(q[i]) \in Nat
<1>1. Len(q) \in Nat /\ DOMAIN q = 1..Len(q)
  BY LenProperties
<1>2. \A i \in 1..Len(q) : q[i] \in Event
  BY ElementOfSeq
<1>3. \A i \in 1..Len(q) : q[i].time \in Int /\ q[i].what \in What
  BY <1>2 DEF Event
<1> QED
  BY <1>1, <1>2, <1>3 DEF Delay

(* Passed is defined by recursion: the function it is an application of    *)
(* exists, and has the values that its definition says.                    *)
LEMMA PassedSteps ==
    ASSUME NEW q \in Seq(Event)
    PROVE  /\ Clock!Passed(q, 0) = 0
           /\ \A n \in 1..Len(q) : Clock!Passed(q, n) = Clock!Passed(q, n - 1) + Delay(q[n])
           /\ \A n \in 0..Len(q) : Clock!Passed(q, n) \in Nat
<1> DEFINE N == Len(q)
           F(f) == [i \in 0..N |-> IF i = 0 THEN 0 ELSE f[i - 1] + (IF q[i].time > 0 THEN q[i].time ELSE 0)]
           Right(f, n) == f[0] = 0 /\ \A i \in 1..n : f[i] = f[i - 1] + Delay(q[i])
<1>1. N \in Nat /\ \A i \in 1..N : q[i] \in Event /\ Delay(q[i]) \in Nat
  BY Entries
<1> HIDE DEF N
<1> DEFINE Has(n) == \E f \in [0..n -> Nat] : Right(f, n)
           T == {n \in Nat : n <= N => Has(n)}
<1>2. N \in T
  <2>1. 0 \in T
    <3>1. Right([i \in 0..0 |-> 0], 0) /\ [i \in 0..0 |-> 0] \in [0..0 -> Nat]
      OBVIOUS
    <3>2. Has(0)
      BY <3>1
    <3> HIDE DEF Has
    <3> QED
      BY <3>2
  <2>2. ASSUME NEW n \in Nat, n \in T PROVE n + 1 \in T
    <3> HIDE DEF Has
    <3> SUFFICES ASSUME n + 1 <= N PROVE Has(n + 1)
      OBVIOUS
    <3>1. n <= N /\ Has(n)
      BY <1>1, <2>2
    <3>2. PICK f \in [0..n -> Nat] : Right(f, n)
      BY <3>1 DEF Has
    <3> DEFINE g == [i \in 0..(n + 1) |-> IF i = n + 1 THEN f[n] + Delay(q[n + 1]) ELSE f[i]]
    <3>3. Delay(q[n + 1]) \in Nat
      BY <1>1
    <3>4. g \in [0..(n + 1) -> Nat]
      <4> SUFFICES ASSUME NEW i \in 0..(n + 1) PROVE (IF i = n + 1 THEN f[n] + Delay(q[n + 1]) ELSE f[i]) \in Nat
        OBVIOUS
      <4>1. CASE i = n + 1
        BY <3>3, <4>1
      <4>2. CASE i # n + 1
        BY <4>2
      <4> QED
        BY <4>1, <4>2
    <3>5. g[0] = 0
      BY <3>2
    <3>6. ASSUME NEW i \in 1..(n + 1) PROVE g[i] = g[i - 1] + Delay(q[i])
      <4>1. CASE i = n + 1
        BY <4>1
      <4>2. CASE i # n + 1
        <5>1. i \in 1..n /\ i \in 0..(n + 1) /\ i - 1 \in 0..(n + 1) /\ i - 1 # n + 1
          BY <4>2
        <5>2. g[i] = f[i] /\ g[i - 1] = f[i - 1]
          BY <4>2, <5>1
        <5>3. f[i] = f[i - 1] + Delay(q[i])
          BY <3>2, <5>1
        <5> QED
          BY <5>2, <5>3
      <4> QED
        BY <4>1, <4>2
    <3> HIDE DEF g
    <3> QED
      BY <3>4, <3>5, <3>6 DEF Has
  <2> HIDE DEF T
  <2>3. Nat \subseteq T
    BY <2>1, <2>2, NatInduct
  <2> QED
    BY <1>1, <2>3
<1>10. Has(N)
  <2> HIDE DEF Has
  <2> QED
    BY <1>1, <1>2
<1>3. PICK f \in [0..N -> Nat] : Right(f, N)
  BY <1>10
<1>4. f = F(f)
  <2>1. ASSUME NEW i \in 0..N PROVE f[i] = F(f)[i]
    <3>1. CASE i = 0
      BY <1>3, <3>1
    <3>2. CASE i # 0
      <4>1. i \in 1..N
        BY <1>1, <3>2
      <4> QED
        BY <1>3, <4>1, <3>2 DEF Delay
    <3> QED
      BY <3>1, <3>2
  <2> QED
    BY <2>1
<1> DEFINE p == CHOOSE h : h = F(h)
<1>5. p = F(p)
  BY <1>4
<1>6. \A n : Clock!Passed(q, n) = p[n]
  BY DEF Clock!Passed, N
<1> HIDE DEF p
<1>7. p[0] = 0
  <2>1. 0 \in 0..N
    BY <1>1
  <2>2. F(p)[0] = 0
    BY <2>1
  <2> QED
    BY <1>5, <2>2
<1>8. ASSUME NEW n \in 1..N PROVE p[n] = p[n - 1] + Delay(q[n])
  <2>1. n \in 0..N /\ n # 0
    BY <1>1
  <2>2. F(p)[n] = p[n - 1] + Delay(q[n])
    BY <2>1 DEF Delay
  <2> QED
    BY <1>5, <2>2
<1>9. \A n \in 0..N : p[n] \in Nat
  <2> DEFINE U == {n \in Nat : n <= N => p[n] \in Nat}
  <2>1. 0 \in U
    BY <1>7
  <2>2. ASSUME NEW n \in Nat, n \in U PROVE n + 1 \in U
    <3> SUFFICES ASSUME n + 1 <= N PROVE p[n + 1] \in Nat
      OBVIOUS
    <3>1. n + 1 \in 1..N /\ n <= N /\ (n + 1) - 1 = n
      BY <1>1
    <3>2. p[n + 1] = p[n] + Delay(q[n + 1])
      BY <1>8, <3>1
    <3>3. Delay(q[n + 1]) \in Nat /\ p[n] \in Nat
      BY <1>1, <2>2, <3>1
    <3> QED
      BY <3>2, <3>3
  <2> HIDE DEF U
  <2>3. Nat \subseteq U
    BY <2>1, <2>2, NatInduct
  <2> QED
    BY <1>1, <2>3 DEF U
<1> QED
  BY <1>6, <1>7, <1>8, <1>9 DEF N

(* The entries of q after a up to c delay by the same as those of r after  *)
(* b up to d.                                                              *)
SameDelays(q, a, c, r, b, d) ==
    /\ a <= c /\ c <= Len(q) /\ d <= Len(r) /\ c - a = d - b
    /\ \A j \in (a + 1)..c : \A h \in (b + 1)..d : j - a = h - b => Delay(q[j]) = Delay(r[h])

(* Then they add up to the same.                                           *)
LEMMA PassedBetween ==
    ASSUME NEW q \in Seq(Event), NEW r \in Seq(Event),
           NEW a \in Nat, NEW b \in Nat, NEW c \in Nat, NEW d \in Nat,
           SameDelays(q, a, c, r, b, d)
    PROVE  Clock!Passed(q, c) - Clock!Passed(q, a) = Clock!Passed(r, d) - Clock!Passed(r, b)
<1> DEFINE P(i) == Clock!Passed(q, i)
           R(i) == Clock!Passed(r, i)
           T == {m \in Nat : a + m <= c => P(a + m) - P(a) = R(b + m) - R(b)}
<1>0. /\ Len(q) \in Nat /\ Len(r) \in Nat
      /\ a <= c /\ c <= Len(q) /\ d <= Len(r) /\ c - a = d - b
  BY Entries DEF SameDelays
<1>6. \A j \in (a + 1)..c : \A h \in (b + 1)..d : j - a = h - b => Delay(q[j]) = Delay(r[h])
  BY DEF SameDelays
<1>1. /\ \A i \in 0..Len(q) : P(i) \in Nat
      /\ \A i \in 1..Len(q) : P(i) = P(i - 1) + Delay(q[i]) /\ Delay(q[i]) \in Nat
      /\ \A i \in 0..Len(r) : R(i) \in Nat
      /\ \A i \in 1..Len(r) : R(i) = R(i - 1) + Delay(r[i])
  BY Entries, PassedSteps
<1> HIDE DEF P, R
<1>2. 0 \in T
  <2>1. P(a) \in Nat /\ R(b) \in Nat /\ a + 0 = a /\ b + 0 = b
    BY <1>0, <1>1
  <2> QED
    BY <2>1
<1>3. ASSUME NEW m \in Nat, m \in T PROVE m + 1 \in T
  <2> SUFFICES ASSUME a + (m + 1) <= c PROVE P(a + (m + 1)) - P(a) = R(b + (m + 1)) - R(b)
    OBVIOUS
  <2>1. /\ a + (m + 1) \in 1..Len(q) /\ (a + (m + 1)) - 1 = a + m
        /\ b + (m + 1) \in 1..Len(r) /\ (b + (m + 1)) - 1 = b + m
        /\ a \in 0..Len(q) /\ b \in 0..Len(r) /\ a + m \in 0..Len(q) /\ b + m \in 0..Len(r)
        /\ a + (m + 1) \in (a + 1)..c /\ b + (m + 1) \in (b + 1)..d
        /\ (a + (m + 1)) - a = (b + (m + 1)) - b
    BY <1>0
  <2>2. P(a + (m + 1)) = P(a + m) + Delay(q[a + (m + 1)]) /\ Delay(q[a + (m + 1)]) \in Nat
    BY <1>1, <2>1
  <2>3. R(b + (m + 1)) = R(b + m) + Delay(r[b + (m + 1)])
    BY <1>1, <2>1
  <2>4. PICK e \in Nat : e = Delay(q[a + (m + 1)]) /\ e = Delay(r[b + (m + 1)])
    BY <1>6, <2>1, <2>2
  <2>5. P(a + m) - P(a) = R(b + m) - R(b)
    BY <1>3
  <2>6. PICK p \in Nat, u \in Nat, v \in Nat, w \in Nat :
            p = P(a) /\ u = P(a + m) /\ v = R(b) /\ w = R(b + m)
    BY ZenonT(60), <1>1, <2>1
  <2>7. P(a + (m + 1)) = u + e /\ R(b + (m + 1)) = w + e /\ u - p = w - v
    BY <2>2, <2>3, <2>4, <2>5, <2>6
  <2>8. (u + e) - p = (w + e) - v
    BY <2>7
  <2> QED
    BY <2>6, <2>7, <2>8
<1> HIDE DEF T
<1>4. c - a \in T /\ c - a \in Nat
  <2>1. Nat \subseteq T
    BY <1>2, <1>3, NatInduct
  <2>2. c - a \in Nat
    BY <1>0
  <2> QED
    BY <2>1, <2>2
<1>5. a + (c - a) = c /\ b + (c - a) = d
  BY <1>0
<1> QED
  BY <1>4, <1>5 DEF T, P, R

(* The further down the list, the more has passed.                         *)
LEMMA PassedGrows ==
    ASSUME NEW q \in Seq(Event), NEW i \in Nat, NEW j \in Nat, i <= j, j <= Len(q)
    PROVE  Clock!Passed(q, i) <= Clock!Passed(q, j)
<1> DEFINE P(n) == Clock!Passed(q, n)
           T == {m \in Nat : i + m <= Len(q) => P(i) <= P(i + m)}
<1>0. Len(q) \in Nat
  BY LenProperties
<1>1. /\ \A n \in 0..Len(q) : P(n) \in Nat
      /\ \A n \in 1..Len(q) : P(n) = P(n - 1) + Delay(q[n]) /\ Delay(q[n]) \in Nat
  <2>1. \A n \in 1..Len(q) : Delay(q[n]) \in Nat
    BY Entries
  <2> QED
    BY <2>1, PassedSteps
<1> HIDE DEF P
<1>2. 0 \in T
  <2>1. i \in 0..Len(q) /\ i + 0 = i
    BY <1>0
  <2> QED
    BY <1>1, <2>1
<1>3. ASSUME NEW m \in Nat, m \in T PROVE m + 1 \in T
  <2> SUFFICES ASSUME i + (m + 1) <= Len(q) PROVE P(i) <= P(i + (m + 1))
    OBVIOUS
  <2>1. i + (m + 1) \in 1..Len(q) /\ (i + (m + 1)) - 1 = i + m /\ i + m \in 0..Len(q) /\ i \in 0..Len(q)
    BY <1>0
  <2>2. P(i + (m + 1)) = P(i + m) + Delay(q[i + (m + 1)]) /\ Delay(q[i + (m + 1)]) \in Nat
    BY <1>1, <2>1
  <2>3. P(i + m) \in Nat /\ P(i) \in Nat /\ P(i) <= P(i + m)
    BY <1>0, <1>1, <1>3, <2>1
  <2> QED
    BY <2>2, <2>3
<1> HIDE DEF T
<1>4. j - i \in T
  BY <1>2, <1>3, NatInduct
<1>5. i + (j - i) = j
  OBVIOUS
<1> QED
  BY <1>4, <1>5 DEF T, P

(* Events that are due delay nothing.                                      *)
LEMMA PassedNothing ==
    ASSUME NEW q \in Seq(Event), NEW n \in Nat, n <= Len(q), \A i \in 1..n : q[i].time <= 0
    PROVE  Clock!Passed(q, n) = 0
<1> DEFINE P(m) == Clock!Passed(q, m)
           T == {m \in Nat : m <= n => P(m) = 0}
<1>0. Len(q) \in Nat
  BY LenProperties
<1>1. P(0) = 0 /\ \A m \in 1..Len(q) : P(m) = P(m - 1) + Delay(q[m])
  BY PassedSteps
<1>2. \A m \in 1..n : Delay(q[m]) = 0
  <2> TAKE m \in 1..n
  <2>1. q[m].time \in Int
    BY <1>0, Entries
  <2> QED
    BY <2>1 DEF Delay
<1> HIDE DEF P
<1>3. ASSUME NEW m \in Nat, m \in T PROVE m + 1 \in T
  <2> SUFFICES ASSUME m + 1 <= n PROVE P(m + 1) = 0
    OBVIOUS
  <2>1. m + 1 \in 1..n /\ m + 1 \in 1..Len(q) /\ (m + 1) - 1 = m /\ m <= n
    BY <1>0
  <2>2. P(m + 1) = P(m) + Delay(q[m + 1]) /\ Delay(q[m + 1]) = 0
    BY <1>1, <1>2, <2>1
  <2> QED
    BY <1>3, <2>1, <2>2
<1>4. 0 \in T
  BY <1>1
<1> HIDE DEF T
<1>5. n \in T
  BY <1>3, <1>4, NatInduct
<1> QED
  BY <1>5 DEF T, P

-----------------------------------------------------------------------------
(* How long event i of q has left: Left of the list q.                     *)
LeftOf(q, i) == IF \A j \in 1..i : q[j].time <= 0 THEN q[i].time ELSE Clock!Passed(q, i)

(* An event that is late has its own time left, any other what has passed  *)
(* when it is its turn.                                                    *)
LEMMA LeftForm ==
    ASSUME NEW q \in Seq(Event), LateFirst(q), NEW i \in 1..Len(q)
    PROVE  LeftOf(q, i) = IF q[i].time < 0 THEN q[i].time ELSE Clock!Passed(q, i)
<1>1. \A j \in 1..Len(q) : q[j].time \in Int
  BY Entries
<1>0. Len(q) \in Nat /\ DOMAIN q = 1..Len(q)
  BY LenProperties
<1>2. CASE q[i].time < 0
  <2>1. \A j \in 1..i : q[j].time <= 0
    <3> TAKE j \in 1..i
    <3>1. j \in 1..Len(q) /\ i \in DOMAIN q
      BY <1>0
    <3>2. CASE j = i
      BY <1>1, <1>2, <3>2
    <3>3. CASE j # i
      <4>1. j \in 1..(i - 1)
        BY <3>3
      <4>2. q[j].time <= q[i].time
        BY <1>2, <3>1, <4>1 DEF LateFirst
      <4> QED
        BY <1>1, <1>2, <3>1, <4>2
    <3> QED
      BY <3>2, <3>3
  <2> QED
    BY <1>2, <2>1 DEF LeftOf
<1>3. CASE ~(q[i].time < 0) /\ \A j \in 1..i : q[j].time <= 0
  <2>1. Clock!Passed(q, i) = 0
    BY <1>0, <1>3, PassedNothing
  <2>2. q[i].time = 0
    BY <1>0, <1>1, <1>3
  <2> QED
    BY <1>3, <2>1, <2>2 DEF LeftOf
<1>4. CASE ~(q[i].time < 0) /\ ~(\A j \in 1..i : q[j].time <= 0)
  BY <1>4 DEF LeftOf
<1> QED
  BY <1>2, <1>3, <1>4

-----------------------------------------------------------------------------
(* timeout's loop stops somewhere, and what is left of t is positive.      *)
LEMMA StopsIs ==
    ASSUME NEW q \in Seq(Event), NEW t \in Nat, t >= 1
    PROVE  \E n \in 0..Len(q) :
              /\ Clock!StopsAfter(q, t) = n
              /\ n = Len(q) \/ q[n + 1].time >= t - Clock!Passed(q, n)
              /\ Clock!Passed(q, n) < t
<1> DEFINE P(n) == Clock!Passed(q, n)
           N == Len(q)
           Ends(n) == n = N \/ q[n + 1].time >= t - P(n)
           T == {n \in 0..N : Ends(n)}
<1>1. N \in Nat /\ \A n \in 1..N : q[n].time \in Int
  BY Entries
<1>2. /\ P(0) = 0 /\ \A n \in 0..N : P(n) \in Nat
      /\ \A n \in 1..N : P(n) = P(n - 1) + Delay(q[n])
  BY PassedSteps
<1>3. PICK n \in T : \A m \in T : n <= m
  <2>1. T \subseteq Nat /\ N \in T
    BY <1>1
  <2> HIDE DEF T
  <2> QED
    BY <2>1, LeastNat
<1>4. \A j \in 0..(n - 1) : q[j + 1].time < t - P(j)
  <2> TAKE j \in 0..(n - 1)
  <2>1. j \in 0..N /\ ~(n <= j) /\ j + 1 \in 1..N
    BY <1>1, <1>3
  <2>2. ~Ends(j)
    BY <2>1, <1>3
  <2>3. q[j + 1].time \in Int /\ P(j) \in Nat
    BY <1>1, <1>2, <2>1
  <2> QED
    BY <2>2, <2>3
<1> DEFINE Stops(at) == /\ at = Len(q) \/ q[at + 1].time >= t - Clock!Passed(q, at)
                       /\ \A j \in 0..(at - 1) : q[j + 1].time < t - Clock!Passed(q, j)
<1> HIDE DEF P, N
<1>5. n \in 0..Len(q) /\ Stops(n)
  BY <1>3, <1>4 DEF P, N
<1>6. Clock!StopsAfter(q, t) = CHOOSE at \in 0..Len(q) : Stops(at)
  BY DEF Clock!StopsAfter
<1> HIDE DEF Stops
<1>7. PICK at \in 0..Len(q) : Stops(at) /\ Clock!StopsAfter(q, t) = at
  BY <1>5, <1>6
<1>8. Ends(at) /\ (\A j \in 0..(at - 1) : q[j + 1].time < t - P(j)) /\ at \in 0..N
  BY <1>7 DEF Stops, P, N
<1>9. P(at) < t
  <2> DEFINE U == {j \in Nat : j <= at => P(j) < t}
  <2>1. 0 \in U
    BY <1>2
  <2>2. ASSUME NEW j \in Nat, j \in U PROVE j + 1 \in U
    <3> SUFFICES ASSUME j + 1 <= at PROVE P(j + 1) < t
      OBVIOUS
    <3>1. j \in 0..(at - 1) /\ j + 1 \in 1..N /\ (j + 1) - 1 = j /\ j \in 0..N
      BY <1>1, <1>8
    <3>2. q[j + 1].time < t - P(j) /\ q[j + 1].time \in Int /\ P(j) \in Nat /\ P(j) < t
      BY <1>1, <1>2, <1>8, <2>2, <3>1
    <3>3. P(j + 1) = P(j) + Delay(q[j + 1])
      BY <1>2, <3>1
    <3>4. PICK x \in Int, p \in Nat : x = q[j + 1].time /\ p = P(j)
      BY <3>2
    <3>5. P(j + 1) = p + (IF x > 0 THEN x ELSE 0) /\ x < t - p /\ p < t
      BY <3>2, <3>3, <3>4 DEF Delay
    <3> QED
      BY <3>5
  <2> HIDE DEF U
  <2>3. Nat \subseteq U
    BY <2>1, <2>2, NatInduct
  <2> QED
    BY <1>8, <2>3 DEF U
<1> QED
  BY <1>7, <1>8, <1>9 DEF P, N

(* timeout: the events up to where the loop stops stay, and the one behind *)
(* the new one gives it what it waits for itself.                          *)
PutAfter(q, r, n, l, t, w) ==
    /\ l >= 1 /\ l = t - Clock!Passed(q, n)
    /\ n < Len(q) => q[n + 1].time >= l
    /\ r \in Seq(Event)
    /\ Len(r) = Len(q) + 1
    /\ \A i \in 1..n : r[i] = q[i]
    /\ r[n + 1].time = l
    /\ r[n + 1].what = w
    /\ \A i \in (n + 1)..Len(q) : /\ r[i + 1].what = q[i].what
                                  /\ r[i + 1].time = IF i = n + 1 THEN q[i].time - l ELSE q[i].time

LEMMA InsertForm ==
    ASSUME NEW q \in Seq(Event), NEW t \in Nat, t >= 1, NEW w \in What
    PROVE  \E n \in 0..Len(q), l \in Nat : PutAfter(q, Clock!Insert(q, t, w), n, l, t, w)
<1>1. PICK n \in 0..Len(q) : /\ Clock!StopsAfter(q, t) = n
                             /\ n = Len(q) \/ q[n + 1].time >= t - Clock!Passed(q, n)
                             /\ Clock!Passed(q, n) < t
  BY StopsIs
<1> DEFINE l == t - Clock!Passed(q, n)
           later == IF n = Len(q) THEN q ELSE [q EXCEPT ![n + 1].time = @ - l]
           r == InsertAt(later, n + 1, Clock!Entry(l, w))
<1>2. Clock!Insert(q, t, w) = r
  BY <1>1 DEF Clock!Insert, Clock!InsertAt, InsertAt
<1>3. Clock!Passed(q, n) \in Nat /\ l \in Nat /\ l >= 1
  BY <1>1, PassedSteps
<1>4. /\ Len(q) \in Nat /\ DOMAIN q = 1..Len(q)
      /\ \A i \in 1..Len(q) : q[i] \in Event /\ q[i].time \in Int /\ q[i].what \in What
  BY Entries
<1>5. n < Len(q) => q[n + 1].time >= l
  <2>1. n = Len(q) \/ q[n + 1].time >= l
    BY <1>1
  <2> HIDE DEF l, later, r
  <2> SUFFICES ASSUME n < Len(q) PROVE q[n + 1].time >= l
    OBVIOUS
  <2>2. n \in Nat /\ Len(q) \in Nat
    BY <1>4
  <2>3. n # Len(q)
    BY <2>2
  <2> QED
    BY <2>1, <2>3
<1>6. Clock!Entry(l, w) \in Event /\ Clock!Entry(l, w).time = l /\ Clock!Entry(l, w).what = w
  BY <1>3 DEF Clock!Entry, Event
<1> HIDE DEF l
<1>7. /\ later \in Seq(Event) /\ Len(later) = Len(q)
      /\ \A i \in 1..Len(q) : /\ later[i].what = q[i].what
                              /\ later[i].time = IF i = n + 1 THEN q[i].time - l ELSE q[i].time
                              /\ i # n + 1 => later[i] = q[i]
  <2>1. CASE n = Len(q)
    BY <1>4, <2>1
  <2>2. CASE n # Len(q)
    <3> DEFINE e == [q[n + 1] EXCEPT !.time = @ - l]
    <3>1. n + 1 \in 1..Len(q) /\ q[n + 1] \in Event
      <4> HIDE DEF e, r, later
      <4>1. n \in Nat /\ Len(q) \in Nat /\ n <= Len(q)
        BY <1>4
      <4>2. n + 1 \in 1..Len(q)
        BY <2>2, <4>1
      <4> QED
        BY <1>4, <4>2
    <3>2. e \in Event /\ e.time = q[n + 1].time - l /\ e.what = q[n + 1].what
      BY SMTT(30), <1>3, <3>1 DEF Event
    <3>3. later = [q EXCEPT ![n + 1] = e]
      BY <2>2
    <3> HIDE DEF e, later
    <3>4. /\ later \in Seq(Event) /\ Len(later) = Len(q)
          /\ \A i \in 1..Len(q) : later[i] = IF i = n + 1 THEN e ELSE q[i]
      BY <3>1, <3>2, <3>3, ExceptSeq
    <3> QED
      BY <3>2, <3>4
  <2> QED
    BY <2>1, <2>2
<1> HIDE DEF later
<1>8. n + 1 \in 1..(Len(later) + 1)
  BY <1>4, <1>7
<1>9. /\ r \in Seq(Event) /\ Len(r) = Len(later) + 1
      /\ \A j \in 1..((n + 1) - 1) : r[j] = later[j]
      /\ r[n + 1] = Clock!Entry(l, w)
      /\ \A j \in ((n + 1) + 1)..(Len(later) + 1) : r[j] = later[j - 1]
  <2>1. later \in Seq(Event) /\ Clock!Entry(l, w) \in Event
    BY <1>6, <1>7
  <2>2. PICK h \in 1..(Len(later) + 1) : h = n + 1
    BY <1>8
  <2>3. /\ InsertAt(later, h, Clock!Entry(l, w)) \in Seq(Event)
        /\ Len(InsertAt(later, h, Clock!Entry(l, w))) = Len(later) + 1
        /\ \A j \in 1..(h - 1) : InsertAt(later, h, Clock!Entry(l, w))[j] = later[j]
        /\ InsertAt(later, h, Clock!Entry(l, w))[h] = Clock!Entry(l, w)
        /\ \A j \in (h + 1)..(Len(later) + 1) : InsertAt(later, h, Clock!Entry(l, w))[j] = later[j - 1]
    BY <2>1, InsertElements
  <2> QED
    BY <2>2, <2>3
<1> HIDE DEF r
<1>10. \A i \in 1..n : r[i] = q[i]
  <2> TAKE i \in 1..n
  <2>1. i \in 1..((n + 1) - 1) /\ i \in 1..Len(q) /\ i # n + 1
    BY <1>4
  <2> QED
    BY <1>7, <1>9, <2>1
<1>11. \A i \in (n + 1)..Len(q) : /\ r[i + 1].what = q[i].what
                                  /\ r[i + 1].time = IF i = n + 1 THEN q[i].time - l ELSE q[i].time
  <2> TAKE i \in (n + 1)..Len(q)
  <2>1. i + 1 \in ((n + 1) + 1)..(Len(later) + 1) /\ (i + 1) - 1 = i /\ i \in 1..Len(q)
    BY <1>4, <1>7
  <2>2. r[i + 1] = later[i]
    BY <1>9, <2>1
  <2> QED
    BY <1>7, <2>1, <2>2
<1>12. /\ l = t - Clock!Passed(q, n)
       /\ Len(r) = Len(q) + 1 /\ r[n + 1].time = l /\ r[n + 1].what = w
  BY <1>6, <1>7, <1>9 DEF l
<1>13. PutAfter(q, r, n, l, t, w)
  BY <1>3, <1>5, <1>9, <1>10, <1>11, <1>12 DEF PutAfter
<1> QED
  BY <1>2, <1>3, <1>13

(* timeout puts the event among those with the time they have left, and    *)
(* leaves theirs to all of them.                                           *)
LEMMA InsertLeft ==
    ASSUME NEW q \in Seq(Event), LateFirst(q), NEW t \in Nat, t >= 1, NEW w \in What
    PROVE  \E at \in 1..(Len(q) + 1), r \in Seq(Event) :
              /\ r = Clock!Insert(q, t, w) /\ Len(r) = Len(q) + 1 /\ LateFirst(r)
              /\ \A i \in 1..(at - 1) : /\ r[i].what = q[i].what /\ LeftOf(r, i) = LeftOf(q, i)
                                       /\ LeftOf(q, i) < t
              /\ r[at].what = w /\ LeftOf(r, at) = t
              /\ \A i \in at..Len(q) : /\ r[i + 1].what = q[i].what /\ LeftOf(r, i + 1) = LeftOf(q, i)
                                      /\ LeftOf(q, i) >= t
<1>1. PICK n \in 0..Len(q), l \in Nat : PutAfter(q, Clock!Insert(q, t, w), n, l, t, w)
  BY InsertForm
<1>2. PICK r : r = Clock!Insert(q, t, w) /\ PutAfter(q, r, n, l, t, w)
  BY <1>1
<1>17. r \in Seq(Event) /\ l = t - Clock!Passed(q, n)
  BY <1>2 DEF PutAfter
<1>3. PICK N \in Nat : N = Len(q)
  BY Entries
<1>4. /\ n \in 0..N /\ l \in Nat /\ l >= 1
      /\ n < N => q[n + 1].time >= l
      /\ Len(r) = N + 1
      /\ \A i \in 1..n : r[i] = q[i]
      /\ r[n + 1].time = l /\ r[n + 1].what = w
      /\ \A i \in (n + 1)..N : /\ r[i + 1].what = q[i].what
                               /\ r[i + 1].time = IF i = n + 1 THEN q[i].time - l ELSE q[i].time
  <2>1. n \in 0..N /\ l \in Nat
    BY <1>3
  <2> QED
    BY <1>2, <1>3, <2>1 DEF PutAfter
<1>21. n \in 0..N /\ l \in Nat /\ l >= 1 /\ Len(r) = N + 1
  BY <1>4
<1>5. /\ DOMAIN q = 1..N /\ \A i \in 1..N : q[i].time \in Int
      /\ DOMAIN r = 1..(N + 1) /\ \A i \in 1..(N + 1) : r[i].time \in Int
  BY <1>17, <1>3, <1>4, Entries
<1> DEFINE P(i) == Clock!Passed(q, i)
           R(i) == Clock!Passed(r, i)
<1>6. /\ P(0) = 0 /\ \A i \in 0..N : P(i) \in Nat
      /\ \A i \in 1..N : P(i) = P(i - 1) + Delay(q[i])
      /\ R(0) = 0 /\ \A i \in 0..(N + 1) : R(i) \in Nat
      /\ \A i \in 1..(N + 1) : R(i) = R(i - 1) + Delay(r[i])
  BY <1>17, <1>3, <1>4, PassedSteps
<1>7. \A i \in (n + 1)..N : q[i].time >= 0
  <2> TAKE i \in (n + 1)..N
  <2>1. n + 1 \in 1..N /\ n < N /\ i \in 1..N
    BY <1>21
  <2>2. q[n + 1].time >= 1 /\ q[n + 1].time \in Int /\ q[i].time \in Int
    BY <1>4, <1>5, <2>1
  <2>3. CASE i = n + 1
    BY <2>2, <2>3
  <2>4. CASE i # n + 1
    <3>1. n + 1 \in 1..(i - 1) /\ i \in DOMAIN q
      BY <1>21, <1>5, <2>1, <2>4
    <3>2. q[i].time < 0 => q[n + 1].time <= q[i].time
      BY <3>1 DEF LateFirst
    <3> QED
      BY <2>2, <3>2
  <2> QED
    BY <2>3, <2>4
<1>8. \A i \in (n + 1)..(N + 1) : r[i].time >= 0
  <2> TAKE i \in (n + 1)..(N + 1)
  <2>1. CASE i = n + 1
    BY <1>4, <2>1
  <2>2. CASE i # n + 1
    <3>1. i - 1 \in (n + 1)..N /\ (i - 1) + 1 = i /\ i - 1 \in 1..N /\ n < N
      BY <1>21, <2>2
    <3>2. r[i].time = IF i - 1 = n + 1 THEN q[i - 1].time - l ELSE q[i - 1].time
      BY <1>4, <3>1
    <3>3. q[i - 1].time \in Int /\ q[i - 1].time >= 0 /\ (i - 1 = n + 1 => q[i - 1].time >= l)
      BY <1>4, <1>5, <1>7, <3>1
    <3> QED
      BY <1>4, <3>2, <3>3
  <2> QED
    BY <2>1, <2>2
<1>9. LateFirst(r)
  <2> SUFFICES ASSUME NEW j \in 1..(N + 1), NEW i \in 1..(j - 1), r[j].time < 0
               PROVE  r[i].time <= r[j].time
    BY <1>5 DEF LateFirst
  <2>1. j \in 1..n
    BY <1>4, <1>5, <1>8
  <2>2. i \in 1..n /\ j \in DOMAIN q
    BY <1>21, <1>5, <2>1
  <2>3. q[j].time < 0 /\ r[i] = q[i] /\ r[j] = q[j]
    BY <1>4, <2>1, <2>2
  <2> QED
    BY <2>2, <2>3 DEF LateFirst
<1>10. ASSUME NEW i \in 0..n PROVE R(i) = P(i)
  <2>1. \A j \in 1..i : r[j] = q[j]
    BY <1>4
  <2>2. i \in Nat /\ 0 \in Nat /\ i <= Len(q) /\ i <= Len(r)
    <3>1. i \in Nat /\ i <= N /\ i <= N + 1
      BY <1>21
    <3> QED
      BY <1>3, <1>21, <3>1
  <2>3. \A j \in (0 + 1)..i : \A h \in (0 + 1)..i : j - 0 = h - 0 => Delay(q[j]) = Delay(r[h])
    BY <2>1, <2>2
  <2>4. Clock!Passed(q, i) - Clock!Passed(q, 0) = Clock!Passed(r, i) - Clock!Passed(r, 0)
    <3>1. SameDelays(q, 0, i, r, 0, i)
      BY <2>2, <2>3 DEF SameDelays
    <3> QED
      BY <1>17, <2>2, <3>1, PassedBetween
  <2>5. P(i) \in Nat /\ R(i) \in Nat
    BY SMTT(30), <1>4, <1>6
  <2> QED
    BY <1>6, <2>2, <2>4, <2>5
<1>11. R(n + 1) = t /\ P(n) + l = t
  <2>1. n + 1 \in 1..(N + 1) /\ (n + 1) - 1 = n /\ n \in 0..N
    BY <1>21
  <2>2. R(n + 1) = R(n) + Delay(r[n + 1]) /\ R(n) = P(n) /\ P(n) \in Nat
    BY <1>4, <1>6, <1>10, <2>1
  <2>3. Delay(r[n + 1]) = l
    BY <1>4 DEF Delay
  <2>4. l = t - P(n)
    BY <1>17
  <2> HIDE DEF P, R
  <2> QED
    BY <2>2, <2>3, <2>4
<1>12. ASSUME NEW i \in (n + 1)..N PROVE R(i + 1) = P(i) /\ P(i) >= t
  <2>1. n + 1 \in 1..N /\ n < N /\ n + 2 \in 1..(N + 1) /\ (n + 2) - 1 = n + 1 /\ (n + 1) - 1 = n
    BY <1>21
  <2>2. PICK x \in Nat : x = q[n + 1].time /\ x >= l
    BY <1>4, <1>5, <1>7, <2>1
  <2>3. r[n + 2].time = x - l
    <3>1. n + 1 \in (n + 1)..N /\ (n + 1) + 1 = n + 2
      BY <1>4, <2>1
    <3> QED
      BY <1>4, <2>2, <3>1
  <2>4. Delay(q[n + 1]) = x /\ Delay(r[n + 2]) = x - l
    BY SMTT(30), <1>4, <2>2, <2>3 DEF Delay
  <2>5. P(n + 1) = P(n) + x /\ R(n + 2) = R(n + 1) + (x - l) /\ P(n) \in Nat
    BY <1>4, <1>6, <2>1, <2>4
  <2>6. R(n + 2) = P(n + 1) /\ P(n + 1) >= t
    <3>1. PICK c \in Nat : c = P(n)
      BY <2>5
    <3>2. R(n + 1) = t /\ c + l = t /\ P(n + 1) = c + x /\ R(n + 2) = t + (x - l)
      BY <1>11, <2>5, <3>1
    <3>3. t + (x - l) = c + x /\ c + x >= t
      <4>1. c + l = t /\ x >= l
        BY <2>2, <3>2
      <4> QED
        BY <4>1
    <3> HIDE DEF P, R
    <3> QED
      BY <3>2, <3>3
  <2>7. /\ n + 1 \in Nat /\ n + 2 \in Nat /\ i \in Nat /\ i + 1 \in Nat
        /\ n + 1 <= i /\ i <= Len(q) /\ i + 1 <= Len(r) /\ i - (n + 1) = (i + 1) - (n + 2)
    BY <1>3, <1>21
  <2>8. \A j \in ((n + 1) + 1)..i : \A h \in ((n + 2) + 1)..(i + 1) :
            j - (n + 1) = h - (n + 2) => Delay(q[j]) = Delay(r[h])
    <3> SUFFICES ASSUME NEW j \in ((n + 1) + 1)..i PROVE Delay(q[j]) = Delay(r[j + 1])
      <4>1. ASSUME NEW j \in ((n + 1) + 1)..i, NEW h \in ((n + 2) + 1)..(i + 1),
                   j - (n + 1) = h - (n + 2)
            PROVE  h = j + 1
        BY <1>21, <4>1
      <4> QED
        BY <4>1
    <3>1. j \in (n + 1)..N /\ j # n + 1
      BY <1>21
    <3>2. r[j + 1].time = q[j].time
      BY <1>4, <3>1
    <3> QED
      BY <3>2 DEF Delay
  <2>9. PICK a \in Nat, b \in Nat, c \in Nat, d \in Nat : a = n + 1 /\ b = n + 2 /\ c = i /\ d = i + 1
    BY <2>7
  <2>10. P(c) - P(a) = R(d) - R(b)
    <3>1. a <= c /\ c <= Len(q) /\ d <= Len(r) /\ c - a = d - b
      BY <2>7, <2>9
    <3>2. \A j \in (a + 1)..c : \A h \in (b + 1)..d : j - a = h - b => Delay(q[j]) = Delay(r[h])
      BY ZenonT(30), <2>8, <2>9
    <3>3. SameDelays(q, a, c, r, b, d)
      BY <3>1, <3>2 DEF SameDelays
    <3> QED
      BY SMTT(30), <1>17, <3>3, PassedBetween
  <2>11. P(i) \in Nat /\ P(n + 1) \in Nat /\ R(i + 1) \in Nat
    <3>1. i \in 0..N /\ n + 1 \in 0..N /\ i + 1 \in 0..(N + 1)
      BY <1>4
    <3> QED
      BY <1>6, <3>1
  <2>12. P(n + 1) <= P(i)
    <3>1. n + 1 \in Nat /\ i \in Nat /\ n + 1 <= i /\ i <= Len(q)
      BY <1>3, <1>4
    <3> QED
      BY <3>1, PassedGrows
  <2> HIDE DEF P, R
  <2> QED
    BY <2>6, <2>9, <2>10, <2>11, <2>12
<1>13. ASSUME NEW i \in 1..n
       PROVE  r[i].what = q[i].what /\ LeftOf(r, i) = LeftOf(q, i) /\ LeftOf(q, i) < t
  <2>1. i \in 1..Len(q) /\ i \in 1..Len(r) /\ i \in 0..n /\ r[i] = q[i] /\ i \in 0..N /\ n \in 0..N
    <3>1. r[i] = q[i]
      BY <1>4
    <3>2. i \in 1..N /\ i \in 1..(N + 1) /\ i \in 0..n /\ i \in 0..N /\ n \in 0..N
      BY <1>21
    <3> QED
      BY <1>3, <1>21, <3>1, <3>2
  <2>2. LeftOf(r, i) = IF r[i].time < 0 THEN r[i].time ELSE R(i)
    BY <1>17, <1>9, <2>1, LeftForm
  <2>3. LeftOf(q, i) = IF q[i].time < 0 THEN q[i].time ELSE P(i)
    BY <2>1, LeftForm
  <2>4. R(i) = P(i) /\ P(i) \in Nat /\ P(n) \in Nat
    BY <1>6, <1>10, <2>1
  <2>5. P(i) <= P(n)
    <3>1. i \in Nat /\ n \in Nat /\ i <= n /\ n <= Len(q)
      BY <1>3, <1>21
    <3> QED
      BY <3>1, PassedGrows
  <2>6. q[i].time \in Int
    BY <1>3, <1>5, <2>1
  <2>7. l \in Nat /\ l >= 1
    BY <1>21
  <2> HIDE DEF P, R
  <2>8. P(i) < t
    BY <1>11, <2>4, <2>5, <2>7
  <2>9. LeftOf(r, i) = LeftOf(q, i)
    BY <2>1, <2>2, <2>3, <2>4
  <2>10. LeftOf(q, i) < t
    BY <2>3, <2>4, <2>6, <2>8
  <2> QED
    BY <2>1, <2>9, <2>10
<1>14. LeftOf(r, n + 1) = t
  <2>1. n + 1 \in 1..Len(r) /\ ~(r[n + 1].time < 0)
    BY <1>4
  <2> QED
    BY <1>17, <1>9, <1>11, <2>1, LeftForm
<1>15. ASSUME NEW i \in (n + 1)..N
       PROVE  r[i + 1].what = q[i].what /\ LeftOf(r, i + 1) = LeftOf(q, i) /\ LeftOf(q, i) >= t
  <2>1. i \in 1..Len(q) /\ i + 1 \in 1..Len(r) /\ i + 1 \in (n + 1)..(N + 1)
    BY <1>3, <1>21
  <2>2. ~(q[i].time < 0) /\ ~(r[i + 1].time < 0)
    BY SMTT(30), <1>3, <1>4, <1>5, <1>7, <1>8, <2>1
  <2>3. LeftOf(q, i) = P(i) /\ LeftOf(r, i + 1) = R(i + 1)
    BY <1>17, <1>9, <2>1, <2>2, LeftForm
  <2> QED
    BY <1>4, <1>12, <2>3
<1>16. n + 1 \in 1..(Len(q) + 1) /\ (n + 1) - 1 = n
  BY <1>3, <1>4
<1>18. Len(r) = Len(q) + 1 /\ r[n + 1].what = w /\ n + 1 \in 1..(Len(q) + 1)
  BY <1>3, <1>4, <1>16
<1>19. \A i \in 1..((n + 1) - 1) : /\ r[i].what = q[i].what /\ LeftOf(r, i) = LeftOf(q, i)
                                  /\ LeftOf(q, i) < t
  BY <1>13, <1>16
<1>20. \A i \in (n + 1)..Len(q) : /\ r[i + 1].what = q[i].what /\ LeftOf(r, i + 1) = LeftOf(q, i)
                                 /\ LeftOf(q, i) >= t
  BY <1>3, <1>15
<1> QED
  BY <1>2, <1>9, <1>14, <1>17, <1>18, <1>19, <1>20

(* untimeout: the entries before the one that leaves stay, and the next one *)
(* waits for what that one waited for.                                     *)
Without(q, r, at) ==
    /\ r \in Seq(Event)
    /\ Len(r) = Len(q) - 1
    /\ \A i \in 1..(at - 1) : r[i] = q[i]
    /\ \A i \in at..(Len(q) - 1) :
          /\ r[i].what = q[i + 1].what
          /\ r[i].time = IF i = at THEN q[at + 1].time + Delay(q[at]) ELSE q[i + 1].time

LEMMA DeleteForm ==
    ASSUME NEW q \in Seq(Event), NEW at \in 1..Len(q)
    PROVE  Without(q, Clock!Delete(q, at), at)
<1> DEFINE later == IF at < Len(q) /\ q[at].time > 0 THEN [q EXCEPT ![at + 1].time = @ + q[at].time] ELSE q
           r == RemoveAt(later, at)
<1>1. Clock!Delete(q, at) = r
  BY DEF Clock!Delete, Clock!RemoveAt, RemoveAt
<1>2. PICK N \in Nat : N = Len(q)
  BY Entries
<1>3. \A i \in 1..N : q[i] \in Event /\ q[i].time \in Int /\ q[i].what \in What
  BY <1>2, Entries
<1>4. at \in 1..N /\ Delay(q[at]) \in Nat
  BY <1>2, Entries
<1>5. /\ later \in Seq(Event) /\ Len(later) = N
      /\ \A i \in 1..N : /\ later[i].what = q[i].what
                         /\ later[i].time = IF i = at + 1 THEN q[i].time + Delay(q[at]) ELSE q[i].time
                         /\ i # at + 1 => later[i] = q[i]
  <2>1. CASE at < Len(q) /\ q[at].time > 0
    <3> DEFINE e == [q[at + 1] EXCEPT !.time = @ + q[at].time]
    <3>1. at + 1 \in 1..N /\ q[at + 1] \in Event /\ q[at].time \in Int /\ Delay(q[at]) = q[at].time
      BY <1>2, <1>3, <1>4, <2>1 DEF Delay
    <3>2. e \in Event /\ e.time = q[at + 1].time + Delay(q[at]) /\ e.what = q[at + 1].what
      <4>1. PICK x \in Int : x = q[at].time /\ x = Delay(q[at])
        BY <3>1
      <4>2. PICK f \in Event : f = q[at + 1]
        BY <3>1
      <4>3. [f EXCEPT !.time = @ + x] \in Event /\ [f EXCEPT !.time = @ + x].time = f.time + x
            /\ [f EXCEPT !.time = @ + x].what = f.what
        BY SMTT(30) DEF Event
      <4> QED
        BY <4>1, <4>2, <4>3
    <3>3. later = [q EXCEPT ![at + 1] = e]
      BY <2>1
    <3> HIDE DEF e, later
    <3>4. /\ later \in Seq(Event) /\ Len(later) = Len(q)
          /\ \A i \in 1..Len(q) : later[i] = IF i = at + 1 THEN e ELSE q[i]
      BY <1>2, <3>1, <3>2, <3>3, ExceptSeq
    <3> QED
      BY <1>2, <3>2, <3>4
  <2>2. CASE ~(at < Len(q) /\ q[at].time > 0)
    <3>1. later = q
      BY <2>2
    <3>2. ASSUME NEW i \in 1..N, i = at + 1 PROVE q[i].time = q[i].time + Delay(q[at])
      <4>1. q[at].time \in Int /\ ~(q[at].time > 0) /\ q[i].time \in Int
        BY <1>2, <1>3, <1>4, <2>2, <3>2
      <4>2. Delay(q[at]) = 0
        BY <4>1 DEF Delay
      <4> QED
        BY <4>1, <4>2
    <3> HIDE DEF later
    <3> QED
      BY <1>2, <3>1, <3>2
  <2> QED
    BY <2>1, <2>2
<1> HIDE DEF later
<1>6. at \in 1..Len(later)
  BY <1>4, <1>5
<1>7. /\ r \in Seq(Event) /\ Len(r) = Len(later) - 1
      /\ \A j \in 1..(at - 1) : r[j] = later[j]
      /\ \A j \in at..(Len(later) - 1) : r[j] = later[j + 1]
  BY <1>5, <1>6, RemoveElements
<1> HIDE DEF r
<1>8. \A i \in 1..(at - 1) : r[i] = q[i]
  <2> TAKE i \in 1..(at - 1)
  <2>1. i \in 1..N /\ i # at + 1
    BY <1>4
  <2> QED
    BY <1>5, <1>7, <2>1
<1>9. \A i \in at..(N - 1) : /\ r[i].what = q[i + 1].what
                            /\ r[i].time = IF i = at THEN q[at + 1].time + Delay(q[at]) ELSE q[i + 1].time
  <2> TAKE i \in at..(N - 1)
  <2>1. i + 1 \in 1..N /\ (i + 1 = at + 1 <=> i = at) /\ i \in at..(Len(later) - 1)
    BY <1>4, <1>5
  <2>2. r[i] = later[i + 1]
    BY <1>7, <2>1
  <2>3. /\ later[i + 1].what = q[i + 1].what
        /\ later[i + 1].time = IF i + 1 = at + 1 THEN q[i + 1].time + Delay(q[at]) ELSE q[i + 1].time
    BY <1>5, <2>1
  <2> QED
    BY <2>1, <2>2, <2>3
<1>10. Len(r) = Len(q) - 1
  BY <1>2, <1>5, <1>7
<1>11. Without(q, r, at)
  BY <1>2, <1>7, <1>8, <1>9, <1>10 DEF Without
<1> QED
  BY <1>1, <1>11

(* untimeout takes an event out and leaves the others the time they have.  *)
LEMMA DeleteLeft ==
    ASSUME NEW q \in Seq(Event), LateFirst(q), NEW at \in 1..Len(q)
    PROVE  \E r \in Seq(Event) :
              /\ r = Clock!Delete(q, at) /\ Len(r) = Len(q) - 1 /\ LateFirst(r)
              /\ \A i \in 1..(at - 1) : r[i].what = q[i].what /\ LeftOf(r, i) = LeftOf(q, i)
              /\ \A i \in at..(Len(q) - 1) : r[i].what = q[i + 1].what /\ LeftOf(r, i) = LeftOf(q, i + 1)
<1>1. PICK r : r = Clock!Delete(q, at) /\ Without(q, r, at)
  BY DeleteForm
<1>0. r \in Seq(Event)
  BY <1>1 DEF Without
<1>2. PICK N \in Nat : N = Len(q)
  BY <1>0, Entries
<1>3. /\ Len(r) = N - 1 /\ at \in 1..N
      /\ \A i \in 1..(at - 1) : r[i] = q[i]
      /\ \A i \in at..(N - 1) : /\ r[i].what = q[i + 1].what
                               /\ r[i].time = IF i = at THEN q[at + 1].time + Delay(q[at]) ELSE q[i + 1].time
  BY <1>1, <1>2 DEF Without
<1>4. /\ DOMAIN q = 1..N /\ \A i \in 1..N : q[i].time \in Int /\ Delay(q[i]) \in Nat
      /\ DOMAIN r = 1..(N - 1) /\ \A i \in 1..(N - 1) : r[i].time \in Int
  BY <1>0, <1>2, <1>3, Entries
<1> DEFINE P(i) == Clock!Passed(q, i)
           R(i) == Clock!Passed(r, i)
<1>5. /\ P(0) = 0 /\ \A i \in 0..N : P(i) \in Nat
      /\ \A i \in 1..N : P(i) = P(i - 1) + Delay(q[i])
      /\ R(0) = 0 /\ \A i \in 0..(N - 1) : R(i) \in Nat
      /\ \A i \in 1..(N - 1) : R(i) = R(i - 1) + Delay(r[i])
  BY <1>0, <1>2, <1>3, PassedSteps
<1>6. ASSUME NEW i \in at..(N - 1)
      PROVE  /\ (r[i].time < 0) <=> (q[i + 1].time < 0)
             /\ q[i + 1].time < 0 => r[i].time = q[i + 1].time
  <2>1. i + 1 \in 1..N /\ i \in 1..(N - 1) /\ i + 1 \in DOMAIN q /\ at \in 1..((i + 1) - 1)
    BY <1>3, <1>4
  <2>2. q[i + 1].time \in Int /\ q[at].time \in Int /\ Delay(q[at]) \in Nat
    BY <1>3, <1>4, <2>1
  <2>5. r[i].time = IF i = at THEN q[i + 1].time + Delay(q[at]) ELSE q[i + 1].time
    BY <1>3
  <2>3. CASE q[at].time > 0
    <3>1. q[i + 1].time < 0 => q[at].time <= q[i + 1].time
      BY <2>1 DEF LateFirst
    <3>2. q[i + 1].time >= 0
      BY <2>2, <2>3, <3>1
    <3>3. r[i].time \in Int /\ r[i].time >= 0
      BY <2>2, <2>5, <3>2
    <3> QED
      BY <2>2, <3>2, <3>3
  <2>4. CASE ~(q[at].time > 0)
    <3>1. Delay(q[at]) = 0
      BY <2>4 DEF Delay
    <3>2. r[i].time = q[i + 1].time
      BY <2>2, <2>5, <3>1
    <3> QED
      BY <3>2
  <2> QED
    BY <2>3, <2>4
<1>7. LateFirst(r)
  <2> SUFFICES ASSUME NEW j \in 1..(N - 1), NEW i \in 1..(j - 1), r[j].time < 0
               PROVE  r[i].time <= r[j].time
    BY <1>4 DEF LateFirst
  <2> DEFINE Was(n) == IF n < at THEN n ELSE n + 1
  <2>1. \A n \in 1..(N - 1) : r[n].time < 0 => r[n].time = q[Was(n)].time
    <3> TAKE n \in 1..(N - 1)
    <3>1. CASE n < at
      <4>1. n \in 1..(at - 1)
        BY <1>3, <3>1
      <4> QED
        BY <1>3, <3>1, <4>1
    <3>2. CASE ~(n < at)
      <4>1. n \in at..(N - 1)
        BY <1>3, <3>2
      <4> QED
        BY <1>6, <3>2, <4>1
    <3> QED
      BY <3>1, <3>2
  <2>2. Was(j) \in DOMAIN q /\ Was(i) \in 1..(Was(j) - 1) /\ i \in 1..(N - 1) /\ Was(j) \in 1..N /\ Was(i) \in 1..N
    BY SMTT(30), <1>2, <1>3, <1>4
  <2>3. r[j].time = q[Was(j)].time /\ q[Was(j)].time < 0
    BY <2>1
  <2>4. q[Was(i)].time <= q[Was(j)].time
    <3>1. PICK a \in DOMAIN q, b \in 1..N : a = Was(j) /\ b = Was(i) /\ b \in 1..(a - 1)
      BY <2>2
    <3>2. q[a].time < 0 => q[b].time <= q[a].time
      BY <3>1 DEF LateFirst
    <3> QED
      BY <2>3, <3>1, <3>2
  <2>5. r[i].time = q[Was(i)].time
    <3>4. q[Was(i)].time \in Int /\ q[Was(j)].time \in Int
      BY <1>4, <2>2
    <3>1. q[Was(i)].time < 0
      <4> HIDE DEF Was
      <4> QED
        BY <2>3, <2>4, <3>4
    <3>2. CASE i < at
      <4>1. i \in 1..(at - 1)
        BY <1>3, <3>2
      <4> QED
        BY <1>3, <3>2, <4>1
    <3>3. CASE ~(i < at)
      <4>1. i \in at..(N - 1)
        BY <1>3, <2>2, <3>3
      <4> QED
        BY <1>6, <3>1, <3>3, <4>1
    <3> QED
      BY <3>2, <3>3
  <2> QED
    BY <2>3, <2>4, <2>5
<1>8. ASSUME NEW i \in 0..(at - 1) PROVE R(i) = P(i)
  <2>1. i \in Nat /\ 0 \in Nat /\ i <= Len(q) /\ i <= Len(r) /\ 0 <= i /\ \A j \in 1..i : r[j] = q[j]
    BY <1>2, <1>3
  <2>2. \A j \in (0 + 1)..i : \A h \in (0 + 1)..i : j - 0 = h - 0 => Delay(q[j]) = Delay(r[h])
    BY <2>1
  <2>3. Clock!Passed(q, i) - Clock!Passed(q, 0) = Clock!Passed(r, i) - Clock!Passed(r, 0)
    <3>1. SameDelays(q, 0, i, r, 0, i)
      BY <2>1, <2>2 DEF SameDelays
    <3> QED
      BY <1>0, <2>1, <3>1, PassedBetween
  <2>4. P(i) \in Nat /\ R(i) \in Nat
    <3>1. i \in 0..N /\ i \in 0..(N - 1)
      BY <1>3
    <3> QED
      BY <1>5, <3>1
  <2> QED
    BY <1>5, <2>3, <2>4
<1>9. ASSUME NEW i \in at..(N - 1) PROVE R(i) = P(i + 1)
  <2>1. /\ at \in 1..(N - 1) /\ at + 1 \in 1..N /\ (at + 1) - 1 = at /\ at - 1 \in 0..(at - 1) /\ at \in at..(N - 1)
        /\ at - 1 \in 0..N
    BY <1>3
  <2>2. PICK x \in Int, y \in Int : x = q[at].time /\ y = q[at + 1].time
    BY <1>3, <1>4, <2>1
  <2>3. r[at].time = y + Delay(q[at]) /\ (x > 0 => y >= 0)
    <3>1. r[at].time = y + Delay(q[at])
      BY <1>3, <2>1, <2>2
    <3>2. y < 0 => x <= y
      <4>1. at + 1 \in DOMAIN q /\ at \in 1..((at + 1) - 1)
        BY <1>3, <1>4, <2>1
      <4> QED
        BY <2>2, <4>1 DEF LateFirst
    <3> QED
      BY <3>1, <3>2
  <2>4. Delay(r[at]) = Delay(q[at]) + Delay(q[at + 1]) /\ Delay(q[at]) \in Nat /\ Delay(q[at + 1]) \in Nat
    BY SMTT(30), <2>2, <2>3 DEF Delay
  <2>5. P(at) = P(at - 1) + Delay(q[at]) /\ P(at + 1) = P(at) + Delay(q[at + 1]) /\ R(at) = R(at - 1) + Delay(r[at])
    BY <1>3, <1>5, <2>1
  <2>6. R(at) = P(at + 1)
    <3>1. R(at - 1) = P(at - 1) /\ P(at - 1) \in Nat
      BY <1>5, <1>8, <2>1
    <3> HIDE DEF P, R
    <3> QED
      BY <2>4, <2>5, <3>1
  <2>7. PICK a \in Nat, b \in Nat, c \in Nat, d \in Nat : a = at + 1 /\ b = at /\ c = i + 1 /\ d = i
    BY <2>1
  <2>8. Clock!Passed(q, c) - Clock!Passed(q, a) = Clock!Passed(r, d) - Clock!Passed(r, b)
    <3> HIDE DEF P, R
    <3>1. a <= c /\ c <= Len(q) /\ d <= Len(r) /\ c - a = d - b
      BY <1>2, <1>3, <2>7
    <3>2. \A j \in (a + 1)..c : \A h \in (b + 1)..d : j - a = h - b => Delay(q[j]) = Delay(r[h])
      <4> SUFFICES ASSUME NEW j \in (a + 1)..c, NEW h \in (b + 1)..d, j - a = h - b
                   PROVE  Delay(q[j]) = Delay(r[h])
        OBVIOUS
      <4>1. h \in at..(N - 1) /\ h # at /\ j = h + 1
        BY <2>7
      <4>2. r[h].time = q[j].time
        BY <1>3, <4>1
      <4> QED
        BY <4>2 DEF Delay
    <3>3. SameDelays(q, a, c, r, b, d)
      BY <3>1, <3>2 DEF SameDelays
    <3> QED
      BY <1>0, <3>3, PassedBetween
  <2>10. P(i + 1) - P(at + 1) = R(i) - R(at)
    BY <2>7, <2>8
  <2>9. P(i + 1) \in Nat /\ P(at + 1) \in Nat /\ R(i) \in Nat
    <3>1. i + 1 \in 0..N /\ at + 1 \in 0..N /\ i \in 0..(N - 1)
      BY <1>3
    <3> QED
      BY <1>5, <3>1
  <2> HIDE DEF P, R
  <2> QED
    BY <2>6, <2>9, <2>10
<1>10. ASSUME NEW i \in 1..(at - 1) PROVE r[i].what = q[i].what /\ LeftOf(r, i) = LeftOf(q, i)
  <2>1. i \in 1..Len(q) /\ i \in 1..Len(r) /\ i \in 0..(at - 1) /\ r[i] = q[i]
    BY <1>2, <1>3
  <2>2. LeftOf(r, i) = IF r[i].time < 0 THEN r[i].time ELSE R(i)
    BY <1>0, <1>7, <2>1, LeftForm
  <2>3. LeftOf(q, i) = IF q[i].time < 0 THEN q[i].time ELSE P(i)
    BY <1>0, <2>1, LeftForm
  <2> QED
    BY <1>8, <2>1, <2>2, <2>3
<1>11. ASSUME NEW i \in at..(N - 1) PROVE r[i].what = q[i + 1].what /\ LeftOf(r, i) = LeftOf(q, i + 1)
  <2>1. i + 1 \in 1..Len(q) /\ i \in 1..Len(r)
    BY <1>2, <1>3
  <2>2. LeftOf(r, i) = IF r[i].time < 0 THEN r[i].time ELSE R(i)
    BY <1>0, <1>7, <2>1, LeftForm
  <2>3. LeftOf(q, i + 1) = IF q[i + 1].time < 0 THEN q[i + 1].time ELSE P(i + 1)
    BY <1>0, <2>1, LeftForm
  <2> QED
    BY <1>3, <1>6, <1>9, <2>2, <2>3
<1>12. Len(r) = Len(q) - 1
  BY <1>2, <1>3
<1>13. \A i \in at..(Len(q) - 1) : r[i].what = q[i + 1].what /\ LeftOf(r, i) = LeftOf(q, i + 1)
  BY <1>2, <1>11
<1> QED
  BY Zenon, <1>0, <1>1, <1>7, <1>10, <1>12, <1>13

(* hardclock decrements the events before which all are due; the last of   *)
(* these is the first that is not due.                                     *)
LEMMA CountdownForm ==
    ASSUME NEW q \in Seq(Event)
    PROVE  /\ Clock!Countdown(q) \in Seq(Event)
           /\ Len(Clock!Countdown(q)) = Len(q)
           /\ \A i \in 1..Len(q) :
                 /\ Clock!Countdown(q)[i].what = q[i].what
                 /\ Clock!Countdown(q)[i].time = IF \A j \in 1..(i - 1) : q[j].time <= 0
                                                 THEN q[i].time - 1 ELSE q[i].time
<1> DEFINE r == Clock!Countdown(q)
<1>1. PICK N \in Nat : N = Len(q)
  BY Entries
<1>2. /\ DOMAIN q = 1..N
      /\ \A i \in 1..N : q[i] \in Event /\ q[i].time \in Int
  BY <1>1, Entries
<1>3. r = [i \in 1..N |-> IF \A j \in 1..(i - 1) : q[j].time - 1 < 0
                          THEN [q[i] EXCEPT !.time = @ - 1] ELSE q[i]]
  BY <1>2 DEF Clock!Countdown
<1> HIDE DEF r
<1>4. ASSUME NEW i \in 1..N
      PROVE  /\ r[i] \in Event /\ r[i].what = q[i].what
             /\ r[i].time = IF \A j \in 1..(i - 1) : q[j].time <= 0 THEN q[i].time - 1 ELSE q[i].time
  <2>1. (\A j \in 1..(i - 1) : q[j].time - 1 < 0) <=> (\A j \in 1..(i - 1) : q[j].time <= 0)
    <3>1. \A j \in 1..(i - 1) : q[j].time \in Int
      BY <1>2
    <3> QED
      BY <3>1
  <2>2. r[i] = IF \A j \in 1..(i - 1) : q[j].time <= 0 THEN [q[i] EXCEPT !.time = @ - 1] ELSE q[i]
    BY <1>3, <2>1
  <2>3. PICK f \in Event : f = q[i]
    BY <1>2
  <2>4. [f EXCEPT !.time = @ - 1] \in Event /\ [f EXCEPT !.time = @ - 1].time = f.time - 1
        /\ [f EXCEPT !.time = @ - 1].what = f.what
    BY DEF Event
  <2> QED
    BY <2>2, <2>3, <2>4
<1>5. r \in [1..N -> Event]
  BY <1>3, <1>4
<1>6. r \in Seq(Event) /\ Len(r) = N
  <2>1. r \in Seq(Event)
    BY <1>5, SeqDef
  <2>2. DOMAIN r = 1..N /\ DOMAIN r = 1..Len(r) /\ Len(r) \in Nat
    BY <1>5, <2>1, LenProperties
  <2> QED
    BY <2>1, <2>2
<1> QED
  BY <1>1, <1>4, <1>6 DEF r

(* A tick takes one from what every event has left.                        *)
LEMMA CountdownLeft ==
    ASSUME NEW q \in Seq(Event), LateFirst(q)
    PROVE  \E r \in Seq(Event) :
              /\ r = Clock!Countdown(q) /\ Len(r) = Len(q) /\ LateFirst(r)
              /\ \A i \in 1..Len(q) : r[i].what = q[i].what /\ LeftOf(r, i) = LeftOf(q, i) - 1
<1>1. PICK r \in Seq(Event) : r = Clock!Countdown(q)
  BY CountdownForm
<1>2. PICK N \in Nat : N = Len(q)
  BY Entries
<1> DEFINE Reached(i) == \A j \in 1..(i - 1) : q[j].time <= 0
<1>3. /\ Len(r) = N
      /\ \A i \in 1..N : r[i].what = q[i].what
      /\ \A i \in 1..N : r[i].time = IF Reached(i) THEN q[i].time - 1 ELSE q[i].time
  BY <1>1, <1>2, CountdownForm
<1>4. /\ DOMAIN q = 1..N /\ \A i \in 1..N : q[i].time \in Int /\ Delay(q[i]) \in Nat
      /\ DOMAIN r = 1..N /\ \A i \in 1..N : r[i].time \in Int
  BY <1>2, <1>3, Entries
<1> DEFINE P(i) == Clock!Passed(q, i)
           R(i) == Clock!Passed(r, i)
<1>5. /\ \A i \in 0..N : P(i) \in Nat
      /\ \A i \in 1..N : P(i) = P(i - 1) + Delay(q[i])
      /\ \A i \in 0..N : R(i) \in Nat
      /\ \A i \in 1..N : R(i) = R(i - 1) + Delay(r[i])
  BY <1>2, <1>3, PassedSteps
<1>6. \A i \in 1..N : q[i].time < 0 => Reached(i)
  <2> SUFFICES ASSUME NEW i \in 1..N, q[i].time < 0, NEW j \in 1..(i - 1) PROVE q[j].time <= 0
    OBVIOUS
  <2>1. i \in DOMAIN q /\ j \in 1..N
    BY <1>4
  <2>2. q[j].time <= q[i].time
    BY <2>1 DEF LateFirst
  <2> QED
    BY <1>4, <2>1, <2>2
<1>7. LateFirst(r)
  <2> SUFFICES ASSUME NEW j \in 1..N, NEW i \in 1..(j - 1), r[j].time < 0
               PROVE  r[i].time <= r[j].time
    BY <1>4 DEF LateFirst
  <2>1. i \in 1..N /\ j \in DOMAIN q
    BY <1>4
  <2>2. Reached(j)
    <3> SUFFICES ASSUME ~Reached(j) PROVE FALSE
      OBVIOUS
    <3>1. r[j].time = q[j].time
      BY <1>3
    <3> QED
      BY <1>6, <3>1
  <2>3. Reached(i)
    BY <2>2
  <2>4. r[j].time = q[j].time - 1 /\ r[i].time = q[i].time - 1
    BY <1>3, <2>1, <2>2, <2>3
  <2>5. q[i].time <= q[j].time
    <3>1. q[j].time \in Int /\ q[i].time \in Int /\ q[i].time <= 0
      BY <1>4, <2>1, <2>2
    <3>2. q[j].time < 0 => q[i].time <= q[j].time
      BY <2>1 DEF LateFirst
    <3> QED
      BY <3>1, <3>2
  <2>6. q[j].time \in Int /\ q[i].time \in Int
    BY <1>4, <2>1
  <2> HIDE DEF Reached
  <2> QED
    BY <2>4, <2>5, <2>6
<1>8. ASSUME NEW i \in 1..N, Reached(i), q[i].time > 0
      PROVE  R(i) = P(i) - 1
  <2>1. i - 1 \in Nat /\ i - 1 <= Len(q) /\ i - 1 <= Len(r)
    BY <1>2, <1>3
  <2>2. \A j \in 1..(i - 1) : r[j].time <= 0
    <3> TAKE j \in 1..(i - 1)
    <3>1. j \in 1..N /\ Reached(j) /\ q[j].time <= 0
      BY <1>8
    <3> QED
      BY <1>3, <1>4, <3>1
  <2>3. P(i - 1) = 0
    BY <1>8, <2>1, PassedNothing
  <2>4. R(i - 1) = 0
    BY <2>1, <2>2, PassedNothing
  <2>5. PICK x \in Int : x = q[i].time /\ x > 0 /\ r[i].time = x - 1
    BY SMTT(30), <1>3, <1>4, <1>8
  <2>6. Delay(q[i]) = x /\ Delay(r[i]) = x - 1
    BY <2>5 DEF Delay
  <2> QED
    BY SMTT(30), <1>5, <2>3, <2>4, <2>5, <2>6
<1>9. ASSUME NEW i \in 1..N, ~Reached(i)
      PROVE  R(i) = P(i) - 1
  <2> DEFINE T == {m \in 1..N : q[m].time > 0}
  <2>1. T # {} /\ T \subseteq Nat
    <3>1. PICK j \in 1..(i - 1) : ~(q[j].time <= 0)
      BY <1>9
    <3>2. j \in 1..N /\ q[j].time \in Int
      BY <1>4
    <3>3. j \in T
      BY <3>1, <3>2
    <3> QED
      BY <3>3
  <2>2. PICK m \in T : \A j \in T : m <= j
    <3> HIDE DEF T
    <3> QED
      BY <2>1, LeastNat
  <2>3. Reached(m) /\ m \in 1..N /\ q[m].time > 0
    <3>1. \A j \in 1..(m - 1) : j \in 1..N /\ q[j].time \in Int /\ ~(m <= j)
      BY <1>4
    <3> QED
      BY <2>2, <3>1
  <2>4. R(m) = P(m) - 1
    BY <1>8, <2>3
  <2>5. m < i
    <3>1. PICK j \in 1..(i - 1) : ~(q[j].time <= 0)
      BY <1>9
    <3>2. j \in 1..N /\ q[j].time \in Int
      BY <1>4
    <3>3. j \in T
      BY <3>1, <3>2
    <3> QED
      BY <2>2, <3>3
  <2>6. \A j \in (m + 1)..i : r[j].time = q[j].time
    <3> TAKE j \in (m + 1)..i
    <3>1. m \in 1..(j - 1) /\ j \in 1..N /\ q[m].time \in Int
      BY <1>4, <2>3, <2>5
    <3>2. ~Reached(j)
      BY <2>3, <3>1
    <3> HIDE DEF Reached
    <3> QED
      BY <1>3, <3>1, <3>2
  <2>7. SameDelays(q, m, i, r, m, i)
    <3>1. m <= i /\ i <= Len(q) /\ i <= Len(r) /\ i - m = i - m
      BY <1>2, <1>3, <2>5
    <3>2. \A j \in (m + 1)..i : Delay(q[j]) = Delay(r[j])
      BY <2>6 DEF Delay
    <3>3. \A j \in (m + 1)..i : \A h \in (m + 1)..i : j - m = h - m => j = h
      OBVIOUS
    <3> QED
      BY <3>1, <3>2, <3>3 DEF SameDelays
  <2>8. Clock!Passed(q, i) - Clock!Passed(q, m) = Clock!Passed(r, i) - Clock!Passed(r, m)
    <3>1. i \in Nat /\ m \in Nat
      BY <2>3
    <3> QED
      BY <2>7, <3>1, PassedBetween
  <2>9. P(i) \in Nat /\ P(m) \in Nat /\ R(i) \in Nat /\ R(m) \in Nat
    <3>1. i \in 0..N /\ m \in 0..N
      BY <2>3
    <3> QED
      BY <1>5, <3>1
  <2> QED
    BY SMTT(30), <2>4, <2>8, <2>9
<1>10. ASSUME NEW i \in 1..N PROVE LeftOf(r, i) = LeftOf(q, i) - 1
  <2>1. i \in 1..Len(q) /\ i \in 1..Len(r) /\ q[i].time \in Int /\ P(i) \in Nat
    <3>1. i \in 0..N
      OBVIOUS
    <3> QED
      BY <1>2, <1>3, <1>4, <1>5, <3>1
  <2>2. LeftOf(r, i) = IF r[i].time < 0 THEN r[i].time ELSE R(i)
    BY <1>7, <2>1, LeftForm
  <2>3. LeftOf(q, i) = IF q[i].time < 0 THEN q[i].time ELSE P(i)
    BY <2>1, LeftForm
  <2>4. CASE Reached(i) /\ q[i].time > 0
    <3>1. r[i].time = q[i].time - 1
      BY <1>3, <2>4
    <3>2. LeftOf(r, i) = R(i) /\ LeftOf(q, i) = P(i)
      BY <2>1, <2>2, <2>3, <2>4, <3>1
    <3> QED
      BY <1>8, <2>4, <3>2
  <2>5. CASE Reached(i) /\ ~(q[i].time > 0)
    <3>1. r[i].time = q[i].time - 1
      BY <1>3, <2>5
    <3>2. LeftOf(r, i) = q[i].time - 1
      BY <2>1, <2>2, <2>5, <3>1
    <3>3. \A j \in 1..i : q[j].time <= 0
      <4> TAKE j \in 1..i
      <4>1. j = i \/ j \in 1..(i - 1)
        OBVIOUS
      <4> QED
        BY <2>1, <2>5, <4>1
    <3>4. LeftOf(q, i) = q[i].time
      BY <3>3 DEF LeftOf
    <3> QED
      BY <3>2, <3>4
  <2>6. CASE ~Reached(i)
    <3>1. r[i].time = q[i].time /\ ~(q[i].time < 0)
      BY <1>3, <1>6, <2>6
    <3>2. LeftOf(r, i) = R(i) /\ LeftOf(q, i) = P(i)
      BY <2>2, <2>3, <3>1
    <3> QED
      BY <1>9, <2>6, <3>2
  <2> QED
    BY <2>4, <2>5, <2>6
<1> QED
  BY <1>1, <1>2, <1>3, <1>7, <1>10

(* softclock takes the first event off, and leaves the others their time.  *)
LEMMA TailLeft ==
    ASSUME NEW q \in Seq(Event), LateFirst(q), q # <<>>, q[1].time <= 0
    PROVE  \E r \in Seq(Event) :
              /\ r = Tail(q) /\ Len(r) = Len(q) - 1 /\ LateFirst(r)
              /\ \A i \in 1..(Len(q) - 1) : r[i].what = q[i + 1].what /\ LeftOf(r, i) = LeftOf(q, i + 1)
<1>1. PICK r \in Seq(Event) : r = Tail(q)
  BY HeadTailProperties
<1>2. PICK N \in Nat : N = Len(q) /\ N >= 1
  BY EmptySeq, Entries
<1>3. Len(r) = N - 1 /\ \A i \in 1..(N - 1) : r[i] = q[i + 1]
  BY <1>1, <1>2, HeadTailProperties
<1>4. /\ DOMAIN q = 1..N /\ \A i \in 1..N : q[i].time \in Int
      /\ DOMAIN r = 1..(N - 1)
  BY <1>2, <1>3, Entries
<1>5. LateFirst(r)
  <2> SUFFICES ASSUME NEW j \in 1..(N - 1), NEW i \in 1..(j - 1), r[j].time < 0
               PROVE  r[i].time <= r[j].time
    BY <1>4 DEF LateFirst
  <2>1. PICK a \in DOMAIN q, b \in DOMAIN q : a = j + 1 /\ b = i + 1 /\ b \in 1..(a - 1)
    BY <1>4
  <2>2. r[j] = q[a] /\ r[i] = q[b]
    BY SMTT(30), <1>3, <2>1
  <2> QED
    BY <2>1, <2>2 DEF LateFirst
<1>6. ASSUME NEW i \in 1..(N - 1) PROVE Clock!Passed(r, i) = Clock!Passed(q, i + 1)
  <2>1. Clock!Passed(q, 1) = 0
    <3>1. 1 \in Nat /\ 1 <= Len(q) /\ \A j \in 1..1 : q[j].time <= 0
      BY <1>2
    <3> QED
      BY <3>1, PassedNothing
  <2>2. PICK c \in Nat : c = i + 1
    OBVIOUS
  <2>3. SameDelays(q, 1, c, r, 0, i)
    <3>1. 1 <= c /\ c <= Len(q) /\ i <= Len(r) /\ c - 1 = i - 0
      BY <1>2, <1>3, <2>2
    <3>2. \A j \in (1 + 1)..c : \A h \in (0 + 1)..i : j - 1 = h - 0 => q[j] = r[h]
      BY <1>3
    <3> QED
      BY <3>1, <3>2 DEF SameDelays
  <2>4. Clock!Passed(q, c) - Clock!Passed(q, 1) = Clock!Passed(r, i) - Clock!Passed(r, 0)
    <3>1. 1 \in Nat /\ 0 \in Nat /\ i \in Nat
      OBVIOUS
    <3> QED
      BY <2>3, <3>1, PassedBetween
  <2>5. Clock!Passed(r, 0) = 0 /\ Clock!Passed(q, c) \in Nat /\ Clock!Passed(r, i) \in Nat
    <3>1. c \in 0..Len(q) /\ i \in 0..Len(r)
      BY <1>2, <1>3, <2>2
    <3> QED
      BY <3>1, PassedSteps
  <2> QED
    BY <2>1, <2>2, <2>4, <2>5
<1>7. ASSUME NEW i \in 1..(N - 1) PROVE r[i].what = q[i + 1].what /\ LeftOf(r, i) = LeftOf(q, i + 1)
  <2>1. PICK a \in 1..Len(q) : a = i + 1
    BY <1>2
  <2>2. LeftOf(q, a) = IF q[a].time < 0 THEN q[a].time ELSE Clock!Passed(q, a)
    BY LeftForm
  <2>3. LeftOf(r, i) = IF r[i].time < 0 THEN r[i].time ELSE Clock!Passed(r, i)
    BY <1>3, <1>5, LeftForm
  <2> QED
    BY <1>3, <1>6, <2>1, <2>2, <2>3
<1> QED
  BY <1>1, <1>2, <1>3, <1>5, <1>7

-----------------------------------------------------------------------------
Timer == [what : What, left : Int]

(* The timers that the list q stands for.                                  *)
TimersOf(q) == [i \in DOMAIN q |-> [what |-> q[i].what, left |-> LeftOf(q, i)]]

(* They are as many as there are entries, one for each.                    *)
LEMMA TimersOfIs ==
    ASSUME NEW q \in Seq(Event), LateFirst(q)
    PROVE  /\ TimersOf(q) \in Seq(Timer)
           /\ Len(TimersOf(q)) = Len(q) /\ DOMAIN TimersOf(q) = 1..Len(q)
           /\ \A i \in 1..Len(q) : /\ TimersOf(q)[i] = [what |-> q[i].what, left |-> LeftOf(q, i)]
                                   /\ TimersOf(q)[i].what = q[i].what
                                   /\ TimersOf(q)[i].left = LeftOf(q, i)
                                   /\ q[i].what \in What /\ LeftOf(q, i) \in Int
<1>1. PICK N \in Nat : N = Len(q) /\ DOMAIN q = 1..N
  BY Entries
<1>2. \A i \in 1..N : q[i].what \in What /\ LeftOf(q, i) \in Int
  <2> TAKE i \in 1..N
  <2>1. q[i].time \in Int /\ q[i].what \in What /\ i \in 1..Len(q) /\ i \in 0..Len(q)
    BY <1>1, Entries
  <2>2. Clock!Passed(q, i) \in Nat
    BY <2>1, PassedSteps
  <2> QED
    BY <2>1, <2>2, LeftForm
<1>3. TimersOf(q) = [i \in 1..N |-> [what |-> q[i].what, left |-> LeftOf(q, i)]]
  BY <1>1 DEF TimersOf
<1>4. TimersOf(q) \in [1..N -> Timer]
  BY <1>2, <1>3 DEF Timer
<1>5. TimersOf(q) \in Seq(Timer)
  BY <1>4, SeqDef
<1>6. Len(TimersOf(q)) = N
  <2>1. DOMAIN TimersOf(q) = 1..N /\ DOMAIN TimersOf(q) = 1..Len(TimersOf(q)) /\ Len(TimersOf(q)) \in Nat
    BY <1>4, <1>5, LenProperties
  <2> QED
    BY <2>1
<1> QED
  BY <1>1, <1>2, <1>3, <1>5, <1>6

(* The list r is q with a timer of t ticks for w, put behind the timers    *)
(* with less time left.                                                    *)
TimerPut(q, r, t, w) ==
    /\ r \in Seq(Event) /\ Len(r) = Len(q) + 1 /\ LateFirst(r)
    /\ \E at \in 1..(Len(TimersOf(q)) + 1) :
          /\ \A i \in 1..(at - 1) : TimersOf(q)[i].left < t
          /\ \A i \in at..Len(TimersOf(q)) : TimersOf(q)[i].left >= t
          /\ TimersOf(r) = InsertAt(TimersOf(q), at, [what |-> w, left |-> t])

(* timeout sets a timer: it comes behind those with less time left.        *)
LEMMA InsertTimers ==
    ASSUME NEW q \in Seq(Event), LateFirst(q), NEW t \in Nat, t >= 1, NEW w \in What
    PROVE  TimerPut(q, Clock!Insert(q, t, w), t, w)
<1>1. PICK at \in 1..(Len(q) + 1), r \in Seq(Event) :
          /\ r = Clock!Insert(q, t, w) /\ Len(r) = Len(q) + 1 /\ LateFirst(r)
          /\ \A i \in 1..(at - 1) : /\ r[i].what = q[i].what /\ LeftOf(r, i) = LeftOf(q, i)
                                   /\ LeftOf(q, i) < t
          /\ r[at].what = w /\ LeftOf(r, at) = t
          /\ \A i \in at..Len(q) : /\ r[i + 1].what = q[i].what /\ LeftOf(r, i + 1) = LeftOf(q, i)
                                  /\ LeftOf(q, i) >= t
  BY InsertLeft
<1>2. PICK N \in Nat : N = Len(q)
  BY Entries
<1> DEFINE e == [what |-> w, left |-> t]
           Q == TimersOf(q)
           R == TimersOf(r)
           I == InsertAt(Q, at, e)
<1>3. /\ Q \in Seq(Timer) /\ Len(Q) = N
      /\ \A i \in 1..N : Q[i] = [what |-> q[i].what, left |-> LeftOf(q, i)] /\ Q[i].left = LeftOf(q, i)
  BY <1>2, TimersOfIs
<1>4. /\ R \in Seq(Timer) /\ Len(R) = N + 1
      /\ \A i \in 1..(N + 1) : R[i] = [what |-> r[i].what, left |-> LeftOf(r, i)]
  BY <1>1, <1>2, TimersOfIs
<1>5. e \in Timer /\ at \in 1..(Len(Q) + 1)
  BY <1>2, <1>3 DEF Timer
<1> HIDE DEF Q, R, e
<1>6. /\ I \in Seq(Timer) /\ Len(I) = Len(Q) + 1
      /\ \A j \in 1..(at - 1) : I[j] = Q[j]
      /\ I[at] = e
      /\ \A j \in (at + 1)..(Len(Q) + 1) : I[j] = Q[j - 1]
  <2>1. Q \in Seq(Timer)
    BY <1>3
  <2> QED
    BY <1>5, <2>1, InsertElements
<1> HIDE DEF I
<1>7. \A j \in 1..(N + 1) : R[j] = I[j]
  <2> TAKE j \in 1..(N + 1)
  <2>1. R[j] = [what |-> r[j].what, left |-> LeftOf(r, j)]
    BY <1>4
  <2>2. CASE j < at
    <3>1. j \in 1..(at - 1) /\ j \in 1..N
      BY <1>3, <1>5, <2>2
    <3> QED
      BY <1>1, <1>3, <1>6, <2>1, <3>1
  <2>3. CASE j = at
    BY <1>1, <1>6, <2>1, <2>3 DEF e
  <2>4. CASE j > at
    <3>1. PICK i \in at..N : j = i + 1 /\ j - 1 = i /\ i \in 1..N /\ j \in (at + 1)..(Len(Q) + 1)
      <4>1. j - 1 \in at..N /\ j = (j - 1) + 1 /\ j - 1 \in 1..N /\ j \in (at + 1)..(Len(Q) + 1)
        BY <1>3, <1>5, <2>4
      <4> QED
        BY <4>1
    <3>2. r[j].what = q[i].what /\ LeftOf(r, j) = LeftOf(q, i)
      BY <1>1, <1>2, <3>1
    <3>3. I[j] = Q[i] /\ Q[i] = [what |-> q[i].what, left |-> LeftOf(q, i)]
      BY <1>3, <1>6, <3>1
    <3> QED
      BY <2>1, <3>2, <3>3
  <2> QED
    BY <1>5, <2>2, <2>3, <2>4
<1>8. R = I
  BY <1>3, <1>4, <1>6, <1>7, SeqEqual
<1>9. (\A i \in 1..(at - 1) : Q[i].left < t) /\ (\A i \in at..Len(Q) : Q[i].left >= t)
  <2>1. ASSUME NEW i \in 1..(at - 1) PROVE Q[i].left < t
    <3>1. i \in 1..N
      BY <1>3, <1>5
    <3> QED
      BY <1>1, <1>3, <3>1
  <2>2. ASSUME NEW i \in at..Len(Q) PROVE Q[i].left >= t
    <3>1. i \in 1..N /\ i \in at..Len(q)
      BY <1>2, <1>3, <1>5
    <3> QED
      BY <1>1, <1>3, <3>1
  <2> QED
    BY <2>1, <2>2
<1>10. TimerPut(q, r, t, w)
  <2>1. at \in 1..(Len(TimersOf(q)) + 1)
    BY <1>5 DEF Q
  <2>2. /\ \A i \in 1..(at - 1) : TimersOf(q)[i].left < t
        /\ \A i \in at..Len(TimersOf(q)) : TimersOf(q)[i].left >= t
    BY <1>9 DEF Q
  <2>3. TimersOf(r) = InsertAt(TimersOf(q), at, [what |-> w, left |-> t])
    BY <1>8 DEF Q, R, I, e
  <2>4. r \in Seq(Event) /\ Len(r) = Len(q) + 1 /\ LateFirst(r)
    BY <1>1
  <2> QED
    BY <2>1, <2>2, <2>3, <2>4 DEF TimerPut
<1> QED
  BY <1>1, <1>10

(* untimeout cancels one.                                                  *)
LEMMA DeleteTimers ==
    ASSUME NEW q \in Seq(Event), LateFirst(q), NEW at \in 1..Len(q)
    PROVE  /\ Clock!Delete(q, at) \in Seq(Event)
           /\ Len(Clock!Delete(q, at)) = Len(q) - 1
           /\ LateFirst(Clock!Delete(q, at))
           /\ TimersOf(Clock!Delete(q, at)) = RemoveAt(TimersOf(q), at)
<1>1. PICK r \in Seq(Event) :
          /\ r = Clock!Delete(q, at) /\ Len(r) = Len(q) - 1 /\ LateFirst(r)
          /\ \A i \in 1..(at - 1) : r[i].what = q[i].what /\ LeftOf(r, i) = LeftOf(q, i)
          /\ \A i \in at..(Len(q) - 1) : r[i].what = q[i + 1].what /\ LeftOf(r, i) = LeftOf(q, i + 1)
  BY DeleteLeft
<1>2. PICK N \in Nat : N = Len(q)
  BY Entries
<1> DEFINE Q == TimersOf(q)
           R == TimersOf(r)
           D == RemoveAt(Q, at)
<1>3. /\ Q \in Seq(Timer) /\ Len(Q) = N
      /\ \A i \in 1..N : Q[i] = [what |-> q[i].what, left |-> LeftOf(q, i)]
  BY <1>2, TimersOfIs
<1>4. /\ R \in Seq(Timer) /\ Len(R) = N - 1
      /\ \A i \in 1..(N - 1) : R[i] = [what |-> r[i].what, left |-> LeftOf(r, i)]
  BY <1>1, <1>2, TimersOfIs
<1>5. at \in 1..Len(Q)
  BY <1>2, <1>3
<1> HIDE DEF Q, R
<1>6. /\ D \in Seq(Timer) /\ Len(D) = Len(Q) - 1
      /\ \A j \in 1..(at - 1) : D[j] = Q[j]
      /\ \A j \in at..(Len(Q) - 1) : D[j] = Q[j + 1]
  BY <1>3, <1>5, RemoveElements
<1> HIDE DEF D
<1>7. \A j \in 1..(N - 1) : R[j] = D[j]
  <2> TAKE j \in 1..(N - 1)
  <2>1. R[j] = [what |-> r[j].what, left |-> LeftOf(r, j)]
    BY <1>4
  <2>2. CASE j < at
    <3>1. j \in 1..(at - 1) /\ j \in 1..N
      BY <1>5, <2>2
    <3> QED
      BY <1>1, <1>3, <1>6, <2>1, <3>1
  <2>3. CASE j >= at
    <3>1. PICK i \in 1..N : i = j + 1 /\ j \in at..(N - 1)
      BY <1>5, <2>3
    <3>2. r[j].what = q[i].what /\ LeftOf(r, j) = LeftOf(q, i)
      BY <1>1, <1>2, <3>1
    <3>3. D[j] = Q[i] /\ Q[i] = [what |-> q[i].what, left |-> LeftOf(q, i)]
      BY <1>3, <1>6, <3>1
    <3> QED
      BY <2>1, <3>2, <3>3
  <2> QED
    BY <1>5, <2>2, <2>3
<1>8. R = D
  BY <1>3, <1>4, <1>6, <1>7, SeqEqual
<1> QED
  BY <1>1, <1>8 DEF Q, R, D

(* hardclock takes one tick from all.                                      *)
LEMMA CountdownTimers ==
    ASSUME NEW q \in Seq(Event), LateFirst(q)
    PROVE  /\ Clock!Countdown(q) \in Seq(Event)
           /\ Len(Clock!Countdown(q)) = Len(q)
           /\ LateFirst(Clock!Countdown(q))
           /\ TimersOf(Clock!Countdown(q))
                 = [i \in DOMAIN TimersOf(q) |-> [TimersOf(q)[i] EXCEPT !.left = @ - 1]]
<1>1. PICK r \in Seq(Event) :
          /\ r = Clock!Countdown(q) /\ Len(r) = Len(q) /\ LateFirst(r)
          /\ \A i \in 1..Len(q) : r[i].what = q[i].what /\ LeftOf(r, i) = LeftOf(q, i) - 1
  BY CountdownLeft
<1>2. /\ DOMAIN TimersOf(q) = 1..Len(q)
      /\ \A i \in 1..Len(q) : TimersOf(q)[i] = [what |-> q[i].what, left |-> LeftOf(q, i)]
  BY TimersOfIs
<1>3. DOMAIN r = 1..Len(q)
  BY <1>1, Entries
<1>4. \A i \in 1..Len(q) : [TimersOf(q)[i] EXCEPT !.left = @ - 1] = [what |-> r[i].what, left |-> LeftOf(r, i)]
  <2> TAKE i \in 1..Len(q)
  <2>1. TimersOf(q)[i] = [what |-> q[i].what, left |-> LeftOf(q, i)]
    BY <1>2
  <2>2. r[i].what = q[i].what /\ LeftOf(r, i) = LeftOf(q, i) - 1
    BY <1>1
  <2> QED
    BY <2>1, <2>2
<1>5. TimersOf(r) = [i \in 1..Len(q) |-> [what |-> r[i].what, left |-> LeftOf(r, i)]]
  BY <1>3 DEF TimersOf
<1> QED
  BY <1>1, <1>2, <1>4, <1>5

(* softclock serves the first, whose time is up.                           *)
LEMMA TailTimers ==
    ASSUME NEW q \in Seq(Event), LateFirst(q), q # <<>>, q[1].time <= 0
    PROVE  /\ Tail(q) \in Seq(Event) /\ Len(Tail(q)) = Len(q) - 1 /\ LateFirst(Tail(q))
           /\ TimersOf(Tail(q)) = Tail(TimersOf(q))
           /\ TimersOf(q) # <<>> /\ Head(TimersOf(q)).left <= 0
           /\ Head(TimersOf(q)).what = q[1].what
<1>1. PICK N \in Nat : N = Len(q) /\ N >= 1
  BY EmptySeq, Entries
<1>2. PICK r \in Seq(Event) :
          /\ r = Tail(q) /\ Len(r) = N - 1 /\ LateFirst(r)
          /\ \A i \in 1..(N - 1) : r[i].what = q[i + 1].what /\ LeftOf(r, i) = LeftOf(q, i + 1)
  <2>1. PICK r \in Seq(Event) :
          /\ r = Tail(q) /\ Len(r) = Len(q) - 1 /\ LateFirst(r)
          /\ \A i \in 1..(Len(q) - 1) : r[i].what = q[i + 1].what /\ LeftOf(r, i) = LeftOf(q, i + 1)
    BY TailLeft
  <2> QED
    BY <1>1, <2>1
<1> DEFINE Q == TimersOf(q)
           R == TimersOf(r)
<1>3. /\ Q \in Seq(Timer) /\ Len(Q) = N
      /\ \A i \in 1..N : /\ Q[i] = [what |-> q[i].what, left |-> LeftOf(q, i)]
                         /\ Q[i].what = q[i].what /\ Q[i].left = LeftOf(q, i)
  BY <1>1, TimersOfIs
<1>4. /\ R \in Seq(Timer) /\ Len(R) = N - 1
      /\ \A i \in 1..(N - 1) : R[i] = [what |-> r[i].what, left |-> LeftOf(r, i)]
  BY <1>2, TimersOfIs
<1> HIDE DEF Q, R
<1>5. Q # <<>>
  BY <1>1, <1>3, EmptySeq
<1>6. /\ Head(Q) = Q[1] /\ Tail(Q) \in Seq(Timer) /\ Len(Tail(Q)) = N - 1
      /\ \A i \in 1..(N - 1) : Tail(Q)[i] = Q[i + 1]
  BY <1>1, <1>3, <1>5, HeadTailProperties
<1>7. \A j \in 1..(N - 1) : R[j] = Tail(Q)[j]
  <2> TAKE j \in 1..(N - 1)
  <2>1. PICK i \in 1..N : i = j + 1
    BY <1>1
  <2>2. Tail(Q)[j] = [what |-> q[i].what, left |-> LeftOf(q, i)]
    BY <1>3, <1>6, <2>1
  <2> QED
    BY <1>2, <1>4, <2>1, <2>2
<1>8. R = Tail(Q)
  BY <1>4, <1>6, <1>7, SeqEqual
<1>9. LeftOf(q, 1) = q[1].time
  <2>1. \A j \in 1..1 : q[j].time <= 0
    OBVIOUS
  <2> QED
    BY <2>1 DEF LeftOf
<1>10. Q[1].left = LeftOf(q, 1) /\ Q[1].what = q[1].what
  <2>1. 1 \in 1..N
    BY <1>1
  <2> QED
    BY <1>3, <2>1
<1> QED
  BY <1>1, <1>2, <1>5, <1>6, <1>8, <1>9, <1>10 DEF Q, R

-----------------------------------------------------------------------------
(* What CalloutAssumption says of the constants that matter here.          *)
ClockConstants == Times \subseteq Int /\ NCallout \in Nat

(* The inductive invariant of the callout list: besides the types, that    *)
(* the late events are at its head, the latest first.                      *)
CInv == Clock!TypeOK /\ LateFirst(calltodo)

(* What it says of the variables.                                          *)
LEMMA CInvTyped ==
    ASSUME CInv
    PROVE  /\ calltodo \in Seq(Event) /\ Len(calltodo) \in Nat /\ Len(calltodo) <= NCallout
           /\ LateFirst(calltodo) /\ soft \in BOOLEAN /\ calling \in What \cup {Nobody}
<1>1. calltodo \in Seq(Event)
  BY DEF CInv, Clock!TypeOK, Event
<1> QED
  BY <1>1, LenProperties DEF CInv, Clock!TypeOK

(* Every step keeps the invariant, and is a step of Timers or none.        *)
LEMMA ClockStep ==
    ASSUME ClockConstants, CInv, [Clock!Next]_(Clock!vars)
    PROVE  CInv' /\ [Clock!Timers!Next]_(Clock!Timers!vars)
<1> DEFINE pending == [i \in DOMAIN calltodo |-> [what |-> calltodo[i].what, left |-> Clock!Left(i)]]
           B == calltodo
           A == calltodo'
<1>1. /\ B \in Seq(Event) /\ Len(B) \in Nat /\ Len(B) <= NCallout
      /\ LateFirst(B) /\ soft \in BOOLEAN /\ calling \in What \cup {Nobody}
  BY CInvTyped
<1>2. pending = TimersOf(B)
  BY DEF Clock!Left, LeftOf, TimersOf
<1>3. pending' = TimersOf(A)
  BY DEF Clock!Left, LeftOf, TimersOf
<1>4. /\ TimersOf(B) \in Seq(Timer)
      /\ Len(TimersOf(B)) = Len(B) /\ DOMAIN TimersOf(B) = 1..Len(B)
      /\ \A i \in 1..Len(B) : TimersOf(B)[i].what = B[i].what
  BY <1>1, TimersOfIs
<1>5. ASSUME A \in Seq(Event), Len(A) <= NCallout, LateFirst(A), soft' \in BOOLEAN,
             calling' \in What \cup {Nobody}
      PROVE  CInv'
  BY <1>5 DEF CInv, Clock!TypeOK, LateFirst, Event
<1>6. CASE UNCHANGED Clock!vars
  <2>1. A = B /\ soft' = soft /\ calling' = calling
    BY <1>6 DEF Clock!vars
  <2>2. CInv'
    BY <1>1, <1>5, <2>1
  <2>3. pending' = pending
    BY <1>2, <1>3, <2>1
  <2> QED
    BY <2>1, <2>2, <2>3 DEF Clock!Timers!vars
<1>7. ASSUME NEW w \in What, NEW t \in Times, Clock!Timeout(w, t)
      PROVE  CInv' /\ Clock!Timers!Set(w, t)
  <2>1. PICK n \in Nat : n >= 1 /\ n = (IF t <= 0 THEN 1 ELSE t) /\ n = (IF t < 1 THEN 1 ELSE t)
    <3>1. t \in Int
      BY DEF ClockConstants
    <3>2. (IF t <= 0 THEN 1 ELSE t) \in Nat /\ (IF t <= 0 THEN 1 ELSE t) >= 1
      BY <3>1
    <3>3. (IF t <= 0 THEN 1 ELSE t) = (IF t < 1 THEN 1 ELSE t)
      BY <3>1
    <3> QED
      BY <3>2, <3>3
  <2>2. Len(B) < NCallout /\ A = Clock!Insert(B, n, w) /\ soft' = soft /\ calling' = calling
    BY <1>7, <2>1 DEF Clock!Timeout
  <2>3. /\ A \in Seq(Event) /\ Len(A) = Len(B) + 1 /\ LateFirst(A)
        /\ \E at \in 1..(Len(TimersOf(B)) + 1) :
              /\ \A i \in 1..(at - 1) : TimersOf(B)[i].left < n
              /\ \A i \in at..Len(TimersOf(B)) : TimersOf(B)[i].left >= n
              /\ TimersOf(A) = InsertAt(TimersOf(B), at, [what |-> w, left |-> n])
    <3> HIDE DEF A, B
    <3>1. B \in Seq(Event) /\ LateFirst(B) /\ n \in Nat /\ n >= 1
      BY <1>1, <2>1
    <3>2. TimerPut(B, Clock!Insert(B, n, w), n, w)
      BY <3>1, InsertTimers
    <3>3. TimerPut(B, A, n, w)
      BY <2>2, <3>2
    <3> QED
      BY <3>3 DEF TimerPut
  <2>4. CInv'
    <3>1. Len(A) <= NCallout
      BY <1>1, <2>2, <2>3 DEF ClockConstants
    <3> QED
      BY <1>1, <1>5, <2>2, <2>3, <3>1
  <2>5. Len(pending) < NCallout
    BY <1>2, <1>4, <2>2
  <2>6. \E at \in 1..(Len(pending) + 1) :
           /\ \A i \in 1..(at - 1) : pending[i].left < n
           /\ \A i \in at..Len(pending) : pending[i].left >= n
           /\ pending' = InsertAt(pending, at, [what |-> w, left |-> n])
    <3> HIDE DEF pending
    <3> QED
      BY <1>2, <1>3, <2>3
  <2>7. Clock!Timers!Set(w, t)
    BY <2>1, <2>2, <2>5, <2>6 DEF Clock!Timers!Set, Clock!Timers!InsertAt, InsertAt
  <2> QED
    BY <2>4, <2>7
<1>8. ASSUME NEW w \in What, Clock!Untimeout(w)
      PROVE  CInv' /\ Clock!Timers!Cancel(w)
  <2> DEFINE Fits(i) == B[i].what = w /\ \A j \in 1..(i - 1) : B[j].what # w
  <2>1. DOMAIN B = 1..Len(B)
    BY <1>1, Entries
  <2>2. PICK at \in 1..Len(B) : Fits(at) /\ Clock!First(B, w) = at
    <3> DEFINE T == {i \in 1..Len(B) : B[i].what = w}
    <3>1. T # {} /\ T \subseteq Nat
      BY <1>8, <2>1 DEF Clock!Untimeout
    <3>2. PICK m \in T : \A j \in T : m <= j
      <4> HIDE DEF T
      <4> QED
        BY <3>1, LeastNat
    <3>3. m \in DOMAIN B /\ Fits(m)
      BY <1>1, <2>1, <3>2
    <3>4. Clock!First(B, w) = CHOOSE i \in DOMAIN B : Fits(i)
      BY DEF Clock!First
    <3> HIDE DEF Fits
    <3> QED
      BY <2>1, <3>3, <3>4
  <2>3. A = Clock!Delete(B, at) /\ soft' = soft /\ calling' = calling
    BY <1>8, <2>2 DEF Clock!Untimeout
  <2>4. /\ A \in Seq(Event) /\ Len(A) = Len(B) - 1 /\ LateFirst(A)
        /\ TimersOf(A) = RemoveAt(TimersOf(B), at)
    BY <1>1, <2>2, <2>3, DeleteTimers
  <2>5. CInv'
    <3>1. Len(A) <= NCallout
      BY <1>1, <2>4 DEF ClockConstants
    <3> QED
      BY <1>1, <1>5, <2>3, <2>4, <3>1
  <2>6. /\ at \in DOMAIN pending /\ pending[at].what = w
        /\ \A j \in 1..(at - 1) : pending[j].what # w
        /\ pending' = RemoveAt(pending, at)
    <3>1. \A j \in 1..(at - 1) : j \in 1..Len(B)
      BY <1>1
    <3> HIDE DEF pending
    <3> QED
      BY <1>2, <1>3, <1>4, <2>2, <2>4, <3>1
  <2>7. Clock!Timers!Cancel(w)
    BY <2>3, <2>6 DEF Clock!Timers!Cancel, Clock!Timers!RemoveAt, RemoveAt
  <2> QED
    BY <2>5, <2>7
<1>9. ASSUME NEW base \in BOOLEAN, Clock!Hardclock(base)
      PROVE  CInv' /\ Clock!Timers!Tick
  <2>1. A = Clock!Countdown(B) /\ soft' \in BOOLEAN /\ calling' = calling
    BY <1>1, <1>9 DEF Clock!Hardclock
  <2>2. /\ A \in Seq(Event) /\ Len(A) = Len(B) /\ LateFirst(A)
        /\ TimersOf(A) = [i \in DOMAIN TimersOf(B) |-> [TimersOf(B)[i] EXCEPT !.left = @ - 1]]
    BY <1>1, <2>1, CountdownTimers
  <2>3. CInv'
    BY <1>1, <1>5, <2>1, <2>2
  <2>4. pending' = [i \in DOMAIN pending |-> [pending[i] EXCEPT !.left = @ - 1]]
    <3> HIDE DEF pending
    <3> QED
      BY <1>2, <1>3, <2>2
  <2>5. Clock!Timers!Tick
    BY <2>1, <2>4 DEF Clock!Timers!Tick
  <2> QED
    BY <2>3, <2>5
<1>10. CASE Clock!Softclock
  <2>1. /\ calling = Nobody /\ B # <<>> /\ Head(B).time <= 0
        /\ calling' = Head(B).what /\ A = Tail(B) /\ soft' = soft
    BY <1>10 DEF Clock!Softclock, Clock!Due
  <2>2. Head(B) = B[1] /\ B[1].what \in What
    <3>1. Len(B) >= 1
      BY <1>1, <2>1, EmptySeq
    <3>2. 1 \in 1..Len(B)
      BY <1>1, <3>1
    <3> QED
      BY <1>1, <2>1, <3>2, Entries, HeadTailProperties
  <2>3. /\ A \in Seq(Event) /\ Len(A) = Len(B) - 1 /\ LateFirst(A)
        /\ TimersOf(A) = Tail(TimersOf(B))
        /\ TimersOf(B) # <<>> /\ Head(TimersOf(B)).left <= 0
        /\ Head(TimersOf(B)).what = B[1].what
    BY <1>1, <2>1, <2>2, TailTimers
  <2>4. CInv'
    <3>1. Len(A) <= NCallout
      BY <1>1, <2>3 DEF ClockConstants
    <3> QED
      BY <1>1, <1>5, <2>1, <2>2, <2>3, <3>1
  <2>5. /\ pending # <<>> /\ Head(pending).left <= 0
        /\ calling' = Head(pending).what /\ pending' = Tail(pending)
    <3> HIDE DEF pending
    <3> QED
      BY <1>2, <1>3, <2>1, <2>2, <2>3
  <2>6. Clock!Timers!Call
    BY <2>1, <2>5 DEF Clock!Timers!Call
  <2> QED
    BY <2>4, <2>6 DEF Clock!Timers!Next
<1>11. CASE Clock!Called
  <2>1. calling # Nobody /\ calling' = Nobody /\ A = B /\ soft' = soft
    BY <1>11 DEF Clock!Called
  <2>2. CInv'
    BY <1>1, <1>5, <2>1
  <2>3. pending' = pending
    BY <1>2, <1>3, <2>1
  <2>4. Clock!Timers!Done
    BY <2>1, <2>3 DEF Clock!Timers!Done
  <2> QED
    BY <2>2, <2>4 DEF Clock!Timers!Next
<1>12. CASE Clock!SoftclockEnds
  <2>1. calling' = calling /\ A = B /\ soft' = FALSE
    BY <1>12 DEF Clock!SoftclockEnds
  <2>2. CInv'
    BY <1>1, <1>5, <2>1
  <2>3. pending' = pending
    BY <1>2, <1>3, <2>1
  <2> QED
    BY <2>1, <2>2, <2>3 DEF Clock!Timers!vars
<1>13. CASE Clock!Next
  BY <1>7, <1>8, <1>9, <1>10, <1>11, <1>12, <1>13 DEF Clock!Next, Clock!Timers!Next
<1> QED
  BY <1>6, <1>13

(* The list of time differences is a queue of timers that all run down     *)
(* together, whatever the delays and the order in which timers are set,    *)
(* cancelled and served: each tick takes one from every one of them, none  *)
(* is called early, and they are called in the order in which they are due.*)
THEOREM TimersKept ==
    ASSUME ClockConstants
    PROVE  Clock!Spec => Clock!TimersSpec
<1>1. Clock!Init => CInv /\ Clock!Timers!Init
  <2> SUFFICES ASSUME Clock!Init PROVE CInv /\ Clock!Timers!Init
    OBVIOUS
  <2>1. calltodo = <<>> /\ soft = FALSE /\ calling = Nobody
    BY DEF Clock!Init
  <2>2. <<>> \in Seq(Event) /\ Len(<<>>) = 0 /\ DOMAIN <<>> = 1..0
    BY EmptySeq, LenProperties
  <2>7. LateFirst(<<>>)
    <3>1. \A j \in DOMAIN <<>> : FALSE
      BY <2>2
    <3> QED
      BY <3>1 DEF LateFirst
  <2>3. CInv
    <3>1. 0 <= NCallout
      BY DEF ClockConstants
    <3>2. Clock!TypeOK
      BY <2>1, <2>2, <3>1 DEF Clock!TypeOK, Event
    <3> QED
      BY <2>1, <2>7, <3>2 DEF CInv
  <2>4. TimersOf(calltodo) = <<>>
    <3>2. TimersOf(<<>>) \in Seq(Timer) /\ Len(TimersOf(<<>>)) = 0
      BY <2>2, <2>7, TimersOfIs
    <3> QED
      BY <2>1, <3>2, EmptySeq
  <2>5. [i \in DOMAIN calltodo |-> [what |-> calltodo[i].what, left |-> Clock!Left(i)]] = TimersOf(calltodo)
    BY DEF Clock!Left, LeftOf, TimersOf
  <2> QED
    BY <2>1, <2>3, <2>4, <2>5 DEF Clock!Timers!Init
<1>2. CInv /\ [Clock!Next]_(Clock!vars) => CInv' /\ [Clock!Timers!Next]_(Clock!Timers!vars)
  BY ClockStep
<1>3. CInv => Clock!TypeOK
  BY DEF CInv
<1> QED
  BY <1>1, <1>2, <1>3, PTL DEF Clock!Spec, Clock!TimersSpec, Clock!Timers!Spec

=============================================================================

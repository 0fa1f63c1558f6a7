------------------------------ MODULE PipeProofs ------------------------------
(***************************************************************************)
(* Proofs about Pipe for any processes, any MAXPIPSIZ and block size, any  *)
(* reads and writes: the type invariant, the count of the open ends, that  *)
(* no wakeup is lost, and that Pipe implements Fifo.                       *)
(*                                                                         *)
(* The inductive invariant IInv says of each process what its place in the *)
(* code implies (Proper): who is inside a transfer has the lock, alone; a  *)
(* writer inside has found both ends open and room.  i_count is the number *)
(* of open ends and of update or the process that frees the inode          *)
(* (Counted).  That the blocks whose buffers may be lost lie below the     *)
(* offset (LostBelow) is why readers do not miss them.                     *)
(***************************************************************************)
EXTENDS Pipe, SequenceTheorems, FiniteSetTheorems, TLAPS

Inside == {"reading", "writing", "trunc", "sync"}

One(b) == IF b THEN 1 ELSE 0

Has(e) == \E p \in Proc : e \in holds[p]

Extra == \E p \in Proc : pc[p] \in {"trunc", "sync"}

Proper(q) ==
    /\ pc[q] \in Inside => locked = TRUE
    /\ chan[q] # "none" => pc[q] \in {"read", "write", "close"}
    /\ pc[q] \in {"read", "reading"} => "r" \in holds[q] /\ want[q] > 0
    /\ pc[q] \in {"write", "writing"} => "w" \in holds[q]
    /\ pc[q] \notin {"write", "writing"} => todo[q] = <<>>
    /\ pc[q] = "writing" => todo[q] # <<>> /\ count = 2 /\ Len(file) < MaxPip
    /\ pc[q] = "reading" => file # <<>>
    /\ pc[q] = "close" => ending[q] \in holds[q] /\ \A r \in Proc : ending[q] \in holds[r] => r = q
    /\ pc[q] = "trunc" => \A r \in Proc : holds[r] = {}
    /\ pc[q] = "sync" => count > 1

Single == \A p, q \in Proc : pc[p] \in Inside /\ pc[q] \in Inside => p = q

Counted == count = One(Has("r")) + One(Has("w")) + One(Extra)

LostBelow == \A b \in lost : b < Block[offset]

Emptied == count = 0 => file = <<>>

IInv ==
    /\ TypeOK /\ (\A q \in Proc : Proper(q)) /\ Single /\ Counted
    /\ LostBelow /\ Emptied /\ NoLostWakeup

-----------------------------------------------------------------------------
(* Facts about one state *)

(* While the inode is unlocked nobody is in a transfer. *)
LEMMA NobodyInside ==
    ASSUME IInv, ~locked
    PROVE  /\ \A q \in Proc : pc[q] \notin Inside
           /\ count = One(Has("r")) + One(Has("w"))
<1>1. \A q \in Proc : pc[q] \notin Inside
  BY DEF IInv, Proper
<1>2. ~Extra
  BY <1>1 DEF Extra, Inside
<1> QED
  BY <1>1, <1>2 DEF IInv, Counted, One

(* Both ends are open when the count is 2 and nobody else refers to the    *)
(* inode.                                                                  *)
LEMMA BothHave ==
    ASSUME count = One(Has("r")) + One(Has("w"))
    PROVE  /\ count = 2 <=> Has("r") /\ Has("w")
           /\ count = 1 <=> (Has("r") \/ Has("w")) /\ ~(Has("r") /\ Has("w"))
           /\ count = 0 <=> ~Has("r") /\ ~Has("w")
BY DEF One

LEMMA HoldersHas ==
    ASSUME NEW e \in End
    PROVE  Holders(e) # {} <=> Has(e)
BY DEF Holders, Has

(* What is asleep after a wakeup was asleep before. *)
LEMMA WokenForm ==
    ASSUME chan \in [Proc -> {"none", "lock", "data", "room"}], NEW cs
    PROVE  /\ Woken(chan, cs) \in [Proc -> {"none", "lock", "data", "room"}]
           /\ \A q \in Proc : /\ Woken(chan, cs)[q] \in {chan[q], "none"}
                              /\ chan[q] \in cs => Woken(chan, cs)[q] = "none"
BY DEF Woken

LEMMA UnlockedForm ==
    ASSUME IInv
    PROVE  /\ Unlocked(chan) \in [Proc -> {"none", "lock", "data", "room"}]
           /\ \A q \in Proc : /\ Unlocked(chan)[q] \in {chan[q], "none"}
                              /\ Unlocked(chan)[q] # "lock"
<1>1. chan \in [Proc -> {"none", "lock", "data", "room"}]
  BY DEF IInv, TypeOK
<1>2. CASE wanted = TRUE
  BY <1>1, <1>2, WokenForm DEF Unlocked
<1>3. CASE wanted = FALSE
  <2>1. Unlocked(chan) = chan
    BY <1>3 DEF Unlocked
  <2>2. \A q \in Proc : chan[q] # "lock"
    BY <1>3 DEF IInv, NoLostWakeup
  <2> QED
    BY <1>1, <2>1, <2>2
<1>4. wanted \in BOOLEAN
  BY DEF IInv, TypeOK
<1> QED
  BY <1>2, <1>3, <1>4

(* The sleepers when the lock is released and those in cs woken. *)
LEMMA ReleaseForm ==
    ASSUME IInv, NEW cs
    PROVE  /\ Woken(Unlocked(chan), cs) \in [Proc -> {"none", "lock", "data", "room"}]
           /\ \A q \in Proc : /\ Woken(Unlocked(chan), cs)[q] \in {chan[q], "none"}
                              /\ Woken(Unlocked(chan), cs)[q] # "lock"
                              /\ Woken(Unlocked(chan), cs)[q] \notin cs \/ Woken(Unlocked(chan), cs)[q] = "none"
<1>1. /\ Unlocked(chan) \in [Proc -> {"none", "lock", "data", "room"}]
      /\ \A q \in Proc : /\ Unlocked(chan)[q] \in {chan[q], "none"}
                         /\ Unlocked(chan)[q] # "lock"
  BY UnlockedForm
<1> QED
  BY <1>1 DEF Woken

(* A step of p leaves the others as proper as they were, if it keeps what  *)
(* they rely on.                                                           *)
LEMMA OthersProper ==
    ASSUME IInv, NEW p \in Proc,
           \A q \in Proc \ {p} : /\ pc'[q] = pc[q] /\ todo'[q] = todo[q] /\ want'[q] = want[q]
                                 /\ chan'[q] \in {chan[q], "none"} /\ ending'[q] = ending[q],
           \/ \A q \in Proc \ {p} : pc[q] \notin Inside
           \/ locked' = TRUE /\ UNCHANGED <<file, count, holds>>,
           UNCHANGED holds
    PROVE  \A q \in Proc \ {p} : Proper(q)'
<1> SUFFICES ASSUME NEW q \in Proc \ {p} PROVE Proper(q)'
  OBVIOUS
<1>1. Proper(q)
  BY DEF IInv
<1>2. CASE pc[q] \notin Inside
  BY <1>1, <1>2 DEF Proper, Inside
<1>3. CASE locked' = TRUE /\ UNCHANGED <<file, count, holds>>
  BY <1>1, <1>3 DEF Proper, Inside
<1> QED
  BY <1>2, <1>3

(* A step within a call of p that changes neither the file nor who refers  *)
(* to it.                                                                  *)
LEMMA CallStep ==
    ASSUME IInv, TypeOK', NEW p \in Proc,
           \A q \in Proc \ {p} : /\ pc'[q] = pc[q] /\ todo'[q] = todo[q] /\ want'[q] = want[q]
                                 /\ chan'[q] \in {chan[q], "none"} /\ ending'[q] = ending[q],
           \/ \A q \in Proc \ {p} : pc[q] \notin Inside
           \/ locked' = TRUE /\ pc'[p] \notin Inside
           \/ locked' = locked /\ pc'[p] \notin Inside,
           UNCHANGED <<file, offset, lost, count, holds>>,
           {pc[p], pc'[p]} \cap {"trunc", "sync"} = {},
           Proper(p)', NoLostWakeup'
    PROVE  IInv'
<1>1. \A q \in Proc \ {p} : Proper(q)'
  <2>1. CASE \A q \in Proc \ {p} : pc[q] \notin Inside
    BY <2>1, OthersProper
  <2>2. CASE locked' = TRUE
    BY <2>2, OthersProper
  <2>3. CASE locked' # TRUE
    <3>1. CASE locked' = locked
      <4>1. \A q \in Proc : pc[q] \notin Inside
        BY <2>3, <3>1 DEF IInv, Proper
      <4> QED
        BY <4>1, OthersProper
    <3> QED
      BY <2>1, <2>3, <3>1
  <2> QED
    BY <2>2, <2>3
<1>2. Single'
  BY DEF IInv, Single
<1>3. Extra' <=> Extra
  BY DEF Extra
<1>4. Counted'
  BY <1>3 DEF IInv, Counted, Has, One
<1>5. LostBelow' /\ Emptied'
  BY DEF IInv, LostBelow, Emptied
<1> QED
  BY <1>1, <1>2, <1>4, <1>5 DEF IInv

(* What a process that runs is not. *)
LEMMA RunsForm ==
    ASSUME IInv, NEW p \in Proc, NEW s, Runs(p, s)
    PROVE  /\ pc[p] = s /\ chan[p] = "none" /\ Proper(p) /\ TypeOK
           /\ pc \in [Proc -> Location] /\ chan \in [Proc -> {"none", "lock", "data", "room"}]
BY DEF IInv, Runs, TypeOK

LEMMA GotoForm ==
    ASSUME pc \in [Proc -> Location], NEW p \in Proc, NEW s \in Location, Goto(p, s) \/ Yield(p, s)
    PROVE  /\ pc' \in [Proc -> Location] /\ pc'[p] = s
           /\ (\A q \in Proc \ {p} : pc'[q] = pc[q]) /\ cpu' \in Proc \cup {NoProc}
BY DEF Goto, Yield

-----------------------------------------------------------------------------
(* Waiting for the lock, and reading *)

LEMMA WaitLockKeeps ==
    ASSUME IInv, NEW p \in Proc, WaitLock(p)
    PROVE  IInv'
<1>1. /\ TypeOK /\ Proper(p) /\ pc[p] \in {"read", "write", "close"} /\ locked
      /\ wanted' = TRUE /\ chan' = [chan EXCEPT ![p] = "lock"] /\ cpu' = NoProc
      /\ UNCHANGED <<file, offset, lost, count, locked, readw, writew, holds, pc, want, todo, ucount, ending>>
  BY DEF IInv, WaitLock, Runs
<1>2. /\ chan' \in [Proc -> {"none", "lock", "data", "room"}] /\ chan'[p] = "lock"
      /\ \A q \in Proc \ {p} : chan'[q] = chan[q]
  BY <1>1 DEF TypeOK
<1>3. TypeOK'
  BY <1>1, <1>2 DEF TypeOK
<1>4. Proper(p)'
  BY <1>1, <1>2 DEF Proper, Inside
<1>5. NoLostWakeup'
  BY <1>1, <1>2 DEF IInv, NoLostWakeup, Holders
<1> QED
  BY <1>1, <1>2, <1>3, <1>4, <1>5, CallStep DEF Inside

LEMMA ReadKeeps ==
    ASSUME IInv, NEW p \in Proc, Read(p)
    PROVE  IInv'
<1>1. /\ TypeOK /\ Proper(p) /\ pc[p] = "user" /\ chan[p] = "none" /\ "r" \in holds[p] /\ Goto(p, "read")
      /\ UNCHANGED <<inode, holds, todo, ucount, ending, chan>>
  BY RunsForm DEF Read
<1>2. PICK n \in Counts : want' = [want EXCEPT ![p] = n]
  BY DEF Read
<1>3. n \in Nat /\ n > 0
  BY SizeAssumption
<1>4. want' \in [Proc -> Nat] /\ want'[p] > 0 /\ \A q \in Proc \ {p} : want'[q] = want[q]
  BY <1>1, <1>2, <1>3 DEF TypeOK
<1>5. /\ pc' \in [Proc -> Location] /\ pc'[p] = "read"
      /\ (\A q \in Proc \ {p} : pc'[q] = pc[q]) /\ cpu' \in Proc \cup {NoProc}
  BY <1>1, GotoForm DEF TypeOK, Location
<1>6. TypeOK'
  BY <1>1, <1>4, <1>5 DEF TypeOK, inode
<1>7. Proper(p)'
  BY <1>1, <1>4, <1>5 DEF Proper, Inside, inode
<1>8. NoLostWakeup'
  BY <1>1 DEF IInv, NoLostWakeup, Holders, inode
<1> QED
  BY <1>1, <1>4, <1>5, <1>6, <1>7, <1>8, CallStep DEF Inside, inode

LEMMA ReadWaitKeeps ==
    ASSUME IInv, NEW p \in Proc, ReadWait(p)
    PROVE  IInv'
<1>1. /\ TypeOK /\ Proper(p) /\ pc[p] = "read" /\ ~locked /\ file = <<>> /\ count = 2
      /\ locked' = FALSE /\ wanted' = FALSE /\ readw' = TRUE
      /\ chan' = [Unlocked(chan) EXCEPT ![p] = "data"] /\ cpu' = NoProc
      /\ UNCHANGED <<file, offset, lost, count, writew, holds, pc, want, todo, ucount, ending>>
  BY RunsForm DEF ReadWait, BothOpen, IUNLOCK
<1>2. /\ \A q \in Proc : pc[q] \notin Inside
      /\ count = One(Has("r")) + One(Has("w"))
  BY <1>1, NobodyInside
<1>3. Holders("w") # {}
  BY <1>1, <1>2, BothHave, HoldersHas DEF End
<1>4. /\ chan' \in [Proc -> {"none", "lock", "data", "room"}] /\ chan'[p] = "data"
      /\ \A q \in Proc \ {p} : chan'[q] \in {chan[q], "none"} /\ chan'[q] # "lock"
  BY <1>1, UnlockedForm
<1>5. TypeOK'
  BY <1>1, <1>4 DEF TypeOK
<1>6. Proper(p)'
  BY <1>1, <1>4 DEF Proper, Inside
<1>7. NoLostWakeup'
  BY <1>1, <1>3, <1>4 DEF IInv, NoLostWakeup, Holders
<1> QED
  BY <1>1, <1>2, <1>4, <1>5, <1>6, <1>7, CallStep

(* The lock is released with nothing changed but what p does. *)
LEMMA ReleaseHears ==
    ASSUME IInv, UNCHANGED <<file, readw, writew, holds>>, chan' = Unlocked(chan)
    PROVE  NoLostWakeup'
BY UnlockedForm DEF IInv, NoLostWakeup, Holders

LEMMA ReadEndKeeps ==
    ASSUME IInv, NEW p \in Proc, ReadEnd(p)
    PROVE  IInv'
<1>1. /\ TypeOK /\ Proper(p) /\ pc[p] = "read" /\ chan[p] = "none" /\ ~locked
      /\ locked' = FALSE /\ wanted' = FALSE /\ chan' = Unlocked(chan) /\ Yield(p, "user")
      /\ want' = [want EXCEPT ![p] = 0]
      /\ UNCHANGED <<file, offset, lost, count, readw, writew, holds, todo, ucount, ending>>
  BY RunsForm DEF ReadEnd, IUNLOCK
<1>2. \A q \in Proc : pc[q] \notin Inside
  BY <1>1, NobodyInside
<1>3. /\ chan' \in [Proc -> {"none", "lock", "data", "room"}]
      /\ \A q \in Proc : chan'[q] \in {chan[q], "none"}
  BY <1>1, UnlockedForm
<1>4. /\ pc' \in [Proc -> Location] /\ pc'[p] = "user"
      /\ (\A q \in Proc \ {p} : pc'[q] = pc[q]) /\ cpu' \in Proc \cup {NoProc}
  BY <1>1, GotoForm DEF TypeOK, Location
<1>5. want' \in [Proc -> Nat] /\ \A q \in Proc \ {p} : want'[q] = want[q]
  BY <1>1 DEF TypeOK
<1>6. TypeOK'
  BY <1>1, <1>3, <1>4, <1>5 DEF TypeOK
<1>7. Proper(p)'
  BY <1>1, <1>3, <1>4 DEF Proper, Inside
<1>8. NoLostWakeup'
  BY <1>1, ReleaseHears
<1> QED
  BY <1>1, <1>2, <1>3, <1>4, <1>5, <1>6, <1>7, <1>8, CallStep

LEMMA ReadStartKeeps ==
    ASSUME IInv, NEW p \in Proc, ReadStart(p)
    PROVE  IInv'
<1>1. /\ TypeOK /\ Proper(p) /\ pc[p] = "read" /\ chan[p] = "none" /\ ~locked /\ file # <<>>
      /\ locked' = TRUE /\ Yield(p, "reading")
      /\ UNCHANGED <<file, offset, lost, count, wanted, readw, writew, holds, want, todo, ucount, ending, chan>>
  BY RunsForm DEF ReadStart
<1>2. \A q \in Proc : pc[q] \notin Inside
  BY <1>1, NobodyInside
<1>3. /\ pc' \in [Proc -> Location] /\ pc'[p] = "reading"
      /\ (\A q \in Proc \ {p} : pc'[q] = pc[q]) /\ cpu' \in Proc \cup {NoProc}
  BY <1>1, GotoForm DEF TypeOK, Location
<1>4. TypeOK'
  BY <1>1, <1>3 DEF TypeOK
<1>5. Proper(p)'
  BY <1>1, <1>3 DEF Proper, Inside
<1>6. NoLostWakeup'
  BY <1>1 DEF IInv, NoLostWakeup, Holders
<1> QED
  BY <1>1, <1>2, <1>3, <1>4, <1>5, <1>6, CallStep

-----------------------------------------------------------------------------
(* Writing *)

LEMMA WriteKeeps ==
    ASSUME IInv, NEW p \in Proc, Write(p)
    PROVE  IInv'
<1>1. /\ TypeOK /\ Proper(p) /\ pc[p] = "user" /\ chan[p] = "none" /\ "w" \in holds[p] /\ Goto(p, "write")
      /\ UNCHANGED <<inode, holds, want, ending, chan>>
  BY RunsForm DEF Write
<1>2. PICK s \in Requests : todo' = [todo EXCEPT ![p] = s] /\ ucount' = [ucount EXCEPT ![p] = Len(s)]
  BY DEF Write
<1>3. s \in Seq(Val) /\ Len(s) \in Nat
  BY DataAssumption
<1>4. /\ todo' \in [Proc -> Seq(Val)] /\ (\A q \in Proc \ {p} : todo'[q] = todo[q])
      /\ ucount' \in [Proc -> Nat]
  BY <1>1, <1>2, <1>3 DEF TypeOK
<1>5. /\ pc' \in [Proc -> Location] /\ pc'[p] = "write"
      /\ (\A q \in Proc \ {p} : pc'[q] = pc[q]) /\ cpu' \in Proc \cup {NoProc}
  BY <1>1, GotoForm DEF TypeOK, Location
<1>6. TypeOK'
  BY <1>1, <1>4, <1>5 DEF TypeOK, inode
<1>7. Proper(p)'
  BY <1>1, <1>5 DEF Proper, Inside, inode
<1>8. NoLostWakeup'
  BY <1>1 DEF IInv, NoLostWakeup, Holders, inode
<1> QED
  BY <1>1, <1>4, <1>5, <1>6, <1>7, <1>8, CallStep DEF Inside, inode

(* The call of p is over. *)
LEMMA EndWriteForm ==
    ASSUME TypeOK, NEW p \in Proc, NEW what, EndWrite(p, what)
    PROVE  /\ pc' \in [Proc -> Location] /\ pc'[p] = "user"
           /\ (\A q \in Proc \ {p} : pc'[q] = pc[q]) /\ cpu' \in Proc \cup {NoProc}
           /\ todo' \in [Proc -> Seq(Val)] /\ todo'[p] = <<>>
           /\ (\A q \in Proc \ {p} : todo'[q] = todo[q])
           /\ ucount' \in [Proc -> Nat]
<1>1. /\ pc \in [Proc -> Location] /\ todo \in [Proc -> Seq(Val)] /\ ucount \in [Proc -> Nat]
      /\ Yield(p, "user") /\ todo' = [todo EXCEPT ![p] = <<>>] /\ ucount' = [ucount EXCEPT ![p] = 0]
  BY DEF TypeOK, EndWrite
<1>2. <<>> \in Seq(Val)
  OBVIOUS
<1> QED
  BY <1>1, <1>2, GotoForm DEF Location

LEMMA WriteEndKeeps ==
    ASSUME IInv, NEW p \in Proc, WriteEnd(p)
    PROVE  IInv'
<1>1. /\ TypeOK /\ Proper(p) /\ pc[p] = "write" /\ chan[p] = "none" /\ ~locked
      /\ locked' = FALSE /\ wanted' = FALSE /\ chan' = Unlocked(chan)
      /\ UNCHANGED <<file, offset, lost, count, readw, writew, holds, want, ending>>
  BY RunsForm DEF WriteEnd, IUNLOCK
<1>a. \E what \in {"wrote", "EPIPE"} : EndWrite(p, what)
  BY DEF WriteEnd
<1>2. \A q \in Proc : pc[q] \notin Inside
  BY <1>1, NobodyInside
<1>3. /\ chan' \in [Proc -> {"none", "lock", "data", "room"}]
      /\ \A q \in Proc : chan'[q] \in {chan[q], "none"}
  BY <1>1, UnlockedForm
<1>4. /\ pc' \in [Proc -> Location] /\ pc'[p] = "user"
      /\ (\A q \in Proc \ {p} : pc'[q] = pc[q]) /\ cpu' \in Proc \cup {NoProc}
      /\ todo' \in [Proc -> Seq(Val)] /\ todo'[p] = <<>>
      /\ (\A q \in Proc \ {p} : todo'[q] = todo[q])
      /\ ucount' \in [Proc -> Nat]
  BY <1>1, <1>a, EndWriteForm
<1>6. TypeOK'
  BY <1>1, <1>3, <1>4 DEF TypeOK
<1>7. Proper(p)'
  BY <1>1, <1>3, <1>4 DEF Proper, Inside
<1>8. NoLostWakeup'
  BY <1>1, ReleaseHears
<1> QED
  BY <1>1, <1>2, <1>3, <1>4, <1>6, <1>7, <1>8, CallStep

LEMMA WriteWaitKeeps ==
    ASSUME IInv, NEW p \in Proc, WriteWait(p)
    PROVE  IInv'
<1>1. /\ TypeOK /\ Proper(p) /\ pc[p] = "write" /\ ~locked /\ Len(file) >= MaxPip /\ count = 2
      /\ locked' = FALSE /\ wanted' = FALSE /\ writew' = TRUE
      /\ chan' = [Unlocked(chan) EXCEPT ![p] = "room"] /\ cpu' = NoProc
      /\ UNCHANGED <<file, offset, lost, count, readw, holds, pc, want, todo, ucount, ending>>
  BY RunsForm DEF WriteWait, BothOpen, IUNLOCK
<1>2. /\ \A q \in Proc : pc[q] \notin Inside
      /\ count = One(Has("r")) + One(Has("w"))
  BY <1>1, NobodyInside
<1>3. Holders("r") # {}
  BY <1>1, <1>2, BothHave, HoldersHas DEF End
<1>4. /\ chan' \in [Proc -> {"none", "lock", "data", "room"}] /\ chan'[p] = "room"
      /\ \A q \in Proc \ {p} : chan'[q] \in {chan[q], "none"} /\ chan'[q] # "lock"
  BY <1>1, UnlockedForm
<1>5. TypeOK'
  BY <1>1, <1>4 DEF TypeOK
<1>6. Proper(p)'
  BY <1>1, <1>4 DEF Proper, Inside
<1>7. NoLostWakeup'
  BY <1>1, <1>3, <1>4 DEF IInv, NoLostWakeup, Holders
<1> QED
  BY <1>1, <1>2, <1>4, <1>5, <1>6, <1>7, CallStep

LEMMA WriteStartKeeps ==
    ASSUME IInv, NEW p \in Proc, WriteStart(p)
    PROVE  IInv'
<1>1. /\ TypeOK /\ Proper(p) /\ pc[p] = "write" /\ chan[p] = "none" /\ ~locked
      /\ todo[p] # <<>> /\ count = 2 /\ Len(file) < MaxPip
      /\ locked' = TRUE /\ Yield(p, "writing")
      /\ UNCHANGED <<file, offset, lost, count, wanted, readw, writew, holds, want, todo, ucount, ending, chan>>
  BY RunsForm DEF WriteStart, BothOpen
<1>2. \A q \in Proc : pc[q] \notin Inside
  BY <1>1, NobodyInside
<1>3. /\ pc' \in [Proc -> Location] /\ pc'[p] = "writing"
      /\ (\A q \in Proc \ {p} : pc'[q] = pc[q]) /\ cpu' \in Proc \cup {NoProc}
  BY <1>1, GotoForm DEF TypeOK, Location
<1>4. TypeOK'
  BY <1>1, <1>3 DEF TypeOK
<1>5. Proper(p)'
  BY <1>1, <1>3 DEF Proper, Inside
<1>6. NoLostWakeup'
  BY <1>1 DEF IInv, NoLostWakeup, Holders
<1> QED
  BY <1>1, <1>2, <1>3, <1>4, <1>5, <1>6, CallStep

LEMMA SignalKeeps ==
    ASSUME IInv, NEW p \in Proc, Signal(p)
    PROVE  IInv'
<1>1. /\ TypeOK /\ Proper(p) /\ chan[p] \in {"data", "room"}
      /\ chan' = [chan EXCEPT ![p] = "none"] /\ Yield(p, "user")
      /\ want' = [want EXCEPT ![p] = 0] /\ todo' = [todo EXCEPT ![p] = <<>>]
      /\ ucount' = [ucount EXCEPT ![p] = 0]
      /\ UNCHANGED <<inode, holds, ending>>
  BY DEF IInv, Signal
<1>2. pc[p] \in {"read", "write", "close"}
  BY <1>1 DEF Proper
<1>3. /\ chan' \in [Proc -> {"none", "lock", "data", "room"}] /\ chan'[p] = "none"
      /\ \A q \in Proc \ {p} : chan'[q] = chan[q]
  BY <1>1 DEF TypeOK
<1>4. /\ pc' \in [Proc -> Location] /\ pc'[p] = "user"
      /\ (\A q \in Proc \ {p} : pc'[q] = pc[q]) /\ cpu' \in Proc \cup {NoProc}
  BY <1>1, GotoForm DEF TypeOK, Location
<1>5. want' \in [Proc -> Nat] /\ ucount' \in [Proc -> Nat] /\ \A q \in Proc \ {p} : want'[q] = want[q]
  BY <1>1 DEF TypeOK
<1>6. todo' \in [Proc -> Seq(Val)] /\ todo'[p] = <<>> /\ \A q \in Proc \ {p} : todo'[q] = todo[q]
  BY <1>1 DEF TypeOK
<1>7. TypeOK'
  BY <1>1, <1>3, <1>4, <1>5, <1>6 DEF TypeOK, inode
<1>8. Proper(p)'
  BY <1>1, <1>3, <1>4, <1>6 DEF Proper, Inside, inode
<1>9. NoLostWakeup'
  BY <1>1, <1>3 DEF IInv, NoLostWakeup, Holders, inode
<1> QED
  <2>1. pc'[p] \notin Inside /\ {pc[p], pc'[p]} \cap {"trunc", "sync"} = {}
    BY <1>2, <1>4 DEF Inside
  <2>2. UNCHANGED <<file, offset, lost, count, holds, locked, ending>>
    BY <1>1 DEF inode
  <2> QED
    BY <1>3, <1>4, <1>5, <1>6, <1>7, <1>8, <1>9, <2>1, <2>2, CallStep

-----------------------------------------------------------------------------
(* The end of a transfer *)

(* Later offsets are in later blocks. *)
LEMMA BlockOrder ==
    /\ \A o \in 0..(2 * MaxPip) : Block[o] \in Nat
    /\ \A m, n \in 0..(2 * MaxPip) : m <= n => Block[m] <= Block[n]
    /\ MaxPip \in Nat /\ MaxPip > 0
BY BlockAssumption, SizeAssumption

(* What is left of the file after a read of n units lies in the blocks     *)
(* that were not read out.                                                 *)
LEMMA ReadOutBelow ==
    ASSUME TypeOK, LostBelow, NEW n \in Nat, offset + n < Len(file)
    PROVE  /\ \A b \in lost \cup ReadOut(n) : b < Block[offset + n]
           /\ lost \cup ReadOut(n) \subseteq {Block[o] : o \in DOMAIN Block}
<1>1. offset \in Nat /\ offset <= Len(file) /\ Len(file) \in Nat /\ Len(file) < 2 * MaxPip
      /\ lost \subseteq {Block[o] : o \in DOMAIN Block}
  BY DEF TypeOK
<1>2. DOMAIN Block = 0..(2 * MaxPip)
  BY BlockAssumption
<1>3. offset \in 0..(2 * MaxPip) /\ offset + n \in 0..(2 * MaxPip) /\ Block[offset] <= Block[offset + n]
      /\ Block[offset] \in Nat /\ Block[offset + n] \in Nat
  BY <1>1, BlockOrder
<1>4. ASSUME NEW b \in lost PROVE b < Block[offset + n]
  <2>1. b < Block[offset] /\ b \in Nat
    BY <1>1, <1>2, <1>4, BlockOrder DEF LostBelow
  <2> QED
    BY <1>3, <2>1
<1>5. ASSUME NEW b \in ReadOut(n)
      PROVE  b < Block[offset + n] /\ b \in {Block[o] : o \in DOMAIN Block}
  <2>1. PICK x \in offset..(offset + n - 1) : b = Block[x] /\ Block[x + 1] # Block[x]
    BY <1>5 DEF ReadOut
  <2>a. MaxPip \in Nat /\ 2 * MaxPip \in Nat
    BY BlockOrder
  <2>2. x \in 0..(2 * MaxPip) /\ x + 1 \in 0..(2 * MaxPip) /\ x + 1 <= offset + n
    <3>1. x \in Int /\ offset <= x /\ x <= offset + n - 1
      BY <1>1, <2>1
    <3> QED
      BY <1>3, <2>a, <3>1
  <2>3. Block[x] <= Block[x + 1] /\ Block[x + 1] <= Block[offset + n] /\ Block[x] \in Nat /\ Block[x + 1] \in Nat
    BY <1>3, <2>2, BlockOrder
  <2> QED
    BY <1>2, <1>3, <2>1, <2>2, <2>3
<1> QED
  BY <1>1, <1>4, <1>5

LEMMA ReadDoneKeeps ==
    ASSUME IInv, NEW p \in Proc, ReadDone(p)
    PROVE  IInv'
<1> DEFINE n == Taken(p)
           end == offset + n
<1>1. /\ TypeOK /\ Proper(p) /\ pc[p] = "reading" /\ chan[p] = "none" /\ file # <<>> /\ want[p] > 0 /\ want[p] \in Nat
      /\ locked' = FALSE /\ wanted' = FALSE /\ Yield(p, "user")
      /\ want' = [want EXCEPT ![p] = 0]
      /\ UNCHANGED <<count, readw, holds, todo, ucount, ending>>
  BY RunsForm DEF ReadDone, IUNLOCK, TypeOK, Proper
<1>2. \/ /\ end = Len(file)
         /\ file' = <<>> /\ offset' = 0 /\ lost' = {}
         /\ writew' = FALSE
         /\ chan' = IF writew THEN Woken(Unlocked(chan), {"room"}) ELSE Unlocked(chan)
      \/ /\ end < Len(file)
         /\ offset' = end /\ lost' = lost \cup ReadOut(n)
         /\ chan' = Unlocked(chan)
         /\ UNCHANGED <<file, writew>>
  BY DEF ReadDone
<1>3. \A q \in Proc \ {p} : pc[q] \notin Inside
  BY <1>1 DEF IInv, Single, Inside
<1>4. /\ pc' \in [Proc -> Location] /\ pc'[p] = "user"
      /\ (\A q \in Proc \ {p} : pc'[q] = pc[q]) /\ cpu' \in Proc \cup {NoProc}
  BY ZenonT(60), <1>1, GotoForm DEF TypeOK, Location
<1>5. want' \in [Proc -> Nat] /\ \A q \in Proc \ {p} : want'[q] = want[q]
  BY <1>1 DEF TypeOK
<1>6. /\ Len(file) \in Nat /\ offset \in Nat /\ offset < Len(file) /\ n \in Nat /\ n > 0 /\ end <= Len(file)
      /\ n <= want[p] /\ file \in Seq(Val \cup {Junk})
  BY <1>1 DEF TypeOK, Taken, MinOf
<1> HIDE DEF n
<1>7. /\ chan' \in [Proc -> {"none", "lock", "data", "room"}]
      /\ \A q \in Proc : chan'[q] \in {chan[q], "none"} /\ chan'[q] # "lock"
      /\ end = Len(file) => \A q \in Proc : chan'[q] # "room"
  <2>1. CASE end = Len(file) /\ writew = TRUE
    <3>1. ~(end < Len(file))
      BY <1>6, <2>1
    <3>2. chan' = IF writew THEN Woken(Unlocked(chan), {"room"}) ELSE Unlocked(chan)
      BY <1>2, <3>1
    <3>3. chan' = Woken(Unlocked(chan), {"room"})
      BY <2>1, <3>2
    <3> QED
      BY <3>3, ReleaseForm
  <2>2. CASE end = Len(file) /\ writew = FALSE
    <3>1. \A q \in Proc : chan[q] # "room"
      BY <2>2 DEF IInv, NoLostWakeup
    <3> QED
      BY <1>2, <2>2, <3>1, UnlockedForm
  <2>3. CASE end < Len(file)
    BY <1>2, <1>6, <2>3, UnlockedForm
  <2>4. writew \in BOOLEAN
    BY <1>1 DEF TypeOK
  <2>5. end = Len(file) \/ end < Len(file)
    BY <1>6
  <2> QED
    BY <2>1, <2>2, <2>3, <2>4, <2>5
<1>8. /\ file' \in Seq(Val \cup {Junk}) /\ Len(file') < 2 * MaxPip
      /\ offset' \in 0..Len(file') /\ (file' # <<>> => offset' < Len(file'))
      /\ lost' \subseteq {Block[o] : o \in DOMAIN Block} /\ LostBelow'
      /\ writew' \in BOOLEAN
  <2>1. CASE end = Len(file)
    <3>1. file' = <<>> /\ offset' = 0 /\ lost' = {} /\ writew' = FALSE
      BY <1>2, <1>6, <2>1
    <3>2. file' \in Seq(Val \cup {Junk}) /\ Len(file') = 0 /\ 0 < 2 * MaxPip
      BY <3>1, BlockOrder
    <3>3. LostBelow'
      BY <3>1 DEF LostBelow
    <3>4. offset' \in 0..Len(file')
      BY <3>1, <3>2
    <3> QED
      BY <3>1, <3>2, <3>3, <3>4
  <2>2. CASE end < Len(file)
    <3>1. file' = file /\ offset' = end /\ lost' = lost \cup ReadOut(n) /\ writew' = writew
      BY <1>2, <1>6, <2>2
    <3>2. /\ \A b \in lost \cup ReadOut(n) : b < Block[end]
          /\ lost \cup ReadOut(n) \subseteq {Block[o] : o \in DOMAIN Block}
      BY <1>1, <1>6, <2>2, ReadOutBelow DEF IInv
    <3> QED
      BY <1>1, <1>6, <2>2, <3>1, <3>2 DEF TypeOK, LostBelow
  <2> QED
    BY <1>6, <2>1, <2>2
<1>9. TypeOK'
  BY <1>1, <1>4, <1>5, <1>7, <1>8 DEF TypeOK
<1>10. Proper(p)'
  BY <1>1, <1>4, <1>7 DEF Proper, Inside
<1>11. \A q \in Proc \ {p} : Proper(q)'
  BY <1>1, <1>3, <1>4, <1>5, <1>7, OthersProper
<1>12. Single'
  BY <1>3, <1>4 DEF Single, Inside
<1>13. Counted'
  <2>1. Extra' <=> Extra
    BY <1>1, <1>4 DEF Extra
  <2> QED
    BY <1>1, <2>1 DEF IInv, Counted, Has, One
<1>14. Emptied'
  BY <1>1, <1>2 DEF IInv, Emptied
<1>15. NoLostWakeup'
  <2>1. \A q \in Proc : chan[q] # "data"
    BY <1>1 DEF IInv, NoLostWakeup
  <2>2. CASE end = Len(file)
    BY <1>7, <2>1, <2>2 DEF NoLostWakeup
  <2>3. CASE end < Len(file)
    BY <1>1, <1>2, <1>6, <1>7, <2>1, <2>3 DEF IInv, NoLostWakeup, Holders
  <2> QED
    BY <1>6, <2>2, <2>3
<1> QED
  BY <1>8, <1>9, <1>10, <1>11, <1>12, <1>13, <1>14, <1>15 DEF IInv

(* A chunk of a write: its length, and what is left of it. *)
LEMMA ChunkForm ==
    ASSUME TypeOK, NEW p \in Proc, todo[p] # <<>>
    PROVE  /\ Chunk(p) \in 1..Len(todo[p]) /\ Chunk(p) <= MaxPip
           /\ Len(todo[p]) <= MaxPip => Chunk(p) = Len(todo[p])
           /\ SubSeq(todo[p], 1, Chunk(p)) \in Seq(Val) /\ Len(SubSeq(todo[p], 1, Chunk(p))) = Chunk(p)
           /\ SubSeq(todo[p], Chunk(p) + 1, Len(todo[p])) \in Seq(Val)
<1>1. PICK s \in Seq(Val) : s = todo[p]
  BY DEF TypeOK
<1>2. Len(s) \in Nat /\ Len(s) > 0
  BY <1>1
<1>3. /\ Chunk(p) \in 1..Len(s) /\ Chunk(p) <= MaxPip
      /\ Len(s) <= MaxPip => Chunk(p) = Len(s)
  BY <1>1, <1>2, BlockOrder DEF Chunk, MinOf
<1> QED
  BY <1>1, <1>2, <1>3

LEMMA WriteDoneKeeps ==
    ASSUME IInv, NEW p \in Proc, WriteDone(p)
    PROVE  IInv'
<1>1. /\ TypeOK /\ Proper(p) /\ pc[p] = "writing" /\ chan[p] = "none" /\ todo[p] # <<>>
      /\ Len(file) < MaxPip /\ count = 2 /\ "w" \in holds[p]
      /\ locked' = FALSE /\ wanted' = FALSE /\ readw' = FALSE /\ Goto(p, "write")
      /\ ucount' = [ucount EXCEPT ![p] = 0]
      /\ chan' = IF readw THEN Woken(Unlocked(chan), {"data"}) ELSE Unlocked(chan)
      /\ UNCHANGED <<offset, count, writew, holds, want, ending>>
  BY RunsForm DEF WriteDone, IUNLOCK, Proper
<1> DEFINE n == Chunk(p)
<1>2. /\ file' = file \o SubSeq(todo[p], 1, n)
      /\ lost' = lost \ {Block[o] : o \in Len(file)..(Len(file) + n - 1)}
      /\ todo' = [todo EXCEPT ![p] = SubSeq(@, n + 1, Len(@))]
  BY DEF WriteDone
<1>3. /\ n \in 1..Len(todo[p]) /\ n <= MaxPip
      /\ SubSeq(todo[p], 1, n) \in Seq(Val) /\ Len(SubSeq(todo[p], 1, n)) = n
      /\ SubSeq(todo[p], n + 1, Len(todo[p])) \in Seq(Val)
  BY <1>1, ChunkForm
<1> HIDE DEF n
<1>4. \A q \in Proc \ {p} : pc[q] \notin Inside
  BY <1>1 DEF IInv, Single, Inside
<1>5. /\ pc' \in [Proc -> Location] /\ pc'[p] = "write"
      /\ (\A q \in Proc \ {p} : pc'[q] = pc[q]) /\ cpu' \in Proc \cup {NoProc}
  BY <1>1, GotoForm DEF TypeOK, Location
<1>6. todo' \in [Proc -> Seq(Val)] /\ \A q \in Proc \ {p} : todo'[q] = todo[q]
  BY <1>1, <1>2, <1>3 DEF TypeOK
<1>7. ucount' \in [Proc -> Nat]
  BY <1>1 DEF TypeOK
<1>8. /\ file \in Seq(Val \cup {Junk}) /\ Len(file) \in Nat /\ SubSeq(todo[p], 1, n) \in Seq(Val \cup {Junk})
      /\ offset \in Nat /\ offset <= Len(file) /\ (file # <<>> => offset < Len(file))
  BY <1>1, <1>3 DEF TypeOK
<1>9. file' \in Seq(Val \cup {Junk}) /\ Len(file') = Len(file) + n
  BY <1>2, <1>3, <1>8
<1>10. Len(file') < 2 * MaxPip /\ offset' \in 0..Len(file') /\ offset' < Len(file') /\ file' # <<>>
  <2>1. n \in Nat /\ n > 0 /\ MaxPip \in Nat
    BY <1>3, BlockOrder
  <2> QED
    BY <1>1, <1>3, <1>8, <1>9, <2>1
<1>11. /\ chan' \in [Proc -> {"none", "lock", "data", "room"}]
      /\ \A q \in Proc : chan'[q] \in {chan[q], "none"} /\ chan'[q] # "lock" /\ chan'[q] # "data"
  <2>1. CASE readw = TRUE
    BY <1>1, <2>1, ReleaseForm
  <2>2. CASE readw = FALSE
    <3>1. \A q \in Proc : chan[q] # "data"
      BY <2>2 DEF IInv, NoLostWakeup
    <3> QED
      BY <1>1, <2>2, <3>1, UnlockedForm
  <2> QED
    BY <1>1, <2>1, <2>2 DEF TypeOK
<1>12. lost' \subseteq lost /\ LostBelow' /\ lost' \subseteq {Block[o] : o \in DOMAIN Block}
  BY <1>1, <1>2 DEF IInv, LostBelow, TypeOK
<1>13. TypeOK'
  BY <1>1, <1>5, <1>6, <1>7, <1>9, <1>10, <1>11, <1>12 DEF TypeOK
<1>14. Proper(p)'
  BY <1>1, <1>5, <1>11 DEF Proper, Inside
<1>15. \A q \in Proc \ {p} : Proper(q)'
  BY <1>1, <1>4, <1>5, <1>6, <1>11, OthersProper
<1>16. Single'
  BY <1>4, <1>5 DEF Single, Inside
<1>17. Counted' /\ Emptied'
  <2>1. Extra' <=> Extra
    BY <1>1, <1>5 DEF Extra
  <2> QED
    BY <1>1, <2>1 DEF IInv, Counted, Has, One, Emptied
<1>18. NoLostWakeup'
  <2>1. \A q \in Proc : chan'[q] # "room"
    <3>1. \A q \in Proc : chan[q] # "room"
      BY <1>1, <1>8, BlockOrder DEF IInv, NoLostWakeup
    <3> QED
      BY <1>11, <3>1
  <2> QED
    BY <1>11, <2>1 DEF NoLostWakeup
<1> QED
  BY <1>12, <1>13, <1>14, <1>15, <1>16, <1>17, <1>18 DEF IInv

-----------------------------------------------------------------------------
(* The ends, and what others do to the inode *)

LEMMA CreateKeeps ==
    ASSUME IInv, NEW p \in Proc, Create(p)
    PROVE  IInv'
<1>1. /\ TypeOK /\ Proper(p) /\ pc[p] = "user" /\ chan[p] = "none" /\ count = 0
      /\ count' = 2 /\ locked' = FALSE /\ wanted' = FALSE
      /\ readw' = FALSE /\ writew' = FALSE /\ offset' = 0
      /\ holds' = [holds EXCEPT ![p] = End]
      /\ UNCHANGED <<file, lost, pc, want, todo, ucount, ending, chan, cpu>>
  BY RunsForm DEF Create, calls
<1>2. ~Has("r") /\ ~Has("w") /\ ~Extra /\ file = <<>>
  BY <1>1 DEF IInv, Counted, One, Emptied
<1>3. /\ holds' \in [Proc -> SUBSET End] /\ "r" \in holds'[p] /\ "w" \in holds'[p]
      /\ \A q \in Proc \ {p} : holds'[q] = holds[q]
  BY <1>1 DEF TypeOK, End
<1>4. ASSUME NEW q \in Proc PROVE pc[q] = "user" /\ chan[q] = "none" /\ todo[q] = <<>>
  <2>1. Proper(q) /\ pc[q] \in Location /\ ending[q] \in End
    BY <1>1 DEF IInv, TypeOK
  <2>2. pc[q] \notin {"trunc", "sync"}
    BY <1>2 DEF Extra
  <2>3. pc[q] \notin {"read", "reading", "write", "writing", "close"}
    BY <1>2, <2>1 DEF Proper, Has, End
  <2> QED
    BY <2>1, <2>2, <2>3 DEF Proper, Location
<1>5. lost' = lost /\ LostBelow'
  <2>1. offset = 0
    BY <1>1, <1>2 DEF TypeOK
  <2> QED
    BY <1>1, <2>1 DEF IInv, LostBelow
<1>a. offset' \in 0..Len(file') /\ (file' # <<>> => offset' < Len(file')) /\ count' \in 0..3
  BY <1>1, <1>2
<1>6. TypeOK'
  BY <1>1, <1>3, <1>a DEF TypeOK
<1>7. ASSUME NEW q \in Proc PROVE Proper(q)'
  BY <1>1, <1>4 DEF Proper, Inside
<1>8. Single'
  BY <1>1, <1>4 DEF Single, Inside
<1>9. Counted'
  <2>1. Has("r")' /\ Has("w")'
    BY <1>3 DEF Has
  <2>2. Extra' = FALSE
    BY <1>1, <1>2 DEF Extra
  <2> QED
    BY <1>1, <2>1, <2>2 DEF Counted, One
<1>10. Emptied' /\ NoLostWakeup'
  BY <1>1, <1>4 DEF Emptied, NoLostWakeup
<1> QED
  BY <1>5, <1>6, <1>7, <1>8, <1>9, <1>10 DEF IInv

(* Ends change hands, but are not closed or opened altogether. *)
LEMMA HandsChange ==
    ASSUME IInv, NEW p \in Proc, holds' \in [Proc -> SUBSET End],
           pc[p] = "user", \A q \in Proc \ {p} : holds'[q] = holds[q],
           \A e \in End : Has(e)' <=> Has(e),
           \A e \in End : e \in holds'[p] => \E q \in Proc : e \in holds[q] /\ pc[q] = "user",
           UNCHANGED <<inode, calls>>
    PROVE  IInv'
<1>1. TypeOK /\ UNCHANGED <<file, offset, lost, count, locked, wanted, readw, writew>>
      /\ UNCHANGED <<pc, want, todo, ucount, ending, chan, cpu>>
  BY DEF IInv, inode, calls
<1>2. TypeOK'
  BY <1>1 DEF TypeOK
<1>3. ASSUME NEW q \in Proc PROVE Proper(q)'
  <2>1. Proper(q)
    BY DEF IInv
  <2>2. q = p => pc[q] = "user"
    OBVIOUS
  <2>3. pc[q] = "close" => \A r \in Proc : ending[q] \in holds'[r] => r = q
    <3> SUFFICES ASSUME pc[q] = "close", NEW r \in Proc, ending[q] \in holds'[r] PROVE r = q
      OBVIOUS
    <3>1. CASE r = p
      <4>1. ending[q] \in End
        BY <1>1 DEF TypeOK
      <4>2. PICK s \in Proc : ending[q] \in holds[s] /\ pc[s] = "user"
        BY <3>1, <4>1
      <4> QED
        BY <2>1, <4>2 DEF Proper
    <3>2. CASE r # p
      BY <2>1, <3>2 DEF Proper
    <3> QED
      BY <3>1, <3>2
  <2>4. pc[q] = "trunc" => \A r \in Proc : holds'[r] = {}
    <3> SUFFICES ASSUME pc[q] = "trunc", NEW r \in Proc, NEW e \in holds'[r] PROVE FALSE
      OBVIOUS
    <3>1. e \in End /\ Has(e)'
      BY DEF Has
    <3> QED
      BY <2>1, <3>1 DEF Proper, Has
  <2> QED
    BY <1>1, <2>1, <2>2, <2>3, <2>4 DEF Proper, Inside
<1>4. Single' /\ LostBelow' /\ Emptied'
  BY <1>1 DEF IInv, Single, LostBelow, Emptied
<1>5. Counted'
  <2>1. /\ Extra' <=> Extra
        /\ Has("r")' <=> Has("r")
        /\ Has("w")' <=> Has("w")
    BY <1>1 DEF Extra, End
  <2> QED
    BY <1>1, <2>1 DEF IInv, Counted, One
<1>6. NoLostWakeup'
  <2>1. \A e \in End : (Holders(e) # {})' <=> Holders(e) # {}
    BY DEF Holders, Has
  <2> QED
    BY <1>1, <2>1 DEF IInv, NoLostWakeup, End
<1> QED
  BY <1>2, <1>3, <1>4, <1>5, <1>6 DEF IInv

LEMMA ForkKeeps ==
    ASSUME IInv, NEW p \in Proc, NEW q \in Proc, Fork(p, q)
    PROVE  IInv'
<1>1. /\ TypeOK /\ pc[p] = "user" /\ pc[q] = "user" /\ holds[p] # {} /\ holds[q] = {}
      /\ holds' = [holds EXCEPT ![q] = holds[p]] /\ UNCHANGED <<inode, calls>>
  BY RunsForm DEF Fork
<1>2. /\ holds' \in [Proc -> SUBSET End] /\ holds'[q] = holds[p]
      /\ \A r \in Proc \ {q} : holds'[r] = holds[r]
  BY <1>1 DEF TypeOK
<1>3. \A e \in End : Has(e)' <=> Has(e)
  BY <1>1, <1>2 DEF Has
<1> QED
  BY <1>1, <1>2, <1>3, HandsChange

LEMMA CloseKeeps ==
    ASSUME IInv, NEW p \in Proc, Close(p)
    PROVE  IInv'
<1>1. /\ TypeOK /\ Proper(p) /\ pc[p] = "user" /\ chan[p] = "none"
      /\ UNCHANGED <<inode, want, todo, ucount, chan>>
  BY RunsForm DEF Close
<1>2. PICK e \in holds[p] :
          \/ /\ Holders(e) # {p}
             /\ holds' = [holds EXCEPT ![p] = @ \ {e}]
             /\ UNCHANGED <<pc, cpu, ending>>
          \/ /\ Holders(e) = {p}
             /\ ending' = [ending EXCEPT ![p] = e]
             /\ Goto(p, "close")
             /\ UNCHANGED holds
  BY DEF Close
<1>3. e \in End /\ p \in Holders(e)
  BY <1>1 DEF TypeOK, Holders
<1>4. CASE /\ Holders(e) # {p} /\ holds' = [holds EXCEPT ![p] = @ \ {e}] /\ UNCHANGED <<pc, cpu, ending>>
  <2>1. PICK r \in Proc : r # p /\ e \in holds[r]
    BY <1>3, <1>4 DEF Holders
  <2>2. /\ holds' \in [Proc -> SUBSET End] /\ holds'[p] = holds[p] \ {e}
        /\ \A s \in Proc \ {p} : holds'[s] = holds[s]
    BY <1>1, <1>4 DEF TypeOK
  <2>3. \A f \in End : Has(f)' <=> Has(f)
    BY <2>1, <2>2 DEF Has
  <2>4. UNCHANGED calls
    BY <1>1, <1>4 DEF calls
  <2> QED
    BY <1>1, <2>2, <2>3, <2>4, HandsChange
<1>5. CASE Holders(e) = {p} /\ ending' = [ending EXCEPT ![p] = e] /\ Goto(p, "close") /\ UNCHANGED holds
  <2>1. /\ pc' \in [Proc -> Location] /\ pc'[p] = "close"
        /\ (\A q \in Proc \ {p} : pc'[q] = pc[q]) /\ cpu' \in Proc \cup {NoProc}
    BY <1>1, <1>5, GotoForm DEF TypeOK, Location
  <2>2. ending' \in [Proc -> End] /\ ending'[p] = e /\ \A q \in Proc \ {p} : ending'[q] = ending[q]
    BY <1>1, <1>3, <1>5 DEF TypeOK
  <2>3. TypeOK'
    BY <1>1, <1>5, <2>1, <2>2 DEF TypeOK, inode
  <2>4. \A r \in Proc : e \in holds[r] => r = p
    BY <1>5 DEF Holders
  <2>5. Proper(p)'
    BY <1>1, <1>5, <2>1, <2>2, <2>4 DEF Proper, Inside, inode
  <2>6. NoLostWakeup'
    BY <1>1, <1>5 DEF IInv, NoLostWakeup, Holders, inode
  <2>7. pc'[p] \notin Inside /\ {pc[p], pc'[p]} \cap {"trunc", "sync"} = {}
    BY <1>1, <2>1 DEF Inside
  <2>8. UNCHANGED <<file, offset, lost, count, holds, locked>>
    BY <1>1, <1>5 DEF inode
  <2> QED
    BY <1>1, <2>1, <2>2, <2>3, <2>5, <2>6, <2>7, <2>8, CallStep
<1> QED
  BY <1>2, <1>4, <1>5

(* A step of p, with nobody else inside, that may free the lock. *)
LEMMA CloseEndKeeps ==
    ASSUME IInv, NEW p \in Proc, CloseEnd(p)
    PROVE  IInv'
<1>1. /\ TypeOK /\ Proper(p) /\ pc[p] = "close" /\ chan[p] = "none" /\ ~locked
      /\ ending[p] \in holds[p] /\ \A r \in Proc : ending[p] \in holds[r] => r = p
      /\ holds' = [holds EXCEPT ![p] = @ \ {ending[p]}]
      /\ readw' = FALSE /\ writew' = FALSE
      /\ chan' = Woken(Unlocked(chan), {"room", "data"})
      /\ UNCHANGED <<file, offset, lost, want, todo, ucount, ending>>
  BY RunsForm DEF CloseEnd, Proper
<1>2. /\ \A q \in Proc : pc[q] \notin Inside
      /\ count = One(Has("r")) + One(Has("w"))
  BY <1>1, NobodyInside
<1>3. PICK e \in End : e = ending[p]
  BY <1>1 DEF TypeOK
<1>4. /\ holds' \in [Proc -> SUBSET End] /\ holds'[p] = holds[p] \ {e}
      /\ \A q \in Proc \ {p} : holds'[q] = holds[q]
  BY <1>1, <1>3 DEF TypeOK
<1>5. Has(e) /\ ~Has(e)' /\ \A f \in End \ {e} : Has(f)' <=> Has(f)
  BY <1>1, <1>3, <1>4 DEF Has
<1>6. /\ chan' \in [Proc -> {"none", "lock", "data", "room"}]
      /\ \A q \in Proc : chan'[q] \in {chan[q], "none"} /\ chan'[q] = "none"
  <2>1. /\ chan' \in [Proc -> {"none", "lock", "data", "room"}]
        /\ \A q \in Proc : /\ chan'[q] \in {chan[q], "none"}
                           /\ chan'[q] # "lock"
                           /\ chan'[q] \notin {"room", "data"} \/ chan'[q] = "none"
    BY <1>1, ReleaseForm
  <2> QED
    BY <2>1
<1>7. One(Has("r"))' + One(Has("w"))' = count - 1 /\ count \in {1, 2}
  <2>1. CASE e = "r"
    BY <1>2, <1>5, <2>1 DEF End, One
  <2>2. CASE e = "w"
    BY <1>2, <1>5, <2>2 DEF End, One
  <2> QED
    BY <2>1, <2>2 DEF End
<1>8. CASE count = 1
  <2>1. locked' = TRUE /\ wanted' = FALSE /\ Yield(p, "trunc") /\ count' = 1
    BY <1>8 DEF CloseEnd
  <2>2. /\ pc' \in [Proc -> Location] /\ pc'[p] = "trunc"
        /\ (\A q \in Proc \ {p} : pc'[q] = pc[q]) /\ cpu' \in Proc \cup {NoProc}
    BY <1>1, <2>1, GotoForm DEF TypeOK, Location
  <2>c. locked' \in BOOLEAN /\ wanted' \in BOOLEAN /\ readw' \in BOOLEAN /\ writew' \in BOOLEAN
    BY <1>1, <2>1
  <2>b. count' \in 0..3
    BY <2>1
  <2>3. TypeOK'
    BY <1>1, <1>4, <1>6, <2>2, <2>b, <2>c DEF TypeOK
  <2>4. ~Has("r")' /\ ~Has("w")'
    BY <1>7, <1>8 DEF One
  <2>5. \A r \in Proc : holds'[r] = {}
    BY <1>4, <2>4 DEF Has, End
  <2>6. ASSUME NEW q \in Proc PROVE Proper(q)'
    <3>1. CASE q = p
      BY <1>1, <1>6, <2>1, <2>2, <2>5, <3>1 DEF Proper, Inside
    <3>2. CASE q # p
      <4>1. Proper(q) /\ pc'[q] = pc[q] /\ pc[q] \notin Inside /\ holds'[q] = {} /\ holds'[q] = holds[q]
            /\ pc[q] \in Location /\ ending[q] = ending'[q]
        BY <1>1, <1>2, <1>4, <2>2, <2>5, <3>2 DEF IInv, TypeOK
      <4>2. pc[q] = "user"
        BY <4>1 DEF Proper, Location, Inside
      <4> QED
        BY <1>1, <1>6, <4>1, <4>2 DEF Proper, Inside
    <3> QED
      BY <3>1, <3>2
  <2>7. Single' /\ Extra'
    BY <1>2, <2>2 DEF Single, Inside, Extra
  <2>8. Counted' /\ Emptied'
    BY <2>1, <2>4, <2>7 DEF Counted, One, Emptied
  <2>9. LostBelow' /\ NoLostWakeup'
    BY <1>1, <1>6 DEF IInv, LostBelow, NoLostWakeup
  <2> QED
    BY <2>3, <2>6, <2>7, <2>8, <2>9 DEF IInv
<1>9. CASE count = 2
  <2>1. locked' = FALSE /\ wanted' = FALSE /\ Yield(p, "user") /\ count' = count - 1
    BY <1>9 DEF CloseEnd, IUNLOCK
  <2>2. /\ pc' \in [Proc -> Location] /\ pc'[p] = "user"
        /\ (\A q \in Proc \ {p} : pc'[q] = pc[q]) /\ cpu' \in Proc \cup {NoProc}
    BY <1>1, <2>1, GotoForm DEF TypeOK, Location
  <2>a. count' = 1
    BY <1>9, <2>1
  <2>c. locked' \in BOOLEAN /\ wanted' \in BOOLEAN /\ readw' \in BOOLEAN /\ writew' \in BOOLEAN
    BY <1>1, <2>1
  <2>b. count' \in 0..3
    BY <2>a
  <2>3. TypeOK'
    BY <1>1, <1>4, <1>6, <2>2, <2>b, <2>c DEF TypeOK
  <2>6. ASSUME NEW q \in Proc PROVE Proper(q)'
    <3>1. CASE q = p
      BY <1>1, <1>6, <2>2, <3>1 DEF Proper, Inside
    <3>2. CASE q # p
      <4>1. Proper(q) /\ pc'[q] = pc[q] /\ pc[q] \notin Inside /\ holds'[q] = holds[q]
        BY <1>2, <1>4, <2>2, <3>2 DEF IInv
      <4>2. \A r \in Proc : ending[q] \in holds'[r] => ending[q] \in holds[r]
        BY <1>4
      <4> QED
        BY <1>1, <1>6, <4>1, <4>2 DEF Proper, Inside
    <3> QED
      BY <3>1, <3>2
  <2>7. Single' /\ ~Extra'
    BY <1>2, <2>2 DEF Single, Inside, Extra
  <2>8. Counted' /\ Emptied'
    BY <1>7, <1>9, <2>a, <2>7 DEF Counted, One, Emptied
  <2>9. LostBelow' /\ NoLostWakeup'
    BY <1>1, <1>6 DEF IInv, LostBelow, NoLostWakeup
  <2> QED
    BY <2>3, <2>6, <2>7, <2>8, <2>9 DEF IInv
<1> QED
  BY <1>7, <1>8, <1>9

(* The end of a step inside that leaves the file but not the count. *)
LEMMA GoneKeeps ==
    ASSUME IInv, NEW p \in Proc, Gone(p)
    PROVE  IInv'
<1>1. /\ TypeOK /\ Proper(p) /\ pc[p] = "trunc" /\ chan[p] = "none"
      /\ \A r \in Proc : holds[r] = {}
      /\ file' = <<>> /\ offset' = 0 /\ lost' = {} /\ count' = 0
      /\ locked' = FALSE /\ wanted' = FALSE /\ chan' = Unlocked(chan) /\ Yield(p, "user")
      /\ UNCHANGED <<readw, writew, holds, want, todo, ucount, ending>>
  BY RunsForm DEF Gone, IUNLOCK, Proper
<1>2. \A q \in Proc \ {p} : pc[q] \notin Inside
  BY <1>1 DEF IInv, Single, Inside
<1>3. /\ pc' \in [Proc -> Location] /\ pc'[p] = "user"
      /\ (\A q \in Proc \ {p} : pc'[q] = pc[q]) /\ cpu' \in Proc \cup {NoProc}
  BY <1>1, GotoForm DEF TypeOK, Location
<1>4. /\ chan' \in [Proc -> {"none", "lock", "data", "room"}]
      /\ \A q \in Proc : chan'[q] \in {chan[q], "none"} /\ chan'[q] # "lock"
  BY <1>1, UnlockedForm
<1>5. \A q \in Proc : chan[q] \notin {"data", "room"}
  BY <1>1 DEF IInv, NoLostWakeup, Holders
<1>6. /\ file' \in Seq(Val \cup {Junk}) /\ Len(file') < 2 * MaxPip /\ offset' \in 0..Len(file') /\ file' = <<>>
      /\ count' \in 0..3 /\ lost' = {}
  <2>1. Len(file') = 0 /\ 0 < 2 * MaxPip
    BY <1>1, BlockOrder
  <2> QED
    BY <1>1, <2>1
<1>7. TypeOK'
  BY <1>1, <1>3, <1>4, <1>6 DEF TypeOK
<1>8. Proper(p)' /\ \A q \in Proc \ {p} : Proper(q)'
  <2>1. Proper(p)'
    BY <1>1, <1>3, <1>4 DEF Proper, Inside
  <2> QED
    BY <1>1, <1>2, <1>3, <1>4, <2>1, OthersProper
<1>9. Single' /\ ~Extra' /\ ~Has("r")' /\ ~Has("w")'
  BY <1>1, <1>2, <1>3 DEF Single, Inside, Extra, Has
<1>10. Counted' /\ Emptied' /\ LostBelow'
  BY <1>1, <1>9 DEF Counted, One, Emptied, LostBelow
<1>11. NoLostWakeup'
  BY <1>4, <1>5 DEF NoLostWakeup
<1> QED
  BY <1>7, <1>8, <1>9, <1>10, <1>11 DEF IInv

LEMMA SyncKeeps ==
    ASSUME IInv, NEW p \in Proc, Sync(p)
    PROVE  IInv'
<1>1. /\ TypeOK /\ Proper(p) /\ pc[p] = "user" /\ chan[p] = "none" /\ ~locked /\ count # 0
      /\ locked' = TRUE /\ count' = count + 1 /\ Yield(p, "sync")
      /\ UNCHANGED <<file, offset, lost, wanted, readw, writew, holds, want, todo, ucount, ending, chan>>
  BY RunsForm DEF Sync
<1>2. /\ \A q \in Proc : pc[q] \notin Inside
      /\ count = One(Has("r")) + One(Has("w"))
  BY <1>1, NobodyInside
<1>3. /\ pc' \in [Proc -> Location] /\ pc'[p] = "sync"
      /\ (\A q \in Proc \ {p} : pc'[q] = pc[q]) /\ cpu' \in Proc \cup {NoProc}
  BY <1>1, GotoForm DEF TypeOK, Location
<1>4. count' \in 0..3
  BY <1>1, <1>2 DEF One
<1>5. TypeOK'
  BY <1>1, <1>3, <1>4 DEF TypeOK
<1>6. Proper(p)' /\ \A q \in Proc \ {p} : Proper(q)'
  <2>a. count' > 1
    BY <1>1 DEF TypeOK
  <2>1. Proper(p)'
    BY <1>1, <1>3, <2>a DEF Proper, Inside
  <2> QED
    BY <1>1, <1>2, <1>3, <2>1, OthersProper
<1>7. Single' /\ Extra'
  BY <1>2, <1>3 DEF Single, Inside, Extra
<1>8. Has("r")' = Has("r") /\ Has("w")' = Has("w")
  BY <1>1 DEF Has
<1>9. Counted' /\ Emptied' /\ LostBelow'
  <2>1. One(Extra)' = 1 /\ One(Has("r"))' = One(Has("r")) /\ One(Has("w"))' = One(Has("w"))
    BY <1>7, <1>8 DEF One
  <2>2. Counted'
    BY <1>1, <1>2, <2>1 DEF Counted, One
  <2>3. count' # 0
    BY <1>1 DEF TypeOK
  <2> QED
    BY <1>1, <2>2, <2>3 DEF IInv, Emptied, LostBelow
<1>10. NoLostWakeup'
  BY <1>1 DEF IInv, NoLostWakeup, Holders
<1> QED
  BY <1>5, <1>6, <1>7, <1>9, <1>10 DEF IInv

LEMMA SyncedKeeps ==
    ASSUME IInv, NEW p \in Proc, Synced(p)
    PROVE  IInv'
<1>1. /\ TypeOK /\ Proper(p) /\ pc[p] = "sync" /\ chan[p] = "none"
      /\ locked' = FALSE /\ wanted' = FALSE /\ chan' = Unlocked(chan)
      /\ count' = count - 1 /\ Yield(p, "user")
      /\ UNCHANGED <<file, offset, lost, readw, writew, holds, want, todo, ucount, ending>>
  BY RunsForm DEF Synced, IUNLOCK
<1>2. \A q \in Proc \ {p} : pc[q] \notin Inside
  BY <1>1 DEF IInv, Single, Inside
<1>3. /\ pc' \in [Proc -> Location] /\ pc'[p] = "user"
      /\ (\A q \in Proc \ {p} : pc'[q] = pc[q]) /\ cpu' \in Proc \cup {NoProc}
  BY <1>1, GotoForm DEF TypeOK, Location
<1>4. /\ chan' \in [Proc -> {"none", "lock", "data", "room"}]
      /\ \A q \in Proc : chan'[q] \in {chan[q], "none"}
  BY <1>1, UnlockedForm
<1>5. Single' /\ ~Extra' /\ Extra
  BY <1>1, <1>2, <1>3 DEF Single, Inside, Extra
<1>6. Has("r")' = Has("r") /\ Has("w")' = Has("w")
  BY <1>1 DEF Has
<1>7. count' = One(Has("r")) + One(Has("w")) /\ count' \in 0..3
  BY <1>1, <1>5 DEF IInv, Counted, One
<1>8. Counted'
  <2>1. One(Extra)' = 0 /\ One(Has("r"))' = One(Has("r")) /\ One(Has("w"))' = One(Has("w"))
    BY <1>5, <1>6 DEF One
  <2>2. One(Has("r")) \in Nat /\ One(Has("w")) \in Nat
    BY DEF One
  <2> QED
    BY <1>7, <2>1, <2>2 DEF Counted
<1>9. TypeOK'
  BY <1>1, <1>3, <1>4, <1>7 DEF TypeOK
<1>10. Proper(p)' /\ \A q \in Proc \ {p} : Proper(q)'
  <2>1. Proper(p)'
    BY <1>1, <1>3, <1>4 DEF Proper, Inside
  <2> QED
    BY <1>1, <1>2, <1>3, <1>4, <2>1, OthersProper
<1>11. LostBelow' /\ NoLostWakeup'
  BY <1>1, ReleaseHears DEF IInv, LostBelow
<1>12. count' # 0
  BY <1>1 DEF Proper, TypeOK
<1> QED
  BY <1>5, <1>8, <1>9, <1>10, <1>11, <1>12 DEF IInv, Emptied

LEMMA EvictKeeps ==
    ASSUME IInv, Evict
    PROVE  IInv'
<1>1. PICK b \in lost :
          /\ file' = [i \in DOMAIN file |-> IF Block[i - 1] = b THEN Junk ELSE file[i]]
          /\ lost' = lost \ {b}
  BY DEF Evict
<1>2. TypeOK /\ UNCHANGED <<offset, count, locked, wanted, readw, writew, holds, calls>>
  BY DEF IInv, Evict
<1>3. file \in Seq(Val \cup {Junk}) /\ Len(file) \in Nat /\ DOMAIN file = 1..Len(file)
  BY <1>2 DEF TypeOK
<1>4. file' \in Seq(Val \cup {Junk}) /\ Len(file') = Len(file)
  BY <1>1, <1>3
<1>5. file' = <<>> <=> file = <<>>
  BY <1>3, <1>4
<1>6. TypeOK'
  BY <1>1, <1>2, <1>4, <1>5 DEF TypeOK, calls
<1>7. \A q \in Proc : Proper(q)'
  BY <1>2, <1>4, <1>5 DEF IInv, Proper, calls
<1>8. Single' /\ LostBelow' /\ Emptied' /\ NoLostWakeup'
  BY <1>1, <1>2, <1>4, <1>5 DEF IInv, Single, LostBelow, Emptied, NoLostWakeup, Holders, calls
<1>9. Counted'
  BY <1>2 DEF IInv, Counted, Has, Extra, calls
<1> QED
  BY <1>6, <1>7, <1>8, <1>9 DEF IInv

-----------------------------------------------------------------------------
(* The invariants *)

LEMMA InitHolds == Init => IInv
<1> SUFFICES ASSUME Init PROVE IInv
  OBVIOUS
<1>1. TypeOK
  <2>1. Len(file) = 0 /\ file \in Seq(Val \cup {Junk})
    BY DEF Init
  <2>2. Len(file) < 2 * MaxPip /\ offset \in 0..Len(file) /\ (file # <<>> => offset < Len(file))
        /\ count \in 0..3 /\ lost \subseteq {Block[o] : o \in DOMAIN Block}
    BY <2>1, SizeAssumption DEF Init
  <2>3. /\ holds \in [Proc -> SUBSET End] /\ pc \in [Proc -> Location]
        /\ todo \in [Proc -> Seq(Val)]
    BY DEF Init, End, Location
  <2>4. /\ want \in [Proc -> Nat] /\ ucount \in [Proc -> Nat] /\ ending \in [Proc -> End]
        /\ chan \in [Proc -> {"none", "lock", "data", "room"}]
    BY DEF Init, End
  <2> QED
    BY <2>1, <2>2, <2>3, <2>4 DEF Init, TypeOK
<1>2. \A q \in Proc : Proper(q)
  BY DEF Init, Proper, Inside
<1>3. Single /\ LostBelow /\ Emptied /\ NoLostWakeup
  BY DEF Init, Single, Inside, LostBelow, Emptied, NoLostWakeup
<1>4. Counted
  BY DEF Init, Counted, Has, Extra, One
<1> QED
  BY <1>1, <1>2, <1>3, <1>4 DEF IInv

LEMMA NextKeeps == IInv /\ [Next]_vars => IInv'
<1> SUFFICES ASSUME IInv, [Next]_vars PROVE IInv'
  OBVIOUS
<1>1. CASE UNCHANGED vars
  <2>1. UNCHANGED <<file, offset, lost, count, locked, wanted, readw, writew>>
        /\ UNCHANGED <<holds, pc, want, todo, ucount, ending, chan, cpu>>
    BY <1>1 DEF vars, inode, calls
  <2>2. TypeOK' /\ \A q \in Proc : Proper(q)'
    BY <2>1 DEF IInv, TypeOK, Proper
  <2>3. Single' /\ Counted' /\ LostBelow' /\ Emptied' /\ NoLostWakeup'
    BY <2>1 DEF IInv, Single, Counted, Has, Extra, LostBelow, Emptied, NoLostWakeup, Holders
  <2> QED
    BY <2>2, <2>3 DEF IInv
<1>2. ASSUME NEW p \in Proc, Create(p) \/ Read(p) \/ Write(p) \/ Close(p) \/ Sync(p) \/ WaitLock(p) \/ Signal(p)
      PROVE  IInv'
  BY <1>2, CreateKeeps, ReadKeeps, WriteKeeps, CloseKeeps, SyncKeeps, WaitLockKeeps, SignalKeeps
<1>3. ASSUME NEW p \in Proc, ReadWait(p) \/ ReadEnd(p) \/ ReadStart(p) \/ ReadDone(p)
      PROVE  IInv'
  BY <1>3, ReadWaitKeeps, ReadEndKeeps, ReadStartKeeps, ReadDoneKeeps
<1>4. ASSUME NEW p \in Proc, WriteEnd(p) \/ WriteWait(p) \/ WriteStart(p) \/ WriteDone(p)
      PROVE  IInv'
  BY <1>4, WriteEndKeeps, WriteWaitKeeps, WriteStartKeeps, WriteDoneKeeps
<1>5. ASSUME NEW p \in Proc, CloseEnd(p) \/ Gone(p) \/ Synced(p)
      PROVE  IInv'
  BY <1>5, CloseEndKeeps, GoneKeeps, SyncedKeeps
<1>6. ASSUME NEW p \in Proc, NEW q \in Proc, Fork(p, q) PROVE IInv'
  BY <1>6, ForkKeeps
<1>7. CASE Evict
  BY <1>7, EvictKeeps
<1> QED
  BY <1>1, <1>2, <1>3, <1>4, <1>5, <1>6, <1>7 DEF Next, Step

LEMMA IInvAlways == Spec => []IInv
BY InitHolds, NextKeeps, PTL DEF Spec

(* The variables keep their types, and the file never gets to twice the    *)
(* size at which writers wait, however large the writes are.               *)
THEOREM TypeCorrect == Spec => []TypeOK
<1>1. IInv => TypeOK
  BY DEF IInv
<1> QED
  BY <1>1, IInvAlways, PTL

(* readp and writep take i_count 2 to say that there is somebody at the    *)
(* other end: i_count is right whenever the inode is not locked, in spite  *)
(* of update and of the process that frees it.                             *)
THEOREM EndsRight == Spec => []EndsCounted
<1>1. ASSUME IInv PROVE EndsCounted
  <2> SUFFICES ASSUME ~locked
               PROVE  count = Cardinality({e \in End : Holders(e) # {}})
    BY DEF EndsCounted
  <2> DEFINE Held == {e \in End : Holders(e) # {}}
  <2>1. count = One(Has("r")) + One(Has("w"))
    BY <1>1, NobodyInside
  <2>2. Held = {e \in End : Has(e)}
    BY HoldersHas
  <2>3. CASE Has("r") /\ Has("w")
    <3>1. Held = {"r", "w"}
      BY <2>2, <2>3 DEF End
    <3>2. Cardinality({"r", "w"}) = 2
      <4>1. {"r", "w"} = {"r"} \cup {"w"} /\ "w" \notin {"r"}
        OBVIOUS
      <4>2. IsFiniteSet({"r"}) /\ Cardinality({"r"}) = 1
        BY FS_Singleton
      <4> QED
        BY <4>1, <4>2, FS_AddElement
    <3> QED
      BY <2>1, <2>3, <3>1, <3>2 DEF One
  <2>4. CASE Has("r") /\ ~Has("w")
    <3>1. Held = {"r"}
      BY <2>2, <2>4 DEF End
    <3> QED
      BY <2>1, <2>4, <3>1, FS_Singleton DEF One
  <2>5. CASE ~Has("r") /\ Has("w")
    <3>1. Held = {"w"}
      BY <2>2, <2>5 DEF End
    <3> QED
      BY <2>1, <2>5, <3>1, FS_Singleton DEF One
  <2>6. CASE ~Has("r") /\ ~Has("w")
    <3>1. Held = {}
      BY <2>2, <2>6 DEF End
    <3> QED
      BY <2>1, <2>6, <3>1, FS_EmptySet DEF One
  <2> QED
    BY <2>3, <2>4, <2>5, <2>6
<1> QED
  BY <1>1, IInvAlways, PTL

(* Nobody sleeps on a pipe with no wakeup to come: what wakes the sleeper  *)
(* finds IWANT, IREAD or IWRITE set, or is the close of the other end.     *)
THEOREM WakeupKept == Spec => []NoLostWakeup
<1>1. IInv => NoLostWakeup
  BY DEF IInv
<1> QED
  BY <1>1, IInvAlways, PTL

-----------------------------------------------------------------------------
(* What is left of a sequence *)

(* The part of s that follows its first o elements, up to the e-th.        *)
LEMMA PartForm ==
    ASSUME NEW S, NEW s \in Seq(S), NEW o \in 0..Len(s), NEW e \in o..Len(s)
    PROVE  /\ SubSeq(s, o + 1, e) \in Seq(S) /\ Len(SubSeq(s, o + 1, e)) = e - o
           /\ \A i \in 1..(e - o) : SubSeq(s, o + 1, e)[i] = s[o + i]
<1>1. Len(s) \in Nat /\ o \in Int /\ e \in Int
  OBVIOUS
<1>2. \A i \in (o + 1)..e : s[i] \in S
  BY <1>1
<1>3. o + 1 \in Int /\ (IF o + 1 <= e THEN e - (o + 1) + 1 ELSE 0) = e - o
      /\ e - (o + 1) + 1 = e - o /\ \A i \in 1..(e - o) : (o + 1) + i - 1 = o + i
  BY <1>1
<1> QED
  BY <1>1, <1>2, <1>3, SubSeqProperties

LEMMA PartTaken ==
    ASSUME NEW S, NEW s \in Seq(S), NEW o \in 0..Len(s), NEW n \in Nat, n > 0, o + n <= Len(s)
    PROVE  /\ n \in 1..Len(SubSeq(s, o + 1, Len(s)))
           /\ SubSeq(SubSeq(s, o + 1, Len(s)), 1, n) = SubSeq(s, o + 1, o + n)
           /\ SubSeq(SubSeq(s, o + 1, Len(s)), n + 1, Len(SubSeq(s, o + 1, Len(s)))) = SubSeq(s, o + n + 1, Len(s))
<1> DEFINE q == SubSeq(s, o + 1, Len(s))
           l == Len(s) - o
<1>1. Len(s) \in Nat /\ o \in Nat /\ l \in Nat /\ n <= l /\ o + n \in 0..Len(s) /\ o + n \in o..Len(s)
      /\ Len(s) \in o..Len(s) /\ Len(s) \in (o + n)..Len(s)
  OBVIOUS
<1>2. q \in Seq(S) /\ Len(q) = l /\ \A i \in 1..l : q[i] = s[o + i]
  BY <1>1, PartForm
<1> HIDE DEF q
<1>3. 0 \in 0..Len(q) /\ n \in 0..Len(q) /\ Len(q) \in n..Len(q) /\ 0 + 1 = 1
  BY <1>1, <1>2
<1>4. SubSeq(q, 1, n) \in Seq(S) /\ Len(SubSeq(q, 1, n)) = n
      /\ \A i \in 1..n : SubSeq(q, 1, n)[i] = q[i]
  <2>1. SubSeq(q, 0 + 1, n) \in Seq(S) /\ Len(SubSeq(q, 0 + 1, n)) = n - 0
        /\ \A i \in 1..(n - 0) : SubSeq(q, 0 + 1, n)[i] = q[0 + i]
    BY <1>2, <1>3, PartForm
  <2>2. n - 0 = n /\ \A i \in 1..n : 0 + i = i
    OBVIOUS
  <2> QED
    BY <1>3, <2>1, <2>2
<1>5. SubSeq(q, n + 1, Len(q)) \in Seq(S) /\ Len(SubSeq(q, n + 1, Len(q))) = l - n
      /\ \A i \in 1..(l - n) : SubSeq(q, n + 1, Len(q))[i] = q[n + i]
  <2>1. SubSeq(q, n + 1, Len(q)) \in Seq(S) /\ Len(SubSeq(q, n + 1, Len(q))) = Len(q) - n
        /\ \A i \in 1..(Len(q) - n) : SubSeq(q, n + 1, Len(q))[i] = q[n + i]
    <3>1. q \in Seq(S) /\ n \in 0..Len(q)
      BY <1>2, <1>3
    <3>2. PICK e \in n..Len(q) : e = Len(q)
      BY <1>3
    <3>3. SubSeq(q, n + 1, e) \in Seq(S) /\ Len(SubSeq(q, n + 1, e)) = e - n
          /\ \A i \in 1..(e - n) : SubSeq(q, n + 1, e)[i] = q[n + i]
      BY <3>1, PartForm
    <3> QED
      BY <3>2, <3>3
  <2>2. Len(q) - n = l - n
    BY <1>2
  <2> QED
    BY <2>1, <2>2
<1>6. SubSeq(s, o + 1, o + n) \in Seq(S) /\ Len(SubSeq(s, o + 1, o + n)) = n
      /\ \A i \in 1..n : SubSeq(s, o + 1, o + n)[i] = s[o + i]
  <2>1. (o + n) - o = n
    BY <1>1
  <2> QED
    BY <1>1, <2>1, PartForm
<1>7. SubSeq(s, o + n + 1, Len(s)) \in Seq(S) /\ Len(SubSeq(s, o + n + 1, Len(s))) = l - n
      /\ \A i \in 1..(l - n) : SubSeq(s, o + n + 1, Len(s))[i] = s[o + n + i]
  <2>1. Len(s) - (o + n) = l - n
    BY <1>1
  <2>2. /\ SubSeq(s, (o + n) + 1, Len(s)) \in Seq(S) /\ Len(SubSeq(s, (o + n) + 1, Len(s))) = Len(s) - (o + n)
        /\ \A i \in 1..(Len(s) - (o + n)) : SubSeq(s, (o + n) + 1, Len(s))[i] = s[(o + n) + i]
    <3> DEFINE k == o + n
    <3>1. k \in 0..Len(s) /\ Len(s) \in k..Len(s)
      BY <1>1
    <3> HIDE DEF k
    <3>2. /\ SubSeq(s, k + 1, Len(s)) \in Seq(S) /\ Len(SubSeq(s, k + 1, Len(s))) = Len(s) - k
          /\ \A i \in 1..(Len(s) - k) : SubSeq(s, k + 1, Len(s))[i] = s[k + i]
      BY <3>1, PartForm
    <3> QED
      BY <3>2 DEF k
  <2> QED
    BY ZenonT(60), <2>1, <2>2
<1>8. \A i \in 1..n : q[i] = s[o + i]
  BY <1>1, <1>2
<1>9. \A i \in 1..(l - n) : q[n + i] = s[o + n + i]
  <2> TAKE i \in 1..(l - n)
  <2>1. n + i \in 1..l /\ o + (n + i) = o + n + i
    BY <1>1
  <2> QED
    BY <1>2, <2>1
<1>10. SubSeq(q, 1, n) = SubSeq(s, o + 1, o + n)
  BY <1>4, <1>6, <1>8, SeqEqual
<1>11. SubSeq(q, n + 1, Len(q)) = SubSeq(s, o + n + 1, Len(s))
  BY <1>5, <1>7, <1>9, SeqEqual
<1>12. n \in 1..Len(q)
  BY <1>1, <1>2
<1> QED
  BY <1>10, <1>11, <1>12 DEF q

LEMMA PartGrown ==
    ASSUME NEW S, NEW s \in Seq(S), NEW t \in Seq(S), NEW o \in 0..Len(s)
    PROVE  SubSeq(s \o t, o + 1, Len(s \o t)) = SubSeq(s, o + 1, Len(s)) \o t
<1> DEFINE u == s \o t
           q == SubSeq(s, o + 1, Len(s))
           v == SubSeq(u, o + 1, Len(u))
           l == Len(s) - o
           m == Len(t)
<1>1. u \in Seq(S) /\ Len(u) = Len(s) + m
      /\ \A i \in 1..(Len(s) + m) : u[i] = IF i <= Len(s) THEN s[i] ELSE t[i - Len(s)]
  BY ConcatProperties
<1>2. Len(s) \in Nat /\ m \in Nat /\ l \in Nat /\ o \in Nat /\ Len(s) \in o..Len(s)
      /\ (Len(s) + m) - o = l + m
  OBVIOUS
<1>3. q \in Seq(S) /\ Len(q) = l /\ \A i \in 1..l : q[i] = s[o + i]
  BY <1>2, PartForm
<1> HIDE DEF u
<1>4. v \in Seq(S) /\ Len(v) = l + m /\ \A i \in 1..(l + m) : v[i] = u[o + i]
  <2>1. o \in 0..Len(u) /\ Len(u) \in o..Len(u) /\ Len(u) - o = l + m
    BY <1>1, <1>2
  <2> QED
    BY <1>1, <2>1, PartForm
<1> HIDE DEF q, v
<1>5. q \o t \in Seq(S) /\ Len(q \o t) = l + m
      /\ \A i \in 1..(l + m) : (q \o t)[i] = IF i <= l THEN q[i] ELSE t[i - l]
  <2>1. q \o t \in Seq(S) /\ Len(q \o t) = Len(q) + Len(t)
        /\ \A i \in 1..(Len(q) + Len(t)) : (q \o t)[i] = IF i <= Len(q) THEN q[i] ELSE t[i - Len(q)]
    BY <1>3, ConcatProperties
  <2>2. Len(q) = l /\ Len(t) = m
    BY <1>3
  <2> HIDE DEF l, m
  <2> QED
    BY <2>1, <2>2
<1>6. \A i \in 1..(l + m) : v[i] = (q \o t)[i]
  <2> TAKE i \in 1..(l + m)
  <2>1. o + i \in 1..(Len(s) + m)
    BY <1>2
  <2>2. CASE i <= l
    <3>1. i \in 1..l /\ o + i <= Len(s)
      BY <1>2, <2>2
    <3> QED
      BY <1>1, <1>3, <1>4, <1>5, <2>1, <3>1
  <2>3. CASE ~(i <= l)
    <3>1. ~(o + i <= Len(s)) /\ (o + i) - Len(s) = i - l
      BY <1>2, <2>3
    <3> QED
      BY <1>1, <1>4, <1>5, <2>1, <2>3, <3>1
  <2> QED
    BY <2>2, <2>3
<1>7. v = q \o t
  BY <1>4, <1>5, <1>6, SeqEqual
<1> QED
  BY <1>7 DEF q, u, v

LEMMA PartSame ==
    ASSUME NEW S, NEW s \in Seq(S), NEW t \in Seq(S), NEW o \in 0..Len(s),
           Len(t) = Len(s), \A i \in (o + 1)..Len(s) : s[i] = t[i]
    PROVE  SubSeq(s, o + 1, Len(s)) = SubSeq(t, o + 1, Len(t))
<1> DEFINE l == Len(s) - o
<1>1. Len(s) \in Nat /\ o \in Nat /\ l \in Nat /\ Len(s) \in o..Len(s) /\ \A i \in 1..l : o + i \in (o + 1)..Len(s)
  OBVIOUS
<1>2. /\ SubSeq(s, o + 1, Len(s)) \in Seq(S) /\ Len(SubSeq(s, o + 1, Len(s))) = l
      /\ \A i \in 1..l : SubSeq(s, o + 1, Len(s))[i] = s[o + i]
  BY <1>1, PartForm
<1>3. /\ SubSeq(t, o + 1, Len(t)) \in Seq(S) /\ Len(SubSeq(t, o + 1, Len(t))) = l
      /\ \A i \in 1..l : SubSeq(t, o + 1, Len(t))[i] = t[o + i]
  BY <1>1, PartForm
<1>4. \A i \in 1..l : s[o + i] = t[o + i]
  BY <1>1
<1> HIDE DEF l
<1> QED
  BY <1>2, <1>3, <1>4, SeqEqual

-----------------------------------------------------------------------------
(* Every step of Pipe is a step of Fifo. *)

LEMMA EmptyQueue ==
    ASSUME TypeOK, file = <<>>
    PROVE  SubSeq(file, offset + 1, Len(file)) = <<>>
<1>1. Len(file) = 0 /\ offset = 0
  BY DEF TypeOK
<1> QED
  BY <1>1, SubSeqEmpty

(* An end that nobody has. *)
LEMMA ClosedForm ==
    ASSUME NEW e
    PROVE  F!Closed(e) <=> ~Has(e)
BY DEF F!Closed, Has

LEMMA QuietStep ==
    ASSUME out' = None, UNCHANGED <<file, offset, holds, todo>>
    PROVE  F!Next
BY DEF None, F!Next, F!Quiet, F!None

LEMMA CreateIsCreate ==
    ASSUME IInv, NEW p \in Proc, Create(p)
    PROVE  F!Next
<1>1. /\ TypeOK /\ count = 0 /\ offset' = 0 /\ out' = None /\ file' = file /\ todo' = todo
      /\ holds' = [holds EXCEPT ![p] = {"r", "w"}]
  BY DEF IInv, Create, calls, End
<1>2. ~Has("r") /\ ~Has("w") /\ file = <<>>
  BY <1>1 DEF IInv, Counted, One, Emptied
<1>3. SubSeq(file, offset + 1, Len(file)) = <<>> /\ SubSeq(file', offset' + 1, Len(file')) = <<>>
  <2>1. offset' + 1 = 1 /\ file' = <<>> /\ Len(file') = 0
    BY <1>1, <1>2
  <2> QED
    BY <1>1, <1>2, <2>1, EmptyQueue, SubSeqEmpty
<1>4. F!Create(p)
  BY <1>1, <1>2, <1>3, ClosedForm DEF None, F!Create, F!None
<1> QED
  BY <1>4 DEF F!Next

LEMMA ForkIsFork ==
    ASSUME NEW p \in Proc, NEW q \in Proc, Fork(p, q)
    PROVE  F!Next
<1>1. F!Fork(p, q)
  BY DEF Fork, inode, calls, None, F!Fork, F!None
<1> QED
  BY <1>1 DEF F!Next

LEMMA CloseIsClose ==
    ASSUME IInv, NEW p \in Proc, Close(p)
    PROVE  F!Next
<1>1. PICK e \in holds[p] :
          \/ holds' = [holds EXCEPT ![p] = @ \ {e}]
          \/ UNCHANGED holds
  BY DEF Close
<1>2. out' = None /\ UNCHANGED <<file, offset, todo>>
  BY DEF Close, inode
<1>3. CASE UNCHANGED holds
  BY <1>2, <1>3, QuietStep
<1>4. CASE holds' = [holds EXCEPT ![p] = @ \ {e}]
  <2>1. F!Close(p, e)
    BY <1>1, <1>2, <1>4 DEF None, F!Close, F!None
  <2>2. e \in {"r", "w"}
    BY <1>1 DEF IInv, TypeOK, End
  <2> QED
    BY <2>1, <2>2 DEF F!Next
<1> QED
  BY <1>1, <1>3, <1>4

LEMMA CloseEndIsClose ==
    ASSUME IInv, NEW p \in Proc, CloseEnd(p)
    PROVE  F!Next
<1>1. /\ ending[p] \in holds[p] /\ holds' = [holds EXCEPT ![p] = @ \ {ending[p]}]
      /\ out' = None /\ UNCHANGED <<file, offset, todo>> /\ ending[p] \in {"r", "w"}
  BY RunsForm DEF CloseEnd, Proper, TypeOK, End
<1>2. F!Close(p, ending[p])
  BY <1>1 DEF None, F!Close, F!None
<1> QED
  BY <1>1, <1>2 DEF F!Next

LEMMA WriteIsWrite ==
    ASSUME IInv, NEW p \in Proc, Write(p)
    PROVE  F!Next
<1>1. /\ pc[p] = "user" /\ Proper(p) /\ "w" \in holds[p] /\ out' = None
      /\ UNCHANGED <<file, offset, holds>> /\ todo \in [Proc -> Seq(Val)]
  BY RunsForm DEF Write, inode, TypeOK
<1>2. PICK s \in Requests : todo' = [todo EXCEPT ![p] = s]
  BY DEF Write
<1>3. todo[p] = <<>>
  BY <1>1 DEF Proper
<1>4. s \in Seq(Val) /\ s # <<>> /\ todo'[p] = s
  BY <1>1, <1>2, DataAssumption
<1>5. F!Write(p)
  BY <1>1, <1>2, <1>3, <1>4 DEF None, F!Write, F!None
<1> QED
  BY <1>5 DEF F!Next

LEMMA WriteEndIsWritten ==
    ASSUME IInv, NEW p \in Proc, WriteEnd(p)
    PROVE  F!Next
<1>1. /\ ~locked /\ pc[p] = "write" /\ Proper(p) /\ UNCHANGED <<file, offset, holds>>
  BY RunsForm DEF WriteEnd
<1>2. CASE EndWrite(p, "wrote")
  <2>1. F!Written(p)
    BY <1>1, <1>2 DEF EndWrite, Tell, F!Written
  <2> QED
    BY <2>1 DEF F!Next
<1>3. CASE todo[p] # <<>> /\ ~BothOpen /\ EndWrite(p, "EPIPE")
  <2>1. count = One(Has("r")) + One(Has("w")) /\ count # 2 /\ "w" \in holds[p]
    BY <1>1, <1>3, NobodyInside DEF BothOpen, Proper
  <2>2. ~Has("r")
    BY <2>1, BothHave DEF Has
  <2>3. F!Broken(p)
    BY <1>1, <1>3, <2>2, ClosedForm DEF EndWrite, Tell, F!Broken
  <2> QED
    BY <2>3 DEF F!Next
<1> QED
  BY <1>2, <1>3 DEF WriteEnd

(* A transfer of the writer puts in its next units, all of them if they    *)
(* fit into the pipe at all.                                               *)
LEMMA WriteDoneIsPut ==
    ASSUME IInv, NEW p \in Proc, WriteDone(p)
    PROVE  F!Next
<1> DEFINE n == Chunk(p)
<1>1. /\ TypeOK /\ Proper(p) /\ pc[p] = "writing" /\ todo[p] # <<>> /\ count = 2 /\ out' = None
      /\ UNCHANGED <<offset, holds>>
      /\ file' = file \o SubSeq(todo[p], 1, n)
      /\ todo' = [todo EXCEPT ![p] = SubSeq(@, n + 1, Len(@))]
  BY RunsForm DEF WriteDone, Proper
<1>2. /\ n \in 1..Len(todo[p]) /\ (Len(todo[p]) <= MaxPip => n = Len(todo[p]))
      /\ SubSeq(todo[p], 1, n) \in Seq(Val)
  BY <1>1, ChunkForm
<1> HIDE DEF n
<1>3. ~Extra
  BY <1>1 DEF IInv, Single, Inside, Extra
<1>4. Has("r")
  BY <1>1, <1>3 DEF IInv, Counted, One
<1>5. SubSeq(file', offset' + 1, Len(file')) = SubSeq(file, offset + 1, Len(file)) \o SubSeq(todo[p], 1, n)
  <2>1. file \in Seq(Val \cup {Junk}) /\ offset \in 0..Len(file)
    BY <1>1 DEF TypeOK
  <2>2. SubSeq(todo[p], 1, n) \in Seq(Val \cup {Junk})
    BY <1>2, SeqMonotonic
  <2> QED
    BY ZenonT(60), <1>1, <2>1, <2>2, PartGrown
<1>6. F!Put(p)
  BY <1>1, <1>2, <1>4, <1>5, ClosedForm DEF None, F!Put, F!None
<1> QED
  BY <1>6 DEF F!Next

LEMMA ReadEndIsEnd ==
    ASSUME IInv, NEW p \in Proc, ReadEnd(p)
    PROVE  F!Next
<1>1. /\ TypeOK /\ ~locked /\ file = <<>> /\ count # 2 /\ pc[p] = "read" /\ Proper(p)
      /\ UNCHANGED <<file, offset, holds, todo>> /\ out' = <<"eof", p>>
  BY RunsForm DEF ReadEnd, BothOpen, Tell
<1>2. count = One(Has("r")) + One(Has("w")) /\ Has("r")
  BY <1>1, NobodyInside DEF Proper, Has
<1>3. ~Has("w")
  BY <1>1, <1>2, BothHave
<1>4. F!EndOfFile(p)
  BY <1>1, <1>3, EmptyQueue, ClosedForm DEF F!EndOfFile
<1> QED
  BY <1>4 DEF F!Next

(* A transfer of the reader takes the next units out. *)
LEMMA ReadDoneIsGet ==
    ASSUME IInv, NEW p \in Proc, ReadDone(p)
    PROVE  F!Next
<1> DEFINE n == Taken(p)
           l == Len(file)
<1>1. /\ TypeOK /\ Proper(p) /\ pc[p] = "reading" /\ file # <<>> /\ want[p] > 0 /\ want[p] \in Nat
      /\ "r" \in holds[p]
      /\ UNCHANGED <<holds, todo>>
      /\ out' = <<"read", p, SubSeq(file, offset + 1, offset + n)>>
  BY RunsForm DEF ReadDone, Proper, TypeOK
<1>2. \/ offset + n = l /\ file' = <<>> /\ offset' = 0
      \/ offset + n < l /\ offset' = offset + n /\ file' = file
  BY DEF ReadDone
<1>3. /\ file \in Seq(Val \cup {Junk}) /\ offset \in 0..l /\ offset < l
      /\ n \in Nat /\ n > 0 /\ offset + n <= l /\ l \in Nat
  BY SMTT(30), <1>1 DEF TypeOK, Taken, MinOf
<1> HIDE DEF n
<1>4. /\ n \in 1..Len(SubSeq(file, offset + 1, l))
      /\ SubSeq(SubSeq(file, offset + 1, l), 1, n) = SubSeq(file, offset + 1, offset + n)
      /\ SubSeq(SubSeq(file, offset + 1, l), n + 1, Len(SubSeq(file, offset + 1, l))) = SubSeq(file, offset + n + 1, l)
  BY <1>3, PartTaken
<1>5. SubSeq(file', offset' + 1, Len(file')) = SubSeq(file, offset + n + 1, l)
  <2>1. CASE offset + n = l /\ file' = <<>> /\ offset' = 0
    <3>1. SubSeq(file, offset + n + 1, l) = <<>>
      <4>1. l < offset + n + 1 /\ l \in Int /\ offset + n + 1 \in Int
        BY <1>3, <2>1
      <4> QED
        BY <4>1, SubSeqEmpty
    <3>2. SubSeq(file', offset' + 1, Len(file')) = <<>>
      <4>1. Len(file') = 0 /\ offset' + 1 = 1
        BY <2>1
      <4> QED
        BY <4>1, SubSeqEmpty
    <3> QED
      BY <3>1, <3>2
  <2>2. CASE offset + n < l /\ offset' = offset + n /\ file' = file
    BY <2>2
  <2> QED
    BY <1>2, <2>1, <2>2
<1>6. F!Get(p)
  BY <1>1, <1>4, <1>5 DEF F!Get
<1> QED
  BY <1>6 DEF F!Next

LEMMA GoneIsDiscard ==
    ASSUME IInv, NEW p \in Proc, Gone(p)
    PROVE  F!Next
<1>1. /\ \A r \in Proc : holds[r] = {}
      /\ file' = <<>> /\ offset' = 0 /\ out' = None /\ UNCHANGED <<holds, todo>>
  BY RunsForm DEF Gone, Proper
<1>2. SubSeq(file', offset' + 1, Len(file')) = <<>>
  <2>1. Len(file') = 0 /\ offset' + 1 = 1
    BY <1>1
  <2> QED
    BY <2>1, SubSeqEmpty
<1>3. F!Discard
  BY <1>1, <1>2 DEF None, F!Discard, F!Closed, F!None
<1> QED
  BY <1>3 DEF F!Next

LEMMA SignalIsWritten ==
    ASSUME IInv, NEW p \in Proc, Signal(p)
    PROVE  F!Next
<1>1. /\ Proper(p) /\ todo \in [Proc -> Seq(Val)] /\ chan[p] # "none"
      /\ UNCHANGED <<file, offset, holds>> /\ todo' = [todo EXCEPT ![p] = <<>>]
      /\ out' = IF pc[p] = "write" THEN <<"wrote", p>> ELSE None
  BY DEF IInv, TypeOK, Signal, inode
<1>2. CASE pc[p] = "write"
  <2>1. F!Written(p)
    BY <1>1, <1>2 DEF F!Written
  <2> QED
    BY <2>1 DEF F!Next
<1>3. CASE pc[p] # "write"
  <2>1. todo[p] = <<>>
    BY <1>1, <1>3 DEF Proper
  <2>2. todo' = todo
    BY <1>1, <2>1
  <2> QED
    BY <1>1, <1>3, <2>2, QuietStep
<1> QED
  BY <1>2, <1>3

(* The block whose buffer is lost lies below the offset: the unit at the   *)
(* offset, and so what follows it, is in another block.                    *)
LEMMA EvictIsQuiet ==
    ASSUME IInv, Evict
    PROVE  F!Next
<1>1. PICK b \in lost :
          file' = [i \in DOMAIN file |-> IF Block[i - 1] = b THEN Junk ELSE file[i]]
  BY DEF Evict
<1>2. TypeOK /\ out' = None /\ UNCHANGED <<offset, holds, todo>>
  BY DEF IInv, Evict, calls
<1>3. /\ file \in Seq(Val \cup {Junk}) /\ Len(file) \in Nat /\ DOMAIN file = 1..Len(file)
      /\ offset \in 0..Len(file) /\ Len(file) < 2 * MaxPip
  BY <1>2 DEF TypeOK
<1>4. file' \in Seq(Val \cup {Junk}) /\ Len(file') = Len(file)
  BY <1>1, <1>3
<1>5. \A i \in (offset + 1)..Len(file) : file[i] = file'[i]
  <2> TAKE i \in (offset + 1)..Len(file)
  <2>1. /\ i \in 1..Len(file) /\ offset <= i - 1 /\ i - 1 \in 0..(2 * MaxPip) /\ offset \in 0..(2 * MaxPip)
    BY <1>3, BlockOrder
  <2>2. Block[offset] <= Block[i - 1] /\ Block[offset] \in Nat /\ Block[i - 1] \in Nat
    BY <2>1, BlockOrder
  <2>3. b < Block[offset] /\ b \in Nat
    <3>1. b \in {Block[o] : o \in DOMAIN Block}
      BY <1>2 DEF TypeOK
    <3> QED
      BY <3>1, BlockAssumption DEF IInv, LostBelow
  <2>4. Block[i - 1] # b
    BY <2>2, <2>3
  <2> QED
    BY <1>1, <1>3, <2>1, <2>4
<1>6. SubSeq(file, offset + 1, Len(file)) = SubSeq(file', offset' + 1, Len(file'))
  BY <1>2, <1>3, <1>4, <1>5, PartSame
<1>7. F!Quiet
  BY <1>2, <1>6 DEF None, F!Quiet, F!None
<1> QED
  BY <1>7 DEF F!Next

(* The steps that Fifo does not see. *)
LEMMA RestIsQuiet ==
    ASSUME NEW p \in Proc,
           \/ WaitLock(p) \/ Read(p) \/ ReadWait(p) \/ ReadStart(p)
           \/ WriteWait(p) \/ WriteStart(p) \/ Sync(p) \/ Synced(p)
    PROVE  F!Next
<1>1. out' = None /\ UNCHANGED <<file, offset, holds, todo>>
  BY DEF WaitLock, Read, ReadWait, ReadStart, WriteWait, WriteStart, Sync, Synced, inode
<1> QED
  BY <1>1, QuietStep

(* A pipe is a first-in-first-out queue: what is written comes out once,   *)
(* in order, unmixed up to MAXPIPSIZ, and end of file and SIGPIPE come     *)
(* only when the other end is closed -- also when the buffers of blocks    *)
(* that were read are dropped without being written (sys_inode.c:88).      *)
THEOREM FifoImplemented == Spec => FifoSpec
<1>1. Init => F!Init
  BY SubSeqEmpty DEF Init, None, F!Init, F!None
<1>2. IInv /\ [Next]_vars => [F!Next]_(F!vars)
  <2> SUFFICES ASSUME IInv, [Next]_vars PROVE F!Next \/ UNCHANGED F!vars
    OBVIOUS
  <2>1. CASE UNCHANGED vars
    BY <2>1 DEF vars, inode, calls, F!vars
  <2>2. ASSUME NEW p \in Proc,
               Create(p) \/ Write(p) \/ Close(p) \/ Signal(p) \/ CloseEnd(p) \/ Gone(p)
        PROVE  F!Next
    BY <2>2, CreateIsCreate, WriteIsWrite, CloseIsClose, SignalIsWritten, CloseEndIsClose, GoneIsDiscard
  <2>3. ASSUME NEW p \in Proc, ReadEnd(p) \/ ReadDone(p) \/ WriteEnd(p) \/ WriteDone(p)
        PROVE  F!Next
    BY <2>3, ReadEndIsEnd, ReadDoneIsGet, WriteEndIsWritten, WriteDoneIsPut
  <2>4. ASSUME NEW p \in Proc,
               \/ WaitLock(p) \/ Read(p) \/ ReadWait(p) \/ ReadStart(p)
               \/ WriteWait(p) \/ WriteStart(p) \/ Sync(p) \/ Synced(p)
        PROVE  F!Next
    BY <2>4, RestIsQuiet
  <2>5. ASSUME NEW p \in Proc, NEW q \in Proc, Fork(p, q) PROVE F!Next
    BY <2>5, ForkIsFork
  <2>6. CASE Evict
    BY <2>6, EvictIsQuiet
  <2> QED
    BY <2>1, <2>2, <2>3, <2>4, <2>5, <2>6 DEF Next, Step
<1> QED
  BY <1>1, <1>2, IInvAlways, PTL DEF Spec, FifoSpec, F!Spec

===============================================================================

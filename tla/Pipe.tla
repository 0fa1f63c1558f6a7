-------------------------------- MODULE Pipe --------------------------------
(***************************************************************************)
(* Pipes: pipe, readp and writep (src/sys/sys/sys_pipe.c), the close of an *)
(* end (ino_close in sys_inode.c, irele in ufs_inode.c), update's visit to *)
(* the inode (ufs_subr.c), and the buffers of its file (readi, writei).    *)
(*                                                                         *)
(* A pipe is a file without a name that writers append to and readers      *)
(* read once; when they have read all of it, it is cut to nothing.  Both   *)
(* ends are one inode with i_count 2.  As in Inode a process keeps the     *)
(* processor (cpu) until it sleeps; it sleeps for the inode lock, for data *)
(* (ip+2) or room (ip+1), and in readi, writei, itrunc and iupdat.  The    *)
(* last two sleeps are interruptible: a signal ends them by longjmp to     *)
(* rwuio.  Copying to and from user space does not fail.                   *)
(***************************************************************************)
EXTENDS Sequences, FiniteSets, Integers

CONSTANTS
    Proc,       \* processes
    Val,        \* bytes, or rather units of data
    MaxPip,     \* MAXPIPSIZ
    Requests,   \* the writes that processes make (bound)
    Counts,     \* the counts of their reads (bound)
    Block,      \* Block[o]: the block of the file that offset o is in (lblkno)
    Junk,       \* what a block holds that was never written to disk
    NoProc

ASSUME ProcAssumption == Proc # {} /\ IsFiniteSet(Proc) /\ NoProc \notin Proc
ASSUME SizeAssumption == MaxPip \in Nat \ {0} /\ Counts \subseteq Nat \ {0}
ASSUME BlockAssumption ==
    /\ Block \in [0..(2 * MaxPip) -> Nat]
    /\ \A m, n \in 0..(2 * MaxPip) : m <= n => Block[m] <= Block[n]
ASSUME DataAssumption == Requests \subseteq Seq(Val) \ {<<>>} /\ Junk \notin Val

VARIABLES
    file,       \* the contents of the inode, i_size units of it
    offset,     \* f_offset of the read end
    lost,       \* blocks in core that neither are on disk nor have B_DELWRI
    count,      \* i_count
    locked,     \* ILOCKED
    wanted,     \* IWANT
    readw,      \* IREAD in i_mode: a reader waits
    writew,     \* IWRITE in i_mode: a writer waits
    holds,      \* holds[p]: the ends p has open; f_count is how many have an end
    pc,         \* where each process is
    want,       \* want[p]: what is left of the count of p's read
    todo,       \* todo[p]: what p's write has still to put in (c, u_base)
    ucount,     \* ucount[p]: u_count of p's write
    ending,     \* ending[p]: the end that p closes
    chan,       \* what p sleeps on
    cpu,        \* the process that has the processor inside the kernel
    out         \* what a process was told in the last step

inode == <<file, offset, lost, count, locked, wanted, readw, writew>>
calls == <<pc, want, todo, ucount, ending, chan, cpu>>
vars == <<inode, holds, calls, out>>

End == {"r", "w"}
None == <<"none">>
Location == {"user", "read", "reading", "write", "writing", "close", "trunc", "sync"}

MinOf(a, b) == IF a < b THEN a ELSE b

(* The file belongs to both ends, or to one. *)
BothOpen == count = 2

Holders(e) == {p \in Proc : e \in holds[p]}

-----------------------------------------------------------------------------
(* Control *)

Runs(p, s) == pc[p] = s /\ chan[p] = "none" /\ cpu \in {p, NoProc}

Goto(p, s) == pc' = [pc EXCEPT ![p] = s] /\ cpu' = p

(* Sleep in a transfer, or go back to user mode: others may run. *)
Yield(p, s) == pc' = [pc EXCEPT ![p] = s] /\ cpu' = NoProc

Woken(ch, cs) == [p \in Proc |-> IF ch[p] \in cs THEN "none" ELSE ch[p]]

(* The sleepers that IUNLOCK leaves: those with IWANT are woken. *)
Unlocked(ch) == IF wanted THEN Woken(ch, {"lock"}) ELSE ch

IUNLOCK == locked' = FALSE /\ wanted' = FALSE

Tell(p, what) == out' = <<what, p>>

Init ==
    /\ file = <<>> /\ offset = 0 /\ lost = {} /\ count = 0
    /\ locked = FALSE /\ wanted = FALSE /\ readw = FALSE /\ writew = FALSE
    /\ holds = [p \in Proc |-> {}]
    /\ pc = [p \in Proc |-> "user"]
    /\ want = [p \in Proc |-> 0]
    /\ todo = [p \in Proc |-> <<>>]
    /\ ucount = [p \in Proc |-> 0]
    /\ ending = [p \in Proc |-> "r"]
    /\ chan = [p \in Proc |-> "none"]
    /\ cpu = NoProc /\ out = None

(* pipe, with the inode that ialloc gave it. *)
Create(p) ==
    /\ Runs(p, "user") /\ count = 0
    /\ count' = 2 /\ locked' = FALSE /\ wanted' = FALSE
    /\ readw' = FALSE /\ writew' = FALSE /\ offset' = 0
    /\ holds' = [holds EXCEPT ![p] = End]
    /\ out' = None
    /\ UNCHANGED <<file, lost, calls>>

(* fork: q is the child, and f_count of each end that p has goes up. *)
Fork(p, q) ==
    /\ Runs(p, "user") /\ Runs(q, "user")
    /\ holds[p] # {} /\ holds[q] = {}
    /\ holds' = [holds EXCEPT ![q] = holds[p]]
    /\ out' = None
    /\ UNCHANGED <<inode, calls>>

(* ILOCK when another has the lock. *)
WaitLock(p) ==
    /\ \E s \in {"read", "write", "close"} : Runs(p, s)
    /\ locked
    /\ wanted' = TRUE
    /\ chan' = [chan EXCEPT ![p] = "lock"] /\ cpu' = NoProc
    /\ out' = None
    /\ UNCHANGED <<file, offset, lost, count, locked, readw, writew, holds, pc, want, todo, ucount, ending>>

-----------------------------------------------------------------------------
(* readp *)

Read(p) ==
    /\ Runs(p, "user") /\ "r" \in holds[p]
    /\ \E n \in Counts : want' = [want EXCEPT ![p] = n]
    /\ Goto(p, "read")
    /\ out' = None
    /\ UNCHANGED <<inode, holds, todo, ucount, ending, chan>>

(* Mutant of ReadWait: does not leave word that a reader waits. *)
ReadWait_NoFlag(p) ==
    /\ Runs(p, "read") /\ ~locked
    /\ file = <<>> /\ BothOpen
    /\ IUNLOCK
    /\ chan' = [Unlocked(chan) EXCEPT ![p] = "data"] /\ cpu' = NoProc
    /\ out' = None
    /\ UNCHANGED <<file, offset, lost, count, readw, writew, holds, pc, want, todo, ucount, ending>>

(* Nothing in the pipe: unlock, and sleep. *)
ReadWait(p) ==
    /\ Runs(p, "read") /\ ~locked
    /\ file = <<>> /\ BothOpen
    /\ IUNLOCK
    /\ readw' = TRUE
    /\ chan' = [Unlocked(chan) EXCEPT ![p] = "data"] /\ cpu' = NoProc
    /\ out' = None
    /\ UNCHANGED <<file, offset, lost, count, writew, holds, pc, want, todo, ucount, ending>>

ReadEnd(p) ==
    /\ Runs(p, "read") /\ ~locked
    /\ file = <<>> /\ ~BothOpen
    /\ IUNLOCK
    /\ chan' = Unlocked(chan)
    /\ Yield(p, "user")
    /\ want' = [want EXCEPT ![p] = 0]
    /\ Tell(p, "eof")
    /\ UNCHANGED <<file, offset, lost, count, readw, writew, holds, todo, ucount, ending>>

(* readi sleeps for the blocks with the lock held. *)
ReadStart(p) ==
    /\ Runs(p, "read") /\ ~locked
    /\ file # <<>>
    /\ locked' = TRUE
    /\ Yield(p, "reading")
    /\ out' = None
    /\ UNCHANGED <<file, offset, lost, count, wanted, readw, writew, holds, want, todo, ucount, ending, chan>>

Taken(p) == MinOf(want[p], Len(file) - offset)

(* Mutant of ReadOut: the last block, too. *)
ReadOut_Partial(n) == {Block[o] : o \in offset..(offset + n - 1)}

(* The blocks that readi read to their end: they lose B_DELWRI. *)
ReadOut(n) == {Block[o] : o \in {x \in offset..(offset + n - 1) : Block[x + 1] # Block[x]}}

(* The data are copied out and the offset moves.  A pipe that is read to   *)
(* its end is cut, and room is announced.                                  *)
ReadDone(p) ==
    /\ Runs(p, "reading")
    /\ LET n == Taken(p) end == offset + Taken(p) IN
       /\ out' = <<"read", p, SubSeq(file, offset + 1, end)>>
       /\ \/ /\ end = Len(file)
             /\ file' = <<>> /\ offset' = 0 /\ lost' = {}
             /\ writew' = FALSE
             /\ chan' = IF writew THEN Woken(Unlocked(chan), {"room"}) ELSE Unlocked(chan)
          \/ /\ end < Len(file)
             /\ offset' = end /\ lost' = lost \cup ReadOut(n)
             /\ chan' = Unlocked(chan)
             /\ UNCHANGED <<file, writew>>
    /\ IUNLOCK
    /\ Yield(p, "user")
    /\ want' = [want EXCEPT ![p] = 0]
    /\ UNCHANGED <<count, readw, holds, todo, ucount, ending>>

-----------------------------------------------------------------------------
(* writep *)

Write(p) ==
    /\ Runs(p, "user") /\ "w" \in holds[p]
    /\ \E s \in Requests : todo' = [todo EXCEPT ![p] = s] /\ ucount' = [ucount EXCEPT ![p] = Len(s)]
    /\ Goto(p, "write")
    /\ out' = None
    /\ UNCHANGED <<inode, holds, want, ending, chan>>

(* The call of p is over: all is written, a signal came, nobody can read. *)
EndWrite(p, what) ==
    /\ Yield(p, "user")
    /\ todo' = [todo EXCEPT ![p] = <<>>]
    /\ ucount' = [ucount EXCEPT ![p] = 0]
    /\ Tell(p, what)

WriteEnd(p) ==
    /\ Runs(p, "write") /\ ~locked
    /\ \/ todo[p] = <<>> /\ EndWrite(p, "wrote")
       \/ todo[p] # <<>> /\ ~BothOpen /\ EndWrite(p, "EPIPE")
    /\ IUNLOCK
    /\ chan' = Unlocked(chan)
    /\ UNCHANGED <<file, offset, lost, count, readw, writew, holds, want, ending>>

(* The pipe is full. *)
WriteWait(p) ==
    /\ Runs(p, "write") /\ ~locked
    /\ todo[p] # <<>> /\ BothOpen /\ Len(file) >= MaxPip
    /\ writew' = TRUE
    /\ IUNLOCK
    /\ chan' = [Unlocked(chan) EXCEPT ![p] = "room"] /\ cpu' = NoProc
    /\ out' = None
    /\ UNCHANGED <<file, offset, lost, count, readw, holds, pc, want, todo, ucount, ending>>

(* Mutant of Chunk: all that is left. *)
Chunk_All(p) == Len(todo[p])

Chunk(p) == MinOf(Len(todo[p]), MaxPip)

(* writei sleeps for the blocks with the lock held. *)
WriteStart(p) ==
    /\ Runs(p, "write") /\ ~locked
    /\ todo[p] # <<>> /\ BothOpen /\ Len(file) < MaxPip
    /\ locked' = TRUE
    /\ Yield(p, "writing")
    /\ out' = None
    /\ UNCHANGED <<file, offset, lost, count, wanted, readw, writew, holds, want, todo, ucount, ending, chan>>

(* Mutant of WriteDone: does not look at IREAD. *)
WriteDone_NoWake(p) ==
    /\ Runs(p, "writing")
    /\ LET n == Chunk(p) IN
       /\ file' = file \o SubSeq(todo[p], 1, n)
       /\ lost' = lost \ {Block[o] : o \in Len(file)..(Len(file) + n - 1)}
       /\ todo' = [todo EXCEPT ![p] = SubSeq(@, n + 1, Len(@))]
    /\ ucount' = [ucount EXCEPT ![p] = 0]
    /\ IUNLOCK
    /\ chan' = Unlocked(chan)
    /\ Goto(p, "write")
    /\ out' = None
    /\ UNCHANGED <<offset, count, readw, writew, holds, want, ending>>

(* The data are in, with bdwrite, and waiting readers are woken. *)
WriteDone(p) ==
    /\ Runs(p, "writing")
    /\ LET n == Chunk(p) IN
       /\ file' = file \o SubSeq(todo[p], 1, n)
       /\ lost' = lost \ {Block[o] : o \in Len(file)..(Len(file) + n - 1)}
       /\ todo' = [todo EXCEPT ![p] = SubSeq(@, n + 1, Len(@))]
    /\ ucount' = [ucount EXCEPT ![p] = 0]
    /\ IUNLOCK
    /\ readw' = FALSE
    /\ chan' = IF readw THEN Woken(Unlocked(chan), {"data"}) ELSE Unlocked(chan)
    /\ Goto(p, "write")
    /\ out' = None
    /\ UNCHANGED <<offset, count, writew, holds, want, ending>>

-----------------------------------------------------------------------------
(* Closing, and what others do to the inode *)

(* closef: only the last close of an end gets to ino_close. *)
Close(p) ==
    /\ Runs(p, "user")
    /\ \E e \in holds[p] :
          \/ /\ Holders(e) # {p}
             /\ holds' = [holds EXCEPT ![p] = @ \ {e}]
             /\ UNCHANGED <<pc, cpu, ending>>
          \/ /\ Holders(e) = {p}
             /\ ending' = [ending EXCEPT ![p] = e]
             /\ Goto(p, "close")
             /\ UNCHANGED holds
    /\ out' = None
    /\ UNCHANGED <<inode, want, todo, ucount, chan>>

(* ino_close: wakes both sides; iput and irele drop the reference, and the *)
(* last one sleeps in itrunc with the lock held.                           *)
CloseEnd(p) ==
    /\ Runs(p, "close") /\ ~locked
    /\ holds' = [holds EXCEPT ![p] = @ \ {ending[p]}]
    /\ readw' = FALSE /\ writew' = FALSE
    /\ chan' = Woken(Unlocked(chan), {"room", "data"})
    /\ IF count = 1
       THEN locked' = TRUE /\ wanted' = FALSE /\ Yield(p, "trunc") /\ UNCHANGED count
       ELSE IUNLOCK /\ Yield(p, "user") /\ count' = count - 1
    /\ out' = None
    /\ UNCHANGED <<file, offset, lost, want, todo, ucount, ending>>

(* The inode is free. *)
Gone(p) ==
    /\ Runs(p, "trunc")
    /\ file' = <<>> /\ offset' = 0 /\ lost' = {} /\ count' = 0
    /\ IUNLOCK
    /\ chan' = Unlocked(chan)
    /\ Yield(p, "user")
    /\ out' = None
    /\ UNCHANGED <<readw, writew, holds, want, todo, ucount, ending>>

(* Mutant of Sync: counts itself as a user, but takes no lock. *)
Sync_NoLock(p) ==
    /\ Runs(p, "user") /\ \A q \in Proc : pc[q] # "sync"
    /\ ~locked /\ count # 0
    /\ count' = count + 1
    /\ Yield(p, "sync")
    /\ out' = None
    /\ UNCHANGED <<file, offset, lost, locked, wanted, readw, writew, holds, want, todo, ucount, ending, chan>>

(* update: one at a time, passes a locked inode by, and refers to the      *)
(* inode while iupdat sleeps.                                              *)
Sync(p) ==
    /\ Runs(p, "user") /\ \A q \in Proc : pc[q] # "sync"
    /\ ~locked /\ count # 0
    /\ locked' = TRUE /\ count' = count + 1
    /\ Yield(p, "sync")
    /\ out' = None
    /\ UNCHANGED <<file, offset, lost, wanted, readw, writew, holds, want, todo, ucount, ending, chan>>

Synced(p) ==
    /\ Runs(p, "sync")
    /\ IUNLOCK
    /\ chan' = Unlocked(chan)
    /\ count' = count - 1
    /\ Yield(p, "user")
    /\ out' = None
    /\ UNCHANGED <<file, offset, lost, readw, writew, holds, want, todo, ucount, ending>>

(* A signal ends the sleep of p: sleep jumps to rwuio, which restarts the  *)
(* call when u_count is the whole count, and returns the rest of it as     *)
(* done when not.                                                          *)
Signal(p) ==
    /\ chan[p] \in {"data", "room"}
    /\ cpu = NoProc
    /\ chan' = [chan EXCEPT ![p] = "none"]
    /\ Yield(p, "user")
    /\ want' = [want EXCEPT ![p] = 0]
    /\ todo' = [todo EXCEPT ![p] = <<>>]
    /\ ucount' = [ucount EXCEPT ![p] = 0]
    /\ out' = IF pc[p] = "write" THEN <<"wrote", p>> ELSE None
    /\ UNCHANGED <<inode, holds, ending>>

(* getnewbuf takes the buffer of a block without writing it. *)
Evict ==
    /\ \E b \in lost :
          /\ file' = [i \in DOMAIN file |-> IF Block[i - 1] = b THEN Junk ELSE file[i]]
          /\ lost' = lost \ {b}
    /\ cpu = NoProc
    /\ out' = None
    /\ UNCHANGED <<offset, count, locked, wanted, readw, writew, holds, calls>>

-----------------------------------------------------------------------------
Step(p) == \/ ReadWait(p) \/ ReadEnd(p) \/ ReadStart(p) \/ ReadDone(p)
           \/ WriteEnd(p) \/ WriteWait(p) \/ WriteStart(p) \/ WriteDone(p)
           \/ CloseEnd(p) \/ Gone(p) \/ Synced(p)

Next == \/ \E p \in Proc : \/ Create(p) \/ Read(p) \/ Write(p) \/ Close(p) \/ Sync(p)
                           \/ WaitLock(p) \/ Step(p) \/ Signal(p)
        \/ \E p, q \in Proc : Fork(p, q)
        \/ Evict

Spec == Init /\ [][Next]_vars

(* Transfers end, and a process that is ready inside the kernel is run: a  *)
(* system call ends in swtch when somebody was woken (runrun), so nobody   *)
(* takes the lock from under a woken process again and again.              *)
Fairness == \A p \in Proc : SF_vars(Step(p)) /\ WF_vars(WaitLock(p))

FairSpec == Spec /\ Fairness

-----------------------------------------------------------------------------
(* Properties *)

(* The variables keep their types, and the file stays below twice the size *)
(* at which writers wait ("roughly the max size of the file").             *)
TypeOK ==
    /\ file \in Seq(Val \cup {Junk}) /\ Len(file) < 2 * MaxPip
    /\ offset \in 0..Len(file) /\ (file # <<>> => offset < Len(file))
    /\ lost \subseteq {Block[o] : o \in DOMAIN Block}
    /\ count \in 0..3
    /\ locked \in BOOLEAN /\ wanted \in BOOLEAN /\ readw \in BOOLEAN /\ writew \in BOOLEAN
    /\ holds \in [Proc -> SUBSET End]
    /\ pc \in [Proc -> Location]
    /\ want \in [Proc -> Nat]
    /\ todo \in [Proc -> Seq(Val)]
    /\ ucount \in [Proc -> Nat]
    /\ ending \in [Proc -> End]
    /\ chan \in [Proc -> {"none", "lock", "data", "room"}]
    /\ cpu \in Proc \cup {NoProc}

(* Whoever finds the inode unlocked finds i_count the number of ends that  *)
(* are open, though update and the process that frees the inode refer to   *)
(* it too: 2 means that there is somebody at the other end.                *)
EndsCounted == ~locked => count = Cardinality({e \in End : Holders(e) # {}})

(* Whoever sleeps has a wakeup to come: for the lock when it is released,  *)
(* for data when there are some or when the write end is closed, for room  *)
(* when the pipe is cut or the read end closed.                            *)
NoLostWakeup ==
    \A p \in Proc :
        /\ chan[p] = "lock" => locked /\ wanted
        /\ chan[p] = "data" => readw /\ file = <<>> /\ Holders("w") # {}
        /\ chan[p] = "room" => writew /\ Len(file) >= MaxPip /\ Holders("r") # {}

(* A pipe is a first-in-first-out queue of what was written and not read   *)
(* yet, also when blocks that were read lose their buffers.                *)
F == INSTANCE Fifo WITH queue <- SubSeq(file, offset + 1, Len(file))

FifoSpec == F!Spec

(* A reader returns, unless the pipe is empty and somebody may still write *)
(* to it; a writer returns, unless it is full and somebody may still read. *)
Returns ==
    \A p \in Proc :
        /\ pc[p] = "read" ~> (pc[p] = "user" \/ (file = <<>> /\ Holders("w") # {}))
        /\ pc[p] = "write" ~> (pc[p] = "user" \/ (Len(file) >= MaxPip /\ Holders("r") # {}))

(* Whoever may be interrupted has u_count right, the bytes remaining for   *)
(* I/O (h/user.h), from which rwuio computes what write returns.           *)
Remaining == \A p \in Proc : chan[p] = "room" => ucount[p] = Len(todo[p])

=============================================================================

----------------------------- MODULE InodeProofs -----------------------------
(***************************************************************************)
(* Proofs about Inode for any file system and any processes: ILOCKED is a  *)
(* lock, i_count counts, no wakeup is lost, fs_tinode is the number of     *)
(* free inodes, and Inode implements Files.                                *)
(*                                                                         *)
(* The inductive invariant IInv adds to these where a call can be          *)
(* (ControlOf) and what it knows of its inode since before it slept        *)
(* (Knows), that directories are locked (OneSearch), and how the copies of *)
(* an inode agree (Copies).  A step is one of three kinds: it leaves the   *)
(* inode table alone (QuietStep), it works on the one inode it holds or    *)
(* takes (HolderStep), or it gives away the entry of an unreferenced inode *)
(* (RecycleStep).  There is one lemma for each action of the second kind.  *)
(***************************************************************************)
EXTENDS Inode, SeqFacts

(* The types, without what depends on the count of free inodes. *)
Typed ==
    /\ disk \in [Ino -> Dinode] /\ core \in [Ino -> Core]
    /\ cached \subseteq Ino /\ locked \subseteq Ino /\ wanted \subseteq Ino
    /\ count \in [Ino -> Nat]
    /\ named \subseteq Ino
    /\ inodes \in Seq(Ino)
    /\ ilock \in BOOLEAN /\ lasti \in 1..Blocks /\ nbehind \in 0..Behind
    /\ pc \in [Proc -> Where]
    /\ op \in [Proc -> {"none", "create", "retry", "open", "unlink", "close", "sync"}]
    /\ ip \in [Proc -> Ino \cup {NoIno}] /\ open \in [Proc -> SUBSET Ino]
    /\ at \in [Proc -> Ino] /\ first \in [Proc -> BOOLEAN]
    /\ chan \in [Proc -> Ino \cup {NoIno, ILock}] /\ cpu \in Proc \cup {NoProc}

Holding == {"iread", "got", "made", "enter", "created", "remove", "sync", "iput", "itrunc", "iupdat"}

Searches(q) == op[q] \in {"open", "unlink"}

(* Where a process can be, in which call, and what it knows of its inode. *)
ControlOf(p) ==
    /\ pc[p] \in Holding \cup {"iget", "ilock"} => ip[p] \in Ino
    /\ pc[p] = "ilock" => op[p] = "close" /\ ip[p] \in open[p]
    /\ pc[p] \in {"iget", "iread", "got"} => op[p] \in {"create", "open", "unlink"}
    /\ pc[p] \in {"ialloc", "loop", "scan", "made", "enter", "created"} => op[p] = "create"
    /\ pc[p] = "remove" => op[p] = "unlink"
    /\ op[p] = "open" \/ pc[p] = "created" => open[p] = {}
    /\ Searches(p) /\ pc[p] \in {"iget", "iread", "got", "remove"} => ip[p] \in named
    /\ pc[p] \in {"itrunc", "iupdat"} => count[ip[p]] = 1

Control == \A p \in Proc : ControlOf(p)

(* The lock of a directory admits one search for a name at a time. *)
OneSearch == \A p, q \in Proc : Searches(p) /\ Searches(q) /\ ip[p] = ip[q] => p = q

Holders(i) == {p \in Proc : Holds(p, i)}
Openers(i) == {p \in Proc : i \in open[p]}

(* The lock and the reference count of an inode. *)
LockOf(i) ==
    /\ count[i] = Cardinality(Holders(i)) + Cardinality(Openers(i))
    /\ \A p, q \in Proc : Holds(p, i) /\ Holds(q, i) => p = q
    /\ i \in locked <=> \E p \in Proc : Holds(p, i)
    /\ count[i] > 0 => i \in cached
    /\ i \in wanted => i \in locked

Locks == \A i \in Ino : LockOf(i)

(* The copy in core has been read. *)
Loaded(i) == i \in cached /\ \A p \in Proc : ~(pc[p] = "iread" /\ ip[p] = i)

(* The inode as the kernel knows it. *)
Cur(i) == IF Loaded(i) THEN Clean(core[i]) ELSE disk[i]

(* A named inode has its one link, one with a link is in use, the disk has *)
(* a clean copy, and nobody forgets a copy that is not.                    *)
CopiesOf(i) ==
    /\ i \in named => Cur(i).nlink = 1
    /\ Cur(i).nlink = 1 => Cur(i).mode = TRUE
    /\ Loaded(i) /\ core[i].dirty = FALSE => disk[i] = Clean(core[i])
    /\ i \in cached /\ count[i] = 0 => core[i].dirty = FALSE

Copies == \A i \in Ino : CopiesOf(i)

(* What p relies on while it sleeps with its inode, and of its open files. *)
Knows(p) ==
    /\ pc[p] \in {"made", "enter"} => core[ip[p]].nlink = 1 /\ ip[p] \notin named
    /\ pc[p] \in {"made", "enter", "created", "sync", "iput", "itrunc"} => core[ip[p]].mode = TRUE
    /\ pc[p] = "created" => ip[p] \in named
    /\ pc[p] = "itrunc" => core[ip[p]].nlink = 0

FoundBy(p) == Knows(p) /\ \A i \in open[p] : Cur(i).mode = TRUE

Found_ == \A p \in Proc : FoundBy(p)

IInv == Typed /\ Control /\ OneSearch /\ Locks /\ NoLostWakeup /\ Copies /\ Found_ /\ FreeCount

-----------------------------------------------------------------------------
(* Inodes and counting *)

LEMMA InodesFinite == IsFiniteSet(Ino) /\ Cardinality(Ino) \in Nat
<1>1. IsFiniteSet(1..Blocks) /\ IsFiniteSet(1..INOPB)
  BY FS_Interval, ListAssumption
<1> QED BY <1>1, FS_Product, FS_CardinalityType DEF Ino

LEMMA UsedIsCur == ASSUME Typed PROVE Used = {i \in Ino : Cur(i).mode = TRUE}
<1>1. \A i \in Ino : disk[i].mode \in BOOLEAN /\ core[i].mode \in BOOLEAN
  BY DEF Typed, Dinode, Core
<1>2. \A i \in Ino : Cur(i).mode = IF Loaded(i) THEN core[i].mode ELSE disk[i].mode
  BY DEF Cur, Clean
<1>3. \A i \in Ino : (IF Loaded(i) THEN core[i].mode ELSE disk[i].mode) <=> (Cur(i).mode = TRUE)
  BY <1>1, <1>2
<1> QED BY <1>3 DEF Used, Loaded

-----------------------------------------------------------------------------
(* Types *)

LEMMA BlockStarts == ASSUME NEW b \in 1..Blocks PROVE BlockStart(b) \in Ino
<1>1. 1 \in 1..INOPB
  BY ListAssumption
<1> QED BY <1>1 DEF BlockStart, Ino

LEMMA NextIno ==
    ASSUME NEW i \in Ino, i # LastIno
    PROVE  /\ EndsBlock(i) => BlockStart(BlockOf(i) + 1) \in Ino
           /\ ~EndsBlock(i) => <<BlockOf(i), i[2] + 1>> \in Ino
<1>1. PICK b \in 1..Blocks, k \in 1..INOPB : i = <<b, k>>
  BY DEF Ino
<1>2. i[1] = b /\ i[2] = k
  BY <1>1
<1>3. Blocks \in Nat /\ INOPB \in Nat
  BY ListAssumption
<1>4. CASE k = INOPB
  <2>1. b # Blocks
    BY <1>1, <1>4 DEF LastIno
  <2>2. b + 1 \in 1..Blocks
    BY <2>1, <1>3
  <2> QED BY <2>2, <1>2, <1>4, BlockStarts DEF EndsBlock, BlockOf
<1>5. CASE k # INOPB
  <2>1. k + 1 \in 1..INOPB
    BY <1>5, <1>3
  <2> QED BY <2>1, <1>2, <1>5 DEF EndsBlock, BlockOf, Ino
<1> QED BY <1>4, <1>5

LEMMA PopType == ASSUME NEW s \in Seq(Ino), s # <<>> PROVE Last(s) \in Ino /\ Front(s) \in Seq(Ino)
<1>1. Len(s) \in Nat \ {0}
  OBVIOUS
<1> QED BY <1>1 DEF Last, Front

LEMMA FoundType == ASSUME Typed, NEW i \in Ino PROVE Found(i) \in Seq(Ino)
BY DEF Typed, Found

(* The parts of Typed that every step treats alike. *)
LEMMA CallsTyped ==
    ASSUME Typed, NEW p \in Proc, NEW s \in Where, NEW c \in Ino \cup {ILock}
    PROVE  /\ Goto(p, s) \/ Yield(p, s) => pc' \in [Proc -> Where] /\ cpu' \in Proc \cup {NoProc}
           /\ Wakeup(c) \/ SleepOn(p, c) => chan' \in [Proc -> Ino \cup {NoIno, ILock}]
BY DEF Typed, Goto, Yield, Wakeup, SleepOn

LEMMA FinishTyped ==
    ASSUME Typed, NEW p \in Proc, Finish(p) \/ Return(p)
    PROVE  /\ pc' \in [Proc -> Where] /\ cpu' \in Proc \cup {NoProc}
           /\ op' \in [Proc -> {"none", "create", "retry", "open", "unlink", "close", "sync"}]
           /\ ip' \in [Proc -> Ino \cup {NoIno}]
<1>1. CASE Return(p) BY <1>1 DEF Return, Yield, Typed, Where
<1>2. CASE Finish(p) /\ op[p] = "retry" BY ZenonT(60), <1>2 DEF Finish, Goto, Typed, Where
<1> QED BY <1>1, <1>2 DEF Finish

LEMMA UnwantTyped ==
    ASSUME Typed, NEW i \in Ino, Unwant(i)
    PROVE  wanted' \subseteq Ino /\ chan' \in [Proc -> Ino \cup {NoIno, ILock}]
BY DEF Typed, Unwant, Wakeup

(* What a call has when it holds its inode. *)
LEMMA Held ==
    ASSUME IInv, NEW p \in Proc, pc[p] \in Holding
    PROVE  /\ ip[p] \in Ino /\ Holds(p, ip[p])
           /\ count[ip[p]] \in Nat \ {0} /\ ip[p] \in cached /\ ip[p] \in locked
           /\ \A q \in Proc \ {p} : ~Holds(q, ip[p])
           /\ Loaded(ip[p]) <=> pc[p] # "iread"
           /\ pc[p] # "iread" => Cur(ip[p]) = Clean(core[ip[p]])
           /\ count[ip[p]] = 1 => \A q \in Proc : ip[p] \notin open[q]
<1> DEFINE i == ip[p]
<1>1. i \in Ino /\ Holds(p, i)
  BY DEF IInv, Control, ControlOf, Holds, Holding
<1>2. LockOf(i)
  BY <1>1 DEF IInv, Locks
<1>3. IsFiniteSet(Holders(i)) /\ IsFiniteSet(Openers(i))
  BY ProcAssumption, FS_Subset DEF Holders, Openers
<1>4. Cardinality(Holders(i)) \in Nat \ {0} /\ Cardinality(Openers(i)) \in Nat
  <2>1. Holders(i) # {}
    BY <1>1 DEF Holders
  <2> QED BY <1>3, <2>1, FS_CardinalityType, FS_EmptySet
<1>5. count[i] = Cardinality(Holders(i)) + Cardinality(Openers(i))
  BY <1>2 DEF LockOf
<1>6. count[i] \in Nat \ {0}
  BY <1>4, <1>5
<1>7. i \in cached /\ i \in locked /\ \A q \in Proc \ {p} : ~Holds(q, i)
  BY <1>1, <1>2, <1>6 DEF LockOf
<1>8. Loaded(i) <=> pc[p] # "iread"
  BY <1>7 DEF Loaded, Holds
<1>9. ASSUME count[i] = 1 PROVE \A q \in Proc : i \notin open[q]
  <2>1. Cardinality(Openers(i)) = 0
    BY <1>4, <1>5, <1>9
  <2>2. Openers(i) = {}
    BY <2>1, <1>3, FS_EmptySet
  <2> QED BY <2>2 DEF Openers
<1> HIDE DEF i
<1>10. pc[p] # "iread" => Cur(i) = Clean(core[i])
  BY <1>8 DEF Cur
<1> QED BY <1>1, <1>6, <1>7, <1>8, <1>9, <1>10 DEF i

(* The file that unlink has found has its name and its link. *)
LEMMA UnlinkHas ==
    ASSUME IInv, NEW p \in Proc, pc[p] = "remove"
    PROVE  ip[p] \in named /\ core[ip[p]].nlink = 1 /\ core[ip[p]].mode = TRUE /\ Searches(p)
<1>1. ip[p] \in Ino /\ Cur(ip[p]) = Clean(core[ip[p]])
  BY Held DEF Holding
<1>2. ip[p] \in named /\ Searches(p)
  BY DEF IInv, Control, ControlOf, Searches
<1>3. CopiesOf(ip[p])
  BY <1>1 DEF IInv, Copies
<1> QED BY <1>1, <1>2, <1>3 DEF CopiesOf, Clean

LEMMA CoreTypes ==
    ASSUME core \in [Ino -> Core], NEW i \in Ino, NEW n \in 0..1
    PROVE  /\ [core EXCEPT ![i].nlink = n, ![i].dirty = TRUE] \in [Ino -> Core]
           /\ [core EXCEPT ![i].mode = FALSE, ![i].dirty = TRUE] \in [Ino -> Core]
           /\ [core EXCEPT ![i].dirty = FALSE] \in [Ino -> Core]
<1>1. core[i] \in Core
  OBVIOUS
<1>2. [core[i] EXCEPT !.nlink = n, !.dirty = TRUE] \in Core
  BY <1>1 DEF Core
<1>3. [core[i] EXCEPT !.mode = FALSE, !.dirty = TRUE] \in Core
  BY <1>1 DEF Core
<1>4. [core[i] EXCEPT !.dirty = FALSE] \in Core
  BY ZenonT(60), <1>1 DEF Core
<1> QED BY <1>2, <1>3, <1>4

LEMMA TypedStep == ASSUME IInv, NEW p \in Proc, Step(p) PROVE Typed'
<1> USE DEF Typed, Where, Goto, Yield, Return, SleepOn, Wakeup, IUNLOCK, Clean
<1>0. Typed /\ (pc[p] \in Holding \cup {"iget", "ilock"} => ip[p] \in Ino)
  BY DEF IInv, Control, ControlOf
<1>1. CASE Start(p)
  <2>1. pc' \in [Proc -> Where] /\ cpu' \in Proc \cup {NoProc}
    BY <1>0, <1>1 DEF Start, Runs
  <2>2. ip' \in [Proc -> Ino \cup {NoIno}]
    <3>1. ip' = ip \/ \E i \in Ino : ip' = [ip EXCEPT ![p] = i]
      BY <1>0, <1>1 DEF Start
    <3> QED BY <1>0, <3>1
  <2>3. op' \in [Proc -> {"none", "create", "retry", "open", "unlink", "close", "sync"}]
    BY <1>0, <1>1 DEF Start
  <2> QED BY <1>0, <1>1, <2>1, <2>2, <2>3 DEF Start, table, super
<1>2. CASE WaitLock(p) BY <1>0, <1>2 DEF WaitLock, super, Runs
<1>3. CASE IgetHit(p) BY <1>0, <1>3 DEF IgetHit, super, Runs
<1>4. CASE IgetMiss(p) BY <1>0, <1>4 DEF IgetMiss, super, Runs
<1>5. CASE IgetRead(p) BY <1>0, <1>5 DEF IgetRead, super, Runs, Holding, Dinode, Core
<1>6. CASE IgetFull(p) BY <1>0, <1>6 DEF IgetFull, table, super, Runs
<1>7. CASE Close(p) BY <1>0, <1>7 DEF Close, super, Runs
<1>8. CASE WaitScan(p) BY <1>0, <1>8 DEF WaitScan, table, super, Runs
<1>9. CASE Ialloc(p) BY <1>0, <1>9 DEF Ialloc, table, super, Runs
<1>10. CASE Pop(p) BY <1>0, <1>10, PopType DEF Pop, table, Runs
<1>11. CASE StartScan(p) BY <1>0, <1>11, BlockStarts, ListAssumption DEF StartScan, table, Runs
<1>12. CASE Scan(p)
  <2>0. 1 \in 1..Blocks
    BY ListAssumption
  <2>1. at[p] \in Ino /\ BlockStart(1) \in Ino
    BY <1>0, <2>0, BlockStarts
  <2>2. at' \in [Proc -> Ino]
    BY <1>0, <1>12, <2>1, NextIno DEF Scan
  <2>3. nbehind' \in 0..Behind /\ first' \in [Proc -> BOOLEAN]
    BY <1>0, <1>12, ListAssumption DEF Scan
  <2>4. inodes' \in Seq(Ino)
    BY <1>0, <1>12, <2>1, FoundType DEF Scan
  <2> QED BY ZenonT(60), <1>0, <1>12, <2>2, <2>3, <2>4 DEF Scan, table
<1>13. CASE ScanEnds(p)
  <2>0. 1 \in 1..Blocks
    BY ListAssumption
  <2>1. at[p] \in Ino /\ BlockStart(1) \in Ino
    BY <1>0, <2>0, BlockStarts
  <2>2. BlockOf(at[p]) \in 1..Blocks
    BY <2>1 DEF BlockOf, Ino
  <2>3. inodes' \in Seq(Ino) /\ lasti' \in 1..Blocks
    BY <1>0, <1>13, <2>1, <2>2, FoundType DEF ScanEnds
  <2>4. /\ pc' \in [Proc -> Where] /\ cpu' \in Proc \cup {NoProc}
        /\ op' \in [Proc -> {"none", "create", "retry", "open", "unlink", "close", "sync"}]
        /\ ip' \in [Proc -> Ino \cup {NoIno}]
    BY <1>0, <1>13, FinishTyped DEF ScanEnds
  <2> QED BY <1>0, <1>13, <2>1, <2>3, <2>4 DEF ScanEnds, table
<1>14. CASE Make(p) BY <1>0, <1>14 DEF Make, Runs, Holding, Core
<1>15. CASE Retry(p) BY <1>0, <1>15 DEF Retry, table, super, Runs
<1>16. CASE Made(p) BY ZenonT(60), <1>0, <1>16 DEF Made, super, Runs, Holding, Dinode, Core
<1>17. CASE Enter(p)
  <2>1. ip[p] \in Ino
    BY <1>0, <1>17 DEF Enter, Runs, Holding
  <2>2. [core EXCEPT ![ip[p]].nlink = 0, ![ip[p]].dirty = TRUE] \in [Ino -> Core]
    <3>1. 0 \in 0..1 /\ core \in [Ino -> Core]
      BY <1>0
    <3> QED BY <2>1, <3>1, CoreTypes, Zenon
  <2>3. core' \in [Ino -> Core] /\ named' \subseteq Ino
    BY ZenonT(60), <1>0, <1>17, <2>1, <2>2 DEF Enter
  <2> QED BY ZenonT(60), <1>0, <1>17, <2>3 DEF Enter, super, Runs
<1>18. CASE Open(p) BY <1>0, <1>18, FinishTyped, UnwantTyped DEF Open, super, Runs, Holding
<1>19. CASE StartUnlink(p) BY <1>0, <1>19 DEF StartUnlink, table, super, Runs
<1>20. CASE Unlink(p)
  <2>1. ip[p] \in Ino /\ core[ip[p]].nlink = 1
    BY <1>0, <1>20, UnlinkHas DEF Unlink, Runs, Holding
  <2>2. [core EXCEPT ![ip[p]].nlink = core[ip[p]].nlink - 1, ![ip[p]].dirty = TRUE] \in [Ino -> Core]
    <3>1. core[ip[p]].nlink - 1 \in 0..1 /\ core \in [Ino -> Core]
      BY <1>0, <2>1
    <3> QED BY <2>1, <3>1, CoreTypes, Zenon
  <2>3. core' \in [Ino -> Core] /\ named' \subseteq Ino
    BY ZenonT(60), <1>0, <1>20, <2>1, <2>2 DEF Unlink
  <2> QED BY <1>0, <1>20, <2>3 DEF Unlink, super, Runs
<1>21. CASE Sync(p) BY <1>0, <1>21 DEF Sync, super, Runs
<1>22. CASE Synced(p) BY ZenonT(60), <1>0, <1>22 DEF Synced, super, Runs, Holding, Dinode, Core
<1>23. CASE Iput(p)
  <2>1. ip[p] \in Ino /\ count[ip[p]] - 1 \in Nat
    BY <1>0, <1>23 DEF Iput, Runs, Holding
  <2> QED BY ZenonT(60), <1>0, <1>23, <2>1, FinishTyped, UnwantTyped DEF Iput, super
<1>24. CASE IputLast(p) BY <1>0, <1>24, UnwantTyped DEF IputLast, super, Runs, Holding
<1>25. CASE IputClean(p) BY <1>0, <1>25, FinishTyped, UnwantTyped DEF IputClean, super, Runs, Holding
<1>26. CASE Reclaim(p)
  <2>1. ip[p] \in Ino
    BY <1>0, <1>26 DEF Reclaim, Runs, Holding
  <2>2. core' \in [Ino -> Core] /\ disk' \in [Ino -> Dinode]
    BY <1>0, <1>26, <2>1, CoreTypes DEF Reclaim, Dinode, Core
  <2>3. inodes' \in Seq(Ino) /\ nbehind' \in 0..Behind /\ ilock' \in BOOLEAN /\ lasti' \in 1..Blocks
    <3>1. Ifree(ip[p])
      BY <1>26 DEF Reclaim
    <3>2. Behind \in Nat
      BY ListAssumption
    <3>3. inodes' = inodes \/ inodes' = Append(inodes, ip[p])
      BY <3>1 DEF Ifree
    <3>4. nbehind' = nbehind \/ (nbehind < Behind /\ nbehind' = nbehind + 1)
      BY <3>1 DEF Ifree
    <3>5. inodes' \in Seq(Ino)
      <4>1. inodes \in Seq(Ino)
        BY <1>0
      <4> QED BY <2>1, <3>3, <4>1
    <3>6. nbehind' \in 0..Behind
      BY <1>0, <3>2, <3>4
    <3> QED BY <1>0, <3>1, <3>5, <3>6 DEF Ifree
  <2> QED BY <1>0, <1>26, <2>2, <2>3 DEF Reclaim, Runs
<1>27. CASE Release(p)
  BY ZenonT(60), <1>0, <1>27, FinishTyped, UnwantTyped DEF Release, super, Runs, Holding, Dinode, Core
<1> QED BY <1>1, <1>2, <1>3, <1>4, <1>5, <1>6, <1>7, <1>8, <1>9, <1>10, <1>11, <1>12, <1>13, <1>14,
           <1>15, <1>16, <1>17, <1>18, <1>19, <1>20, <1>21, <1>22, <1>23, <1>24, <1>25, <1>26, <1>27 DEF Step

-----------------------------------------------------------------------------
(* The kinds of steps *)

Others(p) == \A q \in Proc \ {p} : /\ pc'[q] = pc[q] /\ op'[q] = op[q]
                                   /\ ip'[q] = ip[q] /\ open'[q] = open[q]

(* p finds the directory of its inode unlocked, or keeps what it has. *)
Alone(p) == Searches(p)' => \A q \in Proc \ {p} : ~(Searches(q) /\ ip[q] = ip'[p])

(* The step of p touches no inode but i, which no other call holds. *)
Only(p, i) ==
    /\ \A q \in Proc \ {p} : ~Holds(q, i)
    /\ \A j \in Ino \ {i} :
          /\ disk'[j] = disk[j] /\ core'[j] = core[j] /\ count'[j] = count[j]
          /\ (j \in cached' <=> j \in cached) /\ (j \in locked' <=> j \in locked)
          /\ (j \in wanted' <=> j \in wanted) /\ (j \in named' <=> j \in named)
          /\ (j \in open'[p] <=> j \in open[p])
          /\ ~Holds(p, j) /\ ~Holds(p, j)'

Bit(b) == IF b THEN 1 ELSE 0

(* What the step does to the lock and the references of i. *)
LockStep(p, i) ==
    /\ count'[i] = count[i] + Bit(Holds(p, i)') - Bit(Holds(p, i))
                            + Bit(i \in open'[p]) - Bit(i \in open[p])
    /\ i \in locked' <=> Holds(p, i)'
    /\ count'[i] > 0 => i \in cached'
    /\ i \in wanted' => i \in locked'
    /\ ilock' = ilock
    /\ \A q \in Proc : chan'[q] \in {chan[q], NoIno}
    /\ \/ i \in locked' /\ (i \in wanted => i \in wanted')
       \/ \A q \in Proc : chan'[q] # i

(* What it does to the file in i. *)
FileStep(p, i) ==
    /\ CopiesOf(i)'
    /\ i \in named => i \in named' \/ (Searches(p) /\ ip[p] = i)
    /\ Cur(i)'.mode = TRUE \/ \A q \in Proc : i \notin open'[q]
    /\ tinode' = tinode + Bit(Cur(i).mode = TRUE) - Bit(Cur(i)'.mode = TRUE)

CallStep(p) == Others(p) /\ Alone(p) /\ ControlOf(p)' /\ Knows(p)'

LEMMA OthersAlone ==
    ASSUME OneSearch, NEW p \in Proc, Others(p), Alone(p)
    PROVE  OneSearch'
BY DEF OneSearch, Others, Alone, Searches

LEMMA LocksKept ==
    ASSUME IInv, NEW p \in Proc, NEW i \in Ino, Typed', Others(p), Only(p, i), LockStep(p, i)
    PROVE  Locks' /\ NoLostWakeup'
<1>1. ASSUME NEW j \in Ino \ {i} PROVE LockOf(j)'
  <2>1. \A q \in Proc : Holds(q, j)' <=> Holds(q, j)
    BY DEF Only, Others, Holds
  <2>2. \A q \in Proc : j \in open'[q] <=> j \in open[q]
    BY DEF Only, Others
  <2>3. Holders(j)' = Holders(j) /\ Openers(j)' = Openers(j)
    BY <2>1, <2>2 DEF Holders, Openers
  <2>4. LockOf(j)
    BY DEF IInv, Locks
  <2> QED BY <2>1, <2>3, <2>4 DEF LockOf, Only
<1>2. LockOf(i)'
  <2>1. \A q \in Proc \ {p} : ~Holds(q, i) /\ ~Holds(q, i)' /\ (i \in open'[q] <=> i \in open[q])
    BY DEF Only, Others, Holds
  <2>2. /\ Cardinality(Holders(i)) \in Nat /\ Cardinality(Holders(i)') \in Nat
        /\ Cardinality(Holders(i)') = Cardinality(Holders(i)) + Bit(Holds(p, i)') - Bit(Holds(p, i))
    <3>1. Holders(i) \in SUBSET Proc /\ Holders(i)' \in SUBSET Proc
      BY DEF Holders
    <3>2. \A q \in Proc \ {p} : q \in Holders(i) <=> q \in Holders(i)'
      BY <2>1 DEF Holders
    <3>3. (p \in Holders(i) <=> Holds(p, i)) /\ (p \in Holders(i)' <=> Holds(p, i)')
      BY DEF Holders
    <3> QED BY <3>1, <3>2, <3>3, CountOne, ProcAssumption DEF Bit
  <2>3. /\ Cardinality(Openers(i)) \in Nat /\ Cardinality(Openers(i)') \in Nat
        /\ Cardinality(Openers(i)') = Cardinality(Openers(i)) + Bit(i \in open'[p]) - Bit(i \in open[p])
    <3>1. Openers(i) \in SUBSET Proc /\ Openers(i)' \in SUBSET Proc
      BY DEF Openers
    <3>2. \A q \in Proc \ {p} : q \in Openers(i) <=> q \in Openers(i)'
      BY <2>1 DEF Openers
    <3>3. (p \in Openers(i) <=> i \in open[p]) /\ (p \in Openers(i)' <=> i \in open'[p])
      BY DEF Openers
    <3> QED BY <3>1, <3>2, <3>3, CountOne, ProcAssumption DEF Bit
  <2>4. count[i] = Cardinality(Holders(i)) + Cardinality(Openers(i))
    BY DEF IInv, Locks, LockOf
  <2>5. count'[i] = Cardinality(Holders(i)') + Cardinality(Openers(i)')
    BY <2>2, <2>3, <2>4 DEF LockStep, Bit
  <2> QED BY <2>1, <2>5 DEF LockOf, LockStep
<1>3. Locks'
  BY <1>1, <1>2 DEF Locks
<1>4. NoLostWakeup'
  <2>1. ASSUME NEW q \in Proc, chan'[q] \in Ino PROVE chan'[q] \in locked' \cap wanted'
    <3>1. chan'[q] = chan[q] /\ chan[q] \in locked \cap wanted
      BY <2>1, ValueAssumption DEF LockStep, IInv, NoLostWakeup
    <3> QED BY <2>1, <3>1 DEF LockStep, Only
  <2>2. ASSUME NEW q \in Proc, chan'[q] = ILock PROVE ilock'
    BY <2>2, ValueAssumption DEF LockStep, IInv, NoLostWakeup
  <2> QED BY <2>1, <2>2 DEF NoLostWakeup
<1> QED BY <1>3, <1>4

LEMMA CurKept ==
    ASSUME NEW p \in Proc, NEW i \in Ino, Others(p), Only(p, i), NEW j \in Ino \ {i}
    PROVE  (Loaded(j)' <=> Loaded(j)) /\ Cur(j)' = Cur(j)
<1>1. Loaded(j)' <=> Loaded(j)
  BY DEF Loaded, Others, Only, Holds
<1> QED BY <1>1 DEF Cur, Only

LEMMA UsedNow ==
    ASSUME Typed, Typed'
    PROVE  /\ Used = {j \in Ino : Cur(j).mode = TRUE}
           /\ Used' = {j \in Ino : Cur(j)'.mode = TRUE}
<1>1. \A j \in Ino : disk'[j].mode \in BOOLEAN /\ core'[j].mode \in BOOLEAN
  BY DEF Typed, Dinode, Core
<1>2. \A j \in Ino : (IF Loaded(j)' THEN core'[j].mode ELSE disk'[j].mode) <=> (Cur(j)'.mode = TRUE)
  BY <1>1 DEF Cur, Clean
<1>3. Used' = {j \in Ino : Cur(j)'.mode = TRUE}
  BY <1>2 DEF Used, Loaded
<1> QED BY <1>3, UsedIsCur

(* Only the file in i can be made or freed. *)
LEMMA UsedStep ==
    ASSUME Typed, NEW p \in Proc, NEW i \in Ino, Typed', Others(p), Only(p, i)
    PROVE  /\ Used \subseteq Ino /\ Used' \subseteq Ino
           /\ \A j \in Ino \ {i} : j \in Used' <=> j \in Used
           /\ i \in Used <=> Cur(i).mode = TRUE
           /\ i \in Used' <=> Cur(i)'.mode = TRUE
           /\ (Cur(i)'.mode = TRUE <=> Cur(i).mode = TRUE) => Used' = Used
           /\ Cur(i)'.mode = TRUE => Used' = Used \cup {i}
           /\ Cur(i)'.mode = FALSE => Used' = Used \ {i}
<1>1. \A j \in Ino \ {i} : Cur(j)' = Cur(j)
  BY CurKept
<1>2. /\ Used = {j \in Ino : Cur(j).mode = TRUE}
      /\ Used' = {j \in Ino : Cur(j)'.mode = TRUE}
  BY UsedNow
<1>3. /\ Used \subseteq Ino /\ Used' \subseteq Ino
      /\ \A j \in Ino \ {i} : j \in Used' <=> j \in Used
      /\ i \in Used <=> Cur(i).mode = TRUE
      /\ i \in Used' <=> Cur(i)'.mode = TRUE
  BY <1>1, <1>2
<1> QED BY <1>3

LEMMA FilesKept ==
    ASSUME IInv, NEW p \in Proc, NEW i \in Ino, Typed', CallStep(p), Only(p, i), FileStep(p, i)
    PROVE  Control' /\ Copies' /\ Found_' /\ FreeCount'
<1>1. \A j \in Ino \ {i} : (Loaded(j)' <=> Loaded(j)) /\ Cur(j)' = Cur(j)
  BY CurKept DEF CallStep
<1>2. Copies'
  <2>1. ASSUME NEW j \in Ino \ {i} PROVE CopiesOf(j)'
    BY <1>1 DEF IInv, Copies, CopiesOf, Only
  <2> QED BY <2>1 DEF Copies, FileStep
<1>3. ASSUME NEW q \in Proc PROVE \A j \in open'[q] : Cur(j)'.mode = TRUE
  <2>1. \A j \in open[q] : Cur(j).mode = TRUE
    BY DEF IInv, Found_, FoundBy
  <2>2. \A j \in Ino \ {i} : j \in open'[q] <=> j \in open[q]
    BY DEF CallStep, Others, Only
  <2> QED BY ZenonT(60), <1>1, <2>1, <2>2 DEF FileStep, Typed
<1>4. ASSUME NEW q \in Proc \ {p} PROVE ControlOf(q)' /\ Knows(q)'
  <2>1. pc'[q] = pc[q] /\ op'[q] = op[q] /\ ip'[q] = ip[q] /\ open'[q] = open[q]
    BY DEF CallStep, Others
  <2>2. ControlOf(q) /\ FoundBy(q)
    BY DEF IInv, Control, Found_
  <2>3. pc[q] \in Holding => ip[q] \in Ino \ {i}
    BY <2>2 DEF ControlOf, Only, Holds, Holding
  <2>4. Searches(q) /\ ip[q] \in named => ip[q] \in named'
    <3>1. CASE ip[q] = i
      BY <3>1 DEF FileStep, IInv, OneSearch
    <3>2. CASE ip[q] # i
      BY <3>2 DEF Only, IInv, Typed
    <3> QED BY <3>1, <3>2
  <2>5. ControlOf(q)'
    BY <2>1, <2>2, <2>3, <2>4 DEF ControlOf, Only, Searches, Holding
  <2>6. Knows(q)'
    BY <2>1, <2>2, <2>3 DEF FoundBy, Knows, Only, Holding
  <2> QED BY <2>5, <2>6
<1>5. FreeCount'
  <2> DEFINE S == Ino \ Used
             T == Ino \ Used'
  <2>1. Typed /\ Others(p)
    BY DEF IInv, CallStep
  <2>2. \A j \in Ino \ {i} : j \in S <=> j \in T
    BY <2>1, UsedStep
  <2>3. (i \in S <=> ~(Cur(i).mode = TRUE)) /\ (i \in T <=> ~(Cur(i)'.mode = TRUE))
    BY <2>1, UsedStep
  <2>4. S \in SUBSET Ino /\ T \in SUBSET Ino
    OBVIOUS
  <2> HIDE DEF S, T
  <2>5. /\ Cardinality(S) \in Nat /\ Cardinality(T) \in Nat
        /\ Cardinality(T) = Cardinality(S) + (IF i \in T THEN 1 ELSE 0) - (IF i \in S THEN 1 ELSE 0)
    BY <2>2, <2>4, CountOne, InodesFinite
  <2>6. tinode = Cardinality(S)
    BY DEF IInv, FreeCount, S
  <2>7. tinode' = Cardinality(T)
    BY <2>3, <2>5, <2>6 DEF FileStep, Bit
  <2> QED BY <2>7 DEF FreeCount, T
<1>6. Control' /\ Found_'
  BY <1>4, <1>3 DEF Control, Found_, FoundBy, CallStep
<1> QED BY <1>2, <1>5, <1>6

LEMMA HolderStep ==
    ASSUME IInv, NEW p \in Proc, NEW i \in Ino, Typed',
           CallStep(p), Only(p, i), LockStep(p, i), FileStep(p, i)
    PROVE  IInv'
BY LocksKept, FilesKept, OthersAlone DEF IInv, CallStep

(* The step of p, which holds no inode, leaves the table alone. *)
Quiet(p) ==
    /\ disk' = disk /\ core' = core /\ cached' = cached /\ locked' = locked
    /\ count' = count /\ named' = named /\ tinode' = tinode /\ open' = open
    /\ wanted \subseteq wanted' /\ wanted' \subseteq locked
    /\ pc[p] \notin Holding /\ pc'[p] \notin Holding

LEMMA QuietStep ==
    ASSUME IInv, NEW p \in Proc, Typed', Others(p), Alone(p), ControlOf(p)', Quiet(p), NoLostWakeup'
    PROVE  IInv' /\ Used' = Used
<1>1. \A q \in Proc, j \in Ino : Holds(q, j)' <=> Holds(q, j)
  <2>1. \A j \in Ino : ~Holds(p, j) /\ ~Holds(p, j)'
    BY DEF Quiet, Holds, Holding
  <2>2. \A q \in Proc \ {p}, j \in Ino : Holds(q, j)' <=> Holds(q, j)
    BY DEF Others, Holds
  <2> QED BY <2>1, <2>2
<1>2. Locks'
  <2> SUFFICES ASSUME NEW j \in Ino PROVE LockOf(j)'
    BY DEF Locks
  <2>1. Holders(j)' = Holders(j) /\ Openers(j)' = Openers(j)
    BY <1>1 DEF Holders, Openers, Quiet
  <2>2. LockOf(j)
    BY DEF IInv, Locks
  <2> QED BY <1>1, <2>1, <2>2 DEF LockOf, Quiet
<1>3. \A j \in Ino : (Loaded(j)' <=> Loaded(j)) /\ Cur(j)' = Cur(j)
  <2>1. \A q \in Proc, j \in Ino : (pc'[q] = "iread" /\ ip'[q] = j) <=> (pc[q] = "iread" /\ ip[q] = j)
    BY DEF Others, Quiet, Holding
  <2>2. \A j \in Ino : Loaded(j)' <=> Loaded(j)
    BY <2>1 DEF Loaded, Quiet
  <2> QED BY <2>2 DEF Cur, Quiet
<1>4. Copies'
  BY <1>3 DEF IInv, Copies, CopiesOf, Quiet
<1>5. ASSUME NEW q \in Proc PROVE FoundBy(q)'
  <2>1. \A j \in open'[q] : Cur(j)'.mode = TRUE
    BY <1>3 DEF IInv, Typed, Found_, FoundBy, Quiet
  <2>2. CASE q = p
    BY <2>1, <2>2 DEF FoundBy, Knows, Quiet, Holding
  <2>3. CASE q # p
    BY <2>1, <2>3 DEF IInv, Found_, FoundBy, Knows, Quiet, Others
  <2> QED BY <2>2, <2>3
<1>6. Control'
  <2>1. ASSUME NEW q \in Proc \ {p} PROVE ControlOf(q)'
    BY DEF IInv, Control, ControlOf, Searches, Quiet, Others
  <2> QED BY <2>1 DEF Control
<1>7. Used' = Used
  BY <1>3 DEF Used, Loaded, Quiet
<1>8. FreeCount'
  BY <1>7 DEF IInv, FreeCount, Quiet
<1> QED BY <1>8, <1>2, <1>4, <1>5, <1>6, <1>7, OthersAlone DEF IInv, Found_

-----------------------------------------------------------------------------
(* The steps that leave the table alone *)

LEMMA QuietActions ==
    ASSUME IInv, NEW p \in Proc, Typed',
           \/ Start(p) \/ WaitLock(p) \/ IgetFull(p) \/ WaitScan(p) \/ Ialloc(p)
           \/ Pop(p) \/ StartScan(p) \/ Scan(p) \/ ScanEnds(p)
    PROVE  IInv' /\ Used' = Used
<1> USE DEF Goto, Yield, Typed, Runs, table, super
<1>0. Typed /\ ControlOf(p) /\ wanted \subseteq locked /\ NoLostWakeup /\ OneSearch
  BY DEF IInv, Control, Locks, LockOf
<1>1. CASE Start(p)
  <2>1. Others(p) /\ Quiet(p)
    BY <1>0, <1>1 DEF Start, Others, Quiet, Holding, DirFree, MayOpen
  <2>2. ControlOf(p)'
    BY <1>0, <1>1 DEF Start, ControlOf, Holding, Searches, DirFree, MayOpen
  <2>3. Alone(p)
    BY <1>0, <1>1 DEF Start, Alone, Searches, OneSearch, DirFree, MayOpen
  <2>4. NoLostWakeup'
    BY <1>0, <1>1 DEF Start, NoLostWakeup, DirFree, MayOpen
  <2> QED BY <2>1, <2>2, <2>3, <2>4, QuietStep
<1>2. CASE WaitLock(p)
  <2>1. Others(p) /\ Quiet(p)
    BY <1>0, <1>2 DEF WaitLock, Others, Quiet, Holding, SleepOn
  <2>2. ControlOf(p)'
    BY <1>0, <1>2 DEF WaitLock, ControlOf, Holding, Searches, SleepOn
  <2>3. Alone(p)
    BY <1>0, <1>2 DEF WaitLock, Alone, Searches, OneSearch, SleepOn
  <2>4. NoLostWakeup'
    BY <1>0, <1>2, ValueAssumption DEF WaitLock, NoLostWakeup, SleepOn
  <2> QED BY <2>1, <2>2, <2>3, <2>4, QuietStep
<1>3. CASE IgetFull(p)
  <2>1. Others(p) /\ Quiet(p)
    BY <1>0, <1>3 DEF IgetFull, Others, Quiet, Holding, Return
  <2>2. ControlOf(p)'
    BY <1>0, <1>3 DEF IgetFull, ControlOf, Holding, Searches, Return
  <2>3. Alone(p)
    BY <1>0, <1>3 DEF IgetFull, Alone, Searches, OneSearch, Return
  <2>4. NoLostWakeup'
    BY <1>0, <1>3 DEF IgetFull, NoLostWakeup, Return
  <2> QED BY <2>1, <2>2, <2>3, <2>4, QuietStep
<1>4. CASE WaitScan(p)
  <2>1. Others(p) /\ Quiet(p)
    BY <1>0, <1>4 DEF WaitScan, Others, Quiet, Holding, SleepOn
  <2>2. ControlOf(p)'
    BY <1>0, <1>4 DEF WaitScan, ControlOf, Holding, Searches, SleepOn
  <2>3. Alone(p)
    BY <1>0, <1>4 DEF WaitScan, Alone, Searches, OneSearch, SleepOn
  <2>4. NoLostWakeup'
    BY <1>0, <1>4, ValueAssumption DEF WaitScan, NoLostWakeup, SleepOn
  <2> QED BY <2>1, <2>2, <2>3, <2>4, QuietStep
<1>5. CASE Ialloc(p)
  <2>1. Others(p) /\ Quiet(p)
    BY <1>0, <1>5 DEF Ialloc, Others, Quiet, Holding
  <2>2. ControlOf(p)'
    BY <1>0, <1>5 DEF Ialloc, ControlOf, Holding, Searches
  <2>3. Alone(p)
    BY <1>0, <1>5 DEF Ialloc, Alone, Searches, OneSearch
  <2>4. NoLostWakeup'
    BY <1>0, <1>5 DEF Ialloc, NoLostWakeup
  <2> QED BY <2>1, <2>2, <2>3, <2>4, QuietStep
<1>6. CASE Pop(p)
  <2>1. Others(p) /\ Quiet(p)
    BY <1>0, <1>6 DEF Pop, Others, Quiet, Holding
  <2>2. ControlOf(p)'
    BY <1>0, <1>6, PopType DEF Pop, ControlOf, Holding, Searches
  <2>3. Alone(p)
    BY <1>0, <1>6 DEF Pop, Alone, Searches, ControlOf
  <2>4. NoLostWakeup'
    BY <1>0, <1>6 DEF Pop, NoLostWakeup
  <2> QED BY <2>1, <2>2, <2>3, <2>4, QuietStep
<1>7. CASE StartScan(p)
  <2>1. Others(p) /\ Quiet(p)
    BY <1>0, <1>7 DEF StartScan, Others, Quiet, Holding
  <2>2. ControlOf(p)'
    BY <1>0, <1>7 DEF StartScan, ControlOf, Holding, Searches
  <2>3. Alone(p)
    BY <1>0, <1>7 DEF StartScan, Alone, Searches, OneSearch
  <2>4. NoLostWakeup'
    BY <1>0, <1>7 DEF StartScan, NoLostWakeup
  <2> QED BY <2>1, <2>2, <2>3, <2>4, QuietStep
<1>8. CASE Scan(p)
  <2>1. Others(p) /\ Quiet(p)
    BY <1>0, <1>8 DEF Scan, Others, Quiet, Holding
  <2>2. ControlOf(p)'
    BY <1>0, <1>8 DEF Scan, ControlOf, Holding, Searches
  <2>3. Alone(p)
    BY <1>0, <1>8 DEF Scan, Alone, Searches, OneSearch
  <2>4. NoLostWakeup'
    BY <1>0, <1>8 DEF Scan, NoLostWakeup
  <2> QED BY <2>1, <2>2, <2>3, <2>4, QuietStep
<1>9. CASE ScanEnds(p)
  <2>1. Others(p) /\ Quiet(p)
    BY <1>0, <1>9 DEF ScanEnds, Others, Quiet, Holding, Return, Wakeup
  <2>2. ControlOf(p)'
    BY <1>0, <1>9 DEF ScanEnds, ControlOf, Holding, Searches, Return, Wakeup
  <2>3. Alone(p)
    BY <1>0, <1>9 DEF ScanEnds, Alone, Searches, OneSearch, Return, Wakeup
  <2>4. NoLostWakeup'
    BY <1>0, <1>9, ValueAssumption DEF ScanEnds, NoLostWakeup, Return, Wakeup
  <2> QED BY <2>1, <2>2, <2>3, <2>4, QuietStep
<1> QED BY <1>1, <1>2, <1>3, <1>4, <1>5, <1>6, <1>7, <1>8, <1>9

-----------------------------------------------------------------------------
(* The steps that work on one inode *)

LEMMA Unheld ==
    ASSUME IInv, NEW i \in Ino, i \notin locked \/ i \notin cached
    PROVE  /\ i \notin locked /\ \A q \in Proc : ~Holds(q, i)
           /\ Loaded(i) <=> i \in cached
           /\ i \notin wanted
           /\ (\E q \in Proc : i \in open[q]) <=> count[i] > 0
           /\ count[i] > 0 => i \in cached
           /\ i \notin cached => count[i] = 0
<1>1. LockOf(i) /\ count[i] \in Nat
  BY DEF IInv, Locks, Typed
<1>2. IsFiniteSet(Holders(i)) /\ IsFiniteSet(Openers(i))
  BY ProcAssumption, FS_Subset DEF Holders, Openers
<1>3. /\ Cardinality(Holders(i)) \in Nat /\ Cardinality(Openers(i)) \in Nat
      /\ Holders(i) # {} => Cardinality(Holders(i)) > 0
      /\ Openers(i) # {} => Cardinality(Openers(i)) > 0
  BY <1>2, FS_CardinalityType, FS_EmptySet
<1>4. i \notin cached => count[i] = 0
  BY <1>1 DEF LockOf
<1>5. i \notin cached => Holders(i) = {}
  BY <1>1, <1>3, <1>4 DEF LockOf
<1>6. i \notin locked /\ \A q \in Proc : ~Holds(q, i)
  BY <1>1, <1>5 DEF LockOf, Holders
<1>7. (\E q \in Proc : i \in open[q]) <=> count[i] > 0
  <2>1. Cardinality(Holders(i)) = 0
    BY <1>2, <1>6, FS_EmptySet DEF Holders
  <2>2. Openers(i) = {} => Cardinality(Openers(i)) = 0
    BY FS_EmptySet
  <2> QED BY <1>1, <1>3, <2>1, <2>2 DEF LockOf, Openers
<1> QED BY <1>1, <1>4, <1>6, <1>7 DEF LockOf, Loaded, Holds

LEMMA CurNow ==
    ASSUME NEW p \in Proc, NEW i \in Ino, Others(p), Only(p, i)
    PROVE  /\ Loaded(i)' <=> i \in cached' /\ ~(pc'[p] = "iread" /\ ip'[p] = i)
           /\ Cur(i)' = IF i \in cached' /\ ~(pc'[p] = "iread" /\ ip'[p] = i)
                        THEN Clean(core'[i]) ELSE disk'[i]
<1>1. Loaded(i)' <=> i \in cached' /\ ~(pc'[p] = "iread" /\ ip'[p] = i)
  BY DEF Others, Only, Loaded, Holds
<1> QED BY <1>1 DEF Cur, Clean

LEMMA UnwantWakes ==
    ASSUME Typed, NoLostWakeup, NEW i \in Ino, Unwant(i)
    PROVE  /\ wanted' = wanted \ {i}
           /\ \A q \in Proc : chan'[q] \in {chan[q], NoIno} /\ chan'[q] # i
BY ValueAssumption DEF Typed, NoLostWakeup, Unwant, Wakeup

LEMMA Finished ==
    ASSUME Typed, NEW p \in Proc, Finish(p) \/ Return(p)
    PROVE  /\ \A q \in Proc \ {p} : pc'[q] = pc[q] /\ op'[q] = op[q] /\ ip'[q] = ip[q]
           /\ pc'[p] \in {"user", "loop"} /\ op'[p] \in {"none", "create"} /\ ip'[p] = NoIno
           /\ pc'[p] = "loop" => op'[p] = "create"
<1>1. CASE Return(p) BY <1>1 DEF Return, Yield, Typed
<1>2. CASE Finish(p) /\ op[p] = "retry" BY <1>2 DEF Finish, Goto, Typed
<1> QED BY <1>1, <1>2 DEF Finish

LEMMA FreeType == ASSUME IInv PROVE tinode \in 0..Cardinality(Ino)
<1>1. IsFiniteSet(Ino \ Used) /\ Cardinality(Ino \ Used) <= Cardinality(Ino)
  BY FS_Subset, InodesFinite
<1>2. Cardinality(Ino \ Used) \in Nat
  BY <1>1, FS_CardinalityType
<1> QED BY <1>1, <1>2, InodesFinite DEF IInv, FreeCount

(* The file in i is the same after the step. *)
LEMMA SameFile ==
    ASSUME IInv, NEW p \in Proc, NEW i \in Ino, Others(p), Cur(i)' = Cur(i), tinode' = tinode,
           i \in named' <=> i \in named,
           Loaded(i)' /\ core'[i].dirty = FALSE => disk'[i] = Clean(core'[i]),
           i \in cached' /\ count'[i] = 0 => core'[i].dirty = FALSE,
           i \in open'[p] => i \in open[p] \/ Cur(i).mode = TRUE
    PROVE  FileStep(p, i)
<1>1. CopiesOf(i) /\ \A q \in Proc : i \in open[q] => Cur(i).mode = TRUE
  BY DEF IInv, Copies, Found_, FoundBy
<1>2. \A q \in Proc : i \in open'[q] => Cur(i).mode = TRUE
  BY <1>1 DEF Others
<1>3. CopiesOf(i)'
  <2>1. (Clean(core[i]))' = Clean(core'[i])
    BY DEF Clean
  <2> QED BY <1>1, <2>1 DEF CopiesOf
<1>4. tinode' = tinode + Bit(Cur(i).mode = TRUE) - Bit(Cur(i)'.mode = TRUE)
  BY FreeType DEF Bit
<1> QED BY <1>1, <1>2, <1>3, <1>4 DEF FileStep

(* Who is about to use an inode has its number. *)
LEMMA Uses ==
    ASSUME IInv, NEW p \in Proc, pc[p] \in Holding \cup {"iget", "ilock"}
    PROVE  ip[p] \in Ino
BY DEF IInv, Control, ControlOf

LEMMA IgetHitStep == ASSUME IInv, NEW p \in Proc, Typed', IgetHit(p) PROVE IInv' /\ Used' = Used
<1>0. PICK i \in Ino : i = ip[p]
  BY Uses DEF IgetHit, Runs, Holding
<1> USE DEF IgetHit, Goto, Yield, Typed, Runs, table, super, IUNLOCK
<1>1. /\ Typed /\ Typed' /\ ControlOf(p) /\ FoundBy(p) /\ OneSearch /\ NoLostWakeup /\ i \in Ino
      /\ \A j \in Ino : ~Holds(p, j)
      /\ i \notin locked \/ i \notin cached
  BY <1>0 DEF IInv, Control, ControlOf, Found_, Holds
<1>2. CopiesOf(i)
  BY <1>1 DEF IInv, Copies
<1>3. /\ i \notin locked /\ \A q \in Proc : ~Holds(q, i)
      /\ Loaded(i) <=> i \in cached
      /\ i \notin wanted
      /\ (\E q \in Proc : i \in open[q]) <=> count[i] > 0
      /\ count[i] > 0 => i \in cached
      /\ i \notin cached => count[i] = 0
  BY <1>1, Unheld
<1>4. wanted' = wanted /\ chan' = chan
  OBVIOUS
<1>5. Others(p) /\ Only(p, i)
  BY <1>0, <1>1, <1>2, <1>3, <1>4, ValueAssumption DEF Others, Only, Holds, Holding
<1>6. LockStep(p, i)
  BY <1>0, <1>1, <1>2, <1>3, <1>4, ValueAssumption DEF LockStep, Holds, Bit, ControlOf, NoLostWakeup
<1>7. Cur(i)' = IF i \in cached' /\ ~(pc'[p] = "iread" /\ ip'[p] = i)
                THEN Clean(core'[i]) ELSE disk'[i]
  BY <1>1, <1>2, <1>5, CurNow
<1>8. Loaded(i)' <=> i \in cached' /\ ~(pc'[p] = "iread" /\ ip'[p] = i)
  BY <1>1, <1>2, <1>5, CurNow
<1>9. Cur(i)' = Cur(i)
  BY <1>0, <1>1, <1>2, <1>3, <1>7 DEF Cur, Clean, Dinode, Core, Holding
<1>10. FileStep(p, i)
  <2>1. Loaded(i)' /\ core'[i].dirty = FALSE => disk'[i] = Clean(core'[i])
    BY <1>0, <1>1, <1>2, <1>3, <1>8 DEF CopiesOf, Clean, Dinode, Core, Holding
  <2>2. i \in cached' /\ count'[i] = 0 => core'[i].dirty = FALSE
    BY <1>0, <1>1, <1>2, <1>3 DEF CopiesOf, Core
  <2>3. i \in open'[p] => i \in open[p] \/ Cur(i).mode = TRUE
    BY <1>0, <1>1, <1>2, <1>3 DEF Clean
  <2> QED BY <1>0, <1>5, <1>9, <2>1, <2>2, <2>3, SameFile
<1>11. Knows(p)'
  BY <1>0, <1>1, <1>2, <1>3 DEF Knows, FoundBy, Core, CopiesOf, Clean
<1>12. ControlOf(p)' /\ Alone(p)
  BY <1>0, <1>1, <1>2, <1>3, <1>4 DEF ControlOf, Alone, OneSearch, Searches, Holding
<1>13. Used' = Used
  BY <1>1, <1>5, <1>9, UsedStep
<1> QED BY <1>0, <1>5, <1>6, <1>10, <1>11, <1>12, <1>13, HolderStep DEF CallStep

LEMMA IgetMissStep == ASSUME IInv, NEW p \in Proc, Typed', IgetMiss(p) PROVE IInv' /\ Used' = Used
<1>0. PICK i \in Ino : i = ip[p]
  BY Uses DEF IgetMiss, Runs, Holding
<1> USE DEF IgetMiss, Goto, Yield, Typed, Runs, table, super, IUNLOCK
<1>1. /\ Typed /\ Typed' /\ ControlOf(p) /\ FoundBy(p) /\ OneSearch /\ NoLostWakeup /\ i \in Ino
      /\ \A j \in Ino : ~Holds(p, j)
      /\ i \notin locked \/ i \notin cached
  BY <1>0 DEF IInv, Control, ControlOf, Found_, Holds
<1>2. CopiesOf(i)
  BY <1>1 DEF IInv, Copies
<1>3. /\ i \notin locked /\ \A q \in Proc : ~Holds(q, i)
      /\ Loaded(i) <=> i \in cached
      /\ i \notin wanted
      /\ (\E q \in Proc : i \in open[q]) <=> count[i] > 0
      /\ count[i] > 0 => i \in cached
      /\ i \notin cached => count[i] = 0
  BY <1>1, Unheld
<1>4. wanted' = wanted /\ chan' = chan
  OBVIOUS
<1>5. Others(p) /\ Only(p, i)
  BY <1>0, <1>1, <1>2, <1>3, <1>4, ValueAssumption DEF Others, Only, Holds, Holding
<1>6. LockStep(p, i)
  BY <1>0, <1>1, <1>2, <1>3, <1>4, ValueAssumption DEF LockStep, Holds, Bit, ControlOf, NoLostWakeup
<1>7. Cur(i)' = IF i \in cached' /\ ~(pc'[p] = "iread" /\ ip'[p] = i)
                THEN Clean(core'[i]) ELSE disk'[i]
  BY <1>1, <1>2, <1>5, CurNow
<1>8. Loaded(i)' <=> i \in cached' /\ ~(pc'[p] = "iread" /\ ip'[p] = i)
  BY <1>1, <1>2, <1>5, CurNow
<1>9. Cur(i)' = Cur(i)
  BY <1>0, <1>1, <1>2, <1>3, <1>7 DEF Cur, Clean, Dinode, Core, Holding
<1>10. FileStep(p, i)
  <2>1. Loaded(i)' /\ core'[i].dirty = FALSE => disk'[i] = Clean(core'[i])
    BY <1>0, <1>1, <1>2, <1>3, <1>8 DEF CopiesOf, Clean, Dinode, Core, Holding
  <2>2. i \in cached' /\ count'[i] = 0 => core'[i].dirty = FALSE
    BY <1>0, <1>1, <1>2, <1>3 DEF CopiesOf, Core
  <2>3. i \in open'[p] => i \in open[p] \/ Cur(i).mode = TRUE
    BY <1>0, <1>1, <1>2, <1>3 DEF Clean
  <2> QED BY <1>0, <1>5, <1>9, <2>1, <2>2, <2>3, SameFile
<1>11. Knows(p)'
  BY <1>0, <1>1, <1>2, <1>3 DEF Knows, FoundBy, Core, CopiesOf, Clean
<1>12. ControlOf(p)' /\ Alone(p)
  BY <1>0, <1>1, <1>2, <1>3, <1>4 DEF ControlOf, Alone, OneSearch, Searches, Holding
<1>13. Used' = Used
  BY <1>1, <1>5, <1>9, UsedStep
<1> QED BY <1>0, <1>5, <1>6, <1>10, <1>11, <1>12, <1>13, HolderStep DEF CallStep

LEMMA CloseStep == ASSUME IInv, NEW p \in Proc, Typed', Close(p) PROVE IInv' /\ Used' = Used
<1>0. PICK i \in Ino : i = ip[p]
  BY Uses DEF Close, Runs, Holding
<1> USE DEF Close, Goto, Yield, Typed, Runs, table, super, IUNLOCK
<1>1. /\ Typed /\ Typed' /\ ControlOf(p) /\ FoundBy(p) /\ OneSearch /\ NoLostWakeup /\ i \in Ino
      /\ \A j \in Ino : ~Holds(p, j)
      /\ i \notin locked \/ i \notin cached
  BY <1>0 DEF IInv, Control, ControlOf, Found_, Holds
<1>2. CopiesOf(i)
  BY <1>1 DEF IInv, Copies
<1>3. /\ i \notin locked /\ \A q \in Proc : ~Holds(q, i)
      /\ Loaded(i) <=> i \in cached
      /\ i \notin wanted
      /\ (\E q \in Proc : i \in open[q]) <=> count[i] > 0
      /\ count[i] > 0 => i \in cached
      /\ i \notin cached => count[i] = 0
  BY <1>1, Unheld
<1>4. wanted' = wanted /\ chan' = chan
  OBVIOUS
<1>5. Others(p) /\ Only(p, i)
  BY <1>0, <1>1, <1>2, <1>3, <1>4, ValueAssumption DEF Others, Only, Holds, Holding
<1>6. LockStep(p, i)
  BY <1>0, <1>1, <1>2, <1>3, <1>4, ValueAssumption DEF LockStep, Holds, Bit, ControlOf, NoLostWakeup
<1>7. Cur(i)' = IF i \in cached' /\ ~(pc'[p] = "iread" /\ ip'[p] = i)
                THEN Clean(core'[i]) ELSE disk'[i]
  BY <1>1, <1>2, <1>5, CurNow
<1>8. Loaded(i)' <=> i \in cached' /\ ~(pc'[p] = "iread" /\ ip'[p] = i)
  BY <1>1, <1>2, <1>5, CurNow
<1>9. Cur(i)' = Cur(i)
  BY <1>0, <1>1, <1>2, <1>3, <1>7 DEF Cur, Clean, Dinode, Core, Holding
<1>10. FileStep(p, i)
  <2>1. Loaded(i)' /\ core'[i].dirty = FALSE => disk'[i] = Clean(core'[i])
    BY <1>0, <1>1, <1>2, <1>3, <1>8 DEF CopiesOf, Clean, Dinode, Core, Holding
  <2>2. i \in cached' /\ count'[i] = 0 => core'[i].dirty = FALSE
    BY <1>0, <1>1, <1>2, <1>3 DEF CopiesOf, Core
  <2>3. i \in open'[p] => i \in open[p] \/ Cur(i).mode = TRUE
    BY <1>0, <1>1, <1>2, <1>3 DEF Clean
  <2> QED BY <1>0, <1>5, <1>9, <2>1, <2>2, <2>3, SameFile
<1>11. Knows(p)'
  <2>1. i \in open[p] /\ core[i].mode = TRUE
    BY <1>0, <1>1, <1>3 DEF ControlOf, FoundBy, Cur, Clean
  <2> QED BY <1>0, <1>1, <2>1 DEF Knows
<1>12. ControlOf(p)' /\ Alone(p)
  BY <1>0, <1>1, <1>2, <1>3, <1>4 DEF ControlOf, Alone, OneSearch, Searches, Holding
<1>13. Used' = Used
  BY <1>1, <1>5, <1>9, UsedStep
<1> QED BY <1>0, <1>5, <1>6, <1>10, <1>11, <1>12, <1>13, HolderStep DEF CallStep

LEMMA SyncStep == ASSUME IInv, NEW p \in Proc, Typed', Sync(p) PROVE IInv' /\ Used' = Used
<1>0. PICK i \in cached \ locked :
          /\ count[i] > 0 /\ core[i].dirty
          /\ locked' = locked \cup {i} /\ count' = [count EXCEPT ![i] = @ + 1] /\ ip' = [ip EXCEPT ![p] = i]
  BY DEF Sync
<1> USE DEF Sync, Goto, Yield, Typed, Runs, table, super, IUNLOCK
<1>1. /\ Typed /\ Typed' /\ ControlOf(p) /\ FoundBy(p) /\ OneSearch /\ NoLostWakeup /\ i \in Ino
      /\ \A j \in Ino : ~Holds(p, j)
      /\ i \notin locked \/ i \notin cached
  BY <1>0 DEF IInv, Control, ControlOf, Found_, Holds
<1>2. CopiesOf(i)
  BY <1>1 DEF IInv, Copies
<1>3. /\ i \notin locked /\ \A q \in Proc : ~Holds(q, i)
      /\ Loaded(i) <=> i \in cached
      /\ i \notin wanted
      /\ (\E q \in Proc : i \in open[q]) <=> count[i] > 0
      /\ count[i] > 0 => i \in cached
      /\ i \notin cached => count[i] = 0
  BY <1>1, Unheld
<1>4. wanted' = wanted /\ chan' = chan
  OBVIOUS
<1>5. Others(p) /\ Only(p, i)
  BY <1>0, <1>1, <1>2, <1>3, <1>4, ValueAssumption DEF Others, Only, Holds, Holding
<1>6. LockStep(p, i)
  BY <1>0, <1>1, <1>2, <1>3, <1>4, ValueAssumption DEF LockStep, Holds, Bit, ControlOf, NoLostWakeup
<1>7. Cur(i)' = IF i \in cached' /\ ~(pc'[p] = "iread" /\ ip'[p] = i)
                THEN Clean(core'[i]) ELSE disk'[i]
  BY <1>1, <1>2, <1>5, CurNow
<1>8. Loaded(i)' <=> i \in cached' /\ ~(pc'[p] = "iread" /\ ip'[p] = i)
  BY <1>1, <1>2, <1>5, CurNow
<1>9. Cur(i)' = Cur(i)
  BY <1>0, <1>1, <1>2, <1>3, <1>7 DEF Cur, Clean, Dinode, Core, Holding
<1>10. FileStep(p, i)
  <2>1. Loaded(i)' /\ core'[i].dirty = FALSE => disk'[i] = Clean(core'[i])
    BY <1>0, <1>1, <1>2, <1>3, <1>8 DEF CopiesOf, Clean, Dinode, Core, Holding
  <2>2. i \in cached' /\ count'[i] = 0 => core'[i].dirty = FALSE
    BY <1>0, <1>1, <1>2, <1>3 DEF CopiesOf, Core
  <2>3. i \in open'[p] => i \in open[p] \/ Cur(i).mode = TRUE
    BY <1>0, <1>1, <1>2, <1>3 DEF Clean
  <2> QED BY <1>0, <1>5, <1>9, <2>1, <2>2, <2>3, SameFile
<1>11. Knows(p)'
  <2>1. core[i].mode = TRUE
    BY <1>0, <1>1, <1>3 DEF IInv, Found_, FoundBy, Cur, Clean
  <2> QED BY <1>0, <1>1, <2>1 DEF Knows
<1>12. ControlOf(p)' /\ Alone(p)
  BY <1>0, <1>1, <1>2, <1>3, <1>4 DEF ControlOf, Alone, OneSearch, Searches, Holding
<1>13. Used' = Used
  BY <1>1, <1>5, <1>9, UsedStep
<1> QED BY <1>0, <1>5, <1>6, <1>10, <1>11, <1>12, <1>13, HolderStep DEF CallStep

LEMMA IgetReadStep == ASSUME IInv, NEW p \in Proc, Typed', IgetRead(p) PROVE IInv' /\ Used' = Used
<1>0. PICK i \in Ino : i = ip[p]
  BY Uses DEF IgetRead, Runs, Holding
<1> USE DEF IgetRead, Goto, Yield, Typed, Runs, table, super, IUNLOCK
<1>1. /\ Typed /\ Typed' /\ ControlOf(p) /\ FoundBy(p) /\ OneSearch /\ NoLostWakeup
      /\ pc[p] \in Holding
  BY DEF IInv, Control, Found_, Holding
<1>2. /\ i \in Ino /\ Holds(p, i) /\ count[i] \in Nat \ {0} /\ i \in cached /\ i \in locked
      /\ \A q \in Proc \ {p} : ~Holds(q, i)
      /\ Loaded(i) <=> pc[p] # "iread"
      /\ pc[p] # "iread" => Cur(i) = Clean(core[i])
      /\ count[i] = 1 => \A q \in Proc : i \notin open[q]
  BY <1>0, <1>1, Held
<1>3. CopiesOf(i)
  BY <1>2 DEF IInv, Copies
<1>4. wanted' = wanted /\ chan' = chan
  OBVIOUS
<1>5. Others(p) /\ Only(p, i)
  BY <1>0, <1>1, <1>2, <1>3, <1>4, ValueAssumption DEF Others, Only, Holds, Holding
<1>6. LockStep(p, i)
  BY <1>0, <1>1, <1>2, <1>3, <1>4, ValueAssumption DEF LockStep, Holds, Bit, ControlOf, NoLostWakeup
<1>7. Cur(i)' = IF i \in cached' /\ ~(pc'[p] = "iread" /\ ip'[p] = i)
                THEN Clean(core'[i]) ELSE disk'[i]
  BY <1>1, <1>2, <1>5, CurNow
<1>8. Loaded(i)' <=> i \in cached' /\ ~(pc'[p] = "iread" /\ ip'[p] = i)
  BY <1>1, <1>2, <1>5, CurNow
<1>9. Cur(i)' = Cur(i)
  BY <1>0, <1>1, <1>2, <1>3, <1>7 DEF Cur, Clean, Dinode, Core, Holding
<1>10. FileStep(p, i)
  <2>1. Loaded(i)' /\ core'[i].dirty = FALSE => disk'[i] = Clean(core'[i])
    BY <1>0, <1>1, <1>2, <1>3, <1>8 DEF CopiesOf, Clean, Dinode, Core, Holding
  <2>2. i \in cached' /\ count'[i] = 0 => core'[i].dirty = FALSE
    BY <1>0, <1>1, <1>2, <1>3 DEF CopiesOf, Core
  <2>3. i \in open'[p] => i \in open[p] \/ Cur(i).mode = TRUE
    BY <1>0, <1>1, <1>2, <1>3 DEF Clean
  <2> QED BY ZenonT(60), <1>0, <1>5, <1>9, <2>1, <2>2, <2>3, SameFile
<1>11. Knows(p)'
  BY <1>0, <1>1, <1>2, <1>3 DEF Knows, FoundBy, Core, CopiesOf, Clean
<1>12. ControlOf(p)' /\ Alone(p)
  BY <1>0, <1>1, <1>2, <1>3, <1>4 DEF ControlOf, Alone, OneSearch, Searches, Holding
<1>13. Used' = Used
  BY ZenonT(60), <1>1, <1>2, <1>5, <1>9, UsedStep
<1> QED BY <1>0, <1>5, <1>6, <1>10, <1>11, <1>12, <1>13, HolderStep DEF CallStep

LEMMA MakeStep == ASSUME IInv, NEW p \in Proc, Typed', Make(p)
    PROVE  /\ IInv'
           /\ Used' = Used \cup {ip[p]} /\ ip[p] \notin Used
<1>0. PICK i \in Ino : i = ip[p]
  BY Uses DEF Make, Runs, Holding
<1> USE DEF Make, Goto, Yield, Typed, Runs, table, super, IUNLOCK
<1>1. /\ Typed /\ Typed' /\ ControlOf(p) /\ FoundBy(p) /\ OneSearch /\ NoLostWakeup
      /\ pc[p] \in Holding
  BY ZenonT(60) DEF IInv, Control, Found_, Holding
<1>2. /\ i \in Ino /\ Holds(p, i) /\ count[i] \in Nat \ {0} /\ i \in cached /\ i \in locked
      /\ \A q \in Proc \ {p} : ~Holds(q, i)
      /\ Loaded(i) <=> pc[p] # "iread"
      /\ pc[p] # "iread" => Cur(i) = Clean(core[i])
      /\ count[i] = 1 => \A q \in Proc : i \notin open[q]
  BY <1>0, <1>1, Held
<1>3. CopiesOf(i)
  BY <1>2 DEF IInv, Copies
<1>4. wanted' = wanted /\ chan' = chan
  OBVIOUS
<1>5. Others(p) /\ Only(p, i)
  BY <1>0, <1>1, <1>2, <1>3, <1>4, ValueAssumption DEF Others, Only, Holds, Holding
<1>6. LockStep(p, i)
  BY <1>0, <1>1, <1>2, <1>3, <1>4, ValueAssumption DEF LockStep, Holds, Bit, ControlOf, NoLostWakeup
<1>7. Cur(i)' = IF i \in cached' /\ ~(pc'[p] = "iread" /\ ip'[p] = i)
                THEN Clean(core'[i]) ELSE disk'[i]
  BY <1>1, <1>2, <1>5, CurNow
<1>8. Loaded(i)' <=> i \in cached' /\ ~(pc'[p] = "iread" /\ ip'[p] = i)
  BY <1>1, <1>2, <1>5, CurNow
<1>9. Cur(i).mode = FALSE /\ i \notin named
  BY <1>0, <1>1, <1>2, <1>3 DEF CopiesOf, FoundBy, Knows, Clean, Core, ControlOf
<1>10. Cur(i)'.mode = TRUE /\ Cur(i)'.nlink = 1 /\ core'[i].dirty = TRUE
  BY <1>0, <1>1, <1>2, <1>3, <1>7, <1>9 DEF Clean, Core
<1>11. FileStep(p, i)
  <2>1. CopiesOf(i)'
    <3>1. (Clean(core[i]))' = Clean(core'[i])
      BY DEF Clean
    <3> QED BY <1>0, <1>1, <1>2, <1>3, <1>8, <1>9, <1>10, <3>1 DEF CopiesOf
  <2>2. tinode' = tinode - 1 /\ tinode \in Nat
    BY FreeType, InodesFinite
  <2> QED BY <1>0, <1>1, <1>9, <1>10, <2>1, <2>2 DEF FileStep, Bit
<1>12. Knows(p)'
  BY <1>0, <1>1, <1>2, <1>3 DEF Knows, FoundBy, Core, CopiesOf, Clean
<1>13. ControlOf(p)' /\ Alone(p)
  BY <1>0, <1>1, <1>2, <1>3, <1>4 DEF ControlOf, Alone, OneSearch, Searches, Holding
<1>14. Used' = Used \cup {i} /\ i \notin Used
  BY <1>1, <1>2, <1>5, <1>9, <1>10, UsedStep
<1> QED BY <1>0, <1>5, <1>6, <1>11, <1>12, <1>13, <1>14, HolderStep DEF CallStep

LEMMA RetryStep == ASSUME IInv, NEW p \in Proc, Typed', Retry(p) PROVE IInv' /\ Used' = Used
<1>0. PICK i \in Ino : i = ip[p]
  BY Uses DEF Retry, Runs, Holding
<1> USE DEF Retry, Goto, Yield, Typed, Runs, table, super, IUNLOCK
<1>1. /\ Typed /\ Typed' /\ ControlOf(p) /\ FoundBy(p) /\ OneSearch /\ NoLostWakeup
      /\ pc[p] \in Holding
  BY DEF IInv, Control, Found_, Holding
<1>2. /\ i \in Ino /\ Holds(p, i) /\ count[i] \in Nat \ {0} /\ i \in cached /\ i \in locked
      /\ \A q \in Proc \ {p} : ~Holds(q, i)
      /\ Loaded(i) <=> pc[p] # "iread"
      /\ pc[p] # "iread" => Cur(i) = Clean(core[i])
      /\ count[i] = 1 => \A q \in Proc : i \notin open[q]
  BY <1>0, <1>1, Held
<1>3. CopiesOf(i)
  BY <1>2 DEF IInv, Copies
<1>4. wanted' = wanted /\ chan' = chan
  OBVIOUS
<1>5. Others(p) /\ Only(p, i)
  BY <1>0, <1>1, <1>2, <1>3, <1>4, ValueAssumption DEF Others, Only, Holds, Holding
<1>6. LockStep(p, i)
  BY <1>0, <1>1, <1>2, <1>3, <1>4, ValueAssumption DEF LockStep, Holds, Bit, ControlOf, NoLostWakeup
<1>7. Cur(i)' = IF i \in cached' /\ ~(pc'[p] = "iread" /\ ip'[p] = i)
                THEN Clean(core'[i]) ELSE disk'[i]
  BY <1>1, <1>2, <1>5, CurNow
<1>8. Loaded(i)' <=> i \in cached' /\ ~(pc'[p] = "iread" /\ ip'[p] = i)
  BY <1>1, <1>2, <1>5, CurNow
<1>9. Cur(i)' = Cur(i)
  BY <1>0, <1>1, <1>2, <1>3, <1>7 DEF Cur, Clean, Dinode, Core, Holding
<1>10. FileStep(p, i)
  <2>1. Loaded(i)' /\ core'[i].dirty = FALSE => disk'[i] = Clean(core'[i])
    BY <1>0, <1>1, <1>2, <1>3, <1>8 DEF CopiesOf, Clean, Dinode, Core, Holding
  <2>2. i \in cached' /\ count'[i] = 0 => core'[i].dirty = FALSE
    BY <1>0, <1>1, <1>2, <1>3 DEF CopiesOf, Core
  <2>3. i \in open'[p] => i \in open[p] \/ Cur(i).mode = TRUE
    BY <1>0, <1>1, <1>2, <1>3 DEF Clean
  <2> QED BY <1>0, <1>5, <1>9, <2>1, <2>2, <2>3, SameFile
<1>11. Knows(p)'
  BY <1>0, <1>1, <1>2, <1>3 DEF Knows, FoundBy, Core, CopiesOf, Clean
<1>12. ControlOf(p)' /\ Alone(p)
  BY <1>0, <1>1, <1>2, <1>3, <1>4 DEF ControlOf, Alone, OneSearch, Searches, Holding
<1>13. Used' = Used
  BY <1>1, <1>2, <1>5, <1>9, UsedStep
<1> QED BY <1>0, <1>5, <1>6, <1>10, <1>11, <1>12, <1>13, HolderStep DEF CallStep

LEMMA MadeStep == ASSUME IInv, NEW p \in Proc, Typed', Made(p) PROVE IInv' /\ Used' = Used
<1>0. PICK i \in Ino : i = ip[p]
  BY Uses DEF Made, Runs, Holding
<1> USE DEF Made, Goto, Yield, Typed, Runs, table, super, IUNLOCK
<1>1. /\ Typed /\ Typed' /\ ControlOf(p) /\ FoundBy(p) /\ OneSearch /\ NoLostWakeup
      /\ pc[p] \in Holding
  BY DEF IInv, Control, Found_, Holding
<1>2. /\ i \in Ino /\ Holds(p, i) /\ count[i] \in Nat \ {0} /\ i \in cached /\ i \in locked
      /\ \A q \in Proc \ {p} : ~Holds(q, i)
      /\ Loaded(i) <=> pc[p] # "iread"
      /\ pc[p] # "iread" => Cur(i) = Clean(core[i])
      /\ count[i] = 1 => \A q \in Proc : i \notin open[q]
  BY <1>0, <1>1, Held
<1>3. CopiesOf(i)
  BY <1>2 DEF IInv, Copies
<1>4. wanted' = wanted /\ chan' = chan
  OBVIOUS
<1>5. Others(p) /\ Only(p, i)
  BY <1>0, <1>1, <1>2, <1>3, <1>4, ValueAssumption DEF Others, Only, Holds, Holding
<1>6. LockStep(p, i)
  BY <1>0, <1>1, <1>2, <1>3, <1>4, ValueAssumption DEF LockStep, Holds, Bit, ControlOf, NoLostWakeup
<1>7. Cur(i)' = IF i \in cached' /\ ~(pc'[p] = "iread" /\ ip'[p] = i)
                THEN Clean(core'[i]) ELSE disk'[i]
  BY <1>1, <1>2, <1>5, CurNow
<1>8. Loaded(i)' <=> i \in cached' /\ ~(pc'[p] = "iread" /\ ip'[p] = i)
  BY <1>1, <1>2, <1>5, CurNow
<1>9. Cur(i)' = Cur(i)
  BY <1>0, <1>1, <1>2, <1>3, <1>7 DEF Cur, Clean, Dinode, Core, Holding
<1>10. FileStep(p, i)
  <2>1. Loaded(i)' /\ core'[i].dirty = FALSE => disk'[i] = Clean(core'[i])
    BY <1>0, <1>1, <1>2, <1>3, <1>8 DEF CopiesOf, Clean, Dinode, Core, Holding
  <2>2. i \in cached' /\ count'[i] = 0 => core'[i].dirty = FALSE
    BY <1>0, <1>1, <1>2, <1>3 DEF CopiesOf, Core
  <2>3. i \in open'[p] => i \in open[p] \/ Cur(i).mode = TRUE
    BY <1>0, <1>1, <1>2, <1>3 DEF Clean
  <2> QED BY ZenonT(60), <1>0, <1>5, <1>9, <2>1, <2>2, <2>3, SameFile
<1>11. Knows(p)'
  BY <1>0, <1>1, <1>2, <1>3 DEF Knows, FoundBy, Core, CopiesOf, Clean
<1>12. ControlOf(p)' /\ Alone(p)
  BY <1>0, <1>1, <1>2, <1>3, <1>4 DEF ControlOf, Alone, OneSearch, Searches, Holding
<1>13. Used' = Used
  BY <1>1, <1>2, <1>5, <1>9, UsedStep
<1> QED BY <1>0, <1>5, <1>6, <1>10, <1>11, <1>12, <1>13, HolderStep DEF CallStep

LEMMA EnterStep == ASSUME IInv, NEW p \in Proc, Typed', Enter(p) PROVE IInv' /\ Used' = Used
<1>0. PICK i \in Ino : i = ip[p]
  BY Uses DEF Enter, Runs, Holding
<1> USE DEF Enter, Goto, Yield, Typed, Runs, table, super, IUNLOCK
<1>1. /\ Typed /\ Typed' /\ ControlOf(p) /\ FoundBy(p) /\ OneSearch /\ NoLostWakeup
      /\ pc[p] \in Holding
  BY ZenonT(60) DEF IInv, Control, Found_, Holding
<1>2. /\ i \in Ino /\ Holds(p, i) /\ count[i] \in Nat \ {0} /\ i \in cached /\ i \in locked
      /\ \A q \in Proc \ {p} : ~Holds(q, i)
      /\ Loaded(i) <=> pc[p] # "iread"
      /\ pc[p] # "iread" => Cur(i) = Clean(core[i])
      /\ count[i] = 1 => \A q \in Proc : i \notin open[q]
  BY <1>0, <1>1, Held
<1>3. CopiesOf(i)
  BY <1>2 DEF IInv, Copies
<1>4. wanted' = wanted /\ chan' = chan
  OBVIOUS
<1>5. Others(p) /\ Only(p, i)
  BY <1>0, <1>1, <1>2, <1>3, <1>4, ValueAssumption DEF Others, Only, Holds, Holding
<1>6. LockStep(p, i)
  BY <1>0, <1>1, <1>2, <1>3, <1>4, ValueAssumption DEF LockStep, Holds, Bit, ControlOf, NoLostWakeup
<1>7. Cur(i)' = IF i \in cached' /\ ~(pc'[p] = "iread" /\ ip'[p] = i)
                THEN Clean(core'[i]) ELSE disk'[i]
  BY <1>1, <1>2, <1>5, CurNow
<1>8. Loaded(i)' <=> i \in cached' /\ ~(pc'[p] = "iread" /\ ip'[p] = i)
  BY <1>1, <1>2, <1>5, CurNow
<1>9. Cur(i).mode = TRUE /\ Cur(i).nlink = 1 /\ core[i].nlink = 1 /\ i \notin named
  BY <1>0, <1>1, <1>2, <1>3 DEF CopiesOf, FoundBy, Knows, Clean, Core, ControlOf
<1>10. /\ Cur(i)'.mode = TRUE
       /\ (Cur(i)' = Cur(i) /\ core' = core) \/ (i \notin named' /\ core'[i].dirty = TRUE)
  <2>1. Cur(i)' = Clean(core'[i]) /\ Cur(i) = Clean(core[i])
    BY <1>0, <1>1, <1>2, <1>7
  <2>2. core[i] \in Core
    BY <1>1, <1>2
  <2>3. CASE core' = core
    BY <1>9, <2>1, <2>3
  <2>4. CASE i \notin named' /\ core' = [core EXCEPT ![i].nlink = 0, ![i].dirty = TRUE]
    <3>1. core'[i].mode = core[i].mode /\ core'[i].dirty = TRUE
      BY <1>1, <1>2, <2>2, <2>4 DEF Core
    <3> QED BY <1>9, <2>1, <2>4, <3>1 DEF Clean
  <2> QED BY <1>0, <1>1, <1>2, <1>9, <2>3, <2>4
<1>11. FileStep(p, i)
  <2>1. CopiesOf(i)'
    <3>1. (Clean(core[i]))' = Clean(core'[i])
      BY DEF Clean
    <3>2. count'[i] # 0 /\ disk'[i] = disk[i]
      BY <1>1, <1>2
    <3>3. Loaded(i)' => Loaded(i)
      BY <1>0, <1>1, <1>2, <1>8
    <3>4. CASE Cur(i)' = Cur(i) /\ core' = core
      <4>1. Cur(i)'.nlink = 1 /\ Cur(i)'.mode = TRUE
        BY <1>9, <3>4
      <4>2. Loaded(i)' /\ core'[i].dirty = FALSE => disk'[i] = Clean(core'[i])
        BY <1>3, <3>2, <3>3, <3>4 DEF CopiesOf, Clean
      <4> QED BY <3>1, <3>2, <4>1, <4>2 DEF CopiesOf
    <3>5. CASE i \notin named' /\ core'[i].dirty = TRUE
      BY <1>9, <1>10, <3>1, <3>2, <3>5 DEF CopiesOf
    <3> QED BY <1>10, <3>4, <3>5
  <2>2. tinode' = tinode /\ tinode \in Nat
    BY FreeType, InodesFinite
  <2> QED BY <1>0, <1>1, <1>9, <1>10, <2>1, <2>2 DEF FileStep, Bit
<1>12. Knows(p)'
  BY <1>0, <1>1, <1>2, <1>3 DEF Knows, FoundBy, Core, CopiesOf, Clean
<1>13. ControlOf(p)' /\ Alone(p)
  BY <1>0, <1>1, <1>2, <1>3, <1>4 DEF ControlOf, Alone, OneSearch, Searches, Holding, MayOpen
<1>14. Used' = Used
  BY <1>1, <1>2, <1>5, <1>9, <1>10, UsedStep
<1> QED BY ZenonT(60), <1>0, <1>5, <1>6, <1>11, <1>12, <1>13, <1>14, HolderStep DEF CallStep

LEMMA OpenStep == ASSUME IInv, NEW p \in Proc, Typed', Open(p) PROVE IInv' /\ Used' = Used
<1>0. PICK i \in Ino : i = ip[p]
  BY Uses DEF Open, Runs, Holding
<1> USE DEF Open, Goto, Yield, Typed, Runs, table, super, IUNLOCK
<1>1. /\ Typed /\ Typed' /\ ControlOf(p) /\ FoundBy(p) /\ OneSearch /\ NoLostWakeup
      /\ pc[p] \in Holding
  BY DEF IInv, Control, Found_, Holding
<1>2. /\ i \in Ino /\ Holds(p, i) /\ count[i] \in Nat \ {0} /\ i \in cached /\ i \in locked
      /\ \A q \in Proc \ {p} : ~Holds(q, i)
      /\ Loaded(i) <=> pc[p] # "iread"
      /\ pc[p] # "iread" => Cur(i) = Clean(core[i])
      /\ count[i] = 1 => \A q \in Proc : i \notin open[q]
  BY <1>0, <1>1, Held
<1>3. CopiesOf(i)
  BY <1>2 DEF IInv, Copies
<1>4. wanted' = wanted \ {i} /\ \A q \in Proc : chan'[q] \in {chan[q], NoIno} /\ chan'[q] # i
  BY <1>0, <1>1, <1>2, UnwantWakes
<1>5. /\ \A q \in Proc \ {p} : pc'[q] = pc[q] /\ op'[q] = op[q] /\ ip'[q] = ip[q]
      /\ pc'[p] \in {"user", "loop"} /\ op'[p] \in {"none", "create"} /\ ip'[p] = NoIno
      /\ pc'[p] = "loop" => op'[p] = "create"
  BY <1>1, Finished
<1>6. Others(p) /\ Only(p, i)
  BY <1>0, <1>1, <1>2, <1>3, <1>4, <1>5, ValueAssumption DEF Others, Only, Holds, Holding
<1>7. LockStep(p, i)
  BY <1>0, <1>1, <1>2, <1>3, <1>4, <1>5, ValueAssumption DEF LockStep, Holds, Bit, ControlOf, NoLostWakeup
<1>8. Cur(i)' = IF i \in cached' /\ ~(pc'[p] = "iread" /\ ip'[p] = i)
                THEN Clean(core'[i]) ELSE disk'[i]
  BY <1>1, <1>2, <1>6, CurNow
<1>9. Loaded(i)' <=> i \in cached' /\ ~(pc'[p] = "iread" /\ ip'[p] = i)
  BY <1>1, <1>2, <1>6, CurNow
<1>10. Cur(i)' = Cur(i)
  BY <1>0, <1>1, <1>2, <1>3, <1>5, <1>8 DEF Cur, Clean, Dinode, Core, Holding
<1>11. FileStep(p, i)
  <2>1. Loaded(i)' /\ core'[i].dirty = FALSE => disk'[i] = Clean(core'[i])
    BY <1>0, <1>1, <1>2, <1>3, <1>5, <1>9 DEF CopiesOf, Clean, Dinode, Core, Holding
  <2>2. i \in cached' /\ count'[i] = 0 => core'[i].dirty = FALSE
    BY <1>0, <1>1, <1>2, <1>3 DEF CopiesOf, Core
  <2>3. i \in open'[p] => i \in open[p] \/ Cur(i).mode = TRUE
    BY <1>0, <1>1, <1>2, <1>3 DEF CopiesOf, FoundBy, Knows, ControlOf, Searches, Clean
  <2> QED BY <1>0, <1>6, <1>10, <2>1, <2>2, <2>3, SameFile
<1>12. Knows(p)'
  BY <1>0, <1>1, <1>2, <1>3, <1>5 DEF Knows, FoundBy, Core, CopiesOf, Clean
<1>13. ControlOf(p)' /\ Alone(p)
  BY <1>0, <1>1, <1>2, <1>3, <1>4, <1>5 DEF ControlOf, Alone, OneSearch, Searches, Holding
<1>14. Used' = Used
  BY <1>1, <1>2, <1>6, <1>10, UsedStep
<1> QED BY <1>0, <1>6, <1>7, <1>11, <1>12, <1>13, <1>14, HolderStep DEF CallStep

LEMMA StartUnlinkStep == ASSUME IInv, NEW p \in Proc, Typed', StartUnlink(p) PROVE IInv' /\ Used' = Used
<1>0. PICK i \in Ino : i = ip[p]
  BY Uses DEF StartUnlink, Runs, Holding
<1> USE DEF StartUnlink, Goto, Yield, Typed, Runs, table, super, IUNLOCK
<1>1. /\ Typed /\ Typed' /\ ControlOf(p) /\ FoundBy(p) /\ OneSearch /\ NoLostWakeup
      /\ pc[p] \in Holding
  BY DEF IInv, Control, Found_, Holding
<1>2. /\ i \in Ino /\ Holds(p, i) /\ count[i] \in Nat \ {0} /\ i \in cached /\ i \in locked
      /\ \A q \in Proc \ {p} : ~Holds(q, i)
      /\ Loaded(i) <=> pc[p] # "iread"
      /\ pc[p] # "iread" => Cur(i) = Clean(core[i])
      /\ count[i] = 1 => \A q \in Proc : i \notin open[q]
  BY <1>0, <1>1, Held
<1>3. CopiesOf(i)
  BY <1>2 DEF IInv, Copies
<1>4. wanted' = wanted /\ chan' = chan
  OBVIOUS
<1>5. Others(p) /\ Only(p, i)
  BY <1>0, <1>1, <1>2, <1>3, <1>4, ValueAssumption DEF Others, Only, Holds, Holding
<1>6. LockStep(p, i)
  BY <1>0, <1>1, <1>2, <1>3, <1>4, ValueAssumption DEF LockStep, Holds, Bit, ControlOf, NoLostWakeup
<1>7. Cur(i)' = IF i \in cached' /\ ~(pc'[p] = "iread" /\ ip'[p] = i)
                THEN Clean(core'[i]) ELSE disk'[i]
  BY <1>1, <1>2, <1>5, CurNow
<1>8. Loaded(i)' <=> i \in cached' /\ ~(pc'[p] = "iread" /\ ip'[p] = i)
  BY <1>1, <1>2, <1>5, CurNow
<1>9. Cur(i)' = Cur(i)
  BY <1>0, <1>1, <1>2, <1>3, <1>7 DEF Cur, Clean, Dinode, Core, Holding
<1>10. FileStep(p, i)
  <2>1. Loaded(i)' /\ core'[i].dirty = FALSE => disk'[i] = Clean(core'[i])
    BY <1>0, <1>1, <1>2, <1>3, <1>8 DEF CopiesOf, Clean, Dinode, Core, Holding
  <2>2. i \in cached' /\ count'[i] = 0 => core'[i].dirty = FALSE
    BY <1>0, <1>1, <1>2, <1>3 DEF CopiesOf, Core
  <2>3. i \in open'[p] => i \in open[p] \/ Cur(i).mode = TRUE
    BY <1>0, <1>1, <1>2, <1>3 DEF Clean
  <2> QED BY <1>0, <1>5, <1>9, <2>1, <2>2, <2>3, SameFile
<1>11. Knows(p)'
  BY <1>0, <1>1, <1>2, <1>3 DEF Knows, FoundBy, Core, CopiesOf, Clean
<1>12. ControlOf(p)' /\ Alone(p)
  BY <1>0, <1>1, <1>2, <1>3, <1>4 DEF ControlOf, Alone, OneSearch, Searches, Holding
<1>13. Used' = Used
  BY <1>1, <1>2, <1>5, <1>9, UsedStep
<1> QED BY <1>0, <1>5, <1>6, <1>10, <1>11, <1>12, <1>13, HolderStep DEF CallStep

LEMMA UnlinkStep == ASSUME IInv, NEW p \in Proc, Typed', Unlink(p) PROVE IInv' /\ Used' = Used
<1>0. PICK i \in Ino : i = ip[p]
  BY Uses DEF Unlink, Runs, Holding
<1> USE DEF Unlink, Goto, Yield, Typed, Runs, table, super, IUNLOCK
<1>1. /\ Typed /\ Typed' /\ ControlOf(p) /\ FoundBy(p) /\ OneSearch /\ NoLostWakeup
      /\ pc[p] \in Holding
  BY DEF IInv, Control, Found_, Holding
<1>2. /\ i \in Ino /\ Holds(p, i) /\ count[i] \in Nat \ {0} /\ i \in cached /\ i \in locked
      /\ \A q \in Proc \ {p} : ~Holds(q, i)
      /\ Loaded(i) <=> pc[p] # "iread"
      /\ pc[p] # "iread" => Cur(i) = Clean(core[i])
      /\ count[i] = 1 => \A q \in Proc : i \notin open[q]
  BY <1>0, <1>1, Held
<1>3. CopiesOf(i)
  BY <1>2 DEF IInv, Copies
<1>4. wanted' = wanted /\ chan' = chan
  OBVIOUS
<1>5. Others(p) /\ Only(p, i)
  BY <1>0, <1>1, <1>2, <1>3, <1>4, ValueAssumption DEF Others, Only, Holds, Holding
<1>6. LockStep(p, i)
  BY <1>0, <1>1, <1>2, <1>3, <1>4, ValueAssumption DEF LockStep, Holds, Bit, ControlOf, NoLostWakeup
<1>7. Cur(i)' = IF i \in cached' /\ ~(pc'[p] = "iread" /\ ip'[p] = i)
                THEN Clean(core'[i]) ELSE disk'[i]
  BY <1>1, <1>2, <1>5, CurNow
<1>8. Loaded(i)' <=> i \in cached' /\ ~(pc'[p] = "iread" /\ ip'[p] = i)
  BY <1>1, <1>2, <1>5, CurNow
<1>9. Cur(i).mode = TRUE /\ Cur(i).nlink = 1 /\ core[i].nlink = 1 /\ core[i].mode = TRUE /\ Searches(p)
  BY <1>0, <1>1, <1>2, <1>3, UnlinkHas DEF CopiesOf, FoundBy, Knows, Clean, Core, ControlOf
<1>10. /\ Cur(i)'.mode = TRUE
       /\ (Cur(i)' = Cur(i) /\ core' = core /\ named' = named) \/ (i \notin named' /\ core'[i].dirty = TRUE)
  <2>1. Cur(i)' = Clean(core'[i]) /\ Cur(i) = Clean(core[i])
    BY <1>0, <1>1, <1>2, <1>7
  <2>2. core[i] \in Core
    BY <1>1, <1>2
  <2>3. CASE core' = core /\ named' = named
    BY <1>9, <2>1, <2>3
  <2>4. CASE i \notin named' /\ core' = [core EXCEPT ![i].nlink = @ - 1, ![i].dirty = TRUE]
    <3>1. core'[i].mode = core[i].mode /\ core'[i].dirty = TRUE
      BY <1>1, <1>2, <2>2, <2>4 DEF Core
    <3> QED BY <1>9, <2>1, <2>4, <3>1 DEF Clean
  <2> QED BY <1>0, <1>1, <1>2, <1>9, <2>3, <2>4
<1>11. FileStep(p, i)
  <2>1. CopiesOf(i)'
    <3>1. (Clean(core[i]))' = Clean(core'[i])
      BY DEF Clean
    <3>2. count'[i] # 0 /\ disk'[i] = disk[i]
      BY <1>1, <1>2
    <3>3. Loaded(i)' => Loaded(i)
      BY <1>0, <1>1, <1>2, <1>8
    <3>4. CASE Cur(i)' = Cur(i) /\ core' = core
      <4>1. Cur(i)'.nlink = 1 /\ Cur(i)'.mode = TRUE
        BY <1>9, <3>4
      <4>2. Loaded(i)' /\ core'[i].dirty = FALSE => disk'[i] = Clean(core'[i])
        BY <1>3, <3>2, <3>3, <3>4 DEF CopiesOf, Clean
      <4> QED BY <3>1, <3>2, <4>1, <4>2 DEF CopiesOf
    <3>5. CASE i \notin named' /\ core'[i].dirty = TRUE
      BY <1>9, <1>10, <3>1, <3>2, <3>5 DEF CopiesOf
    <3> QED BY <1>10, <3>4, <3>5
  <2>2. tinode' = tinode /\ tinode \in Nat
    BY FreeType, InodesFinite
  <2> QED BY <1>0, <1>1, <1>9, <1>10, <2>1, <2>2 DEF FileStep, Bit
<1>12. Knows(p)'
  <2>1. core[i].mode = TRUE
    BY <1>0, UnlinkHas
  <2> QED BY <1>0, <1>1, <1>2, <2>1 DEF Knows, Core
<1>13. ControlOf(p)' /\ Alone(p)
  BY <1>0, <1>1, <1>2, <1>3, <1>4 DEF ControlOf, Alone, OneSearch, Searches, Holding
<1>14. Used' = Used
  BY <1>1, <1>2, <1>5, <1>9, <1>10, UsedStep
<1> QED BY <1>0, <1>5, <1>6, <1>11, <1>12, <1>13, <1>14, HolderStep DEF CallStep

LEMMA SyncedStep == ASSUME IInv, NEW p \in Proc, Typed', Synced(p) PROVE IInv' /\ Used' = Used
<1>0. PICK i \in Ino : i = ip[p]
  BY Uses DEF Synced, Runs, Holding
<1> USE DEF Synced, Goto, Yield, Typed, Runs, table, super, IUNLOCK
<1>1. /\ Typed /\ Typed' /\ ControlOf(p) /\ FoundBy(p) /\ OneSearch /\ NoLostWakeup
      /\ pc[p] \in Holding
  BY DEF IInv, Control, Found_, Holding
<1>2. /\ i \in Ino /\ Holds(p, i) /\ count[i] \in Nat \ {0} /\ i \in cached /\ i \in locked
      /\ \A q \in Proc \ {p} : ~Holds(q, i)
      /\ Loaded(i) <=> pc[p] # "iread"
      /\ pc[p] # "iread" => Cur(i) = Clean(core[i])
      /\ count[i] = 1 => \A q \in Proc : i \notin open[q]
  BY <1>0, <1>1, Held
<1>3. CopiesOf(i)
  BY <1>2 DEF IInv, Copies
<1>4. wanted' = wanted /\ chan' = chan
  OBVIOUS
<1>5. Others(p) /\ Only(p, i)
  BY <1>0, <1>1, <1>2, <1>3, <1>4, ValueAssumption DEF Others, Only, Holds, Holding
<1>6. LockStep(p, i)
  BY <1>0, <1>1, <1>2, <1>3, <1>4, ValueAssumption DEF LockStep, Holds, Bit, ControlOf, NoLostWakeup
<1>7. Cur(i)' = IF i \in cached' /\ ~(pc'[p] = "iread" /\ ip'[p] = i)
                THEN Clean(core'[i]) ELSE disk'[i]
  BY <1>1, <1>2, <1>5, CurNow
<1>8. Loaded(i)' <=> i \in cached' /\ ~(pc'[p] = "iread" /\ ip'[p] = i)
  BY <1>1, <1>2, <1>5, CurNow
<1>9. Cur(i)' = Cur(i)
  BY <1>0, <1>1, <1>2, <1>3, <1>7 DEF Cur, Clean, Dinode, Core, Holding
<1>10. FileStep(p, i)
  <2>1. Loaded(i)' /\ core'[i].dirty = FALSE => disk'[i] = Clean(core'[i])
    BY <1>0, <1>1, <1>2, <1>3, <1>8 DEF CopiesOf, Clean, Dinode, Core, Holding
  <2>2. i \in cached' /\ count'[i] = 0 => core'[i].dirty = FALSE
    BY <1>0, <1>1, <1>2, <1>3 DEF CopiesOf, Core
  <2>3. i \in open'[p] => i \in open[p] \/ Cur(i).mode = TRUE
    BY <1>0, <1>1, <1>2, <1>3 DEF Clean
  <2> QED BY ZenonT(60), <1>0, <1>5, <1>9, <2>1, <2>2, <2>3, SameFile
<1>11. Knows(p)'
  BY <1>0, <1>1, <1>2, <1>3 DEF Knows, FoundBy, Core, CopiesOf, Clean
<1>12. ControlOf(p)' /\ Alone(p)
  BY <1>0, <1>1, <1>2, <1>3, <1>4 DEF ControlOf, Alone, OneSearch, Searches, Holding
<1>13. Used' = Used
  BY ZenonT(60), <1>1, <1>2, <1>5, <1>9, UsedStep
<1> QED BY <1>0, <1>5, <1>6, <1>10, <1>11, <1>12, <1>13, HolderStep DEF CallStep

LEMMA IputStep == ASSUME IInv, NEW p \in Proc, Typed', Iput(p) PROVE IInv' /\ Used' = Used
<1>0. PICK i \in Ino : i = ip[p]
  BY Uses DEF Iput, Runs, Holding
<1> USE DEF Iput, Goto, Yield, Typed, Runs, table, super, IUNLOCK
<1>1. /\ Typed /\ Typed' /\ ControlOf(p) /\ FoundBy(p) /\ OneSearch /\ NoLostWakeup
      /\ pc[p] \in Holding
  BY DEF IInv, Control, Found_, Holding
<1>2. /\ i \in Ino /\ Holds(p, i) /\ count[i] \in Nat \ {0} /\ i \in cached /\ i \in locked
      /\ \A q \in Proc \ {p} : ~Holds(q, i)
      /\ Loaded(i) <=> pc[p] # "iread"
      /\ pc[p] # "iread" => Cur(i) = Clean(core[i])
      /\ count[i] = 1 => \A q \in Proc : i \notin open[q]
  BY <1>0, <1>1, Held
<1>3. CopiesOf(i)
  BY <1>2 DEF IInv, Copies
<1>4. wanted' = wanted \ {i} /\ \A q \in Proc : chan'[q] \in {chan[q], NoIno} /\ chan'[q] # i
  BY <1>0, <1>1, <1>2, UnwantWakes
<1>5. /\ \A q \in Proc \ {p} : pc'[q] = pc[q] /\ op'[q] = op[q] /\ ip'[q] = ip[q]
      /\ pc'[p] \in {"user", "loop"} /\ op'[p] \in {"none", "create"} /\ ip'[p] = NoIno
      /\ pc'[p] = "loop" => op'[p] = "create"
  BY <1>1, Finished
<1>6. Others(p) /\ Only(p, i)
  BY <1>0, <1>1, <1>2, <1>3, <1>4, <1>5, ValueAssumption DEF Others, Only, Holds, Holding
<1>7. LockStep(p, i)
  BY <1>0, <1>1, <1>2, <1>3, <1>4, <1>5, ValueAssumption DEF LockStep, Holds, Bit, ControlOf, NoLostWakeup
<1>8. Cur(i)' = IF i \in cached' /\ ~(pc'[p] = "iread" /\ ip'[p] = i)
                THEN Clean(core'[i]) ELSE disk'[i]
  BY <1>1, <1>2, <1>6, CurNow
<1>9. Loaded(i)' <=> i \in cached' /\ ~(pc'[p] = "iread" /\ ip'[p] = i)
  BY <1>1, <1>2, <1>6, CurNow
<1>10. Cur(i)' = Cur(i)
  BY <1>0, <1>1, <1>2, <1>3, <1>5, <1>8 DEF Cur, Clean, Dinode, Core, Holding
<1>11. FileStep(p, i)
  <2>1. Loaded(i)' /\ core'[i].dirty = FALSE => disk'[i] = Clean(core'[i])
    BY <1>0, <1>1, <1>2, <1>3, <1>5, <1>9 DEF CopiesOf, Clean, Dinode, Core, Holding
  <2>2. i \in cached' /\ count'[i] = 0 => core'[i].dirty = FALSE
    BY <1>0, <1>1, <1>2, <1>3 DEF CopiesOf, Core
  <2>3. i \in open'[p] => i \in open[p] \/ Cur(i).mode = TRUE
    BY <1>0, <1>1, <1>2, <1>3 DEF Clean
  <2> QED BY <1>0, <1>6, <1>10, <2>1, <2>2, <2>3, SameFile
<1>12. Knows(p)'
  BY <1>0, <1>1, <1>2, <1>3, <1>5 DEF Knows, FoundBy, Core, CopiesOf, Clean
<1>13. ControlOf(p)' /\ Alone(p)
  BY <1>0, <1>1, <1>2, <1>3, <1>4, <1>5 DEF ControlOf, Alone, OneSearch, Searches, Holding
<1>14. Used' = Used
  BY <1>1, <1>2, <1>6, <1>10, UsedStep
<1> QED BY <1>0, <1>6, <1>7, <1>11, <1>12, <1>13, <1>14, HolderStep DEF CallStep

LEMMA IputLastStep == ASSUME IInv, NEW p \in Proc, Typed', IputLast(p) PROVE IInv' /\ Used' = Used
<1>0. PICK i \in Ino : i = ip[p]
  BY Uses DEF IputLast, Runs, Holding
<1> USE DEF IputLast, Goto, Yield, Typed, Runs, table, super, IUNLOCK
<1>1. /\ Typed /\ Typed' /\ ControlOf(p) /\ FoundBy(p) /\ OneSearch /\ NoLostWakeup
      /\ pc[p] \in Holding
  BY DEF IInv, Control, Found_, Holding
<1>2. /\ i \in Ino /\ Holds(p, i) /\ count[i] \in Nat \ {0} /\ i \in cached /\ i \in locked
      /\ \A q \in Proc \ {p} : ~Holds(q, i)
      /\ Loaded(i) <=> pc[p] # "iread"
      /\ pc[p] # "iread" => Cur(i) = Clean(core[i])
      /\ count[i] = 1 => \A q \in Proc : i \notin open[q]
  BY <1>0, <1>1, Held
<1>3. CopiesOf(i)
  BY <1>2 DEF IInv, Copies
<1>4. wanted' = wanted \ {i} /\ \A q \in Proc : chan'[q] \in {chan[q], NoIno} /\ chan'[q] # i
  BY <1>0, <1>1, <1>2, UnwantWakes
<1>5. Others(p) /\ Only(p, i)
  BY <1>0, <1>1, <1>2, <1>3, <1>4, ValueAssumption DEF Others, Only, Holds, Holding
<1>6. LockStep(p, i)
  BY <1>0, <1>1, <1>2, <1>3, <1>4, ValueAssumption DEF LockStep, Holds, Bit, ControlOf, NoLostWakeup
<1>7. Cur(i)' = IF i \in cached' /\ ~(pc'[p] = "iread" /\ ip'[p] = i)
                THEN Clean(core'[i]) ELSE disk'[i]
  BY <1>1, <1>2, <1>5, CurNow
<1>8. Loaded(i)' <=> i \in cached' /\ ~(pc'[p] = "iread" /\ ip'[p] = i)
  BY <1>1, <1>2, <1>5, CurNow
<1>9. Cur(i)' = Cur(i)
  BY <1>0, <1>1, <1>2, <1>3, <1>7 DEF Cur, Clean, Dinode, Core, Holding
<1>10. FileStep(p, i)
  <2>1. Loaded(i)' /\ core'[i].dirty = FALSE => disk'[i] = Clean(core'[i])
    BY <1>0, <1>1, <1>2, <1>3, <1>8 DEF CopiesOf, Clean, Dinode, Core, Holding
  <2>2. i \in cached' /\ count'[i] = 0 => core'[i].dirty = FALSE
    BY <1>0, <1>1, <1>2, <1>3 DEF CopiesOf, Core
  <2>3. i \in open'[p] => i \in open[p] \/ Cur(i).mode = TRUE
    BY <1>0, <1>1, <1>2, <1>3 DEF Clean
  <2> QED BY <1>0, <1>5, <1>9, <2>1, <2>2, <2>3, SameFile
<1>11. Knows(p)'
  BY <1>0, <1>1, <1>2, <1>3 DEF Knows, FoundBy, Core, CopiesOf, Clean
<1>12. ControlOf(p)' /\ Alone(p)
  BY <1>0, <1>1, <1>2, <1>3, <1>4 DEF ControlOf, Alone, OneSearch, Searches, Holding
<1>13. Used' = Used
  BY <1>1, <1>2, <1>5, <1>9, UsedStep
<1> QED BY <1>0, <1>5, <1>6, <1>10, <1>11, <1>12, <1>13, HolderStep DEF CallStep

LEMMA IputCleanStep == ASSUME IInv, NEW p \in Proc, Typed', IputClean(p) PROVE IInv' /\ Used' = Used
<1>0. PICK i \in Ino : i = ip[p]
  BY Uses DEF IputClean, Runs, Holding
<1> USE DEF IputClean, Goto, Yield, Typed, Runs, table, super, IUNLOCK
<1>1. /\ Typed /\ Typed' /\ ControlOf(p) /\ FoundBy(p) /\ OneSearch /\ NoLostWakeup
      /\ pc[p] \in Holding
  BY DEF IInv, Control, Found_, Holding
<1>2. /\ i \in Ino /\ Holds(p, i) /\ count[i] \in Nat \ {0} /\ i \in cached /\ i \in locked
      /\ \A q \in Proc \ {p} : ~Holds(q, i)
      /\ Loaded(i) <=> pc[p] # "iread"
      /\ pc[p] # "iread" => Cur(i) = Clean(core[i])
      /\ count[i] = 1 => \A q \in Proc : i \notin open[q]
  BY <1>0, <1>1, Held
<1>3. CopiesOf(i)
  BY <1>2 DEF IInv, Copies
<1>4. wanted' = wanted \ {i} /\ \A q \in Proc : chan'[q] \in {chan[q], NoIno} /\ chan'[q] # i
  BY <1>0, <1>1, <1>2, UnwantWakes
<1>5. /\ \A q \in Proc \ {p} : pc'[q] = pc[q] /\ op'[q] = op[q] /\ ip'[q] = ip[q]
      /\ pc'[p] \in {"user", "loop"} /\ op'[p] \in {"none", "create"} /\ ip'[p] = NoIno
      /\ pc'[p] = "loop" => op'[p] = "create"
  BY <1>1, Finished
<1>6. Others(p) /\ Only(p, i)
  BY <1>0, <1>1, <1>2, <1>3, <1>4, <1>5, ValueAssumption DEF Others, Only, Holds, Holding
<1>7. LockStep(p, i)
  BY <1>0, <1>1, <1>2, <1>3, <1>4, <1>5, ValueAssumption DEF LockStep, Holds, Bit, ControlOf, NoLostWakeup
<1>8. Cur(i)' = IF i \in cached' /\ ~(pc'[p] = "iread" /\ ip'[p] = i)
                THEN Clean(core'[i]) ELSE disk'[i]
  BY <1>1, <1>2, <1>6, CurNow
<1>9. Loaded(i)' <=> i \in cached' /\ ~(pc'[p] = "iread" /\ ip'[p] = i)
  BY <1>1, <1>2, <1>6, CurNow
<1>10. Cur(i)' = Cur(i)
  BY <1>0, <1>1, <1>2, <1>3, <1>5, <1>8 DEF Cur, Clean, Dinode, Core, Holding
<1>11. FileStep(p, i)
  <2>1. Loaded(i)' /\ core'[i].dirty = FALSE => disk'[i] = Clean(core'[i])
    BY <1>0, <1>1, <1>2, <1>3, <1>5, <1>9 DEF CopiesOf, Clean, Dinode, Core, Holding
  <2>2. i \in cached' /\ count'[i] = 0 => core'[i].dirty = FALSE
    BY <1>0, <1>1, <1>2, <1>3 DEF CopiesOf, Core
  <2>3. i \in open'[p] => i \in open[p] \/ Cur(i).mode = TRUE
    BY <1>0, <1>1, <1>2, <1>3 DEF Clean
  <2> QED BY <1>0, <1>6, <1>10, <2>1, <2>2, <2>3, SameFile
<1>12. Knows(p)'
  BY <1>0, <1>1, <1>2, <1>3, <1>5 DEF Knows, FoundBy, Core, CopiesOf, Clean
<1>13. ControlOf(p)' /\ Alone(p)
  BY <1>0, <1>1, <1>2, <1>3, <1>4, <1>5 DEF ControlOf, Alone, OneSearch, Searches, Holding
<1>14. Used' = Used
  BY <1>1, <1>2, <1>6, <1>10, UsedStep
<1> QED BY <1>0, <1>6, <1>7, <1>11, <1>12, <1>13, <1>14, HolderStep DEF CallStep

LEMMA ReclaimStep == ASSUME IInv, NEW p \in Proc, Typed', Reclaim(p)
    PROVE  /\ IInv'
           /\ Used' = Used \ {ip[p]} /\ ip[p] \in Used \ named
           /\ \A q \in Proc : ip[p] \notin open[q]
<1>0. PICK i \in Ino : i = ip[p]
  BY Uses DEF Reclaim, Runs, Holding
<1> USE DEF Reclaim, Goto, Yield, Typed, Runs, table, super, IUNLOCK
<1>1. /\ Typed /\ Typed' /\ ControlOf(p) /\ FoundBy(p) /\ OneSearch /\ NoLostWakeup
      /\ pc[p] \in Holding
  BY DEF IInv, Control, Found_, Holding
<1>2. /\ i \in Ino /\ Holds(p, i) /\ count[i] \in Nat \ {0} /\ i \in cached /\ i \in locked
      /\ \A q \in Proc \ {p} : ~Holds(q, i)
      /\ Loaded(i) <=> pc[p] # "iread"
      /\ pc[p] # "iread" => Cur(i) = Clean(core[i])
      /\ count[i] = 1 => \A q \in Proc : i \notin open[q]
  BY <1>0, <1>1, Held
<1>3. CopiesOf(i)
  BY <1>2 DEF IInv, Copies
<1>4. wanted' = wanted /\ chan' = chan
  OBVIOUS
<1>5. Others(p) /\ Only(p, i)
  BY <1>0, <1>1, <1>2, <1>3, <1>4, ValueAssumption DEF Others, Only, Holds, Holding, Ifree
<1>6. LockStep(p, i)
  BY <1>0, <1>1, <1>2, <1>3, <1>4, ValueAssumption DEF LockStep, Holds, Bit, ControlOf, NoLostWakeup, Ifree
<1>7. Cur(i)' = IF i \in cached' /\ ~(pc'[p] = "iread" /\ ip'[p] = i)
                THEN Clean(core'[i]) ELSE disk'[i]
  BY <1>1, <1>2, <1>5, CurNow
<1>8. Loaded(i)' <=> i \in cached' /\ ~(pc'[p] = "iread" /\ ip'[p] = i)
  BY <1>1, <1>2, <1>5, CurNow
<1>9. Cur(i).mode = TRUE /\ i \notin named /\ (\A q \in Proc : i \notin open[q]) /\ core[i].nlink = 0
  BY <1>0, <1>1, <1>2, <1>3 DEF CopiesOf, FoundBy, Knows, Clean, Core, ControlOf
<1>10. Cur(i)'.mode = FALSE /\ Cur(i)'.nlink = 0 /\ i \notin named' /\ core'[i].dirty = TRUE
  BY <1>0, <1>1, <1>2, <1>3, <1>7, <1>9 DEF Clean, Core
<1>11. FileStep(p, i)
  <2>1. CopiesOf(i)'
    <3>1. (Clean(core[i]))' = Clean(core'[i])
      BY DEF Clean
    <3> QED BY <1>0, <1>1, <1>2, <1>3, <1>8, <1>9, <1>10, <3>1 DEF CopiesOf
  <2>2. tinode' = tinode + 1 /\ tinode \in Nat
    BY FreeType, InodesFinite DEF Ifree
  <2> QED BY <1>0, <1>1, <1>9, <1>10, <2>1, <2>2 DEF FileStep, Bit
<1>12. Knows(p)'
  BY <1>0, <1>1, <1>2, <1>3 DEF Knows, FoundBy, Core, CopiesOf, Clean
<1>13. ControlOf(p)' /\ Alone(p)
  BY <1>0, <1>1, <1>2, <1>3, <1>4 DEF ControlOf, Alone, OneSearch, Searches, Holding, Ifree
<1>14. /\ Used' = Used \ {i} /\ i \in Used \ named
       /\ \A q \in Proc : i \notin open[q]
  BY <1>1, <1>2, <1>5, <1>9, <1>10, UsedStep
<1> QED BY <1>0, <1>5, <1>6, <1>11, <1>12, <1>13, <1>14, HolderStep DEF CallStep

LEMMA ReleaseStep == ASSUME IInv, NEW p \in Proc, Typed', Release(p) PROVE IInv' /\ Used' = Used
<1>0. PICK i \in Ino : i = ip[p]
  BY Uses DEF Release, Runs, Holding
<1> USE DEF Release, Goto, Yield, Typed, Runs, table, super, IUNLOCK
<1>1. /\ Typed /\ Typed' /\ ControlOf(p) /\ FoundBy(p) /\ OneSearch /\ NoLostWakeup
      /\ pc[p] \in Holding
  BY DEF IInv, Control, Found_, Holding
<1>2. /\ i \in Ino /\ Holds(p, i) /\ count[i] \in Nat \ {0} /\ i \in cached /\ i \in locked
      /\ \A q \in Proc \ {p} : ~Holds(q, i)
      /\ Loaded(i) <=> pc[p] # "iread"
      /\ pc[p] # "iread" => Cur(i) = Clean(core[i])
      /\ count[i] = 1 => \A q \in Proc : i \notin open[q]
  BY <1>0, <1>1, Held
<1>3. CopiesOf(i)
  BY <1>2 DEF IInv, Copies
<1>4. wanted' = wanted \ {i} /\ \A q \in Proc : chan'[q] \in {chan[q], NoIno} /\ chan'[q] # i
  BY <1>0, <1>1, <1>2, UnwantWakes
<1>5. /\ \A q \in Proc \ {p} : pc'[q] = pc[q] /\ op'[q] = op[q] /\ ip'[q] = ip[q]
      /\ pc'[p] \in {"user", "loop"} /\ op'[p] \in {"none", "create"} /\ ip'[p] = NoIno
      /\ pc'[p] = "loop" => op'[p] = "create"
  BY <1>1, Finished
<1>6. Others(p) /\ Only(p, i)
  BY <1>0, <1>1, <1>2, <1>3, <1>4, <1>5, ValueAssumption DEF Others, Only, Holds, Holding
<1>7. LockStep(p, i)
  BY <1>0, <1>1, <1>2, <1>3, <1>4, <1>5, ValueAssumption DEF LockStep, Holds, Bit, ControlOf, NoLostWakeup
<1>8. Cur(i)' = IF i \in cached' /\ ~(pc'[p] = "iread" /\ ip'[p] = i)
                THEN Clean(core'[i]) ELSE disk'[i]
  BY <1>1, <1>2, <1>6, CurNow
<1>9. Loaded(i)' <=> i \in cached' /\ ~(pc'[p] = "iread" /\ ip'[p] = i)
  BY <1>1, <1>2, <1>6, CurNow
<1>10. Cur(i)' = Cur(i)
  BY <1>0, <1>1, <1>2, <1>3, <1>5, <1>8 DEF Cur, Clean, Dinode, Core, Holding
<1>11. FileStep(p, i)
  <2>1. Loaded(i)' /\ core'[i].dirty = FALSE => disk'[i] = Clean(core'[i])
    BY <1>0, <1>1, <1>2, <1>3, <1>5, <1>9 DEF CopiesOf, Clean, Dinode, Core, Holding
  <2>2. i \in cached' /\ count'[i] = 0 => core'[i].dirty = FALSE
    BY <1>0, <1>1, <1>2, <1>3 DEF CopiesOf, Core
  <2>3. i \in open'[p] => i \in open[p] \/ Cur(i).mode = TRUE
    BY <1>0, <1>1, <1>2, <1>3 DEF Clean
  <2> QED BY ZenonT(60), <1>0, <1>6, <1>10, <2>1, <2>2, <2>3, SameFile
<1>12. Knows(p)'
  BY <1>0, <1>1, <1>2, <1>3, <1>5 DEF Knows, FoundBy, Core, CopiesOf, Clean
<1>13. ControlOf(p)' /\ Alone(p)
  BY <1>0, <1>1, <1>2, <1>3, <1>4, <1>5 DEF ControlOf, Alone, OneSearch, Searches, Holding
<1>14. Used' = Used
  BY <1>1, <1>2, <1>6, <1>10, UsedStep
<1> QED BY <1>0, <1>6, <1>7, <1>11, <1>12, <1>13, <1>14, HolderStep DEF CallStep

-----------------------------------------------------------------------------
(* The entry of an unreferenced inode *)

LEMMA RecycleStep == ASSUME IInv, NEW i \in Ino, Recycle(i) PROVE IInv' /\ Used' = Used
<1> USE DEF Recycle, super, calls
<1>1. /\ Typed /\ CopiesOf(i) /\ LockOf(i) /\ i \in cached /\ count[i] = 0
  BY DEF IInv, Copies, Locks
<1>2. i \notin locked /\ \A q \in Proc : ~Holds(q, i)
  <2>1. IsFiniteSet(Holders(i)) /\ IsFiniteSet(Openers(i))
    BY ProcAssumption, FS_Subset DEF Holders, Openers
  <2>2. Cardinality(Holders(i)) \in Nat /\ Cardinality(Openers(i)) \in Nat
    BY <2>1, FS_CardinalityType
  <2>3. Cardinality(Holders(i)) = 0
    BY <1>1, <2>2 DEF LockOf
  <2>4. Holders(i) = {}
    BY <2>1, <2>3, FS_EmptySet
  <2> QED BY <1>1, <2>4 DEF LockOf, Holders
<1>3. Loaded(i) /\ ~Loaded(i)' /\ core[i].dirty = FALSE
  BY <1>1, <1>2 DEF Loaded, Holds, CopiesOf
<1>4. disk[i] = Clean(core[i]) /\ Cur(i)' = Cur(i)
  BY <1>1, <1>3 DEF CopiesOf, Cur
<1>5. Typed'
  <2>1. NoCore \in Core
    BY DEF NoCore, Core
  <2> QED BY <1>1, <2>1 DEF Typed
<1>6. \A j \in Ino \ {i} : core'[j] = core[j] /\ (j \in cached' <=> j \in cached)
  BY <1>1 DEF Typed
<1>7. \A j \in Ino \ {i} : (Loaded(j)' <=> Loaded(j)) /\ Cur(j)' = Cur(j)
  <2>1. \A j \in Ino \ {i} : Loaded(j)' <=> Loaded(j)
    BY <1>6 DEF Loaded
  <2> QED BY <1>6, <2>1 DEF Cur, Clean
<1>8. Control' /\ OneSearch' /\ NoLostWakeup'
  BY DEF IInv, Control, ControlOf, Searches, OneSearch, NoLostWakeup
<1>9. Locks'
  <2> SUFFICES ASSUME NEW j \in Ino PROVE LockOf(j)'
    BY DEF Locks
  <2>1. LockOf(j)
    BY DEF IInv, Locks
  <2>2. Holders(j)' = Holders(j) /\ Openers(j)' = Openers(j)
    BY DEF Holders, Openers, Holds
  <2>3. count'[j] > 0 => j \in cached'
    BY <1>1, <1>6, <2>1 DEF LockOf
  <2> QED BY <2>1, <2>2, <2>3 DEF LockOf, Holds
<1>10. Copies'
  <2>1. ASSUME NEW j \in Ino \ {i} PROVE CopiesOf(j)'
    <3>1. CopiesOf(j)
      BY DEF IInv, Copies
    <3> QED BY <1>6, <1>7, <3>1 DEF CopiesOf, Clean
  <2>2. CopiesOf(i)'
    BY <1>1, <1>3, <1>4 DEF CopiesOf
  <2> QED BY <2>1, <2>2 DEF Copies
<1>11. Found_'
  <2> SUFFICES ASSUME NEW p \in Proc PROVE FoundBy(p)'
    BY DEF Found_
  <2>1. FoundBy(p) /\ ControlOf(p)
    BY DEF IInv, Found_, Control
  <2>2. pc[p] \in Holding => ip[p] \in Ino \ {i}
    BY <1>2, <2>1 DEF ControlOf, Holds, Holding
  <2>3. Knows(p)'
    BY <1>6, <2>1, <2>2 DEF FoundBy, Knows, Holding
  <2>4. \A j \in open'[p] : Cur(j)'.mode = TRUE
    BY <1>1, <1>4, <1>7, <2>1 DEF FoundBy, Typed
  <2> QED BY <2>3, <2>4 DEF FoundBy
<1>12. Used' = Used
  BY <1>1, <1>4, <1>5, <1>7, UsedNow
<1>13. FreeCount'
  BY <1>12 DEF IInv, FreeCount
<1> QED BY <1>5, <1>8, <1>9, <1>10, <1>11, <1>12, <1>13 DEF IInv

-----------------------------------------------------------------------------
(* The invariant *)

LEMMA InitIInv == Init => IInv
<1> SUFFICES ASSUME Init PROVE IInv
  OBVIOUS
<1>1. \A i \in Ino : disk[i].mode = (i \in named) /\ disk[i].nlink = IF i \in named THEN 1 ELSE 0
  BY DEF Init
<1>2. Typed
  <2>1. NoCore \in Core
    BY DEF NoCore, Core
  <2>2. \A i \in Ino : [mode |-> i \in named, nlink |-> IF i \in named THEN 1 ELSE 0] \in Dinode
    BY DEF Dinode
  <2>3. 1 \in 1..Blocks /\ 0 \in 0..Behind
    BY ListAssumption
  <2>4. BlockStart(1) \in Ino
    BY <2>3, BlockStarts
  <2>5. <<>> \in Seq(Ino)
    OBVIOUS
  <2> QED BY <2>1, <2>2, <2>3, <2>4, <2>5 DEF Init, Typed, Where
<1>3. Control /\ OneSearch /\ NoLostWakeup
  BY ValueAssumption DEF Init, Control, ControlOf, Searches, OneSearch, NoLostWakeup, Holding
<1>4. Locks
  <2> SUFFICES ASSUME NEW i \in Ino PROVE LockOf(i)
    BY DEF Locks
  <2>1. \A p \in Proc : ~Holds(p, i) /\ i \notin open[p]
    BY DEF Init, Holds
  <2>2. Holders(i) = {} /\ Openers(i) = {}
    BY <2>1 DEF Holders, Openers
  <2>3. Cardinality(Holders(i)) = 0 /\ Cardinality(Openers(i)) = 0
    BY <2>2, FS_EmptySet
  <2> QED BY <2>1, <2>3 DEF LockOf, Init
<1>5. \A i \in Ino : ~Loaded(i) /\ Cur(i) = disk[i]
  BY DEF Init, Loaded, Cur
<1>6. Copies
  <2>1. \A i \in Ino : i \in named => disk[i].nlink = 1 /\ disk[i].mode = TRUE
    BY <1>1
  <2>2. \A i \in Ino : i \notin named => disk[i].nlink = 0
    BY <1>1
  <2>3. cached = {}
    BY DEF Init
  <2> QED BY <1>5, <2>1, <2>2, <2>3 DEF Copies, CopiesOf
<1>7. Found_
  BY DEF Init, Found_, FoundBy, Knows
<1>8. FreeCount
  <2>1. Used = named
    BY <1>1 DEF Used, Init
  <2> QED BY <2>1 DEF FreeCount, Init
<1> QED BY <1>2, <1>3, <1>4, <1>6, <1>7, <1>8 DEF IInv

LEMMA NextIInv == IInv /\ [Next]_vars => IInv'
<1> SUFFICES ASSUME IInv, [Next]_vars PROVE IInv'
  OBVIOUS
<1>1. ASSUME NEW p \in Proc, Step(p) PROVE IInv'
  <2>1. Typed'
    BY <1>1, TypedStep
  <2> QED BY <1>1, <2>1, QuietActions,
             IgetHitStep, IgetMissStep, CloseStep, SyncStep, IgetReadStep, MakeStep,
             RetryStep, MadeStep, EnterStep, OpenStep, StartUnlinkStep, UnlinkStep,
             SyncedStep, IputStep, IputLastStep, IputCleanStep, ReclaimStep, ReleaseStep DEF Step
<1>2. ASSUME NEW i \in Ino, Recycle(i) PROVE IInv'
  BY <1>2, RecycleStep
<1>3. CASE UNCHANGED vars
  <2> USE <1>3 DEF vars, table, super, calls
  <2>1. \A i \in Ino : (Loaded(i)' <=> Loaded(i)) /\ Cur(i)' = Cur(i)
    <3>1. \A i \in Ino : Loaded(i)' <=> Loaded(i)
      BY DEF Loaded
    <3> QED BY <3>1 DEF Cur, Clean
  <2>2. \A i \in Ino : Holders(i)' = Holders(i) /\ Openers(i)' = Openers(i)
    BY DEF Holders, Openers, Holds
  <2>3. Typed'
    BY DEF IInv, Typed
  <2>4. Control' /\ OneSearch' /\ NoLostWakeup'
    BY DEF IInv, Control, ControlOf, Searches, OneSearch, NoLostWakeup
  <2>5. Locks'
    BY <2>2 DEF IInv, Locks, LockOf, Holds
  <2>6. Copies'
    BY <2>1 DEF IInv, Copies, CopiesOf, Clean
  <2>7. Found_'
    BY <2>1 DEF IInv, Found_, FoundBy, Knows, Typed
  <2>8. FreeCount'
    BY DEF IInv, FreeCount, Used
  <2> QED BY <2>3, <2>4, <2>5, <2>6, <2>7, <2>8 DEF IInv
<1> QED BY <1>1, <1>2, <1>3 DEF Next

LEMMA AlwaysIInv == Spec => []IInv
BY InitIInv, NextIInv, PTL DEF Spec

-----------------------------------------------------------------------------
(* Inode implements Files *)

(* The refinement mapping of making. *)
Making == [p \in Proc |-> IF pc[p] \in {"made", "enter"} THEN ip[p] ELSE NoIno]

(* The user sees nothing of the step. *)
Unseen == Used' = Used /\ named' = named /\ open' = open /\ Making' = Making

LEMMA UnseenStutters == Unseen => UNCHANGED Files!vars
BY DEF Unseen, Making, Files!vars

LEMMA UnseenSteps ==
    ASSUME IInv, NEW p \in Proc, Used' = Used,
           \/ Start(p) \/ WaitLock(p) \/ IgetFull(p) \/ WaitScan(p) \/ Ialloc(p)
           \/ Pop(p) \/ StartScan(p) \/ Scan(p) \/ ScanEnds(p)
           \/ IgetHit(p) \/ IgetMiss(p) \/ Sync(p) \/ IgetRead(p) \/ Retry(p) \/ Made(p)
           \/ StartUnlink(p) \/ Synced(p) \/ Iput(p) \/ IputLast(p) \/ IputClean(p) \/ Release(p)
    PROVE  Unseen
<1> USE DEF Goto, Yield, Typed, Runs, table, super
<1>0. Typed
  BY DEF IInv
<1> SUFFICES named' = named /\ open' = open /\ Making' = Making
  BY DEF Unseen
<1>1. CASE Start(p) BY <1>0, <1>1 DEF Start, Making
<1>2. CASE WaitLock(p) BY <1>0, <1>2 DEF WaitLock, Making, SleepOn
<1>3. CASE IgetFull(p)
  <2>1. /\ \A q \in Proc \ {p} : pc'[q] = pc[q] /\ ip'[q] = ip[q]
        /\ pc'[p] \in {"user", "loop"}
    BY <1>0, <1>3, Finished DEF IgetFull
  <2> QED BY <1>0, <1>3, <2>1 DEF IgetFull, Making
<1>4. CASE WaitScan(p) BY <1>0, <1>4 DEF WaitScan, Making, SleepOn
<1>5. CASE Ialloc(p) BY <1>0, <1>5 DEF Ialloc, Making
<1>6. CASE Pop(p) BY <1>0, <1>6 DEF Pop, Making
<1>7. CASE StartScan(p) BY <1>0, <1>7 DEF StartScan, Making
<1>8. CASE Scan(p) BY <1>0, <1>8 DEF Scan, Making
<1>9. CASE ScanEnds(p)
  <2>1. /\ \A q \in Proc \ {p} : pc'[q] = pc[q] /\ ip'[q] = ip[q]
        /\ pc'[p] \in {"user", "loop"}
    BY <1>0, <1>9, Finished DEF ScanEnds
  <2> QED BY <1>0, <1>9, <2>1 DEF ScanEnds, Making
<1>10. CASE IgetHit(p) BY <1>0, <1>10 DEF IgetHit, Making
<1>11. CASE IgetMiss(p) BY <1>0, <1>11 DEF IgetMiss, Making
<1>12. CASE Sync(p) BY <1>0, <1>12 DEF Sync, Making
<1>13. CASE IgetRead(p) BY <1>0, <1>13 DEF IgetRead, Making
<1>14. CASE Retry(p) BY <1>0, <1>14 DEF Retry, Making
<1>15. CASE Made(p) BY <1>0, <1>15 DEF Made, Making
<1>16. CASE StartUnlink(p) BY <1>0, <1>16 DEF StartUnlink, Making
<1>17. CASE Synced(p) BY <1>0, <1>17 DEF Synced, Making
<1>18. CASE Iput(p)
  <2>1. /\ \A q \in Proc \ {p} : pc'[q] = pc[q] /\ ip'[q] = ip[q]
        /\ pc'[p] \in {"user", "loop"}
    BY <1>0, <1>18, Finished DEF Iput
  <2> QED BY <1>0, <1>18, <2>1 DEF Iput, Making
<1>19. CASE IputLast(p) BY <1>0, <1>19 DEF IputLast, Making
<1>20. CASE IputClean(p)
  <2>1. /\ \A q \in Proc \ {p} : pc'[q] = pc[q] /\ ip'[q] = ip[q]
        /\ pc'[p] \in {"user", "loop"}
    BY <1>0, <1>20, Finished DEF IputClean
  <2> QED BY <1>0, <1>20, <2>1 DEF IputClean, Making
<1>21. CASE Release(p)
  <2>1. /\ \A q \in Proc \ {p} : pc'[q] = pc[q] /\ ip'[q] = ip[q]
        /\ pc'[p] \in {"user", "loop"}
    BY <1>0, <1>21, Finished DEF Release
  <2> QED BY <1>0, <1>21, <2>1 DEF Release, Making
<1> QED BY <1>1, <1>2, <1>3, <1>4, <1>5, <1>6, <1>7, <1>8, <1>9, <1>10, <1>11,
           <1>12, <1>13, <1>14, <1>15, <1>16, <1>17, <1>18, <1>19, <1>20, <1>21

LEMMA FilesInit == Init => Files!Init
<1> SUFFICES ASSUME Init PROVE Files!Init
  OBVIOUS
<1>1. Used = named
  <2>1. \A i \in Ino : disk[i].mode = (i \in named)
    BY DEF Init
  <2> QED BY <2>1 DEF Used, Init
<1> QED BY <1>1 DEF Init, Files!Init

(* What the other steps are to the user. *)
LEMMA FilesStep ==
    ASSUME IInv, NEW p \in Proc, Step(p), Typed'
    PROVE  [Files!Next]_(Files!vars)
<1> USE DEF Goto, Yield, Typed, Runs, table, super
<1>0. /\ Typed /\ ControlOf(p) /\ FoundBy(p)
      /\ op[p] = "open" /\ pc[p] = "got" => ip[p] \in named
      /\ pc[p] \in Holding \cup {"ilock"} => ip[p] \in Ino
  BY Uses DEF IInv, Control, ControlOf, Found_, Searches
<1>1. CASE Make(p)
  <2>1. PICK i \in Ino : i = ip[p]
    BY <1>0, <1>1 DEF Make, Holding
  <2>2. Used' = Used \cup {i} /\ i \notin Used
    BY <1>1, <2>1, MakeStep
  <2>3. Making[p] = NoIno /\ Making' = [Making EXCEPT ![p] = i] /\ named' = named /\ open' = open
    BY <1>0, <1>1, <2>1 DEF Make, Making
  <2>4. Files!Make(p)
    BY <2>1, <2>2, <2>3 DEF Files!Make, Making
  <2> QED BY <2>4 DEF Files!Next
<1>2. CASE Enter(p)
  <2>1. PICK i \in Ino : i = ip[p]
    BY <1>0, <1>2 DEF Enter, Holding
  <2>2. Used' = Used
    BY <1>2, EnterStep
  <2>3. Making[p] = i /\ Making' = [Making EXCEPT ![p] = NoIno] /\ open' = open
    BY <1>0, <1>2, <2>1 DEF Enter, Making
  <2>4. named' \in {named, named \cup {i}}
    BY <1>2, <2>1 DEF Enter
  <2>5. Files!Made(p)
    BY <2>1, <2>2, <2>3, <2>4, ValueAssumption DEF Files!Made, Making
  <2> QED BY <2>5 DEF Files!Next
<1>3. CASE Open(p)
  <2>1. PICK i \in Ino : i = ip[p]
    BY <1>0, <1>3 DEF Open, Holding
  <2>2. Used' = Used /\ i \in named
    BY <1>0, <1>3, <2>1, OpenStep DEF Open, FoundBy, Knows, Searches
  <2>3. /\ \A q \in Proc \ {p} : pc'[q] = pc[q] /\ ip'[q] = ip[q]
        /\ pc'[p] \in {"user", "loop"}
    BY <1>0, <1>3, Finished DEF Open
  <2>4. Making' = Making /\ named' = named /\ open' = [open EXCEPT ![p] = @ \cup {i}]
    BY <1>0, <1>3, <2>1, <2>3 DEF Open, Making
  <2>5. Files!Open(p, i)
    BY <2>2, <2>4 DEF Files!Open, Making
  <2> QED BY <2>1, <2>5 DEF Files!Next
<1>4. CASE Close(p)
  <2>1. PICK i \in Ino : i = ip[p]
    BY <1>0, <1>4 DEF Close, Holding
  <2>2. Used' = Used /\ i \in open[p]
    BY <1>0, <1>4, <2>1, CloseStep DEF Close, ControlOf
  <2>3. Making' = Making /\ named' = named /\ open' = [open EXCEPT ![p] = @ \ {i}]
    BY <1>0, <1>4, <2>1 DEF Close, Making
  <2>4. Files!Close(p, i)
    BY <2>2, <2>3 DEF Files!Close, Making
  <2> QED BY <2>1, <2>4 DEF Files!Next
<1>5. CASE Unlink(p)
  <2>1. PICK i \in Ino : i = ip[p]
    BY <1>0, <1>5 DEF Unlink, Holding
  <2>2. Used' = Used /\ i \in named
    BY <1>5, <2>1, UnlinkStep, UnlinkHas DEF Unlink
  <2>3. Making' = Making /\ open' = open /\ (named' = named \/ named' = named \ {i})
    BY <1>0, <1>5, <2>1 DEF Unlink, Making
  <2>4. Files!Remove(i) \/ UNCHANGED Files!vars
    BY <2>2, <2>3 DEF Files!Remove, Files!vars, Making
  <2> QED BY <2>1, <2>4 DEF Files!Next
<1>6. CASE Reclaim(p)
  <2>1. PICK i \in Ino : i = ip[p]
    BY <1>0, <1>6 DEF Reclaim, Holding
  <2>2. Used' = Used \ {i} /\ i \in Used \ named /\ \A q \in Proc : i \notin open[q]
    BY <1>6, <2>1, ReclaimStep
  <2>3. Making' = Making /\ open' = open /\ named' = named
    BY <1>0, <1>6, <2>1 DEF Reclaim, Making
  <2>4. \A q \in Proc \ {p} : ~Holds(q, i)
    BY <1>6, <2>1, Held DEF Reclaim, Holding
  <2>5. \A q \in Proc : Making[q] # i
    BY <1>6, <2>1, <2>4, ValueAssumption DEF Making, Holds, Reclaim
  <2>6. Files!Free(i)
    BY <2>2, <2>3, <2>5 DEF Files!Free, Making
  <2> QED BY <2>1, <2>6 DEF Files!Next
<1>7. CASE \/ Start(p) \/ WaitLock(p) \/ IgetFull(p) \/ WaitScan(p) \/ Ialloc(p)
           \/ Pop(p) \/ StartScan(p) \/ Scan(p) \/ ScanEnds(p)
  BY <1>7, QuietActions, UnseenSteps, UnseenStutters
<1>8. CASE \/ IgetHit(p) \/ IgetMiss(p) \/ Sync(p) \/ IgetRead(p) \/ Retry(p) \/ Made(p)
           \/ StartUnlink(p) \/ Synced(p) \/ Iput(p) \/ IputLast(p) \/ IputClean(p) \/ Release(p)
  <2>1. Used' = Used
    BY <1>8, IgetHitStep, IgetMissStep, SyncStep, IgetReadStep, RetryStep, MadeStep, StartUnlinkStep,
       SyncedStep, IputStep, IputLastStep, IputCleanStep, ReleaseStep
  <2> QED BY <1>8, <2>1, UnseenSteps, UnseenStutters
<1> QED BY <1>1, <1>2, <1>3, <1>4, <1>5, <1>6, <1>7, <1>8 DEF Step

(* Every variable has its type, and fs_tinode is never negative and never  *)
(* more than the inodes of the file system, however ialloc, ifree and the  *)
(* last iput of a removed file interleave.                                 *)
THEOREM TypeCorrect == Spec => []TypeOK
<1>1. ASSUME IInv PROVE TypeOK
  <2>1. Typed /\ tinode \in 0..Cardinality(Ino)
    BY <1>1, FreeType DEF IInv
  <2>2. wanted \subseteq locked
    BY <1>1 DEF IInv, Locks, LockOf, Typed
  <2>3. locked \subseteq cached
    BY <1>1, Unheld DEF IInv, Typed
  <2> QED BY <2>1, <2>2, <2>3 DEF Typed, TypeOK
<1> QED BY <1>1, AlwaysIInv, PTL

(* ILOCKED is a lock and i_count counts the calls and the open files that  *)
(* have the inode, though iput and irele unlock it and lock it again.      *)
THEOREM RefsCounted == Spec => []Refs
<1>1. ASSUME IInv PROVE Refs
  <2>1. \A i \in Ino : LockOf(i)
    BY <1>1 DEF IInv, Locks
  <2>2. locked \subseteq Ino
    BY <1>1 DEF IInv, Typed
  <2>3. locked = {i \in Ino : \E p \in Proc : Holds(p, i)}
    BY <2>1, <2>2 DEF LockOf
  <2>4. \A i \in Ino : count[i] = Cardinality({p \in Proc : Holds(p, i)})
                                  + Cardinality({p \in Proc : i \in open[p]})
    BY <2>1 DEF LockOf, Holders, Openers
  <2> QED BY <2>1, <2>3, <2>4 DEF Refs, LockOf
<1> QED BY <1>1, AlwaysIInv, PTL

(* Nobody sleeps for an inode that is not locked, for one whose holder     *)
(* will not call wakeup, or for the scan of the i-list when there is none. *)
THEOREM WakeupKept == Spec => []NoLostWakeup
BY AlwaysIInv, PTL DEF IInv

(* fs_tinode is the number of free inodes between any two steps.           *)
THEOREM FreeCounted == Spec => []FreeCount
BY AlwaysIInv, PTL DEF IInv

(* Inode allocation gives each file an inode of its own and frees it when  *)
(* the file has no name, nobody has it open and nobody is making it: what  *)
(* ialloc, ifree, iput and irele do to the copies of an inode in core and  *)
(* on the disk and to the list in the super block is an implementation.    *)
THEOREM FilesImplemented == Spec => FilesSpec
<1>1. IInv /\ IInv' /\ [Next]_vars => [Files!Next]_(Files!vars)
  <2> SUFFICES ASSUME IInv, IInv', [Next]_vars PROVE [Files!Next]_(Files!vars)
    OBVIOUS
  <2>1. ASSUME NEW p \in Proc, Step(p) PROVE [Files!Next]_(Files!vars)
    BY <2>1, FilesStep DEF IInv
  <2>2. ASSUME NEW i \in Ino, Recycle(i) PROVE UNCHANGED Files!vars
    <3>1. Used' = Used
      BY <2>2, RecycleStep
    <3>2. Unseen
      BY <2>2, <3>1 DEF Recycle, calls, Unseen, Making
    <3> QED BY <3>2, UnseenStutters
  <2>3. CASE UNCHANGED vars
    <3>1. Unseen
      BY <2>3 DEF vars, table, super, calls, Unseen, Making, Used
    <3> QED BY <3>1, UnseenStutters
  <2> QED BY <2>1, <2>2, <2>3 DEF Next
<1> QED BY <1>1, FilesInit, AlwaysIInv, PTL DEF Spec, FilesSpec, Files!Spec

=============================================================================

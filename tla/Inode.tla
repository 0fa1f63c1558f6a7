-------------------------------- MODULE Inode --------------------------------
(***************************************************************************)
(* In-core inodes and the allocation of inodes on one file system: iget,   *)
(* iput, irele and iupdat (src/sys/sys/ufs_inode.c), ialloc and ifree      *)
(* (ufs_alloc.c), and the calls that make, open, remove, close and sync    *)
(* files, as far as they use them.                                         *)
(*                                                                         *)
(* As in Bio a process keeps the processor (cpu) until it sleeps; it       *)
(* sleeps for an inode lock, for fs_ilock, and in every bread and bwrite.  *)
(* No interrupt touches an inode.  The blocks of inodes are seen through   *)
(* the buffer cache, so disk is what bread returns.  Transfers do not      *)
(* fail.  Files have one name, each in a directory of its own, whose lock  *)
(* is held from the search for the name to the end of namei or of unlink.  *)
(***************************************************************************)
EXTENDS SequencesExt, Integers

CONSTANTS
    Proc,       \* processes
    Blocks,     \* blocks of the i-list (fs_isize - SUPERB - 1)
    INOPB,      \* inodes in a block of the i-list
    NICINOD,    \* entries of fs_inode
    Behind,     \* 4 * NICINOD in ialloc
    NoIno, NoProc, ILock    \* values of no other set

(* Inode <<b, k>> is the k-th of block b of the i-list. *)
Ino == (1..Blocks) \X (1..INOPB)

ASSUME ListAssumption == {Blocks, INOPB, NICINOD, Behind} \subseteq Nat \ {0}
ASSUME ProcAssumption == IsFiniteSet(Proc) /\ NoProc \notin Proc
ASSUME ValueAssumption == NoIno \notin Ino /\ ILock \notin Ino /\ NoIno # ILock

VARIABLES
    disk,       \* disk[i]: the inode in the i-list, as the buffer cache has it
    core,       \* core[i]: its copy in the inode table, if it has one
    cached,     \* the inodes on a hash chain of the table (ifind finds them)
    locked,     \* those with ILOCKED
    wanted,     \* those with IWANT
    count,      \* count[i]: i_count
    named,      \* the inodes with a directory entry
    inodes,     \* the super block's free inodes fs_inode[0..fs_ninode-1]
    ilock,      \* fs_ilock is not 0
    lasti,      \* the block fs_lasti is the first inode of
    nbehind,    \* fs_nbehind
    tinode,     \* fs_tinode
    pc, op,     \* where each process is, and the call it is serving
    ip,         \* ip[p]: the inode p works on
    open,       \* open[p]: the inodes of p's open files
    at, first,  \* locals of ialloc: the inode it looks at, the first pass
    chan,       \* what p sleeps on, NoIno when it is awake
    cpu         \* the process that has the processor inside the kernel

table == <<disk, core, cached, locked, wanted, count, named>>
super == <<inodes, ilock, lasti, nbehind, tinode>>
calls == <<pc, op, ip, open, at, first, chan, cpu>>
vars == <<table, super, calls>>

(* mode: i_mode is not 0; dirty: one of IUPD, IACC, ICHG, IMOD is set. *)
Dinode == [mode : BOOLEAN, nlink : 0..1]
Core == [mode : BOOLEAN, nlink : 0..1, dirty : BOOLEAN]

(* No copy in core. *)
NoCore == [mode |-> FALSE, nlink |-> 0, dirty |-> FALSE]

BlockOf(i) == i[1]
BlockStart(b) == <<b, 1>>
LastIno == <<Blocks, INOPB>>
EndsBlock(i) == i[2] = INOPB

-----------------------------------------------------------------------------
(* Control *)

Runs(p, s) == pc[p] = s /\ chan[p] = NoIno /\ cpu \in {p, NoProc}

Goto(p, s) == pc' = [pc EXCEPT ![p] = s] /\ cpu' = p

(* Sleep in bread or bwrite, or go back to user mode: others may run. *)
Yield(p, s) == pc' = [pc EXCEPT ![p] = s] /\ cpu' = NoProc

SleepOn(p, c) == chan' = [chan EXCEPT ![p] = c] /\ cpu' = NoProc

Wakeup(c) == chan' = [p \in Proc |-> IF chan[p] = c THEN NoIno ELSE chan[p]]

(* IUNLOCK: the processes that set IWANT are woken. *)
Unwant(i) == /\ wanted' = wanted \ {i}
             /\ IF i \in wanted THEN Wakeup(i) ELSE chan' = chan

IUNLOCK(i) == locked' = locked \ {i} /\ Unwant(i)

(* The call of p is over; its locals are gone. *)
Return(p) == /\ Yield(p, "user")
             /\ op' = [op EXCEPT ![p] = "none"]
             /\ ip' = [ip EXCEPT ![p] = NoIno]

(* p is done with inode ip[p]: back to ialloc's loop or to user mode. *)
Finish(p) == IF op[p] = "retry"
             THEN /\ Goto(p, "loop")
                  /\ op' = [op EXCEPT ![p] = "create"]
                  /\ ip' = [ip EXCEPT ![p] = NoIno]
             ELSE Return(p)

Init ==
    /\ named \in SUBSET Ino
    /\ disk = [i \in Ino |-> [mode |-> i \in named, nlink |-> IF i \in named THEN 1 ELSE 0]]
    /\ core = [i \in Ino |-> NoCore]
    /\ cached = {} /\ locked = {} /\ wanted = {}
    /\ count = [i \in Ino |-> 0]
    /\ inodes = <<>> /\ ilock = FALSE /\ lasti = 1 /\ nbehind = 0
    /\ tinode = Cardinality(Ino \ named)
    /\ pc = [p \in Proc |-> "user"]
    /\ op = [p \in Proc |-> "none"]
    /\ ip = [p \in Proc |-> NoIno]
    /\ open = [p \in Proc |-> {}]
    /\ at = [p \in Proc |-> BlockStart(1)]
    /\ first = [p \in Proc |-> FALSE]
    /\ chan = [p \in Proc |-> NoIno]
    /\ cpu = NoProc

(* The directory of inode i is not locked. *)
DirFree(i) == \A q \in Proc : ~(ip[q] = i /\ op[q] \in {"open", "unlink"})

(* Bound: a process has one file open. *)
MayOpen(p) == open[p] = {}

(* creat or mknod of a new name; open, unlink of an old one; close. *)
Start(p) ==
    /\ Runs(p, "user")
    /\ \/ /\ op' = [op EXCEPT ![p] = "create"]
          /\ Goto(p, "ialloc")
          /\ UNCHANGED <<ip, open>>
       \/ \E i \in named :
             /\ DirFree(i)
             /\ \/ op' = [op EXCEPT ![p] = "open"] /\ MayOpen(p)
                \/ op' = [op EXCEPT ![p] = "unlink"]
             /\ ip' = [ip EXCEPT ![p] = i]
             /\ Goto(p, "iget")
             /\ open' = open
       \/ \E i \in open[p] :
             /\ op' = [op EXCEPT ![p] = "close"]
             /\ ip' = [ip EXCEPT ![p] = i]
             /\ Goto(p, "ilock")
             /\ open' = open
    /\ UNCHANGED <<table, super, at, first, chan>>

-----------------------------------------------------------------------------
(* iget and the inode lock *)

(* Mutant of WaitLock: does not ask for the wakeup. *)
WaitLock_NoWant(p) ==
    LET i == ip[p] IN
    /\ Runs(p, "iget") \/ Runs(p, "ilock")
    /\ i \in cached \cap locked
    /\ SleepOn(p, i)
    /\ UNCHANGED <<disk, core, cached, locked, wanted, count, named, super, pc, op, ip, open, at, first>>

(* iget, ilock: the inode is in core and locked, so wait and look again. *)
WaitLock(p) ==
    LET i == ip[p] IN
    /\ Runs(p, "iget") \/ Runs(p, "ilock")
    /\ i \in cached \cap locked
    /\ wanted' = wanted \cup {i}
    /\ SleepOn(p, i)
    /\ UNCHANGED <<disk, core, cached, locked, count, named, super, pc, op, ip, open, at, first>>

(* Mutant of IgetHit: does not honour the locking protocol. *)
IgetHit_Locked(p) ==
    LET i == ip[p] IN
    /\ Runs(p, "iget") /\ i \in cached
    /\ count' = [count EXCEPT ![i] = @ + 1]
    /\ locked' = locked \cup {i}
    /\ Goto(p, "got")
    /\ UNCHANGED <<disk, core, cached, wanted, named, super, op, ip, open, at, first, chan>>

(* iget: the inode is in core; it may have been on the free list. *)
IgetHit(p) ==
    LET i == ip[p] IN
    /\ Runs(p, "iget") /\ i \in cached \ locked
    /\ count' = [count EXCEPT ![i] = @ + 1]
    /\ locked' = locked \cup {i}
    /\ Goto(p, "got")
    /\ UNCHANGED <<disk, core, cached, wanted, named, super, op, ip, open, at, first, chan>>

(* iget: give the inode the oldest free entry of the table and read it. *)
IgetMiss(p) ==
    LET i == ip[p] IN
    /\ Runs(p, "iget") /\ i \notin cached
    /\ cached' = cached \cup {i}
    /\ locked' = locked \cup {i}
    /\ count' = [count EXCEPT ![i] = 1]
    /\ Yield(p, "iread")
    /\ UNCHANGED <<disk, core, wanted, named, super, op, ip, open, at, first, chan>>

IgetRead(p) ==
    LET i == ip[p] IN
    /\ Runs(p, "iread")
    /\ core' = [core EXCEPT ![i] = [mode |-> disk[i].mode, nlink |-> disk[i].nlink, dirty |-> FALSE]]
    /\ Goto(p, "got")
    /\ UNCHANGED <<disk, cached, locked, wanted, count, named, super, op, ip, open, at, first, chan>>

(* iget: every entry is in use, "inode: table is full"; ialloc and namei   *)
(* give up too.                                                            *)
IgetFull(p) ==
    /\ Runs(p, "iget") /\ ip[p] \notin cached
    /\ Return(p)
    /\ UNCHANGED <<table, super, open, at, first, chan>>

(* ino_close: ilock. *)
Close(p) ==
    LET i == ip[p] IN
    /\ Runs(p, "ilock") /\ i \notin locked
    /\ locked' = locked \cup {i}
    /\ open' = [open EXCEPT ![p] = @ \ {i}]
    /\ Goto(p, "iput")
    /\ UNCHANGED <<disk, core, cached, wanted, count, named, super, op, ip, at, first, chan>>

(* An unreferenced inode's entry is used for a file not modelled. *)
Recycle(i) ==
    /\ cpu = NoProc /\ i \in cached /\ count[i] = 0
    /\ cached' = cached \ {i}
    /\ core' = [core EXCEPT ![i] = NoCore]
    /\ UNCHANGED <<disk, locked, wanted, count, named, super, calls>>

-----------------------------------------------------------------------------
(* ialloc and ifree *)

(* ialloc: someone scans the i-list. *)
WaitScan(p) ==
    /\ Runs(p, "ialloc") /\ ilock
    /\ SleepOn(p, ILock)
    /\ UNCHANGED <<table, super, pc, op, ip, open, at, first>>

Ialloc(p) ==
    /\ Runs(p, "ialloc") /\ ~ilock
    /\ Goto(p, "loop")
    /\ UNCHANGED <<table, super, op, ip, open, at, first, chan>>

(* ialloc: try the last of the free inodes in the super block. *)
Pop(p) ==
    /\ Runs(p, "loop") /\ inodes # <<>>
    /\ ip' = [ip EXCEPT ![p] = Last(inodes)]
    /\ inodes' = Front(inodes)
    /\ Goto(p, "iget")
    /\ UNCHANGED <<table, ilock, lasti, nbehind, tinode, op, open, at, first, chan>>

(* ialloc: the super block has no more, so scan the i-list. *)
StartScan(p) ==
    LET near == nbehind < Behind IN
    /\ Runs(p, "loop") /\ inodes = <<>>
    /\ ilock' = TRUE
    /\ first' = [first EXCEPT ![p] = near]
    /\ at' = [at EXCEPT ![p] = BlockStart(IF near THEN lasti ELSE 1)]
    /\ nbehind' = IF near THEN nbehind ELSE 0
    /\ Yield(p, "scan")
    /\ UNCHANGED <<table, inodes, lasti, tinode, op, ip, open, chan>>

(* Inode i is free and not in core. *)
Spare(i) == ~disk[i].mode /\ i \notin cached

Found(i) == IF Spare(i) THEN Append(inodes, i) ELSE inodes

(* fs_inode is full, which ialloc tests after it has stored an entry and   *)
(* at the end of a block.                                                  *)
Enough(i) == Len(Found(i)) >= NICINOD /\ (Spare(i) \/ EndsBlock(i))

(* ialloc: one inode of the block that has been read, then the next one;   *)
(* it goes once more through the i-list after a first pass that did not    *)
(* start at its top and did not find enough.                               *)
Scan(p) ==
    LET i == at[p]
        again == i = LastIno
    IN  /\ Runs(p, "scan") /\ ~Enough(i) /\ (again => first[p])
        /\ inodes' = Found(i)
        /\ at' = [at EXCEPT ![p] = CASE again -> BlockStart(1)
                                     [] ~again /\ EndsBlock(i) -> BlockStart(BlockOf(i) + 1)
                                     [] OTHER -> <<BlockOf(i), i[2] + 1>>]
        /\ first' = [first EXCEPT ![p] = @ /\ ~again]
        /\ nbehind' = IF again THEN 0 ELSE nbehind
        /\ IF EndsBlock(i) THEN Yield(p, "scan") ELSE Goto(p, "scan")
        /\ UNCHANGED <<table, ilock, lasti, tinode, op, ip, open, chan>>

(* ialloc: fs_inode is full or the second pass is over; try again, or give *)
(* up when nothing was found.                                              *)
ScanEnds(p) ==
    LET i == at[p] IN
    /\ Runs(p, "scan") /\ (Enough(i) \/ (i = LastIno /\ ~first[p]))
    /\ inodes' = Found(i)
    /\ lasti' = BlockOf(i)
    /\ ilock' = FALSE /\ Wakeup(ILock)
    /\ at' = [at EXCEPT ![p] = BlockStart(1)] /\ first' = [first EXCEPT ![p] = FALSE]
    /\ IF Found(i) # <<>> THEN Goto(p, "loop") /\ UNCHANGED <<op, ip>> ELSE Return(p)
    /\ UNCHANGED <<table, nbehind, tinode, open>>

(* Mutant of Make: does not look whether the inode is free. *)
Make_AnyMode(p) ==
    LET i == ip[p] IN
    /\ Runs(p, "got") /\ op[p] = "create"
    /\ tinode' = tinode - 1
    /\ core' = [core EXCEPT ![i] = [mode |-> TRUE, nlink |-> 1, dirty |-> TRUE]]
    /\ Yield(p, "made")
    /\ UNCHANGED <<disk, cached, locked, wanted, count, named, inodes, ilock, lasti, nbehind,
                   op, ip, open, at, first, chan>>

(* ialloc returns the inode, and maknode makes a file of it. *)
Make(p) ==
    LET i == ip[p] IN
    /\ Runs(p, "got") /\ op[p] = "create" /\ ~core[i].mode
    /\ tinode' = tinode - 1
    /\ core' = [core EXCEPT ![i] = [mode |-> TRUE, nlink |-> 1, dirty |-> TRUE]]
    /\ Yield(p, "made")
    /\ UNCHANGED <<disk, cached, locked, wanted, count, named, inodes, ilock, lasti, nbehind,
                   op, ip, open, at, first, chan>>

(* ialloc: "Inode was allocated after all.  Look some more." *)
Retry(p) ==
    /\ Runs(p, "got") /\ op[p] = "create" /\ core[ip[p]].mode
    /\ op' = [op EXCEPT ![p] = "retry"]
    /\ Goto(p, "iput")
    /\ UNCHANGED <<table, super, ip, open, at, first, chan>>

(* Mutant of Ifree: does not count the inode when it is thrown away. *)
Ifree_CountLater(i) ==
    IF ~ilock /\ Len(inodes) < NICINOD
    THEN inodes' = Append(inodes, i) /\ tinode' = tinode + 1 /\ UNCHANGED <<ilock, lasti, nbehind>>
    ELSE UNCHANGED super

(* ifree(i): remember it in the super block, unless the list is being      *)
(* refilled or is full.                                                    *)
Ifree(i) ==
    /\ tinode' = tinode + 1
    /\ IF ~ilock /\ Len(inodes) < NICINOD
       THEN inodes' = Append(inodes, i) /\ nbehind' = nbehind
       ELSE /\ inodes' = inodes
            /\ nbehind' = IF ~ilock /\ BlockOf(i) < lasti /\ nbehind < Behind
                          THEN nbehind + 1 ELSE nbehind
    /\ UNCHANGED <<ilock, lasti>>

-----------------------------------------------------------------------------
(* The rest of the calls *)

Clean(c) == [mode |-> c.mode, nlink |-> c.nlink]

(* maknode: iupdat has written the inode, "Make sure inode goes to disk    *)
(* before directory entry"; direnter comes next.                           *)
Made(p) ==
    LET i == ip[p] IN
    /\ Runs(p, "made")
    /\ disk' = [disk EXCEPT ![i] = Clean(core[i])]
    /\ core' = [core EXCEPT ![i].dirty = FALSE]
    /\ Yield(p, "enter")
    /\ UNCHANGED <<cached, locked, wanted, count, named, super, op, ip, open, at, first, chan>>

(* maknode: direnter has made the entry, or failed; creat opens the file,  *)
(* mknod is done with it.                                                  *)
Enter(p) ==
    LET i == ip[p] IN
    /\ Runs(p, "enter")
    /\ \/ /\ named' = named \cup {i} /\ core' = core
          /\ Goto(p, "iput") \/ (MayOpen(p) /\ Goto(p, "created"))
       \/ /\ named' = named /\ core' = [core EXCEPT ![i].nlink = 0, ![i].dirty = TRUE]
          /\ Goto(p, "iput")
    /\ UNCHANGED <<disk, cached, locked, wanted, count, super, op, ip, open, at, first, chan>>

(* open, creat: the file keeps the reference, IUNLOCK. *)
Open(p) ==
    LET i == ip[p] IN
    /\ (Runs(p, "got") /\ op[p] = "open") \/ Runs(p, "created")
    /\ IUNLOCK(i)
    /\ open' = [open EXCEPT ![p] = @ \cup {i}]
    /\ Return(p)
    /\ UNCHANGED <<disk, core, cached, count, named, super, at, first>>

(* unlink: dirremove starts, and has removed the entry or failed. *)
StartUnlink(p) ==
    /\ Runs(p, "got") /\ op[p] = "unlink"
    /\ Yield(p, "remove")
    /\ UNCHANGED <<table, super, op, ip, open, at, first, chan>>

Unlink(p) ==
    LET i == ip[p] IN
    /\ Runs(p, "remove")
    /\ \/ named' = named \ {i} /\ core' = [core EXCEPT ![i].nlink = @ - 1, ![i].dirty = TRUE]
       \/ UNCHANGED <<named, core>>
    /\ Goto(p, "iput")
    /\ UNCHANGED <<disk, cached, locked, wanted, count, super, op, ip, open, at, first, chan>>

(* update: write back one modified inode that nobody has locked; updlock   *)
(* keeps a second update out.                                              *)
Sync(p) ==
    /\ Runs(p, "user") /\ \A q \in Proc : op[q] # "sync"
    /\ \E i \in cached \ locked :
          /\ count[i] > 0 /\ core[i].dirty
          /\ locked' = locked \cup {i}
          /\ count' = [count EXCEPT ![i] = @ + 1]
          /\ ip' = [ip EXCEPT ![p] = i]
    /\ op' = [op EXCEPT ![p] = "sync"]
    /\ Yield(p, "sync")
    /\ UNCHANGED <<disk, core, cached, wanted, named, super, open, at, first, chan>>

Synced(p) ==
    LET i == ip[p] IN
    /\ Runs(p, "sync")
    /\ disk' = [disk EXCEPT ![i] = Clean(core[i])]
    /\ core' = [core EXCEPT ![i].dirty = FALSE]
    /\ Goto(p, "iput")
    /\ UNCHANGED <<cached, locked, wanted, count, named, super, op, ip, open, at, first, chan>>

(* iput, irele: not the last reference. *)
Iput(p) ==
    LET i == ip[p] IN
    /\ Runs(p, "iput") /\ count[i] > 1
    /\ IUNLOCK(i)
    /\ count' = [count EXCEPT ![i] = @ - 1]
    /\ Finish(p)
    /\ UNCHANGED <<disk, core, cached, named, super, open, at, first>>

(* iput, irele: the last reference; whoever waited for the lock is woken,  *)
(* and irele locks the inode again while it truncates or writes it.        *)
IputLast(p) ==
    LET i == ip[p] IN
    /\ Runs(p, "iput") /\ count[i] = 1 /\ (core[i].nlink = 0 \/ core[i].dirty)
    /\ Unwant(i)
    /\ Yield(p, IF core[i].nlink = 0 THEN "itrunc" ELSE "iupdat")
    /\ UNCHANGED <<disk, core, cached, locked, count, named, super, op, ip, open, at, first>>

IputClean(p) ==
    LET i == ip[p] IN
    /\ Runs(p, "iput") /\ count[i] = 1 /\ core[i].nlink > 0 /\ ~core[i].dirty
    /\ IUNLOCK(i)
    /\ count' = [count EXCEPT ![i] = 0]
    /\ Finish(p)
    /\ UNCHANGED <<disk, core, cached, named, super, open, at, first>>

(* Mutant of Reclaim: does not clear the mode of the inode it frees. *)
Reclaim_KeepsMode(p) ==
    LET i == ip[p] IN
    /\ Runs(p, "itrunc")
    /\ disk' = [disk EXCEPT ![i] = Clean(core[i])]
    /\ core' = [core EXCEPT ![i].dirty = TRUE]
    /\ Ifree(i)
    /\ Yield(p, "iupdat")
    /\ UNCHANGED <<cached, locked, wanted, count, named, op, ip, open, at, first, chan>>

(* irele: itrunc has written the inode; free it. *)
Reclaim(p) ==
    LET i == ip[p] IN
    /\ Runs(p, "itrunc")
    /\ disk' = [disk EXCEPT ![i] = Clean(core[i])]
    /\ core' = [core EXCEPT ![i].mode = FALSE, ![i].dirty = TRUE]
    /\ Ifree(i)
    /\ Yield(p, "iupdat")
    /\ UNCHANGED <<cached, locked, wanted, count, named, op, ip, open, at, first, chan>>

(* irele: iupdat has written the inode; unlock it, and put it on the free  *)
(* list of the table, where iget may still find it.                        *)
Release(p) ==
    LET i == ip[p] IN
    /\ Runs(p, "iupdat")
    /\ disk' = [disk EXCEPT ![i] = Clean(core[i])]
    /\ core' = [core EXCEPT ![i].dirty = FALSE]
    /\ IUNLOCK(i)
    /\ count' = [count EXCEPT ![i] = 0]
    /\ Finish(p)
    /\ UNCHANGED <<cached, named, super, open, at, first>>

Step(p) ==
    \/ Start(p) \/ WaitLock(p) \/ IgetHit(p) \/ IgetMiss(p) \/ IgetRead(p) \/ IgetFull(p)
    \/ Close(p) \/ WaitScan(p) \/ Ialloc(p) \/ Pop(p) \/ StartScan(p) \/ Scan(p) \/ ScanEnds(p)
    \/ Make(p) \/ Retry(p) \/ Made(p) \/ Enter(p) \/ Open(p) \/ StartUnlink(p) \/ Unlink(p)
    \/ Sync(p) \/ Synced(p) \/ Iput(p) \/ IputLast(p) \/ IputClean(p) \/ Reclaim(p) \/ Release(p)

Next == (\E p \in Proc : Step(p)) \/ (\E i \in Ino : Recycle(i))

Spec == Init /\ [][Next]_vars

-----------------------------------------------------------------------------
(* Properties *)

Where == {"user", "iget", "iread", "got", "ilock", "ialloc", "loop", "scan", "made", "enter",
          "created", "remove", "sync", "iput", "itrunc", "iupdat"}

(* The type of every variable. *)
TypeOK ==
    /\ disk \in [Ino -> Dinode] /\ core \in [Ino -> Core]
    /\ cached \subseteq Ino /\ locked \subseteq cached /\ wanted \subseteq locked
    /\ count \in [Ino -> Nat]
    /\ named \subseteq Ino
    /\ inodes \in Seq(Ino)
    /\ ilock \in BOOLEAN /\ lasti \in 1..Blocks /\ nbehind \in 0..Behind
    /\ tinode \in 0..Cardinality(Ino)
    /\ pc \in [Proc -> Where]
    /\ op \in [Proc -> {"none", "create", "retry", "open", "unlink", "close", "sync"}]
    /\ ip \in [Proc -> Ino \cup {NoIno}] /\ open \in [Proc -> SUBSET Ino]
    /\ at \in [Proc -> Ino] /\ first \in [Proc -> BOOLEAN]
    /\ chan \in [Proc -> Ino \cup {NoIno, ILock}] /\ cpu \in Proc \cup {NoProc}

(* The process whose call has the inode, locked and counted. *)
Holds(p, i) == ip[p] = i /\ pc[p] \in {"iread", "got", "made", "enter", "created",
                                       "remove", "sync", "iput", "itrunc", "iupdat"}

(* ILOCKED is a lock though iput and irele give it up and take it again:   *)
(* a locked inode belongs to one call, i_count is the number of calls and  *)
(* open files that refer to it, and no entry of the table is given to      *)
(* another inode while it is referred to.                                  *)
Refs ==
    /\ \A i \in Ino : count[i] = Cardinality({p \in Proc : Holds(p, i)})
                                + Cardinality({p \in Proc : i \in open[p]})
    /\ \A p, q \in Proc, i \in Ino : Holds(p, i) /\ Holds(q, i) => p = q
    /\ locked = {i \in Ino : \E p \in Proc : Holds(p, i)}
    /\ \A i \in Ino : count[i] > 0 => i \in cached

(* Whoever sleeps for an inode or for the scan of the i-list sleeps on     *)
(* something that is locked and will be unlocked with a wakeup.            *)
NoLostWakeup ==
    \A p \in Proc : /\ chan[p] \in Ino => chan[p] \in locked \cap wanted
                    /\ chan[p] = ILock => ilock

(* The inodes that are allocated: the copy in core counts once it is read. *)
Used == {i \in Ino : IF i \in cached /\ \A p \in Proc : ~(pc[p] = "iread" /\ ip[p] = i)
                     THEN core[i].mode ELSE disk[i].mode}

(* fs_tinode is the number of free inodes, though a free inode may be in   *)
(* the super block twice, in the i-list only, or still in core.            *)
FreeCount == tinode = Cardinality(Ino \ Used)

(* ialloc: "The algorithm keeps up to NICINOD spare I nodes in the super   *)
(* block."                                                                 *)
ListFits == Len(inodes) <= NICINOD

(* The inodes are the files a user sees: one is given out only when it is  *)
(* free, and it is freed when it has lost its name, nobody has it open and *)
(* nobody is making it, whatever is in core and in the super block.        *)
Files == INSTANCE Files WITH
             used <- Used,
             making <- [p \in Proc |-> IF pc[p] \in {"made", "enter"} THEN ip[p] ELSE NoIno]

FilesSpec == Files!Spec

=============================================================================

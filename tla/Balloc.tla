------------------------------- MODULE Balloc -------------------------------
(***************************************************************************)
(* The blocks of one file system: alloc and free (src/sys/sys/ufs_alloc.c),*)
(* bmap's and writei's use of alloc (ufs_bmap.c, sys_inode.c), itrunc and  *)
(* irele's use of free and update's writes (ufs_inode.c, ufs_subr.c).      *)
(*                                                                         *)
(* Free blocks are kept in lists of at most NICFREE.  The super block has  *)
(* the first; the entry 0 of a list is a block that holds the next list,   *)
(* or 0.  Every block has contents in the buffer cache and on the disk;    *)
(* what is on the disk is all that a crash leaves.  As in Inode a process  *)
(* keeps the processor until it sleeps: for fs_flock, and in getblk, bread *)
(* and bwrite.  Files are regular and have direct blocks only; the inode   *)
(* lock is held from the start to the end of each call.  The disk does not *)
(* fail; copies from user space may.  An inode that is freed and used again *)
(* is the same file.                                                       *)
(***************************************************************************)
EXTENDS SequencesExt, Integers

CONSTANTS
    Proc, File,
    Blk,        \* the data blocks of the file system
    NICFREE,    \* entries of a list
    Start,      \* addresses the files may have in the beginning
    Zero,       \* block number 0
    NoProc, NoFile

ASSUME ProcAssumption == IsFiniteSet(Proc) /\ NoProc \notin Proc
ASSUME BlkAssumption == IsFiniteSet(Blk) /\ Zero \notin Blk
ASSUME ListAssumption == NICFREE \in Nat \ {0, 1}
ASSUME FileAssumption == NoFile \notin File
ASSUME StartAssumption ==
    /\ Start \subseteq [File -> Seq(Blk)]
    /\ \A s \in Start :
          /\ \A f \in File : IsInjective(s[f])
          /\ \A f, g \in File : f # g => ToSet(s[f]) \cap ToSet(s[g]) = {}

VARIABLES
    free,       \* fs_free[0..fs_nfree-1]
    flock,      \* fs_flock
    fmod,       \* fs_fmod
    super,      \* the list in the super block on the disk
    sbuf,       \* the list in the super block's buffer
    cache,      \* cache[b]: what a list read from block b is, by the buffer cache
    disk,       \* disk[b]: the same, by the disk
    addr,       \* addr[f]: i_addr of f in core
    size,       \* size[f]: i_size in blocks
    dinode,     \* dinode[f]: the addresses of f in the buffer cache
    ddisk,      \* ddisk[f]: the addresses of f on the disk
    pc, chan, cpu,
    file,       \* file[p]: the file that p has locked
    bno,        \* bno[p]: the block that alloc found for p
    rest,       \* rest[p]: the blocks that itrunc has still to free
    told        \* whoever was told in the last step that there is no space

core == <<free, flock, fmod>>
blocks == <<super, sbuf, cache, disk>>
files == <<addr, size, dinode, ddisk>>
calls == <<pc, chan, cpu, file, bno, rest>>
vars == <<core, blocks, files, calls, told>>

(* A block of a file, taken for a list, is empty. *)
Data == <<>>

Location == {"user", "alloc", "chain", "super", "swrite", "got", "fill", "full",
             "inode", "free", "list", "lwrite", "update", "uwrite"}

-----------------------------------------------------------------------------
(* Control *)

Runs(p, s) == pc[p] = s /\ chan[p] = "none" /\ cpu \in {p, NoProc}
Goto(p, s) == pc' = [pc EXCEPT ![p] = s] /\ cpu' = p
Yield(p, s) == pc' = [pc EXCEPT ![p] = s] /\ cpu' = NoProc

(* fs_flock is cleared, and everybody who sleeps for it woken. *)
Unlock == /\ flock' = FALSE
          /\ chan' = [p \in Proc |-> "none"]

Locked(f) == \E p \in Proc : file[p] = f

(* The call of p is over, and the inode unlocked. *)
Return(p) == /\ Yield(p, "user")
             /\ file' = [file EXCEPT ![p] = NoFile]

(* Who has the super block's buffer. *)
SuperBusy == \E p \in Proc : pc[p] \in {"swrite", "uwrite"}

Init ==
    /\ addr \in Start
    /\ size = [f \in File |-> Len(addr[f])]
    /\ dinode = addr /\ ddisk = addr
    /\ free = <<>> /\ flock = FALSE /\ fmod = FALSE
    /\ super = <<>> /\ sbuf = <<>>
    /\ cache = [b \in Blk |-> Data] /\ disk = cache
    /\ pc = [p \in Proc |-> "user"]
    /\ chan = [p \in Proc |-> "none"]
    /\ cpu = NoProc
    /\ file = [p \in Proc |-> NoFile]
    /\ bno = [p \in Proc |-> Zero]
    /\ rest = [p \in Proc |-> <<>>]
    /\ told = {}

(* alloc and free wait for each other's transfers. *)
WaitFree(p) ==
    /\ Runs(p, "alloc") \/ (Runs(p, "free") /\ rest[p] # <<>>)
    /\ flock
    /\ chan' = [chan EXCEPT ![p] = "flock"] /\ cpu' = NoProc
    /\ told' = {}
    /\ UNCHANGED <<core, blocks, files, pc, file, bno, rest>>

-----------------------------------------------------------------------------
(* Writing: writei, bmap and alloc *)

(* A block at the end; bmap finds it there when an earlier write failed.   *)
(* Bound: a file has no more blocks than there are.                        *)
Write(p, f) ==
    /\ Runs(p, "user") /\ ~Locked(f)
    /\ size[f] < Cardinality(Blk)
    /\ file' = [file EXCEPT ![p] = f]
    /\ IF Len(addr[f]) > size[f] THEN Yield(p, "fill") ELSE Goto(p, "alloc")
    /\ told' = {}
    /\ UNCHANGED <<core, blocks, files, chan, bno, rest>>

(* nospace: p complains for five seconds with the inode locked. *)
NoSpace(p) ==
    /\ free' = <<>>
    /\ Yield(p, "full")
    /\ told' = {p}

(* The last entry; if it is entry 0 it holds the next list. *)
Pop(p) ==
    /\ Runs(p, "alloc") /\ ~flock
    /\ IF free = <<>> \/ Last(free) = Zero
       THEN NoSpace(p) /\ UNCHANGED <<flock, bno>>
       ELSE /\ free' = Front(free)
            /\ bno' = [bno EXCEPT ![p] = Last(free)]
            /\ flock' = (Len(free) = 1)
            /\ Yield(p, IF Len(free) = 1 THEN "chain" ELSE "got")
            /\ told' = {}
    /\ UNCHANGED <<fmod, blocks, files, chan, file, rest>>

Chain(p) ==
    /\ Runs(p, "chain")
    /\ free' = cache[bno[p]]
    /\ Yield(p, "super")
    /\ told' = {}
    /\ UNCHANGED <<flock, fmod, blocks, files, chan, file, bno, rest>>

(* Mutant of SuperCopy: leaves the super block to update. *)
SuperCopy_Later(p) ==
    /\ Runs(p, "super") /\ ~SuperBusy
    /\ fmod' = TRUE
    /\ Yield(p, "swrite")
    /\ sbuf' = super
    /\ told' = {}
    /\ UNCHANGED <<free, flock, super, cache, disk, files, chan, file, bno, rest>>

(* getblk(SUPERB): the super block is copied to its buffer and written. *)
SuperCopy(p) ==
    /\ Runs(p, "super") /\ ~SuperBusy
    /\ fmod' = FALSE
    /\ sbuf' = free
    /\ Yield(p, "swrite")
    /\ told' = {}
    /\ UNCHANGED <<free, flock, super, cache, disk, files, chan, file, bno, rest>>

SuperWritten(p) ==
    /\ Runs(p, "swrite")
    /\ super' = sbuf
    /\ Unlock
    /\ IF free = <<>> THEN NoSpace(p) ELSE Yield(p, "got") /\ told' = {} /\ UNCHANGED free
    /\ UNCHANGED <<fmod, sbuf, cache, disk, files, file, bno, rest>>

(* getblk(bno): the block is counted off and becomes part of the file. *)
Got(p) ==
    /\ Runs(p, "got")
    /\ cache' = [cache EXCEPT ![bno[p]] = Data]
    /\ fmod' = TRUE
    /\ addr' = [addr EXCEPT ![file[p]] = Append(@, bno[p])]
    /\ bno' = [bno EXCEPT ![p] = Zero]
    /\ Yield(p, "fill")
    /\ told' = {}
    /\ UNCHANGED <<free, flock, super, sbuf, disk, size, dinode, ddisk, chan, file, rest>>

(* The data are copied in. *)
Fill(p) ==
    /\ Runs(p, "fill")
    /\ size' = [size EXCEPT ![file[p]] = @ + 1]
    /\ Return(p)
    /\ told' = {}
    /\ UNCHANGED <<core, blocks, addr, dinode, ddisk, chan, bno, rest>>

(* The user's address is bad: the block stays, but i_size does not grow. *)
FillFault(p) ==
    /\ Runs(p, "fill")
    /\ Return(p)
    /\ told' = {}
    /\ UNCHANGED <<core, blocks, files, chan, bno, rest>>

GiveUp(p) ==
    /\ Runs(p, "full")
    /\ Return(p)
    /\ told' = {}
    /\ UNCHANGED <<core, blocks, files, chan, bno, rest>>

-----------------------------------------------------------------------------
(* Truncating and removing: itrunc and free *)

(* itrunc to nothing, for creat or for irele.  A file without size is left *)
(* as it is, also when it has a block that could not be filled.            *)
Trunc(p, f) ==
    /\ Runs(p, "user") /\ ~Locked(f)
    /\ file' = [file EXCEPT ![p] = f]
    /\ IF size[f] = 0
       THEN UNCHANGED <<addr, size, rest>>
       ELSE /\ rest' = [rest EXCEPT ![p] = Reverse(addr[f])]
            /\ addr' = [addr EXCEPT ![f] = <<>>]
            /\ size' = [size EXCEPT ![f] = 0]
    /\ Yield(p, "inode")
    /\ told' = {}
    /\ UNCHANGED <<core, blocks, dinode, ddisk, chan, bno>>

(* Mutant of InodeWritten: iupdat(oip, &time, &time, 0), a delayed write. *)
InodeWritten_Delayed(p) ==
    /\ Runs(p, "inode")
    /\ dinode' = [dinode EXCEPT ![file[p]] = addr[file[p]]]
    /\ Goto(p, "free")
    /\ told' = {}
    /\ UNCHANGED <<core, blocks, addr, size, ddisk, chan, file, bno, rest>>

(* iupdat, and its write has come to an end. *)
InodeWritten(p) ==
    /\ Runs(p, "inode")
    /\ dinode' = [dinode EXCEPT ![file[p]] = addr[file[p]]]
    /\ ddisk' = [ddisk EXCEPT ![file[p]] = addr[file[p]]]
    /\ Goto(p, "free")
    /\ told' = {}
    /\ UNCHANGED <<core, blocks, addr, size, chan, file, bno, rest>>

(* Mutant of Ended: the list is taken as it is. *)
Ended_Not(l) == l

(* What free sees of the list: one that is empty gets its end. *)
Ended(l) == IF l = <<>> THEN <<Zero>> ELSE l

(* Mutant of Free: `>' for `>='. *)
Free_OneMore(p) ==
    /\ Runs(p, "free") /\ rest[p] # <<>> /\ ~flock
    /\ IF Len(Ended(free)) <= NICFREE
       THEN /\ free' = Append(Ended(free), Head(rest[p]))
            /\ rest' = [rest EXCEPT ![p] = Tail(@)]
            /\ fmod' = TRUE
            /\ Goto(p, "free")
            /\ UNCHANGED flock
       ELSE /\ flock' = TRUE
            /\ Yield(p, "list")
            /\ UNCHANGED <<free, fmod, rest>>
    /\ told' = {}
    /\ UNCHANGED <<blocks, files, chan, file, bno>>

(* free: another entry, or, if the list is full, wait for bno's buffer. *)
Free(p) ==
    /\ Runs(p, "free") /\ rest[p] # <<>> /\ ~flock
    /\ IF Len(Ended(free)) < NICFREE
       THEN /\ free' = Append(Ended(free), Head(rest[p]))
            /\ rest' = [rest EXCEPT ![p] = Tail(@)]
            /\ fmod' = TRUE
            /\ Goto(p, "free")
            /\ UNCHANGED flock
       ELSE /\ flock' = TRUE
            /\ Yield(p, "list")
            /\ UNCHANGED <<free, fmod, rest>>
    /\ told' = {}
    /\ UNCHANGED <<blocks, files, chan, file, bno>>

(* The list goes to the block that is freed. *)
ListCopy(p) ==
    /\ Runs(p, "list")
    /\ cache' = [cache EXCEPT ![Head(rest[p])] = free]
    /\ free' = <<>>
    /\ Yield(p, "lwrite")
    /\ told' = {}
    /\ UNCHANGED <<flock, fmod, super, sbuf, disk, files, chan, file, bno, rest>>

(* The list is on the disk, and the block is entry 0 of a new one. *)
ListWritten(p) ==
    /\ Runs(p, "lwrite")
    /\ disk' = [disk EXCEPT ![Head(rest[p])] = cache[Head(rest[p])]]
    /\ Unlock
    /\ free' = <<Head(rest[p])>>
    /\ rest' = [rest EXCEPT ![p] = Tail(@)]
    /\ fmod' = TRUE
    /\ Goto(p, "free")
    /\ told' = {}
    /\ UNCHANGED <<super, sbuf, cache, files, file, bno>>

(* All is freed. *)
TruncDone(p) ==
    /\ Runs(p, "free") /\ rest[p] = <<>>
    /\ Return(p)
    /\ told' = {}
    /\ UNCHANGED <<core, blocks, files, chan, bno, rest>>

-----------------------------------------------------------------------------
(* Writing back *)

Updating == \E p \in Proc : pc[p] \in {"update", "uwrite"}

(* update, once at a time: the super block if it is modified. *)
Update(p) ==
    /\ Runs(p, "user") /\ ~Updating
    /\ fmod /\ ~flock
    /\ Yield(p, "update")
    /\ told' = {}
    /\ UNCHANGED <<core, blocks, files, chan, file, bno, rest>>

(* getblk(SUPERB) may have slept. *)
UpdateCopy(p) ==
    /\ Runs(p, "update") /\ ~SuperBusy
    /\ fmod' = FALSE
    /\ sbuf' = free
    /\ Yield(p, "uwrite")
    /\ told' = {}
    /\ UNCHANGED <<free, flock, super, cache, disk, files, chan, file, bno, rest>>

(* Mutant of UpdateWritten: fs_fmod is cleared when the write is done. *)
UpdateWritten_Clears(p) ==
    /\ Runs(p, "uwrite")
    /\ super' = sbuf /\ fmod' = FALSE
    /\ Yield(p, "user")
    /\ told' = {}
    /\ UNCHANGED <<free, flock, sbuf, cache, disk, files, chan, file, bno, rest>>

UpdateWritten(p) ==
    /\ Runs(p, "uwrite")
    /\ super' = sbuf
    /\ Yield(p, "user")
    /\ told' = {}
    /\ UNCHANGED <<core, sbuf, cache, disk, files, chan, file, bno, rest>>

(* update's iupdat of an inode that is not locked. *)
SyncInode(f) ==
    /\ cpu = NoProc
    /\ ~Locked(f)
    /\ dinode[f] # addr[f]
    /\ dinode' = [dinode EXCEPT ![f] = addr[f]]
    /\ told' = {}
    /\ UNCHANGED <<core, blocks, addr, size, ddisk, calls>>

(* A delayed write reaches the disk. *)
FlushInode(f) ==
    /\ cpu = NoProc
    /\ ddisk[f] # dinode[f]
    /\ ddisk' = [ddisk EXCEPT ![f] = dinode[f]]
    /\ told' = {}
    /\ UNCHANGED <<core, blocks, addr, size, dinode, calls>>

(* The same for a block whose buffer is not busy. *)
FlushBlock(b) ==
    /\ cpu = NoProc
    /\ disk[b] # cache[b]
    /\ \A p \in Proc : pc[p] = "lwrite" => Head(rest[p]) # b
    /\ disk' = [disk EXCEPT ![b] = cache[b]]
    /\ told' = {}
    /\ UNCHANGED <<core, super, sbuf, cache, files, calls>>

-----------------------------------------------------------------------------
Step(p) == \/ WaitFree(p)
           \/ Pop(p) \/ Chain(p) \/ SuperCopy(p) \/ SuperWritten(p) \/ Got(p) \/ Fill(p)
           \/ FillFault(p) \/ GiveUp(p)
           \/ InodeWritten(p) \/ Free(p) \/ ListCopy(p) \/ ListWritten(p) \/ TruncDone(p)
           \/ Update(p) \/ UpdateCopy(p) \/ UpdateWritten(p)

Next == \/ \E p \in Proc : Step(p)
        \/ \E p \in Proc, f \in File : Write(p, f) \/ Trunc(p, f)
        \/ \E f \in File : SyncInode(f) \/ FlushInode(f)
        \/ \E b \in Blk : FlushBlock(b)

Spec == Init /\ [][Next]_vars

-----------------------------------------------------------------------------
(* Properties *)

List == Seq(Blk \cup {Zero})

(* The variables keep their types; the list fits its array. *)
TypeOK ==
    /\ free \in List /\ Len(free) <= NICFREE
    /\ flock \in BOOLEAN /\ fmod \in BOOLEAN
    /\ super \in List /\ sbuf \in List
    /\ cache \in [Blk -> List] /\ disk \in [Blk -> List]
    /\ addr \in [File -> Seq(Blk)] /\ size \in [File -> Nat]
    /\ \A f \in File : size[f] <= Len(addr[f])
    /\ dinode \in [File -> Seq(Blk)] /\ ddisk \in [File -> Seq(Blk)]
    /\ pc \in [Proc -> Location] /\ chan \in [Proc -> {"none", "flock"}]
    /\ cpu \in Proc \cup {NoProc}
    /\ file \in [Proc -> File \cup {NoFile}]
    /\ bno \in [Proc -> Blk \cup {Zero}] /\ rest \in [Proc -> Seq(Blk)]

(* Link n of the chain that starts with list l, when blocks hold c. *)
Links(l, c) ==
    LET link[n \in Nat] ==
            IF n = 0 THEN l
            ELSE LET k == link[n - 1] IN IF k = <<>> \/ k[1] = Zero THEN <<>> ELSE c[k[1]]
    IN [n \in 0..Cardinality(Blk) |-> link[n]]

(* The blocks on a chain. *)
OnChain(l, c) == (UNION {ToSet(Links(l, c)[n]) : n \in 0..Cardinality(Blk)}) \ {Zero}

(* Every list but the last names the next, the last ends in 0 or is empty  *)
(* altogether, and no block is on the chain twice.                         *)
WellFormed(l, c) ==
    LET links == Links(l, c) IN
    /\ \A n \in 0..Cardinality(Blk) : IsInjective(links[n]) /\ \A i \in 2..Len(links[n]) : links[n][i] # Zero
    /\ \A m, n \in 0..Cardinality(Blk) : m # n => ToSet(links[m]) \cap ToSet(links[n]) \subseteq {Zero}
    /\ \A n \in 0..(Cardinality(Blk) - 1) :
          links[n] # <<>> /\ links[n][1] # Zero => links[n + 1] # <<>>

(* A crash never leaves a free list that points at garbage: the chain on   *)
(* the disk is well formed at every moment, though its blocks are used and *)
(* freed while the super block on the disk lags behind.                    *)
DurableList == WellFormed(super, disk)

(* Nor does it leave a block that two files claim, though both inodes lag  *)
(* behind and blocks pass from one file to the other.                      *)
DurableFiles == \A f, g \in File : f # g => ToSet(ddisk[f]) \cap ToSet(ddisk[g]) = {}

(* When nobody allocates or frees, update is right to pass by a super      *)
(* block that is not marked: the one on the disk has the same free blocks. *)
Marked ==
    (\A p \in Proc : pc[p] \in {"user", "fill", "full"}) /\ ~fmod
        => OnChain(super, disk) = OnChain(free, cache)

(* Whoever sleeps for the free list has a wakeup to come. *)
NoLostWakeup == \A p \in Proc : chan[p] = "flock" => flock

(* The free blocks are those on the chain, which starts in the buffer      *)
(* while free moves the list there, or in the block alloc has just taken.  *)
FreeBlocks ==
    LET heads == {free} \cup {cache[Head(rest[p])] : p \in {q \in Proc : pc[q] = "lwrite"}}
                        \cup {cache[bno[p]] : p \in {q \in Proc : pc[q] = "chain"}}
    IN UNION {OnChain(l, cache) : l \in heads}

Shares == INSTANCE Space WITH
        free <- FreeBlocks,
        has <- [f \in File |-> ToSet(addr[f])],
        hand <- [p \in Proc |-> ToSet(rest[p]) \cup ({bno[p]} \ {Zero})]

(* Blocks are nobody's but their owner's, and space is refused only when   *)
(* there is none.                                                          *)
SpaceSpec == Shares!Spec

=============================================================================

-------------------------------- MODULE Bio --------------------------------
(***************************************************************************)
(* The block buffer cache of the kernel: src/sys/sys/ufs_bio.c, with the   *)
(* free-list and flag macros of sys/h/buf.h, the seek sort of              *)
(* ufs_dsort.c, the queue side of one disk driver (pdpuba/hk.c) and the    *)
(* calls readi, writei, update and ino_close make on it.                   *)
(*                                                                         *)
(* Processes run in a kernel that is never preempted: a process that has   *)
(* entered the kernel keeps the processor (cpu) until it sleeps or goes    *)
(* back to user mode.  The one thing that happens between two steps of it  *)
(* is the disk interrupt, so an action is what runs between two points     *)
(* where an interrupt is let in and could matter, and code under splbio()  *)
(* is one action.  One device is modelled: b_dev and b_blkno together are  *)
(* key, and NoBlk is b_dev = NODEV.                                        *)
(***************************************************************************)
EXTENDS SequencesExt, Integers

CONSTANTS
    Proc,       \* processes
    Buf,        \* the buffer headers buf[0..nbuf-1]
    Blk,        \* block numbers of the device
    Val,        \* contents a block may have
    Zero,       \* the contents of a buffer at boot
    Cyl,        \* Cyl[k]: the cylinder of block k (b_cylin)
    Requests,   \* what processes may ask for, see Request
    DiskFails,  \* whether a transfer may end with B_ERROR
    Crashes,    \* whether the machine may crash
    NoBuf, NoBlk, NoReq, NoReply, Idle, FreeList  \* values of no other set

Request == [op  : {"read", "reada", "write", "update", "scratch", "sync", "close", "fsync"},
            blk : Blk \cup {NoBlk},       \* the block asked for, or a file's only one
            ra  : Blk \cup {NoBlk},       \* breada's read-ahead block
            how : {"delay", "async", "sync", "fault"},  \* how a write ends
            val : Val]                    \* what a write stores

ASSUME PoolAssumption == IsFiniteSet(Buf) /\ Buf # {} /\ NoBuf \notin Buf /\ FreeList \notin Buf
                         /\ NoBuf # FreeList
ASSUME ProcAssumption == Idle \notin Proc
ASSUME DataAssumption == Blk \subseteq Nat /\ NoBlk \notin Nat /\ Cyl \in [Blk -> Nat] /\ Zero \in Val
                         /\ NoReply \notin [blk : Blk, res : Val \cup {"synced", "error"}]
                                           \cup [blk : Blk, val : Val]
ASSUME RequestAssumption ==
    /\ Requests \subseteq Request /\ NoReq \notin Request
    /\ \A r \in Requests : r.op \in {"read", "reada", "write", "update", "fsync"} => r.blk \in Blk
    /\ \A r \in Requests : r.op = "reada" => r.ra # r.blk

VARIABLES
    flags,      \* flags[b]: the B_ bits of b that are set
    key,        \* key[b]: the block b is associated with (b_dev, b_blkno)
    data,       \* data[b]: what the buffer holds
    lru, age,   \* the free lists bfreelist[BQ_LRU] and bfreelist[BQ_AGE]
    freewant,   \* B_WANTED of bfreelist[0]: someone waits for any buffer
    ioq,        \* the drive's queue hkutab; its head is the transfer under way
    disk,       \* what is on the platter
    pc, req,    \* where each process is, and the request it is serving
    want,       \* want[p]: the block p's getblk is looking for
    cand, bp,   \* locals: the buffer just found, and the one p holds
    chan,       \* chan[p]: what p sleeps on, NoBuf when it is awake
    cpu,        \* the process that has the processor inside the kernel
    reply       \* what p's call answers, until p is back in user mode

pool == <<flags, key, data, lru, age, freewant>>
calls == <<pc, req, want, cand, bp, chan, cpu, reply>>
vars == <<pool, ioq, disk, calls>>

Flag == {"READ", "DONE", "ERROR", "BUSY", "WANTED", "AGE", "ASYNC", "DELWRI", "INVAL"}

-----------------------------------------------------------------------------
(* The disk queue and the free lists *)

CylOf(b) == IF key[b] \in Blk THEN Cyl[key[b]] ELSE 0

IsRead(fl) == "READ" \in fl

(* The places of the queue disksort compares b with: a read stops at the   *)
(* first write, a write skips the reads.                                   *)
SortWindow(q, rd) ==
    {i \in DOMAIN q : IF rd THEN \A j \in 1..i : IsRead(flags[q[j]])
                            ELSE ~IsRead(flags[q[i]])}

(* The place disksort inserts b after (tp), for a queue that is not empty: *)
(* the last one with the largest cylinder not beyond b's, else the first   *)
(* write for a read, else the tail.                                        *)
SortPlace(q, b, rd) ==
    LET W == {i \in SortWindow(q, rd) : CylOf(q[i]) <= CylOf(b)}
        firstWrite == {i \in DOMAIN q : /\ rd /\ ~IsRead(flags[q[i]])
                                        /\ \A j \in 1..(i - 1) : IsRead(flags[q[j]])}
    IN  CASE W # {} -> CHOOSE i \in W : \A j \in W :
                           CylOf(q[j]) < CylOf(q[i]) \/ (CylOf(q[j]) = CylOf(q[i]) /\ j <= i)
          [] W = {} /\ firstWrite # {} -> CHOOSE i \in firstWrite : TRUE
          [] OTHER -> Len(q)

DiskSort(q, b, rd) == IF q = <<>> THEN <<b>> ELSE InsertAt(q, SortPlace(q, b, rd) + 1, b)

Unlink(s, b) == IF b \in ToSet(s)
                THEN RemoveAt(s, CHOOSE i \in DOMAIN s : s[i] = b)
                ELSE s

(* notavail, but for the flag: take b off the free list it is on. *)
TakeOff(b) == lru' = Unlink(lru, b) /\ age' = Unlink(age, b)

(* wakeup(c) for every channel in C: everyone asleep there is made ready. *)
Wakeup(C) == chan' = [p \in Proc |-> IF chan[p] \in C THEN NoBuf ELSE chan[p]]

(* Mutant of Brelse: a buffer whose transfer failed keeps its block. *)
Brelse_KeepsBlock(b, fl) ==
    /\ Wakeup((IF "WANTED" \in fl THEN {b} ELSE {})
              \cup (IF freewant THEN {FreeList} ELSE {}))
    /\ freewant' = FALSE /\ key' = key
    /\ IF {"AGE", "INVAL"} \cap fl # {}
       THEN age' = Append(age, b) /\ lru' = lru
       ELSE lru' = Append(lru, b) /\ age' = age
    /\ flags' = [flags EXCEPT ![b] = fl \ {"WANTED", "BUSY", "ASYNC", "AGE"}]

(* brelse(b), called with b's flags fl. *)
Brelse(b, fl) ==
    LET useless == "ERROR" \in fl \/ "INVAL" \in fl
    IN  /\ Wakeup((IF "WANTED" \in fl THEN {b} ELSE {})
                  \cup (IF freewant THEN {FreeList} ELSE {}))
        /\ freewant' = FALSE
        /\ key' = IF "ERROR" \in fl THEN [key EXCEPT ![b] = NoBlk] ELSE key
        /\ age' = CASE useless -> Cons(b, age)
                    [] ~useless /\ "AGE" \in fl -> Append(age, b)
                    [] OTHER -> age
        /\ lru' = IF ~useless /\ "AGE" \notin fl THEN Append(lru, b) ELSE lru
        /\ flags' = [flags EXCEPT ![b] = fl \ {"WANTED", "BUSY", "ASYNC", "AGE"}]

(* Mutant of BwriteFlags: B_DELWRI stays, so the buffer comes back dirty. *)
BwriteFlags_Dirty(fl) == fl \ {"READ", "DONE", "ERROR"}

(* The flags b has when bwrite hands it to the driver. *)
BwriteFlags(fl) == fl \ {"READ", "DONE", "ERROR", "DELWRI"}

(* Hand b to the driver with flags fl: d_strategy. *)
Strategy(b, fl) == /\ flags' = [flags EXCEPT ![b] = fl]
                   /\ ioq' = DiskSort(ioq, b, IsRead(fl))

(* The buffers a search of the hash chain for block k can stop at. *)
Hits(k) == {b \in Buf : key[b] = k /\ "INVAL" \notin flags[b]}

-----------------------------------------------------------------------------
(* Control *)

Runs(p, at) == pc[p] = at /\ chan[p] = NoBuf /\ cpu \in {p, Idle}

Goto(p, at) == pc' = [pc EXCEPT ![p] = at] /\ cpu' = p

(* sleep(c) with `at' the statement the process resumes at. *)
SleepOn(p, c, at) == /\ pc' = [pc EXCEPT ![p] = at]
                     /\ chan' = [chan EXCEPT ![p] = c]
                     /\ cpu' = Idle

(* Where each request starts. *)
Entry == [read |-> "getblk", reada |-> "incore", write |-> "getblk", update |-> "getblk",
          scratch |-> "getnew", sync |-> "flush", close |-> "flush", fsync |-> "blkflush"]

Init ==
    /\ flags = [b \in Buf |-> {"INVAL"}]
    /\ key = [b \in Buf |-> NoBlk]
    /\ data = [b \in Buf |-> Zero]
    /\ lru = <<>>
    /\ age \in [1..Cardinality(Buf) -> Buf] /\ IsInjective(age)
    /\ freewant = FALSE
    /\ ioq = <<>>
    /\ disk \in [Blk -> Val]
    /\ pc = [p \in Proc |-> "user"]
    /\ req = [p \in Proc |-> NoReq]
    /\ want = [p \in Proc |-> NoBlk]
    /\ cand = [p \in Proc |-> NoBuf]
    /\ bp = [p \in Proc |-> NoBuf]
    /\ chan = [p \in Proc |-> NoBuf]
    /\ cpu = Idle
    /\ reply = [p \in Proc |-> NoReply]

(* A process enters the kernel with a request; another may have been       *)
(* woken in its call meanwhile and not have run, being swapped out.  The   *)
(* last close of a block device finds no other file open on it.            *)
Start(p) ==
    /\ Runs(p, "user")
    /\ \E r \in Requests :
          /\ r.op = "close" => \A q \in Proc \ {p} : pc[q] = "user"
          /\ req' = [req EXCEPT ![p] = r]
          /\ want' = [want EXCEPT ![p] = r.blk]
          /\ Goto(p, Entry[r.op])
    /\ UNCHANGED <<pool, ioq, disk, cand, bp, chan, reply>>

(* breada: is the block in core?  If so bread will get it at the end. *)
Incore(p) ==
    /\ Runs(p, "incore")
    /\ Goto(p, IF Hits(req[p].blk) # {} THEN "ra" ELSE "getblk")
    /\ UNCHANGED <<pool, ioq, disk, req, want, cand, bp, chan, reply>>

(* Mutant of ReadAhead: waits for the read-ahead block if it is busy. *)
ReadAhead_NoIncore(p) ==
    /\ Runs(p, "ra")
    /\ want' = [want EXCEPT ![p] = req[p].ra] /\ Goto(p, "getblk")
    /\ UNCHANGED <<pool, ioq, disk, req, cand, bp, chan, reply>>

(* breada: start I/O on the read-ahead block unless it is in core. *)
ReadAhead(p) ==
    /\ Runs(p, "ra")
    /\ IF req[p].ra # NoBlk /\ Hits(req[p].ra) = {}
       THEN want' = [want EXCEPT ![p] = req[p].ra] /\ Goto(p, "getblk")
       ELSE want' = want /\ Goto(p, "reap")
    /\ UNCHANGED <<pool, ioq, disk, req, cand, bp, chan, reply>>

(* breada: wait for the read started above, or let bread get the block. *)
Reap(p) ==
    /\ Runs(p, "reap")
    /\ IF bp[p] = NoBuf
       THEN /\ req' = [req EXCEPT ![p].op = "read"]
            /\ want' = [want EXCEPT ![p] = req[p].blk]
            /\ Goto(p, "getblk")
       ELSE Goto(p, "biowait") /\ UNCHANGED <<req, want>>
    /\ UNCHANGED <<pool, ioq, disk, cand, bp, chan, reply>>

(* getblk: search the hash chain. *)
Scan(p) ==
    /\ Runs(p, "getblk")
    /\ \/ \E b \in Hits(want[p]) : cand' = [cand EXCEPT ![p] = b] /\ Goto(p, "hit")
       \/ Hits(want[p]) = {} /\ cand' = cand /\ Goto(p, "getnew")
    /\ UNCHANGED <<pool, ioq, disk, req, want, bp, chan, reply>>

(* Mutant of WaitHit: sleeps without asking for the wakeup. *)
WaitHit_NotWanted(p) ==
    /\ Runs(p, "hit") /\ "BUSY" \in flags[cand[p]]
    /\ SleepOn(p, cand[p], "getblk")
    /\ cand' = [cand EXCEPT ![p] = NoBuf]
    /\ UNCHANGED <<pool, ioq, disk, req, want, bp, reply>>

(* getblk, under splbio: the buffer found is busy, so wait and search again. *)
WaitHit(p) ==
    LET b == cand[p] IN
    /\ Runs(p, "hit") /\ "BUSY" \in flags[b]
    /\ flags' = [flags EXCEPT ![b] = @ \cup {"WANTED"}]
    /\ SleepOn(p, b, "getblk")
    /\ cand' = [cand EXCEPT ![p] = NoBuf]
    /\ UNCHANGED <<key, data, lru, age, freewant, ioq, disk, req, want, bp, reply>>

(* Mutant of TakeHit: takes the buffer without looking at B_BUSY. *)
TakeHit_Busy(p) ==
    /\ Runs(p, "hit")
    /\ TakeOff(cand[p])
    /\ flags' = [flags EXCEPT ![cand[p]] = @ \cup {"BUSY"}]
    /\ Goto(p, "got")
    /\ UNCHANGED <<key, data, freewant, ioq, disk, req, want, cand, bp, chan, reply>>

(* getblk, under splbio: the buffer found is free, so take it. *)
TakeHit(p) ==
    LET b == cand[p] IN
    /\ Runs(p, "hit") /\ "BUSY" \notin flags[b]
    /\ TakeOff(b)
    /\ flags' = [flags EXCEPT ![b] = @ \cup {"BUSY"}]
    /\ Goto(p, "got")
    /\ UNCHANGED <<key, data, freewant, ioq, disk, req, want, cand, bp, chan, reply>>

(* getnewbuf: the head of AGE, else the head of LRU.  (An interrupt after  *)
(* the choice of the list can only add buffers to the lists.)              *)
Oldest == IF age # <<>> THEN Head(age) ELSE Head(lru)

(* getnewbuf: no buffer is free, so wait for any.  The `goto loop' there   *)
(* comes back to getnewbuf, never to getblk's search.                      *)
WaitFree(p) ==
    /\ Runs(p, "getnew") /\ age = <<>> /\ lru = <<>>
    /\ freewant' = TRUE
    /\ SleepOn(p, FreeList, "getnew")
    /\ UNCHANGED <<flags, key, data, lru, age, ioq, disk, req, want, cand, bp, reply>>

(* getnewbuf: the oldest buffer is dirty, so start writing it and look on. *)
Evict(p) ==
    /\ Runs(p, "getnew") /\ (age # <<>> \/ lru # <<>>) /\ "DELWRI" \in flags[Oldest]
    /\ TakeOff(Oldest)
    /\ Strategy(Oldest, BwriteFlags(flags[Oldest] \cup {"BUSY", "ASYNC"}))
    /\ cand' = [cand EXCEPT ![p] = Oldest]
    /\ Goto(p, "aged")
    /\ UNCHANGED <<key, data, freewant, disk, req, want, bp, chan, reply>>

(* bwrite: the B_AGE set on a buffer after it went to the driver, which    *)
(* may have finished with it; then getnewbuf loops or the caller returns.  *)
SetAge(p) ==
    LET b == cand[p] IN
    /\ \/ Runs(p, "aged") /\ Goto(p, "getnew")
       \/ Runs(p, "written") /\ Goto(p, "return")
    /\ flags' = [flags EXCEPT ![b] = @ \cup {"AGE"}]
    /\ cand' = [cand EXCEPT ![p] = NoBuf]
    /\ UNCHANGED <<key, data, lru, age, freewant, ioq, disk, req, want, bp, chan, reply>>

(* Mutant of Reassign: gives a dirty buffer away. *)
Reassign_Dirty(p) ==
    /\ Runs(p, "getnew") /\ (age # <<>> \/ lru # <<>>)
    /\ TakeOff(Oldest)
    /\ flags' = [flags EXCEPT ![Oldest] = {"BUSY"}]
    /\ key' = [key EXCEPT ![Oldest] = want[p]]
    /\ cand' = [cand EXCEPT ![p] = Oldest]
    /\ Goto(p, "got")
    /\ UNCHANGED <<data, freewant, ioq, disk, req, want, bp, chan, reply>>

(* getnewbuf: the oldest buffer is clean; getblk gives it the block,       *)
(* geteblk leaves it without one.                                          *)
Reassign(p) ==
    LET b == Oldest  scratch == req[p].op = "scratch" IN
    /\ Runs(p, "getnew") /\ (age # <<>> \/ lru # <<>>) /\ "DELWRI" \notin flags[b]
    /\ TakeOff(b)
    /\ flags' = [flags EXCEPT ![b] = IF scratch THEN {"BUSY", "INVAL"} ELSE {"BUSY"}]
    /\ key' = [key EXCEPT ![b] = IF scratch THEN NoBlk ELSE want[p]]
    /\ cand' = [cand EXCEPT ![p] = b]
    /\ Goto(p, "got")
    /\ UNCHANGED <<data, freewant, ioq, disk, req, want, bp, chan, reply>>

ForReadAhead(p) == req[p].op = "reada" /\ want[p] = req[p].ra

(* bread and breada, the buffer got holds the block: nothing to start.     *)
(* getblk for a whole block and geteblk: its contents do not matter.       *)
GotReady(p) ==
    LET b == cand[p] IN
    /\ Runs(p, "got") /\ ~ForReadAhead(p)
    /\ "DONE" \in flags[b] \/ req[p].op \in {"write", "scratch"}
    /\ bp' = [bp EXCEPT ![p] = b]
    /\ cand' = [cand EXCEPT ![p] = NoBuf]
    /\ Goto(p, IF req[p].op = "reada" THEN "ra" ELSE "use")
    /\ UNCHANGED <<pool, ioq, disk, req, want, chan, reply>>

(* bread and breada: the buffer does not hold the block, so start a read. *)
GotToRead(p) ==
    LET b == cand[p] IN
    /\ Runs(p, "got") /\ ~ForReadAhead(p)
    /\ "DONE" \notin flags[b] /\ req[p].op \in {"read", "reada", "update"}
    /\ Strategy(b, flags[b] \cup {"READ"})
    /\ bp' = [bp EXCEPT ![p] = b]
    /\ cand' = [cand EXCEPT ![p] = NoBuf]
    /\ Goto(p, IF req[p].op = "reada" THEN "ra" ELSE "biowait")
    /\ UNCHANGED <<key, data, lru, age, freewant, disk, req, want, chan, reply>>

(* breada: start the read-ahead, whose buffer the interrupt will release,  *)
(* unless the block turned out to be there.                                *)
GotAhead(p) ==
    LET b == cand[p] IN
    /\ Runs(p, "got") /\ ForReadAhead(p)
    /\ IF "DONE" \in flags[b]
       THEN Brelse(b, flags[b]) /\ ioq' = ioq
       ELSE /\ Strategy(b, flags[b] \cup {"READ", "ASYNC"})
            /\ UNCHANGED <<key, lru, age, freewant, chan>>
    /\ cand' = [cand EXCEPT ![p] = NoBuf]
    /\ Goto(p, "reap")
    /\ UNCHANGED <<data, disk, req, want, bp, reply>>

(* biowait, for a read and for a synchronous write. *)
SleepIO(p) ==
    \E at \in {"biowait", "wwait", "fwait"} :
        /\ Runs(p, at) /\ "DONE" \notin flags[bp[p]]
        /\ SleepOn(p, bp[p], at)
        /\ UNCHANGED <<pool, ioq, disk, req, want, cand, bp, reply>>

ReadDone(p) ==
    /\ Runs(p, "biowait") /\ "DONE" \in flags[bp[p]]
    /\ Goto(p, "use")
    /\ UNCHANGED <<pool, ioq, disk, req, want, cand, bp, chan, reply>>

Answer(p, res) == reply' = [reply EXCEPT ![p] = [blk |-> req[p].blk, res |-> res]]

(* Mutant of Outcome: answers that the transfer is over, not how it ended. *)
Outcome_Done(fl) == IF "DONE" \in fl THEN "done" ELSE "error"

(* geterror: how a transfer ended. *)
Outcome(fl) == IF "ERROR" \in fl THEN "error" ELSE "synced"

(* bwrite, synchronous: release the buffer once it is written. *)
WriteDone(p) ==
    LET b == bp[p] IN
    /\ Runs(p, "wwait") /\ "DONE" \in flags[b]
    /\ Brelse(b, flags[b])
    /\ Answer(p, Outcome(flags[b]))
    /\ bp' = [bp EXCEPT ![p] = NoBuf]
    /\ Goto(p, "return")
    /\ UNCHANGED <<data, ioq, disk, req, want, cand>>

(* readi and writei give up on a buffer bread returned with B_ERROR. *)
UseFailed(p) ==
    LET b == bp[p] IN
    /\ Runs(p, "use") /\ req[p].op \in {"read", "reada", "update"} /\ "ERROR" \in flags[b]
    /\ Brelse(b, flags[b])
    /\ Answer(p, "error")
    /\ bp' = [bp EXCEPT ![p] = NoBuf]
    /\ Goto(p, "return")
    /\ UNCHANGED <<data, ioq, disk, req, want, cand>>

(* readi: copy out, release; B_AGE when the end of the block was read. *)
UseRead(p) ==
    LET b == bp[p] IN
    /\ Runs(p, "use") /\ req[p].op \in {"read", "reada"} /\ "ERROR" \notin flags[b]
    /\ \E fl \in {flags[b], flags[b] \cup {"AGE"}} : Brelse(b, fl)
    /\ Answer(p, data[b])
    /\ bp' = [bp EXCEPT ![p] = NoBuf]
    /\ Goto(p, "return")
    /\ UNCHANGED <<data, ioq, disk, req, want, cand>>

(* A hole read through geteblk: the buffer is given straight back. *)
UseScratch(p) ==
    LET b == bp[p] IN
    /\ Runs(p, "use") /\ req[p].op = "scratch"
    /\ Brelse(b, flags[b])
    /\ bp' = [bp EXCEPT ![p] = NoBuf]
    /\ Goto(p, "return")
    /\ UNCHANGED <<data, ioq, disk, req, want, cand, reply>>

(* writei has the block in bp[p] and copies into it.  A buffer without a   *)
(* device has no driver: see UseWild.                                      *)
Writes(p) ==
    /\ Runs(p, "use")
    /\ \/ req[p].op = "write"
       \/ req[p].op = "update" /\ "ERROR" \notin flags[bp[p]]

CopyIn(p) == data' = [data EXCEPT ![bp[p]] = req[p].val]

(* writei, bdwrite: mark the buffer dirty and release it. *)
WriteDelayed(p) ==
    LET b == bp[p] IN
    /\ Writes(p) /\ req[p].how = "delay" /\ key[b] # NoBlk
    /\ CopyIn(p)
    /\ Brelse(b, flags[b] \cup {"DELWRI", "DONE"})
    /\ bp' = [bp EXCEPT ![p] = NoBuf]
    /\ Goto(p, "return")
    /\ UNCHANGED <<ioq, disk, req, want, cand, reply>>

(* writei at the end of a block, bawrite: start the write, leave it to the *)
(* interrupt.                                                              *)
WriteAsync(p) ==
    LET b == bp[p] IN
    /\ Writes(p) /\ req[p].how = "async" /\ key[b] # NoBlk
    /\ CopyIn(p)
    /\ Strategy(b, BwriteFlags(flags[b] \cup {"AGE", "ASYNC"}))
    /\ bp' = [bp EXCEPT ![p] = NoBuf]
    /\ IF "DELWRI" \in flags[b]
       THEN cand' = [cand EXCEPT ![p] = b] /\ Goto(p, "written")
       ELSE cand' = cand /\ Goto(p, "return")
    /\ UNCHANGED <<key, lru, age, freewant, disk, req, want, chan, reply>>

(* writei of a directory, bwrite: start the write and wait for it. *)
WriteSync(p) ==
    LET b == bp[p] IN
    /\ Writes(p) /\ req[p].how = "sync" /\ key[b] # NoBlk
    /\ CopyIn(p)
    /\ Strategy(b, BwriteFlags(flags[b]))
    /\ Goto(p, "wwait")
    /\ UNCHANGED <<key, lru, age, freewant, disk, req, want, cand, bp, chan, reply>>

(* writei when uiomove fails: some of the bytes may have been copied. *)
WriteFaults(p) ==
    LET b == bp[p] IN
    /\ Writes(p) /\ req[p].how = "fault"
    /\ CopyIn(p) \/ data' = data
    /\ Brelse(b, flags[b])
    /\ Answer(p, "error")
    /\ bp' = [bp EXCEPT ![p] = NoBuf]
    /\ Goto(p, "return")
    /\ UNCHANGED <<ioq, disk, req, want, cand>>

(* bwrite and bdwrite index bdevsw with major(NODEV): nothing is known of  *)
(* the machine from here on; in the model it stands still until a crash.   *)
UseWild(p) ==
    /\ Writes(p) /\ req[p].how # "fault" /\ key[bp[p]] = NoBlk
    /\ Goto(p, "wild")
    /\ UNCHANGED <<pool, ioq, disk, req, want, cand, bp, chan, reply>>

(* update and ino_close: bflush, at splbio, starts a write for the first   *)
(* dirty buffer, LRU list before AGE, lets interrupts in and looks again.  *)
FlushOne(p) ==
    LET s == lru \o age
        D == {i \in DOMAIN s : "DELWRI" \in flags[s[i]]}
        b == s[CHOOSE i \in D : \A j \in D : i <= j]
    IN  /\ Runs(p, "flush") /\ D # {}
        /\ TakeOff(b)
        /\ Strategy(b, BwriteFlags(flags[b] \cup {"BUSY", "ASYNC"}) \cup {"AGE"})
        /\ Goto(p, "flush")
        /\ UNCHANGED <<key, data, freewant, disk, req, want, cand, bp, chan, reply>>

NothingDirty == \A b \in ToSet(lru) \cup ToSet(age) : "DELWRI" \notin flags[b]

FlushDone(p) ==
    /\ Runs(p, "flush") /\ NothingDirty
    /\ Goto(p, IF req[p].op = "close" THEN "inval" ELSE "return")
    /\ UNCHANGED <<pool, ioq, disk, req, want, cand, bp, chan, reply>>

(* ino_close: binval marks every buffer of the device invalid, busy ones too. *)
Binval(p) ==
    /\ Runs(p, "inval")
    /\ flags' = [b \in Buf |-> IF key[b] # NoBlk THEN flags[b] \cup {"INVAL"} ELSE flags[b]]
    /\ Goto(p, "return")
    /\ UNCHANGED <<key, data, lru, age, freewant, ioq, disk, req, want, cand, bp, chan, reply>>

(* The block syncip has flushed for the block of a file.  It converts the  *)
(* number to a device address, and blkflush converts it once more.         *)
fsbtodb(k) == 2 * k
Pushed(p) == fsbtodb(req[p].blk)

(* blkflush: the buffer of the block is busy, so wait and search again. *)
PushWaits(p) ==
    /\ Runs(p, "blkflush")
    /\ \E b \in Hits(Pushed(p)) :
          /\ "BUSY" \in flags[b]
          /\ flags' = [flags EXCEPT ![b] = @ \cup {"WANTED"}]
          /\ SleepOn(p, b, "blkflush")
    /\ UNCHANGED <<key, data, lru, age, freewant, ioq, disk, req, want, cand, bp, reply>>

(* blkflush: the buffer is dirty, so write it and wait for that. *)
PushWrites(p) ==
    /\ Runs(p, "blkflush")
    /\ \E b \in Hits(Pushed(p)) :
          /\ "BUSY" \notin flags[b] /\ "DELWRI" \in flags[b]
          /\ TakeOff(b)
          /\ Strategy(b, BwriteFlags(flags[b] \cup {"BUSY"}))
          /\ bp' = [bp EXCEPT ![p] = b]
    /\ Goto(p, "fwait")
    /\ UNCHANGED <<key, data, freewant, disk, req, want, cand, chan, reply>>

(* The bwrite of blkflush is over; blkflush searches again. *)
PushWritten(p) ==
    LET b == bp[p] IN
    /\ Runs(p, "fwait") /\ "DONE" \in flags[b]
    /\ Brelse(b, flags[b])
    /\ bp' = [bp EXCEPT ![p] = NoBuf]
    /\ Goto(p, "blkflush")
    /\ UNCHANGED <<data, ioq, disk, req, want, cand, reply>>

PushDone(p) ==
    /\ Runs(p, "blkflush")
    /\ \A b \in Hits(Pushed(p)) : {"BUSY", "DELWRI"} \cap flags[b] = {}
    /\ Goto(p, "return")
    /\ UNCHANGED <<pool, ioq, disk, req, want, cand, bp, chan, reply>>

(* The system call returns to user mode. *)
Return(p) ==
    /\ Runs(p, "return")
    /\ pc' = [pc EXCEPT ![p] = "user"]
    /\ cpu' = Idle
    /\ req' = [req EXCEPT ![p] = NoReq]
    /\ want' = [want EXCEPT ![p] = NoBlk]
    /\ reply' = [reply EXCEPT ![p] = NoReply]
    /\ UNCHANGED <<pool, ioq, disk, cand, bp, chan>>

Step(p) ==
    \/ Start(p) \/ Incore(p) \/ ReadAhead(p) \/ Reap(p)
    \/ Scan(p) \/ WaitHit(p) \/ TakeHit(p)
    \/ WaitFree(p) \/ Evict(p) \/ SetAge(p) \/ Reassign(p)
    \/ GotReady(p) \/ GotToRead(p) \/ GotAhead(p)
    \/ SleepIO(p) \/ ReadDone(p) \/ WriteDone(p)
    \/ UseFailed(p) \/ UseRead(p) \/ UseScratch(p)
    \/ WriteDelayed(p) \/ WriteAsync(p) \/ WriteSync(p) \/ WriteFaults(p) \/ UseWild(p)
    \/ FlushOne(p) \/ FlushDone(p) \/ Binval(p)
    \/ PushWaits(p) \/ PushWrites(p) \/ PushWritten(p) \/ PushDone(p) \/ Return(p)

-----------------------------------------------------------------------------
(* The disk *)

(* biodone(b), called with b's flags fl: an asynchronous buffer is         *)
(* released at interrupt level, any other has its sleepers woken.          *)
Biodone(b, fl) ==
    IF "ASYNC" \in fl
    THEN Brelse(b, fl \cup {"DONE"})
    ELSE /\ flags' = [flags EXCEPT ![b] = (fl \cup {"DONE"}) \ {"WANTED"}]
         /\ Wakeup({b})
         /\ UNCHANGED <<key, lru, age, freewant>>

(* hkintr: the transfer at the head of the queue is over. *)
DiskDone ==
    LET b == Head(ioq) IN
    /\ ioq # <<>>
    /\ IF IsRead(flags[b])
       THEN data' = [data EXCEPT ![b] = disk[key[b]]] /\ disk' = disk
       ELSE disk' = [disk EXCEPT ![key[b]] = data[b]] /\ data' = data
    /\ ioq' = Tail(ioq)
    /\ Biodone(b, flags[b])
    /\ UNCHANGED <<pc, req, want, cand, bp, cpu, reply>>

(* hkintr: the driver gives up on the transfer (B_ERROR). *)
DiskError ==
    /\ DiskFails /\ ioq # <<>>
    /\ ioq' = Tail(ioq)
    /\ Biodone(Head(ioq), flags[Head(ioq)] \cup {"ERROR"})
    /\ UNCHANGED <<data, disk, pc, req, want, cand, bp, cpu, reply>>

(* The machine crashes and comes up again; the write under way may or may  *)
(* not have reached the platter.                                           *)
Crash ==
    /\ Crashes
    /\ disk' \in {disk} \cup IF ioq # <<>> /\ ~IsRead(flags[Head(ioq)])
                             THEN {[disk EXCEPT ![key[Head(ioq)]] = data[Head(ioq)]]}
                             ELSE {}
    /\ flags' = [b \in Buf |-> {"INVAL"}]
    /\ key' = [b \in Buf |-> NoBlk]
    /\ data' = [b \in Buf |-> Zero]
    /\ lru' = <<>>
    /\ age' \in [1..Cardinality(Buf) -> Buf] /\ IsInjective(age')
    /\ freewant' = FALSE
    /\ ioq' = <<>>
    /\ pc' = [p \in Proc |-> "user"]
    /\ req' = [p \in Proc |-> NoReq]
    /\ want' = [p \in Proc |-> NoBlk]
    /\ cand' = [p \in Proc |-> NoBuf]
    /\ bp' = [p \in Proc |-> NoBuf]
    /\ chan' = [p \in Proc |-> NoBuf]
    /\ cpu' = Idle
    /\ reply' = [p \in Proc |-> NoReply]

Next == (\E p \in Proc : Step(p)) \/ DiskDone \/ DiskError \/ Crash

Spec == Init /\ [][Next]_vars

(* The interrupt of a transfer comes, and a process that is ready inside   *)
(* the kernel is run: it stays ready while others have the processor, and  *)
(* swtch prefers it to every process in user mode.                         *)
Fairness ==
    /\ WF_vars(DiskDone \/ DiskError)
    /\ \A p \in Proc : SF_vars(Step(p) /\ pc[p] # "user")

FairSpec == Spec /\ Fairness

-----------------------------------------------------------------------------
(* Properties *)

Where == {"user", "incore", "ra", "reap", "getblk", "hit", "getnew", "aged", "got", "biowait",
          "wwait", "use", "written", "flush", "inval", "blkflush", "fwait", "return", "wild"}

Free(b) == b \in ToSet(lru) \cup ToSet(age)

Queued(b) == b \in ToSet(ioq)

(* p is between a getblk or geteblk and the brelse or bwrite that ends it. *)
Holds(p, b) == bp[p] = b \/ (pc[p] = "got" /\ cand[p] = b)

(* The type of every variable. *)
TypeOK ==
    /\ flags \in [Buf -> SUBSET Flag]
    /\ key \in [Buf -> Blk \cup {NoBlk}]
    /\ data \in [Buf -> Val]
    /\ lru \in Seq(Buf) /\ age \in Seq(Buf) /\ ioq \in Seq(Buf)
    /\ freewant \in BOOLEAN
    /\ disk \in [Blk -> Val]
    /\ pc \in [Proc -> Where]
    /\ req \in [Proc -> Request \cup {NoReq}]
    /\ want \in [Proc -> Blk \cup {NoBlk}]
    /\ cand \in [Proc -> Buf \cup {NoBuf}]
    /\ bp \in [Proc -> Buf \cup {NoBuf}]
    /\ chan \in [Proc -> Buf \cup {NoBuf, FreeList}]
    /\ cpu \in Proc \cup {Idle}
    /\ reply \in [Proc -> [blk : Blk, res : Val \cup {"synced", "error"}] \cup {NoReply}]

(* B_BUSY is the one lock of the cache.  A buffer is on exactly one free   *)
(* list, once, when it is not busy and on none when it is; a busy buffer   *)
(* belongs to exactly one process, or to the driver alone when its I/O is  *)
(* asynchronous; and the driver never has a buffer twice, nor one whose    *)
(* transfer is done ("dup biodone").                                       *)
Ownership ==
    /\ IsInjective(lru \o age) /\ IsInjective(ioq)
    /\ \A b \in Buf : Free(b) <=> "BUSY" \notin flags[b]
    /\ \A b \in Buf : "BUSY" \in flags[b] =>
          \/ \E p \in Proc : Holds(p, b) /\ "ASYNC" \notin flags[b]
          \/ Queued(b) /\ "ASYNC" \in flags[b]
    /\ \A b \in Buf, p, q \in Proc : Holds(p, b) /\ Holds(q, b) => p = q
    /\ \A b \in Buf, p \in Proc : Holds(p, b) => "BUSY" \in flags[b] /\ "ASYNC" \notin flags[b]
    /\ \A b \in Buf : Queued(b) => "BUSY" \in flags[b] /\ "DONE" \notin flags[b]

(* Whoever sleeps will be woken: the buffer slept on in getblk or blkflush *)
(* is busy and wanted, the one slept on in biowait is still with the       *)
(* driver, and a sleeper in getnewbuf is announced on a pool that really   *)
(* is empty.                                                               *)
NoLostWakeup ==
    \A p \in Proc :
        /\ chan[p] \in Buf /\ pc[p] \in {"getblk", "blkflush"} =>
               {"BUSY", "WANTED"} \subseteq flags[chan[p]]
        /\ chan[p] \in Buf /\ pc[p] \notin {"getblk", "blkflush"} => Queued(chan[p])
        /\ chan[p] = FreeList => freewant /\ lru = <<>> /\ age = <<>>

(* breada keeps one buffer while getnewbuf sleeps for another.  With more  *)
(* buffers than processes, everyone is never asleep with an idle disk.     *)
NoDeadlock == (\A p \in Proc : chan[p] # NoBuf) => ioq # <<>>

(* A cached block nobody is using and nothing is to be written for agrees  *)
(* with the platter, so that getnewbuf may give its buffer away.           *)
WritePending(k) == \E b \in Buf : key[b] = k /\ Queued(b) /\ ~IsRead(flags[b])

CleanMatchesDisk ==
    \A b \in Buf :
        /\ key[b] \in Blk /\ Free(b) /\ "DONE" \in flags[b]
        /\ flags[b] \cap {"INVAL", "DELWRI"} = {} /\ ~WritePending(key[b])
        => data[b] = disk[key[b]]

(* With all blocks on one cylinder a read is never starved: breada's and   *)
(* everybody else's requests go behind it, and the wakeup reaches it.  And *)
(* sync comes to an end though interrupts keep returning buffers.          *)
Returns ==
    \A p \in Proc :
        /\ pc[p] = "biowait" ~> pc[p] = "use"
        /\ pc[p] = "flush" ~> pc[p] = "return"

(* getblk: "If the appropriate block is already associated, return it;     *)
(* otherwise search for the oldest non-busy buffer and reassign it."  So   *)
(* no block ever has two valid buffers.                                    *)
OneBufferPerBlock == \A k \in Blk : Cardinality(Hits(k)) <= 1

(* Two things the cache does not defend itself against: a getnewbuf that   *)
(* sleeps for a buffer may give a block a second one (the run of           *)
(* OneBufferPerBlock exhibits it), and the interrupt of a failed transfer  *)
(* may take the block away from the buffer getblk has just found.  The     *)
(* refinement is about the executions in which neither has happened.       *)
PoolNeverDry == \A p \in Proc : chan[p] # FreeList
HitsStayBound == \A p \in Proc : pc[p] = "hit" => key[cand[p]] = want[p]
NoKnownRace == PoolNeverDry /\ HitsStayBound

(* The value of a block: that of the valid buffer that has it, or is       *)
(* writing it, else what is on the platter.                                *)
Current(b, k) == /\ b \in Hits(k) /\ "ERROR" \notin flags[b]
                 /\ "DONE" \in flags[b] \/ (Queued(b) /\ ~IsRead(flags[b]))

StoreOf == [k \in Blk |-> IF \E b \in Buf : Current(b, k)
                          THEN data[CHOOSE b \in Buf : Current(b, k)]
                          ELSE disk[k]]

Writing == [p \in Proc |-> IF req[p] # NoReq /\ req[p].op \in {"write", "update"}
                          THEN [blk |-> req[p].blk, val |-> req[p].val] ELSE NoReply]

(* The cache implements a store with one value per block, in which a write *)
(* somebody asked for is lost only when its transfer fails or the machine  *)
(* crashes.                                                                *)
Store == INSTANCE BlockStore WITH
             Client <- Proc, Slot <- Buf, store <- StoreOf, durable <- disk, asked <- Writing,
             failed <- {b \in Buf : "ERROR" \in flags[b]}

StoreSpec == Store!Spec

=============================================================================

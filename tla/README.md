# The 2.10BSD kernel in TLA+

2.10BSD is 4.3BSD for the PDP-11. Its kernel (`src/sys/sys`, headers in
`src/sys/h`) is one large monitor: a process that has entered the kernel keeps
the processor until it sleeps or returns to user mode, interrupts may come
whenever the priority (`spl`) allows, and `sleep`/`wakeup` on addresses is the
only synchronisation. There are no locks but flag bits (`B_BUSY`, `ILOCKED`,
`XLOCK`, `fs_ilock`), and every use of them is written out by hand. These
modules model the parts of the kernel where that discipline is hard to get
right and hard to test, check them with TLC on small instances, and prove for
every instance what matters most: of the buffer cache, inodes, free blocks,
pipes, select, texts and the maps of core.

## The parts of the system

| Part | State it keeps | Operations | Hard because | What makes it correct |
|---|---|---|---|---|
| Block buffer cache (`ufs_bio.c`, `ufs_dsort.c`, `h/buf.h`) | buffer headers and flags, two free lists, hash chains, the driver's queue | bread, breada, bwrite, bdwrite, bawrite, brelse, getblk, geteblk, getnewbuf, biowait, biodone, blkflush, bflush, binval | disk interrupts between any two statements below splbio, writes that outlive their caller, failed transfers, crashes | `B_BUSY` is a lock; no lost wakeup; no deadlock; one value per block |
| Resource maps (`subr_rmap.c`) | `coremap`, `swapmap`, `ub_map`: sorted arrays of free segments | malloc, malloc3, mfree | fixed arrays, an allocation that sleeps between two attempts, long histories of frees | sorted, joined, nothing lost or given twice |
| Callouts (`kern_clock.c`) | `calltodo`, a list of time differences | timeout, untimeout, hardclock, softclock | ticks while softclock is held off or running; deltas that go negative | every timer runs down with the others, none is forgotten |
| Inodes (`ufs_inode.c`, `ufs_alloc.c`) | the inode table, its hash and free list, the i-list, `fs_inode`, `fs_ilock`, `fs_tinode` | iget, iput, irele, iupdat, ialloc, ifree | every one of them sleeps in the middle; three copies of "this inode is free" | an inode is one file at a time, and a file while it is named, open or being made |
| Blocks (`ufs_alloc.c`, `ufs_bmap.c`, itrunc) | `fs_free`, the chain of free blocks on disk, `fs_flock`, `i_addr` | alloc, free, bmap, itrunc, update of the super block | sleeps half way; the copies on the disk lag behind; crash between two writes | a block belongs to one file, on the disk too; a crash finds a chain it can follow |
| Texts and swapping (`vm_text.c`, `vm_swap.c`, `vm_sched.c`) | the text table, `XLOCK`, `x_count`, `x_ccount`; what is in core | xalloc, xfree, xswap, xuncore, swapin, swapout, sched | locks held while asleep for core or swap, a process that swaps itself | a text in use is in core; nobody waits for ever |
| Sleep and dispatch (`kern_synch.c`) | sleep queues, run queue, `p_stat` | sleep, wakeup, setrun, swtch | signals and stops in the middle of sleep | a process is in one place; no lost wakeup |
| Pipes (`sys_pipe.c`) | an inode that is appended to and cut, `IREAD`, `IWRITE`, `i_count` | pipe, readp, writep, close of an end | unlock, look, sleep; update's visit; blocks that are read lose `B_DELWRI` | first in, first out; end of file only when the other end is closed |
| Select (`sys_generic.c`, `tty.c`) | `SSEL`, `nselcoll`, `t_rsel`, `TS_RCOLL` | select, selscan, selwakeup, unselect | input and timeout arrive between the scan and the sleep | select returns when it should |
| Processes and signals (`kern_fork.c`, `kern_exit.c`, `kern_sig.c`) | the process table and its queues, `p_sig` | fork, exit, wait, psignal, issig, stop | vfork, stopping, orphaned children | only SIGCONT and SIGKILL end a stop; every child is waited for once |
| Names, mounts, quotas (`ufs_namei.c`, `ufs_mount.c`, ...) | directories, the mount table | namei, mount, link, rename | locking of parent and child | no deadlock between directories |
| Terminals, sockets, protocols | clists, mbufs, control blocks | line discipline, socket calls, TCP | water marks, timers | flow control |
| Machine dependent code and drivers | device registers, memory maps | traps, interrupts, booting | hardware | outside TLC's reach, except what they do to a queue |

How they interact. The file system calls (`readi`, `writei`, `iget`,
`iupdat`, `alloc`, ...) reach the disk through the buffer cache only, and wait
in `biowait`; the driver gives buffers back with `biodone` from interrupt
level, which calls `brelse` and `wakeup`. `ialloc`, `ifree`, `alloc` and
`free` work on the super block in core, which `update` copies to its block.
The swapper and `exec` allocate core from `coremap`; when that fails `malloc`
calls `xuncore`, which writes unused texts to swap and gives their core to
`mfree`. A pipe is an inode whose blocks readi and writei keep in the buffer
cache; its processes sleep where a signal may end the sleep by `longjmp`.
`select` uses a callout to bound its sleep, and is woken by the line discipline
from the terminal's interrupt. `hardclock` counts the callouts down and starts
`softclock`. All of them sleep and wake through `kern_synch.c`.

`PROJECT.json` lists all parts, the ones that are not modelled too, and the
hazards of the code, each at its line with the properties that watch it or a
note saying why none does yet.

## The modules

| Module | Models | Interface |
|---|---|---|
| `Bio` | the buffer cache, the queue of one drive and the calls of the file system on it | 36 actions; implements `BlockStore` |
| `BlockStore` | abstract: one value per block, and what of it is durable | |
| `MCBio` | instances of `Bio`: `MCBioPool`, `MCBioStore`, `MCBioLive`, `MCBioTwin.cfg` | |
| `SeqFacts`, `BioProofs` | lemmas on sequences; the proofs about `Bio` | |
| `Rmap` | `malloc`, `malloc3`, `mfree` at work as `coremap`, with `xuncore`, `expand`, `exit`, `xfree`, `xalloc` as their users | implements `Arena` |
| `Arena` | abstract: a set of units, each free, used, cached or lost | |
| `MCRmap`, `RmapProofs` | `MCRmap.cfg`; the proofs about `Rmap` | |
| `Callout` | `timeout`, `untimeout`, `hardclock`, `softclock` | implements `Timers` |
| `Timers` | abstract: timers that all run down together | |
| `MCCallout` | `MCCallout.cfg` | |
| `Inode` | `iget`, `iput`, `irele`, `iupdat`, `ialloc`, `ifree` under maknode, open, unlink, close and update | implements `Files` |
| `Files` | abstract: files that live while they are named, open or being made | |
| `MCInode`, `InodeProofs` | `MCInode.cfg`; the proofs about `Inode` | |
| `Balloc` | `alloc`, `free`, bmap's, writei's and itrunc's use of them, `update` and the delayed writes | implements `Space` |
| `Space` | abstract: blocks that are free, in a file or in a process' hand | |
| `MCBalloc`, `BallocProofs` | `MCBalloc.cfg`; the proofs about `Balloc` | |
| `Pipe` | `pipe`, `readp`, `writep`, the close of an end, `update`'s visit, signals | implements `Fifo` |
| `Fifo` | abstract: a queue with two ends | |
| `MCPipe`, `PipeProofs` | `MCPipe.cfg`; the proofs about `Pipe` | |
| `Synch` | `sleep`, `unsleep`, `wakeup`, `setrun`, `setrq`, `psignal`, `issig`, `stop` as operators on a process table | |
| `Select` | `select`, `selscan`, `unselect`, `selwakeup`, `ttselect`, `ttwakeup` on the table of `Synch`, `swtch` | extends `Synch` |
| `MCSelect`, `SelectProofs` | `MCSelect.cfg`; the proofs about `Select`, `Synch` and `Callout` | |
| `Texts` | `xalloc`, `xfree`, `xexpand`, `xccdec`, `xuntext`, `xuncore`, `expand`, `swapin`, `swapout`, `sched` | core as a number of units, of which `Rmap` has the segments |
| `MCTexts`, `TextsProofs` | `MCTexts.cfg`, `MCTextsReuse.cfg`; the proofs about `Texts` | |

Conventions. `pc[p]` is the statement at which process `p` goes on, `chan[p]`
what it sleeps on, and `cpu` the process that has the processor inside the
kernel: an action of `p` needs `cpu` to be `p` or free, sleeping frees it.
What runs between two points where something else could happen is one action.
Operators and variables keep the names of the source where TLA+ allows it. A
definition whose comment begins "Mutant of" is a plausible bug, which no
specification uses; the runs were checked to notice each of them.

### Bio

`flags[b]` is `b_flags`, `key[b]` is `b_dev` and `b_blkno` together (one
device; `NoBlk` is `NODEV`), `lru` and `age` the two free lists, `ioq` the
drive's queue in the order of `disksort`, its head the transfer under way.
`cand` and `bp` are the locals of `getblk` and of its caller. Hash chains are
the set `Hits(k)`; when a block has two buffers the search may find either.

- getblk is `Scan`, `WaitHit`, `TakeHit`, and getnewbuf `WaitFree`, `Evict`,
  `Reassign`. `Scan` and the two that follow it are different steps because
  the code compares the block number before `splbio()` (ufs_bio.c:260-263).
- bread and breada are `Incore`, `GotReady`, `GotToRead`, `ReadAhead`,
  `GotAhead`, `Reap`, `ReadDone`; `SleepIO` is biowait.
- bwrite in its three forms is `WriteDelayed`, `WriteAsync`, `WriteSync` and
  `WriteDone`, with `SetAge` for the flag it sets after the driver has the
  buffer (ufs_bio.c:139); `WriteFaults` is writei when `uiomove` fails.
- bflush is `FlushOne`, `FlushDone`; binval `Binval`; syncip with blkflush
  `PushWaits`, `PushWrites`, `PushWritten`, `PushDone`.
- hkintr and biodone are `DiskDone` and `DiskError`; `Crash` loses the core
  and perhaps completes the write under way.

`BlockStore` is the promise to the rest of the kernel: a read answers with the
block's one value, a write takes effect at one instant, a synchronous write is
durable when it is answered, and the value goes back to the durable one only
by a failed transfer or a crash.

### Rmap

`map` is the array up to its terminator; `held`, `cache` and `lost` say who
has the segments taken from it. Placing (`Placements`), taking (`Carve`) and
squeezing out empty entries (`SqueezeAll`) are the loops of malloc and
malloc3; `Insert` is mfree with its joins on either side. A failed allocation
goes through `xuncore` (`Xuncore`, `XuncoreEnds`) and is tried `Again` once.
Addresses are absolute and 0 is not one of them, as in the code, where an
address of 0 ends the map.

### Callout

An entry is `[time, what]`. `Insert` and `Delete` are the list operations of
timeout and untimeout, `Countdown` the loop of hardclock, which stops at the
first entry that was not overdue. `Hardclock(base)` runs at any time; `base`
says whether it interrupted base priority and so may start softclock.

### Inode

`disk` is the i-list as bread returns it, `core` the copies in the inode
table, `cached` those that a search of the hash chain finds, `locked` and
`wanted` are `ILOCKED` and `IWANT`, `count` is `i_count`. `inodes`, `ilock`,
`lasti`, `nbehind`, `tinode` are the fields of the super block. Contents are
abstracted to whether the mode is 0 and to the link count.

- iget is `WaitLock`, `IgetHit`, `IgetMiss`, `IgetRead`, `IgetFull`; iput with
  irele is `Iput` (others refer to it), `IputClean`, or `IputLast`, `Reclaim`
  and `Release` when it has to truncate, free or write the inode.
- ialloc is `WaitScan`, `Ialloc`, `Pop`, `StartScan`, `Scan`, `ScanEnds`,
  `Make`, `Retry`; ifree is `Ifree`, part of `Reclaim`.
- `Made`, `Enter`, `Open`, `StartUnlink`, `Unlink`, `Close`, `Sync`, `Synced`
  are what maknode, copen, unlink, ino_close and update do between them.
- `Recycle` takes the entry of an unreferenced inode for a file that is not
  modelled, so the size of the inode table needs no constant.

### Balloc

`free` is `fs_free` up to `fs_nfree`, with entry 0 its head; `super` is the list
in the super block on the disk and `sbuf` the one in its buffer. `cache[b]` and
`disk[b]` are what a list read from block b is, by the buffer cache and by the
disk; `addr`, `dinode` and `ddisk` are the addresses of a file in core, in the
buffer of the i-list and on the disk. That the copies are three is the point:
a crash finds `super`, `disk` and `ddisk` at any moment.

- writei with bmap is `Write`, `Fill`, `FillFault` (uiomove fails), `GiveUp`;
  alloc is `WaitFree`, `Pop`, `Chain`, `SuperCopy`, `SuperWritten`, `Got`, one
  step for each stretch between two sleeps: for `fs_flock`, in bread of the
  chain block, in getblk(SUPERB), in the write of it, in getblk(bno).
- itrunc is `Trunc`, `InodeWritten` (a synchronous iupdat), then free for each
  block: `Free`, `ListCopy`, `ListWritten`, and `TruncDone`.
- update is `Update`, `UpdateCopy`, `UpdateWritten` and, per inode,
  `SyncInode`; `FlushInode` and `FlushBlock` are delayed writes that reach the
  disk whenever the cache pleases.

`Space` promises that a block is in one place and is moved by one process at a
time, and that "file system full" is told only when nothing is free.

### Pipe

`file` is the contents of the inode, `offset` the reader's `f_offset`, so what
is in the pipe is the part of `file` behind `offset`. `readw` and `writew` are
`IREAD` and `IWRITE` in `i_mode`, `count` is `i_count`. `lost` are the blocks
whose buffers lost `B_DELWRI` when they were read to the end (sys_inode.c:88);
`Evict` replaces what such a block holds by `Junk`.

- readp is `WaitLock`, `ReadWait` (nothing there: unlock, leave word, sleep),
  `ReadEnd`, `ReadStart` and `ReadDone` (readi, and the cut to nothing).
- writep is `WriteEnd` (nobody reads: SIGPIPE), `WriteWait`, `WriteStart`,
  `WriteDone`; `todo` is what it has still to put in and `ucount` is `u_count`,
  which writep uses for the piece at hand.
- close of an end is `Close`, `CloseEnd`, and `Gone` when irele has truncated
  the inode of a pipe both ends of which are closed. `Sync` and `Synced` are
  update, which counts itself in `i_count`; `Signal` ends a sleep by longjmp.

`Fifo` promises that bytes come out once and in order, that end of file is told
only when the queue is empty and nobody can write, and that a write reports
what it put in or fails because nobody can read, except where a signal ended it.

### Synch and Select

A table has `p_stat`, `p_wchan`, the run queue and `p_sig`; an operator of
`Synch` is a function of the code, from table to table, so a handler that
calls several is one step. `panic` says that setrun or setrq would have
panicked.

`cpu` is here the process that runs, in whatever mode; `Dispatch`, `Swtch` and
`Preempt` are swtch, and `Block` with `Unblocked` a sleep that signals do not
break. select is `Call`, `Retry`, `Scan` (one terminal at a time), `Scanned`,
`TimeOut`, `Again`, `Sleep`; `Issigged` and `Woken` are the two looks for
signals in sleep, `Swtch` the place between, where a process may be stopped.
Interrupts are `Input` (ttwakeup, selwakeup), `Expire` with `Unselect` (the
clock and softclock), `Signal` (psignal) and `DiskDone`; they may come between
any two steps. `Drain` is another reader who takes the input.

There is one signal of each kind: SIGINT, which ends a process that does not
catch it, SIGKILL, which always does, SIGTSTP and SIGCONT. issig says what psig
is to do with the signal it takes: call a handler, after which the process is in
user mode, or exit (`Fatal`, `AfterPsig`). With `Exit` a new process has the
entry of the old, ready to run and with no signals, while terminals may still
remember the entry's address.

### Texts

`text[x]` is an entry of the table (`x_iptr`, `x_count`, `x_ccount`, `XLOCK`,
`XWRIT`, `XLOAD`, whether `x_caddr` is set) with two things the code does not
have: `core` and `swap`, the program whose text really is in its core and on
its swap. `free` is the list from `xhead`, `itext` is `i_text`, `units` what
`coremap` has left, `proc[p]` holds `p_textp`, `SLOAD` and `SLOCK`, and `sp` is
the process that sched brings in or throws out. `at[a]` has the locals of `a`,
a process or sched, among them where to go on when xuncore returns to malloc
and when xexpand or expand returns; `on[a]` is the text whose lock it sleeps
for. Core is a number of units: a text takes one, an image `Img[p]`, and what
malloc and mfree do with segments is in `Rmap`.

- exec is `Exec`, `Xfree`, `Expand`, and xalloc: `Attach` (no text, or one that
  is in the table), `Xwaited`, `Allot` (the head of the free list), `Xuntext`
  and `Xuntexted` around irele, `Readi` and `ReadIn` around readi,
  `UnlockAgain`. `Grow` is brk.
- xexpand is `Xexpand` and `Xread`. malloc without room calls xuncore
  (`CallXuncore`, `Xuncore`, `Xcore`, `Unwritten`) and tries once more; after
  that a process swaps itself out (`StartSwapout`) and swapin gives up
  (`SwapinFails`).
- swapout is `Swapout`, `Xccdec` with `TextOut`, `ImageOut`; swapin is
  `SwapinLock`, `SwapinText`, `SwapinImage`, `SwapinRead`, `SwapinDone`; sched is
  `Nobody`, `Bring`, `ThrowOut`, `WaitCore`. Whom sched takes depends on ages and
  sizes in the code and is any process in the model that the flags allow.
- X_LOCK that finds the text locked is `WaitLock`, XUNLOCK's wakeup is `Waken`.

## The runs

| Run | Question | Instance |
|---|---|---|
| `bio_pool` | is `B_BUSY` a lock, does every sleeper have a wakeup coming, can everyone wait for everyone? | 2 processes, 3 buffers, 2 blocks, 1 value, transfers fail |
| `bio_store` | is there one value per block? | 2 processes, 2 buffers, 3 blocks on 2 cylinders, 2 values, failures and crashes |
| `bio_live` | does every read return and every flush end? | 2 processes, 3 buffers, 3 blocks |
| `bio_twin` | has a block one buffer? It has not always | the smallest instance that shows it |
| `rmap` | is the map tidy and complete, and does it implement the arena? | 5 units, 2 entries, 2 processes, one and three segments at a time |
| `callout` | does the delta list implement independent timers, is each one called? | 2 timers, set any number of times, 4 entries, delays 0, 1, 2, 4 |
| `inode` | do the inode table and ialloc implement files? | 2 processes, 2 inodes in 2 blocks of the i-list, 2 entries in `fs_inode` |
| `balloc` | what would a crash find, and is every block in one place? | 2 processes, 2 files, 3 blocks in lists of 2, a file system full with one file |
| `pipe` | is a pipe a queue, does every reader and writer return? | 2 processes, pipes full with 2 units, blocks of 2, writes of 1 to 3 |
| `select` | is a process in one place, does nobody miss input, signals or time, does a stop hold? | 2 processes, 1 terminal, any signals, stops and timeouts |
| `texts` | is `XLOCK` a lock, are users counted once, does everyone run their own text, is no core lost, does nobody wait in a circle? | 3 processes of 2, 1 and 1 units, 2 entries, 3 programs, 3 units of core |
| `texts_reuse` | does everyone run their own text? Not when an entry is reused | 2 processes, 2 entries, 3 programs, 4 units |

Why the bounds are enough. With fewer blocks than the pool has buffers nothing
is evicted, so `bio_store` has three blocks for two buffers; `bio_pool` has
one buffer more than there are processes, the least for which
`NoDeadlock` is claimed. Two entries in `rmap` are the least with a gap to
close between them, and they overflow; five units leave room for two free
segments apart. Delays of 1, 2 and 4 with two timers make timers tie, pass
each other and be late by up to `MaxLate`. In `inode` the list of free inodes
becomes empty, full, stale and doubled, and both passes of a scan happen. In
`balloc` three blocks and lists of two make chains of two links, which both
grow and are taken apart while the copies on the disk are older; the file
system runs out of space. In `pipe` a write of three is larger than the pipe
and than a block, so it is cut, waits for room half way and crosses blocks; the
file stays below twice `MaxPip`, so five offsets are all there are. In `select`
two processes on one terminal are the least that collide, and both kinds of
sleep (`disk` is not broken by signals) are there. One process gets every
signal and catches none, so it is stopped, continued, interrupted and killed in
all orders; the other catches the two that are sent to it (`Sent`: both with
every signal have four times the states). A stopped process that catches
SIGCONT is left to the proofs, which are for any handlers, any number of
processes and any of terminals; a second terminal adds only more to scan.
In `texts` two processes share a program, three
programs compete for two entries, so the table is full and entries are reused,
and with a text in core there is no room for the largest process and another:
every path of malloc, xuncore, swapping oneself and being swapped is taken.

Bounds in the modules: the requests a process may make are the constant
`Requests` (each set in `MCBio` says what it covers; in `Pipe` also `Counts`),
`MaxLate` bounds how long softclock may be held off, a process has one file
open (`MayOpen`), a file has one name, and in `Balloc` no more blocks than
there are (`Write`).

Three runs have a constraint. `bio_store` stops at a state of one of the two
known races (`NoKnownRace`: a getnewbuf sleeping for a buffer, which `bio_twin`
shows to give a block two buffers, or a hit that lost its block, described
below): after them a block may have two values. `inode` stops where `fs_inode`
overflows (`ListFits`, described below): what the entry past the array does to
the locks behind it is not modelled. `texts` stops at a state of one of three
known races (`NoKnownRace`, all described below): after each of them two
processes believe that they have the same lock. `bio_pool` does not check for deadlock
since `UseWild` (bwrite of a buffer that has lost its device) stands still by
definition; that processes do not deadlock is `NoDeadlock`.

### What was found

Two runs exhibit that the code does not do what it says; the findings in
`PROJECT.json` quote the lines.

- `bio_twin`: getnewbuf's `goto loop` after a sleep never searches the hash
  chain again, so a block may get two buffers.
- `texts_reuse`: xalloc takes the first entry of the free list and xuntext waits
  for its lock; a process that executes the old program meanwhile attaches to
  it; xuntext then does nothing, and xalloc gives the entry to its own program
  all the same. "The use count must be zero", says vm_text.c:330.

Others were met while modelling. The models contain the code as it is, and the
properties are stated so as not to claim what it does not do:

- ialloc looks at `fs_ilock` only when it is entered (ufs_alloc.c:144); a process
  that came back from iget starts a second scan under the first, and the list
  of free inodes is written past its end (`ListFits` of `Inode`).
- writep leaves 0 in `u_count` after its first piece (sys_pipe.c:174), so a
  signal that ends it while it waits for room makes write report everything
  (`Remaining` of `Pipe` says otherwise).
- getblk compares the block before it raises the priority (ufs_bio.c:260); the
  interrupt of a failed write may take the block away in between
  (`Scan`, `TakeHit`, `UseWild` of `Bio`).
- The last close of a block device starts its writes and then invalidates the
  buffers (ufs_bio.c:470); a read that follows overtakes the writes and caches
  the old contents (`Binval`).
- writei releases a cached block that a failed uiomove has changed in part with
  `B_DONE` and without `B_DELWRI` (sys_inode.c:161): until it is evicted readers
  get what never reaches the disk (`WriteFaults`; the requests of `bio_store`
  do without it, `Tame`).
- syncip and blkflush both convert the block number (ufs_subr.c:116), so fsync
  of a small file writes nothing of it (`Pushed`).
- `m_limit` points past the array (subr_rmap.c:175), so a full map has its
  terminator outside it (`RoomFor`).
- itrunc returns at once for a file of size 0 (ufs_inode.c:389), whose comment
  (233-236) wants it called all the same; a block that bmap gave to an empty
  file before uiomove failed stays with the inode (`FillFault`, `Trunc`).
- alloc decrements `fs_tfree` after a sleep in getblk and sets it to 0 when it
  finds no space (ufs_alloc.c:95, 107): a process between the two makes it -1.
  The count is only reported, and is left out of `Balloc`.
- hzto compares seconds with `0x7fff/1000 - 1000`, a negative number
  (kern_clock.c:346), so its exact branch is never used and a timeout of
  select is whole seconds (`Expire`, `Unselect` allow it any time).

- Two processes may be in xuntext for one entry, when xumount, unlink, access or chmod
  (ufs_fio.c:58, ufs_syscalls.c:347, 561) chose it too; the second finds `x_iptr` cleared and frees the swap space again. And
  xalloc may take from the free list an entry whose xuntext, called by these,
  sleeps in irele: it sets `x_flag` anew, lock included (vm_text.c:187). In `Texts`
  only xalloc comes to xuntext.
- sched looks at the lock of a process' own text only (vm_sched.c:105). A process
  that sleeps in irele or in xuncore with another text locked may be thrown
  out; when the way to bring it back leads through malloc to xuncore and that
  lock, sched waits for a process that waits for sched (`HolderOut`).
- When xexpand had to swap its caller out, the text is unlocked at the end of
  swapout, and once more by xalloc when the process is back (vm_text.c:165-169),
  though another may have locked it meanwhile (`UnlocksOther`). "Don't change
  the locking, it's correct", says xexpand's comment (238).
- When no swap space is left, xalloc returns with the text locked and off the
  free list for ever (vm_text.c:193), so that xumount of its device never
  returns.

### Fairness

Safety runs assume none. `bio_live` assumes that the interrupt of a transfer
comes (WF on `DiskDone \/ DiskError`), and that a process ready inside the
kernel is run in the end (SF on its steps in the kernel): while another has
the processor its steps are not enabled, so weak fairness would say nothing,
and swtch prefers processes in the kernel to those in user mode. Nothing is
assumed of processes in user mode. All blocks are on one cylinder there:
disksort does not promise that a stream of near requests does not keep a far
one waiting. `callout` assumes that the functions called return, that softclock
goes on when it is interrupted, and that hardclock now and then interrupts
base priority (WF); `IsCalled` is about timers that are cancelled only
finitely often. `pipe` assumes SF of a process' steps inside the kernel, as in
`bio_live` (its transfers end, and whoever is ready is chosen in the end: a
system call that woke somebody ends in swtch, so the lock is not taken from
under a woken process again and again), and WF of the step that queues for the
lock. `select` assumes that kernel code runs on (WF), that time slices end and
a ready process is chosen in the end (SF on `Preempt`, `Dispatch`; schedcpu
ages priorities), and that clock and disk interrupts come (WF). Nothing is
assumed of input, signals or what processes call.

## What is proved

### The buffer cache

`BioProofs` proves, for any set of processes, blocks, values and requests and
any finite pool of buffers,

- `TypeCorrect`: `Spec => []TypeOK`;
- `BusyIsALock`: `Spec => []Ownership`;
- `WakeupsReach`: `Spec => []NoLostWakeup`;
- `DeadlockFree`: `Spec => []NoDeadlock` when there are more buffers than
  processes;

and, when nobody closes the device and no copy from a process fails (`Tame`),

- `CleanKept`: `Spec /\ []PoolNeverDry => []CleanMatchesDisk`;
- `OneUnlessDry`: `Spec /\ []PoolNeverDry => []OneBufferPerBlock`;
- `StoreKept`: `Spec /\ []NoKnownRace => StoreSpec`, the refinement of
  `BlockStore`.

The assumptions are those of `Bio`: the pool is finite and not empty, the
"no value" constants are in no other set, cylinders and block numbers are
natural numbers, a request names a block, and a read-ahead block differs from
the block asked for. The hypotheses of the last three leave out only what is
known to break them. Once a process has slept in getnewbuf a block may have two
buffers (`bio_twin`); a hit whose block an interrupt took away may be used for
another (`HitsStayBound`); binval invalidates buffers that are still to be
written; and writei releases as clean a buffer that a failed copy has changed.
`bio_store` meets them: its requests are `Tame` and its constraint is
`NoKnownRace`. `CleanKept` needs less than that constraint, so it says more than
the run: a hit that has lost its block makes no clean buffer wrong.

The argument. None of the properties is inductive. `IInv` adds to them where a
process can be and with which locals (`Control`), what the flags of a buffer
say about its block (`Keys`: a buffer without a block is invalid or failed, a
queued one has a block, ...), that the lists are disjoint and without
repetition (`Lists`), who owns a busy buffer (`Owners`), and what a sleeper
waits for (`Sleepers`). For instance, that biowait's buffer is with the driver
needs `LocalKeysOf`: between the start of a transfer and its end nothing but
the interrupt takes `B_DONE`'s place. Each action touches one process and at
most one buffer, so a first group of lemmas (`OtherProcesses`, `OtherBuffers`,
`OtherSleepers`, `OneProcess`) says that everything else keeps the invariant,
and four more (`QuietStep`, `ReleaseStep`, `SubmitStep`, and the interrupt)
say what brelse, the strategy routine and biodone do to it; there is then one
lemma per action. Sequences are seen as sets without repetition through the
lemmas of `SeqFacts`. `DeadlockFree` adds `AheadInv`: a
process that keeps the first buffer of breada never waits for a busy one,
because the block it reads ahead was not in core when it began to look. So a
process that waits for a busy buffer holds none. If all were asleep and the
disk idle, nobody would wait for a transfer, whoever holds a buffer would wait
for a free one, and every buffer would be held, each by a different process;
but there are more buffers than processes.

`CleanMatchesDisk` rests on `DInv` beside `IInv`: no invalid buffer has a block
(`Valid`), no two have the same (`Unique`), a buffer that is done, not dirty and
not in error has what the platter has (`Clean`), and a process on its way from
the search to the assignment of a buffer has the processor and finds no buffer
of its block all the while (`LooksOf`). That last part is where a dry pool
breaks it: who sleeps in getnewbuf gives up the processor and does not search
again. The interrupt of a write makes the platter equal to one buffer; that it
makes no other one wrong is `Unique`. `KeepOne`, `BrelseKeeps` and
`StrategyKeeps` say it once for all actions that touch one buffer.

For the refinement `SInv` adds that the buffer a process has is that of the
block it asked for, that a reader's is done and a synchronous writer's is clean
once it is written (`AsksOf`). A block's value differs from what is on the
platter only while a buffer `Owes` it: one that holds the block, is dirty or
being written, and differs. So a step after which the same buffers owe the same
values changes nothing a reader sees (`StoreSame`: brelse, the start of any
transfer, and the reuse of a clean buffer), and a step that concerns one buffer
changes its block alone (`StorePoint`: copying in, and the interrupt). Then
`WriteDelayed`, `WriteAsync` and `WriteSync` are `Write`; `UseRead` is `Read`;
`WriteDone` is `Synced` or `Failed`, and `UseFailed` is `Failed`; the
interrupt of a write is `Flush`, that of a failed transfer `Fail`; a buffer in
error that is given away is `Reuse`; entering with a write is `Ask` and
returning `Collect`; a crash is `Crash`; and the rest changes nothing.

### Inodes

`InodeProofs` proves, for any finite set of processes, any i-list, any size of
`fs_inode` and any bound on `fs_nbehind`,

- `TypeCorrect`: `Spec => []TypeOK`, with `tinode` between 0 and the number of
  inodes;
- `RefsCounted`: `Spec => []Refs`;
- `WakeupKept`: `Spec => []NoLostWakeup`;
- `FreeCounted`: `Spec => []FreeCount`;
- `FilesImplemented`: `Spec => FilesSpec`, the refinement of `Files`.

The theorems are about `Spec` without the constraint of the run: the list of
free inodes may grow past `NICINOD` and hold an inode twice, in use or cached,
and the properties above hold all the same, as long as the entry past the
array has hit nothing. The assumptions are those of `Inode`: there are
processes, finitely many, blocks and inodes in a block, and the "no value"
constants are in no other set.

The argument. `Refs` alone is not inductive: that irele may clear the mode of
an inode needs that its count is still 1 after itrunc slept and woke the
others, that its link count is still 0, and that it is in use. `IInv` has these
in `ControlOf` and `Knows`; and since iget may find the inode in core or read
it again, it also says how the copies agree (`CopiesOf`): a clean copy is the
one on the disk, an entry that can be recycled is clean, a name means a link
and a link means a mode. `OneSearch`, the lock of the directory, keeps unlink
from removing a name that another search has found. `HolderStep` carries the
counting: a step of p on inode i changes no other inode, nobody else holds i,
and then `i_count`, the lock, the sleepers and `fs_tinode` change by what p
does. For the refinement each of the actions is a step of `Files` or changes
nothing a user sees (`UnseenSteps`); only `Make` and `Reclaim` change `Used`.

### Maps of core

`RmapProofs` proves for any size of core, length of the array, set of processes
and set of requests: `TypeCorrect`, `TidyKept` (`Spec => []MapTidy`),
`AllAccounted` (`Spec => []Conserved`) and `ArenaImplemented` (`Spec =>
ArenaSpec`, the refinement of `Arena`). `MapTidy` is inductive by itself once
the operators are understood: `InsertTidy` says that mfree of a segment that
touches nothing free leaves a tidy map with exactly those units more, whether
it joins on both sides, one or none; `SqueezeAllOrdered` and `CarveUnits` say
that malloc3 takes what it hands out, no unit twice, and that the map stays
sorted though a carved entry may be empty until it is squeezed out. `Conserved`
compares bags of segments with bags of units; `IInv` has it as `Sound`: the
tokens (each segment with who has it) are real, disjoint, and cover `1..Size`,
so a step that takes some tokens away and puts others that cover the same
units there keeps it (`SoundStep`).

For the refinement each action is a step of `Arena` on the sets of units that
the segments cover: malloc and malloc3 are `Grant`, `Wait` or `Refuse`, mfree
`Release` or `Reclaim`. That a request is turned away only when no run of free
units is long enough for the whole of it needs that the entries of a tidy map
are exactly the runs; that units are lost only when the map is full needs as
many entries as `RunStarts`.

### Blocks

`BallocProofs` proves for any processes, files, blocks and `NICFREE`:
`TypeCorrect` (free never writes past the array), `WakeupKept`
(`NoLostWakeup`) and `FilesApart` (`Spec => []DurableFiles`). No block in two
files *on the disk* needs the history of every copy: a block freed by one file
may be given to another while the first one's inode on the disk is old. `IInv`
lists the places a block may be (`Places`: the list in core, a list in the
cache that hangs on it, a process' hand, a file) and that they are apart; and
`OnDisk`: if the disk or the i-list's buffer has a block in file f, then f
itself has it, or it is in the hand of the process that truncates f and has
not yet written the inode (`Owned`). That is what itrunc's synchronous iupdat
before the frees is for; its mutant (a delayed one) breaks it. `MoveStep` says
that a step which moves one block from one place to another keeps places
apart; there is one lemma per action.

It also proves `ListDurable` (`Spec => []DurableList`), `MarkAlways` (`Spec =>
[]Marked`) and `SpaceKept` (`Spec => SpaceSpec`, the refinement of `Space`).
These follow chains of lists from block to block, and rest on a second
invariant beside `IInv`, `LInv`:

- `Lists`: entry 0 of a list is 0 or a block that holds a list, no other entry
  is; a file's blocks hold none, nor what a process frees, but for the block it
  is writing the list to (`Writes`); a list in the cache is on the disk too
  unless it is being written.
- `NoLoop`: some assignment of numbers to blocks goes up from every list to the
  next. Without it a chain might turn in circles in blocks that no list in core
  leads to, and alloc and free give no reason why not; any order of the lists
  by age is such an assignment, and it is given as a quantified function so that
  the model needs no clock.
- `Copies`: what is in the super block, on the disk or in its buffer, is
  `Sound`: it starts a chain through lists that are the same in the cache and on
  the disk, in none of which is a block of the first. With nobody in alloc or
  free and `fs_fmod` clear the copy is the list in core (`Alike`).
- `Reached`: every list in use is the next one of another in use, or of the
  list in core or in somebody's hands.

No step changes a list that a copy rests on (`Frozen`): alloc gives the block
that held a list to a file only after the super block with that list in it has
been written, when no copy rests on it any longer (`Stale`); free's list is
written before the super block can name its block. The mutant of `SuperCopy`
breaks the first. From `LInv`, `DurableNow` shows that the chain on the disk is
well formed link by link, and `MarkedNow` that it is the one in core.

For the refinement `FreeIs` says that the free blocks, a chain of any length in
`FreeBlocks`, are exactly what is in the list in core and in the lists of
blocks whose list is not dead: one direction follows the chain, the other takes
the block of least number (`NoLoop`) that is on no chain and finds, by
`Reached`, one before it. With that every action is a step of `Space` (`Pop` is
`Take` or `Refuse`, `Got` `Attach`, `Trunc` `Detach`, `Free` and `ListWritten`
`Put`) or changes nothing of it, though a list moves in and out of core.

### Pipes

`PipeProofs` proves for any finite set of processes, any `MaxPip`, block size,
requests and counts: `TypeCorrect` (the file stays below twice `MaxPip`
whatever is written), `EndsRight` (`EndsCounted`), `WakeupKept` and
`FifoImplemented` (`Spec => FifoSpec`). The argument: what is open is counted
process by process (`Counted`), with the end being closed and update's
reference added; only one process can be inside the file (`Single`), and a
process in a transfer has the lock (`Proper`). `LostBelow` says that a block
which lost `B_DELWRI` lies wholly below `offset`, so `Evict` changes nothing
that is still to be read; that needs the order of blocks (`BlockAssumption`)
and that the cut to nothing happens before anything is appended (`Emptied`).
For the refinement every action is a step of `Fifo` or changes nothing that
counts: `ReadDone` is `Get`, `WriteDone` is `Put`, `Gone` discards.

### Select and sleep

`SelectProofs` proves for any processes and terminals, and any assignment of
handlers: `TypeCorrect`, `OnePlace` (`InOnePlace`: setrun and setrq never
panic), `InputHeard` (`HearsInput`), `SignalsHeard` (`HearsSignals`) and
`StopsHold` (`Spec => StopHolds`: only SIGCONT and SIGKILL end a stop). First, each operator of `Synch` keeps the
table sound (`Sound`: a process that runs is not on a sleep queue, one on the
run queue is not running, ...) provided the process is not the one that runs,
or that is on its way out (`Leaving`): `SetrunSound`, `WakeupSound`,
`PsignalSound`, ... `HearsInput` is about sleepers only; what makes it
inductive is `Looked`: of a process that is still looking, each terminal it has
looked at either has had no input since, with its name or a collision there, or
`SSEL` is off or a collision was counted, so that `MustRetry` sends it round
again. An interrupt only ever makes `MustRetry` true or takes the process off
`selwait` (`Interrupt`, `InputWakes`).

### Callouts

The last part of `SelectProofs` is about `Callout`, for any timers, delays
(negative ones, too) and size of the table: `TimersKept`
(`Clock!Spec => Clock!TimersSpec`, where `Clock` is an instance of `Callout`
and `ClockConstants` states what its `CalloutAssumption` says of `Times` and
`NCallout`; select's timeouts are what the list serves). The list of differences
implements timers that all run down together, so a tick takes one from each of
them wherever it stands, none is called early and none out of order; and
`TypeOK`. The bound `MaxLate` is a guard of the model only: the proof uses
nothing of it.

That differences can be taken and put back at one place relies on the overdue
entries being at the head, the latest first, and this is the inductive invariant
(`LateFirst`, with `TypeOK`): without it an entry of negative time would stand
behind one that still runs, and hardclock, which stops at the first that was not
overdue, would not reach it. Under it what an entry has left is its own time if
that is negative, and otherwise what `Passed` adds up to there (`LeftForm`).
`Passed` is a recursive function; `PassedSteps` shows that it exists and takes
the values of its definition, `PassedBetween` that equal stretches of two lists
add up to the same. From these follows what each operation does to the time
every entry has left: `InsertLeft` (its loop stops where `t` still exceeds what
has passed, `StopsIs`), `DeleteLeft`, `CountdownLeft` and `TailLeft`; and so to
the queue of timers (`InsertTimers`, ...).

### Texts

`TextsProofs` proves, for any processes, table, programs, sizes of images and
any core, all the invariants of the run, where "up to a race" means in every
state before the first of the races that the code does not guard against:

- `AlwaysShape`: `Spec => []Shape`, with no assumption;
- up to a `ReusedInUse` or an `UnlocksOther` (`NoRace`): `TextsLocked`
  (`Locked`), `TextsAccounted` (`Accounts`), `TextsRun` (`RunsItsText`),
  `TextsConserved` (`Conserved`) and `TextsTyped` (`TypeOK`);
- up to any of the three, `HolderOut` included (`NoKnownRace`):
  `TextsNoCycle` (`NoCycle`).

The races are excluded because they happen: `texts_reuse` shows the first, and
all are described under "What was found". That `HolderOut` is needed for
`NoCycle` alone is a result of the proof: a process that is thrown out with the
lock of another text makes sched wait, but breaks no lock and loses nothing.
The assumptions on the constants are those of `Texts`: finitely many processes,
each with an image that fits in core when nothing else is there, and values
that are in no other set.

The argument has layers, each of which uses those before it.

- `Shape` ties the place of everybody in the code to flags and locals.
- `IInv` has `Locked`, `Accounts`, and what they rest on: what the holder of a
  lock counts on (`Mine`: of a text that is being read in nobody is counted in
  core, an entry whose inode irele releases is unused and has no program, ...)
  and what is on the free list (`Listed`). A step that changes an entry has it locked or
  finds it unlocked (`Spares`), so the other holders lose nothing (`MineStep`).
- `Names` ties `x_iptr`, `i_text` and the program of each user together, and
  `XLOAD` to the one process that reads the text in.
- `Contents` says what is in the core and on the swap of a text as a function of
  the flags of its entry (`ContentOf`: unless `XLOAD` is set, what core there is
  has the program, and the swap has it too unless `XWRIT` is set), except while
  its reader has it locked (`Unread`).
  `RunsItsText` follows.
- `Conserved` is inductive beside these. A step moves the core of at most one
  text or one image (`TextMoves`, `ImageMoves`), and the lemmas say that core
  is given back exactly by those steps after which `TextIn` or `ImageIn` is
  false. xexpand keeps `x_caddr` of an earlier life of the entry until malloc
  has answered, hence `Bare`; swapin has core that the entry does not know of
  yet, hence `Given`.
- `Order` is why nobody waits in a circle: who asks for a lock with another in
  hand does so in xuncore, for an entry that it found on the free list, and in
  any set of those who ask there the last to come found one that none of the
  others keeps (`Orderly`).

Each handler is first brought into the form of what it does to the entry and to
the locals (`EntryIs`, `Goes`); the lemmas after that use the form only.

## What is only model-checked

- the liveness properties `Returns` of `Bio` and of `Pipe`, `IsCalled` and
  `SelectReturns`: liveness under fairness, and ENABLED, are out of the prover's
  reach.

The other way round `NoLostWakeup` of `Balloc` is proved and not an invariant of
a run.

The library's induction theorems take an operator as a parameter and cannot be
used here. `SeqFacts` has induction over sets of naturals instead (`NatInduct`,
from the least element of a set, and `Iterates`, that a function can be applied
again and again), which is enough for the chains of `Balloc` and for `Passed` of
`Callout`: recursive functions that refer only to their previous value.

## What is not modelled

Several devices and drives in `Bio`; bad sector forwarding; the wait for
UNIBUS map registers; I/O errors, mount points, hard links, truncation and
iflush in `Inode`; indirect blocks, truncation to a length and disk errors in
`Balloc`; failing copies, writes that find no space or exceed the limit on the
size of a file, and failures of falloc, in `Pipe`; the writing sides
and exceptional conditions of select (the same code on other fields), its
sockets and pseudo terminals, with `UCB_NET`'s use of a file pointer that is
not set yet (sys_generic.c:333); tracing, masks, ignored signals, vfork and
swapped-out processes in `Synch`; `swapmap` and `ub_map` as users of `Rmap`;
accounting and profiling in hardclock.

Of texts and swapping: the end of swap space (`Texts` has always some), xumount
and xrele, sticky, traced and removed texts, fork, vfork and exit as users of a
text, and the ages and sizes by which sched chooses. A process always wants
`Img[p]` units, also when brk makes it smaller. The lock of the inode lasts from
namei to the end of exec, so of two processes that execute one file the second
waits, which the guard of `Exec` says.

fork, exit and wait (except that `Select` gives the entry of a process that a
signal ended to a new one), terminals' queues, and directories are not modelled.
Sockets and protocols are an option of this kernel, carried over from 4.3BSD.
Drivers and machine dependent code are register-level; what a driver does to a
queue of buffers is in `Bio`. The repository is the whole distribution, and by
far most of its lines are user programs, libraries, games and documents:
separate systems each, so the modelled share of all its lines is small however
much of the kernel is covered.

## Plan

Done: 1. `Bio`, `BlockStore`, `BioProofs`; 2. `Rmap`, `Arena`, `RmapProofs`;
3. `Callout`, `Timers`; 4. `Inode`, `Files`, `InodeProofs`; 5. `Balloc`,
`Space`, `BallocProofs`; 6. `Pipe`, `Fifo`, `PipeProofs`; 7. `Synch`, `Select`,
`SelectProofs`; 8. `Texts`, `TextsProofs`.

To come:

- `Texts` with the segments of `Rmap` in place of `units`.
- `Proc`: fork, exit and wait over `Synch`, with vfork and orphans.
- `Tty`: the output queue and its water marks, ttstart against ttwrite.

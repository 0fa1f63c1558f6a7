------------------------------- MODULE Texts -------------------------------
(***************************************************************************)
(* Shared texts and swapping: xalloc, xfree, xexpand, xccdec, xuntext and  *)
(* xuncore (src/sys/sys/vm_text.c), swapin and swapout (vm_swap.c), sched  *)
(* (vm_sched.c) and expand (vm_proc.c), under exec and brk.                *)
(*                                                                         *)
(* A text is one unit of core, and a process one segment of Img[p] units   *)
(* whether it grows or not; what malloc and mfree do with segments is in   *)
(* Rmap.  Swap space does not run out, nothing is unmounted, removed,      *)
(* sticky or traced, and two processes share a text when both execute its  *)
(* file.  As in Inode a process, and sched, keeps the processor (cpu)      *)
(* until it sleeps: for the lock of a text, in swap, in readi or in irele. *)
(***************************************************************************)
EXTENDS SequencesExt, FiniteSets, Integers

CONSTANTS
    Proc,       \* processes
    Sched,      \* process 0
    Text,       \* entries of the text table
    File,       \* programs with a shared text
    Core,       \* units of core
    Img,        \* Img[p]: the units of p's data, stack and u.
    Execs,      \* Execs[p]: what p executes; NoFile is a program without text (bound)
    NoText, NoFile, Idle

Actor == Proc \cup {Sched}

ASSUME ActorAssumption == IsFiniteSet(Proc) /\ Sched \notin Proc /\ Idle \notin Actor
ASSUME NoneAssumption == NoText \notin Text /\ NoFile \notin File /\ IsFiniteSet(Text)
ASSUME CoreAssumption == Core \in Nat /\ Img \in [Proc -> 1..Core]
ASSUME ExecAssumption == Execs \in [Proc -> SUBSET (File \cup {NoFile})]

VARIABLES
    text,       \* text[x]: entry x of the table; core and swap say what is there
    free,       \* its free list, from xhead
    itext,      \* itext[f]: i_text
    units,      \* the free units of coremap
    proc,       \* proc[p]: p_textp, the program it has or executes, SLOAD, SLOCK
    at,         \* at[a]: where a is, with its locals
    on,         \* on[a]: the text whose lock a sleeps for
    sp,         \* the process that sched brings in or throws out
    cpu         \* the process that has the processor inside the kernel

vars == <<text, free, itext, units, proc, at, on, sp, cpu>>

Entry == [iptr : File \cup {NoFile}, count : Nat, ccount : Nat, lock : BOOLEAN, writ : BOOLEAN,
          load : BOOLEAN, caddr : BOOLEAN, core : File \cup {NoFile}, swap : File \cup {NoFile}]

Process == [text : Text \cup {NoText}, prog : File \cup {NoFile}, loaded : BOOLEAN, slock : BOOLEAN]

Location == {"user", "xfree", "expand", "xalloc", "xwait", "xuntext", "irele", "xexpand", "xread",
             "readi", "reading", "again", "xuncore", "xcore", "unwrite", "swapout", "xccdec",
             "outwrite", "image",
             "sched", "inlock", "intext", "inimage", "inread", "inload", "pick"}

(* pc; x, the entry that xalloc has; xp of xuncore and where it returns;   *)
(* whether malloc has called it; where xexpand and expand return.          *)
Locals == [pc : Location, x : Text \cup {NoText}, xp : Text \cup {NoText}, ret : Location,
           tried : BOOLEAN, after : {"user", "xalloc", "again", "readi", "sched"}]

-----------------------------------------------------------------------------
(* Control *)

Runs(a, l) == at[a].pc = l /\ on[a] = NoText /\ cpu \in {a, Idle} /\ (a \in Proc => proc[a].loaded)

(* Go on in the kernel, or sleep there. *)
Goto(a, l) == at' = [at EXCEPT ![a].pc = l, ![a].tried = FALSE] /\ cpu' = a
Leave(a, l) == at' = [at EXCEPT ![a].pc = l, ![a].tried = FALSE] /\ cpu' = Idle

(* Where a has no locals: in its program or at the top of sched. *)
Top(a) == IF a = Sched THEN "sched" ELSE "user"
Home(a) == [pc |-> Top(a), x |-> NoText, xp |-> NoText, ret |-> "user", tried |-> FALSE, after |-> Top(a)]
Return(p) == at' = [at EXCEPT ![p] = Home(p)] /\ cpu' = Idle

(* The processes that sleep for x when XUNLOCK wakes them. *)
Waken(x) == on' = [a \in Actor |-> IF on[a] = x THEN NoText ELSE on[a]]

(* Whose image and text a swaps. *)
Whose(a) == IF a = Sched THEN sp ELSE a
Its(a) == proc[Whose(a)].text

Init ==
    /\ text = [x \in Text |-> [iptr |-> NoFile, count |-> 0, ccount |-> 0, lock |-> FALSE,
                               writ |-> FALSE, load |-> FALSE, caddr |-> FALSE,
                               core |-> NoFile, swap |-> NoFile]]
    /\ free \in SetToSeqs(Text)
    /\ itext = [f \in File |-> NoText]
    /\ units = Core
    /\ proc = [p \in Proc |-> [text |-> NoText, prog |-> NoFile, loaded |-> FALSE, slock |-> FALSE]]
    /\ at = [a \in Actor |-> Home(a)]
    /\ on = [a \in Actor |-> NoText]
    /\ sp = Idle
    /\ cpu = Idle

(* The text whose lock a is about to take or wait for, if any. *)
Wants(a) ==
    CASE at[a].pc \in {"xwait", "xuntext"} -> at[a].x
      [] at[a].pc \in {"xfree", "inlock"} -> Its(a)
      [] at[a].pc = "xccdec" -> Its(a)
      [] at[a].pc = "xcore" -> at[a].xp
      [] OTHER -> NoText

(* X_LOCK of a text that is locked: sleep. *)
WaitLock(a) ==
    /\ Runs(a, at[a].pc)
    /\ Wants(a) # NoText /\ text[Wants(a)].lock
    /\ on' = [on EXCEPT ![a] = Wants(a)]
    /\ cpu' = Idle
    /\ UNCHANGED <<text, free, itext, units, proc, at, sp>>

(* a has what it needs to go on at l. *)
Gets(a, l) == Runs(a, l) /\ (Wants(a) # NoText => ~text[Wants(a)].lock)

-----------------------------------------------------------------------------
(* Core *)

(* malloc finds no room: xuncore the first time, then failure. *)
Short(a) == ~at[a].tried
CallXuncore(a) ==
    /\ at' = [at EXCEPT ![a].pc = "xuncore", ![a].ret = at[a].pc, ![a].tried = TRUE,
                        ![a].xp = IF free = <<>> THEN NoText ELSE Head(free)]
    /\ cpu' = a
    /\ UNCHANGED <<text, free, itext, units, proc, on, sp>>

(* What a asks malloc for. *)
Size(a) == IF at[a].ret \in {"xexpand", "intext"} THEN 1 ELSE Img[Whose(a)]

(* x_forw; it is NULL in an entry that is not on the list any more. *)
Forw(x) == IF \E i \in 1..(Len(free) - 1) : free[i] = x
           THEN free[1 + CHOOSE i \in 1..(Len(free) - 1) : free[i] = x]
           ELSE NoText

(* xuncore goes on with xp, or returns. *)
Look(a, xp) == at' = [at EXCEPT ![a].pc = "xuncore", ![a].xp = xp] /\ cpu' = a
Unlook(a) == at' = [at EXCEPT ![a].pc = at[a].ret, ![a].xp = NoText, ![a].ret = "user"] /\ cpu' = a

(* x has given up its core; is that enough? *)
Uncored(a, x) == IF Size(a) <= 1 THEN Unlook(a) ELSE Look(a, Forw(x))

(* The end of the list, an entry that is not in use, or one to lock. *)
Xuncore(a) ==
    /\ Runs(a, "xuncore")
    /\ LET x == at[a].xp IN
       \/ x = NoText /\ Unlook(a)
       \/ x # NoText /\ text[x].iptr = NoFile /\ Look(a, Forw(x))
       \/ /\ x # NoText /\ text[x].iptr # NoFile
          /\ at' = [at EXCEPT ![a].pc = "xcore"] /\ cpu' = a
    /\ UNCHANGED <<text, free, itext, units, proc, on, sp>>

(* A text that nobody in core uses gives up its core, once it is on swap. *)
Xcore(a) ==
    /\ Gets(a, "xcore")
    /\ LET x == at[a].xp
           unused == text[x].ccount = 0 /\ text[x].caddr IN
       \/ /\ ~unused
          /\ Look(a, Forw(x))
          /\ UNCHANGED <<text, units>>
       \/ /\ unused /\ text[x].writ
          /\ text' = [text EXCEPT ![x].lock = TRUE]
          /\ at' = [at EXCEPT ![a].pc = "unwrite"] /\ cpu' = Idle
          /\ UNCHANGED units
       \/ /\ unused /\ ~text[x].writ
          /\ text' = [text EXCEPT ![x].caddr = FALSE, ![x].core = NoFile]
          /\ units' = units + 1
          /\ Uncored(a, x)
    /\ UNCHANGED <<free, itext, proc, on, sp>>

(* The text is on swap; its core is freed, and it is unlocked. *)
Unwritten(a) ==
    /\ Runs(a, "unwrite")
    /\ LET x == at[a].xp IN
       /\ text' = [text EXCEPT ![x].swap = text[x].core, ![x].writ = FALSE, ![x].caddr = FALSE,
                               ![x].core = NoFile, ![x].lock = FALSE]
       /\ units' = units + 1
       /\ Uncored(a, x)
       /\ Waken(x)
    /\ UNCHANGED <<free, itext, proc, sp>>

-----------------------------------------------------------------------------
(* exec and brk *)

Inode(f) == \E p \in Proc : proc[p].prog = f /\ at[p].pc # "user" /\ at[p].after # "user"

(* exec of f: its inode stays locked to the end, so nobody else executes   *)
(* it meanwhile.                                                           *)
Exec(p, f) ==
    /\ Runs(p, "user") /\ f \in Execs[p]
    /\ f # NoFile => ~Inode(f)
    /\ proc' = [proc EXCEPT ![p].prog = f]
    /\ at' = [at EXCEPT ![p].pc = "xfree", ![p].after = "xalloc"] /\ cpu' = p
    /\ UNCHANGED <<text, free, itext, units, on, sp>>

(* Mutant of Xfree: who leaves an unused text is still counted in core. *)
Xfree_Loaded(p) ==
    /\ Gets(p, "xfree")
    /\ LET x == proc[p].text IN
       IF x = NoText THEN UNCHANGED <<text, free>>
       ELSE /\ text' = [text EXCEPT ![x].count = @ - 1,
                                    ![x].ccount = IF text[x].count = 1 THEN @ ELSE @ - 1]
            /\ free' = IF text[x].count = 1 THEN Append(free, x) ELSE free
    /\ proc' = [proc EXCEPT ![p].text = NoText]
    /\ \E l \in {"expand", "xalloc"} : Goto(p, l)
    /\ UNCHANGED <<itext, units, on, sp>>

(* xfree; the new data are larger than the old, or not. *)
Xfree(p) ==
    /\ Gets(p, "xfree")
    /\ LET x == proc[p].text IN
       IF x = NoText THEN UNCHANGED <<text, free>>
       ELSE /\ text' = [text EXCEPT ![x].count = @ - 1, ![x].ccount = @ - 1]
            /\ free' = IF text[x].count = 1 THEN Append(free, x) ELSE free
    /\ proc' = [proc EXCEPT ![p].text = NoText]
    /\ \E l \in {"expand", "xalloc"} : Goto(p, l)
    /\ UNCHANGED <<itext, units, on, sp>>

(* brk. *)
Grow(p) ==
    /\ Runs(p, "user")
    /\ Goto(p, "expand")
    /\ UNCHANGED <<text, free, itext, units, proc, on, sp>>

(* swapout has its swap space, and the process is locked. *)
StartSwapout(a, v) ==
    /\ Goto(a, "swapout")
    /\ proc' = [proc EXCEPT ![v].slock = TRUE, ![v].loaded = (a # Sched)]

(* expand: a copy is made in a new segment and the old one freed, or the   *)
(* process swaps itself out.                                               *)
Expand(p) ==
    /\ Runs(p, "expand")
    /\ \/ /\ units >= Img[p]
          /\ IF at[p].after = "user" THEN Return(p) ELSE Goto(p, "xalloc")
          /\ UNCHANGED <<text, free, itext, units, proc, on, sp>>
       \/ units < Img[p] /\ Short(p) /\ CallXuncore(p)
       \/ /\ units < Img[p] /\ ~Short(p)
          /\ StartSwapout(p, p)
          /\ UNCHANGED <<text, free, itext, units, on, sp>>

-----------------------------------------------------------------------------
(* xalloc *)

(* Mutant of Off: a text that is found unused keeps its place on the list. *)
Off_Keeps(x) == free

(* ALLOC, if the entry is on the list. *)
Off(x) == IF \E i \in DOMAIN free : free[i] = x
          THEN RemoveAt(free, CHOOSE i \in DOMAIN free : free[i] = x)
          ELSE free

(* No text; or it is locked: wait, then start over; or it is in core, or   *)
(* must be brought there. *)
Attach(p) ==
    /\ Runs(p, "xalloc")
    /\ LET f == proc[p].prog
           x == IF f = NoFile THEN NoText ELSE itext[f] IN
       \/ /\ f = NoFile
          /\ Return(p)
          /\ UNCHANGED <<text, free, proc>>
       \/ /\ x # NoText /\ text[x].lock
          /\ at' = [at EXCEPT ![p].pc = "xwait", ![p].x = x] /\ cpu' = p
          /\ UNCHANGED <<text, free, proc>>
       \/ /\ x # NoText /\ ~text[x].lock
          /\ free' = Off(x)
          /\ proc' = [proc EXCEPT ![p].text = x]
          /\ IF ~text[x].caddr /\ text[x].ccount = 0
             THEN /\ text' = [text EXCEPT ![x].count = @ + 1, ![x].lock = TRUE]
                  /\ at' = [at EXCEPT ![p].pc = "xexpand", ![p].x = x,
                                      ![p].after = "again"] /\ cpu' = p
             ELSE /\ text' = [text EXCEPT ![x].count = @ + 1, ![x].ccount = @ + 1]
                  /\ Return(p)
    /\ UNCHANGED <<itext, units, on, sp>>

Xwaited(p) ==
    /\ Gets(p, "xwait")
    /\ at' = [at EXCEPT ![p].pc = "xalloc", ![p].x = NoText] /\ cpu' = p
    /\ UNCHANGED <<text, free, itext, units, proc, on, sp>>

(* The entry becomes that of p's program. *)
Reused(p, x, t) ==
    /\ text' = [t EXCEPT ![x] = [@ EXCEPT !.iptr = proc[p].prog, !.count = 1, !.ccount = 0,
                                          !.lock = TRUE, !.writ = FALSE, !.load = TRUE]]
    /\ proc' = [proc EXCEPT ![p].text = x]
    /\ at' = [at EXCEPT ![p].pc = "xexpand", ![p].x = x, ![p].after = "readi"]
    /\ cpu' = p

(* The head of the free list.  Without one p is killed, and its place       *)
(* taken by a process without text.                                        *)
Allot(p) ==
    /\ Runs(p, "xalloc")
    /\ LET f == proc[p].prog IN
       /\ f # NoFile /\ itext[f] = NoText
       /\ \/ /\ free = <<>>
             /\ proc' = [proc EXCEPT ![p].prog = NoFile]
             /\ Return(p)
             /\ UNCHANGED <<text, free, itext>>
          \/ /\ free # <<>> /\ text[Head(free)].iptr # NoFile
             /\ free' = Tail(free)
             /\ at' = [at EXCEPT ![p].pc = "xuntext", ![p].x = Head(free)] /\ cpu' = p
             /\ UNCHANGED <<text, itext, proc>>
          \/ /\ free # <<>> /\ text[Head(free)].iptr = NoFile
             /\ free' = Tail(free)
             /\ itext' = [itext EXCEPT ![f] = Head(free)]
             /\ Reused(p, Head(free), text)
    /\ UNCHANGED <<units, on, sp>>

(* xuntext: unless somebody uses the entry, its inode and space are given  *)
(* up, but x_caddr stays.                                                  *)
Xuntext(p) ==
    /\ Gets(p, "xuntext")
    /\ LET x == at[p].x IN
       IF text[x].count = 0
       THEN /\ text' = [text EXCEPT ![x].iptr = NoFile, ![x].core = NoFile, ![x].swap = NoFile,
                                    ![x].lock = TRUE]
            /\ itext' = [itext EXCEPT ![text[x].iptr] = NoText]
            /\ units' = IF text[x].caddr THEN units + 1 ELSE units
            /\ Leave(p, "irele")
            /\ UNCHANGED proc
       ELSE /\ itext' = [itext EXCEPT ![proc[p].prog] = x]
            /\ Reused(p, x, text)
            /\ UNCHANGED units
    /\ UNCHANGED <<free, on, sp>>

(* irele and xuntext return. *)
Xuntexted(p) ==
    /\ Runs(p, "irele")
    /\ itext' = [itext EXCEPT ![proc[p].prog] = at[p].x]
    /\ Waken(at[p].x)
    /\ Reused(p, at[p].x, text)
    /\ UNCHANGED <<free, units, sp>>

(* xexpand: core for the text and, if it was on swap, the text.            *)
Xexpand(p) ==
    /\ Runs(p, "xexpand")
    /\ LET x == at[p].x IN
       \/ /\ units >= 1
          /\ units' = units - 1
          /\ IF text[x].load
             THEN /\ text' = [text EXCEPT ![x].caddr = TRUE, ![x].ccount = @ + 1, ![x].lock = FALSE]
                  /\ Goto(p, at[p].after) /\ Waken(x)
             ELSE /\ text' = [text EXCEPT ![x].caddr = TRUE]
                  /\ Leave(p, "xread") /\ UNCHANGED on
          /\ UNCHANGED <<free, itext, proc, sp>>
       \/ units = 0 /\ Short(p) /\ CallXuncore(p)
       \/ /\ units = 0 /\ ~Short(p)
          /\ text' = [text EXCEPT ![x].caddr = FALSE]
          /\ StartSwapout(p, p)
          /\ UNCHANGED <<free, itext, units, on, sp>>

Xread(p) ==
    /\ Runs(p, "xread")
    /\ LET x == at[p].x IN
       /\ text' = [text EXCEPT ![x].core = text[x].swap, ![x].ccount = @ + 1, ![x].lock = FALSE]
       /\ Waken(x)
    /\ Goto(p, at[p].after)
    /\ UNCHANGED <<free, itext, units, proc, sp>>

(* The text is read in, with the process locked but not the text. *)
Readi(p) ==
    /\ Runs(p, "readi")
    /\ proc' = [proc EXCEPT ![p].slock = TRUE]
    /\ Leave(p, "reading")
    /\ UNCHANGED <<text, free, itext, units, on, sp>>

(* Mutant of ReadIn: XWRIT is not set. *)
ReadIn_Clean(p) ==
    /\ Runs(p, "reading")
    /\ text' = [text EXCEPT ![at[p].x].core = proc[p].prog, ![at[p].x].load = FALSE]
    /\ proc' = [proc EXCEPT ![p].slock = FALSE]
    /\ Return(p)
    /\ UNCHANGED <<free, itext, units, on, sp>>

(* The text is in core, and not on swap. *)
ReadIn(p) ==
    /\ Runs(p, "reading")
    /\ text' = [text EXCEPT ![at[p].x].core = proc[p].prog, ![at[p].x].writ = TRUE, ![at[p].x].load = FALSE]
    /\ proc' = [proc EXCEPT ![p].slock = FALSE]
    /\ Return(p)
    /\ UNCHANGED <<free, itext, units, on, sp>>

(* xalloc's own XUNLOCK, after that of xexpand. *)
UnlockAgain(p) ==
    /\ Runs(p, "again")
    /\ text' = [text EXCEPT ![at[p].x].lock = FALSE]
    /\ Waken(at[p].x)
    /\ Return(p)
    /\ UNCHANGED <<free, itext, units, proc, sp>>

-----------------------------------------------------------------------------
(* swapout, of oneself or of sp *)

(* xccdec returns at once if the text is not in use. *)
Swapout(a) ==
    /\ Runs(a, "swapout")
    /\ \/ (Its(a) # NoText => text[Its(a)].ccount = 0) /\ Leave(a, "image")
       \/ Its(a) # NoText /\ text[Its(a)].ccount # 0 /\ Goto(a, "xccdec")
    /\ UNCHANGED <<text, free, itext, units, proc, on, sp>>

(* The last user in core writes the text out if swap does not have it. *)
Xccdec(a) ==
    /\ Gets(a, "xccdec")
    /\ LET x == Its(a) IN
       \/ /\ text[x].ccount # 1
          /\ text' = [text EXCEPT ![x].ccount = @ - 1]
          /\ Leave(a, "image")
          /\ UNCHANGED units
       \/ /\ text[x].ccount = 1 /\ text[x].writ
          /\ text' = [text EXCEPT ![x].ccount = 0, ![x].lock = TRUE]
          /\ Leave(a, "outwrite")
          /\ UNCHANGED units
       \/ /\ text[x].ccount = 1 /\ ~text[x].writ
          /\ text' = [text EXCEPT ![x].ccount = 0, ![x].caddr = FALSE, ![x].core = NoFile]
          /\ units' = units + 1
          /\ Leave(a, "image")
    /\ UNCHANGED <<free, itext, proc, on, sp>>

TextOut(a) ==
    /\ Runs(a, "outwrite")
    /\ LET x == Its(a) IN
       /\ text' = [text EXCEPT ![x].swap = text[x].core, ![x].writ = FALSE, ![x].caddr = FALSE,
                               ![x].core = NoFile, ![x].lock = FALSE]
       /\ Waken(x)
    /\ units' = units + 1
    /\ Leave(a, "image")
    /\ UNCHANGED <<free, itext, proc, sp>>

(* The image is written.  xexpand unlocks the text of the process that has *)
(* swapped itself out.                                                     *)
ImageOut(a) ==
    /\ Runs(a, "image")
    /\ units' = units + Img[Whose(a)]
    /\ proc' = [proc EXCEPT ![Whose(a)].loaded = FALSE, ![Whose(a)].slock = FALSE]
    /\ IF at[a].after \in {"again", "readi"}
       THEN text' = [text EXCEPT ![at[a].x].lock = FALSE] /\ Waken(at[a].x)
       ELSE UNCHANGED <<text, on>>
    /\ IF a = Sched THEN Goto(a, "sched") /\ sp' = Idle
       ELSE Leave(a, at[a].after) /\ UNCHANGED sp
    /\ UNCHANGED <<free, itext>>

-----------------------------------------------------------------------------
(* sched and swapin *)

(* Could run but is not in core. *)
Ready(q) == ~proc[q].loaded /\ on[q] = NoText

Nobody ==
    /\ Runs(Sched, "sched") /\ cpu = Sched
    /\ \A q \in Proc : ~Ready(q)
    /\ cpu' = Idle
    /\ UNCHANGED <<text, free, itext, units, proc, at, on, sp>>

Bring(q) ==
    /\ Runs(Sched, "sched")
    /\ Ready(q)
    /\ sp' = q
    /\ Goto(Sched, "inlock")
    /\ UNCHANGED <<text, free, itext, units, proc, on>>

SwapinLock ==
    /\ Gets(Sched, "inlock")
    /\ LET x == proc[sp].text IN
       IF x = NoText THEN Goto(Sched, "inimage") /\ UNCHANGED text
       ELSE /\ text' = [text EXCEPT ![x].lock = TRUE]
            /\ Goto(Sched, IF ~text[x].caddr /\ text[x].ccount = 0 THEN "intext" ELSE "inimage")
    /\ UNCHANGED <<free, itext, units, proc, on, sp>>

(* Mutant of SwapinFails: the core for the text is not given back. *)
SwapinFails_Lost ==
    /\ LET x == proc[sp].text IN
       IF x = NoText THEN UNCHANGED <<text, on>>
       ELSE text' = [text EXCEPT ![x].lock = FALSE] /\ Waken(x)
    /\ at' = [at EXCEPT ![Sched] = [Home(Sched) EXCEPT !.pc = "pick"]] /\ cpu' = Sched /\ sp' = Idle
    /\ UNCHANGED <<free, itext, units, proc>>

(* Mutant of SwapinFails: the text stays locked. *)
SwapinFails_Locked ==
    /\ units' = IF at[Sched].x = NoText THEN units ELSE units + 1
    /\ at' = [at EXCEPT ![Sched] = [Home(Sched) EXCEPT !.pc = "pick"]] /\ cpu' = Sched /\ sp' = Idle
    /\ UNCHANGED <<text, on, free, itext, proc>>

(* swapin fails, and gives the text's core back if it got it. *)
SwapinFails ==
    /\ LET x == proc[sp].text IN
       IF x = NoText THEN UNCHANGED <<text, on>>
       ELSE text' = [text EXCEPT ![x].lock = FALSE] /\ Waken(x)
    /\ units' = IF at[Sched].x = NoText THEN units ELSE units + 1
    /\ at' = [at EXCEPT ![Sched] = [Home(Sched) EXCEPT !.pc = "pick"]] /\ cpu' = Sched /\ sp' = Idle
    /\ UNCHANGED <<free, itext, proc>>

(* Its local x is the text that got core. *)
SwapinText ==
    /\ Runs(Sched, "intext")
    /\ \/ /\ units >= 1
          /\ units' = units - 1
          /\ at' = [at EXCEPT ![Sched].pc = "inimage", ![Sched].tried = FALSE,
                              ![Sched].x = proc[sp].text] /\ cpu' = Sched
          /\ UNCHANGED <<text, free, itext, proc, on, sp>>
       \/ units = 0 /\ Short(Sched) /\ CallXuncore(Sched)
       \/ units = 0 /\ ~Short(Sched) /\ SwapinFails

SwapinImage ==
    /\ Runs(Sched, "inimage")
    /\ \/ /\ units >= Img[sp]
          /\ units' = units - Img[sp]
          /\ LET x == proc[sp].text
                 got == at[Sched].x # NoText IN
             \/ /\ x = NoText
                /\ Leave(Sched, "inload")
                /\ UNCHANGED <<text, on>>
             \/ /\ x # NoText /\ got /\ ~text[x].load
                /\ text' = [text EXCEPT ![x].caddr = TRUE]
                /\ Leave(Sched, "inread")
                /\ UNCHANGED on
             \/ /\ x # NoText /\ (got => text[x].load)
                /\ text' = [text EXCEPT ![x].caddr = @ \/ got, ![x].ccount = @ + 1, ![x].lock = FALSE]
                /\ Waken(x)
                /\ Leave(Sched, "inload")
          /\ UNCHANGED <<free, itext, proc, sp>>
       \/ units < Img[sp] /\ Short(Sched) /\ CallXuncore(Sched)
       \/ units < Img[sp] /\ ~Short(Sched) /\ SwapinFails

SwapinRead ==
    /\ Runs(Sched, "inread")
    /\ LET x == proc[sp].text IN
       /\ text' = [text EXCEPT ![x].core = text[x].swap, ![x].ccount = @ + 1, ![x].lock = FALSE]
       /\ Waken(x)
    /\ Leave(Sched, "inload")
    /\ UNCHANGED <<free, itext, units, proc, sp>>

(* The image is read. *)
SwapinDone ==
    /\ Runs(Sched, "inload")
    /\ proc' = [proc EXCEPT ![sp].loaded = TRUE]
    /\ at' = [at EXCEPT ![Sched] = Home(Sched)] /\ cpu' = Sched /\ sp' = Idle
    /\ UNCHANGED <<text, free, itext, units, on>>

(* Mutant of MayGo: does not look at the text. *)
MayGo_Locked(v) == proc[v].loaded /\ ~proc[v].slock

(* Whom sched may throw out. *)
MayGo(v) ==
    /\ proc[v].loaded /\ ~proc[v].slock
    /\ proc[v].text # NoText => ~text[proc[v].text].lock

ThrowOut(v) ==
    /\ Runs(Sched, "pick")
    /\ MayGo(v)
    /\ sp' = v
    /\ StartSwapout(Sched, v)
    /\ UNCHANGED <<text, free, itext, units, on>>

(* Nobody is old enough: sleep on runin. *)
WaitCore ==
    /\ Runs(Sched, "pick")
    /\ Leave(Sched, "sched")
    /\ UNCHANGED <<text, free, itext, units, proc, on, sp>>

-----------------------------------------------------------------------------
Swapper == \/ SwapinLock \/ SwapinText \/ SwapinImage \/ SwapinRead \/ SwapinDone \/ Nobody \/ WaitCore
           \/ \E p \in Proc : Bring(p) \/ ThrowOut(p)

Step(p) == \/ \E f \in Execs[p] : Exec(p, f)
           \/ Grow(p) \/ Expand(p) \/ Xfree(p) \/ Attach(p) \/ Xwaited(p) \/ Allot(p) \/ Xuntext(p)
           \/ Xuntexted(p) \/ Xexpand(p) \/ Xread(p) \/ Readi(p) \/ ReadIn(p)
           \/ UnlockAgain(p)

Next == \/ \E p \in Proc : Step(p)
        \/ \E a \in Actor : WaitLock(a) \/ Xuncore(a) \/ Xcore(a) \/ Unwritten(a)
                             \/ Swapout(a) \/ Xccdec(a) \/ TextOut(a) \/ ImageOut(a)
        \/ Swapper

Spec == Init /\ [][Next]_vars

-----------------------------------------------------------------------------
(* Properties *)

(* The variables keep their types, and the free list that FREE_AT_TAIL and *)
(* ALLOC keep has no entry twice.                                          *)
TypeOK ==
    /\ text \in [Text -> Entry]
    /\ free \in Seq(Text) /\ IsInjective(free)
    /\ itext \in [File -> Text \cup {NoText}]
    /\ units \in 0..Core
    /\ proc \in [Proc -> Process]
    /\ at \in [Actor -> Locals] /\ on \in [Actor -> Text \cup {NoText}]
    /\ sp \in Proc \cup {Idle} /\ cpu \in Actor \cup {Idle}

(* Where a is, or will be when malloc has come back from xuncore. *)
Place(a) == IF at[a].pc \in {"xuncore", "xcore", "unwrite"} THEN at[a].ret ELSE at[a].pc

(* The texts that a has locked. *)
Holds(a) ==
    (IF at[a].pc = "unwrite" THEN {at[a].xp} ELSE {})
    \cup (IF at[a].pc = "outwrite" THEN {Its(a)} ELSE {})
    \cup (IF \/ Place(a) \in {"irele", "xexpand", "xread"}
             \/ at[a].pc \in {"swapout", "xccdec", "outwrite", "image"} /\ at[a].after \in {"again", "readi"}
          THEN {at[a].x} ELSE {})
    \cup (IF Place(a) \in {"intext", "inimage", "inread"} THEN {Its(a)} \ {NoText} ELSE {})

(* XLOCK is a lock: a text is locked while one process, or sched, is       *)
(* between X_LOCK and XUNLOCK and never otherwise, though the lock is      *)
(* handed from xalloc to xexpand, from xexpand to swapout, and taken by    *)
(* swapin on another's behalf, and though each of them sleeps with it.     *)
Locked ==
    /\ \A x \in Text : text[x].lock = (\E a \in Actor : x \in Holds(a))
    /\ \A a, b \in Actor : a # b => Holds(a) \cap Holds(b) = {}

(* Whom x_ccount counts: who is in core, but for who is on the way in or   *)
(* out.                                                                    *)
Counts(p) ==
    /\ ~(Place(p) \in {"xexpand", "xread"} \/ at[p].pc \in {"outwrite", "image"})
    /\ ~(at[p].pc = "swapout" /\ at[p].after \in {"again", "readi"})
    /\ \/ proc[p].loaded
       \/ sp = p /\ at[Sched].pc \in {"inload", "swapout", "xccdec"}

(* x_count is the number of processes that have the text, and x_ccount     *)
(* that of those in core, whoever brought them in or threw them out and    *)
(* whatever happened while they slept: xfree, xalloc, xexpand, xccdec and  *)
(* swapin count each process once.                                         *)
Accounts ==
    \A x \in Text :
       /\ text[x].count = Cardinality({p \in Proc : proc[p].text = x})
       /\ text[x].ccount = Cardinality({p \in Proc : proc[p].text = x /\ Counts(p)})

(* Where somebody swaps an image out. *)
Out == {"swapout", "xccdec", "outwrite", "image"}

(* p has the entry x locked, without core even if x_caddr is set. *)
Bare(p) == at[p].pc = "irele" \/ Place(p) = "xexpand"

(* sched has core for x, which is not set in x_caddr yet. *)
Given(x) == Place(Sched) = "inimage" /\ at[Sched].x = x

TextIn(x) == (text[x].caddr /\ ~\E p \in Proc : Bare(p) /\ at[p].x = x) \/ Given(x)
ImageIn(p) == proc[p].loaded \/ (sp = p /\ at[Sched].pc \in {"inread", "inload"} \cup Out)

TextsIn == {x \in Text : TextIn(x)}
ImagesIn == {p \in Proc : ImageIn(p)}
UnitsOf(S) == {u \in Proc \X (1..Core) : u[1] \in S /\ u[2] <= Img[u[1]]}

(* No unit of core is lost or given out twice: each is free, or has a      *)
(* text, or is in the image of a process, though xuncore, xuntext,         *)
(* xccdec, swapout and the two ways out of swapin each give core back, and *)
(* others take it while they sleep in the middle.                          *)
Conserved ==
    /\ units \in Nat
    /\ units + Cardinality(TextsIn) + Cardinality(UnitsOf(ImagesIn)) = Core

(* A process that runs has its program's text in core, and whole: nobody   *)
(* reused its entry, freed or overwrote its core, or brought back from     *)
(* swap what was never written there (xccdec, xuncore, XWRIT and XLOAD).   *)
RunsItsText ==
    \A p \in Proc : proc[p].loaded /\ at[p].pc = "user" /\ proc[p].text # NoText =>
        LET e == text[proc[p].text] IN
        e.iptr = proc[p].prog /\ e.core = proc[p].prog /\ e.caddr /\ e.ccount > 0

(* Whom a waits for: the holder of a lock, or sched to be brought in. *)
Waits(a, b) ==
    \/ on[a] # NoText /\ on[a] \in Holds(b)
    \/ a \in Proc /\ b = Sched /\ ~proc[a].loaded

(* No circle of processes, sched among them, in which each waits for a     *)
(* lock of the next or to be brought in by it: xuncore asks for one lock   *)
(* after another with a text locked, and swapin with the one of a process  *)
(* that cannot run.                                                        *)
NoCycle ==
    \A S \in SUBSET {a \in Actor : on[a] # NoText \/ (a \in Proc /\ ~proc[a].loaded)} :
        S # {} => \E a \in S : ~\E b \in S : Waits(a, b)

(* What the code does not guard against: xalloc reuses an entry that was   *)
(* attached to while xuntext waited for its lock; it unlocks once more a   *)
(* text that somebody else has locked by now; sched throws out a process   *)
(* that has the lock of a text that is not its own.                        *)
ReusedInUse == \E p \in Proc : at[p].pc = "xuntext" /\ text[at[p].x].count # 0
UnlocksOther == \E p \in Proc : Runs(p, "again") /\ text[at[p].x].lock
HolderOut == \E p \in Proc : ~proc[p].loaded /\ ~(Holds(p) \subseteq {proc[p].text})
NoKnownRace == ~ReusedInUse /\ ~UnlocksOther /\ ~HolderOut

=============================================================================

---------------------------- MODULE TextsProofs ----------------------------
(***************************************************************************)
(* Proofs about Texts for any processes, entries, programs and sizes:      *)
(* where everybody can be and what he has there (Shape), with no           *)
(* assumption; and, in every behaviour up to the first of the races that   *)
(* the code does not guard against (NoKnownRace), that XLOCK is a lock     *)
(* (Locked), that x_count and x_ccount count (Accounts), that a process    *)
(* runs its own text, whole (RunsItsText), that no unit of core is lost or *)
(* given out twice (Conserved, TypeOK), and that nobody waits in a circle  *)
(* (NoCycle).  Only the last needs all three of those races excluded; the  *)
(* others need the two of NoRace.                                          *)
(*                                                                         *)
(* The argument has layers.  IInv ties the lock to the places where it is  *)
(* held (Holds) and says what its holder counts on (Mine), and what is on  *)
(* the free list (Listed); a step that changes an entry has it locked or   *)
(* finds it unlocked (Spares), so the others lose nothing (MineStep).      *)
(* Names ties x_iptr, i_text and the program of each user, and XLOAD to    *)
(* the one process that reads the text in.  Contents says what core and    *)
(* swap have by the flags of the entry alone (ContentOf), but for the      *)
(* entry that a reader has locked (Unread).  Conserved is inductive beside *)
(* these: each step moves the core of at most one text (TextMoves) or one  *)
(* image, in or out.                                                       *)
(* And whoever comes to X_LOCK in xuncore asks for an entry of the free    *)
(* list, which nobody keeps locked there: the last to come waits for       *)
(* nobody who waits (Orderly).                                             *)
(*                                                                         *)
(* Each handler is first brought into the form of what it does, with the   *)
(* entry and the locals written out (EntryIs, Goes); the invariants use    *)
(* that form only.                                                         *)
(***************************************************************************)
EXTENDS Texts, SeqFacts

RawEntry == [iptr : File \cup {NoFile}, count : Int, ccount : Int, lock : BOOLEAN, writ : BOOLEAN,
             load : BOOLEAN, caddr : BOOLEAN, core : File \cup {NoFile}, swap : File \cup {NoFile}]

(* The types, without what depends on the accounts. *)
Typed ==
    /\ text \in [Text -> RawEntry]
    /\ free \in Seq(Text)
    /\ itext \in [File -> Text \cup {NoText}]
    /\ units \in Int
    /\ proc \in [Proc -> Process]
    /\ at \in [Actor -> Locals] /\ on \in [Actor -> Text \cup {NoText}]
    /\ sp \in Proc \cup {Idle} /\ cpu \in Actor \cup {Idle}

Inner == {"xuncore", "xcore", "unwrite"}

(* p brings in the text that it has locked, and is not counted yet. *)
Fetches(p) == Place(p) \in {"xexpand", "xread"} \/ (at[p].pc \in Out /\ at[p].after \in {"again", "readi"})

(* Where a process can be in a call, with which locals. *)
ControlOf(p) ==
    /\ Place(p) \in {"user", "xfree", "expand", "xalloc", "xwait", "xuntext", "irele", "xexpand",
                     "xread", "readi", "reading", "again"} \cup Out
    /\ at[p].pc \in Inner => at[p].ret \in {"expand", "xexpand"}
    /\ at[p].pc \in {"xcore", "unwrite"} => at[p].xp \in Text
    /\ Place(p) = "user" => at[p].after = "user"
    /\ Place(p) \in {"xfree", "xalloc", "xwait", "xuntext", "irele"} => at[p].after = "xalloc"
    /\ Place(p) = "expand" => at[p].after \in {"user", "xalloc"}
    /\ Place(p) \in {"xexpand", "xread"} => at[p].after \in {"again", "readi"}
    /\ Place(p) \in {"readi", "reading"} => at[p].after = "readi"
    /\ Place(p) = "again" => at[p].after = "again"
    /\ at[p].pc \in Out => at[p].after # "sched"
    /\ at[p].after = "xalloc" /\ Place(p) # "xfree" => proc[p].text = NoText
    /\ at[p].after \in {"again", "readi"} =>
          at[p].x \in Text /\ proc[p].text = at[p].x /\ proc[p].prog # NoFile
    /\ Place(p) \in {"xwait", "xuntext", "irele"} => at[p].x \in Text /\ proc[p].prog # NoFile
    /\ at[p].pc \in Out \cup {"reading"} => proc[p].loaded /\ proc[p].slock
    /\ proc[p].slock => at[p].pc \in Out \cup {"reading"} \/ (sp = p /\ at[Sched].pc \in Out)
    /\ proc[p].text = NoText \/ proc[p].prog # NoFile \/ Place(p) = "xfree"
    /\ at[p].pc \in {"xccdec", "outwrite"} => proc[p].text # NoText

(* Where sched can be; whom it swaps is not in core. *)
SchedControl ==
    /\ Place(Sched) \in {"sched", "inlock", "intext", "inimage", "inread", "inload", "pick"} \cup Out
    /\ at[Sched].pc \in Inner => at[Sched].ret \in {"intext", "inimage"}
    /\ at[Sched].pc \in {"xcore", "unwrite"} => at[Sched].xp \in Text
    /\ at[Sched].after = "sched"
    /\ Place(Sched) \in {"sched", "pick"} <=> sp = Idle
    /\ sp # Idle => ~proc[sp].loaded
    /\ Place(Sched) = "intext" => Its(Sched) # NoText
    /\ at[Sched].x # NoText => /\ at[Sched].x = Its(Sched)
                               /\ Place(Sched) \in {"inimage", "inread", "inload"}
    /\ Place(Sched) = "inread" => at[Sched].x # NoText
    /\ at[Sched].pc \in {"xccdec", "outwrite"} => Its(Sched) # NoText

(* Who sleeps sleeps for the lock that he is about to take. *)
SleepsFor(a) == on[a] # NoText => on[a] = Wants(a)

Shape == /\ Typed
         /\ \A p \in Proc : ControlOf(p)
         /\ SchedControl
         /\ \A a \in Actor : SleepsFor(a)

LEMMA Actors == /\ Sched \in Actor /\ Idle \notin Actor /\ Proc \subseteq Actor
                /\ Sched \notin Proc /\ Idle \notin Proc /\ Idle # Sched
                /\ NoText \notin Text /\ NoFile \notin File
BY ActorAssumption, NoneAssumption DEF Actor

(* What a step of p leaves alone. *)
Steps(p) ==
    /\ proc[p].loaded /\ on[p] = NoText /\ on'[p] \in {NoText, Wants(p)}
    /\ \A b \in Actor \ {p} : at'[b] = at[b] /\ on'[b] \in {on[b], NoText}
    /\ \A q \in Proc \ {p} : proc'[q] = proc[q]
    /\ sp' = sp

LEMMA ProcFrame ==
    ASSUME Shape, NEW p \in Proc, Steps(p), Typed', ControlOf(p)', on'[p] = NoText
    PROVE  Shape'
<1>1. \A q \in Proc : ControlOf(q)'
  <2> SUFFICES ASSUME NEW q \in Proc, q # p PROVE ControlOf(q)'
    OBVIOUS
  <2>1. at'[q] = at[q] /\ proc'[q] = proc[q] /\ at'[Sched] = at[Sched] /\ sp' = sp
    BY Actors DEF Steps
  <2>2. ControlOf(q)
    BY DEF Shape
  <2> QED
    BY <2>1, <2>2 DEF ControlOf, Place
<1>2. at'[Sched] = at[Sched] /\ sp' = sp /\ (sp # Idle => proc'[sp] = proc[sp])
  BY Actors DEF Steps, Shape, SchedControl, Typed
<1>3. SchedControl'
  BY <1>2, Actors DEF Shape, SchedControl, Place, Its, Whose
<1>4. \A a \in Actor : SleepsFor(a)'
  <2> SUFFICES ASSUME NEW a \in Actor, on'[a] # NoText PROVE on'[a] = Wants(a)'
    BY DEF SleepsFor
  <2>1. a # p /\ at'[a] = at[a] /\ on'[a] = on[a] /\ on[a] = Wants(a)
    BY DEF Steps, Shape, SleepsFor
  <2>2. CASE a \in Proc
    BY <2>1, <2>2, Actors DEF Wants, Its, Whose, Steps
  <2>3. CASE a = Sched
    <3>1. sp # Idle => Its(Sched)' = Its(Sched)
      BY <1>2, Actors DEF Its, Whose
    <3>2. sp = Idle => at[Sched].pc \in {"sched", "pick"} \cup Inner
      BY DEF Shape, SchedControl, Place, Inner
    <3> QED
      BY <2>1, <2>3, <3>1, <3>2 DEF Wants, Inner
  <2> QED
    BY <2>2, <2>3 DEF Actor
<1> QED
  BY <1>1, <1>3, <1>4 DEF Shape

(* a is at l with these locals; all others are where they were. *)
Goes(a, l, x, xp, ret, after) ==
    /\ at' \in [Actor -> Locals]
    /\ at'[a].pc = l /\ at'[a].x = x /\ at'[a].xp = xp /\ at'[a].ret = ret /\ at'[a].after = after
    /\ \A b \in Actor \ {a} : at'[b] = at[b]

Moves(a, l) == Goes(a, l, at[a].x, at[a].xp, at[a].ret, at[a].after)

LEMMA AtGoes ==
    ASSUME Typed, NEW a \in Actor, NEW r \in Locals, at' = [at EXCEPT ![a] = r]
    PROVE  Goes(a, r.pc, r.x, r.xp, r.ret, r.after)
<1>1. at \in [Actor -> Locals]
  BY DEF Typed
<1> QED
  BY <1>1 DEF Goes

LEMMA GotoMoves ==
    ASSUME Typed, NEW a \in Actor, NEW l \in Location, Goto(a, l) \/ Leave(a, l)
    PROVE  Moves(a, l)
<1>1. at \in [Actor -> Locals] /\ at[a] \in Locals
  BY DEF Typed
<1> DEFINE r == [at[a] EXCEPT !.pc = l, !.tried = FALSE]
<1>2. at' = [at EXCEPT ![a] = r]
  BY <1>1 DEF Goto, Leave
<1>3. r \in Locals /\ r.pc = l /\ r.x = at[a].x /\ r.xp = at[a].xp /\ r.ret = at[a].ret
      /\ r.after = at[a].after
  BY <1>1 DEF Locals
<1> HIDE DEF r
<1> QED
  BY <1>2, <1>3, AtGoes DEF Moves

LEMMA ReturnGoes ==
    ASSUME Typed, NEW p \in Proc, Return(p)
    PROVE  Goes(p, "user", NoText, NoText, "user", "user")
<1>1. Home(p) \in Locals /\ p \in Actor /\ at' = [at EXCEPT ![p] = Home(p)]
  BY Actors DEF Return, Home, Top, Locals, Location
<1>2. /\ Home(p).pc = "user" /\ Home(p).x = NoText /\ Home(p).xp = NoText
      /\ Home(p).ret = "user" /\ Home(p).after = "user"
  BY Actors DEF Home, Top
<1> HIDE DEF Home
<1> QED
  BY <1>1, <1>2, AtGoes

(* The other ways to change where a is. *)
LEMMA PlaceGoes ==
    ASSUME Typed, NEW a \in Actor, NEW l \in Location, NEW x \in Text \cup {NoText},
           NEW ret \in Location, NEW after \in {"user", "xalloc", "again", "readi", "sched"}
    PROVE  /\ at' = [at EXCEPT ![a].pc = l] => Moves(a, l)
           /\ at' = [at EXCEPT ![a].pc = l, ![a].after = after]
                 => Goes(a, l, at[a].x, at[a].xp, at[a].ret, after)
           /\ at' = [at EXCEPT ![a].pc = l, ![a].x = x]
                 => Goes(a, l, x, at[a].xp, at[a].ret, at[a].after)
           /\ at' = [at EXCEPT ![a].pc = l, ![a].tried = FALSE, ![a].x = x]
                 => Goes(a, l, x, at[a].xp, at[a].ret, at[a].after)
           /\ at' = [at EXCEPT ![a].pc = l, ![a].x = x, ![a].after = after]
                 => Goes(a, l, x, at[a].xp, at[a].ret, after)
           /\ at' = [at EXCEPT ![a].pc = l, ![a].ret = ret, ![a].tried = TRUE, ![a].xp = x]
                 => Goes(a, l, at[a].x, x, ret, at[a].after)
           /\ at' = [at EXCEPT ![a].pc = l, ![a].xp = x]
                 => Goes(a, l, at[a].x, x, at[a].ret, at[a].after)
           /\ at' = [at EXCEPT ![a].pc = l, ![a].xp = x, ![a].ret = ret]
                 => Goes(a, l, at[a].x, x, ret, at[a].after)
<1>1. at \in [Actor -> Locals] /\ at[a] \in Locals
  BY DEF Typed
<1>2. ASSUME at' = [at EXCEPT ![a].pc = l] PROVE Moves(a, l)
  <2> DEFINE r == [at[a] EXCEPT !.pc = l]
  <2>1. at' = [at EXCEPT ![a] = r]
    BY <1>1, <1>2
  <2>2. r \in Locals /\ r.pc = l /\ r.x = at[a].x /\ r.xp = at[a].xp /\ r.ret = at[a].ret
        /\ r.after = at[a].after
    BY <1>1 DEF Locals
  <2> HIDE DEF r
  <2> QED
    BY <2>1, <2>2, AtGoes DEF Moves
<1>3. ASSUME at' = [at EXCEPT ![a].pc = l, ![a].after = after] PROVE Goes(a, l, at[a].x, at[a].xp, at[a].ret, after)
  <2> DEFINE r == [at[a] EXCEPT !.pc = l, !.after = after]
  <2>1. at' = [at EXCEPT ![a] = r]
    BY <1>1, <1>3
  <2>2. r \in Locals /\ r.pc = l /\ r.x = at[a].x /\ r.xp = at[a].xp /\ r.ret = at[a].ret /\ r.after = after
    BY <1>1 DEF Locals
  <2> HIDE DEF r
  <2> QED
    BY <2>1, <2>2, AtGoes
<1>4. ASSUME at' = [at EXCEPT ![a].pc = l, ![a].x = x] PROVE Goes(a, l, x, at[a].xp, at[a].ret, at[a].after)
  <2> DEFINE r == [at[a] EXCEPT !.pc = l, !.x = x]
  <2>1. at' = [at EXCEPT ![a] = r]
    BY <1>1, <1>4
  <2>2. r \in Locals /\ r.pc = l /\ r.x = x /\ r.xp = at[a].xp /\ r.ret = at[a].ret /\ r.after = at[a].after
    BY <1>1 DEF Locals
  <2> HIDE DEF r
  <2> QED
    BY <2>1, <2>2, AtGoes
<1>5. ASSUME at' = [at EXCEPT ![a].pc = l, ![a].tried = FALSE, ![a].x = x] PROVE Goes(a, l, x, at[a].xp, at[a].ret, at[a].after)
  <2> DEFINE r == [at[a] EXCEPT !.pc = l, !.tried = FALSE, !.x = x]
  <2>1. at' = [at EXCEPT ![a] = r]
    BY <1>1, <1>5
  <2>2. r \in Locals /\ r.pc = l /\ r.x = x /\ r.xp = at[a].xp /\ r.ret = at[a].ret /\ r.after = at[a].after
    BY <1>1 DEF Locals
  <2> HIDE DEF r
  <2> QED
    BY <2>1, <2>2, AtGoes
<1>6. ASSUME at' = [at EXCEPT ![a].pc = l, ![a].x = x, ![a].after = after] PROVE Goes(a, l, x, at[a].xp, at[a].ret, after)
  <2> DEFINE r == [at[a] EXCEPT !.pc = l, !.x = x, !.after = after]
  <2>1. at' = [at EXCEPT ![a] = r]
    BY <1>1, <1>6
  <2>2. r \in Locals /\ r.pc = l /\ r.x = x /\ r.xp = at[a].xp /\ r.ret = at[a].ret /\ r.after = after
    BY <1>1 DEF Locals
  <2> HIDE DEF r
  <2> QED
    BY <2>1, <2>2, AtGoes
<1>7. ASSUME at' = [at EXCEPT ![a].pc = l, ![a].ret = ret, ![a].tried = TRUE, ![a].xp = x] PROVE Goes(a, l, at[a].x, x, ret, at[a].after)
  <2> DEFINE r == [at[a] EXCEPT !.pc = l, !.ret = ret, !.tried = TRUE, !.xp = x]
  <2>1. at' = [at EXCEPT ![a] = r]
    BY <1>1, <1>7
  <2>2. r \in Locals /\ r.pc = l /\ r.x = at[a].x /\ r.xp = x /\ r.ret = ret /\ r.after = at[a].after
    BY <1>1 DEF Locals
  <2> HIDE DEF r
  <2> QED
    BY <2>1, <2>2, AtGoes
<1>8. ASSUME at' = [at EXCEPT ![a].pc = l, ![a].xp = x] PROVE Goes(a, l, at[a].x, x, at[a].ret, at[a].after)
  <2> DEFINE r == [at[a] EXCEPT !.pc = l, !.xp = x]
  <2>1. at' = [at EXCEPT ![a] = r]
    BY <1>1, <1>8
  <2>2. r \in Locals /\ r.pc = l /\ r.x = at[a].x /\ r.xp = x /\ r.ret = at[a].ret /\ r.after = at[a].after
    BY <1>1 DEF Locals
  <2> HIDE DEF r
  <2> QED
    BY <2>1, <2>2, AtGoes
<1>9. ASSUME at' = [at EXCEPT ![a].pc = l, ![a].xp = x, ![a].ret = ret] PROVE Goes(a, l, at[a].x, x, ret, at[a].after)
  <2> DEFINE r == [at[a] EXCEPT !.pc = l, !.xp = x, !.ret = ret]
  <2>1. at' = [at EXCEPT ![a] = r]
    BY <1>1, <1>9
  <2>2. r \in Locals /\ r.pc = l /\ r.x = at[a].x /\ r.xp = x /\ r.ret = ret /\ r.after = at[a].after
    BY <1>1 DEF Locals
  <2> HIDE DEF r
  <2> QED
    BY <2>1, <2>2, AtGoes
<1> QED
  BY <1>2, <1>3, <1>4, <1>5, <1>6, <1>7, <1>8, <1>9

-----------------------------------------------------------------------------
(* What a step does to one text or one process. *)

SetIptr(e, f) == [e EXCEPT !.iptr = f]
SetCount(e, n) == [e EXCEPT !.count = n]
SetCcount(e, n) == [e EXCEPT !.ccount = n]
SetLock(e, b) == [e EXCEPT !.lock = b]
SetWrit(e, b) == [e EXCEPT !.writ = b]
SetLoad(e, b) == [e EXCEPT !.load = b]
SetCaddr(e, b) == [e EXCEPT !.caddr = b]
SetCore(e, f) == [e EXCEPT !.core = f]
SetSwap(e, f) == [e EXCEPT !.swap = f]

(* An entry in which one field is set is an entry. *)
LEMMA SetTypes ==
    ASSUME NEW e \in RawEntry
    PROVE  /\ \A f \in File \cup {NoFile} : /\ SetIptr(e, f) \in RawEntry
                                           /\ SetCore(e, f) \in RawEntry /\ SetSwap(e, f) \in RawEntry
           /\ \A n \in Int : SetCount(e, n) \in RawEntry /\ SetCcount(e, n) \in RawEntry
           /\ \A b \in BOOLEAN : /\ SetLock(e, b) \in RawEntry /\ SetWrit(e, b) \in RawEntry
                                 /\ SetLoad(e, b) \in RawEntry /\ SetCaddr(e, b) \in RawEntry
BY DEF RawEntry, SetIptr, SetCount, SetCcount, SetLock, SetWrit, SetLoad, SetCaddr, SetCore, SetSwap

(* Entry x is this now; all others are what they were. *)
EntryIs(x, iptr, count, ccount, lock, writ, load, caddr, core, swap) ==
    /\ text' \in [Text -> RawEntry]
    /\ text'[x].iptr = iptr /\ text'[x].count = count /\ text'[x].ccount = ccount
    /\ text'[x].lock = lock /\ text'[x].writ = writ /\ text'[x].load = load
    /\ text'[x].caddr = caddr /\ text'[x].core = core /\ text'[x].swap = swap
    /\ \A y \in Text \ {x} : text'[y] = text[y]

LEMMA EntrySet ==
    ASSUME Typed, NEW x \in Text, NEW r \in RawEntry, text' = [text EXCEPT ![x] = r]
    PROVE  EntryIs(x, r.iptr, r.count, r.ccount, r.lock, r.writ, r.load, r.caddr, r.core, r.swap)
<1>1. text \in [Text -> RawEntry]
  BY DEF Typed
<1> QED
  BY <1>1 DEF EntryIs

(* The values that a step puts into an entry. *)
LEMMA EntryTypes ==
    ASSUME Typed, NEW x \in Text
    PROVE  /\ text \in [Text -> RawEntry] /\ text[x] \in RawEntry
           /\ text[x].count - 1 \in Int /\ text[x].count + 1 \in Int /\ text[x].ccount - 1 \in Int
           /\ text[x].ccount + 1 \in Int /\ 0 \in Int /\ 1 \in Int /\ NoFile \in File \cup {NoFile}
           /\ text[x].core \in File \cup {NoFile} /\ text[x].swap \in File \cup {NoFile}
           /\ \A b \in BOOLEAN : (text[x].caddr \/ b) \in BOOLEAN
           /\ TRUE \in BOOLEAN /\ FALSE \in BOOLEAN
BY DEF Typed, RawEntry

(* The ways in which a step changes one entry. *)
LEMMA EntryReused ==
    ASSUME Typed, NEW x \in Text, NEW f \in File \cup {NoFile},
           text' = [text EXCEPT ![x] = [@ EXCEPT !.iptr = f, !.count = 1, !.ccount = 0, !.lock =
           TRUE, !.writ = FALSE, !.load = TRUE]]
    PROVE  EntryIs(x, f, 1, 0, TRUE, FALSE, TRUE, text[x].caddr, text[x].core, text[x].swap)
<1> DEFINE r == [text[x] EXCEPT !.iptr = f, !.count = 1, !.ccount = 0, !.lock = TRUE, !.writ =
                FALSE, !.load = TRUE]
<1>1. text' = [text EXCEPT ![x] = r]
  BY EntryTypes
<1>2. r \in RawEntry
  <2> DEFINE r1 == SetCount(SetIptr(text[x], f), 1)
  <2>1. r1 \in RawEntry
    BY EntryTypes, SetTypes
  <2> HIDE DEF r1
  <2> DEFINE r2 == SetLock(SetCcount(r1, 0), TRUE)
  <2>2. r2 \in RawEntry
    BY EntryTypes, <2>1, SetTypes
  <2> HIDE DEF r2
  <2> DEFINE r3 == SetLoad(SetWrit(r2, FALSE), TRUE)
  <2>3. r3 \in RawEntry
    BY EntryTypes, <2>2, SetTypes
  <2> QED
    BY <2>3 DEF r1, r2, r3, SetIptr, SetCount, SetCcount, SetLock, SetWrit, SetLoad
<1>3. r.iptr = f /\ r.count = 1 /\ r.ccount = 0 /\ r.lock = TRUE /\ r.writ = FALSE /\ r.load =
      TRUE /\ r.caddr = text[x].caddr /\ r.core = text[x].core /\ r.swap = text[x].swap
  BY EntryTypes DEF RawEntry
<1> HIDE DEF r
<1> QED
  BY ZenonT(60), <1>1, <1>2, <1>3, EntrySet

LEMMA EntryLocked ==
    ASSUME Typed, NEW x \in Text,
           text' = [text EXCEPT ![x].lock = TRUE]
    PROVE  EntryIs(x, text[x].iptr, text[x].count, text[x].ccount, TRUE, text[x].writ,
                      text[x].load, text[x].caddr, text[x].core, text[x].swap)
<1> DEFINE r == [text[x] EXCEPT !.lock = TRUE]
<1>1. text' = [text EXCEPT ![x] = r]
  BY EntryTypes
<1>2. r \in RawEntry
  <2>1. SetLock(text[x], TRUE) \in RawEntry
    BY EntryTypes, SetTypes
  <2> QED
    BY <2>1 DEF SetLock
<1>3. r.iptr = text[x].iptr /\ r.count = text[x].count /\ r.ccount = text[x].ccount /\ r.lock =
      TRUE /\ r.writ = text[x].writ /\ r.load = text[x].load /\ r.caddr = text[x].caddr /\ r.core
      = text[x].core /\ r.swap = text[x].swap
  BY EntryTypes DEF RawEntry
<1> HIDE DEF r
<1> QED
  BY <1>1, <1>2, <1>3, EntrySet

LEMMA EntryUnlocked ==
    ASSUME Typed, NEW x \in Text,
           text' = [text EXCEPT ![x].lock = FALSE]
    PROVE  EntryIs(x, text[x].iptr, text[x].count, text[x].ccount, FALSE, text[x].writ,
                      text[x].load, text[x].caddr, text[x].core, text[x].swap)
<1> DEFINE r == [text[x] EXCEPT !.lock = FALSE]
<1>1. text' = [text EXCEPT ![x] = r]
  BY EntryTypes
<1>2. r \in RawEntry
  <2>1. SetLock(text[x], FALSE) \in RawEntry
    BY EntryTypes, SetTypes
  <2> QED
    BY <2>1 DEF SetLock
<1>3. r.iptr = text[x].iptr /\ r.count = text[x].count /\ r.ccount = text[x].ccount /\ r.lock =
      FALSE /\ r.writ = text[x].writ /\ r.load = text[x].load /\ r.caddr = text[x].caddr /\ r.core
      = text[x].core /\ r.swap = text[x].swap
  BY EntryTypes DEF RawEntry
<1> HIDE DEF r
<1> QED
  BY ZenonT(60), <1>1, <1>2, <1>3, EntrySet

LEMMA EntryGetsCore ==
    ASSUME Typed, NEW x \in Text,
           text' = [text EXCEPT ![x].caddr = TRUE]
    PROVE  EntryIs(x, text[x].iptr, text[x].count, text[x].ccount, text[x].lock, text[x].writ,
                      text[x].load, TRUE, text[x].core, text[x].swap)
<1> DEFINE r == [text[x] EXCEPT !.caddr = TRUE]
<1>1. text' = [text EXCEPT ![x] = r]
  BY EntryTypes
<1>2. r \in RawEntry
  <2>1. SetCaddr(text[x], TRUE) \in RawEntry
    BY EntryTypes, SetTypes
  <2> QED
    BY <2>1 DEF SetCaddr
<1>3. r.iptr = text[x].iptr /\ r.count = text[x].count /\ r.ccount = text[x].ccount /\ r.lock =
      text[x].lock /\ r.writ = text[x].writ /\ r.load = text[x].load /\ r.caddr = TRUE /\ r.core =
      text[x].core /\ r.swap = text[x].swap
  BY EntryTypes DEF RawEntry
<1> HIDE DEF r
<1> QED
  BY <1>1, <1>2, <1>3, EntrySet

LEMMA EntryNoCore ==
    ASSUME Typed, NEW x \in Text,
           text' = [text EXCEPT ![x].caddr = FALSE]
    PROVE  EntryIs(x, text[x].iptr, text[x].count, text[x].ccount, text[x].lock, text[x].writ,
                      text[x].load, FALSE, text[x].core, text[x].swap)
<1> DEFINE r == [text[x] EXCEPT !.caddr = FALSE]
<1>1. text' = [text EXCEPT ![x] = r]
  BY EntryTypes
<1>2. r \in RawEntry
  <2>1. SetCaddr(text[x], FALSE) \in RawEntry
    BY EntryTypes, SetTypes
  <2> QED
    BY <2>1 DEF SetCaddr
<1>3. r.iptr = text[x].iptr /\ r.count = text[x].count /\ r.ccount = text[x].ccount /\ r.lock =
      text[x].lock /\ r.writ = text[x].writ /\ r.load = text[x].load /\ r.caddr = FALSE /\ r.core
      = text[x].core /\ r.swap = text[x].swap
  BY EntryTypes DEF RawEntry
<1> HIDE DEF r
<1> QED
  BY <1>1, <1>2, <1>3, EntrySet

LEMMA EntryUncored ==
    ASSUME Typed, NEW x \in Text,
           text' = [text EXCEPT ![x].caddr = FALSE, ![x].core = NoFile]
    PROVE  EntryIs(x, text[x].iptr, text[x].count, text[x].ccount, text[x].lock, text[x].writ,
                      text[x].load, FALSE, NoFile, text[x].swap)
<1> DEFINE r == [text[x] EXCEPT !.caddr = FALSE, !.core = NoFile]
<1>1. text' = [text EXCEPT ![x] = r]
  BY EntryTypes
<1>2. r \in RawEntry
  <2>1. SetCore(SetCaddr(text[x], FALSE), NoFile) \in RawEntry
    BY EntryTypes, SetTypes
  <2> QED
    BY <2>1 DEF SetCaddr, SetCore
<1>3. r.iptr = text[x].iptr /\ r.count = text[x].count /\ r.ccount = text[x].ccount /\ r.lock =
      text[x].lock /\ r.writ = text[x].writ /\ r.load = text[x].load /\ r.caddr = FALSE /\ r.core
      = NoFile /\ r.swap = text[x].swap
  BY EntryTypes DEF RawEntry
<1> HIDE DEF r
<1> QED
  BY <1>1, <1>2, <1>3, EntrySet

LEMMA EntrySaved ==
    ASSUME Typed, NEW x \in Text,
           text' = [text EXCEPT ![x].swap = text[x].core, ![x].writ = FALSE, ![x].caddr = FALSE,
           ![x].core = NoFile, ![x].lock = FALSE]
    PROVE  EntryIs(x, text[x].iptr, text[x].count, text[x].ccount, FALSE, FALSE, text[x].load,
                      FALSE, NoFile, text[x].core)
<1> DEFINE r == [text[x] EXCEPT !.swap = text[x].core, !.writ = FALSE, !.caddr = FALSE, !.core =
                NoFile, !.lock = FALSE]
<1>1. text' = [text EXCEPT ![x] = r]
  BY ZenonT(60), EntryTypes
<1>2. r \in RawEntry
  <2> DEFINE r1 == SetWrit(SetSwap(text[x], text[x].core), FALSE)
  <2>1. r1 \in RawEntry
    BY EntryTypes, SetTypes
  <2> HIDE DEF r1
  <2> DEFINE r2 == SetCore(SetCaddr(r1, FALSE), NoFile)
  <2>2. r2 \in RawEntry
    BY EntryTypes, <2>1, SetTypes
  <2> HIDE DEF r2
  <2> DEFINE r3 == SetLock(r2, FALSE)
  <2>3. r3 \in RawEntry
    BY EntryTypes, <2>2, SetTypes
  <2> QED
    BY <2>3 DEF r1, r2, r3, SetSwap, SetWrit, SetCaddr, SetCore, SetLock
<1>3. r.iptr = text[x].iptr /\ r.count = text[x].count /\ r.ccount = text[x].ccount /\ r.lock =
      FALSE /\ r.writ = FALSE /\ r.load = text[x].load /\ r.caddr = FALSE /\ r.core = NoFile /\
      r.swap = text[x].core
  BY EntryTypes DEF RawEntry
<1> HIDE DEF r
<1> QED
  BY <1>1, <1>2, <1>3, EntrySet

LEMMA EntryLeft ==
    ASSUME Typed, NEW x \in Text,
           text' = [text EXCEPT ![x].count = @ - 1, ![x].ccount = @ - 1]
    PROVE  EntryIs(x, text[x].iptr, text[x].count - 1, text[x].ccount - 1, text[x].lock,
                      text[x].writ, text[x].load, text[x].caddr, text[x].core, text[x].swap)
<1> DEFINE r == [text[x] EXCEPT !.count = @ - 1, !.ccount = @ - 1]
<1>1. text' = [text EXCEPT ![x] = r]
  BY EntryTypes
<1>2. r \in RawEntry
  <2>1. SetCcount(SetCount(text[x], text[x].count - 1), text[x].ccount - 1) \in RawEntry
    BY EntryTypes, SetTypes
  <2> QED
    BY <2>1 DEF SetCount, SetCcount
<1>3. r.iptr = text[x].iptr /\ r.count = (text[x].count - 1) /\ r.ccount = (text[x].ccount - 1) /\
      r.lock = text[x].lock /\ r.writ = text[x].writ /\ r.load = text[x].load /\ r.caddr =
      text[x].caddr /\ r.core = text[x].core /\ r.swap = text[x].swap
  BY EntryTypes DEF RawEntry
<1> HIDE DEF r
<1> QED
  BY <1>1, <1>2, <1>3, EntrySet

LEMMA EntryJoinedLocked ==
    ASSUME Typed, NEW x \in Text,
           text' = [text EXCEPT ![x].count = @ + 1, ![x].lock = TRUE]
    PROVE  EntryIs(x, text[x].iptr, text[x].count + 1, text[x].ccount, TRUE, text[x].writ,
                      text[x].load, text[x].caddr, text[x].core, text[x].swap)
<1> DEFINE r == [text[x] EXCEPT !.count = @ + 1, !.lock = TRUE]
<1>1. text' = [text EXCEPT ![x] = r]
  BY ZenonT(60), EntryTypes
<1>2. r \in RawEntry
  <2>1. SetLock(SetCount(text[x], text[x].count + 1), TRUE) \in RawEntry
    BY EntryTypes, SetTypes
  <2> QED
    BY <2>1 DEF SetCount, SetLock
<1>3. r.iptr = text[x].iptr /\ r.count = (text[x].count + 1) /\ r.ccount = text[x].ccount /\
      r.lock = TRUE /\ r.writ = text[x].writ /\ r.load = text[x].load /\ r.caddr = text[x].caddr
      /\ r.core = text[x].core /\ r.swap = text[x].swap
  BY EntryTypes DEF RawEntry
<1> HIDE DEF r
<1> QED
  BY <1>1, <1>2, <1>3, EntrySet

LEMMA EntryJoined ==
    ASSUME Typed, NEW x \in Text,
           text' = [text EXCEPT ![x].count = @ + 1, ![x].ccount = @ + 1]
    PROVE  EntryIs(x, text[x].iptr, text[x].count + 1, text[x].ccount + 1, text[x].lock,
                      text[x].writ, text[x].load, text[x].caddr, text[x].core, text[x].swap)
<1> DEFINE r == [text[x] EXCEPT !.count = @ + 1, !.ccount = @ + 1]
<1>1. text' = [text EXCEPT ![x] = r]
  BY EntryTypes
<1>2. r \in RawEntry
  <2>1. SetCcount(SetCount(text[x], text[x].count + 1), text[x].ccount + 1) \in RawEntry
    BY EntryTypes, SetTypes
  <2> QED
    BY <2>1 DEF SetCount, SetCcount
<1>3. r.iptr = text[x].iptr /\ r.count = (text[x].count + 1) /\ r.ccount = (text[x].ccount + 1) /\
      r.lock = text[x].lock /\ r.writ = text[x].writ /\ r.load = text[x].load /\ r.caddr =
      text[x].caddr /\ r.core = text[x].core /\ r.swap = text[x].swap
  BY EntryTypes DEF RawEntry
<1> HIDE DEF r
<1> QED
  BY <1>1, <1>2, <1>3, EntrySet

LEMMA EntryCleared ==
    ASSUME Typed, NEW x \in Text,
           text' = [text EXCEPT ![x].iptr = NoFile, ![x].core = NoFile, ![x].swap = NoFile,
           ![x].lock = TRUE]
    PROVE  EntryIs(x, NoFile, text[x].count, text[x].ccount, TRUE, text[x].writ, text[x].load,
                      text[x].caddr, NoFile, NoFile)
<1> DEFINE r == [text[x] EXCEPT !.iptr = NoFile, !.core = NoFile, !.swap = NoFile, !.lock = TRUE]
<1>1. text' = [text EXCEPT ![x] = r]
  BY ZenonT(60), EntryTypes
<1>2. r \in RawEntry
  <2> DEFINE r1 == SetCore(SetIptr(text[x], NoFile), NoFile)
  <2>1. r1 \in RawEntry
    BY EntryTypes, SetTypes
  <2> HIDE DEF r1
  <2> DEFINE r2 == SetLock(SetSwap(r1, NoFile), TRUE)
  <2>2. r2 \in RawEntry
    BY EntryTypes, <2>1, SetTypes
  <2> QED
    BY <2>2 DEF r1, r2, SetIptr, SetCore, SetSwap, SetLock
<1>3. r.iptr = NoFile /\ r.count = text[x].count /\ r.ccount = text[x].ccount /\ r.lock = TRUE /\
      r.writ = text[x].writ /\ r.load = text[x].load /\ r.caddr = text[x].caddr /\ r.core = NoFile
      /\ r.swap = NoFile
  BY EntryTypes DEF RawEntry
<1> HIDE DEF r
<1> QED
  BY <1>1, <1>2, <1>3, EntrySet

LEMMA EntryExpanded ==
    ASSUME Typed, NEW x \in Text,
           text' = [text EXCEPT ![x].caddr = TRUE, ![x].ccount = @ + 1, ![x].lock = FALSE]
    PROVE  EntryIs(x, text[x].iptr, text[x].count, text[x].ccount + 1, FALSE, text[x].writ,
                      text[x].load, TRUE, text[x].core, text[x].swap)
<1> DEFINE r == [text[x] EXCEPT !.caddr = TRUE, !.ccount = @ + 1, !.lock = FALSE]
<1>1. text' = [text EXCEPT ![x] = r]
  BY EntryTypes
<1>2. r \in RawEntry
  <2> DEFINE r1 == SetCcount(SetCaddr(text[x], TRUE), text[x].ccount + 1)
  <2>1. r1 \in RawEntry
    BY EntryTypes, SetTypes
  <2> HIDE DEF r1
  <2> DEFINE r2 == SetLock(r1, FALSE)
  <2>2. r2 \in RawEntry
    BY EntryTypes, <2>1, SetTypes
  <2> QED
    BY <2>2 DEF r1, r2, SetCaddr, SetCcount, SetLock
<1>3. r.iptr = text[x].iptr /\ r.count = text[x].count /\ r.ccount = (text[x].ccount + 1) /\
      r.lock = FALSE /\ r.writ = text[x].writ /\ r.load = text[x].load /\ r.caddr = TRUE /\ r.core
      = text[x].core /\ r.swap = text[x].swap
  BY EntryTypes DEF RawEntry
<1> HIDE DEF r
<1> QED
  BY <1>1, <1>2, <1>3, EntrySet

LEMMA EntryRead ==
    ASSUME Typed, NEW x \in Text,
           text' = [text EXCEPT ![x].core = text[x].swap, ![x].ccount = @ + 1, ![x].lock = FALSE]
    PROVE  EntryIs(x, text[x].iptr, text[x].count, text[x].ccount + 1, FALSE, text[x].writ,
                      text[x].load, text[x].caddr, text[x].swap, text[x].swap)
<1> DEFINE r == [text[x] EXCEPT !.core = text[x].swap, !.ccount = @ + 1, !.lock = FALSE]
<1>1. text' = [text EXCEPT ![x] = r]
  BY EntryTypes
<1>2. r \in RawEntry
  <2> DEFINE r1 == SetCcount(SetCore(text[x], text[x].swap), text[x].ccount + 1)
  <2>1. r1 \in RawEntry
    BY EntryTypes, SetTypes
  <2> HIDE DEF r1
  <2> DEFINE r2 == SetLock(r1, FALSE)
  <2>2. r2 \in RawEntry
    BY EntryTypes, <2>1, SetTypes
  <2> QED
    BY <2>2 DEF r1, r2, SetCore, SetCcount, SetLock
<1>3. r.iptr = text[x].iptr /\ r.count = text[x].count /\ r.ccount = (text[x].ccount + 1) /\
      r.lock = FALSE /\ r.writ = text[x].writ /\ r.load = text[x].load /\ r.caddr = text[x].caddr
      /\ r.core = text[x].swap /\ r.swap = text[x].swap
  BY EntryTypes DEF RawEntry
<1> HIDE DEF r
<1> QED
  BY <1>1, <1>2, <1>3, EntrySet

LEMMA EntryLoaded ==
    ASSUME Typed, NEW x \in Text, NEW f \in File \cup {NoFile},
           text' = [text EXCEPT ![x].core = f, ![x].writ = TRUE, ![x].load = FALSE]
    PROVE  EntryIs(x, text[x].iptr, text[x].count, text[x].ccount, text[x].lock, TRUE, FALSE,
                      text[x].caddr, f, text[x].swap)
<1> DEFINE r == [text[x] EXCEPT !.core = f, !.writ = TRUE, !.load = FALSE]
<1>1. text' = [text EXCEPT ![x] = r]
  BY EntryTypes
<1>2. r \in RawEntry
  <2> DEFINE r1 == SetWrit(SetCore(text[x], f), TRUE)
  <2>1. r1 \in RawEntry
    BY EntryTypes, SetTypes
  <2> HIDE DEF r1
  <2> DEFINE r2 == SetLoad(r1, FALSE)
  <2>2. r2 \in RawEntry
    BY EntryTypes, <2>1, SetTypes
  <2> QED
    BY <2>2 DEF r1, r2, SetCore, SetWrit, SetLoad
<1>3. r.iptr = text[x].iptr /\ r.count = text[x].count /\ r.ccount = text[x].ccount /\ r.lock =
      text[x].lock /\ r.writ = TRUE /\ r.load = FALSE /\ r.caddr = text[x].caddr /\ r.core = f /\
      r.swap = text[x].swap
  BY EntryTypes DEF RawEntry
<1> HIDE DEF r
<1> QED
  BY ZenonT(60), <1>1, <1>2, <1>3, EntrySet

LEMMA EntryOut ==
    ASSUME Typed, NEW x \in Text,
           text' = [text EXCEPT ![x].ccount = @ - 1]
    PROVE  EntryIs(x, text[x].iptr, text[x].count, text[x].ccount - 1, text[x].lock, text[x].writ,
                      text[x].load, text[x].caddr, text[x].core, text[x].swap)
<1> DEFINE r == [text[x] EXCEPT !.ccount = @ - 1]
<1>1. text' = [text EXCEPT ![x] = r]
  BY EntryTypes
<1>2. r \in RawEntry
  <2>1. SetCcount(text[x], text[x].ccount - 1) \in RawEntry
    BY EntryTypes, SetTypes
  <2> QED
    BY <2>1 DEF SetCcount
<1>3. r.iptr = text[x].iptr /\ r.count = text[x].count /\ r.ccount = (text[x].ccount - 1) /\
      r.lock = text[x].lock /\ r.writ = text[x].writ /\ r.load = text[x].load /\ r.caddr =
      text[x].caddr /\ r.core = text[x].core /\ r.swap = text[x].swap
  BY EntryTypes DEF RawEntry
<1> HIDE DEF r
<1> QED
  BY <1>1, <1>2, <1>3, EntrySet

LEMMA EntryLastOut ==
    ASSUME Typed, NEW x \in Text,
           text' = [text EXCEPT ![x].ccount = 0, ![x].lock = TRUE]
    PROVE  EntryIs(x, text[x].iptr, text[x].count, 0, TRUE, text[x].writ, text[x].load,
                      text[x].caddr, text[x].core, text[x].swap)
<1> DEFINE r == [text[x] EXCEPT !.ccount = 0, !.lock = TRUE]
<1>1. text' = [text EXCEPT ![x] = r]
  BY EntryTypes
<1>2. r \in RawEntry
  <2>1. SetLock(SetCcount(text[x], 0), TRUE) \in RawEntry
    BY EntryTypes, SetTypes
  <2> QED
    BY <2>1 DEF SetCcount, SetLock
<1>3. r.iptr = text[x].iptr /\ r.count = text[x].count /\ r.ccount = 0 /\ r.lock = TRUE /\ r.writ
      = text[x].writ /\ r.load = text[x].load /\ r.caddr = text[x].caddr /\ r.core = text[x].core
      /\ r.swap = text[x].swap
  BY EntryTypes DEF RawEntry
<1> HIDE DEF r
<1> QED
  BY <1>1, <1>2, <1>3, EntrySet

LEMMA EntryLastGone ==
    ASSUME Typed, NEW x \in Text,
           text' = [text EXCEPT ![x].ccount = 0, ![x].caddr = FALSE, ![x].core = NoFile]
    PROVE  EntryIs(x, text[x].iptr, text[x].count, 0, text[x].lock, text[x].writ, text[x].load,
                      FALSE, NoFile, text[x].swap)
<1> DEFINE r == [text[x] EXCEPT !.ccount = 0, !.caddr = FALSE, !.core = NoFile]
<1>1. text' = [text EXCEPT ![x] = r]
  BY EntryTypes
<1>2. r \in RawEntry
  <2> DEFINE r1 == SetCaddr(SetCcount(text[x], 0), FALSE)
  <2>1. r1 \in RawEntry
    BY EntryTypes, SetTypes
  <2> HIDE DEF r1
  <2> DEFINE r2 == SetCore(r1, NoFile)
  <2>2. r2 \in RawEntry
    BY EntryTypes, <2>1, SetTypes
  <2> QED
    BY <2>2 DEF r1, r2, SetCcount, SetCaddr, SetCore
<1>3. r.iptr = text[x].iptr /\ r.count = text[x].count /\ r.ccount = 0 /\ r.lock = text[x].lock /\
      r.writ = text[x].writ /\ r.load = text[x].load /\ r.caddr = FALSE /\ r.core = NoFile /\
      r.swap = text[x].swap
  BY EntryTypes DEF RawEntry
<1> HIDE DEF r
<1> QED
  BY ZenonT(60), <1>1, <1>2, <1>3, EntrySet

LEMMA EntryIn ==
    ASSUME Typed, NEW x \in Text, NEW b \in BOOLEAN,
           text' = [text EXCEPT ![x].caddr = @ \/ b, ![x].ccount = @ + 1, ![x].lock = FALSE]
    PROVE  EntryIs(x, text[x].iptr, text[x].count, text[x].ccount + 1, FALSE, text[x].writ,
                      text[x].load, text[x].caddr \/ b, text[x].core, text[x].swap)
<1> DEFINE r == [text[x] EXCEPT !.caddr = @ \/ b, !.ccount = @ + 1, !.lock = FALSE]
<1>1. text' = [text EXCEPT ![x] = r]
  BY EntryTypes
<1>2. r \in RawEntry
  <2> DEFINE r1 == SetCcount(SetCaddr(text[x], text[x].caddr \/ b), text[x].ccount + 1)
  <2>1. r1 \in RawEntry
    BY EntryTypes, SetTypes
  <2> HIDE DEF r1
  <2> DEFINE r2 == SetLock(r1, FALSE)
  <2>2. r2 \in RawEntry
    BY EntryTypes, <2>1, SetTypes
  <2> QED
    BY <2>2 DEF r1, r2, SetCaddr, SetCcount, SetLock
<1>3. r.iptr = text[x].iptr /\ r.count = text[x].count /\ r.ccount = (text[x].ccount + 1) /\
      r.lock = FALSE /\ r.writ = text[x].writ /\ r.load = text[x].load /\ r.caddr = (text[x].caddr
      \/ b) /\ r.core = text[x].core /\ r.swap = text[x].swap
  BY EntryTypes DEF RawEntry
<1> HIDE DEF r
<1> QED
  BY ZenonT(60), <1>1, <1>2, <1>3, EntrySet

(* Process p is this now; all others are what they were. *)
ProcIs(p, txt, prog, loaded, slock) ==
    /\ proc' \in [Proc -> Process]
    /\ proc'[p].text = txt /\ proc'[p].prog = prog
    /\ proc'[p].loaded = loaded /\ proc'[p].slock = slock
    /\ \A q \in Proc \ {p} : proc'[q] = proc[q]

LEMMA ProcSet ==
    ASSUME Typed, NEW p \in Proc, NEW r \in Process, proc' = [proc EXCEPT ![p] = r]
    PROVE  ProcIs(p, r.text, r.prog, r.loaded, r.slock)
<1>1. proc \in [Proc -> Process]
  BY DEF Typed
<1> QED
  BY <1>1 DEF ProcIs

LEMMA ProcMade ==
    ASSUME Typed, NEW p \in Proc, NEW t \in Text \cup {NoText}, NEW f \in File \cup {NoFile},
           NEW b \in BOOLEAN
    PROVE  /\ proc' = [proc EXCEPT ![p].text = t]
                 => ProcIs(p, t, proc[p].prog, proc[p].loaded, proc[p].slock)
           /\ proc' = [proc EXCEPT ![p].prog = f]
                 => ProcIs(p, proc[p].text, f, proc[p].loaded, proc[p].slock)
           /\ proc' = [proc EXCEPT ![p].slock = b]
                 => ProcIs(p, proc[p].text, proc[p].prog, proc[p].loaded, b)
           /\ proc' = [proc EXCEPT ![p].loaded = b]
                 => ProcIs(p, proc[p].text, proc[p].prog, b, proc[p].slock)
           /\ proc' = [proc EXCEPT ![p].slock = TRUE, ![p].loaded = b]
                 => ProcIs(p, proc[p].text, proc[p].prog, b, TRUE)
           /\ proc' = [proc EXCEPT ![p].loaded = FALSE, ![p].slock = FALSE]
                 => ProcIs(p, proc[p].text, proc[p].prog, FALSE, FALSE)
<1>1. proc \in [Proc -> Process] /\ proc[p] \in Process
  BY DEF Typed
<1>2. ASSUME proc' = [proc EXCEPT ![p].text = t]
      PROVE  ProcIs(p, t, proc[p].prog, proc[p].loaded, proc[p].slock)
  <2> DEFINE r == [proc[p] EXCEPT !.text = t]
  <2>1. proc' = [proc EXCEPT ![p] = r]
    BY <1>1, <1>2
  <2>2. r \in Process /\ r.text = t /\ r.prog = proc[p].prog /\ r.loaded = proc[p].loaded /\ r.slock =
            proc[p].slock
    BY <1>1 DEF Process
  <2> HIDE DEF r
  <2> QED
    BY <2>1, <2>2, ProcSet
<1>3. ASSUME proc' = [proc EXCEPT ![p].prog = f]
      PROVE  ProcIs(p, proc[p].text, f, proc[p].loaded, proc[p].slock)
  <2> DEFINE r == [proc[p] EXCEPT !.prog = f]
  <2>1. proc' = [proc EXCEPT ![p] = r]
    BY <1>1, <1>3
  <2>2. r \in Process /\ r.text = proc[p].text /\ r.prog = f /\ r.loaded = proc[p].loaded /\ r.slock =
            proc[p].slock
    BY <1>1 DEF Process
  <2> HIDE DEF r
  <2> QED
    BY <2>1, <2>2, ProcSet
<1>4. ASSUME proc' = [proc EXCEPT ![p].slock = b]
      PROVE  ProcIs(p, proc[p].text, proc[p].prog, proc[p].loaded, b)
  <2> DEFINE r == [proc[p] EXCEPT !.slock = b]
  <2>1. proc' = [proc EXCEPT ![p] = r]
    BY <1>1, <1>4
  <2>2. r \in Process /\ r.text = proc[p].text /\ r.prog = proc[p].prog /\ r.loaded = proc[p].loaded /\
            r.slock = b
    BY <1>1 DEF Process
  <2> HIDE DEF r
  <2> QED
    BY <2>1, <2>2, ProcSet
<1>5. ASSUME proc' = [proc EXCEPT ![p].loaded = b]
      PROVE  ProcIs(p, proc[p].text, proc[p].prog, b, proc[p].slock)
  <2> DEFINE r == [proc[p] EXCEPT !.loaded = b]
  <2>1. proc' = [proc EXCEPT ![p] = r]
    BY <1>1, <1>5
  <2>2. r \in Process /\ r.text = proc[p].text /\ r.prog = proc[p].prog /\ r.loaded = b /\ r.slock =
            proc[p].slock
    BY <1>1 DEF Process
  <2> HIDE DEF r
  <2> QED
    BY <2>1, <2>2, ProcSet
<1>6. ASSUME proc' = [proc EXCEPT ![p].slock = TRUE, ![p].loaded = b]
      PROVE  ProcIs(p, proc[p].text, proc[p].prog, b, TRUE)
  <2> DEFINE r == [proc[p] EXCEPT !.slock = TRUE, !.loaded = b]
  <2>1. proc' = [proc EXCEPT ![p] = r]
    BY <1>1, <1>6
  <2>2. r \in Process /\ r.text = proc[p].text /\ r.prog = proc[p].prog /\ r.loaded = b /\ r.slock = TRUE
    BY <1>1 DEF Process
  <2> HIDE DEF r
  <2> QED
    BY <2>1, <2>2, ProcSet
<1>7. ASSUME proc' = [proc EXCEPT ![p].loaded = FALSE, ![p].slock = FALSE]
      PROVE  ProcIs(p, proc[p].text, proc[p].prog, FALSE, FALSE)
  <2> DEFINE r == [proc[p] EXCEPT !.loaded = FALSE, !.slock = FALSE]
  <2>1. proc' = [proc EXCEPT ![p] = r]
    BY <1>1, <1>7
  <2>2. r \in Process /\ r.text = proc[p].text /\ r.prog = proc[p].prog /\ r.loaded = FALSE /\ r.slock =
            FALSE
    BY <1>1 DEF Process
  <2> HIDE DEF r
  <2> QED
    BY <2>1, <2>2, ProcSet
<1> QED
  BY <1>2, <1>3, <1>4, <1>5, <1>6, <1>7

-----------------------------------------------------------------------------
(* The free list *)

LEMMA FreeTypes ==
    ASSUME free \in Seq(Text)
    PROVE  /\ \A x \in Text : Append(free, x) \in Seq(Text) /\ Off(x) \in Seq(Text)
           /\ free # <<>> => Head(free) \in Text /\ Tail(free) \in Seq(Text) /\ Head(free) \in ToSet(free)
           /\ \A x : Forw(x) \in ToSet(free) \cup {NoText}
           /\ ToSet(free) \subseteq Text
<1>1. Len(free) \in Nat /\ DOMAIN free = 1..Len(free) /\ \A i \in 1..Len(free) : free[i] \in Text
  BY LenProperties, ElementOfSeq
<1>2. ASSUME NEW x \in Text PROVE Append(free, x) \in Seq(Text)
  BY AppendProperties
<1>3. ASSUME NEW x \in Text PROVE Off(x) \in Seq(Text)
  <2>1. CASE \E i \in DOMAIN free : free[i] = x
    <3> DEFINE i == CHOOSE i \in DOMAIN free : free[i] = x
    <3>1. i \in 1..Len(free)
      BY <1>1, <2>1
    <3>2. Off(x) = RemoveAt(free, i)
      BY <2>1 DEF Off
    <3> HIDE DEF i
    <3> QED
      BY <3>1, <3>2, RemoveElements
  <2>2. CASE ~\E i \in DOMAIN free : free[i] = x
    BY <2>2 DEF Off
  <2> QED
    BY <2>1, <2>2
<1>4. ASSUME free # <<>>
      PROVE  Head(free) \in Text /\ Tail(free) \in Seq(Text) /\ Head(free) \in ToSet(free)
  <2>1. 1 \in 1..Len(free) /\ Head(free) = free[1] /\ Tail(free) \in Seq(Text)
    BY <1>1, <1>4, EmptySeq, HeadTailProperties
  <2> QED
    BY <1>1, <2>1 DEF ToSet
<1>5. ASSUME NEW x PROVE Forw(x) \in ToSet(free) \cup {NoText}
  <2>1. CASE \E i \in 1..(Len(free) - 1) : free[i] = x
    <3> DEFINE i == CHOOSE i \in 1..(Len(free) - 1) : free[i] = x
    <3>1. i \in 1..(Len(free) - 1)
      BY <2>1
    <3>2. Forw(x) = free[1 + i]
      BY <2>1 DEF Forw
    <3> HIDE DEF i
    <3>3. 1 + i \in 1..Len(free)
      BY <1>1, <3>1
    <3> QED
      BY <1>1, <3>2, <3>3 DEF ToSet
  <2>2. CASE ~\E i \in 1..(Len(free) - 1) : free[i] = x
    BY <2>2 DEF Forw
  <2> QED
    BY <2>1, <2>2
<1>6. ToSet(free) \subseteq Text
  BY <1>1 DEF ToSet
<1> QED
  BY <1>2, <1>3, <1>4, <1>5, <1>6

-----------------------------------------------------------------------------
(* What each action does, for the proofs about it. *)

Rest == <<text, free, itext, units, proc, on, sp>>

DidExec(p, f) ==
    /\ Runs(p, "user") /\ f \in File \cup {NoFile} /\ (f # NoFile => ~Inode(f))
    /\ Goes(p, "xfree", at[p].x, at[p].xp, at[p].ret, "xalloc") /\ cpu' = p
    /\ ProcIs(p, proc[p].text, f, proc[p].loaded, proc[p].slock)
    /\ UNCHANGED <<text, free, itext, units, on, sp>>

LEMMA ExecDoes ==
    ASSUME Shape, NEW p \in Proc, NEW f \in Execs[p], Exec(p, f)
    PROVE  DidExec(p, f)
<1> USE DEF DidExec
<1>1. f \in File \cup {NoFile}
  BY ExecAssumption
<1> QED
  BY <1>1, ProcMade, PlaceGoes, Actors, ZenonT(60) DEF Exec, Shape, Typed, Location, Locals

DidGrow(p) ==
    Runs(p, "user") /\ Moves(p, "expand") /\ cpu' = p /\ UNCHANGED Rest

LEMMA GrowDoes ==
    ASSUME Shape, NEW p \in Proc, Grow(p)
    PROVE  DidGrow(p)
BY ZenonT(60), GotoMoves, Actors DEF DidGrow, Grow, Goto, Shape, Location, Rest

DidXfree(p) ==
    /\ Gets(p, "xfree")
    /\ (\E l \in {"expand", "xalloc"} : Moves(p, l)) /\ cpu' = p
    /\ ProcIs(p, NoText, proc[p].prog, proc[p].loaded, proc[p].slock)
    /\ LET x == proc[p].text IN
       \/ x = NoText /\ UNCHANGED <<text, free>>
       \/ /\ x \in Text
          /\ EntryIs(x, text[x].iptr, text[x].count - 1, text[x].ccount - 1, text[x].lock,
                     text[x].writ, text[x].load, text[x].caddr, text[x].core, text[x].swap)
          /\ free' = IF text[x].count = 1 THEN Append(free, x) ELSE free
    /\ UNCHANGED <<itext, units, on, sp>>

LEMMA XfreeDoes ==
    ASSUME Shape, NEW p \in Proc, Xfree(p)
    PROVE  DidXfree(p)
<1> USE DEF DidXfree
<1>1. (\E l \in {"expand", "xalloc"} : Moves(p, l)) /\ cpu' = p
  BY GotoMoves, Actors DEF Xfree, Shape, Location, Goto
<1>2. ProcIs(p, NoText, proc[p].prog, proc[p].loaded, proc[p].slock)
  BY ZenonT(60), ProcMade DEF Xfree, Shape
<1> DEFINE x == proc[p].text
<1>3. CASE x = NoText
  BY <1>1, <1>2, <1>3 DEF Xfree
<1>4. CASE x # NoText
  <2>1. x \in Text
    BY <1>4 DEF Shape, Typed, Process
  <2>2. /\ text' = [text EXCEPT ![x].count = @ - 1, ![x].ccount = @ - 1]
        /\ free' = IF text[x].count = 1 THEN Append(free, x) ELSE free
    BY <1>4 DEF Xfree
  <2> HIDE DEF x
  <2>3. EntryIs(x, text[x].iptr, text[x].count - 1, text[x].ccount - 1, text[x].lock,
                text[x].writ, text[x].load, text[x].caddr, text[x].core, text[x].swap)
    BY <2>1, <2>2, EntryLeft, Zenon DEF Shape
  <2>4. Gets(p, "xfree") /\ UNCHANGED <<itext, units, on, sp>>
    BY DEF Xfree
  <2> QED
    BY <1>1, <1>2, <2>1, <2>2, <2>3, <2>4 DEF x
<1> QED
  BY SMTT(30), <1>3, <1>4

(* malloc calls xuncore. *)
LEMMA CallDoes ==
    ASSUME Shape, NEW a \in Actor, at[a].pc \in {"expand", "xexpand", "intext", "inimage"}, CallXuncore(a)
    PROVE  /\ \E xp \in ToSet(free) \cup {NoText} :
                 Goes(a, "xuncore", at[a].x, xp, at[a].pc, at[a].after)
           /\ cpu' = a /\ UNCHANGED Rest
<1> DEFINE x == IF free = <<>> THEN NoText ELSE Head(free)
<1>1. x \in ToSet(free) \cup {NoText} /\ ToSet(free) \subseteq Text
  BY FreeTypes DEF Shape, Typed
<1>2. at' = [at EXCEPT ![a].pc = "xuncore", ![a].ret = at[a].pc, ![a].tried = TRUE, ![a].xp = x]
  BY DEF CallXuncore
<1>3. "xuncore" \in Location /\ at[a].pc \in Location
      /\ at[a].after \in {"user", "xalloc", "again", "readi", "sched"}
  BY DEF Location, Shape, Typed, Locals
<1> HIDE DEF x
<1>4. Goes(a, "xuncore", at[a].x, x, at[a].pc, at[a].after)
  BY <1>1, <1>2, <1>3, PlaceGoes, Zenon DEF Shape
<1> QED
  BY <1>1, <1>4 DEF CallXuncore, Rest

DidExpand(p) ==
    /\ Runs(p, "expand")
    /\ \/ /\ at[p].after = "user" /\ Goes(p, "user", NoText, NoText, "user", "user")
          /\ cpu' = Idle /\ UNCHANGED Rest
       \/ at[p].after # "user" /\ Moves(p, "xalloc") /\ cpu' = p /\ UNCHANGED Rest
       \/ /\ \E xp \in ToSet(free) \cup {NoText} :
                Goes(p, "xuncore", at[p].x, xp, "expand", at[p].after)
          /\ cpu' = p /\ UNCHANGED Rest
       \/ /\ Moves(p, "swapout") /\ cpu' = p
          /\ ProcIs(p, proc[p].text, proc[p].prog, TRUE, TRUE)
          /\ UNCHANGED <<text, free, itext, units, on, sp>>

LEMMA ExpandDoes ==
    ASSUME Shape, NEW p \in Proc, Expand(p)
    PROVE  DidExpand(p)
<1> USE DEF DidExpand
<1>1. Runs(p, "expand") /\ at[p].pc = "expand" /\ p \in Actor /\ p # Sched /\ Typed
  BY Actors DEF Expand, Runs, Shape
<1>2. CASE Return(p) /\ at[p].after = "user" /\ UNCHANGED Rest
  BY ZenonT(60), <1>1, <1>2, ReturnGoes DEF Return
<1>3. CASE Goto(p, "xalloc") /\ at[p].after # "user" /\ UNCHANGED Rest
  BY <1>1, <1>3, GotoMoves DEF Goto, Location
<1>4. CASE CallXuncore(p)
  BY <1>1, <1>4, CallDoes
<1>5. CASE StartSwapout(p, p) /\ UNCHANGED <<text, free, itext, units, on, sp>>
  <2>1. Moves(p, "swapout") /\ cpu' = p
    BY <1>1, <1>5, GotoMoves DEF StartSwapout, Goto, Location
  <2>2. ProcIs(p, proc[p].text, proc[p].prog, TRUE, TRUE)
    BY <1>1, <1>5, ProcMade DEF StartSwapout
  <2> QED
    BY ZenonT(60), <1>1, <1>5, <2>1, <2>2
<1> QED
  BY <1>2, <1>3, <1>4, <1>5 DEF Expand, Rest

DidAttach(p) ==
    /\ Runs(p, "xalloc") /\ UNCHANGED <<itext, units, on, sp>>
    /\ LET f == proc[p].prog
           x == itext[f] IN
       \/ /\ f = NoFile /\ Goes(p, "user", NoText, NoText, "user", "user")
          /\ cpu' = Idle /\ UNCHANGED <<text, free, proc>>
       \/ /\ f \in File /\ x \in Text /\ text[x].lock = TRUE
          /\ Goes(p, "xwait", x, at[p].xp, at[p].ret, at[p].after)
          /\ cpu' = p /\ UNCHANGED <<text, free, proc>>
       \/ /\ f \in File /\ x \in Text /\ text[x].lock = FALSE
          /\ free' = Off(x) /\ ProcIs(p, x, f, proc[p].loaded, proc[p].slock)
          /\ \/ /\ text[x].caddr = FALSE /\ text[x].ccount = 0
                /\ EntryIs(x, text[x].iptr, text[x].count + 1, text[x].ccount, TRUE,
                           text[x].writ, text[x].load, text[x].caddr, text[x].core, text[x].swap)
                /\ Goes(p, "xexpand", x, at[p].xp, at[p].ret, "again") /\ cpu' = p
             \/ /\ text[x].caddr = TRUE \/ text[x].ccount # 0
                /\ EntryIs(x, text[x].iptr, text[x].count + 1, text[x].ccount + 1, text[x].lock,
                           text[x].writ, text[x].load, text[x].caddr, text[x].core, text[x].swap)
                /\ Goes(p, "user", NoText, NoText, "user", "user") /\ cpu' = Idle

LEMMA AttachDoes ==
    ASSUME Shape, NEW p \in Proc, Attach(p)
    PROVE  DidAttach(p)
<1> USE DEF DidAttach
<1> DEFINE f == proc[p].prog
           x == itext[f]
<1>1. Runs(p, "xalloc") /\ UNCHANGED <<itext, units, on, sp>> /\ p \in Actor /\ Typed
  BY Actors, Zenon DEF Attach, Shape
<1>2. f \in File \cup {NoFile} /\ (f # NoFile => x \in Text \cup {NoText})
  BY DEF Shape, Typed, Process
<1>3. CASE f = NoFile
  BY ZenonT(60), <1>1, <1>3, ReturnGoes DEF Attach, Return
<1>4. CASE f # NoFile
  <2>1. x # NoText /\ x \in Text /\ f \in File
    BY ZenonT(60), <1>2, <1>4 DEF Attach
  <2>2. text[x].lock \in BOOLEAN /\ text[x].caddr \in BOOLEAN
    BY <2>1 DEF Shape, Typed, RawEntry
  <2>3. CASE text[x].lock
    <3>1. at' = [at EXCEPT ![p].pc = "xwait", ![p].x = x] /\ cpu' = p /\ UNCHANGED <<text, free, proc>>
      BY ZenonT(60), <1>4, <2>1, <2>3 DEF Attach
    <3> HIDE DEF x
    <3>2. Goes(p, "xwait", x, at[p].xp, at[p].ret, at[p].after)
      BY <1>1, <2>1, <3>1, PlaceGoes, ZenonT(60) DEF Location, Typed, Locals
    <3> QED
      BY SMTT(30), <1>1, <2>1, <2>2, <2>3, <3>1, <3>2 DEF x
  <2>4. CASE ~text[x].lock
    <3>1. free' = Off(x) /\ proc' = [proc EXCEPT ![p].text = x]
      BY <1>4, <2>1, <2>4, Zenon DEF Attach
    <3> HIDE DEF x
    <3>2. ProcIs(p, x, f, proc[p].loaded, proc[p].slock)
      BY <1>1, <2>1, <3>1, ProcMade, Zenon
    <3>3. CASE ~text[x].caddr /\ text[x].ccount = 0
      <4>1. /\ text' = [text EXCEPT ![x].count = @ + 1, ![x].lock = TRUE]
            /\ at' = [at EXCEPT ![p].pc = "xexpand", ![p].x = x, ![p].after = "again"] /\ cpu' = p
        BY <1>4, <2>1, <2>4, <3>3, Zenon DEF Attach, x
      <4>2. EntryIs(x, text[x].iptr, text[x].count + 1, text[x].ccount, TRUE,
                    text[x].writ, text[x].load, text[x].caddr, text[x].core, text[x].swap)
        BY <1>1, <2>1, <4>1, EntryJoinedLocked, Zenon
      <4>3. Goes(p, "xexpand", x, at[p].xp, at[p].ret, "again")
        BY <1>1, <2>1, <4>1, PlaceGoes, ZenonT(60) DEF Location, Typed, Locals
      <4> QED
        BY <1>1, <2>1, <2>2, <2>4, <3>1, <3>2, <3>3, <4>1, <4>2, <4>3, Zenon DEF x
    <3>4. CASE ~(~text[x].caddr /\ text[x].ccount = 0)
      <4>1. text' = [text EXCEPT ![x].count = @ + 1, ![x].ccount = @ + 1] /\ Return(p)
        BY <1>4, <2>1, <2>4, <3>4, Zenon DEF Attach, x
      <4>2. EntryIs(x, text[x].iptr, text[x].count + 1, text[x].ccount + 1, text[x].lock,
                    text[x].writ, text[x].load, text[x].caddr, text[x].core, text[x].swap)
        BY <1>1, <2>1, <4>1, EntryJoined, Zenon
      <4>3. Goes(p, "user", NoText, NoText, "user", "user") /\ cpu' = Idle
        BY <1>1, <4>1, ReturnGoes DEF Return
      <4> QED
        BY <1>1, <2>1, <2>2, <2>4, <3>1, <3>2, <3>4, <4>2, <4>3, Zenon DEF x
    <3> QED
      BY <3>3, <3>4, Zenon
  <2> QED
    BY ZenonT(60), <2>3, <2>4
<1> QED
  BY <1>3, <1>4, Zenon

DidXwaited(p) ==
    /\ Gets(p, "xwait") /\ Goes(p, "xalloc", NoText, at[p].xp, at[p].ret, at[p].after)
    /\ cpu' = p /\ UNCHANGED Rest

LEMMA XwaitedDoes ==
    ASSUME Shape, NEW p \in Proc, Xwaited(p)
    PROVE  DidXwaited(p)
<1> USE DEF DidXwaited
<1>1. at' = [at EXCEPT ![p].pc = "xalloc", ![p].x = NoText] /\ p \in Actor /\ Typed
  BY Actors DEF Xwaited, Shape
<1>2. Goes(p, "xalloc", NoText, at[p].xp, at[p].ret, at[p].after)
  BY <1>1, PlaceGoes, ZenonT(60) DEF Location, Typed, Locals
<1> QED
  BY <1>2 DEF Xwaited, Rest

(* The entry x becomes that of p's program, and p's text. *)
Takes(p, x, iptr) ==
    /\ EntryIs(x, iptr, 1, 0, TRUE, FALSE, TRUE, text[x].caddr, text[x].core, text[x].swap)
    /\ ProcIs(p, x, proc[p].prog, proc[p].loaded, proc[p].slock)
    /\ Goes(p, "xexpand", x, at[p].xp, at[p].ret, "readi") /\ cpu' = p

LEMMA ReusedTakes ==
    ASSUME Shape, NEW p \in Proc, NEW x \in Text, Reused(p, x, text)
    PROVE  Takes(p, x, proc[p].prog)
<1>1. p \in Actor /\ Typed /\ proc[p].prog \in File \cup {NoFile}
      /\ at[p].ret \in Location
  BY Actors DEF Shape, Typed, Process, Locals
<1>2. EntryIs(x, proc[p].prog, 1, 0, TRUE, FALSE, TRUE, text[x].caddr, text[x].core, text[x].swap)
  BY <1>1, EntryReused, Zenon DEF Reused
<1>3. ProcIs(p, x, proc[p].prog, proc[p].loaded, proc[p].slock)
  BY <1>1, ProcMade, Zenon DEF Reused
<1>4. Goes(p, "xexpand", x, at[p].xp, at[p].ret, "readi")
  BY <1>1, PlaceGoes, ZenonT(60) DEF Reused, Location
<1> QED
  BY <1>2, <1>3, <1>4 DEF Takes, Reused

DidAllot(p) ==
    /\ Runs(p, "xalloc") /\ proc[p].prog \in File /\ itext[proc[p].prog] = NoText
    /\ UNCHANGED <<units, on, sp>>
    /\ \/ /\ ProcIs(p, proc[p].text, NoFile, proc[p].loaded, proc[p].slock)
          /\ Goes(p, "user", NoText, NoText, "user", "user") /\ cpu' = Idle
          /\ UNCHANGED <<text, free, itext>>
       \/ /\ free # <<>> /\ Head(free) \in Text /\ text[Head(free)].iptr # NoFile
          /\ free' = Tail(free)
          /\ Goes(p, "xuntext", Head(free), at[p].xp, at[p].ret, at[p].after) /\ cpu' = p
          /\ UNCHANGED <<text, itext, proc>>
       \/ /\ free # <<>> /\ Head(free) \in Text /\ text[Head(free)].iptr = NoFile
          /\ free' = Tail(free)
          /\ itext' = [itext EXCEPT ![proc[p].prog] = Head(free)]
          /\ Takes(p, Head(free), proc[p].prog)

LEMMA AllotDoes ==
    ASSUME Shape, NEW p \in Proc, Allot(p)
    PROVE  DidAllot(p)
<1> USE DEF DidAllot
<1>1. p \in Actor /\ Typed /\ Runs(p, "xalloc") /\ proc[p].prog \in File /\ itext[proc[p].prog] = NoText
      /\ UNCHANGED <<units, on, sp>>
  BY Actors DEF Allot, Shape, Typed, Process
<1>2. CASE free = <<>>
  <2>1. proc' = [proc EXCEPT ![p].prog = NoFile] /\ Return(p) /\ UNCHANGED <<text, free, itext>>
    BY <1>2 DEF Allot
  <2>2. ProcIs(p, proc[p].text, NoFile, proc[p].loaded, proc[p].slock)
    BY <1>1, <2>1, ProcMade
  <2> QED
    BY <1>1, <2>1, <2>2, ReturnGoes DEF Return
<1>3. CASE free # <<>>
  <2> DEFINE x == Head(free)
  <2>1. x \in Text
    BY <1>1, <1>3, FreeTypes DEF Typed
  <2>2. CASE text[x].iptr # NoFile
    <3>1. free' = Tail(free) /\ at' = [at EXCEPT ![p].pc = "xuntext", ![p].x = x] /\ cpu' = p
          /\ UNCHANGED <<text, itext, proc>>
      BY <1>3, <2>2 DEF Allot
    <3> HIDE DEF x
    <3>2. Goes(p, "xuntext", x, at[p].xp, at[p].ret, at[p].after)
      BY <1>1, <2>1, <3>1, PlaceGoes, ZenonT(60) DEF Location, Typed, Locals
    <3> QED
      BY <1>1, <1>3, <2>1, <2>2, <3>1, <3>2 DEF x
  <2>3. CASE text[x].iptr = NoFile
    <3>1. free' = Tail(free) /\ itext' = [itext EXCEPT ![proc[p].prog] = x] /\ Reused(p, x, text)
      BY <1>3, <2>3 DEF Allot
    <3> HIDE DEF x
    <3>2. Takes(p, x, proc[p].prog)
      BY <2>1, <3>1, ReusedTakes
    <3> QED
      BY <1>1, <1>3, <2>1, <2>3, <3>1, <3>2 DEF x
  <2> QED
    BY <2>2, <2>3
<1> QED
  BY <1>2, <1>3

DidXuntext(p) ==
    /\ Gets(p, "xuntext") /\ UNCHANGED <<free, on, sp>>
    /\ LET x == at[p].x IN
       /\ x \in Text
       /\ \/ /\ text[x].count = 0
             /\ EntryIs(x, NoFile, text[x].count, text[x].ccount, TRUE, text[x].writ,
                        text[x].load, text[x].caddr, NoFile, NoFile)
             /\ itext' = [itext EXCEPT ![text[x].iptr] = NoText]
             /\ units' = IF text[x].caddr THEN units + 1 ELSE units
             /\ Moves(p, "irele") /\ cpu' = Idle /\ UNCHANGED proc
          \/ /\ text[x].count # 0
             /\ itext' = [itext EXCEPT ![proc[p].prog] = x]
             /\ Takes(p, x, proc[p].prog) /\ UNCHANGED units

LEMMA XuntextDoes ==
    ASSUME Shape, NEW p \in Proc, Xuntext(p)
    PROVE  DidXuntext(p)
<1> USE DEF DidXuntext
<1> DEFINE x == at[p].x
<1>1. p \in Actor /\ Typed /\ Gets(p, "xuntext") /\ UNCHANGED <<free, on, sp>> /\ at[p].pc = "xuntext"
  BY Actors DEF Xuntext, Shape, Gets, Runs
<1>2. x \in Text
  BY SMTT(30), <1>1 DEF Shape, ControlOf, Place
<1>3. CASE text[x].count = 0
  <2>1. /\ text' = [text EXCEPT ![x].iptr = NoFile, ![x].core = NoFile, ![x].swap = NoFile, ![x].lock = TRUE]
        /\ itext' = [itext EXCEPT ![text[x].iptr] = NoText]
        /\ units' = IF text[x].caddr THEN units + 1 ELSE units
        /\ Leave(p, "irele") /\ UNCHANGED proc
    BY <1>3 DEF Xuntext
  <2> HIDE DEF x
  <2>2. EntryIs(x, NoFile, text[x].count, text[x].ccount, TRUE, text[x].writ,
                text[x].load, text[x].caddr, NoFile, NoFile)
    BY <1>1, <1>2, <2>1, EntryCleared, ZenonT(60)
  <2>3. Moves(p, "irele") /\ cpu' = Idle
    BY <1>1, <2>1, GotoMoves DEF Location, Leave
  <2> QED
    BY ZenonT(60), <1>1, <1>2, <1>3, <2>1, <2>2, <2>3 DEF x
<1>4. CASE text[x].count # 0
  <2>1. itext' = [itext EXCEPT ![proc[p].prog] = x] /\ Reused(p, x, text) /\ UNCHANGED units
    BY <1>4 DEF Xuntext
  <2> HIDE DEF x
  <2>2. Takes(p, x, proc[p].prog)
    BY <1>2, <2>1, ReusedTakes
  <2> QED
    BY <1>1, <1>2, <1>4, <2>1, <2>2 DEF x
<1> QED
  BY ZenonT(60), <1>3, <1>4

DidXuntexted(p) ==
    /\ Runs(p, "irele") /\ at[p].x \in Text
    /\ itext' = [itext EXCEPT ![proc[p].prog] = at[p].x]
    /\ Takes(p, at[p].x, proc[p].prog) /\ Waken(at[p].x) /\ UNCHANGED <<free, units, sp>>

LEMMA XuntextedDoes ==
    ASSUME Shape, NEW p \in Proc, Xuntexted(p)
    PROVE  DidXuntexted(p)
<1> USE DEF DidXuntexted
<1>1. at[p].x \in Text
  BY SMTT(30) DEF Shape, ControlOf, Place, Xuntexted, Runs
<1> QED
  BY <1>1, ReusedTakes DEF Xuntexted

DidXexpand(p) ==
    /\ Runs(p, "xexpand")
    /\ LET x == at[p].x IN
       /\ x \in Text
       /\ \/ /\ units >= 1 /\ units' = units - 1 /\ UNCHANGED <<free, itext, proc, sp>>
             /\ \/ /\ text[x].load = TRUE
                   /\ EntryIs(x, text[x].iptr, text[x].count, text[x].ccount + 1, FALSE,
                              text[x].writ, text[x].load, TRUE, text[x].core, text[x].swap)
                   /\ Moves(p, at[p].after) /\ cpu' = p /\ Waken(x)
                \/ /\ text[x].load = FALSE
                   /\ EntryIs(x, text[x].iptr, text[x].count, text[x].ccount, text[x].lock,
                              text[x].writ, text[x].load, TRUE, text[x].core, text[x].swap)
                   /\ Moves(p, "xread") /\ cpu' = Idle /\ UNCHANGED on
          \/ /\ \E xp \in ToSet(free) \cup {NoText} :
                   Goes(p, "xuncore", x, xp, "xexpand", at[p].after)
             /\ cpu' = p /\ UNCHANGED Rest
          \/ /\ EntryIs(x, text[x].iptr, text[x].count, text[x].ccount, text[x].lock,
                        text[x].writ, text[x].load, FALSE, text[x].core, text[x].swap)
             /\ Moves(p, "swapout") /\ cpu' = p
             /\ ProcIs(p, proc[p].text, proc[p].prog, TRUE, TRUE)
             /\ UNCHANGED <<free, itext, units, on, sp>>

LEMMA XexpandDoes ==
    ASSUME Shape, NEW p \in Proc, Xexpand(p)
    PROVE  DidXexpand(p)
<1> USE DEF DidXexpand
<1> DEFINE x == at[p].x
<1>1. p \in Actor /\ p # Sched /\ Typed /\ Runs(p, "xexpand") /\ at[p].pc = "xexpand"
  BY Actors DEF Xexpand, Shape, Runs
<1>2. at[p].after \in {"again", "readi"} /\ x \in Text
  BY <1>1 DEF Shape, ControlOf, Place
<1>3. text[x].load \in BOOLEAN
  BY SMTT(30), <1>1, <1>2 DEF Typed, RawEntry
<1>4. CASE units >= 1 /\ text[x].load
  <2>1. /\ text' = [text EXCEPT ![x].caddr = TRUE, ![x].ccount = @ + 1, ![x].lock = FALSE]
        /\ Goto(p, at[p].after) /\ Waken(x) /\ units' = units - 1 /\ UNCHANGED <<free, itext, proc, sp>>
    BY <1>3, <1>4, CoreAssumption, <1>1 DEF Xexpand, Typed
  <2> HIDE DEF x
  <2>2. EntryIs(x, text[x].iptr, text[x].count, text[x].ccount + 1, FALSE,
                text[x].writ, text[x].load, TRUE, text[x].core, text[x].swap)
    BY <1>1, <1>2, <2>1, EntryExpanded, ZenonT(60)
  <2>3. Moves(p, at[p].after) /\ cpu' = p
    BY ZenonT(60), <1>1, <1>2, <2>1, GotoMoves DEF Location, Goto
  <2> QED
    BY ZenonT(60), <1>1, <1>2, <1>3, <1>4, <2>1, <2>2, <2>3 DEF x
<1>5. CASE units >= 1 /\ ~text[x].load
  <2>1. /\ text' = [text EXCEPT ![x].caddr = TRUE] /\ Leave(p, "xread") /\ UNCHANGED on
        /\ units' = units - 1 /\ UNCHANGED <<free, itext, proc, sp>>
    BY <1>3, <1>5, <1>1 DEF Xexpand, Typed
  <2> HIDE DEF x
  <2>2. EntryIs(x, text[x].iptr, text[x].count, text[x].ccount, text[x].lock,
                text[x].writ, text[x].load, TRUE, text[x].core, text[x].swap)
    BY <1>1, <1>2, <2>1, EntryGetsCore, ZenonT(60)
  <2>3. Moves(p, "xread") /\ cpu' = Idle
    BY ZenonT(60), <1>1, <1>2, <2>1, GotoMoves DEF Location, Leave
  <2> QED
    BY ZenonT(60), <1>1, <1>2, <1>3, <1>5, <2>1, <2>2, <2>3 DEF x
<1>6. CASE CallXuncore(p)
  BY <1>1, <1>2, <1>6, CallDoes
<1>7. CASE /\ text' = [text EXCEPT ![x].caddr = FALSE] /\ StartSwapout(p, p)
           /\ UNCHANGED <<free, itext, units, on, sp>>
  <2> HIDE DEF x
  <2>1. EntryIs(x, text[x].iptr, text[x].count, text[x].ccount, text[x].lock,
                text[x].writ, text[x].load, FALSE, text[x].core, text[x].swap)
    BY <1>1, <1>2, <1>7, EntryNoCore, Zenon
  <2>2. Moves(p, "swapout") /\ cpu' = p
    BY ZenonT(60), <1>1, <1>7, GotoMoves DEF StartSwapout, Goto, Location
  <2>3. ProcIs(p, proc[p].text, proc[p].prog, TRUE, TRUE)
    BY ZenonT(60), <1>1, <1>7, ProcMade DEF StartSwapout
  <2> QED
    BY <1>1, <1>2, <1>7, <2>1, <2>2, <2>3, Zenon DEF x
<1>8. units \in Int
  BY SMTT(30), <1>1 DEF Typed
<1> QED
  BY ZenonT(60), <1>4, <1>5, <1>6, <1>7, <1>8 DEF Xexpand

DidXread(p) ==
    /\ Runs(p, "xread") /\ UNCHANGED <<free, itext, units, proc, sp>>
    /\ LET x == at[p].x IN
       /\ x \in Text
       /\ EntryIs(x, text[x].iptr, text[x].count, text[x].ccount + 1, FALSE,
                  text[x].writ, text[x].load, text[x].caddr, text[x].swap, text[x].swap)
       /\ Waken(x) /\ Moves(p, at[p].after) /\ cpu' = p

LEMMA XreadDoes ==
    ASSUME Shape, NEW p \in Proc, Xread(p)
    PROVE  DidXread(p)
<1> USE DEF DidXread
<1> DEFINE x == at[p].x
<1>1. p \in Actor /\ Typed /\ at[p].pc = "xread"
  BY Actors DEF Xread, Shape, Runs
<1>2. at[p].after \in {"again", "readi"} /\ x \in Text
  BY <1>1 DEF Shape, ControlOf, Place
<1>3. text' = [text EXCEPT ![x].core = text[x].swap, ![x].ccount = @ + 1, ![x].lock = FALSE]
  BY DEF Xread
<1>4. Moves(p, at[p].after) /\ cpu' = p
  BY <1>1, <1>2, GotoMoves, Zenon DEF Xread, Location, Goto
<1> HIDE DEF x
<1>5. EntryIs(x, text[x].iptr, text[x].count, text[x].ccount + 1, FALSE,
              text[x].writ, text[x].load, text[x].caddr, text[x].swap, text[x].swap)
  BY <1>1, <1>2, <1>3, EntryRead, ZenonT(60)
<1> QED
  BY <1>2, <1>4, <1>5 DEF Xread, x

DidReadi(p) ==
    /\ Runs(p, "readi") /\ Moves(p, "reading") /\ cpu' = Idle
    /\ ProcIs(p, proc[p].text, proc[p].prog, proc[p].loaded, TRUE)
    /\ UNCHANGED <<text, free, itext, units, on, sp>>

LEMMA ReadiDoes ==
    ASSUME Shape, NEW p \in Proc, Readi(p)
    PROVE  DidReadi(p)
<1> USE DEF DidReadi
<1>1. p \in Actor /\ Typed
  BY Actors DEF Shape
<1> QED
  BY ZenonT(60), <1>1, GotoMoves, ProcMade DEF Readi, Leave, Location

DidReadIn(p) ==
    /\ Runs(p, "reading") /\ UNCHANGED <<free, itext, units, on, sp>>
    /\ Goes(p, "user", NoText, NoText, "user", "user") /\ cpu' = Idle
    /\ ProcIs(p, proc[p].text, proc[p].prog, proc[p].loaded, FALSE)
    /\ LET x == at[p].x IN
       /\ x \in Text
       /\ EntryIs(x, text[x].iptr, text[x].count, text[x].ccount, text[x].lock,
                  TRUE, FALSE, text[x].caddr, proc[p].prog, text[x].swap)

LEMMA ReadInDoes ==
    ASSUME Shape, NEW p \in Proc, ReadIn(p)
    PROVE  DidReadIn(p)
<1> USE DEF DidReadIn
<1> DEFINE x == at[p].x
<1>1. Typed /\ at[p].pc = "reading" /\ proc[p].prog \in File \cup {NoFile}
  BY DEF ReadIn, Shape, Runs, Typed, Process
<1>2. x \in Text
  BY <1>1 DEF Shape, ControlOf, Place
<1>3. text' = [text EXCEPT ![x].core = proc[p].prog, ![x].writ = TRUE, ![x].load = FALSE]
  BY DEF ReadIn
<1>4. Goes(p, "user", NoText, NoText, "user", "user") /\ cpu' = Idle
  BY <1>1, ReturnGoes DEF ReadIn, Return
<1>5. ProcIs(p, proc[p].text, proc[p].prog, proc[p].loaded, FALSE)
  BY <1>1, ProcMade, Zenon DEF ReadIn
<1> HIDE DEF x
<1>6. EntryIs(x, text[x].iptr, text[x].count, text[x].ccount, text[x].lock,
              TRUE, FALSE, text[x].caddr, proc[p].prog, text[x].swap)
  BY <1>1, <1>2, <1>3, EntryLoaded, Zenon
<1> QED
  BY <1>2, <1>4, <1>5, <1>6 DEF ReadIn, x

DidUnlockAgain(p) ==
    /\ Runs(p, "again") /\ UNCHANGED <<free, itext, units, proc, sp>>
    /\ Goes(p, "user", NoText, NoText, "user", "user") /\ cpu' = Idle
    /\ LET x == at[p].x IN
       /\ x \in Text /\ Waken(x)
       /\ EntryIs(x, text[x].iptr, text[x].count, text[x].ccount, FALSE,
                  text[x].writ, text[x].load, text[x].caddr, text[x].core, text[x].swap)

LEMMA UnlockAgainDoes ==
    ASSUME Shape, NEW p \in Proc, UnlockAgain(p)
    PROVE  DidUnlockAgain(p)
<1> USE DEF DidUnlockAgain
<1> DEFINE x == at[p].x
<1>1. Typed /\ at[p].pc = "again"
  BY DEF UnlockAgain, Shape, Runs
<1>2. x \in Text
  BY <1>1 DEF Shape, ControlOf, Place
<1>3. text' = [text EXCEPT ![x].lock = FALSE]
  BY DEF UnlockAgain
<1>4. Goes(p, "user", NoText, NoText, "user", "user") /\ cpu' = Idle
  BY <1>1, ReturnGoes, Zenon DEF UnlockAgain, Return
<1> HIDE DEF x
<1>5. EntryIs(x, text[x].iptr, text[x].count, text[x].ccount, FALSE,
              text[x].writ, text[x].load, text[x].caddr, text[x].core, text[x].swap)
  BY <1>1, <1>2, <1>3, EntryUnlocked, Zenon
<1> QED
  BY <1>2, <1>4, <1>5 DEF UnlockAgain, x

(* Whose image and text a swaps, when it does. *)
LEMMA WhoseProc ==
    ASSUME Shape, NEW a \in Actor, a = Sched => Place(Sched) \notin {"sched", "pick"}
    PROVE  Whose(a) \in Proc /\ Its(a) \in Text \cup {NoText} /\ Its(a) = proc[Whose(a)].text
<1>1. Whose(a) \in Proc
  BY Actors DEF Shape, SchedControl, Typed, Whose, Actor
<1> QED
  BY <1>1 DEF Its, Shape, Typed, Process

DidWaitLock(a) ==
    /\ Runs(a, at[a].pc) /\ Wants(a) \in Text /\ text[Wants(a)].lock
    /\ on' = [on EXCEPT ![a] = Wants(a)] /\ cpu' = Idle
    /\ UNCHANGED <<text, free, itext, units, proc, at, sp>>

LEMMA WaitLockDoes ==
    ASSUME Shape, NEW a \in Actor, WaitLock(a)
    PROVE  DidWaitLock(a)
<1> USE DEF DidWaitLock
<1>1. Wants(a) # NoText
  BY DEF WaitLock
<1>2. at[a].x \in Text \cup {NoText} /\ at[a].xp \in Text \cup {NoText}
  BY DEF Shape, Typed, Locals
<1>3. CASE at[a].pc \in {"xfree", "inlock", "xccdec"}
  <2>1. a = Sched => Place(Sched) \notin {"sched", "pick"}
    BY <1>3 DEF Place
  <2> QED
    BY <1>1, <1>3, <2>1, WhoseProc DEF WaitLock, Wants
<1>4. CASE at[a].pc \notin {"xfree", "inlock", "xccdec"}
  BY <1>1, <1>2, <1>4 DEF WaitLock, Wants
<1> QED
  BY <1>3, <1>4

(* xuncore goes on, and comes back. *)
LooksOn(a) == /\ \E xp \in ToSet(free) \cup {NoText} :
                    Goes(a, "xuncore", at[a].x, xp, at[a].ret, at[a].after)
              /\ cpu' = a
Resumes(a) == Goes(a, at[a].ret, at[a].x, NoText, "user", at[a].after) /\ cpu' = a

LEMMA LookDoes ==
    ASSUME Shape, NEW a \in Actor
    PROVE  /\ \A x : Look(a, Forw(x)) => LooksOn(a)
           /\ Unlook(a) => Resumes(a)
           /\ \A x : Uncored(a, x) => LooksOn(a) \/ Resumes(a)
<1>1. Typed /\ at[a].ret \in Location /\ "user" \in Location /\ "xuncore" \in Location
      /\ at[a].after \in {"user", "xalloc", "again", "readi", "sched"}
      /\ at[a].x \in Text \cup {NoText}
  BY DEF Shape, Typed, Locals, Location
<1>2. ASSUME NEW x, Look(a, Forw(x)) PROVE LooksOn(a)
  <2> DEFINE y == Forw(x)
  <2>1. y \in ToSet(free) \cup {NoText} /\ y \in Text \cup {NoText}
    BY <1>1, FreeTypes DEF Typed
  <2>2. at' = [at EXCEPT ![a].pc = "xuncore", ![a].xp = y] /\ cpu' = a
    BY <1>2 DEF Look
  <2> HIDE DEF y
  <2>3. Goes(a, "xuncore", at[a].x, y, at[a].ret, at[a].after)
    BY <1>1, <2>1, <2>2, PlaceGoes, Zenon
  <2> QED
    BY <2>1, <2>2, <2>3 DEF LooksOn
<1>3. ASSUME Unlook(a) PROVE Resumes(a)
  <2> DEFINE l == at[a].ret
  <2>1. at' = [at EXCEPT ![a].pc = l, ![a].xp = NoText, ![a].ret = "user"] /\ cpu' = a
    BY <1>3 DEF Unlook
  <2>2. l \in Location /\ NoText \in Text \cup {NoText}
    BY <1>1
  <2> HIDE DEF l
  <2>3. Goes(a, l, at[a].x, NoText, "user", at[a].after)
    BY <1>1, <2>1, <2>2, PlaceGoes, Zenon
  <2> QED
    BY <2>1, <2>3 DEF Resumes, l
<1> QED
  BY <1>2, <1>3 DEF Uncored

DidXuncore(a) ==
    /\ Runs(a, "xuncore") /\ UNCHANGED Rest
    /\ \/ LooksOn(a)
       \/ Resumes(a)
       \/ /\ at[a].xp \in Text /\ text[at[a].xp].iptr # NoFile
          /\ Moves(a, "xcore") /\ cpu' = a

LEMMA XuncoreDoes ==
    ASSUME Shape, NEW a \in Actor, Xuncore(a)
    PROVE  DidXuncore(a)
<1> USE DEF DidXuncore
<1>1. Typed /\ "xcore" \in Location /\ at[a].xp \in Text \cup {NoText}
  BY DEF Shape, Typed, Locals, Location
<1>2. at' = [at EXCEPT ![a].pc = "xcore"] => Moves(a, "xcore")
  BY ZenonT(60), <1>1, PlaceGoes
<1> QED
  BY <1>1, <1>2, LookDoes DEF Xuncore, Rest

DidXcore(a) ==
    /\ Gets(a, "xcore") /\ UNCHANGED <<free, itext, proc, on, sp>>
    /\ LET x == at[a].xp IN
       /\ x \in Text
       /\ \/ LooksOn(a) /\ UNCHANGED <<text, units>>
          \/ /\ text[x].ccount = 0 /\ text[x].caddr = TRUE /\ text[x].writ = TRUE
             /\ EntryIs(x, text[x].iptr, text[x].count, text[x].ccount, TRUE, text[x].writ,
                        text[x].load, text[x].caddr, text[x].core, text[x].swap)
             /\ Moves(a, "unwrite") /\ cpu' = Idle /\ UNCHANGED units
          \/ /\ text[x].ccount = 0 /\ text[x].caddr = TRUE /\ text[x].writ = FALSE
             /\ EntryIs(x, text[x].iptr, text[x].count, text[x].ccount, text[x].lock,
                        text[x].writ, text[x].load, FALSE, NoFile, text[x].swap)
             /\ units' = units + 1
             /\ LooksOn(a) \/ Resumes(a)

LEMMA XcoreDoes ==
    ASSUME Shape, NEW a \in Actor, Xcore(a)
    PROVE  DidXcore(a)
<1> USE DEF DidXcore
<1> DEFINE x == at[a].xp
<1>1. Typed /\ "unwrite" \in Location /\ Gets(a, "xcore") /\ at[a].pc = "xcore"
      /\ UNCHANGED <<free, itext, proc, on, sp>>
  BY DEF Shape, Location, Xcore, Gets, Runs
<1>2. x \in Text
  BY <1>1 DEF Shape, ControlOf, SchedControl, Actor
<1>3. text[x].caddr \in BOOLEAN /\ text[x].writ \in BOOLEAN
  BY <1>1, <1>2 DEF Typed, RawEntry
<1>4. CASE ~(text[x].ccount = 0 /\ text[x].caddr)
  <2>1. Look(a, Forw(x)) /\ UNCHANGED <<text, units>>
    BY <1>4 DEF Xcore
  <2> QED
    BY <1>1, <1>2, <2>1, LookDoes
<1>5. CASE text[x].ccount = 0 /\ text[x].caddr /\ text[x].writ
  <2>1. /\ text' = [text EXCEPT ![x].lock = TRUE] /\ cpu' = Idle /\ UNCHANGED units
        /\ at' = [at EXCEPT ![a].pc = "unwrite"]
    BY <1>5 DEF Xcore
  <2>2. Moves(a, "unwrite")
    BY ZenonT(60), <1>1, <2>1, PlaceGoes
  <2> HIDE DEF x
  <2>3. EntryIs(x, text[x].iptr, text[x].count, text[x].ccount, TRUE, text[x].writ,
                text[x].load, text[x].caddr, text[x].core, text[x].swap)
    BY <1>1, <1>2, <2>1, EntryLocked, ZenonT(60)
  <2> QED
    BY <1>1, <1>2, <1>3, <1>5, <2>1, <2>2, <2>3 DEF x
<1>6. CASE text[x].ccount = 0 /\ text[x].caddr /\ ~text[x].writ
  <2>1. /\ text' = [text EXCEPT ![x].caddr = FALSE, ![x].core = NoFile]
        /\ units' = units + 1 /\ Uncored(a, x)
    BY <1>6 DEF Xcore
  <2>2. LooksOn(a) \/ Resumes(a)
    BY <2>1, LookDoes
  <2> HIDE DEF x
  <2>3. EntryIs(x, text[x].iptr, text[x].count, text[x].ccount, text[x].lock,
                text[x].writ, text[x].load, FALSE, NoFile, text[x].swap)
    BY <1>1, <1>2, <2>1, EntryUncored, ZenonT(60)
  <2> QED
    BY <1>1, <1>2, <1>3, <1>6, <2>1, <2>2, <2>3 DEF x
<1> QED
  BY <1>4, <1>5, <1>6

DidUnwritten(a) ==
    /\ Runs(a, "unwrite") /\ UNCHANGED <<free, itext, proc, sp>>
    /\ units' = units + 1 /\ (LooksOn(a) \/ Resumes(a))
    /\ LET x == at[a].xp IN
       /\ x \in Text /\ Waken(x)
       /\ EntryIs(x, text[x].iptr, text[x].count, text[x].ccount, FALSE, FALSE,
                  text[x].load, FALSE, NoFile, text[x].core)

LEMMA UnwrittenDoes ==
    ASSUME Shape, NEW a \in Actor, Unwritten(a)
    PROVE  DidUnwritten(a)
<1> USE DEF DidUnwritten
<1> DEFINE x == at[a].xp
<1>1. Typed /\ at[a].pc = "unwrite"
  BY DEF Shape, Unwritten, Runs
<1>2. x \in Text
  BY SMTT(30), <1>1 DEF Shape, ControlOf, SchedControl, Actor
<1>3. text' = [text EXCEPT ![x].swap = text[x].core, ![x].writ = FALSE, ![x].caddr = FALSE,
                           ![x].core = NoFile, ![x].lock = FALSE]
  BY SMTT(30) DEF Unwritten
<1>4. LooksOn(a) \/ Resumes(a)
  BY LookDoes DEF Unwritten
<1> HIDE DEF x
<1>5. EntryIs(x, text[x].iptr, text[x].count, text[x].ccount, FALSE, FALSE,
              text[x].load, FALSE, NoFile, text[x].core)
  BY <1>1, <1>2, <1>3, EntrySaved, Zenon
<1> QED
  BY <1>2, <1>4, <1>5 DEF Unwritten, x

DidSwapout(a) ==
    /\ Runs(a, "swapout") /\ UNCHANGED Rest
    /\ \/ /\ Its(a) # NoText => text[Its(a)].ccount = 0
          /\ Moves(a, "image") /\ cpu' = Idle
       \/ /\ Its(a) \in Text /\ text[Its(a)].ccount # 0
          /\ Moves(a, "xccdec") /\ cpu' = a

LEMMA SwapoutDoes ==
    ASSUME Shape, NEW a \in Actor, Swapout(a)
    PROVE  DidSwapout(a)
<1> USE DEF DidSwapout
<1>1. Typed /\ at[a].pc = "swapout"
  BY DEF Shape, Swapout, Runs
<1>2. Its(a) \in Text \cup {NoText}
  BY <1>1, WhoseProc DEF Place
<1>3. "image" \in Location /\ "xccdec" \in Location
  BY DEF Location
<1>4. Leave(a, "image") => Moves(a, "image") /\ cpu' = Idle
  BY <1>1, <1>3, GotoMoves DEF Leave
<1>5. Goto(a, "xccdec") => Moves(a, "xccdec") /\ cpu' = a
  BY <1>1, <1>3, GotoMoves DEF Goto
<1> QED
  BY <1>2, <1>4, <1>5 DEF Swapout, Rest

DidXccdec(a) ==
    /\ Gets(a, "xccdec") /\ UNCHANGED <<free, itext, proc, on, sp>> /\ cpu' = Idle
    /\ LET x == Its(a) IN
       /\ x \in Text
       /\ \/ /\ text[x].ccount # 1 /\ UNCHANGED units
             /\ EntryIs(x, text[x].iptr, text[x].count, text[x].ccount - 1, text[x].lock,
                        text[x].writ, text[x].load, text[x].caddr, text[x].core, text[x].swap)
             /\ Moves(a, "image")
          \/ /\ text[x].ccount = 1 /\ text[x].writ = TRUE /\ UNCHANGED units
             /\ EntryIs(x, text[x].iptr, text[x].count, 0, TRUE, text[x].writ,
                        text[x].load, text[x].caddr, text[x].core, text[x].swap)
             /\ Moves(a, "outwrite")
          \/ /\ text[x].ccount = 1 /\ text[x].writ = FALSE /\ units' = units + 1
             /\ EntryIs(x, text[x].iptr, text[x].count, 0, text[x].lock, text[x].writ,
                        text[x].load, FALSE, NoFile, text[x].swap)
             /\ Moves(a, "image")

LEMMA XccdecDoes ==
    ASSUME Shape, NEW a \in Actor, Xccdec(a)
    PROVE  DidXccdec(a)
<1> USE DEF DidXccdec
<1> DEFINE x == Its(a)
<1>1. Typed /\ Gets(a, "xccdec") /\ at[a].pc = "xccdec"
      /\ UNCHANGED <<free, itext, proc, on, sp>>
  BY DEF Shape, Xccdec, Gets, Runs
<1>2. x \in Text
  <2>1. x \in Text \cup {NoText} /\ x = proc[Whose(a)].text
    BY <1>1, WhoseProc DEF Place
  <2>2. CASE a = Sched
    BY <1>1, <2>1, <2>2 DEF Shape, SchedControl
  <2>3. CASE a \in Proc
    BY <1>1, <2>1, <2>3, Actors DEF Shape, ControlOf, Whose
  <2> QED
    BY <2>2, <2>3 DEF Actor
<1>3. text[x].writ \in BOOLEAN
  BY <1>1, <1>2 DEF Typed, RawEntry
<1>4. /\ Leave(a, "image") => Moves(a, "image") /\ cpu' = Idle
      /\ Leave(a, "outwrite") => Moves(a, "outwrite") /\ cpu' = Idle
  BY <1>1, GotoMoves DEF Leave, Location
<1>5. CASE text[x].ccount # 1
  <2>1. text' = [text EXCEPT ![x].ccount = @ - 1] /\ Leave(a, "image") /\ UNCHANGED units
    BY <1>5 DEF Xccdec
  <2> HIDE DEF x
  <2>2. EntryIs(x, text[x].iptr, text[x].count, text[x].ccount - 1, text[x].lock,
                text[x].writ, text[x].load, text[x].caddr, text[x].core, text[x].swap)
    BY <1>1, <1>2, <2>1, EntryOut, Zenon
  <2> QED
    BY <1>1, <1>2, <1>4, <1>5, <2>1, <2>2 DEF x
<1>6. CASE text[x].ccount = 1 /\ text[x].writ
  <2>1. text' = [text EXCEPT ![x].ccount = 0, ![x].lock = TRUE] /\ Leave(a, "outwrite") /\ UNCHANGED units
    BY <1>6 DEF Xccdec
  <2> HIDE DEF x
  <2>2. EntryIs(x, text[x].iptr, text[x].count, 0, TRUE, text[x].writ,
                text[x].load, text[x].caddr, text[x].core, text[x].swap)
    BY <1>1, <1>2, <2>1, EntryLastOut, Zenon
  <2> QED
    BY <1>1, <1>2, <1>3, <1>4, <1>6, <2>1, <2>2 DEF x
<1>7. CASE text[x].ccount = 1 /\ ~text[x].writ
  <2>1. /\ text' = [text EXCEPT ![x].ccount = 0, ![x].caddr = FALSE, ![x].core = NoFile]
        /\ Leave(a, "image") /\ units' = units + 1
    BY <1>7 DEF Xccdec
  <2> HIDE DEF x
  <2>2. EntryIs(x, text[x].iptr, text[x].count, 0, text[x].lock, text[x].writ,
                text[x].load, FALSE, NoFile, text[x].swap)
    BY <1>1, <1>2, <2>1, EntryLastGone, Zenon
  <2> QED
    BY <1>1, <1>2, <1>3, <1>4, <1>7, <2>1, <2>2 DEF x
<1> QED
  BY <1>5, <1>6, <1>7

DidTextOut(a) ==
    /\ Runs(a, "outwrite") /\ UNCHANGED <<free, itext, proc, sp>>
    /\ units' = units + 1 /\ Moves(a, "image") /\ cpu' = Idle
    /\ LET x == Its(a) IN
       /\ x \in Text /\ Waken(x)
       /\ EntryIs(x, text[x].iptr, text[x].count, text[x].ccount, FALSE, FALSE,
                  text[x].load, FALSE, NoFile, text[x].core)

LEMMA TextOutDoes ==
    ASSUME Shape, NEW a \in Actor, TextOut(a)
    PROVE  DidTextOut(a)
<1> USE DEF DidTextOut
<1> DEFINE x == Its(a)
<1>1. Typed /\ at[a].pc = "outwrite"
  BY DEF Shape, TextOut, Runs
<1>2. x \in Text
  <2>1. x \in Text \cup {NoText} /\ x = proc[Whose(a)].text
    BY <1>1, WhoseProc DEF Place
  <2>2. CASE a = Sched
    BY <1>1, <2>1, <2>2 DEF Shape, SchedControl
  <2>3. CASE a \in Proc
    BY <1>1, <2>1, <2>3, Actors DEF Shape, ControlOf, Whose
  <2> QED
    BY <2>2, <2>3 DEF Actor
<1>3. text' = [text EXCEPT ![x].swap = text[x].core, ![x].writ = FALSE, ![x].caddr = FALSE,
                           ![x].core = NoFile, ![x].lock = FALSE]
  BY SMTT(30) DEF TextOut
<1>4. Moves(a, "image") /\ cpu' = Idle
  BY <1>1, GotoMoves DEF TextOut, Leave, Location
<1> HIDE DEF x
<1>5. EntryIs(x, text[x].iptr, text[x].count, text[x].ccount, FALSE, FALSE,
              text[x].load, FALSE, NoFile, text[x].core)
  BY <1>1, <1>2, <1>3, EntrySaved, Zenon
<1> QED
  BY <1>2, <1>4, <1>5 DEF TextOut, x

DidImageOut(a) ==
    /\ Runs(a, "image") /\ UNCHANGED <<free, itext>>
    /\ Whose(a) \in Proc /\ units' = units + Img[Whose(a)]
    /\ ProcIs(Whose(a), proc[Whose(a)].text, proc[Whose(a)].prog, FALSE, FALSE)
    /\ LET x == at[a].x IN
       \/ /\ at[a].after \in {"again", "readi"} /\ a \in Proc /\ x \in Text /\ Waken(x)
          /\ EntryIs(x, text[x].iptr, text[x].count, text[x].ccount, FALSE, text[x].writ,
                     text[x].load, text[x].caddr, text[x].core, text[x].swap)
       \/ at[a].after \notin {"again", "readi"} /\ UNCHANGED <<text, on>>
    /\ \/ a = Sched /\ Moves(Sched, "sched") /\ sp' = Idle /\ cpu' = Sched
       \/ a \in Proc /\ Moves(a, at[a].after) /\ sp' = sp /\ cpu' = Idle

LEMMA ImageOutDoes ==
    ASSUME Shape, NEW a \in Actor, ImageOut(a)
    PROVE  DidImageOut(a)
<1> USE DEF DidImageOut
<1> DEFINE x == at[a].x
<1>1. Typed /\ at[a].pc = "image" /\ Runs(a, "image")
  BY DEF Shape, ImageOut, Runs
<1>2. Whose(a) \in Proc
  BY <1>1, WhoseProc DEF Place
<1>3. ProcIs(Whose(a), proc[Whose(a)].text, proc[Whose(a)].prog, FALSE, FALSE)
  BY ZenonT(60), <1>1, <1>2, ProcMade DEF ImageOut
<1>4. \/ a = Sched /\ Moves(Sched, "sched") /\ sp' = Idle /\ cpu' = Sched
      \/ a \in Proc /\ Moves(a, at[a].after) /\ sp' = sp /\ cpu' = Idle
  <2>1. CASE a = Sched
    BY <1>1, <2>1, GotoMoves DEF ImageOut, Goto, Location
  <2>2. CASE a \in Proc
    <3>1. at[a].after \in Location /\ a # Sched
      BY <1>1, <2>2, Actors DEF Typed, Locals, Location
    <3> QED
      BY <1>1, <2>2, <3>1, GotoMoves DEF ImageOut, Leave
  <2> QED
    BY <2>1, <2>2 DEF Actor
<1>5. CASE at[a].after \in {"again", "readi"}
  <2>1. a \in Proc
    BY <1>5 DEF Actor, Shape, SchedControl
  <2>2. x \in Text
    BY <1>5, <2>1 DEF Shape, ControlOf
  <2>3. text' = [text EXCEPT ![x].lock = FALSE] /\ Waken(x)
    BY <1>5 DEF ImageOut
  <2> HIDE DEF x
  <2>4. EntryIs(x, text[x].iptr, text[x].count, text[x].ccount, FALSE, text[x].writ,
                text[x].load, text[x].caddr, text[x].core, text[x].swap)
    BY <1>1, <2>2, <2>3, EntryUnlocked, Zenon
  <2> QED
    BY <1>1, <1>2, <1>3, <1>4, <1>5, <2>1, <2>2, <2>3, <2>4 DEF x, ImageOut
<1>6. CASE at[a].after \notin {"again", "readi"}
  BY ZenonT(60), <1>1, <1>2, <1>3, <1>4, <1>6 DEF ImageOut
<1> QED
  BY <1>5, <1>6

DidBring(q) ==
    /\ Runs(Sched, "sched") /\ ~proc[q].loaded /\ on[q] = NoText /\ sp = Idle /\ sp' = q
    /\ Moves(Sched, "inlock") /\ cpu' = Sched
    /\ UNCHANGED <<text, free, itext, units, proc, on>>

LEMMA BringDoes ==
    ASSUME Shape, NEW q \in Proc, Bring(q)
    PROVE  DidBring(q)
<1> USE DEF DidBring
<1>1. Typed /\ sp = Idle
  BY DEF Shape, SchedControl, Bring, Runs, Place
<1> QED
  BY <1>1, GotoMoves, Actors DEF Bring, Ready, Goto, Location

DidSwapinLock ==
    /\ Gets(Sched, "inlock") /\ UNCHANGED <<free, itext, units, proc, on, sp>> /\ cpu' = Sched
    /\ sp \in Proc /\ Its(Sched) = proc[sp].text
    /\ LET x == proc[sp].text IN
       \/ x = NoText /\ Moves(Sched, "inimage") /\ UNCHANGED text
       \/ /\ x \in Text
          /\ EntryIs(x, text[x].iptr, text[x].count, text[x].ccount, TRUE, text[x].writ,
                     text[x].load, text[x].caddr, text[x].core, text[x].swap)
          /\ \/ text[x].caddr = FALSE /\ text[x].ccount = 0 /\ Moves(Sched, "intext")
             \/ (text[x].caddr = TRUE \/ text[x].ccount # 0) /\ Moves(Sched, "inimage")

LEMMA SwapinLockDoes ==
    ASSUME Shape, SwapinLock
    PROVE  DidSwapinLock
<1> USE DEF DidSwapinLock
<1> DEFINE x == proc[sp].text
<1>1. Typed /\ Gets(Sched, "inlock") /\ at[Sched].pc = "inlock" /\ Sched \in Actor
      /\ UNCHANGED <<free, itext, units, proc, on, sp>>
  BY Actors DEF Shape, SwapinLock, Gets, Runs
<1>2. sp \in Proc /\ Its(Sched) = x /\ x \in Text \cup {NoText}
  BY <1>1, WhoseProc DEF Place, Whose
<1>3. /\ Goto(Sched, "inimage") => Moves(Sched, "inimage") /\ cpu' = Sched
      /\ Goto(Sched, "intext") => Moves(Sched, "intext") /\ cpu' = Sched
  BY <1>1, GotoMoves DEF Location, Goto
<1>4. CASE x = NoText
  BY <1>1, <1>2, <1>3, <1>4 DEF SwapinLock
<1>5. CASE x # NoText
  <2>1. /\ text' = [text EXCEPT ![x].lock = TRUE] /\ x \in Text
        /\ Goto(Sched, IF ~text[x].caddr /\ text[x].ccount = 0 THEN "intext" ELSE "inimage")
        /\ text[x].caddr \in BOOLEAN
    BY <1>1, <1>2, <1>5 DEF SwapinLock, Typed, RawEntry
  <2> HIDE DEF x
  <2>2. EntryIs(x, text[x].iptr, text[x].count, text[x].ccount, TRUE, text[x].writ,
                text[x].load, text[x].caddr, text[x].core, text[x].swap)
    BY <1>1, <2>1, EntryLocked, Zenon
  <2>3. /\ \/ text[x].caddr = FALSE /\ text[x].ccount = 0 /\ Moves(Sched, "intext")
           \/ (text[x].caddr = TRUE \/ text[x].ccount # 0) /\ Moves(Sched, "inimage")
        /\ cpu' = Sched
    BY <1>3, <2>1
  <2> QED
    BY <1>1, <1>2, <2>1, <2>2, <2>3 DEF x
<1> QED
  BY <1>4, <1>5

(* What SwapinFails does. *)
Fails ==
    /\ UNCHANGED <<free, itext, proc>> /\ sp \in Proc
    /\ Goes(Sched, "pick", NoText, NoText, "user", "sched") /\ cpu' = Sched /\ sp' = Idle
    /\ units' = IF at[Sched].x = NoText THEN units ELSE units + 1
    /\ LET x == proc[sp].text IN
       \/ x = NoText /\ UNCHANGED <<text, on>>
       \/ /\ x \in Text /\ Waken(x)
          /\ EntryIs(x, text[x].iptr, text[x].count, text[x].ccount, FALSE, text[x].writ,
                     text[x].load, text[x].caddr, text[x].core, text[x].swap)

LEMMA SwapinFailsDoes ==
    ASSUME Shape, Place(Sched) \in {"intext", "inimage"}, SwapinFails
    PROVE  Fails
<1> DEFINE x == proc[sp].text
<1>1. Typed /\ Sched \in Actor /\ sp \in Proc /\ x \in Text \cup {NoText}
  BY Actors, WhoseProc DEF Shape, Whose
<1>2. Goes(Sched, "pick", NoText, NoText, "user", "sched")
  <2> DEFINE r == [Home(Sched) EXCEPT !.pc = "pick"]
  <2>1. at' = [at EXCEPT ![Sched] = r]
    BY DEF SwapinFails
  <2>2. r \in Locals /\ r.pc = "pick" /\ r.x = NoText /\ r.xp = NoText /\ r.ret = "user" /\ r.after = "sched"
    BY ZenonT(60) DEF Home, Top, Locals, Location
  <2> HIDE DEF r
  <2> QED
    BY <1>1, <2>1, <2>2, AtGoes
<1>3. CASE x = NoText
  BY <1>1, <1>2, <1>3 DEF SwapinFails, Fails
<1>4. CASE x # NoText
  <2>1. text' = [text EXCEPT ![x].lock = FALSE] /\ Waken(x) /\ x \in Text
    BY <1>1, <1>4 DEF SwapinFails
  <2> HIDE DEF x
  <2>2. EntryIs(x, text[x].iptr, text[x].count, text[x].ccount, FALSE, text[x].writ,
                text[x].load, text[x].caddr, text[x].core, text[x].swap)
    BY <1>1, <2>1, EntryUnlocked, Zenon
  <2> QED
    BY <1>1, <1>2, <2>1, <2>2 DEF SwapinFails, Fails, x
<1> QED
  BY <1>3, <1>4

(* xuncore is called for sched. *)
SchedCalls(l) == /\ \E xp \in ToSet(free) \cup {NoText} :
                       Goes(Sched, "xuncore", at[Sched].x, xp, l, at[Sched].after)
                 /\ cpu' = Sched /\ UNCHANGED Rest

DidSwapinText ==
    /\ Runs(Sched, "intext") /\ sp \in Proc /\ proc[sp].text \in Text
    /\ \/ /\ units >= 1 /\ units' = units - 1 /\ UNCHANGED <<text, free, itext, proc, on, sp>>
          /\ Goes(Sched, "inimage", proc[sp].text, at[Sched].xp, at[Sched].ret, at[Sched].after)
          /\ cpu' = Sched
       \/ SchedCalls("intext")
       \/ Fails

LEMMA SwapinTextDoes ==
    ASSUME Shape, SwapinText
    PROVE  DidSwapinText
<1> USE DEF DidSwapinText
<1>1. Typed /\ Runs(Sched, "intext") /\ at[Sched].pc = "intext" /\ Sched \in Actor
  BY Actors DEF Shape, SwapinText, Runs
<1>2. sp \in Proc /\ Its(Sched) = proc[sp].text /\ proc[sp].text \in Text
  BY <1>1, WhoseProc DEF Place, Whose, Shape, SchedControl
<1>3. CASE /\ units >= 1 /\ units' = units - 1
           /\ at' = [at EXCEPT ![Sched].pc = "inimage", ![Sched].tried = FALSE,
                               ![Sched].x = proc[sp].text] /\ cpu' = Sched
           /\ UNCHANGED <<text, free, itext, proc, on, sp>>
  <2>1. at[Sched].ret \in Location /\ "inimage" \in Location
    BY <1>1 DEF Typed, Locals, Location
  <2> DEFINE x == proc[sp].text
  <2>2. x \in Text \cup {NoText} /\ at' = [at EXCEPT ![Sched].pc = "inimage", ![Sched].tried = FALSE,
                               ![Sched].x = x]
    BY <1>2, <1>3
  <2> HIDE DEF x
  <2>3. Goes(Sched, "inimage", x, at[Sched].xp, at[Sched].ret, at[Sched].after)
    BY <1>1, <2>1, <2>2, PlaceGoes, Zenon
  <2> QED
    BY <1>1, <1>2, <1>3, <2>3 DEF x
<1>4. CASE CallXuncore(Sched)
  BY <1>1, <1>2, <1>4, CallDoes DEF SchedCalls
<1>5. CASE SwapinFails
  BY <1>1, <1>2, <1>5, SwapinFailsDoes DEF Place
<1> QED
  BY <1>3, <1>4, <1>5 DEF SwapinText

DidSwapinImage ==
    /\ Runs(Sched, "inimage") /\ sp \in Proc
    /\ LET x == proc[sp].text IN
       \/ /\ units >= Img[sp] /\ units' = units - Img[sp] /\ cpu' = Idle
          /\ UNCHANGED <<free, itext, proc, sp>>
          /\ \/ x = NoText /\ Moves(Sched, "inload") /\ UNCHANGED <<text, on>>
             \/ /\ x \in Text /\ at[Sched].x # NoText /\ text[x].load = FALSE
                /\ EntryIs(x, text[x].iptr, text[x].count, text[x].ccount, text[x].lock,
                           text[x].writ, text[x].load, TRUE, text[x].core, text[x].swap)
                /\ Moves(Sched, "inread") /\ UNCHANGED on
             \/ /\ x \in Text /\ (at[Sched].x # NoText => text[x].load = TRUE)
                /\ EntryIs(x, text[x].iptr, text[x].count, text[x].ccount + 1, FALSE, text[x].writ,
                           text[x].load, text[x].caddr \/ at[Sched].x # NoText,
                           text[x].core, text[x].swap)
                /\ Moves(Sched, "inload") /\ Waken(x)
       \/ SchedCalls("inimage")
       \/ Fails

LEMMA SwapinImageDoes ==
    ASSUME Shape, SwapinImage
    PROVE  DidSwapinImage
<1> USE DEF DidSwapinImage
<1> DEFINE x == proc[sp].text
<1>1. Typed /\ Runs(Sched, "inimage") /\ at[Sched].pc = "inimage" /\ Sched \in Actor
  BY Actors DEF Shape, SwapinImage, Runs
<1>2. sp \in Proc /\ Its(Sched) = x /\ x \in Text \cup {NoText}
  BY <1>1, WhoseProc DEF Place, Whose, Shape, SchedControl
<1>3. CASE CallXuncore(Sched)
  BY <1>1, <1>2, <1>3, CallDoes DEF SchedCalls
<1>4. CASE SwapinFails
  BY <1>1, <1>2, <1>4, SwapinFailsDoes DEF Place
<1>5. /\ Leave(Sched, "inload") => Moves(Sched, "inload") /\ cpu' = Idle
      /\ Leave(Sched, "inread") => Moves(Sched, "inread") /\ cpu' = Idle
  BY <1>1, GotoMoves DEF Location, Leave
<1> DEFINE Room == /\ units >= Img[sp] /\ units' = units - Img[sp]
                   /\ UNCHANGED <<free, itext, proc, sp>>
           got == at[Sched].x # NoText
<1>6. CASE Room /\ x = NoText /\ Leave(Sched, "inload") /\ UNCHANGED <<text, on>>
  BY ZenonT(60), <1>1, <1>2, <1>5, <1>6
<1>7. CASE /\ Room /\ x # NoText /\ got /\ ~text[x].load
           /\ text' = [text EXCEPT ![x].caddr = TRUE]
           /\ Leave(Sched, "inread") /\ UNCHANGED on
  <2>1. x \in Text /\ text[x].load = FALSE
    BY <1>1, <1>2, <1>7 DEF Typed, RawEntry
  <2> HIDE DEF x
  <2>2. EntryIs(x, text[x].iptr, text[x].count, text[x].ccount, text[x].lock,
                text[x].writ, text[x].load, TRUE, text[x].core, text[x].swap)
    BY <1>1, <2>1, <1>7, EntryGetsCore, Zenon
  <2> QED
    BY <1>1, <1>2, <1>5, <1>7, <2>1, <2>2 DEF x
<1>8. CASE /\ Room /\ x # NoText /\ (got => text[x].load)
           /\ text' = [text EXCEPT ![x].caddr = @ \/ got, ![x].ccount = @ + 1, ![x].lock = FALSE]
           /\ Waken(x) /\ Leave(Sched, "inload")
  <2>1. x \in Text /\ text[x].load \in BOOLEAN /\ got \in BOOLEAN
    BY <1>1, <1>2, <1>8 DEF Typed, RawEntry
  <2> HIDE DEF x, got
  <2>2. EntryIs(x, text[x].iptr, text[x].count, text[x].ccount + 1, FALSE,
                text[x].writ, text[x].load, text[x].caddr \/ got, text[x].core, text[x].swap)
    BY <1>1, <2>1, <1>8, EntryIn, ZenonT(60)
  <2> QED
    BY ZenonT(60), <1>1, <1>2, <1>5, <1>8, <2>1, <2>2 DEF x, got
<1> HIDE DEF Room
<1> QED
  BY ZenonT(60), <1>3, <1>4, <1>6, <1>7, <1>8 DEF SwapinImage, Room

DidSwapinRead ==
    /\ Runs(Sched, "inread") /\ UNCHANGED <<free, itext, units, proc, sp>>
    /\ sp \in Proc /\ Moves(Sched, "inload") /\ cpu' = Idle
    /\ LET x == proc[sp].text IN
       /\ x \in Text /\ at[Sched].x = x /\ Waken(x)
       /\ EntryIs(x, text[x].iptr, text[x].count, text[x].ccount + 1, FALSE,
                  text[x].writ, text[x].load, text[x].caddr, text[x].swap, text[x].swap)

LEMMA SwapinReadDoes ==
    ASSUME Shape, SwapinRead
    PROVE  DidSwapinRead
<1> USE DEF DidSwapinRead
<1> DEFINE x == proc[sp].text
<1>1. Typed /\ Runs(Sched, "inread") /\ at[Sched].pc = "inread" /\ Sched \in Actor
      /\ at[Sched].x # NoText
  BY Actors DEF Shape, SwapinRead, Runs, SchedControl, Place
<1>2. sp \in Proc /\ Its(Sched) = x /\ x \in Text \cup {NoText}
  BY <1>1, WhoseProc DEF Place, Whose
<1>3. at[Sched].x = x /\ x \in Text
  BY SMTT(30), <1>1, <1>2 DEF Shape, SchedControl
<1>4. Moves(Sched, "inload") /\ cpu' = Idle
  BY <1>1, GotoMoves DEF SwapinRead, Leave, Location
<1>5. text' = [text EXCEPT ![x].core = text[x].swap, ![x].ccount = @ + 1, ![x].lock = FALSE]
  BY DEF SwapinRead
<1> HIDE DEF x
<1>6. EntryIs(x, text[x].iptr, text[x].count, text[x].ccount + 1, FALSE,
              text[x].writ, text[x].load, text[x].caddr, text[x].swap, text[x].swap)
  BY <1>1, <1>3, <1>5, EntryRead, Zenon
<1> QED
  BY <1>1, <1>2, <1>3, <1>4, <1>6 DEF SwapinRead, x

DidSwapinDone ==
    /\ Runs(Sched, "inload") /\ UNCHANGED <<text, free, itext, units, on>>
    /\ sp \in Proc /\ ProcIs(sp, proc[sp].text, proc[sp].prog, TRUE, proc[sp].slock)
    /\ Goes(Sched, "sched", NoText, NoText, "user", "sched") /\ cpu' = Sched /\ sp' = Idle

LEMMA SwapinDoneDoes ==
    ASSUME Shape, SwapinDone
    PROVE  DidSwapinDone
<1> USE DEF DidSwapinDone
<1>1. Typed /\ Runs(Sched, "inload") /\ at[Sched].pc = "inload" /\ Sched \in Actor
  BY Actors DEF Shape, SwapinDone, Runs
<1>2. sp \in Proc
  BY <1>1, WhoseProc DEF Place, Whose
<1>3. ProcIs(sp, proc[sp].text, proc[sp].prog, TRUE, proc[sp].slock)
  BY <1>1, <1>2, ProcMade DEF SwapinDone
<1>4. /\ Home(Sched) \in Locals /\ Home(Sched).pc = "sched" /\ Home(Sched).x = NoText
      /\ Home(Sched).xp = NoText /\ Home(Sched).ret = "user" /\ Home(Sched).after = "sched"
  BY DEF Home, Top, Locals, Location
<1>5. at' = [at EXCEPT ![Sched] = Home(Sched)]
  BY DEF SwapinDone
<1> HIDE DEF Home
<1>6. Goes(Sched, "sched", NoText, NoText, "user", "sched")
  BY <1>1, <1>4, <1>5, AtGoes
<1> QED
  BY <1>1, <1>2, <1>3, <1>6 DEF SwapinDone

DidThrowOut(v) ==
    /\ Runs(Sched, "pick") /\ MayGo(v) /\ sp = Idle /\ sp' = v
    /\ Moves(Sched, "swapout") /\ cpu' = Sched
    /\ ProcIs(v, proc[v].text, proc[v].prog, FALSE, TRUE)
    /\ UNCHANGED <<text, free, itext, units, on>>

LEMMA ThrowOutDoes ==
    ASSUME Shape, NEW v \in Proc, ThrowOut(v)
    PROVE  DidThrowOut(v)
<1> USE DEF DidThrowOut
<1>1. Typed /\ Runs(Sched, "pick") /\ at[Sched].pc = "pick" /\ Sched \in Actor /\ sp = Idle
  BY Actors DEF Shape, ThrowOut, Runs, SchedControl, Place
<1>2. Moves(Sched, "swapout") /\ cpu' = Sched
  BY <1>1, GotoMoves DEF ThrowOut, StartSwapout, Goto, Location
<1>3. ProcIs(v, proc[v].text, proc[v].prog, FALSE, TRUE)
  BY ZenonT(60), <1>1, ProcMade, Actors DEF ThrowOut, StartSwapout
<1> QED
  BY <1>1, <1>2, <1>3 DEF ThrowOut

DidWaitCore ==
    Runs(Sched, "pick") /\ Moves(Sched, "sched") /\ cpu' = Idle /\ UNCHANGED Rest /\ sp = Idle

LEMMA WaitCoreDoes ==
    ASSUME Shape, WaitCore
    PROVE  DidWaitCore
<1> USE DEF DidWaitCore
<1>1. Typed /\ Runs(Sched, "pick") /\ at[Sched].pc = "pick" /\ Sched \in Actor /\ sp = Idle
  BY Actors DEF Shape, WaitCore, Runs, SchedControl, Place
<1> QED
  BY <1>1, GotoMoves DEF WaitCore, Leave, Location, Rest

-----------------------------------------------------------------------------
(* Every step keeps the shape: where each process is and what it sleeps    *)
(* for.                                                                    *)

LEMMA WakenFrame ==
    ASSUME Typed, NEW x, Waken(x)
    PROVE  /\ on' \in [Actor -> Text \cup {NoText}]
           /\ \A b \in Actor : on'[b] = IF on[b] = x THEN NoText ELSE on[b]
BY DEF Typed, Waken

LEMMA ShapeOf ==
    ASSUME Shape, NEW p \in Proc
    PROVE  /\ Typed /\ ControlOf(p) /\ p \in Actor /\ Sched \in Actor /\ p # Sched /\ at[p] \in Locals
           /\ proc[p] \in Process /\ SleepsFor(p)
BY Actors DEF Shape, Typed

LEMMA SchedFrame ==
    ASSUME Shape, Typed', SchedControl', on'[Sched] = NoText,
           \A b \in Proc : at'[b] = at[b] /\ on'[b] \in {on[b], NoText},
           \A q \in Proc : /\ proc'[q].text = proc[q].text /\ proc'[q].prog = proc[q].prog
                           /\ at[q].pc \in Out \cup {"reading"} => proc'[q] = proc[q]
                           /\ proc'[q].slock => at[q].pc \in Out \cup {"reading"} \/ (sp' = q /\ at'[Sched].pc \in Out)
    PROVE  Shape'
<1>1. \A q \in Proc : ControlOf(q)'
  <2> SUFFICES ASSUME NEW q \in Proc PROVE ControlOf(q)'
    OBVIOUS
  <2>1. ControlOf(q)
    BY DEF Shape
  <2> QED
    BY <2>1 DEF ControlOf, Place
<1>2. \A a \in Actor : SleepsFor(a)'
  <2> SUFFICES ASSUME NEW a \in Proc, on'[a] # NoText PROVE on'[a] = Wants(a)'
    BY DEF SleepsFor, Actor
  <2>1. on'[a] = on[a] /\ on[a] = Wants(a) /\ at'[a] = at[a] /\ proc'[a].text = proc[a].text
    BY Actors DEF Shape, SleepsFor
  <2> QED
    BY <2>1, Actors DEF Wants, Its, Whose
<1> QED
  BY <1>1, <1>2 DEF Shape


LEMMA ExecShape ==
    ASSUME Shape, NEW p \in Proc, NEW f \in Execs[p], Exec(p, f)
    PROVE  Shape' /\ Steps(p) /\ DidExec(p, f)
<1>1. DidExec(p, f)
  BY ExecDoes
<1>2. Typed /\ ControlOf(p) /\ p \in Actor /\ Sched \in Actor /\ p # Sched /\ at[p] \in Locals
  BY ShapeOf
<1>3. Steps(p) /\ on'[p] = NoText
  BY <1>1, <1>2 DEF DidExec, Runs, Gets, Steps, Goes, Moves, ProcIs, Takes
<1>4. Typed'
  BY <1>1, <1>2, Actors DEF DidExec, Typed, Goes, Moves, ProcIs, EntryIs, Takes, Runs, Gets
<1>5. ControlOf(p)'
  BY <1>1, <1>2 DEF DidExec, Runs, Gets, ControlOf, Place, Goes, Moves, ProcIs, Takes, Out, Inner
<1> QED
  BY <1>1, <1>3, <1>4, <1>5, ProcFrame

LEMMA GrowShape ==
    ASSUME Shape, NEW p \in Proc, Grow(p)
    PROVE  Shape' /\ Steps(p) /\ DidGrow(p)
<1>1. DidGrow(p)
  BY GrowDoes
<1>2. Typed /\ ControlOf(p) /\ p \in Actor /\ Sched \in Actor /\ p # Sched /\ at[p] \in Locals
  BY ShapeOf
<1>3. Steps(p) /\ on'[p] = NoText
  BY <1>1, <1>2 DEF DidGrow, Runs, Gets, Steps, Goes, Moves, ProcIs, Takes, Rest
<1>4. Typed'
  BY <1>1, <1>2, Actors DEF DidGrow, Typed, Goes, Moves, ProcIs, EntryIs, Takes, Runs, Gets, Rest
<1>5. ControlOf(p)'
  BY <1>1, <1>2 DEF DidGrow, Runs, Gets, ControlOf, Place, Goes, Moves, ProcIs, Takes, Out, Inner, Rest
<1> QED
  BY <1>1, <1>3, <1>4, <1>5, ProcFrame

LEMMA XfreeShape ==
    ASSUME Shape, NEW p \in Proc, Xfree(p)
    PROVE  Shape' /\ Steps(p) /\ DidXfree(p)
<1>1. DidXfree(p)
  BY XfreeDoes
<1>2. Typed /\ ControlOf(p) /\ p \in Actor /\ Sched \in Actor /\ p # Sched /\ at[p] \in Locals
  BY ShapeOf
<1>3. Steps(p) /\ on'[p] = NoText
  BY <1>1, <1>2, FreeTypes DEF DidXfree, Runs, Gets, Steps, Goes, Moves, ProcIs, Takes
<1>4. Typed'
  <2>1. proc' \in [Proc -> Process] /\ at' \in [Actor -> Locals] /\ text' \in [Text -> RawEntry]
    BY <1>1, <1>2 DEF DidXfree, Typed, Goes, Moves, ProcIs, EntryIs
  <2>2. free' \in Seq(Text)
    BY <1>1, <1>2, FreeTypes DEF DidXfree, Typed
  <2> QED
    BY <1>1, <1>2, <2>1, <2>2 DEF DidXfree, Typed
<1>5. ControlOf(p)'
  BY <1>1, <1>2 DEF DidXfree, Runs, Gets, ControlOf, Place, Goes, Moves, ProcIs, Takes, Out, Inner
<1> QED
  BY <1>1, <1>3, <1>4, <1>5, ProcFrame

LEMMA ExpandShape ==
    ASSUME Shape, NEW p \in Proc, Expand(p)
    PROVE  Shape' /\ Steps(p) /\ DidExpand(p)
<1>1. DidExpand(p)
  BY ExpandDoes
<1>2. Typed /\ ControlOf(p) /\ p \in Actor /\ Sched \in Actor /\ p # Sched /\ at[p] \in Locals
  BY ShapeOf
<1>3. Steps(p) /\ on'[p] = NoText
  BY <1>1, <1>2 DEF DidExpand, Runs, Gets, Steps, Goes, Moves, ProcIs, Takes, Rest
<1>4. Typed'
  BY <1>1, <1>2, Actors DEF DidExpand, Typed, Goes, Moves, ProcIs, EntryIs, Takes, Runs, Gets, Rest
<1>5. ControlOf(p)'
  BY <1>1, <1>2 DEF DidExpand, Runs, Gets, ControlOf, Place, Goes, Moves, ProcIs, Takes, Out, Inner, Rest
<1> QED
  BY <1>1, <1>3, <1>4, <1>5, ProcFrame

LEMMA AttachShape ==
    ASSUME Shape, NEW p \in Proc, Attach(p)
    PROVE  Shape' /\ Steps(p) /\ DidAttach(p)
<1>1. DidAttach(p)
  BY AttachDoes
<1>2. Typed /\ ControlOf(p) /\ p \in Actor /\ Sched \in Actor /\ p # Sched /\ at[p] \in Locals
  BY SMTT(30), ShapeOf
<1>3. Steps(p) /\ on'[p] = NoText
  BY <1>1, <1>2, FreeTypes DEF DidAttach, Runs, Gets, Steps, Goes, Moves, ProcIs, Takes
<1>4. Typed'
  <2>1. proc' \in [Proc -> Process] /\ at' \in [Actor -> Locals] /\ text' \in [Text -> RawEntry]
    BY <1>1, <1>2 DEF DidAttach, Typed, Goes, ProcIs, EntryIs
  <2>2. free' \in Seq(Text)
    BY ZenonT(60), <1>1, <1>2, FreeTypes DEF DidAttach, Typed
  <2>3. cpu' \in Actor \cup {Idle}
    BY ZenonT(60), <1>1, <1>2 DEF DidAttach
  <2> QED
    BY <1>1, <1>2, <2>1, <2>2, <2>3 DEF DidAttach, Typed
<1>5. ControlOf(p)'
  <2>1. /\ at[p].pc = "xalloc" /\ at[p].after = "xalloc" /\ proc[p].text = NoText /\ proc[p].loaded
        /\ proc[p].slock => sp = p /\ at[Sched].pc \in Out
        /\ at'[Sched] = at[Sched] /\ sp' = sp
        /\ proc'[p].loaded = proc[p].loaded /\ proc'[p].slock = proc[p].slock
    BY <1>1, <1>2, <1>3 DEF DidAttach, Runs, ControlOf, Place, Steps, ProcIs, Out, Inner, Takes
  <2>2. \/ at'[p].pc = "user" /\ at'[p].after = "user" /\ (proc'[p].text = NoText \/ proc'[p].prog # NoFile)
        \/ /\ at'[p].pc = "xwait" /\ at'[p].after = "xalloc" /\ at'[p].x \in Text
           /\ proc'[p].text = NoText /\ proc'[p].prog # NoFile
        \/ /\ at'[p].pc = "xexpand" /\ at'[p].after = "again" /\ at'[p].x \in Text
           /\ proc'[p].text = at'[p].x /\ proc'[p].prog # NoFile
    BY ZenonT(60), <1>1, <1>2, <2>1, Actors DEF DidAttach, Goes, ProcIs
  <2> QED
    BY <2>1, <2>2 DEF ControlOf, Place, Out, Inner
<1> QED
  BY <1>1, <1>3, <1>4, <1>5, ProcFrame

LEMMA XwaitedShape ==
    ASSUME Shape, NEW p \in Proc, Xwaited(p)
    PROVE  Shape' /\ Steps(p) /\ DidXwaited(p)
<1>1. DidXwaited(p)
  BY XwaitedDoes
<1>2. Typed /\ ControlOf(p) /\ p \in Actor /\ Sched \in Actor /\ p # Sched /\ at[p] \in Locals
  BY ShapeOf
<1>3. Steps(p) /\ on'[p] = NoText
  BY <1>1, <1>2 DEF DidXwaited, Runs, Gets, Steps, Goes, Moves, ProcIs, Takes, Rest
<1>4. Typed'
  BY <1>1, <1>2, Actors DEF DidXwaited, Typed, Goes, Moves, ProcIs, EntryIs, Takes, Runs, Gets, Rest
<1>5. ControlOf(p)'
  BY <1>1, <1>2 DEF DidXwaited, Runs, Gets, ControlOf, Place, Goes, Moves, ProcIs, Takes, Out, Inner, Rest
<1> QED
  BY <1>1, <1>3, <1>4, <1>5, ProcFrame

LEMMA AllotShape ==
    ASSUME Shape, NEW p \in Proc, Allot(p)
    PROVE  Shape' /\ Steps(p) /\ DidAllot(p)
<1>1. DidAllot(p)
  BY AllotDoes
<1>2. Typed /\ ControlOf(p) /\ p \in Actor /\ Sched \in Actor /\ p # Sched /\ at[p] \in Locals
  BY ShapeOf
<1>3. Steps(p) /\ on'[p] = NoText
  BY <1>1, <1>2, FreeTypes DEF DidAllot, Runs, Gets, Steps, Goes, Moves, ProcIs, Takes
<1>4. Typed'
  <2>1. proc' \in [Proc -> Process] /\ at' \in [Actor -> Locals] /\ text' \in [Text -> RawEntry]
    BY <1>1, <1>2 DEF DidAllot, Typed, Goes, ProcIs, EntryIs, Takes
  <2>2. free' \in Seq(Text)
    BY <1>1, <1>2, FreeTypes DEF DidAllot, Typed
  <2>3. itext' \in [File -> Text \cup {NoText}]
    BY <1>1, <1>2 DEF DidAllot, Typed
  <2>4. cpu' \in Actor \cup {Idle}
    BY <1>1, <1>2 DEF DidAllot, Takes
  <2> QED
    BY <1>1, <1>2, <2>1, <2>2, <2>3, <2>4 DEF DidAllot, Typed
<1>5. ControlOf(p)'
  <2>1. /\ at[p].pc = "xalloc" /\ at[p].after = "xalloc" /\ proc[p].text = NoText /\ proc[p].loaded
        /\ proc[p].slock => sp = p /\ at[Sched].pc \in Out
        /\ at'[Sched] = at[Sched] /\ sp' = sp
        /\ proc'[p].loaded = proc[p].loaded /\ proc'[p].slock = proc[p].slock
    BY <1>1, <1>2, <1>3 DEF DidAllot, Runs, ControlOf, Place, Steps, ProcIs, Out, Inner, Takes
  <2>2. \/ at'[p].pc = "user" /\ at'[p].after = "user" /\ proc'[p].text = NoText
        \/ /\ at'[p].pc = "xuntext" /\ at'[p].after = "xalloc" /\ at'[p].x \in Text
           /\ proc'[p].text = NoText /\ proc'[p].prog # NoFile
        \/ /\ at'[p].pc = "xexpand" /\ at'[p].after = "readi" /\ at'[p].x \in Text
           /\ proc'[p].text = at'[p].x /\ proc'[p].prog # NoFile
    BY <1>1, <1>2, <2>1, Actors DEF DidAllot, Goes, ProcIs, Takes
  <2> QED
    BY <2>1, <2>2 DEF ControlOf, Place, Out, Inner
<1> QED
  BY <1>1, <1>3, <1>4, <1>5, ProcFrame

LEMMA XuntextShape ==
    ASSUME Shape, NEW p \in Proc, Xuntext(p)
    PROVE  Shape' /\ Steps(p) /\ DidXuntext(p)
<1>1. DidXuntext(p)
  BY XuntextDoes
<1>2. Typed /\ ControlOf(p) /\ p \in Actor /\ Sched \in Actor /\ p # Sched /\ at[p] \in Locals
  BY ShapeOf
<1>3. Steps(p) /\ on'[p] = NoText
  BY ZenonT(60), <1>1, <1>2 DEF DidXuntext, Runs, Gets, Steps, Goes, Moves, ProcIs, Takes
<1>4. Typed'
  BY <1>1, <1>2, Actors DEF DidXuntext, Typed, Goes, Moves, ProcIs, EntryIs, Takes, Runs, Gets
<1>5. ControlOf(p)'
  BY ZenonT(60), <1>1, <1>2 DEF DidXuntext, Runs, Gets, ControlOf, Place, Goes, Moves, ProcIs, Takes, Out, Inner
<1> QED
  BY <1>1, <1>3, <1>4, <1>5, ProcFrame

LEMMA XuntextedShape ==
    ASSUME Shape, NEW p \in Proc, Xuntexted(p)
    PROVE  Shape' /\ Steps(p) /\ DidXuntexted(p)
<1>1. DidXuntexted(p)
  BY XuntextedDoes
<1>2. Typed /\ ControlOf(p) /\ p \in Actor /\ Sched \in Actor /\ p # Sched /\ at[p] \in Locals
  BY ShapeOf
<1>3. Steps(p) /\ on'[p] = NoText
  BY <1>1, <1>2, WakenFrame DEF DidXuntexted, Runs, Gets, Steps, Goes, Moves, ProcIs, Takes
<1>4. Typed'
  BY ZenonT(60), <1>1, <1>2, WakenFrame, Actors DEF DidXuntexted, Typed, Goes, Moves, ProcIs, EntryIs, Takes, Runs, Gets
<1>5. ControlOf(p)'
  BY <1>1, <1>2 DEF DidXuntexted, Runs, Gets, ControlOf, Place, Goes, Moves, ProcIs, Takes, Out, Inner
<1> QED
  BY <1>1, <1>3, <1>4, <1>5, ProcFrame

LEMMA XexpandShape ==
    ASSUME Shape, NEW p \in Proc, Xexpand(p)
    PROVE  Shape' /\ Steps(p) /\ DidXexpand(p)
<1>1. DidXexpand(p)
  BY XexpandDoes
<1>2. Typed /\ ControlOf(p) /\ p \in Actor /\ Sched \in Actor /\ p # Sched /\ at[p] \in Locals
  BY ShapeOf
<1>3. Steps(p) /\ on'[p] = NoText
  BY <1>1, <1>2, WakenFrame DEF DidXexpand, Runs, Gets, Steps, Goes, Moves, ProcIs, Takes, Rest
<1>4. Typed'
  BY <1>1, <1>2, WakenFrame, Actors DEF DidXexpand, Typed, Goes, Moves, ProcIs, EntryIs, Takes, Runs, Gets, Rest
<1>5. ControlOf(p)'
  BY ZenonT(60), <1>1, <1>2 DEF DidXexpand, Runs, Gets, ControlOf, Place, Goes, Moves, ProcIs, Takes, Out, Inner, Rest
<1> QED
  BY <1>1, <1>3, <1>4, <1>5, ProcFrame

LEMMA XreadShape ==
    ASSUME Shape, NEW p \in Proc, Xread(p)
    PROVE  Shape' /\ Steps(p) /\ DidXread(p)
<1>1. DidXread(p)
  BY XreadDoes
<1>2. Typed /\ ControlOf(p) /\ p \in Actor /\ Sched \in Actor /\ p # Sched /\ at[p] \in Locals
  BY ShapeOf
<1>3. Steps(p) /\ on'[p] = NoText
  BY <1>1, <1>2, WakenFrame DEF DidXread, Runs, Gets, Steps, Goes, Moves, ProcIs, Takes
<1>4. Typed'
  BY <1>1, <1>2, WakenFrame, Actors DEF DidXread, Typed, Goes, Moves, ProcIs, EntryIs, Takes, Runs, Gets
<1>5. ControlOf(p)'
  BY <1>1, <1>2 DEF DidXread, Runs, Gets, ControlOf, Place, Goes, Moves, ProcIs, Takes, Out, Inner
<1> QED
  BY <1>1, <1>3, <1>4, <1>5, ProcFrame

LEMMA ReadiShape ==
    ASSUME Shape, NEW p \in Proc, Readi(p)
    PROVE  Shape' /\ Steps(p) /\ DidReadi(p)
<1>1. DidReadi(p)
  BY ReadiDoes
<1>2. Typed /\ ControlOf(p) /\ p \in Actor /\ Sched \in Actor /\ p # Sched /\ at[p] \in Locals
  BY ShapeOf
<1>3. Steps(p) /\ on'[p] = NoText
  BY <1>1, <1>2 DEF DidReadi, Runs, Gets, Steps, Goes, Moves, ProcIs, Takes
<1>4. Typed'
  BY <1>1, <1>2, Actors DEF DidReadi, Typed, Goes, Moves, ProcIs, EntryIs, Takes, Runs, Gets
<1>5. ControlOf(p)'
  BY <1>1, <1>2 DEF DidReadi, Runs, Gets, ControlOf, Place, Goes, Moves, ProcIs, Takes, Out, Inner
<1> QED
  BY <1>1, <1>3, <1>4, <1>5, ProcFrame

LEMMA ReadInShape ==
    ASSUME Shape, NEW p \in Proc, ReadIn(p)
    PROVE  Shape' /\ Steps(p) /\ DidReadIn(p)
<1>1. DidReadIn(p)
  BY ReadInDoes
<1>2. Typed /\ ControlOf(p) /\ p \in Actor /\ Sched \in Actor /\ p # Sched /\ at[p] \in Locals
  BY ShapeOf
<1>3. Steps(p) /\ on'[p] = NoText
  BY <1>1, <1>2 DEF DidReadIn, Runs, Gets, Steps, Goes, Moves, ProcIs, Takes
<1>4. Typed'
  BY <1>1, <1>2, Actors DEF DidReadIn, Typed, Goes, Moves, ProcIs, EntryIs, Takes, Runs, Gets
<1>5. ControlOf(p)'
  BY <1>1, <1>2 DEF DidReadIn, Runs, Gets, ControlOf, Place, Goes, Moves, ProcIs, Takes, Out, Inner
<1> QED
  BY <1>1, <1>3, <1>4, <1>5, ProcFrame

LEMMA UnlockAgainShape ==
    ASSUME Shape, NEW p \in Proc, UnlockAgain(p)
    PROVE  Shape' /\ Steps(p) /\ DidUnlockAgain(p)
<1>1. DidUnlockAgain(p)
  BY UnlockAgainDoes
<1>2. Typed /\ ControlOf(p) /\ p \in Actor /\ Sched \in Actor /\ p # Sched /\ at[p] \in Locals
  BY ShapeOf
<1>3. Steps(p) /\ on'[p] = NoText
  BY <1>1, <1>2, WakenFrame DEF DidUnlockAgain, Runs, Gets, Steps, Goes, Moves, ProcIs, Takes
<1>4. Typed'
  BY <1>1, <1>2, WakenFrame, Actors DEF DidUnlockAgain, Typed, Goes, Moves, ProcIs, EntryIs, Takes, Runs, Gets
<1>5. ControlOf(p)'
  BY <1>1, <1>2 DEF DidUnlockAgain, Runs, Gets, ControlOf, Place, Goes, Moves, ProcIs, Takes, Out, Inner
<1> QED
  BY <1>1, <1>3, <1>4, <1>5, ProcFrame

(* What a step of sched leaves alone. *)
SchedSteps ==
    /\ on'[Sched] = NoText
    /\ \A q \in Proc : /\ at'[q] = at[q] /\ on'[q] \in {on[q], NoText}
                     /\ proc'[q].text = proc[q].text /\ proc'[q].prog = proc[q].prog

(* The steps of sched that write no process entry. *)
LEMMA SchedStays ==
    ASSUME Shape, Typed', SchedControl', on'[Sched] = NoText,
           \A b \in Proc : at'[b] = at[b] /\ on'[b] \in {on[b], NoText},
           proc' = proc,
           at[Sched].pc \notin Out \/ (sp' = sp /\ at'[Sched].pc \in Out)
    PROVE  Shape' /\ SchedSteps
<1>1. ASSUME NEW q \in Proc
      PROVE  proc[q].slock => at[q].pc \in Out \cup {"reading"} \/ (sp' = q /\ at'[Sched].pc \in Out)
  BY DEF Shape, ControlOf
<1> QED
  BY <1>1, SchedFrame DEF SchedSteps

LEMMA ShapeOfSched ==
    ASSUME Shape
    PROVE  /\ Typed /\ SchedControl /\ Sched \in Actor /\ Sched \notin Proc /\ at[Sched] \in Locals
           /\ \A p \in Proc : p \in Actor /\ p # Sched
BY Actors DEF Shape, Typed

LEMMA WaitLockShape ==
    ASSUME Shape, NEW a \in Actor, WaitLock(a)
    PROVE  Shape'
<1>1. DidWaitLock(a)
  BY WaitLockDoes
<1>2. Typed'
  BY <1>1 DEF DidWaitLock, Shape, Typed
<1>3. UNCHANGED <<proc, at, sp>>
  BY <1>1 DEF DidWaitLock
<1>4. \A p \in Proc : ControlOf(p)'
  BY <1>3 DEF Shape, ControlOf, Place
<1>5. SchedControl'
  BY <1>3 DEF Shape, SchedControl, Place, Its, Whose
<1>6. ASSUME NEW b \in Actor PROVE SleepsFor(b)'
  <2>1. Wants(b)' = Wants(b)
    BY <1>3 DEF Wants, Its, Whose
  <2>2. on'[b] \in {on[b], Wants(b)}
    BY <1>1 DEF DidWaitLock, Shape, Typed
  <2> QED
    BY <2>1, <2>2 DEF SleepsFor, Shape
<1> QED
  BY <1>2, <1>4, <1>5, <1>6 DEF Shape


LEMMA XuncoreShape ==
    ASSUME Shape, NEW a \in Actor, Xuncore(a)
    PROVE  /\ Shape' /\ DidXuncore(a)
           /\ (a \in Proc => Steps(a)) /\ (a = Sched => SchedSteps)
<1>1. DidXuncore(a)
  BY XuncoreDoes
<1>2. Typed'
  BY <1>1, ShapeOfSched, CoreAssumption DEF DidXuncore, Typed, Goes, Moves, LooksOn, Resumes, ProcIs, EntryIs, Runs, Gets, Rest
<1>3. CASE a \in Proc
  <2>1. Typed /\ ControlOf(a) /\ a \in Actor /\ Sched \in Actor /\ a # Sched /\ at[a] \in Locals
    BY <1>3, ShapeOf
  <2>2. Steps(a) /\ on'[a] = NoText
    BY <1>1, <1>3, <2>1 DEF DidXuncore, Runs, Gets, Steps, Goes, Moves, LooksOn, Resumes, ProcIs, Whose, Rest
  <2>3. ControlOf(a)'
    BY <1>1, <1>3, <2>1, Actors, FreeTypes DEF DidXuncore, Runs, Gets, ControlOf, Place, Goes, Moves, LooksOn, Resumes, ProcIs, Out, Inner, Its, Whose, Typed, Rest
  <2> QED
    BY <1>1, <1>2, <1>3, <2>1, <2>2, <2>3, ProcFrame
<1>4. CASE a = Sched
  <2>1. Typed /\ SchedControl /\ Sched \in Actor /\ Sched \notin Proc /\ at[Sched] \in Locals
        /\ \A p \in Proc : p \in Actor /\ p # Sched
    BY ShapeOfSched
  <2>2. on'[Sched] = NoText /\ \A b \in Proc : at'[b] = at[b] /\ on'[b] \in {on[b], NoText}
    BY <1>1, <1>4, <2>1 DEF DidXuncore, Runs, Gets, Goes, Moves, LooksOn, Resumes, Rest
  <2>3. SchedControl'
    BY <1>1, <1>4, <2>1, Actors DEF DidXuncore, Runs, Gets, SchedControl, Place, Goes, Moves, LooksOn, Resumes, ProcIs, Out, Inner, Its, Whose, Rest
  <2>4. proc' = proc /\ at[Sched].pc \notin Out
    BY <1>1, <1>4, <2>1 DEF DidXuncore, Runs, Gets, Goes, Moves, LooksOn, Resumes, ProcIs, Out, Whose, Rest
  <2> QED
    BY <1>1, <1>2, <1>4, <2>1, <2>2, <2>3, <2>4, SchedStays
<1> QED
  BY <1>3, <1>4 DEF Actor

LEMMA XcoreShape ==
    ASSUME Shape, NEW a \in Actor, Xcore(a)
    PROVE  /\ Shape' /\ DidXcore(a)
           /\ (a \in Proc => Steps(a)) /\ (a = Sched => SchedSteps)
<1>1. DidXcore(a)
  BY XcoreDoes
<1>2. Typed'
  BY <1>1, ShapeOfSched, CoreAssumption DEF DidXcore, Typed, Goes, Moves, LooksOn, Resumes, ProcIs, EntryIs, Runs, Gets
<1>3. CASE a \in Proc
  <2>1. Typed /\ ControlOf(a) /\ a \in Actor /\ Sched \in Actor /\ a # Sched /\ at[a] \in Locals
    BY <1>3, ShapeOf
  <2>2. Steps(a) /\ on'[a] = NoText
    BY <1>1, <1>3, <2>1 DEF DidXcore, Runs, Gets, Steps, Goes, Moves, LooksOn, Resumes, ProcIs, Whose
  <2>3. ControlOf(a)'
    BY ZenonT(60), <1>1, <1>3, <2>1, Actors, FreeTypes DEF DidXcore, Runs, Gets, ControlOf, Place, Goes, Moves, LooksOn, Resumes, ProcIs, Out, Inner, Its, Whose, Typed
  <2> QED
    BY <1>1, <1>2, <1>3, <2>1, <2>2, <2>3, ProcFrame
<1>4. CASE a = Sched
  <2>1. Typed /\ SchedControl /\ Sched \in Actor /\ Sched \notin Proc /\ at[Sched] \in Locals
        /\ \A p \in Proc : p \in Actor /\ p # Sched
    BY ShapeOfSched
  <2>2. on'[Sched] = NoText /\ \A b \in Proc : at'[b] = at[b] /\ on'[b] \in {on[b], NoText}
    BY ZenonT(60), <1>1, <1>4, <2>1 DEF DidXcore, Runs, Gets, Goes, Moves, LooksOn, Resumes
  <2>3. SchedControl'
    BY ZenonT(60), <1>1, <1>4, <2>1, Actors DEF DidXcore, Runs, Gets, SchedControl, Place, Goes, Moves, LooksOn, Resumes, ProcIs, Out, Inner, Its, Whose
  <2>4. proc' = proc /\ at[Sched].pc \notin Out
    BY <1>1, <1>4, <2>1 DEF DidXcore, Runs, Gets, Goes, Moves, LooksOn, Resumes, ProcIs, Out, Whose
  <2> QED
    BY <1>1, <1>2, <1>4, <2>1, <2>2, <2>3, <2>4, SchedStays
<1> QED
  BY <1>3, <1>4 DEF Actor

LEMMA UnwrittenShape ==
    ASSUME Shape, NEW a \in Actor, Unwritten(a)
    PROVE  /\ Shape' /\ DidUnwritten(a)
           /\ (a \in Proc => Steps(a)) /\ (a = Sched => SchedSteps)
<1>1. DidUnwritten(a)
  BY UnwrittenDoes
<1>2. Typed'
  BY <1>1, ShapeOfSched, WakenFrame, CoreAssumption DEF DidUnwritten, Typed, Goes, Moves, LooksOn, Resumes, ProcIs, EntryIs, Runs, Gets
<1>3. CASE a \in Proc
  <2>1. Typed /\ ControlOf(a) /\ a \in Actor /\ Sched \in Actor /\ a # Sched /\ at[a] \in Locals
    BY <1>3, ShapeOf
  <2>2. Steps(a) /\ on'[a] = NoText
    BY <1>1, <1>3, <2>1, WakenFrame DEF DidUnwritten, Runs, Gets, Steps, Goes, Moves, LooksOn, Resumes, ProcIs, Whose
  <2>3. ControlOf(a)'
    BY <1>1, <1>3, <2>1, Actors, FreeTypes DEF DidUnwritten, Runs, Gets, ControlOf, Place, Goes, Moves, LooksOn, Resumes, ProcIs, Out, Inner, Its, Whose, Typed
  <2> QED
    BY <1>1, <1>2, <1>3, <2>1, <2>2, <2>3, ProcFrame
<1>4. CASE a = Sched
  <2>1. Typed /\ SchedControl /\ Sched \in Actor /\ Sched \notin Proc /\ at[Sched] \in Locals
        /\ \A p \in Proc : p \in Actor /\ p # Sched
    BY ShapeOfSched
  <2>2. on'[Sched] = NoText /\ \A b \in Proc : at'[b] = at[b] /\ on'[b] \in {on[b], NoText}
    BY <1>1, <1>4, <2>1, WakenFrame DEF DidUnwritten, Runs, Gets, Goes, Moves, LooksOn, Resumes
  <2>3. SchedControl'
    BY <1>1, <1>4, <2>1, Actors DEF DidUnwritten, Runs, Gets, SchedControl, Place, Goes, Moves, LooksOn, Resumes, ProcIs, Out, Inner, Its, Whose
  <2>4. proc' = proc /\ at[Sched].pc \notin Out
    BY <1>1, <1>4, <2>1 DEF DidUnwritten, Runs, Gets, Goes, Moves, LooksOn, Resumes, ProcIs, Out, Whose
  <2> QED
    BY <1>1, <1>2, <1>4, <2>1, <2>2, <2>3, <2>4, SchedStays
<1> QED
  BY <1>3, <1>4 DEF Actor

LEMMA SwapoutShape ==
    ASSUME Shape, NEW a \in Actor, Swapout(a)
    PROVE  /\ Shape' /\ DidSwapout(a)
           /\ (a \in Proc => Steps(a)) /\ (a = Sched => SchedSteps)
<1>1. DidSwapout(a)
  BY SwapoutDoes
<1>2. Typed'
  BY <1>1, ShapeOfSched, CoreAssumption DEF DidSwapout, Typed, Goes, Moves, LooksOn, Resumes, ProcIs, EntryIs, Runs, Gets, Rest
<1>3. CASE a \in Proc
  <2>1. Typed /\ ControlOf(a) /\ a \in Actor /\ Sched \in Actor /\ a # Sched /\ at[a] \in Locals
    BY <1>3, ShapeOf
  <2>2. Steps(a) /\ on'[a] = NoText
    BY <1>1, <1>3, <2>1 DEF DidSwapout, Runs, Gets, Steps, Goes, Moves, LooksOn, Resumes, ProcIs, Whose, Rest
  <2>3. ControlOf(a)'
    BY <1>1, <1>3, <2>1, Actors, FreeTypes DEF DidSwapout, Runs, Gets, ControlOf, Place, Goes, Moves, LooksOn, Resumes, ProcIs, Out, Inner, Its, Whose, Typed, Rest
  <2> QED
    BY <1>1, <1>2, <1>3, <2>1, <2>2, <2>3, ProcFrame
<1>4. CASE a = Sched
  <2>1. Typed /\ SchedControl /\ Sched \in Actor /\ Sched \notin Proc /\ at[Sched] \in Locals
        /\ \A p \in Proc : p \in Actor /\ p # Sched
    BY ShapeOfSched
  <2>2. on'[Sched] = NoText /\ \A b \in Proc : at'[b] = at[b] /\ on'[b] \in {on[b], NoText}
    BY <1>1, <1>4, <2>1 DEF DidSwapout, Runs, Gets, Goes, Moves, LooksOn, Resumes, Rest
  <2>3. SchedControl'
    BY <1>1, <1>4, <2>1, Actors DEF DidSwapout, Runs, Gets, SchedControl, Place, Goes, Moves, LooksOn, Resumes, ProcIs, Out, Inner, Its, Whose, Rest
  <2>4. proc' = proc /\ sp' = sp /\ (at'[Sched].pc \in Out \/ at[Sched].pc \notin Out)
    BY <1>1, <1>4, <2>1 DEF DidSwapout, Runs, Gets, Goes, Moves, LooksOn, Resumes, ProcIs, Out, Whose, Rest
  <2> QED
    BY <1>1, <1>2, <1>4, <2>1, <2>2, <2>3, <2>4, SchedStays
<1> QED
  BY <1>3, <1>4 DEF Actor

LEMMA XccdecShape ==
    ASSUME Shape, NEW a \in Actor, Xccdec(a)
    PROVE  /\ Shape' /\ DidXccdec(a)
           /\ (a \in Proc => Steps(a)) /\ (a = Sched => SchedSteps)
<1>1. DidXccdec(a)
  BY XccdecDoes
<1>2. Typed'
  BY <1>1, ShapeOfSched, CoreAssumption DEF DidXccdec, Typed, Goes, Moves, LooksOn, Resumes, ProcIs, EntryIs, Runs, Gets
<1>3. CASE a \in Proc
  <2>1. Typed /\ ControlOf(a) /\ a \in Actor /\ Sched \in Actor /\ a # Sched /\ at[a] \in Locals
    BY <1>3, ShapeOf
  <2>2. Steps(a) /\ on'[a] = NoText
    BY ZenonT(60), <1>1, <1>3, <2>1 DEF DidXccdec, Runs, Gets, Steps, Goes, Moves, LooksOn, Resumes, ProcIs, Whose
  <2>3. ControlOf(a)'
    BY <1>1, <1>3, <2>1, Actors, FreeTypes DEF DidXccdec, Runs, Gets, ControlOf, Place, Goes, Moves, LooksOn, Resumes, ProcIs, Out, Inner, Its, Whose, Typed
  <2> QED
    BY <1>1, <1>2, <1>3, <2>1, <2>2, <2>3, ProcFrame
<1>4. CASE a = Sched
  <2>1. Typed /\ SchedControl /\ Sched \in Actor /\ Sched \notin Proc /\ at[Sched] \in Locals
        /\ \A p \in Proc : p \in Actor /\ p # Sched
    BY ShapeOfSched
  <2>2. on'[Sched] = NoText /\ \A b \in Proc : at'[b] = at[b] /\ on'[b] \in {on[b], NoText}
    BY ZenonT(60), <1>1, <1>4, <2>1 DEF DidXccdec, Runs, Gets, Goes, Moves, LooksOn, Resumes
  <2>3. SchedControl'
    BY <1>1, <1>4, <2>1, Actors DEF DidXccdec, Runs, Gets, SchedControl, Place, Goes, Moves, LooksOn, Resumes, ProcIs, Out, Inner, Its, Whose
  <2>4. proc' = proc /\ sp' = sp /\ (at'[Sched].pc \in Out \/ at[Sched].pc \notin Out)
    BY <1>1, <1>4, <2>1 DEF DidXccdec, Runs, Gets, Goes, Moves, LooksOn, Resumes, ProcIs, Out, Whose
  <2> QED
    BY <1>1, <1>2, <1>4, <2>1, <2>2, <2>3, <2>4, SchedStays
<1> QED
  BY <1>3, <1>4 DEF Actor

LEMMA TextOutShape ==
    ASSUME Shape, NEW a \in Actor, TextOut(a)
    PROVE  /\ Shape' /\ DidTextOut(a)
           /\ (a \in Proc => Steps(a)) /\ (a = Sched => SchedSteps)
<1>1. DidTextOut(a)
  BY TextOutDoes
<1>2. Typed'
  BY <1>1, ShapeOfSched, WakenFrame, CoreAssumption DEF DidTextOut, Typed, Goes, Moves, LooksOn, Resumes, ProcIs, EntryIs, Runs, Gets
<1>3. CASE a \in Proc
  <2>1. Typed /\ ControlOf(a) /\ a \in Actor /\ Sched \in Actor /\ a # Sched /\ at[a] \in Locals
    BY <1>3, ShapeOf
  <2>2. Steps(a) /\ on'[a] = NoText
    BY <1>1, <1>3, <2>1, WakenFrame DEF DidTextOut, Runs, Gets, Steps, Goes, Moves, LooksOn, Resumes, ProcIs, Whose
  <2>3. ControlOf(a)'
    BY <1>1, <1>3, <2>1, Actors, FreeTypes DEF DidTextOut, Runs, Gets, ControlOf, Place, Goes, Moves, LooksOn, Resumes, ProcIs, Out, Inner, Its, Whose, Typed
  <2> QED
    BY <1>1, <1>2, <1>3, <2>1, <2>2, <2>3, ProcFrame
<1>4. CASE a = Sched
  <2>1. Typed /\ SchedControl /\ Sched \in Actor /\ Sched \notin Proc /\ at[Sched] \in Locals
        /\ \A p \in Proc : p \in Actor /\ p # Sched
    BY ShapeOfSched
  <2>2. on'[Sched] = NoText /\ \A b \in Proc : at'[b] = at[b] /\ on'[b] \in {on[b], NoText}
    BY <1>1, <1>4, <2>1, WakenFrame DEF DidTextOut, Runs, Gets, Goes, Moves, LooksOn, Resumes
  <2>3. SchedControl'
    BY <1>1, <1>4, <2>1, Actors DEF DidTextOut, Runs, Gets, SchedControl, Place, Goes, Moves, LooksOn, Resumes, ProcIs, Out, Inner, Its, Whose
  <2>4. proc' = proc /\ sp' = sp /\ (at'[Sched].pc \in Out \/ at[Sched].pc \notin Out)
    BY <1>1, <1>4, <2>1 DEF DidTextOut, Runs, Gets, Goes, Moves, LooksOn, Resumes, ProcIs, Out, Whose
  <2> QED
    BY <1>1, <1>2, <1>4, <2>1, <2>2, <2>3, <2>4, SchedStays
<1> QED
  BY <1>3, <1>4 DEF Actor

LEMMA ImageOutShape ==
    ASSUME Shape, NEW a \in Actor, ImageOut(a)
    PROVE  /\ Shape' /\ DidImageOut(a)
           /\ (a \in Proc => Steps(a)) /\ (a = Sched => SchedSteps)
<1>1. DidImageOut(a)
  BY ImageOutDoes
<1>2. Typed'
  BY <1>1, ShapeOfSched, WakenFrame, CoreAssumption DEF DidImageOut, Typed, Goes, Moves, LooksOn, Resumes, ProcIs, EntryIs, Runs, Gets
<1>3. CASE a \in Proc
  <2>1. Typed /\ ControlOf(a) /\ a \in Actor /\ Sched \in Actor /\ a # Sched /\ at[a] \in Locals
    BY <1>3, ShapeOf
  <2>2. Steps(a) /\ on'[a] = NoText
    BY <1>1, <1>3, <2>1, WakenFrame DEF DidImageOut, Runs, Gets, Steps, Goes, Moves, LooksOn, Resumes, ProcIs, Whose
  <2>3. ControlOf(a)'
    BY <1>1, <1>3, <2>1, Actors, FreeTypes DEF DidImageOut, Runs, Gets, ControlOf, Place, Goes, Moves, LooksOn, Resumes, ProcIs, Out, Inner, Its, Whose, Typed, Locals
  <2> QED
    BY <1>1, <1>2, <1>3, <2>1, <2>2, <2>3, ProcFrame
<1>4. CASE a = Sched
  <2>1. Typed /\ SchedControl /\ Sched \in Actor /\ Sched \notin Proc /\ at[Sched] \in Locals
        /\ \A p \in Proc : p \in Actor /\ p # Sched
    BY ShapeOfSched
  <2>2. on'[Sched] = NoText /\ \A b \in Proc : at'[b] = at[b] /\ on'[b] \in {on[b], NoText}
    BY <1>1, <1>4, <2>1, WakenFrame DEF DidImageOut, Runs, Gets, Goes, Moves, LooksOn, Resumes
  <2>3. SchedControl'
    BY <1>1, <1>4, <2>1, Actors DEF DidImageOut, Runs, Gets, SchedControl, Place, Goes, Moves, LooksOn, Resumes, ProcIs, Out, Inner, Its, Whose
  <2>4. ASSUME NEW q \in Proc
        PROVE  /\ proc'[q].text = proc[q].text /\ proc'[q].prog = proc[q].prog
               /\ at[q].pc \in Out \cup {"reading"} => proc'[q] = proc[q]
               /\ proc'[q].slock => at[q].pc \in Out \cup {"reading"} \/ (sp' = q /\ at'[Sched].pc \in Out)
    <3>1. /\ proc[q].slock => at[q].pc \in Out \cup {"reading"} \/ (sp = q /\ at[Sched].pc \in Out)
          /\ at[q].pc \in Out \cup {"reading"} => proc[q].loaded /\ proc[q].slock
      BY DEF Shape, ControlOf
    <3>2. sp # Idle => ~proc[sp].loaded
      BY <2>1 DEF SchedControl
    <3>3. q # Idle /\ q # Sched
      BY Actors
    <3>4. \/ q # sp /\ proc'[q] = proc[q]
          \/ /\ q = sp /\ proc'[q].text = proc[q].text /\ proc'[q].prog = proc[q].prog
             /\ ~proc'[q].slock
      BY <1>1, <1>4, <2>1 DEF DidImageOut, Runs, Gets, Goes, Moves, LooksOn, Resumes, ProcIs, Out, Whose
    <3> QED
      BY <3>1, <3>2, <3>3, <3>4 DEF Out
  <2> QED
    BY <1>1, <1>2, <1>4, <2>1, <2>2, <2>3, <2>4, SchedFrame DEF SchedSteps
<1> QED
  BY <1>3, <1>4 DEF Actor

LEMMA BringShape ==
    ASSUME Shape, NEW r \in Proc, Bring(r)
    PROVE  Shape' /\ DidBring(r) /\ SchedSteps
<1>1. DidBring(r)
  BY BringDoes
<1>2. Typed /\ SchedControl /\ Sched \in Actor /\ Sched \notin Proc /\ at[Sched] \in Locals
      /\ \A p \in Proc : p \in Actor /\ p # Sched
  BY ShapeOfSched
<1>3. Typed'
  BY <1>1, <1>2, CoreAssumption DEF DidBring, Typed, Goes, Moves, ProcIs, EntryIs, Runs, Gets
<1>4. on'[Sched] = NoText /\ \A b \in Proc : at'[b] = at[b] /\ on'[b] \in {on[b], NoText}
  BY <1>1, <1>2 DEF DidBring, Runs, Gets, Goes, Moves
<1>5. SchedControl'
  BY <1>1, <1>2, Actors DEF DidBring, Runs, Gets, SchedControl, Place, Goes, Moves, ProcIs, Out, Inner, Its, Whose
<1>6. proc' = proc /\ at[Sched].pc \notin Out
  BY <1>1, <1>2 DEF DidBring, Runs, Gets, Goes, Moves, ProcIs, Out
<1> QED
  BY <1>1, <1>3, <1>4, <1>5, <1>6, SchedStays

LEMMA ThrowOutShape ==
    ASSUME Shape, NEW v \in Proc, ThrowOut(v)
    PROVE  Shape' /\ DidThrowOut(v) /\ SchedSteps
<1>1. DidThrowOut(v)
  BY ThrowOutDoes
<1>2. Typed /\ SchedControl /\ Sched \in Actor /\ Sched \notin Proc /\ at[Sched] \in Locals
      /\ \A p \in Proc : p \in Actor /\ p # Sched
  BY ShapeOfSched
<1>3. Typed'
  BY <1>1, <1>2, CoreAssumption DEF DidThrowOut, Typed, Goes, Moves, ProcIs, EntryIs, Runs, Gets, MayGo
<1>4. on'[Sched] = NoText /\ \A b \in Proc : at'[b] = at[b] /\ on'[b] \in {on[b], NoText}
  BY <1>1, <1>2 DEF DidThrowOut, Runs, Gets, Goes, Moves, MayGo
<1>5. SchedControl'
  BY <1>1, <1>2, Actors DEF DidThrowOut, Runs, Gets, SchedControl, Place, Goes, Moves, ProcIs, Out, Inner, Its, Whose, MayGo
<1>6. ASSUME NEW q \in Proc
      PROVE  /\ proc'[q].text = proc[q].text /\ proc'[q].prog = proc[q].prog
             /\ at[q].pc \in Out \cup {"reading"} => proc'[q] = proc[q]
             /\ proc'[q].slock => at[q].pc \in Out \cup {"reading"} \/ (sp' = q /\ at'[Sched].pc \in Out)
  <2>1. /\ proc[q].slock => at[q].pc \in Out \cup {"reading"} \/ (sp = q /\ at[Sched].pc \in Out)
        /\ at[q].pc \in Out \cup {"reading"} => proc[q].loaded /\ proc[q].slock
    BY DEF Shape, ControlOf
  <2>2. sp # Idle => ~proc[sp].loaded
    BY <1>2 DEF SchedControl
  <2>3. q # Idle /\ q # Sched
    BY Actors
  <2>4. \/ q # v /\ proc'[q] = proc[q] /\ at[Sched].pc \notin Out
        \/ /\ q = v /\ proc'[q].text = proc[q].text /\ proc'[q].prog = proc[q].prog
           /\ ~proc[q].slock /\ sp' = q /\ at'[Sched].pc \in Out
    BY <1>1, <1>2 DEF DidThrowOut, Runs, Gets, Goes, Moves, ProcIs, Out, MayGo
  <2> QED
    BY <2>1, <2>2, <2>3, <2>4 DEF Out
<1> QED
  BY <1>1, <1>3, <1>4, <1>5, <1>6, SchedFrame DEF SchedSteps

LEMMA SwapinLockShape ==
    ASSUME Shape, SwapinLock
    PROVE  Shape' /\ DidSwapinLock /\ SchedSteps
<1>1. DidSwapinLock
  BY SwapinLockDoes
<1>2. Typed /\ SchedControl /\ Sched \in Actor /\ Sched \notin Proc /\ at[Sched] \in Locals
      /\ \A p \in Proc : p \in Actor /\ p # Sched
  BY ShapeOfSched
<1>3. Typed'
  BY <1>1, <1>2, CoreAssumption DEF DidSwapinLock, Typed, Goes, Moves, ProcIs, EntryIs, Runs, Gets
<1>4. on'[Sched] = NoText /\ \A b \in Proc : at'[b] = at[b] /\ on'[b] \in {on[b], NoText}
  BY <1>1, <1>2 DEF DidSwapinLock, Runs, Gets, Goes, Moves
<1>5. SchedControl'
  BY <1>1, <1>2, Actors DEF DidSwapinLock, Runs, Gets, SchedControl, Place, Goes, Moves, ProcIs, Out, Inner, Its, Whose
<1>6. proc' = proc /\ at[Sched].pc \notin Out
  BY <1>1, <1>2 DEF DidSwapinLock, Runs, Gets, Goes, Moves, ProcIs, Out
<1> QED
  BY <1>1, <1>3, <1>4, <1>5, <1>6, SchedStays

LEMMA SwapinTextShape ==
    ASSUME Shape, SwapinText
    PROVE  Shape' /\ DidSwapinText /\ SchedSteps
<1>1. DidSwapinText
  BY SwapinTextDoes
<1>2. Typed /\ SchedControl /\ Sched \in Actor /\ Sched \notin Proc /\ at[Sched] \in Locals
      /\ \A p \in Proc : p \in Actor /\ p # Sched
  BY ShapeOfSched
<1>3. Typed'
  BY <1>1, <1>2, WakenFrame, CoreAssumption DEF DidSwapinText, Typed, Goes, Moves, ProcIs, EntryIs, Runs, Gets, SchedCalls, Fails, Rest
<1>4. on'[Sched] = NoText /\ \A b \in Proc : at'[b] = at[b] /\ on'[b] \in {on[b], NoText}
  BY ZenonT(60), <1>1, <1>2, WakenFrame DEF DidSwapinText, Runs, Gets, Goes, Moves, SchedCalls, Fails, Rest
<1>5. SchedControl'
  BY <1>1, <1>2, Actors DEF DidSwapinText, Runs, Gets, SchedControl, Place, Goes, Moves, ProcIs, Out, Inner, Its, Whose, SchedCalls, Fails, Rest
<1>6. proc' = proc /\ at[Sched].pc \notin Out
  BY ZenonT(60), <1>1, <1>2 DEF DidSwapinText, Runs, Gets, Goes, Moves, ProcIs, Out, SchedCalls, Fails, Rest
<1> QED
  BY <1>1, <1>3, <1>4, <1>5, <1>6, SchedStays

LEMMA SwapinImageShape ==
    ASSUME Shape, SwapinImage
    PROVE  Shape' /\ DidSwapinImage /\ SchedSteps
<1>1. DidSwapinImage
  BY SwapinImageDoes
<1>2. Typed /\ SchedControl /\ Sched \in Actor /\ Sched \notin Proc /\ at[Sched] \in Locals
      /\ \A p \in Proc : p \in Actor /\ p # Sched
  BY SMTT(30), ShapeOfSched
<1>3. Typed'
  BY <1>1, <1>2, WakenFrame, CoreAssumption DEF DidSwapinImage, Typed, Goes, Moves, ProcIs, EntryIs, Runs, Gets, SchedCalls, Fails, Rest
<1>4. on'[Sched] = NoText /\ \A b \in Proc : at'[b] = at[b] /\ on'[b] \in {on[b], NoText}
  BY ZenonT(60), <1>1, <1>2, WakenFrame DEF DidSwapinImage, Runs, Gets, Goes, Moves, SchedCalls, Fails, Rest
<1>5. SchedControl'
  BY <1>1, <1>2, Actors DEF DidSwapinImage, Runs, Gets, SchedControl, Place, Goes, Moves, ProcIs, Out, Inner, Its, Whose, SchedCalls, Fails, Rest
<1>6. proc' = proc /\ at[Sched].pc \notin Out
  BY ZenonT(60), <1>1, <1>2 DEF DidSwapinImage, Runs, Gets, Goes, Moves, ProcIs, Out, SchedCalls, Fails, Rest
<1> QED
  BY <1>1, <1>3, <1>4, <1>5, <1>6, SchedStays

LEMMA SwapinReadShape ==
    ASSUME Shape, SwapinRead
    PROVE  Shape' /\ DidSwapinRead /\ SchedSteps
<1>1. DidSwapinRead
  BY SwapinReadDoes
<1>2. Typed /\ SchedControl /\ Sched \in Actor /\ Sched \notin Proc /\ at[Sched] \in Locals
      /\ \A p \in Proc : p \in Actor /\ p # Sched
  BY ShapeOfSched
<1>3. Typed'
  BY <1>1, <1>2, WakenFrame, CoreAssumption DEF DidSwapinRead, Typed, Goes, Moves, ProcIs, EntryIs, Runs, Gets
<1>4. on'[Sched] = NoText /\ \A b \in Proc : at'[b] = at[b] /\ on'[b] \in {on[b], NoText}
  BY <1>1, <1>2, WakenFrame DEF DidSwapinRead, Runs, Gets, Goes, Moves
<1>5. SchedControl'
  BY <1>1, <1>2, Actors DEF DidSwapinRead, Runs, Gets, SchedControl, Place, Goes, Moves, ProcIs, Out, Inner, Its, Whose
<1>6. proc' = proc /\ at[Sched].pc \notin Out
  BY <1>1, <1>2 DEF DidSwapinRead, Runs, Gets, Goes, Moves, ProcIs, Out
<1> QED
  BY <1>1, <1>3, <1>4, <1>5, <1>6, SchedStays

LEMMA SwapinDoneShape ==
    ASSUME Shape, SwapinDone
    PROVE  Shape' /\ DidSwapinDone /\ SchedSteps
<1>1. DidSwapinDone
  BY SwapinDoneDoes
<1>2. Typed /\ SchedControl /\ Sched \in Actor /\ Sched \notin Proc /\ at[Sched] \in Locals
      /\ \A p \in Proc : p \in Actor /\ p # Sched
  BY ShapeOfSched
<1>3. Typed'
  BY <1>1, <1>2, CoreAssumption DEF DidSwapinDone, Typed, Goes, Moves, ProcIs, EntryIs, Runs, Gets
<1>4. on'[Sched] = NoText /\ \A b \in Proc : at'[b] = at[b] /\ on'[b] \in {on[b], NoText}
  BY <1>1, <1>2 DEF DidSwapinDone, Runs, Gets, Goes, Moves
<1>5. SchedControl'
  BY <1>1, <1>2, Actors DEF DidSwapinDone, Runs, Gets, SchedControl, Place, Goes, Moves, ProcIs, Out, Inner, Its, Whose
<1>6. ASSUME NEW q \in Proc
      PROVE  /\ proc'[q].text = proc[q].text /\ proc'[q].prog = proc[q].prog
             /\ at[q].pc \in Out \cup {"reading"} => proc'[q] = proc[q]
             /\ proc'[q].slock => at[q].pc \in Out \cup {"reading"} \/ (sp' = q /\ at'[Sched].pc \in Out)
  <2>1. /\ proc[q].slock => at[q].pc \in Out \cup {"reading"} \/ (sp = q /\ at[Sched].pc \in Out)
        /\ at[q].pc \in Out \cup {"reading"} => proc[q].loaded /\ proc[q].slock
    BY DEF Shape, ControlOf
  <2>2. sp # Idle => ~proc[sp].loaded
    BY <1>2 DEF SchedControl
  <2>3. q # Idle /\ q # Sched
    BY Actors
  <2>4. \/ q # sp /\ proc'[q] = proc[q] /\ at[Sched].pc \notin Out
        \/ /\ q = sp /\ proc'[q].text = proc[q].text /\ proc'[q].prog = proc[q].prog
           /\ proc'[q].slock = proc[q].slock /\ at[Sched].pc \notin Out
    BY <1>1, <1>2 DEF DidSwapinDone, Runs, Gets, Goes, Moves, ProcIs, Out
  <2> QED
    BY <2>1, <2>2, <2>3, <2>4 DEF Out
<1> QED
  BY <1>1, <1>3, <1>4, <1>5, <1>6, SchedFrame DEF SchedSteps

LEMMA WaitCoreShape ==
    ASSUME Shape, WaitCore
    PROVE  Shape' /\ DidWaitCore /\ SchedSteps
<1>1. DidWaitCore
  BY WaitCoreDoes
<1>2. Typed /\ SchedControl /\ Sched \in Actor /\ Sched \notin Proc /\ at[Sched] \in Locals
      /\ \A p \in Proc : p \in Actor /\ p # Sched
  BY ShapeOfSched
<1>3. Typed'
  BY <1>1, <1>2, CoreAssumption DEF DidWaitCore, Typed, Goes, Moves, ProcIs, EntryIs, Runs, Gets, Rest
<1>4. on'[Sched] = NoText /\ \A b \in Proc : at'[b] = at[b] /\ on'[b] \in {on[b], NoText}
  BY <1>1, <1>2 DEF DidWaitCore, Runs, Gets, Goes, Moves, Rest
<1>5. SchedControl'
  BY <1>1, <1>2, Actors DEF DidWaitCore, Runs, Gets, SchedControl, Place, Goes, Moves, ProcIs, Out, Inner, Its, Whose, Rest
<1>6. proc' = proc /\ at[Sched].pc \notin Out
  BY <1>1, <1>2 DEF DidWaitCore, Runs, Gets, Goes, Moves, ProcIs, Out, Rest
<1> QED
  BY <1>1, <1>3, <1>4, <1>5, <1>6, SchedStays

LEMMA StutterShape ==
    ASSUME Shape, UNCHANGED vars
    PROVE  Shape'
<1>1. Typed'
  BY DEF Shape, Typed, vars
<1>2. \A p \in Proc : ControlOf(p)'
  BY DEF Shape, ControlOf, Place, vars
<1>3. SchedControl'
  BY DEF Shape, SchedControl, Place, Its, Whose, vars
<1>4. \A a \in Actor : SleepsFor(a)'
  BY DEF Shape, SleepsFor, Wants, Its, Whose, vars
<1> QED
  BY <1>1, <1>2, <1>3, <1>4 DEF Shape

LEMMA NobodyShape ==
    ASSUME Shape, Nobody
    PROVE  Shape'
<1>1. Typed'
  BY DEF Shape, Typed, Nobody
<1>2. \A p \in Proc : ControlOf(p)'
  BY DEF Shape, ControlOf, Place, Nobody
<1>3. SchedControl'
  BY DEF Shape, SchedControl, Place, Its, Whose, Nobody
<1>4. \A a \in Actor : SleepsFor(a)'
  BY DEF Shape, SleepsFor, Wants, Its, Whose, Nobody
<1> QED
  BY <1>1, <1>2, <1>3, <1>4 DEF Shape

LEMMA ShapeStep ==
    ASSUME Shape, [Next]_vars
    PROVE  Shape'
<1>1. ASSUME NEW p \in Proc, Step(p) PROVE Shape'
  BY <1>1, ExecShape, GrowShape, XfreeShape, ExpandShape, AttachShape, XwaitedShape, AllotShape,
     XuntextShape, XuntextedShape, XexpandShape, XreadShape, ReadiShape, ReadInShape,
     UnlockAgainShape DEF Step
<1>2. ASSUME NEW a \in Actor,
             WaitLock(a) \/ Xuncore(a) \/ Xcore(a) \/ Unwritten(a) \/ Swapout(a) \/ Xccdec(a)
             \/ TextOut(a) \/ ImageOut(a)
      PROVE  Shape'
  BY <1>2, WaitLockShape, XuncoreShape, XcoreShape, UnwrittenShape, SwapoutShape, XccdecShape,
     TextOutShape, ImageOutShape
<1>3. CASE Swapper
  BY <1>3, SwapinLockShape, SwapinTextShape, SwapinImageShape, SwapinReadShape, SwapinDoneShape,
     NobodyShape, WaitCoreShape, BringShape, ThrowOutShape DEF Swapper
<1>4. CASE UNCHANGED vars
  BY <1>4, StutterShape
<1> QED
  BY <1>1, <1>2, <1>3, <1>4 DEF Next

LEMMA ShapeInit ==
    ASSUME Init
    PROVE  Shape
<1>1. Simple(free, Text) /\ ToSet(free) = Text
  <2>1. free \in [1..Cardinality(Text) -> Text] /\ IsInjective(free)
    BY DEF Init, SetToSeqs, IsInjective
  <2> QED
    BY <2>1, NoneAssumption, FullSimple
<1>2. Typed
  BY <1>1, Actors, CoreAssumption DEF Simple, Init, Typed, RawEntry, Process, Locals, Location, Home, Top
<1>3. \A p \in Proc : ControlOf(p)
  BY Actors DEF Init, ControlOf, Place, Home, Top, Out, Inner
<1>4. SchedControl
  BY Actors DEF Init, SchedControl, Place, Home, Top, Out, Inner
<1>5. \A a \in Actor : SleepsFor(a)
  BY DEF Init, SleepsFor
<1> QED
  BY <1>2, <1>3, <1>4, <1>5 DEF Shape

(* Whoever is in a call has the locals that the call needs, the process    *)
(* that sched swaps is not in core, a process with P_SLOCK is being        *)
(* swapped or reads in its text, and who sleeps sleeps for the lock that   *)
(* he is about to take.                                                    *)
THEOREM AlwaysShape == Spec => []Shape
<1>1. Init => Shape
  BY ShapeInit
<1>2. Shape /\ [Next]_vars => Shape'
  BY ShapeStep
<1> QED
  BY <1>1, <1>2, PTL DEF Spec

-----------------------------------------------------------------------------
(* The locks and the accounts *)

(* An entry that p has from the free list, not yet as its text. *)
Claims(p) == at[p].pc \in {"xuntext", "irele"}

(* What a keeps locked while xuncore or swapout runs. *)
Keeps(a) ==
    (IF \/ Place(a) \in {"irele", "xexpand", "xread"}
        \/ at[a].pc \in Out /\ at[a].after \in {"again", "readi"}
     THEN {at[a].x} ELSE {})
    \cup (IF Place(a) \in {"intext", "inimage", "inread"} THEN {Its(a)} \ {NoText} ELSE {})

(* On the list is what nobody uses or has taken from it. *)
Listed == \A x \in Text : x \in ToSet(free) <=> /\ text[x].count = 0
                                                /\ \A p \in Proc : ~(Claims(p) /\ at[p].x = x)

Apart == \A p, q \in Proc : Claims(p) /\ Claims(q) /\ at[p].x = at[q].x => p = q

(* What a counts on in the entries that it has locked. *)
Mine(a) ==
    /\ at[a].pc = "unwrite" => text[at[a].xp].iptr # NoFile /\ at[a].xp \notin Keeps(a)
    /\ a \in Proc =>
       /\ Fetches(a) => text[at[a].x].ccount = 0 /\ proc[a].loaded
       /\ at[a].pc \in {"xccdec", "outwrite"} => ~Fetches(a)
       /\ proc[a].text # NoText => text[proc[a].text].iptr # NoFile
       /\ at[a].pc = "irele" => text[at[a].x].count = 0 /\ text[at[a].x].iptr = NoFile

(* An entry that was never used has no core. *)
Unnamed == \A x \in Text : text[x].iptr = NoFile /\ ~text[x].lock => ~text[x].caddr

Points == \A f \in File : itext[f] # NoText => text[itext[f]].iptr = f

(* Without the two races that break the locks and the accounts; the third  *)
(* that NoKnownRace names makes a circle of those who wait.                *)
NoRace == ~ReusedInUse /\ ~UnlocksOther

IInv == /\ Shape /\ Locked /\ Accounts
        /\ Simple(free, Text) /\ Listed /\ Apart
        /\ \A a \in Actor : Mine(a)
        /\ Unnamed /\ Points

LEMMA HoldsKeeps ==
    ASSUME Shape, NEW a \in Actor
    PROVE  /\ Holds(a) \subseteq Text /\ Keeps(a) \subseteq Holds(a)
           /\ \A x : x \in Holds(a) <=> \/ x \in Keeps(a)
                                        \/ at[a].pc = "unwrite" /\ x = at[a].xp
                                        \/ at[a].pc = "outwrite" /\ x = Its(a)
<1>1. \A x : x \in Holds(a) <=> \/ x \in Keeps(a)
                                \/ at[a].pc = "unwrite" /\ x = at[a].xp
                                \/ at[a].pc = "outwrite" /\ x = Its(a)
  BY DEF Holds, Keeps, Out
<1>2. Keeps(a) \subseteq Holds(a)
  BY <1>1
<1>3. at[a].pc = "unwrite" => at[a].xp \in Text
  BY DEF Shape, ControlOf, SchedControl, Actor
<1>4. at[a].pc = "outwrite" \/ Place(a) \in {"intext", "inimage", "inread"} => Its(a) \in Text \cup {NoText}
  BY WhoseProc DEF Place
<1>5. at[a].pc = "outwrite" => Its(a) # NoText
  BY Actors DEF Shape, ControlOf, SchedControl, Actor, Its, Whose
<1>6. CASE a \in Proc
  <2>1. \/ Place(a) \in {"irele", "xexpand", "xread"}
        \/ at[a].pc \in Out /\ at[a].after \in {"again", "readi"}
        => at[a].x \in Text
    BY <1>6, ShapeOf DEF ControlOf
  <2>2. Place(a) \notin {"intext", "inimage", "inread"}
    BY <1>6, ShapeOf DEF ControlOf, Out
  <2>3. Keeps(a) \subseteq Text
    BY <2>1, <2>2 DEF Keeps
  <2> QED
    BY <1>1, <1>2, <1>3, <1>4, <1>5, <2>3
<1>7. CASE a = Sched
  <2>1. /\ Place(a) \notin {"irele", "xexpand", "xread"} /\ at[a].after = "sched"
    BY <1>7, ShapeOfSched DEF SchedControl, Out
  <2>2. Keeps(a) \subseteq Text
    BY <1>4, <2>1 DEF Keeps
  <2> QED
    BY <1>1, <1>2, <1>3, <1>4, <1>5, <2>2
<1> QED
  BY <1>6, <1>7 DEF Actor

LEMMA HoldsTexts == Shape => \A a \in Actor : Holds(a) \subseteq Text
BY HoldsKeeps

LEMMA HoldsTextsNext == Shape' => (\A a \in Actor : Holds(a) \subseteq Text)'
BY HoldsTexts, PTL

(* What a step of a leaves to the others. *)
Aside(a) ==
    \A b \in Actor \ {a} :
       /\ at'[b] = at[b] /\ Holds(b)' = Holds(b) /\ Keeps(b)' = Keeps(b)
       /\ b \in Proc => proc'[b].text = proc[b].text /\ (Fetches(b) => proc'[b].loaded)

LEMMA AsideProc ==
    ASSUME IInv, NEW p \in Proc, Steps(p)
    PROVE  Aside(p)
<1> SUFFICES ASSUME NEW b \in Actor, b # p
             PROVE  /\ at'[b] = at[b] /\ Holds(b)' = Holds(b) /\ Keeps(b)' = Keeps(b)
                    /\ b \in Proc => proc'[b].text = proc[b].text /\ (Fetches(b) => proc'[b].loaded)
  BY DEF Aside
<1>1. at'[b] = at[b] /\ Place(b)' = Place(b)
  BY DEF Steps, Place
<1>2. CASE b \in Proc
  <2>1. proc'[b] = proc[b] /\ Its(b)' = Its(b) /\ Mine(b)
    BY <1>2, Actors DEF Steps, Its, Whose, IInv
  <2> QED
    BY <1>1, <1>2, <2>1 DEF Holds, Keeps, Mine
<1>3. CASE b = Sched
  <2>1. at'[Sched] = at[Sched] /\ sp' = sp /\ (sp # Idle => Its(Sched)' = Its(Sched))
    BY <1>1, <1>3, Actors DEF Steps, IInv, Shape, SchedControl, Typed, Its, Whose
  <2>2. Place(Sched) \in {"intext", "inimage", "inread", "outwrite"} => sp # Idle
    BY DEF IInv, Shape, SchedControl
  <2>3. at[Sched].pc = "outwrite" => Place(Sched) = "outwrite"
    BY DEF Place
  <2> QED
    BY <1>1, <1>3, <2>1, <2>2, <2>3, Actors DEF Holds, Keeps
<1> QED
  BY <1>2, <1>3 DEF Actor

LEMMA AsideSched ==
    ASSUME IInv,
           \A q \in Proc : at'[q] = at[q] /\ proc'[q].text = proc[q].text /\ (Fetches(q) => proc'[q].loaded)
    PROVE  Aside(Sched)
<1> SUFFICES ASSUME NEW b \in Proc
             PROVE  Holds(b)' = Holds(b) /\ Keeps(b)' = Keeps(b)
  BY DEF Aside, Actor
<1>1. at'[b] = at[b] /\ Place(b)' = Place(b) /\ Its(b)' = Its(b)
  BY Actors DEF Place, Its, Whose
<1> QED
  BY <1>1 DEF Holds, Keeps

(* a takes or gives up locks, and no other locks change. *)
Relocks(a) ==
    \A x \in Text :
       /\ x \in Holds(a)' /\ x \notin Holds(a) => ~text[x].lock
       /\ text'[x].lock <=> x \in Holds(a)' \/ (x \notin Holds(a) /\ text[x].lock)

LEMMA LockStep ==
    ASSUME IInv, Shape', NEW a \in Actor, Aside(a), Relocks(a)
    PROVE  Locked'
<1>1. Holds(a)' \subseteq Text
  BY HoldsTextsNext
<1>2. \A b \in Actor : Holds(b) \subseteq Text
  BY HoldsKeeps DEF IInv
<1>3. /\ \A x \in Text : text[x].lock = (\E b \in Actor : x \in Holds(b))
      /\ \A b, c \in Actor : b # c => Holds(b) \cap Holds(c) = {}
  BY DEF IInv, Locked
<1>4. \A x \in Text : text'[x].lock \in BOOLEAN
  BY DEF Shape, Typed, RawEntry
<1>5. \A b \in Actor \ {a} : Holds(b)' = Holds(b)
  BY DEF Aside
<1>6. ASSUME NEW x \in Text PROVE text'[x].lock <=> \E b \in Actor : x \in Holds(b)'
  BY ZenonT(60), <1>3, <1>5 DEF Relocks
<1>7. ASSUME NEW b \in Actor, NEW c \in Actor, b # c, NEW x, x \in Holds(b)', x \in Holds(c)'
      PROVE  FALSE
  <2>1. x \in Text
    BY <1>1, <1>2, <1>5, <1>7
  <2>2. CASE b # a /\ c # a
    BY <1>3, <1>5, <1>7, <2>2
  <2>3. CASE b = a
    BY ZenonT(60), <1>3, <1>5, <1>7, <2>1, <2>3 DEF Relocks
  <2>4. CASE c = a
    BY ZenonT(60), <1>3, <1>5, <1>7, <2>1, <2>4 DEF Relocks
  <2> QED
    BY <2>2, <2>3, <2>4
<1>8. \A x \in Text : text'[x].lock = (\E b \in Actor : x \in Holds(b)')
  BY <1>4, <1>6
<1>9. \A b, c \in Actor : b # c => Holds(b)' \cap Holds(c)' = {}
  BY <1>7
<1> QED
  BY <1>8, <1>9 DEF Locked

(* Only entries that nobody else has locked change what their holders count on. *)
Spares(a) ==
    \A x \in Text :
       /\ \/ /\ text'[x].iptr = text[x].iptr /\ text'[x].count = text[x].count
             /\ text'[x].ccount = text[x].ccount
          \/ x \in Holds(a) \/ ~text[x].lock
       /\ text'[x].iptr = NoFile => text[x].iptr = NoFile \/ text[x].count = 0

(* An entry that is not in use is nobody's text. *)
LEMMA UnusedText ==
    ASSUME IInv, NEW p \in Proc, proc[p].text # NoText
    PROVE  text[proc[p].text].count # 0
<1> DEFINE x == proc[p].text
           S == {q \in Proc : proc[q].text = x}
<1>1. x \in Text
  BY DEF IInv, Shape, Typed, Process
<1>2. text[x].count = Cardinality(S)
  BY <1>1 DEF IInv, Accounts
<1>3. IsFiniteSet(S) /\ p \in S
  BY ActorAssumption, FS_Subset
<1>4. Cardinality(S) # 0
  BY <1>3, FS_EmptySet
<1> QED
  BY <1>2, <1>4

LEMMA MineStep ==
    ASSUME IInv, NEW a \in Actor, Aside(a), Spares(a), Mine(a)'
    PROVE  \A b \in Actor : Mine(b)'
<1> SUFFICES ASSUME NEW b \in Actor, b # a PROVE Mine(b)'
  OBVIOUS
<1>1. /\ at'[b] = at[b] /\ Place(b)' = Place(b) /\ Holds(b)' = Holds(b) /\ Keeps(b)' = Keeps(b)
      /\ b \in Proc => proc'[b].text = proc[b].text /\ (Fetches(b) => proc'[b].loaded)
      /\ Fetches(b)' = Fetches(b)
  BY DEF Aside, Place, Fetches
<1>2. ASSUME NEW x \in Holds(b)
      PROVE  /\ text'[x].iptr = text[x].iptr /\ text'[x].count = text[x].count
             /\ text'[x].ccount = text[x].ccount
  <2>1. x \in Text
    BY HoldsKeeps DEF IInv
  <2>2. text[x].lock /\ x \notin Holds(a)
    BY <2>1 DEF IInv, Locked
  <2> QED
    BY <2>1, <2>2 DEF Spares
<1>3. Mine(b)
  BY DEF IInv
<1>4. at[b].pc = "unwrite" => at[b].xp \in Holds(b)
  BY DEF Holds
<1>5. Fetches(b) \/ at[b].pc = "irele" => at[b].x \in Holds(b)
  BY DEF Holds, Fetches, Place, Out
<1>6. b \in Proc /\ proc[b].text # NoText => text'[proc[b].text].iptr # NoFile
  <2> SUFFICES ASSUME b \in Proc, proc[b].text # NoText PROVE text'[proc[b].text].iptr # NoFile
    OBVIOUS
  <2>1. proc[b].text \in Text
    BY DEF IInv, Shape, Typed, Process
  <2>2. text[proc[b].text].count # 0
    BY UnusedText
  <2> QED
    BY <1>3, <2>1, <2>2 DEF Spares, Mine
<1>7. /\ at[b].pc = "unwrite" => text'[at[b].xp].iptr # NoFile /\ at[b].xp \notin Keeps(b)
      /\ Fetches(b) => text'[at[b].x].ccount = text[at[b].x].ccount
      /\ at[b].pc = "irele" => text'[at[b].x].count = text[at[b].x].count /\ text'[at[b].x].iptr = text[at[b].x].iptr
  BY <1>2, <1>3, <1>4, <1>5 DEF Mine
<1> QED
  BY <1>1, <1>3, <1>6, <1>7 DEF Mine

(* What p adds to x_count and x_ccount of x. *)
Uses(p, x) == IF proc[p].text = x THEN 1 ELSE 0
UsesCore(p, x) == IF proc[p].text = x /\ Counts(p) THEN 1 ELSE 0

LEMMA AccountsStep ==
    ASSUME Accounts, Typed, Typed', NEW p \in Proc,
           \A q \in Proc \ {p} : proc'[q].text = proc[q].text /\ Counts(q)' = Counts(q),
           \A x \in Text : /\ text'[x].count = text[x].count + Uses(p, x)' - Uses(p, x)
                           /\ text'[x].ccount = text[x].ccount + UsesCore(p, x)' - UsesCore(p, x)
    PROVE  Accounts'
<1> SUFFICES ASSUME NEW x \in Text
             PROVE  /\ text'[x].count = Cardinality({q \in Proc : proc'[q].text = x})
                    /\ text'[x].ccount = Cardinality({q \in Proc : proc'[q].text = x /\ Counts(q)'})
  BY DEF Accounts
<1> DEFINE S == {q \in Proc : proc[q].text = x}
           T == {q \in Proc : proc'[q].text = x}
           C == {q \in Proc : proc[q].text = x /\ Counts(q)}
           D == {q \in Proc : proc'[q].text = x /\ Counts(q)'}
<1>1. text[x].count = Cardinality(S) /\ text[x].ccount = Cardinality(C)
  BY DEF Accounts
<1>2. /\ Cardinality(S) \in Nat /\ Cardinality(T) \in Nat
      /\ Cardinality(T) = Cardinality(S) + (IF p \in T THEN 1 ELSE 0) - (IF p \in S THEN 1 ELSE 0)
  <2>1. S \in SUBSET Proc /\ T \in SUBSET Proc /\ \A q \in Proc \ {p} : q \in S <=> q \in T
    OBVIOUS
  <2> HIDE DEF S, T
  <2> QED
    BY <2>1, CountOne, ActorAssumption
<1>3. /\ Cardinality(C) \in Nat /\ Cardinality(D) \in Nat
      /\ Cardinality(D) = Cardinality(C) + (IF p \in D THEN 1 ELSE 0) - (IF p \in C THEN 1 ELSE 0)
  <2>1. C \in SUBSET Proc /\ D \in SUBSET Proc /\ \A q \in Proc \ {p} : q \in C <=> q \in D
    OBVIOUS
  <2> HIDE DEF C, D
  <2> QED
    BY <2>1, CountOne, ActorAssumption
<1>4. /\ (IF p \in S THEN 1 ELSE 0) = Uses(p, x) /\ (IF p \in T THEN 1 ELSE 0) = Uses(p, x)'
      /\ (IF p \in C THEN 1 ELSE 0) = UsesCore(p, x) /\ (IF p \in D THEN 1 ELSE 0) = UsesCore(p, x)'
  BY DEF Uses, UsesCore
<1>5. /\ text'[x].count = text[x].count + Uses(p, x)' - Uses(p, x)
      /\ text'[x].ccount = text[x].ccount + UsesCore(p, x)' - UsesCore(p, x)
  OBVIOUS
<1>6. Cardinality(T) = text'[x].count /\ Cardinality(D) = text'[x].ccount
  <2> HIDE DEF S, T, C, D
  <2> QED
    BY <1>1, <1>2, <1>3, <1>4, <1>5
<1> QED
  BY <1>6

LEMMA SameAccounts ==
    ASSUME Accounts,
           \A q \in Proc : proc'[q].text = proc[q].text /\ Counts(q)' = Counts(q),
           \A x \in Text : text'[x].count = text[x].count /\ text'[x].ccount = text[x].ccount
    PROVE  Accounts'
<1> SUFFICES ASSUME NEW x \in Text
             PROVE  /\ text'[x].count = Cardinality({q \in Proc : proc'[q].text = x})
                    /\ text'[x].ccount = Cardinality({q \in Proc : proc'[q].text = x /\ Counts(q)'})
  BY DEF Accounts
<1>1. /\ {q \in Proc : proc'[q].text = x} = {q \in Proc : proc[q].text = x}
      /\ {q \in Proc : proc'[q].text = x /\ Counts(q)'} = {q \in Proc : proc[q].text = x /\ Counts(q)}
  OBVIOUS
<1>2. /\ text[x].count = Cardinality({q \in Proc : proc[q].text = x})
      /\ text[x].ccount = Cardinality({q \in Proc : proc[q].text = x /\ Counts(q)})
  BY DEF Accounts
<1> QED
  BY <1>1, <1>2

(* A step that takes nothing from the free list and puts nothing there. *)
Quiet(a) ==
    /\ free' = free /\ itext' = itext
    /\ \A x \in Text : text'[x].count = text[x].count /\ text'[x].iptr = text[x].iptr
    /\ a \in Proc => Claims(a)' = Claims(a) /\ (Claims(a) => at'[a].x = at[a].x)

LEMMA QuietStep ==
    ASSUME IInv, NEW a \in Actor, Aside(a), Quiet(a)
    PROVE  (Simple(free, Text) /\ Listed /\ Apart /\ Points)'
<1>1. \A p \in Proc : Claims(p)' = Claims(p) /\ (Claims(p) => at'[p].x = at[p].x)
  BY Actors DEF Aside, Quiet, Claims
<1>2. Listed'
  BY <1>1 DEF IInv, Listed, Quiet
<1>3. Apart'
  BY <1>1 DEF IInv, Apart
<1>4. Points'
  BY DEF IInv, Points, Quiet, Shape, Typed
<1> QED
  BY <1>2, <1>3, <1>4 DEF IInv, Quiet, Simple

(* The invariant is kept, in parts. *)
LEMMA IInvStep ==
    ASSUME IInv, Shape', NEW a \in Actor, Aside(a), Relocks(a), Spares(a), Mine(a)', Accounts',
           (Simple(free, Text) /\ Listed /\ Apart /\ Points)',
           \A x \in Text : text'[x].iptr = NoFile /\ ~text'[x].lock => ~text'[x].caddr
    PROVE  IInv'
<1>1. Locked'
  BY LockStep
<1>2. \A b \in Actor : Mine(b)'
  BY MineStep
<1> QED
  BY <1>1, <1>2 DEF IInv, Unnamed

-----------------------------------------------------------------------------
(* Steps of processes keep the invariant. *)

ProcHeld(p) ==
    (IF Fetches(p) \/ at[p].pc = "irele" THEN {at[p].x} ELSE {})
    \cup (IF at[p].pc = "unwrite" THEN {at[p].xp} ELSE {})
    \cup (IF at[p].pc = "outwrite" THEN {proc[p].text} ELSE {})

SchedHeld ==
    (IF Place(Sched) \in {"intext", "inimage", "inread"} THEN {proc[sp].text} \ {NoText} ELSE {})
    \cup (IF at[Sched].pc = "unwrite" THEN {at[Sched].xp} ELSE {})
    \cup (IF at[Sched].pc = "outwrite" THEN {proc[sp].text} ELSE {})

LEMMA ProcHolds == Shape => \A p \in Proc : Holds(p) = ProcHeld(p)
<1> SUFFICES ASSUME Shape, NEW p \in Proc PROVE Holds(p) = ProcHeld(p)
  OBVIOUS
<1>1. Place(p) \notin {"intext", "inimage", "inread"} /\ (Place(p) = "irele" <=> at[p].pc = "irele")
  BY ShapeOf DEF ControlOf, Out, Inner, Place
<1>2. Its(p) = proc[p].text
  BY Actors DEF Its, Whose
<1>3. Fetches(p) \/ at[p].pc = "irele"
      <=> \/ Place(p) \in {"irele", "xexpand", "xread"}
          \/ at[p].pc \in {"swapout", "xccdec", "outwrite", "image"} /\ at[p].after \in {"again", "readi"}
  BY <1>1 DEF Fetches, Out
<1> QED
  BY <1>1, <1>2, <1>3 DEF Holds, ProcHeld

LEMMA ProcHoldsNext == Shape' => (\A p \in Proc : Holds(p) = ProcHeld(p))'
BY ProcHolds, PTL

LEMMA SchedHolds == Shape => Holds(Sched) = SchedHeld
<1> SUFFICES ASSUME Shape PROVE Holds(Sched) = SchedHeld
  OBVIOUS
<1>1. Place(Sched) \notin {"irele", "xexpand", "xread"} /\ at[Sched].after = "sched"
  BY ShapeOfSched DEF SchedControl, Out
<1>2. Its(Sched) = proc[sp].text
  BY DEF Its, Whose
<1> QED
  BY <1>1, <1>2 DEF Holds, SchedHeld

LEMMA SchedHoldsNext == Shape' => (Holds(Sched) = SchedHeld)'
BY SchedHolds, PTL

(* Who else is counted does not depend on a step of p. *)
LEMMA CountsProc ==
    ASSUME NEW p \in Proc, Steps(p)
    PROVE  \A q \in Proc \ {p} : proc'[q].text = proc[q].text /\ Counts(q)' = Counts(q)
<1> SUFFICES ASSUME NEW q \in Proc, q # p
             PROVE  proc'[q].text = proc[q].text /\ Counts(q)' = Counts(q)
  OBVIOUS
<1>1. at'[q] = at[q] /\ proc'[q] = proc[q] /\ at'[Sched] = at[Sched] /\ sp' = sp
  BY Actors DEF Steps
<1> QED
  BY <1>1 DEF Counts, Place

(* Nobody is counted whose text counts nobody. *)
LEMMA Uncounted ==
    ASSUME IInv, NEW p \in Proc, proc[p].text # NoText, Counts(p)
    PROVE  text[proc[p].text].ccount # 0
<1> DEFINE x == proc[p].text
           S == {q \in Proc : proc[q].text = x /\ Counts(q)}
<1>1. x \in Text
  BY DEF IInv, Shape, Typed, Process
<1>2. text[x].ccount = Cardinality(S)
  BY <1>1 DEF IInv, Accounts
<1>3. IsFiniteSet(S) /\ p \in S
  BY ActorAssumption, FS_Subset
<1>4. Cardinality(S) # 0
  BY <1>3, FS_EmptySet
<1> QED
  BY <1>2, <1>4

(* What has no user has no user in core. *)
LEMMA UnusedCore ==
    ASSUME IInv, NEW x \in Text, text[x].count = 0
    PROVE  text[x].ccount = 0 /\ \A p \in Proc : proc[p].text # x
<1>1. \A p \in Proc : proc[p].text # x
  BY UnusedText, Actors
<1>2. {q \in Proc : proc[q].text = x /\ Counts(q)} = {}
  BY <1>1
<1>3. text[x].ccount = Cardinality({})
  BY <1>2 DEF IInv, Accounts
<1> QED
  BY <1>1, <1>3, FS_EmptySet

(* A step that changes no lock, no count and no entry's program. *)
Still(a) ==
    /\ Holds(a)' = Holds(a) /\ Quiet(a) /\ Mine(a)'
    /\ \A x \in Text : /\ text'[x].ccount = text[x].ccount /\ text'[x].lock = text[x].lock
                       /\ text'[x].caddr => text[x].caddr \/ text[x].lock

LEMMA StillStep ==
    ASSUME IInv, Shape', NEW a \in Actor, Aside(a), Still(a),
           \A q \in Proc : proc'[q].text = proc[q].text /\ Counts(q)' = Counts(q)
    PROVE  IInv'
<1>1. Relocks(a)
  <2>1. ASSUME NEW x \in Holds(a), x \in Text PROVE text[x].lock
    BY <2>1 DEF IInv, Locked
  <2> QED
    BY <2>1 DEF Relocks, Still
<1>2. Spares(a)
  BY DEF Spares, Still, Quiet
<1>3. Accounts'
  BY SameAccounts DEF IInv, Still, Quiet
<1>4. (Simple(free, Text) /\ Listed /\ Apart /\ Points)'
  BY QuietStep DEF Still
<1>5. \A x \in Text : text'[x].iptr = NoFile /\ ~text'[x].lock => ~text'[x].caddr
  BY DEF IInv, Unnamed, Still, Quiet
<1> QED
  BY <1>1, <1>2, <1>3, <1>4, <1>5, IInvStep DEF Still

LEMMA StillProc ==
    ASSUME IInv, Shape', NEW p \in Proc, Steps(p), Still(p),
           proc'[p].text = proc[p].text, Counts(p)' = Counts(p)
    PROVE  IInv'
<1>1. \A q \in Proc : proc'[q].text = proc[q].text /\ Counts(q)' = Counts(q)
  BY CountsProc
<1> QED
  BY <1>1, AsideProc, StillStep, Actors

LEMMA ExecInv ==
    ASSUME IInv, NEW p \in Proc, NEW f \in Execs[p], Exec(p, f)
    PROVE  IInv'
<1>1. Shape' /\ Steps(p) /\ DidExec(p, f)
  BY ExecShape DEF IInv
<1>2. Typed /\ ControlOf(p) /\ p \in Actor /\ p # Sched /\ Mine(p) /\ Holds(p) = ProcHeld(p)
      /\ Holds(p)' = ProcHeld(p)'
  BY <1>1, ShapeOf, ProcHolds, ProcHoldsNext DEF IInv
<1>3. Fetches(p)' = Fetches(p) /\ ~Claims(p) /\ ~Claims(p)'
  BY <1>1, <1>2 DEF DidExec, Runs, ControlOf, Place, Fetches, Claims, Goes, Moves, ProcIs, Out, Inner
<1>4. Holds(p)' = Holds(p)
  BY <1>1, <1>2, <1>3 DEF DidExec, Runs, ControlOf, ProcHeld, Goes, Moves, ProcIs, Place, Out, Fetches
<1>5. proc'[p].text = proc[p].text /\ proc'[p].loaded /\ Counts(p)' = Counts(p)
  BY <1>1, <1>2 DEF DidExec, Runs, ControlOf, Counts, Goes, Moves, ProcIs, Place, Out, Inner
<1>6. /\ free' = free /\ itext' = itext
      /\ \A x \in Text : /\ text'[x].count = text[x].count /\ text'[x].iptr = text[x].iptr
                         /\ text'[x].ccount = text[x].ccount /\ text'[x].lock = text[x].lock
                         /\ text'[x].caddr = text[x].caddr
  BY <1>1 DEF DidExec, Runs, EntryIs
<1>7. Mine(p)'
  BY <1>1, <1>2, <1>3, <1>5, <1>6 DEF DidExec, Runs, ControlOf, Mine, Goes, Moves, ProcIs, Typed, Process, Place, Fetches, Out
<1>8. Quiet(p)
  BY <1>3, <1>6 DEF Quiet, Claims
<1>9. Still(p)
  BY <1>4, <1>6, <1>7, <1>8 DEF Still
<1> QED
  BY <1>1, <1>5, <1>9, StillProc

LEMMA GrowInv ==
    ASSUME IInv, NEW p \in Proc, Grow(p)
    PROVE  IInv'
<1>1. Shape' /\ Steps(p) /\ DidGrow(p)
  BY GrowShape DEF IInv
<1>2. Typed /\ ControlOf(p) /\ p \in Actor /\ p # Sched /\ Mine(p) /\ Holds(p) = ProcHeld(p)
      /\ Holds(p)' = ProcHeld(p)'
  BY <1>1, ShapeOf, ProcHolds, ProcHoldsNext DEF IInv
<1>3. Fetches(p)' = Fetches(p) /\ ~Claims(p) /\ ~Claims(p)'
  BY <1>1, <1>2 DEF DidGrow, Rest, Runs, ControlOf, Place, Fetches, Claims, Goes, Moves, ProcIs, Out, Inner
<1>4. Holds(p)' = Holds(p)
  BY <1>1, <1>2, <1>3 DEF DidGrow, Rest, Runs, ControlOf, ProcHeld, Goes, Moves, ProcIs, Place, Out, Fetches
<1>5. proc'[p].text = proc[p].text /\ proc'[p].loaded /\ Counts(p)' = Counts(p)
  BY <1>1, <1>2 DEF DidGrow, Rest, Runs, ControlOf, Counts, Goes, Moves, ProcIs, Place, Out, Inner
<1>6. /\ free' = free /\ itext' = itext
      /\ \A x \in Text : /\ text'[x].count = text[x].count /\ text'[x].iptr = text[x].iptr
                         /\ text'[x].ccount = text[x].ccount /\ text'[x].lock = text[x].lock
                         /\ text'[x].caddr = text[x].caddr
  BY <1>1 DEF DidGrow, Rest, Runs, EntryIs
<1>7. Mine(p)'
  BY <1>1, <1>2, <1>3, <1>5, <1>6 DEF DidGrow, Rest, Runs, ControlOf, Mine, Goes, Moves, ProcIs, Typed, Process, Place, Fetches, Out
<1>8. Quiet(p)
  BY <1>3, <1>6 DEF Quiet, Claims
<1>9. Still(p)
  BY <1>4, <1>6, <1>7, <1>8 DEF Still
<1> QED
  BY <1>1, <1>5, <1>9, StillProc

LEMMA ExpandInv ==
    ASSUME IInv, NEW p \in Proc, Expand(p)
    PROVE  IInv'
<1>1. Shape' /\ Steps(p) /\ DidExpand(p)
  BY ExpandShape DEF IInv
<1>2. Typed /\ ControlOf(p) /\ p \in Actor /\ p # Sched /\ Mine(p) /\ Holds(p) = ProcHeld(p)
      /\ Holds(p)' = ProcHeld(p)'
  BY <1>1, ShapeOf, ProcHolds, ProcHoldsNext DEF IInv
<1>3. Fetches(p)' = Fetches(p) /\ ~Claims(p) /\ ~Claims(p)'
  BY <1>1, <1>2 DEF DidExpand, Rest, Runs, ControlOf, Place, Fetches, Claims, Goes, Moves, ProcIs, Out, Inner
<1>4. Holds(p)' = Holds(p)
  BY <1>1, <1>2, <1>3 DEF DidExpand, Rest, Runs, ControlOf, ProcHeld, Goes, Moves, ProcIs, Place, Out, Fetches
<1>5. proc'[p].text = proc[p].text /\ proc'[p].loaded /\ Counts(p)' = Counts(p)
  BY <1>1, <1>2 DEF DidExpand, Rest, Runs, ControlOf, Counts, Goes, Moves, ProcIs, Place, Out, Inner
<1>6. /\ free' = free /\ itext' = itext
      /\ \A x \in Text : /\ text'[x].count = text[x].count /\ text'[x].iptr = text[x].iptr
                         /\ text'[x].ccount = text[x].ccount /\ text'[x].lock = text[x].lock
                         /\ text'[x].caddr = text[x].caddr
  BY <1>1 DEF DidExpand, Rest, Runs, EntryIs
<1>7. Mine(p)'
  BY <1>1, <1>2, <1>3, <1>5, <1>6 DEF DidExpand, Rest, Runs, ControlOf, Mine, Goes, Moves, ProcIs, Typed, Process, Place, Fetches, Out
<1>8. Quiet(p)
  BY <1>3, <1>6 DEF Quiet, Claims
<1>9. Still(p)
  BY <1>4, <1>6, <1>7, <1>8 DEF Still
<1> QED
  BY <1>1, <1>5, <1>9, StillProc

LEMMA XwaitedInv ==
    ASSUME IInv, NEW p \in Proc, Xwaited(p)
    PROVE  IInv'
<1>1. Shape' /\ Steps(p) /\ DidXwaited(p)
  BY XwaitedShape DEF IInv
<1>2. Typed /\ ControlOf(p) /\ p \in Actor /\ p # Sched /\ Mine(p) /\ Holds(p) = ProcHeld(p)
      /\ Holds(p)' = ProcHeld(p)'
  BY <1>1, ShapeOf, ProcHolds, ProcHoldsNext DEF IInv
<1>3. Fetches(p)' = Fetches(p) /\ ~Claims(p) /\ ~Claims(p)'
  BY <1>1, <1>2 DEF DidXwaited, Rest, Gets, Runs, ControlOf, Place, Fetches, Claims, Goes, Moves, ProcIs, Out, Inner
<1>4. Holds(p)' = Holds(p)
  BY <1>1, <1>2, <1>3 DEF DidXwaited, Rest, Gets, Runs, ControlOf, ProcHeld, Goes, Moves, ProcIs, Place, Out, Fetches
<1>5. proc'[p].text = proc[p].text /\ proc'[p].loaded /\ Counts(p)' = Counts(p)
  BY <1>1, <1>2 DEF DidXwaited, Rest, Gets, Runs, ControlOf, Counts, Goes, Moves, ProcIs, Place, Out, Inner
<1>6. /\ free' = free /\ itext' = itext
      /\ \A x \in Text : /\ text'[x].count = text[x].count /\ text'[x].iptr = text[x].iptr
                         /\ text'[x].ccount = text[x].ccount /\ text'[x].lock = text[x].lock
                         /\ text'[x].caddr = text[x].caddr
  BY <1>1 DEF DidXwaited, Rest, Gets, Runs, EntryIs
<1>7. Mine(p)'
  BY <1>1, <1>2, <1>3, <1>5, <1>6 DEF DidXwaited, Rest, Gets, Runs, ControlOf, Mine, Goes, Moves, ProcIs, Typed, Process, Place, Fetches, Out
<1>8. Quiet(p)
  BY <1>3, <1>6 DEF Quiet, Claims
<1>9. Still(p)
  BY <1>4, <1>6, <1>7, <1>8 DEF Still
<1> QED
  BY <1>1, <1>5, <1>9, StillProc

LEMMA ReadiInv ==
    ASSUME IInv, NEW p \in Proc, Readi(p)
    PROVE  IInv'
<1>1. Shape' /\ Steps(p) /\ DidReadi(p)
  BY ReadiShape DEF IInv
<1>2. Typed /\ ControlOf(p) /\ p \in Actor /\ p # Sched /\ Mine(p) /\ Holds(p) = ProcHeld(p)
      /\ Holds(p)' = ProcHeld(p)'
  BY <1>1, ShapeOf, ProcHolds, ProcHoldsNext DEF IInv
<1>3. Fetches(p)' = Fetches(p) /\ ~Claims(p) /\ ~Claims(p)'
  BY <1>1, <1>2 DEF DidReadi, Runs, ControlOf, Place, Fetches, Claims, Goes, Moves, ProcIs, Out, Inner
<1>4. Holds(p)' = Holds(p)
  BY <1>1, <1>2, <1>3 DEF DidReadi, Runs, ControlOf, ProcHeld, Goes, Moves, ProcIs, Place, Out, Fetches
<1>5. proc'[p].text = proc[p].text /\ proc'[p].loaded /\ Counts(p)' = Counts(p)
  BY <1>1, <1>2 DEF DidReadi, Runs, ControlOf, Counts, Goes, Moves, ProcIs, Place, Out, Inner
<1>6. /\ free' = free /\ itext' = itext
      /\ \A x \in Text : /\ text'[x].count = text[x].count /\ text'[x].iptr = text[x].iptr
                         /\ text'[x].ccount = text[x].ccount /\ text'[x].lock = text[x].lock
                         /\ text'[x].caddr = text[x].caddr
  BY <1>1 DEF DidReadi, Runs, EntryIs
<1>7. Mine(p)'
  BY <1>1, <1>2, <1>3, <1>5, <1>6 DEF DidReadi, Runs, ControlOf, Mine, Goes, Moves, ProcIs, Typed, Process, Place, Fetches, Out
<1>8. Quiet(p)
  BY <1>3, <1>6 DEF Quiet, Claims
<1>9. Still(p)
  BY <1>4, <1>6, <1>7, <1>8 DEF Still
<1> QED
  BY <1>1, <1>5, <1>9, StillProc

LEMMA ReadInInv ==
    ASSUME IInv, NEW p \in Proc, ReadIn(p)
    PROVE  IInv'
<1>1. Shape' /\ Steps(p) /\ DidReadIn(p)
  BY ReadInShape DEF IInv
<1>2. Typed /\ ControlOf(p) /\ p \in Actor /\ p # Sched /\ Mine(p) /\ Holds(p) = ProcHeld(p)
      /\ Holds(p)' = ProcHeld(p)'
  BY <1>1, ShapeOf, ProcHolds, ProcHoldsNext DEF IInv
<1>3. Fetches(p)' = Fetches(p) /\ ~Claims(p) /\ ~Claims(p)'
  BY <1>1, <1>2 DEF DidReadIn, Runs, ControlOf, Place, Fetches, Claims, Goes, Moves, ProcIs, Out, Inner
<1>4. Holds(p)' = Holds(p)
  BY <1>1, <1>2, <1>3 DEF DidReadIn, Runs, ControlOf, ProcHeld, Goes, Moves, ProcIs, Place, Out, Fetches
<1>5. proc'[p].text = proc[p].text /\ proc'[p].loaded /\ Counts(p)' = Counts(p)
  BY <1>1, <1>2 DEF DidReadIn, Runs, ControlOf, Counts, Goes, Moves, ProcIs, Place, Out, Inner
<1>6. /\ free' = free /\ itext' = itext
      /\ \A x \in Text : /\ text'[x].count = text[x].count /\ text'[x].iptr = text[x].iptr
                         /\ text'[x].ccount = text[x].ccount /\ text'[x].lock = text[x].lock
                         /\ text'[x].caddr = text[x].caddr
  BY <1>1 DEF DidReadIn, Runs, EntryIs
<1>7. Mine(p)'
  BY <1>1, <1>2, <1>3, <1>5, <1>6 DEF DidReadIn, Runs, ControlOf, Mine, Goes, Moves, ProcIs, Typed, Process, Place, Fetches, Out
<1>8. Quiet(p)
  BY <1>3, <1>6 DEF Quiet, Claims
<1>9. Still(p)
  BY <1>4, <1>6, <1>7, <1>8 DEF Still
<1> QED
  BY <1>1, <1>5, <1>9, StillProc

LEMMA OffSimple ==
    ASSUME Simple(free, Text), NEW x \in Text
    PROVE  Simple(Off(x), Text) /\ ToSet(Off(x)) = ToSet(free) \ {x}
<1>1. DOMAIN free = 1..Len(free)
  BY LenProperties DEF Simple
<1>2. CASE \E i \in DOMAIN free : free[i] = x
  <2> DEFINE i == CHOOSE j \in DOMAIN free : free[j] = x
  <2>1. i \in 1..Len(free) /\ free[i] = x
    BY <1>1, <1>2
  <2>2. Off(x) = RemoveAt(free, i)
    BY <1>2 DEF Off
  <2> HIDE DEF i
  <2> QED
    BY <2>1, <2>2, RemoveSimple
<1>3. CASE ~\E i \in DOMAIN free : free[i] = x
  <2>1. Off(x) = free
    BY <1>3 DEF Off
  <2>2. x \notin ToSet(free)
    BY <1>3 DEF ToSet
  <2> QED
    BY <2>1, <2>2
<1> QED
  BY <1>2, <1>3

LEMMA CountsNat ==
    ASSUME IInv, NEW x \in Text
    PROVE  text[x].count \in Nat /\ text[x].ccount \in Nat
<1>1. /\ text[x].count = Cardinality({q \in Proc : proc[q].text = x})
      /\ text[x].ccount = Cardinality({q \in Proc : proc[q].text = x /\ Counts(q)})
  BY DEF IInv, Accounts
<1>2. IsFiniteSet({q \in Proc : proc[q].text = x}) /\ IsFiniteSet({q \in Proc : proc[q].text = x /\ Counts(q)})
  BY ActorAssumption, FS_Subset
<1> QED
  BY <1>1, <1>2, FS_CardinalityType

(* The counts change by what p adds to them. *)
Tallies(p) ==
    \A x \in Text : /\ text'[x].count = text[x].count + Uses(p, x)' - Uses(p, x)
                    /\ text'[x].ccount = text[x].ccount + UsesCore(p, x)' - UsesCore(p, x)

LEMMA ProcStep ==
    ASSUME IInv, Shape', NEW p \in Proc, Steps(p), Relocks(p), Spares(p), Mine(p)', Tallies(p),
           (Simple(free, Text) /\ Listed /\ Apart /\ Points)',
           \A x \in Text : text'[x].iptr = NoFile /\ ~text'[x].lock => ~text'[x].caddr
    PROVE  IInv'
<1>1. Accounts'
  BY AccountsStep, CountsProc DEF IInv, Shape, Tallies
<1> QED
  BY <1>1, AsideProc, IInvStep, Actors

LEMMA XreadInv ==
    ASSUME IInv, NEW p \in Proc, Xread(p)
    PROVE  IInv'
<1>1. Shape' /\ Steps(p) /\ DidXread(p)
  BY XreadShape DEF IInv
<1>2. Typed /\ ControlOf(p) /\ p \in Actor /\ p # Sched /\ Mine(p) /\ Holds(p) = ProcHeld(p)
      /\ Holds(p)' = ProcHeld(p)'
  BY <1>1, ShapeOf, ProcHolds, ProcHoldsNext DEF IInv
<1> DEFINE x == at[p].x
<1>3. /\ x \in Text /\ proc[p].text = x /\ at[p].pc = "xread" /\ at'[p].pc \in {"again", "readi"}
      /\ at'[p].after = at[p].after /\ at'[p].x = x /\ proc' = proc /\ proc[p].loaded
  BY <1>1, <1>2 DEF DidXread, Steps, Runs, ControlOf, Place, Moves, Goes
<1>4. /\ free' = free /\ itext' = itext /\ text'[x].lock = FALSE /\ text'[x].ccount = text[x].ccount + 1
      /\ text'[x].count = text[x].count /\ text'[x].iptr = text[x].iptr
      /\ \A y \in Text \ {x} : text'[y] = text[y]
  BY <1>1 DEF DidXread, EntryIs
<1>5. Holds(p) = {x} /\ Holds(p)' = {}
  BY <1>2, <1>3 DEF ProcHeld, Fetches, Place, Out
<1>6. Relocks(p)
  BY <1>3, <1>4, <1>5 DEF Relocks, IInv, Locked
<1>7. Spares(p)
  BY <1>3, <1>4, <1>5 DEF Spares
<1>8. Mine(p)'
  BY <1>2, <1>3, <1>4 DEF Mine, Fetches, Place, Out
<1>9. Counts(p)' = TRUE /\ Counts(p) = FALSE
  BY <1>3 DEF Counts, Place
<1>10. Tallies(p)
  BY <1>2, <1>3, <1>4, <1>9 DEF Tallies, Uses, UsesCore, Typed, RawEntry
<1>11. Quiet(p)
  BY <1>3, <1>4 DEF Quiet, Claims
<1>12. \A y \in Text : text'[y].iptr = NoFile /\ ~text'[y].lock => ~text'[y].caddr
  BY <1>2, <1>3, <1>4, Actors DEF Mine, IInv, Unnamed
<1> QED
  BY <1>1, <1>2, <1>6, <1>7, <1>8, <1>10, <1>11, <1>12, ProcStep, QuietStep, AsideProc

LEMMA XexpandInv ==
    ASSUME IInv, NEW p \in Proc, Xexpand(p)
    PROVE  IInv'
<1>1. Shape' /\ Steps(p) /\ DidXexpand(p)
  BY XexpandShape DEF IInv
<1>2. Typed /\ ControlOf(p) /\ p \in Actor /\ p # Sched /\ Mine(p) /\ Holds(p) = ProcHeld(p)
      /\ Holds(p)' = ProcHeld(p)'
  BY <1>1, ShapeOf, ProcHolds, ProcHoldsNext DEF IInv
<1> DEFINE x == at[p].x
<1>3. /\ x \in Text /\ proc[p].text = x /\ at[p].pc = "xexpand" /\ at[p].after \in {"again", "readi"}
      /\ proc[p].loaded /\ free' = free /\ itext' = itext
  BY <1>1, <1>2 DEF DidXexpand, Steps, Runs, ControlOf, Place, Rest
<1>4. Holds(p) = {x} /\ text[x].lock /\ Fetches(p)
  BY <1>2, <1>3 DEF ProcHeld, Fetches, Place, Out, IInv, Locked
<1>5. CASE /\ proc' = proc /\ Moves(p, at[p].after)
           /\ EntryIs(x, text[x].iptr, text[x].count, text[x].ccount + 1, FALSE,
                      text[x].writ, text[x].load, TRUE, text[x].core, text[x].swap)
  <2>1. /\ at'[p].pc \in {"again", "readi"} /\ at'[p].after = at[p].after /\ at'[p].x = x /\ proc' = proc
    BY <1>3, <1>5 DEF Moves, Goes
  <2>2. /\ text'[x].lock = FALSE /\ text'[x].ccount = text[x].ccount + 1
        /\ text'[x].count = text[x].count /\ text'[x].iptr = text[x].iptr
        /\ \A y \in Text \ {x} : text'[y] = text[y]
    BY <1>5 DEF EntryIs
  <2>3. Holds(p)' = {}
    BY <1>2, <2>1 DEF ProcHeld, Fetches, Place, Out
  <2>4. Relocks(p)
    BY <1>3, <1>4, <2>2, <2>3 DEF Relocks, IInv, Locked
  <2>5. Spares(p)
    BY <1>3, <1>4, <2>2 DEF Spares
  <2>6. Mine(p)'
    BY <1>2, <1>3, <2>1, <2>2 DEF Mine, Fetches, Place, Out
  <2>7. Counts(p)' = TRUE /\ Counts(p) = FALSE
    BY <1>3, <2>1 DEF Counts, Place
  <2>8. Tallies(p)
    BY SMTT(30), <1>2, <1>3, <2>1, <2>2, <2>7 DEF Tallies, Uses, UsesCore, Typed, RawEntry
  <2>9. Quiet(p)
    BY <1>3, <2>1, <2>2 DEF Quiet, Claims
  <2>10. \A y \in Text : text'[y].iptr = NoFile /\ ~text'[y].lock => ~text'[y].caddr
    BY <1>2, <1>3, <2>2, Actors DEF Mine, IInv, Unnamed
  <2> QED
    BY <1>1, <1>2, <2>4, <2>5, <2>6, <2>8, <2>9, <2>10, ProcStep, QuietStep, AsideProc
<1>6. CASE \/ /\ proc' = proc /\ Moves(p, "xread")
              /\ EntryIs(x, text[x].iptr, text[x].count, text[x].ccount, text[x].lock,
                         text[x].writ, text[x].load, TRUE, text[x].core, text[x].swap)
           \/ /\ \E xp : Goes(p, "xuncore", x, xp, "xexpand", at[p].after)
              /\ UNCHANGED Rest
           \/ /\ EntryIs(x, text[x].iptr, text[x].count, text[x].ccount, text[x].lock,
                         text[x].writ, text[x].load, FALSE, text[x].core, text[x].swap)
              /\ Moves(p, "swapout")
              /\ ProcIs(p, proc[p].text, proc[p].prog, TRUE, TRUE)
  <2>1. /\ \A y \in Text : /\ text'[y].count = text[y].count /\ text'[y].iptr = text[y].iptr
                           /\ text'[y].ccount = text[y].ccount /\ text'[y].lock = text[y].lock
                           /\ text'[y].caddr => text[y].caddr \/ text[y].lock
    BY <1>3, <1>4, <1>6 DEF EntryIs, Rest
  <2>2. proc'[p].text = x /\ proc'[p].loaded /\ at'[p].x = x /\ at'[p].after = at[p].after
        /\ (at'[p].pc \in {"xread", "swapout"} \/ (at'[p].pc = "xuncore" /\ at'[p].ret = "xexpand"))
    <3>1. CASE proc' = proc /\ Moves(p, "xread")
      BY <1>3, <3>1 DEF Moves, Goes
    <3>2. CASE (\E xp : Goes(p, "xuncore", x, xp, "xexpand", at[p].after)) /\ UNCHANGED Rest
      BY <1>3, <3>2 DEF Rest, Goes
    <3>3. CASE Moves(p, "swapout") /\ ProcIs(p, proc[p].text, proc[p].prog, TRUE, TRUE)
      BY <1>3, <3>3 DEF Moves, Goes, ProcIs
    <3> QED
      BY <1>6, <3>1, <3>2, <3>3
  <2>3. Fetches(p)' = TRUE /\ ~Claims(p)' /\ ~Claims(p)
    BY <1>3, <2>2 DEF Fetches, Place, Out, Claims
  <2>4. Holds(p)' = {x}
    BY <1>2, <2>2, <2>3 DEF ProcHeld
  <2>5. Counts(p)' = FALSE /\ Counts(p) = FALSE
    BY <1>3, <2>2 DEF Counts, Place
  <2>6. Mine(p)'
    BY <1>2, <1>3, <1>4, <2>1, <2>2 DEF Mine
  <2>7. Quiet(p)
    BY <1>3, <2>1, <2>3 DEF Quiet, Claims
  <2>8. Still(p)
    BY <1>4, <2>1, <2>4, <2>6, <2>7 DEF Still
  <2> QED
    BY ZenonT(60), <1>1, <1>3, <2>2, <2>5, <2>8, StillProc
<1> QED
  BY <1>1, <1>5, <1>6 DEF DidXexpand

LEMMA UnlockAgainInv ==
    ASSUME IInv, NEW p \in Proc, UnlockAgain(p), ~UnlocksOther
    PROVE  IInv'
<1>1. Shape' /\ Steps(p) /\ DidUnlockAgain(p)
  BY UnlockAgainShape DEF IInv
<1>2. Typed /\ ControlOf(p) /\ p \in Actor /\ p # Sched /\ Mine(p) /\ Holds(p) = ProcHeld(p)
      /\ Holds(p)' = ProcHeld(p)'
  BY <1>1, ShapeOf, ProcHolds, ProcHoldsNext DEF IInv
<1> DEFINE x == at[p].x
<1>3. text[x].lock = FALSE
  BY <1>1, <1>2 DEF UnlocksOther, DidUnlockAgain, Typed, RawEntry
<1>4. /\ at[p].pc = "again" /\ at'[p].pc = "user" /\ proc' = proc /\ proc[p].loaded
      /\ at'[p].after = "user"
  BY <1>1 DEF DidUnlockAgain, Goes, Steps, Runs
<1>5. Fetches(p)' = Fetches(p) /\ ~Claims(p) /\ ~Claims(p)' /\ ~Fetches(p)
  BY <1>4 DEF Fetches, Claims, Place, Out
<1>6. Holds(p)' = Holds(p)
  BY <1>2, <1>4, <1>5 DEF ProcHeld
<1>7. Counts(p)' = Counts(p)
  BY <1>4 DEF Counts, Place
<1>8. /\ free' = free /\ itext' = itext
      /\ \A y \in Text : /\ text'[y].count = text[y].count /\ text'[y].iptr = text[y].iptr
                         /\ text'[y].ccount = text[y].ccount /\ text'[y].lock = text[y].lock
                         /\ text'[y].caddr = text[y].caddr
  BY <1>1, <1>3 DEF DidUnlockAgain, EntryIs
<1>9. Mine(p)'
  BY <1>2, <1>4, <1>5, <1>8 DEF Mine, Typed, Process
<1>10. Quiet(p)
  BY <1>5, <1>8 DEF Quiet, Claims
<1>11. Still(p)
  BY <1>6, <1>8, <1>9, <1>10 DEF Still
<1> QED
  BY <1>1, <1>4, <1>7, <1>11, StillProc

LEMMA XfreeInv ==
    ASSUME IInv, NEW p \in Proc, Xfree(p), ~ReusedInUse
    PROVE  IInv'
<1>1. Shape' /\ Steps(p) /\ DidXfree(p)
  BY XfreeShape DEF IInv
<1>2. Typed /\ ControlOf(p) /\ p \in Actor /\ p # Sched /\ Mine(p) /\ Holds(p) = ProcHeld(p)
      /\ Holds(p)' = ProcHeld(p)'
  BY <1>1, ShapeOf, ProcHolds, ProcHoldsNext DEF IInv
<1> DEFINE x == proc[p].text
<1>3. /\ at[p].pc = "xfree" /\ at'[p].pc \in {"expand", "xalloc"} /\ proc[p].loaded
      /\ proc'[p].text = NoText /\ proc'[p].loaded /\ itext' = itext
  BY <1>1 DEF DidXfree, Steps, Runs, Gets, Moves, Goes, ProcIs
<1>4. Fetches(p) = FALSE /\ Fetches(p)' = FALSE /\ Counts(p) = TRUE /\ Counts(p)' = TRUE
      /\ ~Claims(p) /\ ~Claims(p)'
  BY <1>3 DEF Fetches, Counts, Claims, Place, Out
<1>5. Holds(p) = {} /\ Holds(p)' = {}
  BY <1>2, <1>3, <1>4 DEF ProcHeld
<1>6. Mine(p)'
  BY <1>3, <1>4 DEF Mine
<1>7. \A y \in Text : y \in Holds(p)' <=> y \in Holds(p)
  BY <1>5
<1>8. CASE x = NoText /\ UNCHANGED <<text, free>>
  <2>1. Quiet(p)
    BY <1>3, <1>4, <1>8 DEF Quiet, Claims
  <2>2. Still(p)
    BY <1>5, <1>6, <1>8, <2>1 DEF Still
  <2> QED
    BY <1>1, <1>3, <1>4, <1>8, <2>2, StillProc
<1>9. CASE /\ x \in Text
           /\ EntryIs(x, text[x].iptr, text[x].count - 1, text[x].ccount - 1, text[x].lock,
                      text[x].writ, text[x].load, text[x].caddr, text[x].core, text[x].swap)
           /\ free' = IF text[x].count = 1 THEN Append(free, x) ELSE free
  <2>1. ~text[x].lock
    BY <1>1, <1>2, <1>3, <1>9, Actors DEF DidXfree, Gets, Wants, Its, Whose
  <2>2. /\ text'[x].count = text[x].count - 1 /\ text'[x].ccount = text[x].ccount - 1
        /\ text'[x].lock = text[x].lock /\ text'[x].iptr = text[x].iptr /\ text'[x].caddr = text[x].caddr
        /\ \A y \in Text \ {x} : text'[y] = text[y]
    BY <1>9 DEF EntryIs
  <2>3. Relocks(p)
    BY <1>5, <2>2 DEF Relocks, IInv, Locked
  <2>4. text[x].count # 0 /\ text[x].iptr # NoFile /\ text[x].count \in Nat
    BY <1>2, <1>9, UnusedText, CountsNat, Actors DEF Mine
  <2>5. Spares(p)
    BY <2>1, <2>2, <2>4 DEF Spares
  <2>6. Tallies(p)
    <3>1. \A y \in Text : /\ Uses(p, y)' = 0 /\ UsesCore(p, y)' = 0
                         /\ Uses(p, y) = (IF y = x THEN 1 ELSE 0) /\ UsesCore(p, y) = (IF y = x THEN 1 ELSE 0)
      BY <1>3, <1>4, Actors DEF Uses, UsesCore
    <3>2. \A y \in Text : text[y].count \in Int /\ text[y].ccount \in Int
      BY <1>2 DEF Typed, RawEntry
    <3> QED
      BY <2>2, <3>1, <3>2 DEF Tallies
  <2>7. \A q \in Proc : Claims(q) => at[q].x # x /\ q # p
    <3> SUFFICES ASSUME NEW q \in Proc, Claims(q), at[q].x = x PROVE FALSE
      BY <1>4
    <3>1. CASE at[q].pc = "xuntext"
      BY <3>1, <2>4 DEF ReusedInUse
    <3>2. CASE at[q].pc = "irele"
      BY <3>2, <2>4, Actors DEF IInv, Mine
    <3> QED
      BY <3>1, <3>2 DEF Claims
  <2>8. \A q \in Proc : Claims(q)' = Claims(q) /\ (Claims(q) => at'[q].x = at[q].x)
    BY <1>1, <1>4, Actors DEF Claims, Steps
  <2>9. x \notin ToSet(free) /\ Simple(free, Text)
    BY <1>9, <2>4 DEF IInv, Listed
  <2>10. Simple(free', Text) /\ ToSet(free') = IF text[x].count = 1 THEN ToSet(free) \cup {x} ELSE ToSet(free)
    <3>1. Simple(Append(free, x), Text) /\ ToSet(Append(free, x)) = ToSet(free) \cup {x}
      BY <1>9, <2>9, AppendSimple
    <3> QED
      BY <1>9, <2>9, <3>1
  <2>11. Listed'
    BY <1>9, <2>2, <2>4, <2>7, <2>8, <2>10 DEF IInv, Listed
  <2>12. Apart' /\ Points'
    BY <1>2, <1>3, <2>2, <2>8 DEF IInv, Apart, Points, Typed
  <2>13. (Simple(free, Text) /\ Listed /\ Apart /\ Points)'
    BY SMTT(30), <2>10, <2>11, <2>12 DEF Simple
  <2>14. \A y \in Text : text'[y].iptr = NoFile /\ ~text'[y].lock => ~text'[y].caddr
    BY SMTT(30), <1>9, <2>2, <2>4 DEF IInv, Unnamed
  <2> QED
    BY <1>1, <1>6, <2>3, <2>5, <2>6, <2>13, <2>14, ProcStep
<1> QED
  BY <1>1, <1>8, <1>9 DEF DidXfree

LEMMA AttachInv ==
    ASSUME IInv, NEW p \in Proc, Attach(p)
    PROVE  IInv'
<1>1. Shape' /\ Steps(p) /\ DidAttach(p)
  BY AttachShape DEF IInv
<1>2. Typed /\ ControlOf(p) /\ p \in Actor /\ p # Sched /\ Mine(p) /\ Holds(p) = ProcHeld(p)
      /\ Holds(p)' = ProcHeld(p)'
  BY <1>1, ShapeOf, ProcHolds, ProcHoldsNext DEF IInv
<1> DEFINE f == proc[p].prog
           x == itext[f]
<1>3. at[p].pc = "xalloc" /\ at[p].after = "xalloc" /\ proc[p].text = NoText /\ proc[p].loaded /\ itext' = itext
  BY <1>1, <1>2 DEF DidAttach, Steps, Runs, ControlOf, Place
<1>4. Fetches(p) = FALSE /\ Counts(p) = TRUE /\ ~Claims(p)
  BY <1>3 DEF Fetches, Counts, Claims, Place, Out
<1>5. Holds(p) = {}
  BY <1>2, <1>3, <1>4 DEF ProcHeld
<1>6. CASE /\ at'[p].pc \in {"user", "xwait"} /\ UNCHANGED <<text, free, proc>>
  <2>1. Fetches(p)' = FALSE /\ Counts(p)' = TRUE /\ ~Claims(p)'
    BY <1>3, <1>6 DEF Fetches, Counts, Claims, Place, Out
  <2>2. Holds(p)' = {}
    BY <1>2, <1>6, <2>1 DEF ProcHeld
  <2>3. Mine(p)'
    BY <1>3, <1>6, <2>1 DEF Mine
  <2>4. Quiet(p)
    BY <1>3, <1>4, <1>6, <2>1 DEF Quiet, Claims
  <2>5. Still(p)
    BY <1>5, <1>6, <2>2, <2>3, <2>4 DEF Still
  <2> QED
    BY <1>1, <1>4, <1>6, <2>1, <2>5, StillProc
<1>7. CASE /\ f \in File /\ x \in Text /\ text[x].lock = FALSE
           /\ free' = Off(x) /\ ProcIs(p, x, f, proc[p].loaded, proc[p].slock)
           /\ text'[x].count = text[x].count + 1 /\ text'[x].iptr = text[x].iptr
           /\ text'[x].caddr = text[x].caddr /\ \A y \in Text \ {x} : text'[y] = text[y]
           /\ Holds(p)' \subseteq {x} /\ (text'[x].lock <=> x \in Holds(p)')
           /\ text'[x].ccount = text[x].ccount + (IF Counts(p)' THEN 1 ELSE 0)
           /\ Fetches(p)' => text'[x].ccount = 0 /\ at'[p].x = x
           /\ at'[p].pc \in {"user", "xexpand"}
  <2>1. proc'[p].text = x /\ proc'[p].loaded
    BY <1>3, <1>7 DEF ProcIs
  <2>2. text[x].iptr = f /\ f # NoFile
    BY <1>7, Actors DEF IInv, Points
  <2>3. Mine(p)'
    BY <1>7, <2>1, <2>2 DEF Mine
  <2>4. Relocks(p)
    BY <1>5, <1>7 DEF Relocks, IInv, Locked
  <2>5. Spares(p)
    BY <1>7, <2>2 DEF Spares
  <2>6. Tallies(p)
    BY SMTT(30), <1>2, <1>3, <1>7, <2>1, Actors DEF Tallies, Uses, UsesCore, Typed, RawEntry
  <2>7. Simple(Off(x), Text) /\ ToSet(Off(x)) = ToSet(free) \ {x} /\ text[x].count \in Nat
    BY <1>7, OffSimple, CountsNat DEF IInv
  <2>8. \A q \in Proc : Claims(q)' = Claims(q) /\ (Claims(q) => at'[q].x = at[q].x)
    BY SMTT(30), <1>1, <1>4, <1>7, Actors DEF Claims, Steps
  <2>9. Listed'
    BY <1>7, <2>7, <2>8 DEF IInv, Listed
  <2>10. Apart' /\ Points'
    BY <1>2, <1>3, <1>7, <2>8 DEF IInv, Apart, Points, Typed
  <2>11. (Simple(free, Text) /\ Listed /\ Apart /\ Points)'
    BY <1>7, <2>7, <2>9, <2>10 DEF Simple
  <2>12. \A y \in Text : text'[y].iptr = NoFile /\ ~text'[y].lock => ~text'[y].caddr
    BY <1>7, <2>2 DEF IInv, Unnamed
  <2> QED
    BY <1>1, <2>3, <2>4, <2>5, <2>6, <2>11, <2>12, ProcStep
<1>8. CASE /\ f \in File /\ x \in Text /\ text[x].lock = FALSE
           /\ free' = Off(x) /\ ProcIs(p, x, f, proc[p].loaded, proc[p].slock)
           /\ text[x].caddr = FALSE /\ text[x].ccount = 0
           /\ EntryIs(x, text[x].iptr, text[x].count + 1, text[x].ccount, TRUE,
                      text[x].writ, text[x].load, text[x].caddr, text[x].core, text[x].swap)
           /\ Goes(p, "xexpand", x, at[p].xp, at[p].ret, "again")
  <2>1. at'[p].pc = "xexpand" /\ at'[p].x = x
    BY <1>8 DEF Goes
  <2>2. Counts(p)' = FALSE /\ Fetches(p)' = TRUE
    BY <2>1 DEF Counts, Fetches, Place
  <2>3. Holds(p)' = {x}
    BY SMTT(30), <1>2, <2>1, <2>2 DEF ProcHeld
  <2>4. /\ text'[x].count = text[x].count + 1 /\ text'[x].iptr = text[x].iptr
        /\ text'[x].caddr = text[x].caddr /\ text'[x].lock = TRUE /\ text'[x].ccount = 0
        /\ \A y \in Text \ {x} : text'[y] = text[y]
    BY <1>8 DEF EntryIs
  <2>5. text'[x].ccount = text[x].ccount + (IF Counts(p)' THEN 1 ELSE 0)
    <3>1. (IF Counts(p)' THEN 1 ELSE 0) = 0
      BY <2>2, ZenonT(60)
    <3>2. text[x].ccount = 0 /\ text'[x].ccount = 0
      BY SMTT(30), <1>8, <2>4
    <3> QED
      BY <3>1, <3>2
  <2> QED
    BY ZenonT(60), <1>7, <1>8, <2>1, <2>2, <2>3, <2>4, <2>5
<1>9. CASE /\ f \in File /\ x \in Text /\ text[x].lock = FALSE
           /\ free' = Off(x) /\ ProcIs(p, x, f, proc[p].loaded, proc[p].slock)
           /\ EntryIs(x, text[x].iptr, text[x].count + 1, text[x].ccount + 1, text[x].lock,
                      text[x].writ, text[x].load, text[x].caddr, text[x].core, text[x].swap)
           /\ Goes(p, "user", NoText, NoText, "user", "user")
  <2>1. at'[p].pc = "user" /\ proc'[p].loaded
    BY <1>3, <1>9 DEF Goes, ProcIs
  <2>2. Counts(p)' = TRUE /\ Fetches(p)' = FALSE
    BY <2>1 DEF Counts, Fetches, Place, Out
  <2>3. Holds(p)' = {}
    BY <1>2, <2>1, <2>2 DEF ProcHeld
  <2> QED
    BY <1>7, <1>9, <2>1, <2>2, <2>3 DEF EntryIs
<1>10. CASE (Goes(p, "user", NoText, NoText, "user", "user") \/ Goes(p, "xwait", x, at[p].xp, at[p].ret, at[p].after))
            /\ UNCHANGED <<text, free, proc>>
  <2>1. at'[p].pc \in {"user", "xwait"}
    BY <1>10 DEF Goes
  <2> QED
    BY <1>6, <1>10, <2>1
<1> QED
  BY <1>1, <1>8, <1>9, <1>10 DEF DidAttach

(* p takes an entry that nobody uses for its program. *)
LEMMA TakesStep ==
    ASSUME IInv, Shape', NEW p \in Proc, Steps(p), NEW x \in Text, Takes(p, x, proc[p].prog),
           text[x].count = 0, text[x].iptr = NoFile, proc[p].text = NoText, proc[p].prog \in File,
           itext' = [itext EXCEPT ![proc[p].prog] = x],
           at[p].pc \in {"xalloc", "irele"}, Holds(p) \subseteq {x}, x \in Holds(p) \/ ~text[x].lock,
           Simple(free', Text), ToSet(free') = ToSet(free) \ {x},
           \A q \in Proc \ {p} : Claims(q) => at[q].x # x
    PROVE  IInv'
<1>1. Typed /\ p \in Actor /\ p # Sched /\ Holds(p)' = ProcHeld(p)'
  BY ShapeOf, ProcHoldsNext DEF IInv
<1>2. /\ text'[x].count = 1 /\ text'[x].ccount = 0 /\ text'[x].lock = TRUE /\ text'[x].iptr = proc[p].prog
      /\ \A y \in Text \ {x} : text'[y] = text[y]
  BY DEF Takes, EntryIs
<1>3. /\ at'[p].pc = "xexpand" /\ at'[p].x = x /\ proc'[p].text = x /\ proc'[p].loaded
  BY DEF Takes, Goes, ProcIs, Steps
<1>4. text[x].ccount = 0
  BY UnusedCore
<1>5. Fetches(p)' = TRUE /\ Counts(p)' = FALSE /\ ~Claims(p)'
  BY <1>3 DEF Fetches, Counts, Claims, Place
<1>6. Holds(p)' = {x}
  BY <1>1, <1>3, <1>5 DEF ProcHeld
<1>7. Relocks(p)
  BY <1>1, <1>2, <1>6 DEF Relocks, IInv, Locked
<1>8. proc[p].prog # NoFile
  BY Actors
<1>9. Spares(p)
  BY <1>2, <1>8 DEF Spares
<1>10. Mine(p)'
  BY <1>2, <1>3, <1>8 DEF Mine
<1>11. Tallies(p)
  <2>1. \A y \in Text : /\ Uses(p, y) = 0 /\ UsesCore(p, y) = 0
                        /\ Uses(p, y)' = (IF y = x THEN 1 ELSE 0) /\ UsesCore(p, y)' = 0
    BY <1>3, <1>5, Actors DEF Uses, UsesCore
  <2>2. \A y \in Text : text[y].count \in Int /\ text[y].ccount \in Int
    BY <1>1 DEF Typed, RawEntry
  <2>3. text'[x].count = text[x].count + 1 - 0 /\ text'[x].ccount = text[x].ccount + 0 - 0
    BY <1>2, <1>4
  <2>4. \A y \in Text \ {x} : /\ text'[y].count = text[y].count + 0 - 0
                             /\ text'[y].ccount = text[y].ccount + 0 - 0
    BY <1>2, <2>2
  <2> QED
    BY <2>1, <2>3, <2>4 DEF Tallies
<1>12. \A q \in Proc \ {p} : Claims(q)' = Claims(q) /\ at'[q].x = at[q].x
  BY Actors DEF Claims, Steps
<1>13. Listed'
  <2> SUFFICES ASSUME NEW y \in Text
               PROVE  y \in ToSet(free') <=> /\ text'[y].count = 0
                                             /\ \A q \in Proc : ~(Claims(q)' /\ at'[q].x = y)
    BY DEF Listed
  <2>1. CASE y = x
    BY <1>2, <2>1
  <2>2. CASE y # x
    <3>1. y \in ToSet(free') <=> y \in ToSet(free)
      BY <2>2
    <3>2. (\A q \in Proc : ~(Claims(q) /\ at[q].x = y)) <=> (\A q \in Proc : ~(Claims(q)' /\ at'[q].x = y))
      <4>1. ~(Claims(p) /\ at[p].x = y)
        BY <2>2, <1>1, ProcHolds DEF IInv, Claims, ProcHeld
      <4> QED
        BY <1>5, <1>12, <4>1
    <3> QED
      BY <1>2, <2>2, <3>1, <3>2 DEF IInv, Listed
  <2> QED
    BY <2>1, <2>2
<1>14. Apart'
  BY <1>5, <1>12 DEF IInv, Apart
<1>15. Points'
  <2> SUFFICES ASSUME NEW g \in File, itext'[g] # NoText PROVE text'[itext'[g]].iptr = g
    BY DEF Points
  <2>1. itext'[g] = IF g = proc[p].prog THEN x ELSE itext[g]
    BY <1>1 DEF Typed
  <2>2. CASE g = proc[p].prog
    BY <1>2, <2>1, <2>2
  <2>3. CASE g # proc[p].prog
    <3>1. itext'[g] = itext[g] /\ itext[g] \in Text /\ text[itext[g]].iptr = g
      BY <1>1, <2>1, <2>3 DEF IInv, Points, Typed
    <3>2. itext[g] # x
      BY <3>1, Actors
    <3> QED
      BY <1>2, <3>1, <3>2
  <2> QED
    BY <2>2, <2>3
<1>16. (Simple(free, Text) /\ Listed /\ Apart /\ Points)'
  BY <1>13, <1>14, <1>15 DEF Simple
<1>17. \A y \in Text : text'[y].iptr = NoFile /\ ~text'[y].lock => ~text'[y].caddr
  BY <1>2 DEF IInv, Unnamed
<1> QED
  BY <1>7, <1>9, <1>10, <1>11, <1>16, <1>17, ProcStep

(* Nobody has locked an entry on the list that was never used. *)
LEMMA UnusedUnlocked ==
    ASSUME IInv, NEW x \in ToSet(free), text[x].iptr = NoFile
    PROVE  x \in Text /\ text[x].count = 0 /\ ~text[x].lock /\ \A p \in Proc : Claims(p) => at[p].x # x
<1>1. x \in Text
  BY FreeTypes DEF IInv, Shape, Typed
<1>2. text[x].count = 0 /\ \A p \in Proc : Claims(p) => at[p].x # x
  BY <1>1 DEF IInv, Listed
<1>3. \A p \in Proc : proc[p].text # x
  BY <1>1, <1>2, UnusedCore
<1>4. ASSUME NEW a \in Actor, x \in Holds(a) PROVE FALSE
  <2>1. Mine(a) /\ Shape
    BY DEF IInv
  <2>2. CASE a \in Proc
    <3>1. x \in ProcHeld(a) /\ ControlOf(a)
      BY <1>4, <2>1, <2>2, ProcHolds, ShapeOf
    <3>2. Fetches(a) => at[a].x = proc[a].text
      BY <3>1 DEF ControlOf, Fetches
    <3> QED
      BY <1>2, <1>3, <2>1, <2>2, <3>1, <3>2 DEF ProcHeld, Claims, Mine
  <2>3. CASE a = Sched
    <3>1. x \in SchedHeld /\ SchedControl
      BY <1>4, <2>1, <2>3, SchedHolds, ShapeOfSched
    <3>2. at[Sched].pc = "outwrite" \/ Place(Sched) \in {"intext", "inimage", "inread"} => sp \in Proc
      BY <2>1, <3>1 DEF Shape, Typed, SchedControl, Place
    <3> QED
      BY <1>3, <2>1, <2>3, <3>1, <3>2 DEF SchedHeld, Mine
  <2> QED
    BY <2>2, <2>3 DEF Actor
<1>5. ~text[x].lock
  BY <1>1, <1>4 DEF IInv, Locked
<1> QED
  BY <1>1, <1>2, <1>5

LEMMA AllotInv ==
    ASSUME IInv, NEW p \in Proc, Allot(p)
    PROVE  IInv'
<1>1. Shape' /\ Steps(p) /\ DidAllot(p)
  BY AllotShape DEF IInv
<1>2. Typed /\ ControlOf(p) /\ p \in Actor /\ p # Sched /\ Mine(p) /\ Holds(p) = ProcHeld(p)
      /\ Holds(p)' = ProcHeld(p)'
  BY <1>1, ShapeOf, ProcHolds, ProcHoldsNext DEF IInv
<1> DEFINE x == Head(free)
<1>3. at[p].pc = "xalloc" /\ at[p].after = "xalloc" /\ proc[p].text = NoText /\ proc[p].loaded
      /\ proc[p].prog \in File
  BY <1>1, <1>2 DEF DidAllot, Steps, Runs, ControlOf, Place
<1>4. Fetches(p) = FALSE /\ Counts(p) = TRUE /\ ~Claims(p)
  BY <1>3 DEF Fetches, Counts, Claims, Place, Out
<1>5. Holds(p) = {}
  BY <1>2, <1>3, <1>4 DEF ProcHeld
<1>6. free # <<>> => x \in Text /\ x \in ToSet(free) /\ Simple(Tail(free), Text) /\ ToSet(Tail(free)) = ToSet(free) \ {x}
  BY TailSimple DEF IInv
<1>7. CASE /\ ProcIs(p, proc[p].text, NoFile, proc[p].loaded, proc[p].slock)
           /\ Goes(p, "user", NoText, NoText, "user", "user")
           /\ UNCHANGED <<text, free, itext>>
  <2>1. at'[p].pc = "user" /\ proc'[p].text = NoText /\ proc'[p].loaded
    BY <1>3, <1>7 DEF ProcIs, Goes
  <2>2. Fetches(p)' = FALSE /\ Counts(p)' = TRUE /\ ~Claims(p)'
    BY <2>1 DEF Fetches, Counts, Claims, Place, Out
  <2>3. Holds(p)' = {}
    BY <1>2, <2>1, <2>2 DEF ProcHeld
  <2>4. Mine(p)'
    BY <2>1, <2>2 DEF Mine
  <2>5. Quiet(p)
    BY <1>4, <1>7, <2>2 DEF Quiet, Claims
  <2>6. Still(p)
    BY <1>5, <1>7, <2>3, <2>4, <2>5 DEF Still
  <2> QED
    BY <1>1, <1>3, <1>4, <2>1, <2>2, <2>6, StillProc
<1>8. CASE /\ free # <<>> /\ free' = Tail(free)
           /\ Goes(p, "xuntext", x, at[p].xp, at[p].ret, at[p].after)
           /\ UNCHANGED <<text, itext, proc>>
  <2>1. at'[p].pc = "xuntext" /\ at'[p].x = x
    BY <1>8 DEF Goes
  <2>2. Fetches(p)' = FALSE /\ Counts(p)' = TRUE
    BY <1>3, <1>8, <2>1 DEF Fetches, Counts, Place, Out
  <2>3. Holds(p)' = {}
    BY <1>2, <2>1, <2>2 DEF ProcHeld
  <2>4. Mine(p)'
    BY <1>3, <1>8, <2>1, <2>2 DEF Mine
  <2>5. Relocks(p) /\ Spares(p)
    BY <1>5, <1>8, <2>3 DEF Relocks, Spares
  <2>6. Tallies(p)
    <3>1. \A y \in Text : /\ Uses(p, y) = 0 /\ UsesCore(p, y) = 0 /\ Uses(p, y)' = 0 /\ UsesCore(p, y)' = 0
      BY <1>3, <1>8, Actors DEF Uses, UsesCore
    <3>2. \A y \in Text : text[y].count \in Int /\ text[y].ccount \in Int
      BY <1>2 DEF Typed, RawEntry
    <3> QED
      BY <1>8, <3>1, <3>2 DEF Tallies
  <2>7. \A q \in Proc \ {p} : Claims(q)' = Claims(q) /\ at'[q].x = at[q].x
    BY <1>1, Actors DEF Claims, Steps
  <2>8. text[x].count = 0 /\ \A q \in Proc : Claims(q) => at[q].x # x
    BY <1>6, <1>8 DEF IInv, Listed
  <2>9. Claims(p)' = TRUE
    BY <2>1 DEF Claims
  <2>10. Listed'
    <3> SUFFICES ASSUME NEW y \in Text
                 PROVE  y \in ToSet(free') <=> /\ text'[y].count = 0
                                               /\ \A q \in Proc : ~(Claims(q)' /\ at'[q].x = y)
      BY DEF Listed
    <3>1. CASE y = x
      BY <1>6, <1>8, <2>1, <2>9, <3>1
    <3>2. CASE y # x
      BY <1>4, <1>6, <1>8, <2>1, <2>7, <3>2 DEF IInv, Listed
    <3> QED
      BY <3>1, <3>2
  <2>11. Apart'
    <3> SUFFICES ASSUME NEW q \in Proc, NEW r \in Proc, Claims(q)', Claims(r)', at'[q].x = at'[r].x
                 PROVE  q = r
      BY DEF Apart
    <3> QED
      BY <2>1, <2>7, <2>8 DEF IInv, Apart
  <2>12. Points'
    BY <1>8 DEF IInv, Points
  <2>13. (Simple(free, Text) /\ Listed /\ Apart /\ Points)'
    BY <1>6, <1>8, <2>10, <2>11, <2>12 DEF Simple
  <2>14. \A y \in Text : text'[y].iptr = NoFile /\ ~text'[y].lock => ~text'[y].caddr
    BY <1>8 DEF IInv, Unnamed
  <2> QED
    BY <1>1, <2>4, <2>5, <2>6, <2>13, <2>14, ProcStep
<1>9. CASE /\ free # <<>> /\ text[x].iptr = NoFile /\ free' = Tail(free)
           /\ itext' = [itext EXCEPT ![proc[p].prog] = x] /\ Takes(p, x, proc[p].prog)
  <2>1. text[x].count = 0 /\ ~text[x].lock /\ \A q \in Proc : Claims(q) => at[q].x # x
    BY <1>6, <1>9, UnusedUnlocked
  <2> QED
    BY <1>1, <1>3, <1>5, <1>6, <1>9, <2>1, TakesStep
<1> QED
  BY <1>1, <1>7, <1>8, <1>9 DEF DidAllot

LEMMA XuntextInv ==
    ASSUME IInv, NEW p \in Proc, Xuntext(p), ~ReusedInUse
    PROVE  IInv'
<1>1. Shape' /\ Steps(p) /\ DidXuntext(p)
  BY XuntextShape DEF IInv
<1>2. Typed /\ ControlOf(p) /\ p \in Actor /\ p # Sched /\ Mine(p) /\ Holds(p) = ProcHeld(p)
      /\ Holds(p)' = ProcHeld(p)'
  BY <1>1, ShapeOf, ProcHolds, ProcHoldsNext DEF IInv
<1> DEFINE x == at[p].x
<1>3. /\ at[p].pc = "xuntext" /\ proc[p].text = NoText /\ proc[p].loaded /\ x \in Text /\ ~text[x].lock
      /\ text[x].count = 0
  <2>1. at[p].pc = "xuntext" /\ x \in Text /\ proc[p].loaded
    BY <1>1 DEF DidXuntext, Gets, Runs, Steps
  <2>2. proc[p].text = NoText
    BY <1>2, <2>1 DEF ControlOf, Place
  <2>3. Wants(p) = x
    BY <2>1 DEF Wants
  <2>4. ~text[x].lock
    BY <1>1, <2>1, <2>3, Actors DEF DidXuntext, Gets
  <2>5. text[x].count = 0
    BY <2>1 DEF ReusedInUse
  <2> QED
    BY <2>1, <2>2, <2>4, <2>5
<1>4. /\ at'[p].pc = "irele" /\ at'[p].x = x /\ proc' = proc /\ free' = free
      /\ itext' = [itext EXCEPT ![text[x].iptr] = NoText]
      /\ text'[x].iptr = NoFile /\ text'[x].count = 0 /\ text'[x].ccount = text[x].ccount
      /\ text'[x].lock = TRUE /\ \A y \in Text \ {x} : text'[y] = text[y]
  BY <1>1, <1>3 DEF DidXuntext, EntryIs, Moves, Goes
<1>5. Fetches(p) = FALSE /\ Fetches(p)' = FALSE
  BY <1>3, <1>4 DEF Fetches, Place, Out
<1>6. Holds(p) = {} /\ Holds(p)' = {x}
  BY <1>2, <1>3, <1>4, <1>5 DEF ProcHeld
<1>7. Relocks(p) /\ Spares(p)
  BY <1>3, <1>4, <1>6 DEF Relocks, Spares, IInv, Locked
<1>8. Mine(p)'
  BY <1>3, <1>4, <1>5 DEF Mine
<1>9. Tallies(p)
  <2>1. \A y \in Text : /\ Uses(p, y) = 0 /\ UsesCore(p, y) = 0 /\ Uses(p, y)' = 0 /\ UsesCore(p, y)' = 0
    BY <1>3, <1>4, Actors DEF Uses, UsesCore
  <2>2. \A y \in Text : text[y].count \in Int /\ text[y].ccount \in Int
    BY <1>2 DEF Typed, RawEntry
  <2>3. \A y \in Text : text'[y].count = text[y].count /\ text'[y].ccount = text[y].ccount
    BY <1>3, <1>4
  <2>4. \A y \in Text : /\ text'[y].count = text[y].count + 0 - 0
                       /\ text'[y].ccount = text[y].ccount + 0 - 0
    BY <2>2, <2>3
  <2> QED
    BY <2>1, <2>4 DEF Tallies
<1>10. \A q \in Proc : Claims(q)' = Claims(q) /\ at'[q].x = at[q].x
  BY <1>1, <1>3, <1>4, Actors DEF Claims, Steps
<1>11. Listed' /\ Apart'
  BY <1>3, <1>4, <1>10 DEF IInv, Listed, Apart
<1>12. Points'
  BY <1>2, <1>3, <1>4 DEF IInv, Points, Typed
<1>13. (Simple(free, Text) /\ Listed /\ Apart /\ Points)'
  BY <1>4, <1>11, <1>12 DEF IInv, Simple
<1>14. \A y \in Text : text'[y].iptr = NoFile /\ ~text'[y].lock => ~text'[y].caddr
  BY <1>4 DEF IInv, Unnamed
<1> QED
  BY <1>1, <1>7, <1>8, <1>9, <1>13, <1>14, ProcStep

LEMMA XuntextedInv ==
    ASSUME IInv, NEW p \in Proc, Xuntexted(p)
    PROVE  IInv'
<1>1. Shape' /\ Steps(p) /\ DidXuntexted(p)
  BY XuntextedShape DEF IInv
<1>2. Typed /\ ControlOf(p) /\ p \in Actor /\ p # Sched /\ Mine(p) /\ Holds(p) = ProcHeld(p)
  BY <1>1, ShapeOf, ProcHolds DEF IInv
<1> DEFINE x == at[p].x
<1>3. /\ at[p].pc = "irele" /\ proc[p].text = NoText /\ proc[p].prog \in File /\ x \in Text
      /\ itext' = [itext EXCEPT ![proc[p].prog] = x] /\ Takes(p, x, proc[p].prog) /\ free' = free
  BY <1>1, <1>2 DEF DidXuntexted, Runs, ControlOf, Place, Typed, Process
<1>4. text[x].count = 0 /\ text[x].iptr = NoFile
  BY <1>2, <1>3 DEF Mine
<1>5. Holds(p) = {x}
  BY <1>2, <1>3 DEF ProcHeld, Fetches, Place, Out
<1>6. Claims(p)
  BY <1>3 DEF Claims
<1>7. x \notin ToSet(free) /\ \A q \in Proc \ {p} : Claims(q) => at[q].x # x
  BY <1>3, <1>6 DEF IInv, Listed, Apart
<1>8. Simple(free', Text) /\ ToSet(free') = ToSet(free) \ {x}
  BY <1>3, <1>7 DEF IInv
<1> QED
  BY <1>1, <1>2, <1>3, <1>4, <1>5, <1>7, <1>8, TakesStep

-----------------------------------------------------------------------------
(* So do those of xuncore, and of swapout *)

HeldBy(a) == Keeps(a) \cup (IF at[a].pc = "unwrite" THEN {at[a].xp} ELSE {})
                      \cup (IF at[a].pc = "outwrite" THEN {Its(a)} ELSE {})

LEMMA HeldKept == Shape => \A a \in Actor : Holds(a) = HeldBy(a)
<1> SUFFICES ASSUME Shape, NEW a \in Actor PROVE Holds(a) = HeldBy(a)
  OBVIOUS
<1>1. \A x : x \in Holds(a) <=> \/ x \in Keeps(a)
                                \/ at[a].pc = "unwrite" /\ x = at[a].xp
                                \/ at[a].pc = "outwrite" /\ x = Its(a)
  BY HoldsKeeps
<1> QED
  BY <1>1 DEF HeldBy

LEMMA HeldKeptNext == Shape' => (\A a \in Actor : Holds(a) = HeldBy(a))'
BY HeldKept, PTL

LEMMA HeldLocked ==
    ASSUME IInv, NEW a \in Actor
    PROVE  \A x \in Text : x \in Holds(a) => text[x].lock
BY DEF IInv, Locked

LEMMA SameIInv ==
    ASSUME IInv, Shape', UNCHANGED <<text, free, itext, proc, at, sp>>
    PROVE  IInv'
<1>1. \A a \in Actor : Holds(a)' = Holds(a) /\ Keeps(a)' = Keeps(a)
  BY DEF Holds, Keeps, Place, Its, Whose
<1>2. Locked'
  <2>1. /\ \A x \in Text : text[x].lock = (\E a \in Actor : x \in Holds(a))
        /\ \A a, b \in Actor : a # b => Holds(a) \cap Holds(b) = {}
    BY DEF IInv, Locked
  <2>2. ASSUME NEW x \in Text PROVE text'[x].lock = (\E a \in Actor : x \in Holds(a)')
    <3>1. (\E a \in Actor : x \in Holds(a)') <=> (\E a \in Actor : x \in Holds(a))
      BY <1>1
    <3>2. text[x].lock = (\E a \in Actor : x \in Holds(a))
      BY <2>1, Zenon
    <3>3. text'[x].lock = text[x].lock
      OBVIOUS
    <3> QED
      BY <3>1, <3>2, <3>3, Zenon
  <2>3. ASSUME NEW a \in Actor, NEW b \in Actor, a # b PROVE Holds(a)' \cap Holds(b)' = {}
    <3>1. Holds(a)' = Holds(a) /\ Holds(b)' = Holds(b)
      BY <1>1
    <3>2. Holds(a) \cap Holds(b) = {}
      BY <2>1, <2>3
    <3> QED
      BY <3>1, <3>2
  <2> QED
    BY <2>2, <2>3, Zenon DEF Locked
<1>3. \A q \in Proc : Counts(q)' = Counts(q)
  BY DEF Counts, Place
<1>4. Accounts'
  BY <1>3, SameAccounts DEF IInv
<1>5. (Simple(free, Text) /\ Listed /\ Apart /\ Points /\ Unnamed)'
  BY DEF IInv, Simple, Listed, Apart, Points, Unnamed, Claims
<1>6. \A a \in Actor : Mine(a)'
  <2> SUFFICES ASSUME NEW a \in Actor PROVE Mine(a)'
    OBVIOUS
  <2>1. Mine(a) /\ Fetches(a)' = Fetches(a)
    BY DEF IInv, Fetches, Place
  <2> QED
    BY <1>1, <2>1 DEF Mine
<1> QED
  BY <1>2, <1>4, <1>5, <1>6 DEF IInv

LEMMA WaitLockInv ==
    ASSUME IInv, NEW a \in Actor, WaitLock(a)
    PROVE  IInv'
BY WaitLockShape, SameIInv DEF IInv, WaitLock

LEMMA AsideActor ==
    ASSUME IInv, NEW a \in Actor, proc' = proc, a \in Proc => Steps(a), a = Sched => SchedSteps
    PROVE  Aside(a)
<1>1. CASE a \in Proc
  BY <1>1, AsideProc
<1>2. CASE a = Sched
  <2>1. \A q \in Proc : Fetches(q) => proc[q].loaded
    BY Actors DEF IInv, Mine
  <2> QED
    BY <1>2, <2>1, AsideSched DEF SchedSteps
<1> QED
  BY <1>1, <1>2 DEF Actor

(* a stays in xuncore, or leaves it. *)
LEMMA UncoreKeeps ==
    ASSUME IInv, NEW a \in Actor, at[a].pc \in Inner, proc' = proc, sp' = sp,
           \/ LooksOn(a) \/ Resumes(a) \/ Moves(a, "xcore") \/ Moves(a, "unwrite")
    PROVE  /\ Keeps(a)' = Keeps(a) /\ Place(a)' = Place(a) /\ Fetches(a)' = Fetches(a)
           /\ at'[a].x = at[a].x /\ at'[a].pc \in Inner \cup {"expand", "xexpand", "intext", "inimage"}
           /\ (LooksOn(a) \/ Resumes(a)) => at'[a].pc \notin {"unwrite", "outwrite"}
           /\ \A q \in Proc : Counts(q)' = Counts(q)
           /\ \A b \in Actor \ {a} : at'[b] = at[b]
<1>1. at[a].ret \in {"expand", "xexpand", "intext", "inimage"}
  BY DEF IInv, Shape, ControlOf, SchedControl, Actor
<1>2. \/ at'[a].pc \in Inner /\ at'[a].ret = at[a].ret
      \/ at'[a].pc = at[a].ret
  BY DEF LooksOn, Resumes, Moves, Goes, Inner
<1>3. at'[a].x = at[a].x /\ at'[a].after = at[a].after /\ \A b \in Actor \ {a} : at'[b] = at[b]
  BY DEF LooksOn, Resumes, Moves, Goes
<1>4. at[a].pc \notin Out /\ at'[a].pc \notin Out /\ Place(a) = at[a].ret /\ Place(a)' = at[a].ret
  BY <1>1, <1>2 DEF Place, Out, Inner
<1>5. Its(a)' = Its(a)
  BY DEF Its, Whose
<1>6. Keeps(a)' = Keeps(a) /\ Fetches(a)' = Fetches(a)
  BY <1>3, <1>4, <1>5 DEF Keeps, Fetches
<1>7. (LooksOn(a) \/ Resumes(a)) => at'[a].pc \notin {"unwrite", "outwrite"}
  BY <1>1 DEF LooksOn, Resumes, Goes
<1>8. ASSUME NEW q \in Proc PROVE Counts(q)' = Counts(q)
  <2>1. (at[Sched].pc \in {"inload", "swapout", "xccdec"})' = (at[Sched].pc \in {"inload", "swapout", "xccdec"})
    <3>1. CASE a = Sched
      BY <1>1, <1>2, <3>1 DEF Inner
    <3>2. CASE a # Sched
      BY <1>3, <3>2, Actors
    <3> QED
      BY <3>1, <3>2
  <2>2. CASE q = a
    BY <1>4, <2>1, <2>2 DEF Counts, Out
  <2>3. CASE q # a
    <3>1. at'[q] = at[q] /\ Place(q)' = Place(q)
      BY <1>3, <2>3, Actors DEF Place
    <3> QED
      BY <2>1, <3>1 DEF Counts
  <2> QED
    BY <2>2, <2>3
<1> QED
  BY <1>1, <1>2, <1>3, <1>4, <1>6, <1>7, <1>8

LEMMA UncoreStep ==
    ASSUME IInv, Shape', NEW a \in Actor, at[a].pc \in Inner, proc' = proc, sp' = sp,
           \/ LooksOn(a) \/ Resumes(a) \/ Moves(a, "xcore") \/ Moves(a, "unwrite"),
           a \in Proc => Steps(a), a = Sched => SchedSteps,
           free' = free, itext' = itext, Relocks(a),
           \A x \in Text : /\ text'[x].count = text[x].count /\ text'[x].ccount = text[x].ccount
                           /\ text'[x].iptr = text[x].iptr
                           /\ text'[x].iptr = NoFile /\ ~text'[x].lock => ~text'[x].caddr,
           at'[a].pc = "unwrite" => text[at'[a].xp].iptr # NoFile /\ at'[a].xp \in Text \ Keeps(a)
    PROVE  IInv'
<1>1. /\ Keeps(a)' = Keeps(a) /\ Place(a)' = Place(a) /\ Fetches(a)' = Fetches(a)
      /\ at'[a].x = at[a].x /\ at'[a].pc \in Inner \cup {"expand", "xexpand", "intext", "inimage"}
      /\ \A q \in Proc : Counts(q)' = Counts(q)
  BY UncoreKeeps
<1>2. Accounts'
  BY <1>1, SameAccounts DEF IInv
<1>3. Aside(a)
  BY AsideActor
<1>4. a \in Proc => ~Claims(a) /\ ~Claims(a)'
  BY <1>1 DEF Claims, Inner
<1>5. Quiet(a)
  BY <1>4 DEF Quiet, Claims
<1>6. Spares(a)
  BY DEF Spares
<1>7. Mine(a)'
  <2>1. Mine(a)
    BY DEF IInv
  <2>2. a \in Proc /\ Fetches(a) => at[a].x \in Text
    BY ShapeOf DEF IInv, ControlOf, Fetches
  <2>3. a \in Proc /\ proc[a].text # NoText => proc[a].text \in Text
    BY DEF IInv, Shape, Typed, Process
  <2> QED
    BY <1>1, <2>1, <2>2, <2>3 DEF Mine, Inner
<1>8. (Simple(free, Text) /\ Listed /\ Apart /\ Points)'
  BY <1>3, <1>5, QuietStep
<1> QED
  BY <1>2, <1>3, <1>6, <1>7, <1>8, IInvStep

LEMMA XuncoreInv ==
    ASSUME IInv, NEW a \in Actor, Xuncore(a)
    PROVE  IInv'
<1>1. Shape' /\ DidXuncore(a) /\ (a \in Proc => Steps(a)) /\ (a = Sched => SchedSteps)
  BY XuncoreShape DEF IInv
<1>2. /\ UNCHANGED <<text, free, itext, proc, sp>> /\ at[a].pc = "xuncore"
      /\ (LooksOn(a) \/ Resumes(a) \/ Moves(a, "xcore"))
  BY <1>1 DEF DidXuncore, Rest, Runs
<1>3. at[a].pc \in Inner
  BY <1>2 DEF Inner
<1>4. /\ Keeps(a)' = Keeps(a) /\ at'[a].pc \notin {"unwrite", "outwrite"}
  BY <1>2, <1>3, UncoreKeeps DEF Moves, Goes
<1>5. Holds(a)' = Keeps(a) /\ Holds(a) = Keeps(a)
  BY <1>1, <1>2, <1>4, HeldKept, HeldKeptNext DEF IInv, HeldBy
<1>6. Relocks(a)
  BY <1>2, <1>5 DEF Relocks, IInv, Locked
<1>7. \A x \in Text : text'[x].iptr = NoFile /\ ~text'[x].lock => ~text'[x].caddr
  BY <1>2 DEF IInv, Unnamed
<1> QED
  BY <1>1, <1>2, <1>3, <1>4, <1>6, <1>7, UncoreStep

LEMMA XcoreInv ==
    ASSUME IInv, NEW a \in Actor, Xcore(a)
    PROVE  IInv'
<1>1. Shape' /\ DidXcore(a) /\ (a \in Proc => Steps(a)) /\ (a = Sched => SchedSteps)
  BY XcoreShape DEF IInv
<1> DEFINE x == at[a].xp
<1>2. /\ UNCHANGED <<free, itext, proc, sp>> /\ at[a].pc = "xcore" /\ at[a].pc \in Inner /\ x \in Text
  BY <1>1 DEF DidXcore, Gets, Runs, Inner
<1>3. ~text[x].lock
  BY <1>1, <1>2, Actors DEF DidXcore, Gets, Wants
<1>4. Holds(a) = Keeps(a) /\ x \notin Keeps(a)
  <2>1. Holds(a) = Keeps(a)
    BY <1>2, HeldKept DEF IInv, HeldBy
  <2> QED
    BY <1>2, <1>3, <2>1 DEF IInv, Locked
<1>5. CASE /\ LooksOn(a) \/ Resumes(a)
           /\ \A y \in Text : /\ text'[y].count = text[y].count /\ text'[y].ccount = text[y].ccount
                              /\ text'[y].iptr = text[y].iptr /\ text'[y].lock = text[y].lock
                              /\ text'[y].caddr => text[y].caddr
  <2>1. /\ Keeps(a)' = Keeps(a) /\ at'[a].pc \notin {"unwrite", "outwrite"}
    BY <1>2, <1>5, UncoreKeeps
  <2>2. Holds(a)' = Keeps(a)
    BY <1>1, <2>1, HeldKeptNext DEF HeldBy
  <2>3. Relocks(a)
    BY <1>4, <1>5, <2>2, HeldLocked DEF Relocks
  <2>4. \A y \in Text : text'[y].iptr = NoFile /\ ~text'[y].lock => ~text'[y].caddr
    BY <1>5 DEF IInv, Unnamed
  <2> QED
    BY <1>1, <1>2, <1>5, <2>1, <2>3, <2>4, UncoreStep
<1>6. CASE /\ text[x].caddr = TRUE /\ Moves(a, "unwrite")
           /\ EntryIs(x, text[x].iptr, text[x].count, text[x].ccount, TRUE, text[x].writ,
                      text[x].load, text[x].caddr, text[x].core, text[x].swap)
  <2>1. /\ Keeps(a)' = Keeps(a) /\ at'[a].pc = "unwrite" /\ at'[a].xp = x
    BY <1>2, <1>6, UncoreKeeps DEF Moves, Goes
  <2>2. Holds(a)' = Keeps(a) \cup {x}
    BY <1>1, <2>1, HeldKeptNext DEF HeldBy
  <2>3. /\ text'[x].count = text[x].count /\ text'[x].ccount = text[x].ccount /\ text'[x].iptr = text[x].iptr
        /\ text'[x].lock = TRUE /\ \A y \in Text \ {x} : text'[y] = text[y]
    BY <1>6 DEF EntryIs
  <2>4. Relocks(a)
    BY <1>2, <1>3, <1>4, <2>2, <2>3, HeldLocked DEF Relocks
  <2>5. text[x].iptr # NoFile
    BY <1>2, <1>3, <1>6 DEF IInv, Unnamed
  <2>6. \A y \in Text : /\ text'[y].count = text[y].count /\ text'[y].ccount = text[y].ccount
                        /\ text'[y].iptr = text[y].iptr
                        /\ text'[y].iptr = NoFile /\ ~text'[y].lock => ~text'[y].caddr
    BY <2>3 DEF IInv, Unnamed
  <2> QED
    BY <1>1, <1>2, <1>4, <1>6, <2>1, <2>4, <2>5, <2>6, UncoreStep
<1>7. CASE LooksOn(a) /\ UNCHANGED text
  BY <1>5, <1>7
<1>8. CASE /\ LooksOn(a) \/ Resumes(a)
           /\ EntryIs(x, text[x].iptr, text[x].count, text[x].ccount, text[x].lock,
                      text[x].writ, text[x].load, FALSE, NoFile, text[x].swap)
  BY <1>5, <1>8 DEF EntryIs
<1> QED
  BY <1>1, <1>6, <1>7, <1>8 DEF DidXcore

LEMMA UnwrittenInv ==
    ASSUME IInv, NEW a \in Actor, Unwritten(a)
    PROVE  IInv'
<1>1. Shape' /\ DidUnwritten(a) /\ (a \in Proc => Steps(a)) /\ (a = Sched => SchedSteps)
  BY UnwrittenShape DEF IInv
<1> DEFINE x == at[a].xp
<1>2. /\ UNCHANGED <<free, itext, proc, sp>> /\ at[a].pc = "unwrite" /\ at[a].pc \in Inner /\ x \in Text
      /\ (LooksOn(a) \/ Resumes(a))
      /\ text'[x].count = text[x].count /\ text'[x].ccount = text[x].ccount /\ text'[x].iptr = text[x].iptr
      /\ text'[x].lock = FALSE /\ text'[x].caddr = FALSE /\ \A y \in Text \ {x} : text'[y] = text[y]
  BY <1>1 DEF DidUnwritten, Runs, Inner, EntryIs
<1>3. /\ Keeps(a)' = Keeps(a) /\ at'[a].pc \notin {"unwrite", "outwrite"}
  BY <1>2, UncoreKeeps
<1>4. Holds(a)' = Keeps(a) /\ x \notin Keeps(a)
  BY <1>1, <1>2, <1>3, HeldKeptNext DEF IInv, Mine, HeldBy
<1>5. Holds(a) = Keeps(a) \cup {x}
  BY <1>2, HeldKept DEF IInv, HeldBy
<1>6. Relocks(a)
  BY <1>2, <1>4, <1>5, HeldLocked DEF Relocks
<1>7. \A y \in Text : /\ text'[y].count = text[y].count /\ text'[y].ccount = text[y].ccount
                      /\ text'[y].iptr = text[y].iptr
                      /\ text'[y].iptr = NoFile /\ ~text'[y].lock => ~text'[y].caddr
  BY <1>2 DEF IInv, Unnamed
<1> QED
  BY <1>1, <1>2, <1>3, <1>6, <1>7, UncoreStep

(* Whom sched swaps is not in core, and does not wait there for anything. *)
LEMMA SwappedOut ==
    ASSUME IInv, sp # Idle
    PROVE  sp \in Proc /\ ~proc[sp].loaded /\ ~Fetches(sp) /\ at[sp].pc \notin Out
<1>1. sp \in Proc /\ ~proc[sp].loaded
  BY DEF IInv, Shape, Typed, SchedControl
<1>2. Mine(sp) /\ ControlOf(sp) /\ sp \in Actor
  BY <1>1, ShapeOf DEF IInv
<1> QED
  BY <1>1, <1>2 DEF Mine, ControlOf

LEMMA SchedCounts ==
    ASSUME IInv, SchedSteps, NEW v \in Proc, sp \in {v, Idle}, sp' \in {v, Idle},
           \A q \in Proc \ {v} : proc'[q].loaded = proc[q].loaded,
           ~Fetches(v), at[v].pc \notin Out
    PROVE  /\ \A q \in Proc \ {v} : proc'[q].text = proc[q].text /\ Counts(q)' = Counts(q)
           /\ Counts(v) <=> proc[v].loaded \/ (sp = v /\ at[Sched].pc \in {"inload", "swapout", "xccdec"})
           /\ Counts(v)' <=> proc'[v].loaded \/ (sp' = v /\ at'[Sched].pc \in {"inload", "swapout", "xccdec"})
<1>1. \A q \in Proc : at'[q] = at[q] /\ Place(q)' = Place(q) /\ proc'[q].text = proc[q].text
  BY DEF SchedSteps, Place
<1>2. ASSUME NEW q \in Proc \ {v} PROVE Counts(q)' = Counts(q)
  <2>1. sp # q /\ sp' # q
    BY Actors
  <2> QED
    BY <1>1, <2>1 DEF Counts
<1> QED
  BY <1>1, <1>2 DEF Counts, Fetches, Out

LEMMA SchedStep ==
    ASSUME IInv, Shape', SchedSteps, NEW v \in Proc, sp \in {v, Idle}, sp' \in {v, Idle},
           \A q \in Proc \ {v} : proc'[q].loaded = proc[q].loaded,
           ~Fetches(v), at[v].pc \notin Out,
           Relocks(Sched), Spares(Sched), Quiet(Sched), at'[Sched].pc # "unwrite", Tallies(v),
           \A x \in Text : text'[x].iptr = NoFile /\ ~text'[x].lock => ~text'[x].caddr
    PROVE  IInv'
<1>1. \A q \in Proc : Fetches(q) => proc'[q].loaded
  BY Actors DEF IInv, Mine
<1>2. Aside(Sched)
  BY <1>1, AsideSched DEF SchedSteps
<1>3. Accounts'
  BY SchedCounts, AccountsStep DEF IInv, Shape, Tallies
<1>4. Mine(Sched)'
  BY Actors DEF Mine
<1> QED
  BY <1>2, <1>3, <1>4, QuietStep, IInvStep, Actors

(* A step in swapout of a. *)
LEMMA SwapCounts ==
    ASSUME IInv, NEW a \in Actor, NEW v \in Proc, Whose(a) = v, at[a].pc \in Out, proc' = proc, sp' = sp,
           NEW l \in Out, Moves(a, l), l = "xccdec" => ~Fetches(v),
           a \in Proc => Steps(a), a = Sched => SchedSteps
    PROVE  /\ Keeps(a)' = Keeps(a) /\ Its(a)' = Its(a)
           /\ Counts(v) <=> at[a].pc \in {"swapout", "xccdec"} /\ ~Fetches(v)
           /\ Counts(v)' <=> l \in {"swapout", "xccdec"} /\ ~Fetches(v)
           /\ \A q \in Proc \ {v} : proc'[q].text = proc[q].text /\ Counts(q)' = Counts(q)
           /\ a \in Proc => Fetches(a)' = Fetches(a)
<1>1. /\ at'[a].pc = l /\ at'[a].x = at[a].x /\ at'[a].after = at[a].after
      /\ Place(a) = at[a].pc /\ Place(a)' = l
  BY DEF Moves, Goes, Place, Out
<1>2. Its(a)' = Its(a)
  BY DEF Its, Whose
<1>3. Keeps(a)' = Keeps(a)
  BY <1>1, <1>2 DEF Keeps, Out
<1>4. CASE a \in Proc
  <2>1. v = a /\ proc[a].loaded
    BY <1>4, Actors DEF Whose, Steps
  <2>2. Fetches(a)' = Fetches(a) /\ (Fetches(a) <=> at[a].after \in {"again", "readi"})
    BY <1>1 DEF Fetches, Out
  <2>3. at[a].pc = "xccdec" => ~Fetches(a)
    BY <1>4 DEF IInv, Mine
  <2>4. Counts(a) <=> at[a].pc \in {"swapout", "xccdec"} /\ ~Fetches(a)
    BY <1>1, <2>1, <2>2, <2>3 DEF Counts, Out
  <2>5. Counts(a)' <=> l \in {"swapout", "xccdec"} /\ ~Fetches(a)
    BY <1>1, <2>1, <2>2 DEF Counts, Out
  <2>6. \A q \in Proc \ {a} : proc'[q].text = proc[q].text /\ Counts(q)' = Counts(q)
    BY <1>4, CountsProc
  <2> QED
    BY <1>2, <1>3, <1>4, <2>1, <2>2, <2>4, <2>5, <2>6
<1>5. CASE a = Sched
  <2>1. v = sp /\ Sched \notin Proc
    BY <1>5, Actors DEF Whose
  <2>2. sp # Idle
    BY <1>1, <1>5 DEF IInv, Shape, SchedControl, Out
  <2>3. ~proc[v].loaded /\ ~Fetches(v) /\ at[v].pc \notin Out /\ sp' = v
    BY <2>1, <2>2, SwappedOut
  <2>4. /\ \A q \in Proc \ {v} : proc'[q].text = proc[q].text /\ Counts(q)' = Counts(q)
        /\ Counts(v) <=> proc[v].loaded \/ at[Sched].pc \in {"inload", "swapout", "xccdec"}
        /\ Counts(v)' <=> proc[v].loaded \/ at'[Sched].pc \in {"inload", "swapout", "xccdec"}
    BY <1>5, <2>1, <2>3, SchedCounts
  <2>5. /\ Counts(v) <=> at[Sched].pc \in {"swapout", "xccdec"} /\ ~Fetches(v)
        /\ Counts(v)' <=> l \in {"swapout", "xccdec"} /\ ~Fetches(v)
    BY <1>1, <1>5, <2>3, <2>4 DEF Out
  <2> QED
    BY <1>2, <1>3, <1>5, <2>1, <2>3, <2>4, <2>5
<1> QED
  BY <1>4, <1>5 DEF Actor

LEMMA SwapStep ==
    ASSUME IInv, Shape', NEW a \in Actor, NEW v \in Proc, Whose(a) = v, at[a].pc \in Out, proc' = proc, sp' = sp,
           NEW l \in Out, Moves(a, l), l \in {"xccdec", "outwrite"} => ~Fetches(v),
           a \in Proc => Steps(a), a = Sched => SchedSteps,
           free' = free, itext' = itext, Relocks(a), Spares(a), Tallies(v),
           \A x \in Text : /\ text'[x].count = text[x].count /\ text'[x].iptr = text[x].iptr
                           /\ text'[x].iptr = NoFile /\ ~text'[x].lock => ~text'[x].caddr,
           a \in Proc /\ Fetches(a) => text'[at[a].x].ccount = text[at[a].x].ccount
    PROVE  IInv'
<1>1. /\ Its(a)' = Its(a)
      /\ \A q \in Proc \ {v} : proc'[q].text = proc[q].text /\ Counts(q)' = Counts(q)
      /\ a \in Proc => Fetches(a)' = Fetches(a)
  BY SwapCounts
<1>2. Accounts'
  BY <1>1, AccountsStep DEF IInv, Shape, Tallies
<1>3. Aside(a)
  BY AsideActor
<1>4. at'[a].pc = l /\ at'[a].x = at[a].x
  BY DEF Moves, Goes
<1>5. Quiet(a)
  <2>1. ~Claims(a) /\ ~Claims(a)'
    BY <1>4 DEF Claims, Out
  <2> QED
    BY <2>1 DEF Quiet, Claims
<1>6. Mine(a)'
  <2>1. Mine(a)
    BY DEF IInv
  <2>2. a \in Proc /\ proc[a].text # NoText => proc[a].text \in Text
    BY DEF IInv, Shape, Typed, Process
  <2>3. a \in Proc => v = a
    BY Actors DEF Whose
  <2> QED
    BY <1>1, <1>4, <2>1, <2>2, <2>3 DEF Mine, Out
<1>7. (Simple(free, Text) /\ Listed /\ Apart /\ Points)'
  BY <1>3, <1>5, QuietStep
<1> QED
  BY <1>2, <1>3, <1>6, <1>7, IInvStep

LEMMA SwapoutInv ==
    ASSUME IInv, NEW a \in Actor, Swapout(a)
    PROVE  IInv'
<1>1. Shape' /\ DidSwapout(a) /\ (a \in Proc => Steps(a)) /\ (a = Sched => SchedSteps)
  BY SwapoutShape DEF IInv
<1>2. /\ UNCHANGED <<text, free, itext, proc, sp>> /\ at[a].pc = "swapout" /\ at[a].pc \in Out
  BY <1>1 DEF DidSwapout, Rest, Runs, Out
<1>3. \A y \in Text : y \in Holds(a) => text[y].lock
  BY HeldLocked
<1>4. Holds(a) = Keeps(a)
  BY <1>2, HeldKept DEF IInv, HeldBy
<1>5. Spares(a)
  BY <1>2 DEF Spares
<1>6. \A x \in Text : text'[x].iptr = NoFile /\ ~text'[x].lock => ~text'[x].caddr
  BY <1>2 DEF IInv, Unnamed
<1>7. \A y \in Text : text[y].count \in Int /\ text[y].ccount \in Int
  BY DEF IInv, Shape, Typed, RawEntry
<1> PICK v \in Proc : Whose(a) = v
  BY <1>2, WhoseProc DEF IInv, Place
<1>8. CASE Moves(a, "image") /\ (Its(a) # NoText => text[Its(a)].ccount = 0)
  <2>1. /\ Keeps(a)' = Keeps(a) /\ ~Counts(v)' /\ "image" \in Out
    BY <1>1, <1>2, <1>8, SwapCounts DEF Out
  <2>2. Holds(a)' = Holds(a)
    BY <1>1, <1>4, <1>8, <2>1, HeldKeptNext DEF HeldBy, Moves, Goes
  <2>3. Relocks(a)
    BY <1>2, <1>3, <2>2 DEF Relocks
  <2>4. Tallies(v)
    <3>1. proc[v].text # NoText => ~Counts(v)
      BY <1>8, <2>1, Uncounted DEF Its
    <3>2. \A y \in Text : /\ Uses(v, y) \in Int /\ Uses(v, y)' = Uses(v, y)
                          /\ UsesCore(v, y) = 0 /\ UsesCore(v, y)' = 0
      BY <1>2, <2>1, <3>1, Actors DEF Uses, UsesCore
    <3> QED
      BY <1>2, <1>7, <3>2 DEF Tallies
  <2> QED
    BY <1>1, <1>2, <1>5, <1>6, <1>8, <2>1, <2>3, <2>4, SwapStep
<1>9. CASE Moves(a, "xccdec") /\ Its(a) \in Text /\ text[Its(a)].ccount # 0
  <2>1. ~Fetches(v)
    <3>1. CASE a \in Proc
      <4>1. v = a /\ Its(a) = proc[a].text
        BY <3>1, Actors DEF Whose, Its
      <4> QED
        BY <1>9, <3>1, <4>1, ShapeOf DEF IInv, Mine, ControlOf, Fetches
    <3>2. CASE a = Sched
      <4>1. sp # Idle
        BY <1>2, <3>2 DEF IInv, Shape, SchedControl, Place
      <4> QED
        BY <3>2, <4>1, SwappedOut DEF Whose
    <3> QED
      BY <3>1, <3>2 DEF Actor
  <2>2. /\ Keeps(a)' = Keeps(a) /\ "xccdec" \in Out
        /\ Counts(v) = TRUE /\ Counts(v)' = TRUE
    BY <1>1, <1>2, <1>9, <2>1, SwapCounts DEF Out
  <2>3. Holds(a)' = Holds(a)
    BY <1>1, <1>4, <1>9, <2>2, HeldKeptNext DEF HeldBy, Moves, Goes
  <2>4. Relocks(a)
    BY <1>2, <1>3, <2>3 DEF Relocks
  <2>5. Tallies(v)
    BY <1>2, <1>7, <2>2 DEF Tallies, Uses, UsesCore
  <2> QED
    BY <1>1, <1>2, <1>5, <1>6, <1>9, <2>1, <2>2, <2>4, <2>5, SwapStep
<1> QED
  BY <1>1, <1>8, <1>9 DEF DidSwapout

(* p is counted as before, or from now on, or no more. *)
LEMMA TallySame ==
    ASSUME Typed, NEW p \in Proc, proc'[p].text = proc[p].text,
           proc[p].text # NoText => Counts(p)' = Counts(p),
           \A x \in Text : text'[x].count = text[x].count /\ text'[x].ccount = text[x].ccount
    PROVE  Tallies(p)
<1>1. \A y \in Text : text[y].count \in Int /\ text[y].ccount \in Int
  BY DEF Typed, RawEntry
<1>2. \A y \in Text : /\ Uses(p, y) \in Int /\ Uses(p, y)' = Uses(p, y)
                      /\ UsesCore(p, y) \in Int /\ UsesCore(p, y)' = UsesCore(p, y)
  BY Actors DEF Uses, UsesCore
<1> QED
  BY <1>1, <1>2 DEF Tallies

LEMMA TallyOne ==
    ASSUME Typed, NEW p \in Proc, NEW x \in Text, proc[p].text = x, proc'[p].text = x,
           \A y \in Text \ {x} : text'[y] = text[y], text'[x].count = text[x].count,
           \/ ~Counts(p) /\ Counts(p)' /\ text'[x].ccount = text[x].ccount + 1
           \/ Counts(p) /\ ~Counts(p)' /\ text'[x].ccount = text[x].ccount - 1
    PROVE  Tallies(p)
<1>1. \A y \in Text : text[y].count \in Int /\ text[y].ccount \in Int
  BY DEF Typed, RawEntry
<1>2. \A y \in Text : /\ Uses(p, y) \in Int /\ Uses(p, y)' = Uses(p, y)
                      /\ y # x => UsesCore(p, y) = 0 /\ UsesCore(p, y)' = 0
  BY DEF Uses, UsesCore
<1>3. UsesCore(p, x) = (IF Counts(p) THEN 1 ELSE 0) /\ UsesCore(p, x)' = (IF Counts(p)' THEN 1 ELSE 0)
  BY DEF UsesCore
<1>4. text'[x].ccount = text[x].ccount + UsesCore(p, x)' - UsesCore(p, x)
  BY <1>1, <1>3
<1> QED
  BY <1>1, <1>2, <1>4 DEF Tallies

LEMMA SwapsCounted ==
    ASSUME IInv, NEW a \in Actor, at[a].pc \in {"xccdec", "outwrite"}, NEW v \in Proc, Whose(a) = v
    PROVE  ~Fetches(v) /\ Its(a) = proc[v].text
<1>1. CASE a \in Proc
  BY <1>1, Actors DEF IInv, Mine, Whose, Its
<1>2. CASE a = Sched
  <2>1. sp # Idle /\ sp = v
    BY <1>2, Actors DEF Whose
  <2> QED
    BY <1>2, <2>1, SwappedOut DEF Whose, Its
<1> QED
  BY <1>1, <1>2 DEF Actor

LEMMA XccdecInv ==
    ASSUME IInv, NEW a \in Actor, Xccdec(a)
    PROVE  IInv'
<1>1. Shape' /\ DidXccdec(a) /\ (a \in Proc => Steps(a)) /\ (a = Sched => SchedSteps)
  BY XccdecShape DEF IInv
<1> DEFINE x == Its(a)
<1>2. /\ UNCHANGED <<free, itext, proc, sp>> /\ at[a].pc = "xccdec" /\ at[a].pc \in Out /\ x \in Text
  BY <1>1 DEF DidXccdec, Gets, Runs, Out
<1> PICK v \in Proc : Whose(a) = v
  BY <1>2, WhoseProc DEF IInv, Place
<1>3. ~Fetches(v) /\ x = proc[v].text /\ Typed
  BY <1>2, SwapsCounted DEF IInv, Shape
<1>4. ~text[x].lock
  BY <1>1, <1>2, Actors DEF DidXccdec, Gets, Wants
<1>5. Holds(a) = Keeps(a) /\ x \notin Keeps(a)
  <2>1. Holds(a) = Keeps(a)
    BY <1>2, HeldKept DEF IInv, HeldBy
  <2> QED
    BY <1>2, <1>4, <2>1, HeldLocked
<1>6. PICK l \in {"image", "outwrite"} :
        /\ Moves(a, l) /\ text'[x].count = text[x].count /\ text'[x].ccount = text[x].ccount - 1
        /\ text'[x].iptr = text[x].iptr /\ \A y \in Text \ {x} : text'[y] = text[y]
        /\ text'[x].lock = IF l = "outwrite" THEN TRUE ELSE text[x].lock
        /\ l = "image" => (text'[x].caddr => text[x].caddr)
  <2>1. CASE /\ EntryIs(x, text[x].iptr, text[x].count, text[x].ccount - 1, text[x].lock,
                        text[x].writ, text[x].load, text[x].caddr, text[x].core, text[x].swap)
             /\ Moves(a, "image")
    BY <2>1 DEF EntryIs
  <2>2. CASE /\ text[x].ccount = 1 /\ Moves(a, "outwrite")
             /\ EntryIs(x, text[x].iptr, text[x].count, 0, TRUE, text[x].writ,
                        text[x].load, text[x].caddr, text[x].core, text[x].swap)
    <3>1. /\ text'[x].count = text[x].count /\ text'[x].ccount = text[x].ccount - 1
          /\ text'[x].iptr = text[x].iptr /\ \A y \in Text \ {x} : text'[y] = text[y]
          /\ text'[x].lock = TRUE
      BY <2>2 DEF EntryIs
    <3> QED
      BY <2>2, <3>1
  <2>3. CASE /\ text[x].ccount = 1 /\ Moves(a, "image")
             /\ EntryIs(x, text[x].iptr, text[x].count, 0, text[x].lock, text[x].writ,
                        text[x].load, FALSE, NoFile, text[x].swap)
    <3>1. /\ text'[x].count = text[x].count /\ text'[x].ccount = text[x].ccount - 1
          /\ text'[x].iptr = text[x].iptr /\ \A y \in Text \ {x} : text'[y] = text[y]
          /\ text'[x].lock = text[x].lock /\ text'[x].caddr = FALSE
      BY <2>3 DEF EntryIs
    <3> QED
      BY <2>3, <3>1
  <2> QED
    BY <1>1, <2>1, <2>2, <2>3 DEF DidXccdec
<1>7. l \in Out /\ l # "xccdec" /\ at'[a].pc = l
  BY <1>6 DEF Out, Moves, Goes
<1>8. Keeps(a)' = Keeps(a) /\ Its(a)' = x /\ Counts(v) /\ ~Counts(v)'
  BY <1>1, <1>2, <1>3, <1>6, <1>7, SwapCounts
<1>9. Holds(a)' = IF l = "outwrite" THEN Keeps(a) \cup {x} ELSE Keeps(a)
  BY <1>1, <1>6, <1>7, <1>8, HeldKeptNext DEF HeldBy
<1>10. Relocks(a)
  BY <1>2, <1>4, <1>5, <1>6, <1>9, HeldLocked DEF Relocks
<1>11. Spares(a)
  BY <1>4, <1>6 DEF Spares
<1>12. Tallies(v)
  BY <1>2, <1>3, <1>6, <1>8, TallyOne
<1>13. \A y \in Text : /\ text'[y].count = text[y].count /\ text'[y].iptr = text[y].iptr
                       /\ text'[y].iptr = NoFile /\ ~text'[y].lock => ~text'[y].caddr
  BY <1>6 DEF IInv, Unnamed
<1>14. a \in Proc => ~Fetches(a)
  BY <1>3, Actors DEF Whose
<1> QED
  BY <1>1, <1>2, <1>3, <1>6, <1>7, <1>10, <1>11, <1>12, <1>13, <1>14, SwapStep

LEMMA TextOutInv ==
    ASSUME IInv, NEW a \in Actor, TextOut(a)
    PROVE  IInv'
<1>1. Shape' /\ DidTextOut(a) /\ (a \in Proc => Steps(a)) /\ (a = Sched => SchedSteps)
  BY TextOutShape DEF IInv
<1> DEFINE x == Its(a)
<1>2. /\ UNCHANGED <<free, itext, proc, sp>> /\ at[a].pc = "outwrite" /\ at[a].pc \in Out /\ x \in Text
      /\ Moves(a, "image") /\ at'[a].pc = "image" /\ "image" \in Out
      /\ text'[x].count = text[x].count /\ text'[x].ccount = text[x].ccount
      /\ text'[x].iptr = text[x].iptr /\ \A y \in Text \ {x} : text'[y] = text[y]
      /\ text'[x].lock = FALSE /\ text'[x].caddr = FALSE
  BY <1>1 DEF DidTextOut, Runs, Out, EntryIs, Moves, Goes
<1> PICK v \in Proc : Whose(a) = v
  BY <1>2, WhoseProc DEF IInv, Place
<1>3. ~Fetches(v) /\ x = proc[v].text /\ Typed
  BY <1>2, SwapsCounted DEF IInv, Shape
<1>4. Keeps(a)' = Keeps(a) /\ Its(a)' = x /\ Counts(v) = FALSE /\ Counts(v)' = FALSE
  BY <1>1, <1>2, <1>3, SwapCounts
<1>5. Keeps(a) = {}
  <2>1. CASE a \in Proc
    BY <1>2, <1>3, <2>1, ShapeOf, Actors DEF IInv, ControlOf, Whose, Keeps, Fetches, Place, Out
  <2>2. CASE a = Sched
    BY <1>2, <2>2, ShapeOfSched DEF IInv, SchedControl, Keeps, Place
  <2> QED
    BY <2>1, <2>2 DEF Actor
<1>6. Holds(a) = {x} /\ Holds(a)' = {}
  BY <1>1, <1>2, <1>4, <1>5, HeldKept, HeldKeptNext DEF IInv, HeldBy
<1>7. Relocks(a)
  BY <1>2, <1>6, HeldLocked DEF Relocks
<1>8. Spares(a)
  BY <1>2 DEF Spares
<1>9. Tallies(v)
  BY <1>2, <1>3, <1>4, TallySame
<1>10. \A y \in Text : /\ text'[y].count = text[y].count /\ text'[y].iptr = text[y].iptr
                       /\ text'[y].iptr = NoFile /\ ~text'[y].lock => ~text'[y].caddr
  BY <1>2 DEF IInv, Unnamed
<1>11. a \in Proc => ~Fetches(a)
  BY <1>3, Actors DEF Whose
<1> QED
  BY <1>1, <1>2, <1>3, <1>7, <1>8, <1>9, <1>10, <1>11, SwapStep

LEMMA ImageOutInv ==
    ASSUME IInv, NEW a \in Actor, ImageOut(a)
    PROVE  IInv'
<1>1. Shape' /\ DidImageOut(a) /\ (a \in Proc => Steps(a)) /\ (a = Sched => SchedSteps)
  BY ImageOutShape DEF IInv
<1>2. /\ free' = free /\ itext' = itext /\ at[a].pc = "image"
  BY <1>1 DEF DidImageOut, Runs
<1>3. CASE a \in Proc
  <2> DEFINE x == at[a].x
  <2>1. Typed /\ ControlOf(a) /\ a \in Actor /\ a # Sched /\ Mine(a) /\ Holds(a) = ProcHeld(a)
        /\ Holds(a)' = ProcHeld(a)' /\ Whose(a) = a
    BY <1>1, <1>3, ShapeOf, ProcHolds, ProcHoldsNext DEF IInv, Whose
  <2>2. /\ proc'[a].text = proc[a].text /\ proc'[a].loaded = FALSE /\ proc[a].loaded /\ sp' = sp
        /\ at'[a].pc = at[a].after /\ at'[a].after = at[a].after
        /\ at[a].after \in {"user", "xalloc", "again", "readi"}
    BY <1>1, <1>2, <1>3, <2>1 DEF DidImageOut, ProcIs, Moves, Goes, Steps, ControlOf, Out, Locals
  <2>3. Counts(a) = FALSE /\ Counts(a)' = FALSE
    <3>1. sp # a
      BY <1>3, <2>2, Actors DEF IInv, Shape, SchedControl
    <3> QED
      BY <1>2, <2>2, <3>1 DEF Counts
  <2>4. Fetches(a)' = FALSE /\ (Fetches(a) <=> at[a].after \in {"again", "readi"}) /\ ~Claims(a) /\ ~Claims(a)'
    BY <1>2, <2>2 DEF Fetches, Claims, Place, Out
  <2>5. Holds(a)' = {} /\ Holds(a) = IF at[a].after \in {"again", "readi"} THEN {x} ELSE {}
    BY <1>2, <2>1, <2>2, <2>4 DEF ProcHeld
  <2>6. /\ \A y \in Text : /\ text'[y].count = text[y].count /\ text'[y].iptr = text[y].iptr
                           /\ text'[y].ccount = text[y].ccount /\ text'[y].caddr = text[y].caddr
                           /\ text'[y].lock = IF y \in Holds(a) THEN FALSE ELSE text[y].lock
        /\ Holds(a) # {} => x \in Text /\ text[x].iptr # NoFile
    <3>1. CASE /\ at[a].after \in {"again", "readi"} /\ x \in Text
               /\ EntryIs(x, text[x].iptr, text[x].count, text[x].ccount, FALSE, text[x].writ,
                          text[x].load, text[x].caddr, text[x].core, text[x].swap)
      <4>1. proc[a].text = x
        BY <2>1, <3>1 DEF ControlOf
      <4>2. text[x].iptr # NoFile
        BY <1>3, <2>1, <3>1, <4>1, Actors DEF Mine
      <4> QED
        BY <2>5, <3>1, <4>2 DEF EntryIs
    <3>2. CASE at[a].after \notin {"again", "readi"} /\ UNCHANGED <<text, on>>
      BY <2>5, <3>2
    <3> QED
      BY ZenonT(60), <1>1, <3>1, <3>2 DEF DidImageOut
  <2>7. Relocks(a)
    BY <2>5, <2>6, <2>1, HeldLocked DEF Relocks
  <2>8. Spares(a)
    BY <2>6 DEF Spares
  <2>9. Tallies(a)
    BY <1>3, <2>1, <2>2, <2>3, <2>6, TallySame
  <2>10. Mine(a)'
    <3>1. proc[a].text # NoText => proc[a].text \in Text
      BY <1>3, <2>1 DEF Typed, Process
    <3> QED
      BY <1>3, <2>1, <2>2, <2>4, <2>6, <3>1 DEF Mine
  <2>11. Quiet(a)
    <3>1. \A y \in Text : text'[y].count = text[y].count /\ text'[y].iptr = text[y].iptr
      BY <2>6
    <3> QED
      BY <1>2, <2>4, <3>1 DEF Quiet, Claims
  <2>12. \A y \in Text : text'[y].iptr = NoFile /\ ~text'[y].lock => ~text'[y].caddr
    <3>1. \A y \in Text : text[y].iptr = NoFile /\ ~text[y].lock => ~text[y].caddr
      BY DEF IInv, Unnamed
    <3>2. SUFFICES ASSUME NEW y \in Text, text'[y].iptr = NoFile, ~text'[y].lock, text'[y].caddr
                   PROVE  FALSE
      OBVIOUS
    <3> QED
      BY <2>5, <2>6, <3>1, <3>2
  <2>13. (Simple(free, Text) /\ Listed /\ Apart /\ Points)'
    BY <1>1, <1>3, <2>11, AsideProc, QuietStep
  <2> QED
    BY <1>1, <1>3, <2>7, <2>8, <2>9, <2>10, <2>12, <2>13, ProcStep
<1>4. CASE a = Sched
  <2>1. /\ SchedControl /\ Typed /\ sp # Idle /\ Whose(a) = sp
    BY <1>2, <1>4, ShapeOfSched DEF IInv, SchedControl, Place, Whose
  <2> PICK v \in Proc : v = sp
    BY <2>1 DEF Typed
  <2>2. ~proc[v].loaded /\ ~Fetches(v) /\ at[v].pc \notin Out
    BY <2>1, SwappedOut
  <2>3. /\ text' = text /\ proc'[v].text = proc[v].text /\ proc'[v].loaded = FALSE
        /\ \A q \in Proc \ {v} : proc'[q] = proc[q]
        /\ sp' = Idle /\ at'[Sched].pc = "sched"
    BY <1>1, <1>4, <2>1, Actors DEF DidImageOut, ProcIs, Moves, Goes, SchedControl
  <2>4. Counts(v) = FALSE /\ Counts(v)' = FALSE
    BY <1>1, <1>2, <1>4, <2>2, <2>3, SchedCounts, Actors
  <2>5. Holds(Sched) = {} /\ Holds(Sched)' = {}
    BY <1>1, <1>2, <1>4, <2>3, SchedHolds, SchedHoldsNext DEF IInv, SchedHeld, Place
  <2>6. Relocks(Sched) /\ Spares(Sched)
    BY <2>3, <2>5 DEF Relocks, Spares
  <2>7. Tallies(v)
    BY <2>1, <2>3, <2>4, TallySame
  <2>8. Quiet(Sched)
    BY <1>2, <2>3, Actors DEF Quiet
  <2>9. \A y \in Text : text'[y].iptr = NoFile /\ ~text'[y].lock => ~text'[y].caddr
    BY <2>3 DEF IInv, Unnamed
  <2> QED
    BY <1>1, <1>4, <2>2, <2>3, <2>6, <2>7, <2>8, <2>9, SchedStep
<1> QED
  BY <1>3, <1>4 DEF Actor

-----------------------------------------------------------------------------
(* The swapper's steps keep the invariant. *)

(* A step of sched with v, which it brings in or throws out. *)
Swaps(v) ==
    /\ sp \in {v, Idle} /\ sp' \in {v, Idle}
    /\ \A q \in Proc \ {v} : proc'[q].loaded = proc[q].loaded
    /\ ~Fetches(v) /\ at[v].pc \notin Out /\ at'[Sched].pc # "unwrite"
    /\ free' = free /\ itext' = itext

(* It takes no lock and gives up none. *)
LEMMA SwapsStill ==
    ASSUME IInv, Shape', SchedSteps, NEW v \in Proc, Swaps(v), SchedHeld' = SchedHeld,
           \A x \in Text : /\ text'[x].count = text[x].count /\ text'[x].ccount = text[x].ccount
                           /\ text'[x].iptr = text[x].iptr /\ text'[x].lock = text[x].lock
                           /\ text'[x].caddr => text[x].caddr \/ text[x].lock,
           proc[v].text # NoText =>
               ((proc[v].loaded \/ (sp = v /\ at[Sched].pc \in {"inload", "swapout", "xccdec"}))
                <=> (proc'[v].loaded \/ (sp' = v /\ at'[Sched].pc \in {"inload", "swapout", "xccdec"})))
    PROVE  IInv'
<1>1. Holds(Sched)' = Holds(Sched)
  BY SchedHolds, SchedHoldsNext DEF IInv
<1>2. Relocks(Sched)
  BY <1>1, HeldLocked, Actors DEF Relocks
<1>3. Spares(Sched)
  BY DEF Spares
<1>4. Quiet(Sched)
  BY Actors DEF Quiet, Swaps
<1>5. /\ Counts(v) <=> proc[v].loaded \/ (sp = v /\ at[Sched].pc \in {"inload", "swapout", "xccdec"})
      /\ Counts(v)' <=> proc'[v].loaded \/ (sp' = v /\ at'[Sched].pc \in {"inload", "swapout", "xccdec"})
  BY SchedCounts DEF Swaps
<1>6. proc[v].text # NoText => Counts(v)' = Counts(v)
  BY <1>5 DEF Counts
<1>7. Tallies(v)
  BY <1>6, TallySame DEF SchedSteps, IInv, Shape
<1>8. \A y \in Text : text'[y].iptr = NoFile /\ ~text'[y].lock => ~text'[y].caddr
  BY DEF IInv, Unnamed
<1> QED
  BY <1>2, <1>3, <1>4, <1>7, <1>8, SchedStep DEF Swaps

(* It unlocks the text of v, which from now on counts v if n is 1. *)
LEMMA SwapsUnlock ==
    ASSUME IInv, Shape', SchedSteps, NEW v \in Proc, Swaps(v), sp = v, NEW n \in {0, 1},
           NEW x \in Text, proc[v].text = x, SchedHeld = {x}, SchedHeld' = {},
           \A y \in Text \ {x} : text'[y] = text[y],
           text'[x].count = text[x].count, text'[x].ccount = text[x].ccount + n,
           text'[x].iptr = text[x].iptr, text'[x].lock = FALSE,
           at[Sched].pc \notin {"inload", "swapout", "xccdec"}, proc'[v].loaded = proc[v].loaded,
           n = 1 <=> (sp' = v /\ at'[Sched].pc \in {"inload", "swapout", "xccdec"})
    PROVE  IInv'
<1>1. Holds(Sched) = {x} /\ Holds(Sched)' = {}
  BY SchedHolds, SchedHoldsNext DEF IInv
<1>2. Relocks(Sched)
  BY <1>1, HeldLocked, Actors DEF Relocks
<1>3. Spares(Sched)
  BY <1>1 DEF Spares
<1>4. Quiet(Sched)
  BY Actors DEF Quiet, Swaps
<1>5. ~proc[v].loaded
  BY Actors, SwappedOut
<1>6. ~Counts(v) /\ (Counts(v)' <=> n = 1)
  BY <1>5, SchedCounts DEF Swaps
<1>7. proc'[v].text = x /\ Typed
  BY DEF SchedSteps, IInv, Shape
<1>8. Tallies(v)
  <2>1. CASE n = 1
    BY <1>6, <1>7, <2>1, TallyOne
  <2>2. CASE n = 0
    <3>1. Counts(v) = FALSE /\ Counts(v)' = FALSE
      BY <1>6, <2>2 DEF Counts
    <3>2. text[x].ccount \in Int
      BY <1>7 DEF Typed, RawEntry
    <3>3. \A y \in Text : text'[y].count = text[y].count /\ text'[y].ccount = text[y].ccount
      BY <2>2, <3>2
    <3> QED
      BY <1>7, <3>1, <3>3, TallySame
  <2> QED
    BY <2>1, <2>2
<1>9. text[x].iptr # NoFile
  BY Actors DEF IInv, Mine
<1>10. \A y \in Text : text'[y].iptr = NoFile /\ ~text'[y].lock => ~text'[y].caddr
  BY <1>9 DEF IInv, Unnamed
<1> QED
  BY <1>2, <1>3, <1>4, <1>8, <1>10, SchedStep DEF Swaps

LEMMA BringInv ==
    ASSUME IInv, NEW v \in Proc, Bring(v)
    PROVE  IInv'
<1>1. Shape' /\ DidBring(v) /\ SchedSteps
  BY BringShape DEF IInv
<1>2. /\ at[Sched].pc = "sched" /\ at'[Sched].pc = "inlock" /\ ~proc[v].loaded /\ sp = Idle /\ sp' = v
      /\ UNCHANGED <<text, free, itext, proc>>
  BY <1>1 DEF DidBring, Runs, Moves, Goes
<1>3. ~Fetches(v) /\ at[v].pc \notin Out
  BY <1>2, Actors, ShapeOf DEF IInv, Mine, ControlOf
<1>4. SchedHeld = {} /\ SchedHeld' = {}
  BY <1>2 DEF SchedHeld, Place
<1>5. Swaps(v)
  BY <1>2, <1>3 DEF Swaps
<1>6. v # Idle
  BY Actors
<1> QED
  BY <1>1, <1>2, <1>4, <1>5, <1>6, SwapsStill

LEMMA SwapinLockInv ==
    ASSUME IInv, SwapinLock
    PROVE  IInv'
<1>1. Shape' /\ DidSwapinLock /\ SchedSteps
  BY SwapinLockShape DEF IInv
<1> PICK v \in Proc : v = sp
  BY <1>1 DEF DidSwapinLock
<1>2. /\ at[Sched].pc = "inlock" /\ at'[Sched].pc \in {"intext", "inimage"} /\ sp = v /\ sp' = v
      /\ UNCHANGED <<free, itext, proc>> /\ Its(Sched) = proc[v].text
  BY <1>1 DEF DidSwapinLock, Gets, Runs, Moves, Goes
<1>3. ~proc[v].loaded /\ ~Fetches(v) /\ at[v].pc \notin Out
  BY <1>2, SwappedOut, Actors
<1>4. Swaps(v)
  BY <1>2, <1>3 DEF Swaps
<1>5. CASE proc[v].text = NoText /\ UNCHANGED text
  <2>1. SchedHeld = {} /\ SchedHeld' = {}
    BY <1>2, <1>5 DEF SchedHeld, Place
  <2> QED
    BY <1>1, <1>2, <1>4, <1>5, <2>1, SwapsStill
<1>6. CASE LET x == proc[v].text IN
           /\ x \in Text
           /\ EntryIs(x, text[x].iptr, text[x].count, text[x].ccount, TRUE, text[x].writ,
                      text[x].load, text[x].caddr, text[x].core, text[x].swap)
  <2> DEFINE x == proc[v].text
  <2>1. /\ x \in Text /\ x # NoText /\ text'[x].count = text[x].count /\ text'[x].ccount = text[x].ccount
        /\ text'[x].iptr = text[x].iptr /\ text'[x].lock = TRUE /\ \A y \in Text \ {x} : text'[y] = text[y]
    BY <1>6, Actors DEF EntryIs
  <2>2. ~text[x].lock
    BY <1>1, <1>2, <2>1 DEF DidSwapinLock, Gets, Wants
  <2>3. SchedHeld = {} /\ SchedHeld' = {x}
    BY <1>2, <2>1 DEF SchedHeld, Place
  <2>4. Holds(Sched) = {} /\ Holds(Sched)' = {x}
    BY <1>1, <2>3, SchedHolds, SchedHoldsNext DEF IInv
  <2>5. Relocks(Sched)
    BY <2>1, <2>2, <2>4 DEF Relocks
  <2>6. Spares(Sched)
    BY <2>1 DEF Spares
  <2>7. Quiet(Sched)
    BY <1>2, <2>1, Actors DEF Quiet
  <2>8. Counts(v) = FALSE /\ Counts(v)' = FALSE
    BY <1>1, <1>2, <1>3, SchedCounts
  <2>9. \A y \in Text : text'[y].count = text[y].count /\ text'[y].ccount = text[y].ccount
    BY <2>1
  <2>10. Tallies(v)
    BY <1>2, <2>8, <2>9, TallySame DEF IInv, Shape
  <2>11. \A y \in Text : text'[y].iptr = NoFile /\ ~text'[y].lock => ~text'[y].caddr
    BY <2>1 DEF IInv, Unnamed
  <2> QED
    BY <1>1, <1>2, <1>4, <2>5, <2>6, <2>7, <2>10, <2>11, SchedStep DEF Swaps
<1> QED
  BY <1>1, <1>5, <1>6 DEF DidSwapinLock

LEMMA FailsInv ==
    ASSUME IInv, Shape', SchedSteps, Fails, at[Sched].pc \in {"intext", "inimage"}
    PROVE  IInv'
<1> PICK v \in Proc : v = sp
  BY DEF Fails
<1>1. /\ at'[Sched].pc = "pick" /\ sp = v /\ sp' = Idle /\ UNCHANGED <<free, itext, proc>>
  BY DEF Fails, Goes
<1>2. ~proc[v].loaded /\ ~Fetches(v) /\ at[v].pc \notin Out
  BY <1>1, SwappedOut, Actors
<1>3. Swaps(v)
  BY <1>1, <1>2 DEF Swaps
<1>4. CASE proc[v].text = NoText /\ UNCHANGED text
  <2>1. SchedHeld = {} /\ SchedHeld' = {}
    BY <1>1, <1>4 DEF SchedHeld, Place
  <2> QED
    BY <1>1, <1>2, <1>3, <1>4, <2>1, SwapsStill
<1>5. CASE LET x == proc[v].text IN
           /\ x \in Text
           /\ EntryIs(x, text[x].iptr, text[x].count, text[x].ccount, FALSE, text[x].writ,
                      text[x].load, text[x].caddr, text[x].core, text[x].swap)
  <2> PICK x \in Text : x = proc[v].text
    BY <1>5
  <2>1. /\ x # NoText /\ text'[x].count = text[x].count /\ text'[x].ccount = text[x].ccount
        /\ text'[x].iptr = text[x].iptr /\ text'[x].lock = FALSE /\ \A y \in Text \ {x} : text'[y] = text[y]
    BY <1>5, Actors DEF EntryIs
  <2>2. SchedHeld = {x} /\ SchedHeld' = {}
    BY <1>1, <2>1 DEF SchedHeld, Place
  <2>3. text'[x].ccount = text[x].ccount + 0
    BY <2>1 DEF IInv, Shape, Typed, RawEntry
  <2>4. 0 = 1 <=> (sp' = v /\ at'[Sched].pc \in {"inload", "swapout", "xccdec"})
    BY <1>1
  <2>5. /\ at[Sched].pc \notin {"inload", "swapout", "xccdec"} /\ proc'[v].loaded = proc[v].loaded
        /\ 0 \in {0, 1} /\ sp = v
    BY <1>1
  <2> QED
    BY <1>3, <2>1, <2>2, <2>3, <2>4, <2>5, SwapsUnlock
<1> QED
  BY <1>1, <1>4, <1>5 DEF Fails

LEMMA SchedCallsInv ==
    ASSUME IInv, Shape', SchedSteps, NEW l \in {"intext", "inimage"}, SchedCalls(l), at[Sched].pc = l
    PROVE  IInv'
<1>1. /\ at'[Sched].pc = "xuncore" /\ at'[Sched].ret = l /\ sp' = sp /\ UNCHANGED <<text, free, itext, proc>>
  BY DEF SchedCalls, Goes, Rest
<1>2. sp # Idle
  BY DEF IInv, Shape, SchedControl, Place
<1> PICK v \in Proc : v = sp
  BY <1>2, SwappedOut
<1>3. ~proc[v].loaded /\ ~Fetches(v) /\ at[v].pc \notin Out
  BY <1>2, SwappedOut
<1>4. Swaps(v)
  BY <1>1, <1>3 DEF Swaps
<1>5. SchedHeld' = SchedHeld
  BY <1>1 DEF SchedHeld, Place
<1> QED
  BY <1>1, <1>4, <1>5, SwapsStill

LEMMA SwapinTextInv ==
    ASSUME IInv, SwapinText
    PROVE  IInv'
<1>1. Shape' /\ DidSwapinText /\ SchedSteps
  BY SwapinTextShape DEF IInv
<1>2. at[Sched].pc = "intext"
  BY <1>1 DEF DidSwapinText, Runs
<1>3. CASE /\ UNCHANGED <<text, free, itext, proc, on, sp>>
           /\ Goes(Sched, "inimage", proc[sp].text, at[Sched].xp, at[Sched].ret, at[Sched].after)
  <2> PICK v \in Proc : v = sp
    BY <1>1 DEF DidSwapinText
  <2>1. at'[Sched].pc = "inimage" /\ sp' = v /\ sp = v
    BY <1>3 DEF Goes
  <2>2. ~proc[v].loaded /\ ~Fetches(v) /\ at[v].pc \notin Out
    BY <2>1, SwappedOut, Actors
  <2>3. Swaps(v)
    BY <1>3, <2>1, <2>2 DEF Swaps
  <2>4. SchedHeld' = SchedHeld
    BY <1>2, <1>3, <2>1 DEF SchedHeld, Place
  <2> QED
    BY <1>1, <1>2, <1>3, <2>1, <2>3, <2>4, SwapsStill
<1> QED
  BY <1>1, <1>2, <1>3, FailsInv, SchedCallsInv DEF DidSwapinText

LEMMA SwapinImageInv ==
    ASSUME IInv, SwapinImage
    PROVE  IInv'
<1>1. Shape' /\ DidSwapinImage /\ SchedSteps
  BY SwapinImageShape DEF IInv
<1> PICK v \in Proc : v = sp
  BY <1>1 DEF DidSwapinImage
<1>2. at[Sched].pc = "inimage" /\ sp = v /\ v # Idle
  BY <1>1, Actors DEF DidSwapinImage, Runs
<1>3. ~proc[v].loaded /\ ~Fetches(v) /\ at[v].pc \notin Out
  BY <1>2, SwappedOut
<1>4. CASE proc[v].text = NoText /\ Moves(Sched, "inload") /\ UNCHANGED <<text, free, itext, proc, sp>>
  <2>1. at'[Sched].pc = "inload"
    BY <1>4 DEF Moves, Goes
  <2>2. Swaps(v)
    BY <1>2, <1>3, <1>4, <2>1 DEF Swaps
  <2>3. SchedHeld = {} /\ SchedHeld' = {}
    BY <1>2, <1>4, <2>1 DEF SchedHeld, Place
  <2> QED
    BY <1>1, <1>2, <1>4, <2>2, <2>3, SwapsStill
<1>5. CASE LET x == proc[v].text IN
           /\ x \in Text /\ Moves(Sched, "inread") /\ UNCHANGED <<free, itext, proc, sp>>
           /\ EntryIs(x, text[x].iptr, text[x].count, text[x].ccount, text[x].lock,
                      text[x].writ, text[x].load, TRUE, text[x].core, text[x].swap)
  <2> PICK x \in Text : x = proc[v].text
    BY <1>5
  <2>1. at'[Sched].pc = "inread"
    BY <1>5 DEF Moves, Goes
  <2>2. Swaps(v)
    BY <1>2, <1>3, <1>5, <2>1 DEF Swaps
  <2>3. SchedHeld' = SchedHeld /\ SchedHeld = {x}
    BY <1>2, <1>5, <2>1, Actors DEF SchedHeld, Place
  <2>4. text[x].lock
    BY <2>3, SchedHolds, HeldLocked, Actors DEF IInv
  <2>5. \A y \in Text : /\ text'[y].count = text[y].count /\ text'[y].ccount = text[y].ccount
                        /\ text'[y].iptr = text[y].iptr /\ text'[y].lock = text[y].lock
                        /\ text'[y].caddr => text[y].caddr \/ text[y].lock
    BY <1>5, <2>4 DEF EntryIs
  <2> QED
    BY <1>1, <1>2, <1>5, <2>1, <2>2, <2>3, <2>5, SwapsStill
<1>6. CASE LET x == proc[v].text IN
           /\ x \in Text /\ Moves(Sched, "inload") /\ UNCHANGED <<free, itext, proc, sp>>
           /\ EntryIs(x, text[x].iptr, text[x].count, text[x].ccount + 1, FALSE, text[x].writ,
                      text[x].load, text[x].caddr \/ at[Sched].x # NoText, text[x].core, text[x].swap)
  <2> PICK x \in Text : x = proc[v].text
    BY <1>6
  <2>1. at'[Sched].pc = "inload" /\ sp' = v /\ proc' = proc
    BY <1>2, <1>6 DEF Moves, Goes
  <2>2. Swaps(v)
    BY <1>2, <1>3, <1>6, <2>1 DEF Swaps
  <2>3. SchedHeld' = {} /\ SchedHeld = {x}
    BY <1>2, <2>1, Actors DEF SchedHeld, Place
  <2>4. /\ text'[x].count = text[x].count /\ text'[x].ccount = text[x].ccount + 1
        /\ text'[x].iptr = text[x].iptr /\ text'[x].lock = FALSE /\ \A y \in Text \ {x} : text'[y] = text[y]
    BY <1>6 DEF EntryIs
  <2>5. 1 = 1 <=> (sp' = v /\ at'[Sched].pc \in {"inload", "swapout", "xccdec"})
    BY <2>1
  <2>6. /\ at[Sched].pc \notin {"inload", "swapout", "xccdec"} /\ proc'[v].loaded = proc[v].loaded
        /\ 1 \in {0, 1} /\ sp = v
    BY <1>2, <2>1
  <2> QED
    BY ZenonT(60), <1>1, <2>2, <2>3, <2>4, <2>5, <2>6, SwapsUnlock
<1> QED
  BY <1>1, <1>2, <1>4, <1>5, <1>6, FailsInv, SchedCallsInv DEF DidSwapinImage

LEMMA SwapinReadInv ==
    ASSUME IInv, SwapinRead
    PROVE  IInv'
<1>1. Shape' /\ DidSwapinRead /\ SchedSteps
  BY SwapinReadShape DEF IInv
<1> PICK v \in Proc : v = sp
  BY <1>1 DEF DidSwapinRead
<1>2. /\ at[Sched].pc = "inread" /\ sp = v /\ v # Idle /\ UNCHANGED <<free, itext, proc, sp>>
      /\ at'[Sched].pc = "inload" /\ sp' = v
  BY <1>1, Actors DEF DidSwapinRead, Runs, Moves, Goes
<1>3. ~proc[v].loaded /\ ~Fetches(v) /\ at[v].pc \notin Out
  BY <1>2, SwappedOut
<1> PICK x \in Text : x = proc[v].text
  BY <1>1 DEF DidSwapinRead
<1>4. Swaps(v)
  BY <1>2, <1>3 DEF Swaps
<1>5. SchedHeld' = {} /\ SchedHeld = {x}
  BY <1>2, Actors DEF SchedHeld, Place
<1>6. /\ text'[x].count = text[x].count /\ text'[x].ccount = text[x].ccount + 1
      /\ text'[x].iptr = text[x].iptr /\ text'[x].lock = FALSE /\ \A y \in Text \ {x} : text'[y] = text[y]
  BY <1>1 DEF DidSwapinRead, EntryIs
<1>7. 1 = 1 <=> (sp' = v /\ at'[Sched].pc \in {"inload", "swapout", "xccdec"})
  BY <1>2
<1>8. /\ at[Sched].pc \notin {"inload", "swapout", "xccdec"} /\ proc'[v].loaded = proc[v].loaded
      /\ 1 \in {0, 1} /\ sp = v
  BY <1>2
<1> QED
  BY <1>1, <1>4, <1>5, <1>6, <1>7, <1>8, SwapsUnlock

LEMMA SwapinDoneInv ==
    ASSUME IInv, SwapinDone
    PROVE  IInv'
<1>1. Shape' /\ DidSwapinDone /\ SchedSteps
  BY SwapinDoneShape DEF IInv
<1> PICK v \in Proc : v = sp
  BY <1>1 DEF DidSwapinDone
<1>2. /\ at[Sched].pc = "inload" /\ sp = v /\ v # Idle /\ UNCHANGED <<text, free, itext>>
      /\ at'[Sched].pc = "sched" /\ sp' = Idle /\ proc'[v].loaded = TRUE
      /\ \A q \in Proc \ {v} : proc'[q] = proc[q]
  BY <1>1, Actors DEF DidSwapinDone, Runs, Goes, ProcIs
<1>3. ~Fetches(v) /\ at[v].pc \notin Out
  BY <1>2, SwappedOut
<1>4. Swaps(v)
  BY <1>2, <1>3 DEF Swaps
<1>5. SchedHeld' = {} /\ SchedHeld = {}
  BY <1>2 DEF SchedHeld, Place
<1> QED
  BY <1>1, <1>2, <1>4, <1>5, SwapsStill

LEMMA ThrowOutInv ==
    ASSUME IInv, NEW v \in Proc, ThrowOut(v)
    PROVE  IInv'
<1>1. Shape' /\ DidThrowOut(v) /\ SchedSteps
  BY ThrowOutShape DEF IInv
<1>2. /\ at[Sched].pc = "pick" /\ sp = Idle /\ v # Idle /\ UNCHANGED <<text, free, itext>>
      /\ at'[Sched].pc = "swapout" /\ sp' = v /\ proc'[v].loaded = FALSE
      /\ \A q \in Proc \ {v} : proc'[q] = proc[q]
      /\ proc[v].loaded /\ ~proc[v].slock /\ (proc[v].text # NoText => ~text[proc[v].text].lock)
  BY <1>1, Actors DEF DidThrowOut, Runs, Moves, Goes, ProcIs, MayGo
<1>3. ControlOf(v) /\ v \in Actor /\ Typed
  BY ShapeOf DEF IInv
<1>4. at[v].pc \notin Out
  BY <1>2, <1>3 DEF ControlOf
<1>5. ~Fetches(v)
  <2> SUFFICES ASSUME Fetches(v) PROVE FALSE
    OBVIOUS
  <2>1. at[v].x \in Text /\ proc[v].text = at[v].x
    BY <1>3 DEF ControlOf, Fetches
  <2>2. at[v].x \in Holds(v)
    BY ProcHolds DEF IInv, ProcHeld
  <2> QED
    BY <1>2, <1>3, <2>1, <2>2, HeldLocked, Actors
<1>6. Swaps(v)
  BY <1>2, <1>4, <1>5 DEF Swaps
<1>7. SchedHeld' = {} /\ SchedHeld = {}
  BY <1>2 DEF SchedHeld, Place
<1> QED
  BY <1>1, <1>2, <1>6, <1>7, SwapsStill

LEMMA WaitCoreInv ==
    ASSUME IInv, WaitCore
    PROVE  IInv'
<1>1. Shape' /\ DidWaitCore /\ SchedSteps
  BY WaitCoreShape DEF IInv
<1>2. /\ at[Sched].pc = "pick" /\ at'[Sched].pc = "sched" /\ UNCHANGED <<text, free, itext, proc, sp>>
  BY <1>1 DEF DidWaitCore, Runs, Moves, Goes, Rest
<1>3. \A q \in Proc : proc'[q].text = proc[q].text /\ Counts(q)' = Counts(q)
  BY <1>1, <1>2 DEF SchedSteps, Counts, Place
<1>4. Holds(Sched)' = {} /\ Holds(Sched) = {}
  BY <1>1, <1>2, SchedHolds, SchedHoldsNext DEF IInv, SchedHeld, Place
<1>5. Mine(Sched)' /\ Quiet(Sched)
  BY <1>2, Actors DEF Mine, Quiet
<1>6. Still(Sched)
  BY <1>2, <1>4, <1>5 DEF Still
<1>7. Aside(Sched)
  BY <1>1, <1>2, AsideActor, Actors
<1> QED
  BY <1>1, <1>3, <1>6, <1>7, StillStep, Actors

LEMMA NobodyInv ==
    ASSUME IInv, Nobody
    PROVE  IInv'
BY NobodyShape, SameIInv DEF IInv, Nobody

LEMMA StutterInv ==
    ASSUME IInv, UNCHANGED vars
    PROVE  IInv'
BY StutterShape, SameIInv DEF IInv, vars

LEMMA IInvNext ==
    ASSUME IInv, [Next]_vars, NoRace
    PROVE  IInv'
<1>1. ~ReusedInUse /\ ~UnlocksOther
  BY DEF NoRace
<1>2. ASSUME NEW p \in Proc, Step(p) PROVE IInv'
  BY <1>1, <1>2, ExecInv, GrowInv, XfreeInv, ExpandInv, AttachInv, XwaitedInv, AllotInv, XuntextInv,
     XuntextedInv, XexpandInv, XreadInv, ReadiInv, ReadInInv, UnlockAgainInv DEF Step
<1>3. ASSUME NEW a \in Actor,
             WaitLock(a) \/ Xuncore(a) \/ Xcore(a) \/ Unwritten(a) \/ Swapout(a) \/ Xccdec(a)
             \/ TextOut(a) \/ ImageOut(a)
      PROVE  IInv'
  BY <1>3, WaitLockInv, XuncoreInv, XcoreInv, UnwrittenInv, SwapoutInv, XccdecInv, TextOutInv, ImageOutInv
<1>4. CASE Swapper
  BY <1>4, SwapinLockInv, SwapinTextInv, SwapinImageInv, SwapinReadInv, SwapinDoneInv, NobodyInv,
     WaitCoreInv, BringInv, ThrowOutInv DEF Swapper
<1>5. CASE UNCHANGED vars
  BY <1>5, StutterInv
<1> QED
  BY <1>2, <1>3, <1>4, <1>5 DEF Next

LEMMA IInvInit ==
    ASSUME Init
    PROVE  IInv
<1>1. Shape
  BY ShapeInit
<1>2. Simple(free, Text) /\ ToSet(free) = Text
  <2>1. free \in [1..Cardinality(Text) -> Text] /\ IsInjective(free)
    BY DEF Init, SetToSeqs, IsInjective
  <2> QED
    BY <2>1, NoneAssumption, FullSimple
<1>3. \A a \in Actor : at[a].pc \in {"user", "sched"} /\ at[a].after \in {"user", "sched"}
  BY DEF Init, Home, Top
<1>4. \A a \in Actor : Holds(a) = {} /\ Place(a) \in {"user", "sched"}
  BY <1>3 DEF Holds, Place
<1>5. \A p \in Proc : ~Fetches(p) /\ ~Claims(p) /\ proc[p].text = NoText
  BY <1>3, <1>4, Actors DEF Init, Fetches, Claims, Out
<1>6. Locked
  BY <1>4 DEF Init, Locked
<1>7. Accounts
  <2> SUFFICES ASSUME NEW x \in Text
               PROVE  /\ text[x].count = Cardinality({p \in Proc : proc[p].text = x})
                      /\ text[x].ccount = Cardinality({p \in Proc : proc[p].text = x /\ Counts(p)})
    BY DEF Accounts
  <2>1. {p \in Proc : proc[p].text = x} = {} /\ {p \in Proc : proc[p].text = x /\ Counts(p)} = {}
    BY <1>5, Actors
  <2>2. text[x].count = 0 /\ text[x].ccount = 0
    BY DEF Init
  <2> QED
    BY <2>1, <2>2, FS_EmptySet
<1>8. Listed /\ Apart
  BY <1>2, <1>5 DEF Init, Listed, Apart
<1>9. \A a \in Actor : Mine(a)
  BY <1>3, <1>5 DEF Mine
<1>10. Unnamed /\ Points
  BY DEF Init, Unnamed, Points
<1> QED
  BY <1>1, <1>2, <1>6, <1>7, <1>8, <1>9, <1>10 DEF IInv

(* As long as none of the races that the code does not guard against has   *)
(* come about, the locks of the texts are locks: each is held by one who   *)
(* is between X_LOCK and XUNLOCK, through every sleep.                     *)
THEOREM TextsLocked == Spec /\ []NoRace => []Locked
<1>1. Init => IInv
  BY IInvInit
<1>2. IInv /\ NoRace /\ [Next]_vars => IInv'
  BY IInvNext
<1>3. IInv => Locked
  BY DEF IInv
<1> QED
  BY <1>1, <1>2, <1>3, PTL DEF Spec

(* x_count and x_ccount are the numbers of the users of a text and of      *)
(* those in core, as long as none of these races has come about.           *)
THEOREM TextsAccounted == Spec /\ []NoRace => []Accounts
<1>1. Init => IInv
  BY IInvInit
<1>2. IInv /\ NoRace /\ [Next]_vars => IInv'
  BY IInvNext
<1>3. IInv => Accounts
  BY DEF IInv
<1> QED
  BY <1>1, <1>2, <1>3, PTL DEF Spec
-----------------------------------------------------------------------------
(* Programs and their texts *)

(* p executes a program, whose inode it has locked; it reads in its text.  *)
Busy(p) == at[p].pc # "user" /\ at[p].after # "user"
Fills(p) == at[p].after = "readi"

InodeLock ==
    \A p, q \in Proc : Busy(p) /\ Busy(q) /\ proc[p].prog = proc[q].prog /\ proc[p].prog # NoFile => p = q

(* i_text and x_iptr. *)
Found == \A f \in File, x \in Text : itext[f] = x <=> text[x].iptr = f

Sole == \A p \in Proc : Claims(p) => itext[proc[p].prog] = NoText

Bound == \A p \in Proc : proc[p].text # NoText /\ Place(p) # "xfree" => text[proc[p].text].iptr = proc[p].prog

(* XLOAD is set while somebody reads in the text, and he has it alone. *)
Loading ==
    /\ \A p, q \in Proc : Fills(p) /\ proc[q].text = at[p].x => p = q
    /\ \A p \in Proc : Fills(p) => text[at[p].x].load /\ ~text[at[p].x].writ
    /\ \A x \in Text : text[x].load => \E p \in Proc : Fills(p) /\ at[p].x = x

Names == InodeLock /\ Found /\ Sole /\ Bound /\ Loading

(* No entry gets another inode, and none is more to be read or written. *)
SameEntries ==
    /\ itext' = itext
    /\ \A x \in Text : /\ text'[x].iptr = text[x].iptr /\ text'[x].load = text[x].load
                       /\ text'[x].writ => text[x].writ

(* p goes on with its program. *)
SameProgram(p) ==
    /\ proc'[p].prog = proc[p].prog /\ proc'[p].text \in {proc[p].text, NoText}
    /\ Busy(p)' => Busy(p)
    /\ (Fills(p)' <=> Fills(p)) /\ (Fills(p) => at'[p].x = at[p].x)
    /\ Claims(p)' => Claims(p)
    /\ proc'[p].text # NoText /\ Place(p)' # "xfree" => Place(p) # "xfree"

LEMMA SameNames ==
    ASSUME Shape, Names, SameEntries, \A p \in Proc : SameProgram(p)
    PROVE  Names'
<1>1. \A p \in Proc : Fills(p) => at[p].x \in Text /\ proc[p].text = at[p].x
  BY DEF Shape, ControlOf, Fills
<1>2. \A p \in Proc : proc[p].text \in Text \cup {NoText}
  BY DEF Shape, Typed, Process
<1>3. InodeLock'
  BY DEF Names, InodeLock, SameProgram
<1>4. Found'
  BY DEF Names, Found, SameEntries
<1>5. Sole'
  BY DEF Names, Sole, SameEntries, SameProgram
<1>6. Bound'
  BY <1>2 DEF Names, Bound, SameEntries, SameProgram
<1>7. Loading'
  <2>1. ASSUME NEW p \in Proc, NEW q \in Proc, Fills(p)', proc'[q].text = at'[p].x PROVE p = q
    <3>1. Fills(p) /\ at'[p].x = at[p].x /\ proc'[q].text \in {proc[q].text, NoText}
      BY <2>1 DEF SameProgram
    <3>2. proc[q].text = at[p].x
      BY <1>1, <2>1, <3>1, Actors
    <3> QED
      BY <3>1, <3>2 DEF Names, Loading
  <2>2. ASSUME NEW p \in Proc, Fills(p)' PROVE text'[at'[p].x].load /\ ~text'[at'[p].x].writ
    <3>1. Fills(p) /\ at'[p].x = at[p].x
      BY <2>2 DEF SameProgram
    <3>2. at[p].x \in Text /\ text[at[p].x].load /\ ~text[at[p].x].writ
      BY <1>1, <3>1 DEF Names, Loading
    <3> QED
      BY <3>1, <3>2 DEF SameEntries
  <2>3. ASSUME NEW x \in Text, text'[x].load PROVE \E p \in Proc : Fills(p)' /\ at'[p].x = x
    <3>1. PICK p \in Proc : Fills(p) /\ at[p].x = x
      BY <2>3 DEF SameEntries, Names, Loading
    <3> QED
      BY <3>1 DEF SameProgram
  <2> QED
    BY <2>1, <2>2, <2>3 DEF Loading
<1> QED
  BY <1>3, <1>4, <1>5, <1>6, <1>7 DEF Names

LEMMA OthersSame ==
    ASSUME NEW p \in Proc, Steps(p)
    PROVE  \A q \in Proc \ {p} : /\ at'[q] = at[q] /\ proc'[q] = proc[q] /\ SameProgram(q)
                                 /\ Busy(q)' = Busy(q) /\ Fills(q)' = Fills(q)
                                 /\ Claims(q)' = Claims(q) /\ Place(q)' = Place(q)
<1> SUFFICES ASSUME NEW q \in Proc \ {p}
             PROVE  /\ at'[q] = at[q] /\ proc'[q] = proc[q] /\ SameProgram(q)
                    /\ Busy(q)' = Busy(q) /\ Fills(q)' = Fills(q)
                    /\ Claims(q)' = Claims(q) /\ Place(q)' = Place(q)
  OBVIOUS
<1>1. at'[q] = at[q] /\ proc'[q] = proc[q]
  BY Actors DEF Steps
<1> QED
  BY <1>1 DEF Busy, Fills, Claims, Place, SameProgram

LEMMA NamesProc ==
    ASSUME Shape, Names, NEW p \in Proc, Steps(p), SameEntries, SameProgram(p)
    PROVE  Names'
BY OthersSame, SameNames

LEMMA NamesSched ==
    ASSUME Shape, Names, SchedSteps, SameEntries
    PROVE  Names'
<1>1. ASSUME NEW q \in Proc PROVE SameProgram(q)
  BY DEF SchedSteps, SameProgram, Busy, Fills, Claims, Place
<1> QED
  BY <1>1, SameNames

(* In malloc or in swapout. *)
LEMMA NamesActor ==
    ASSUME Shape, Names, NEW a \in Actor, a \in Proc => Steps(a), a = Sched => SchedSteps, SameEntries,
           at[a].pc # "user", at'[a].after = at[a].after, at'[a].x = at[a].x,
           at'[a].pc \notin {"xuntext", "irele"}, Place(a)' # "xfree" => Place(a) # "xfree",
           a \in Proc => proc'[a].text = proc[a].text /\ proc'[a].prog = proc[a].prog
    PROVE  Names'
<1>1. CASE a \in Proc
  <2>1. SameProgram(a)
    BY <1>1 DEF SameProgram, Busy, Fills, Claims
  <2> QED
    BY <1>1, <2>1, NamesProc
<1>2. CASE a = Sched
  BY <1>2, NamesSched
<1> QED
  BY <1>1, <1>2 DEF Actor

LEMMA QuietNames ==
    ASSUME Shape, Names, NEW p \in Proc,
           Grow(p) \/ Xfree(p) \/ Expand(p) \/ Xwaited(p) \/ Xexpand(p) \/ Xread(p) \/ Readi(p) \/ UnlockAgain(p)
    PROVE  Names'
<1>1. ControlOf(p) /\ p \in Actor /\ proc[p].text \in Text \cup {NoText}
  BY ShapeOf DEF Process
<1>2. CASE Grow(p)
  <2>1. Steps(p) /\ DidGrow(p)
    BY <1>2, GrowShape
  <2>2. SameProgram(p)
    BY <1>1, <2>1 DEF DidGrow, Runs, Moves, Goes, Rest, SameProgram, ControlOf, Place, Busy, Fills, Claims
  <2> QED
    BY <2>1, <2>2, NamesProc DEF DidGrow, Rest, SameEntries
<1>3. CASE Xfree(p)
  <2>1. Steps(p) /\ DidXfree(p)
    BY <1>3, XfreeShape
  <2>2. SameProgram(p)
    BY <1>1, <2>1 DEF DidXfree, Gets, Runs, Moves, Goes, ProcIs, SameProgram, Place, Busy, Fills, Claims
  <2>3. SameEntries
    BY <2>1 DEF DidXfree, EntryIs, SameEntries
  <2> QED
    BY <2>1, <2>2, <2>3, NamesProc
<1>4. CASE Expand(p)
  <2>1. Steps(p) /\ DidExpand(p)
    BY <1>4, ExpandShape
  <2>2. SameProgram(p)
    <3>1. at[p].pc = "expand" /\ at[p].after \in {"user", "xalloc"} /\ Place(p) = "expand"
      BY <1>1, <2>1 DEF DidExpand, Runs, ControlOf, Place
    <3>2. proc'[p].text = proc[p].text /\ proc'[p].prog = proc[p].prog
      BY <2>1 DEF DidExpand, ProcIs, Rest
    <3>3. /\ at'[p].pc \in {"user", "xalloc", "xuncore", "swapout"} /\ Place(p)' # "xfree"
          /\ at'[p].after = at[p].after
      BY <2>1, <3>1 DEF DidExpand, Moves, Goes, Place
    <3> QED
      BY <3>1, <3>2, <3>3 DEF SameProgram, Busy, Fills, Claims
  <2> QED
    BY <2>1, <2>2, NamesProc DEF DidExpand, Rest, SameEntries
<1>5. CASE Xwaited(p)
  <2>1. Steps(p) /\ DidXwaited(p)
    BY <1>5, XwaitedShape
  <2>2. SameProgram(p)
    BY <1>1, <2>1 DEF DidXwaited, Gets, Runs, Goes, Rest, SameProgram, ControlOf, Place, Busy, Fills, Claims
  <2> QED
    BY <2>1, <2>2, NamesProc DEF DidXwaited, Rest, SameEntries
<1>6. CASE Xexpand(p)
  <2>1. Steps(p) /\ DidXexpand(p)
    BY <1>6, XexpandShape
  <2>2. SameProgram(p)
    <3>1. at[p].pc = "xexpand" /\ at[p].after \in {"again", "readi"} /\ Place(p) = "xexpand"
      BY <1>1, <2>1 DEF DidXexpand, Runs, ControlOf, Place
    <3>2. proc'[p].text = proc[p].text /\ proc'[p].prog = proc[p].prog
      BY ZenonT(60), <2>1 DEF DidXexpand, ProcIs, Rest
    <3>3. /\ at'[p].pc \in {"again", "readi", "xread", "xuncore", "swapout"}
          /\ at'[p].after = at[p].after /\ at'[p].x = at[p].x
      BY ZenonT(60), <2>1, <3>1 DEF DidXexpand, Moves, Goes
    <3> QED
      BY <3>1, <3>2, <3>3 DEF SameProgram, Busy, Fills, Claims
  <2>3. SameEntries
    BY <2>1 DEF DidXexpand, EntryIs, Rest, SameEntries
  <2> QED
    BY <2>1, <2>2, <2>3, NamesProc
<1>7. CASE Xread(p)
  <2>1. Steps(p) /\ DidXread(p)
    BY <1>7, XreadShape
  <2>2. SameProgram(p)
    BY <1>1, <2>1 DEF DidXread, Runs, Moves, Goes, SameProgram, ControlOf, Place, Busy, Fills, Claims
  <2>3. SameEntries
    BY <2>1 DEF DidXread, EntryIs, SameEntries
  <2> QED
    BY <2>1, <2>2, <2>3, NamesProc
<1>8. CASE Readi(p)
  <2>1. Steps(p) /\ DidReadi(p)
    BY <1>8, ReadiShape
  <2>2. SameProgram(p)
    BY <1>1, <2>1 DEF DidReadi, Runs, Moves, Goes, ProcIs, SameProgram, Place, Busy, Fills, Claims
  <2> QED
    BY <2>1, <2>2, NamesProc DEF DidReadi, SameEntries
<1>9. CASE UnlockAgain(p)
  <2>1. Steps(p) /\ DidUnlockAgain(p)
    BY <1>9, UnlockAgainShape
  <2>2. SameProgram(p)
    BY <1>1, <2>1 DEF DidUnlockAgain, Runs, Goes, SameProgram, ControlOf, Place, Busy, Fills, Claims
  <2>3. SameEntries
    BY <2>1 DEF DidUnlockAgain, EntryIs, SameEntries
  <2> QED
    BY <2>1, <2>2, <2>3, NamesProc
<1> QED
  BY <1>2, <1>3, <1>4, <1>5, <1>6, <1>7, <1>8, <1>9

LEMMA MallocNames ==
    ASSUME Shape, Names, NEW a \in Actor, WaitLock(a) \/ Xuncore(a) \/ Xcore(a) \/ Unwritten(a)
    PROVE  Names'
<1>1. at[a].pc \in Inner => at[a].ret \in {"expand", "xexpand", "intext", "inimage"}
  BY Actors DEF Shape, ControlOf, SchedControl, Actor
<1>2. CASE WaitLock(a)
  <2>1. DidWaitLock(a)
    BY <1>2, WaitLockDoes
  <2>2. SameEntries /\ \A p \in Proc : SameProgram(p)
    BY <2>1 DEF DidWaitLock, SameEntries, SameProgram, Busy, Fills, Claims, Place
  <2> QED
    BY <2>2, SameNames
<1>3. CASE Xuncore(a)
  <2>1. DidXuncore(a) /\ (a \in Proc => Steps(a)) /\ (a = Sched => SchedSteps)
    BY <1>3, XuncoreShape
  <2>2. at[a].pc = "xuncore"
    BY <2>1 DEF DidXuncore, Runs
  <2>3. /\ at'[a].pc \in {"xuncore", "xcore", at[a].ret} /\ at'[a].after = at[a].after /\ at'[a].x = at[a].x
        /\ Place(a)' = Place(a)
    BY <1>1, <2>1, <2>2 DEF DidXuncore, Runs, LooksOn, Resumes, Moves, Goes, Place, Inner
  <2> QED
    BY <1>1, <2>1, <2>2, <2>3, NamesActor DEF DidXuncore, Rest, SameEntries, Inner
<1>4. CASE Xcore(a)
  <2>1. DidXcore(a) /\ (a \in Proc => Steps(a)) /\ (a = Sched => SchedSteps)
    BY <1>4, XcoreShape
  <2>2. at[a].pc = "xcore"
    BY <2>1 DEF DidXcore, Gets, Runs
  <2>3. /\ at'[a].pc \in {"xuncore", "unwrite", at[a].ret} /\ at'[a].after = at[a].after /\ at'[a].x = at[a].x
        /\ Place(a)' = Place(a)
    BY <1>1, <2>1, <2>2 DEF DidXcore, LooksOn, Resumes, Moves, Goes, Place, Inner
  <2>4. SameEntries
    BY <2>1 DEF DidXcore, EntryIs, SameEntries
  <2> QED
    BY <1>1, <2>1, <2>2, <2>3, <2>4, NamesActor DEF DidXcore, Inner
<1>5. CASE Unwritten(a)
  <2>1. DidUnwritten(a) /\ (a \in Proc => Steps(a)) /\ (a = Sched => SchedSteps)
    BY <1>5, UnwrittenShape
  <2>2. at[a].pc = "unwrite"
    BY <2>1 DEF DidUnwritten, Runs
  <2>3. /\ at'[a].pc \in {"xuncore", at[a].ret} /\ at'[a].after = at[a].after /\ at'[a].x = at[a].x
        /\ Place(a)' = Place(a)
    BY <1>1, <2>1, <2>2 DEF DidUnwritten, LooksOn, Resumes, Moves, Goes, Place, Inner
  <2>4. SameEntries
    BY <2>1 DEF DidUnwritten, EntryIs, SameEntries
  <2> QED
    BY <1>1, <2>1, <2>2, <2>3, <2>4, NamesActor DEF DidUnwritten, Inner
<1> QED
  BY <1>2, <1>3, <1>4, <1>5

LEMMA SwapoutNames ==
    ASSUME Shape, Names, NEW a \in Actor, Swapout(a) \/ Xccdec(a) \/ TextOut(a) \/ ImageOut(a)
    PROVE  Names'
<1>1. CASE Swapout(a)
  <2>1. DidSwapout(a) /\ (a \in Proc => Steps(a)) /\ (a = Sched => SchedSteps)
    BY <1>1, SwapoutShape
  <2>2. /\ at[a].pc = "swapout" /\ at'[a].pc \in {"image", "xccdec"} /\ Place(a)' # "xfree" /\ Place(a) # "xfree"
        /\ at'[a].after = at[a].after /\ at'[a].x = at[a].x
    BY <2>1 DEF DidSwapout, Runs, Moves, Goes, Place
  <2> QED
    BY <2>1, <2>2, NamesActor DEF DidSwapout, Rest, SameEntries
<1>2. CASE Xccdec(a)
  <2>1. DidXccdec(a) /\ (a \in Proc => Steps(a)) /\ (a = Sched => SchedSteps)
    BY <1>2, XccdecShape
  <2>2. /\ at[a].pc = "xccdec" /\ at'[a].pc \in {"image", "outwrite"} /\ Place(a)' # "xfree" /\ Place(a) # "xfree"
        /\ at'[a].after = at[a].after /\ at'[a].x = at[a].x
    BY <2>1 DEF DidXccdec, Gets, Runs, Moves, Goes, Place
  <2>3. SameEntries
    BY <2>1 DEF DidXccdec, EntryIs, SameEntries
  <2> QED
    BY <2>1, <2>2, <2>3, NamesActor DEF DidXccdec
<1>3. CASE TextOut(a)
  <2>1. DidTextOut(a) /\ (a \in Proc => Steps(a)) /\ (a = Sched => SchedSteps)
    BY <1>3, TextOutShape
  <2>2. /\ at[a].pc = "outwrite" /\ at'[a].pc = "image" /\ Place(a)' # "xfree" /\ Place(a) # "xfree"
        /\ at'[a].after = at[a].after /\ at'[a].x = at[a].x
    BY <2>1 DEF DidTextOut, Runs, Moves, Goes, Place
  <2>3. SameEntries
    BY <2>1 DEF DidTextOut, EntryIs, SameEntries
  <2> QED
    BY <2>1, <2>2, <2>3, NamesActor DEF DidTextOut
<1>4. CASE ImageOut(a)
  <2>1. DidImageOut(a) /\ (a \in Proc => Steps(a)) /\ (a = Sched => SchedSteps)
    BY <1>4, ImageOutShape
  <2>2. /\ at[a].pc = "image" /\ Place(a) # "xfree" /\ at'[a].after = at[a].after /\ at'[a].x = at[a].x
    BY <2>1 DEF DidImageOut, Runs, Moves, Goes, Place
  <2>3. a \in Proc => at[a].after \in {"user", "xalloc", "again", "readi"}
    BY <2>2, ShapeOf DEF ControlOf, Out, Locals
  <2>4. at'[a].pc \in {"sched", "user", "xalloc", "again", "readi"} /\ Place(a)' # "xfree"
    BY <2>1, <2>3 DEF DidImageOut, Moves, Goes, Place
  <2>5. SameEntries
    BY <2>1 DEF DidImageOut, EntryIs, SameEntries
  <2>6. a \in Proc => proc'[a].text = proc[a].text /\ proc'[a].prog = proc[a].prog
    BY <2>1, Actors DEF DidImageOut, ProcIs, Whose
  <2> QED
    BY <2>1, <2>2, <2>4, <2>5, <2>6, NamesActor
<1> QED
  BY <1>1, <1>2, <1>3, <1>4

LEMMA SwapperNames ==
    ASSUME Shape, Names, Swapper
    PROVE  Names'
<1>1. CASE \E q \in Proc : Bring(q)
  <2>1. SchedSteps /\ UNCHANGED <<text, itext>>
    BY <1>1, BringShape DEF DidBring
  <2> QED
    BY <2>1, NamesSched DEF SameEntries
<1>2. CASE \E v \in Proc : ThrowOut(v)
  <2>1. SchedSteps /\ UNCHANGED <<text, itext>>
    BY <1>2, ThrowOutShape DEF DidThrowOut
  <2> QED
    BY <2>1, NamesSched DEF SameEntries
<1>3. CASE SwapinLock
  BY <1>3, SwapinLockShape, NamesSched DEF DidSwapinLock, SameEntries, EntryIs
<1>4. CASE SwapinText
  BY ZenonT(60), <1>4, SwapinTextShape, NamesSched DEF DidSwapinText, Fails, SchedCalls, Rest, SameEntries, EntryIs
<1>5. CASE SwapinImage
  BY <1>5, SwapinImageShape, NamesSched DEF DidSwapinImage, Fails, SchedCalls, Rest, SameEntries, EntryIs
<1>6. CASE SwapinRead
  BY <1>6, SwapinReadShape, NamesSched DEF DidSwapinRead, SameEntries, EntryIs
<1>7. CASE SwapinDone
  BY <1>7, SwapinDoneShape, NamesSched DEF DidSwapinDone, SameEntries
<1>8. CASE WaitCore
  BY <1>8, WaitCoreShape, NamesSched DEF DidWaitCore, Rest, SameEntries
<1>9. CASE Nobody
  <2>1. SameEntries /\ \A p \in Proc : SameProgram(p)
    BY <1>9 DEF Nobody, SameEntries, SameProgram, Busy, Fills, Claims, Place
  <2> QED
    BY <2>1, SameNames
<1> QED
  BY <1>1, <1>2, <1>3, <1>4, <1>5, <1>6, <1>7, <1>8, <1>9 DEF Swapper

LEMMA NamesOf ==
    ASSUME Shape, Names
    PROVE  /\ \A p, q \in Proc : Busy(p) /\ Busy(q) /\ proc[p].prog = proc[q].prog /\ proc[p].prog # NoFile => p = q
           /\ \A f \in File, x \in Text : itext[f] = x <=> text[x].iptr = f
           /\ \A p \in Proc : Claims(p) => itext[proc[p].prog] = NoText
           /\ \A p \in Proc : proc[p].text # NoText /\ Place(p) # "xfree" => text[proc[p].text].iptr = proc[p].prog
           /\ \A p, q \in Proc : Fills(p) /\ proc[q].text = at[p].x => p = q
           /\ \A p \in Proc : Fills(p) => text[at[p].x].load /\ ~text[at[p].x].writ
           /\ \A x \in Text : text[x].load => \E p \in Proc : Fills(p) /\ at[p].x = x
           /\ \A p \in Proc : Fills(p) => /\ at[p].x \in Text /\ proc[p].text = at[p].x /\ proc[p].prog \in File
                                          /\ Busy(p) /\ Place(p) # "xfree"
           /\ \A p \in Proc : Claims(p) => Busy(p) /\ proc[p].prog \in File /\ at[p].x \in Text /\ ~Fills(p)
<1>1. ASSUME NEW p \in Proc, Fills(p)
      PROVE  /\ at[p].x \in Text /\ proc[p].text = at[p].x /\ proc[p].prog \in File
             /\ Busy(p) /\ Place(p) # "xfree"
  BY <1>1, ShapeOf DEF ControlOf, Fills, Busy, Place, Process
<1>2. ASSUME NEW p \in Proc, Claims(p)
      PROVE  Busy(p) /\ proc[p].prog \in File /\ at[p].x \in Text /\ ~Fills(p)
  BY <1>2, ShapeOf DEF ControlOf, Fills, Busy, Claims, Place, Process
<1> QED
  BY <1>1, <1>2 DEF Names, InodeLock, Found, Sole, Bound, Loading

LEMMA ExecNames ==
    ASSUME Shape, Names, NEW p \in Proc, NEW f \in Execs[p], Exec(p, f)
    PROVE  Names'
<1>1. Steps(p) /\ DidExec(p, f) /\ ControlOf(p) /\ p \in Actor
  BY ExecShape, ShapeOf
<1>2. /\ proc'[p].prog = f /\ proc'[p].text = proc[p].text /\ Place(p)' = "xfree" /\ ~Claims(p)'
      /\ ~Fills(p)' /\ ~Fills(p) /\ (f # NoFile => ~Inode(f)) /\ itext' = itext /\ text' = text
  BY <1>1 DEF DidExec, Runs, Goes, ProcIs, Place, Claims, Fills, ControlOf
<1>3. \A q \in Proc \ {p} : /\ at'[q] = at[q] /\ proc'[q] = proc[q] /\ Busy(q)' = Busy(q) /\ Fills(q)' = Fills(q)
                            /\ Claims(q)' = Claims(q) /\ Place(q)' = Place(q)
  BY <1>1, OthersSame
<1>4. InodeLock'
  <2>1. \A q \in Proc \ {p} : Busy(q) /\ proc[q].prog = f => f = NoFile
    BY <1>2 DEF Inode, Busy
  <2>2. ASSUME NEW q \in Proc, NEW r \in Proc, Busy(q)', Busy(r)', proc'[q].prog = proc'[r].prog,
               proc'[q].prog # NoFile, q # r
        PROVE  FALSE
    <3>1. CASE q = p
      BY <1>2, <1>3, <2>1, <2>2, <3>1
    <3>2. CASE r = p
      BY <1>2, <1>3, <2>1, <2>2, <3>2
    <3>3. CASE q # p /\ r # p
      BY <1>3, <2>2, <3>3, NamesOf
    <3> QED
      BY <3>1, <3>2, <3>3
  <2> QED
    BY <2>2 DEF InodeLock
<1>5. Found'
  BY <1>2 DEF Names, Found
<1>6. Sole'
  BY <1>2, <1>3, NamesOf DEF Sole
<1>7. Bound'
  BY <1>2, <1>3, NamesOf DEF Bound
<1>8. Loading'
  <2>1. \A q \in Proc : /\ Fills(q)' <=> Fills(q)
                        /\ proc'[q].text = proc[q].text /\ (Fills(q) => at'[q].x = at[q].x)
    BY <1>2, <1>3, ZenonT(60)
  <2> QED
    BY <1>2, <2>1, NamesOf DEF Loading
<1> QED
  BY <1>4, <1>5, <1>6, <1>7, <1>8 DEF Names

LEMMA AttachNames ==
    ASSUME Shape, Names, NEW p \in Proc, Attach(p)
    PROVE  Names'
<1> DEFINE f == proc[p].prog
           x == itext[f]
<1>1. Steps(p) /\ DidAttach(p) /\ ControlOf(p) /\ p \in Actor
  BY AttachShape, ShapeOf
<1>2. at[p].pc = "xalloc" /\ at[p].after = "xalloc" /\ proc[p].text = NoText /\ Busy(p) /\ ~Fills(p) /\ itext' = itext
  BY <1>1 DEF DidAttach, Runs, ControlOf, Place, Busy, Fills
<1>3. CASE UNCHANGED <<text, free, proc>>
  <2>1. SameProgram(p)
    BY <1>1, <1>2, <1>3, Actors DEF DidAttach, Goes, SameProgram, Busy, Fills, Claims, Place
  <2> QED
    BY SMTT(30), <1>1, <1>2, <1>3, <2>1, NamesProc DEF SameEntries
<1>4. CASE /\ f \in File /\ x \in Text /\ proc'[p].text = x /\ proc'[p].prog = f
           /\ \A y \in Text : /\ text'[y].iptr = text[y].iptr /\ text'[y].load = text[y].load
                              /\ text'[y].writ = text[y].writ
           /\ at'[p].pc \in {"user", "xexpand"} /\ at'[p].after \in {"user", "again"}
  <2>1. \A q \in Proc \ {p} : /\ at'[q] = at[q] /\ proc'[q] = proc[q] /\ Busy(q)' = Busy(q) /\ Fills(q)' = Fills(q)
                              /\ Claims(q)' = Claims(q) /\ Place(q)' = Place(q)
    BY <1>1, OthersSame
  <2>2. text[x].iptr = f
    BY <1>4, NamesOf
  <2>3. ~Fills(p)' /\ ~Claims(p)'
    BY <1>4 DEF Fills, Claims
  <2>4. InodeLock'
    BY <1>2, <1>4, <2>1, NamesOf DEF InodeLock
  <2>5. Found'
    BY <1>2, <1>4, NamesOf DEF Found
  <2>6. Sole'
    BY <1>2, <2>1, <2>3, NamesOf DEF Sole
  <2>7. Bound'
    <3>1. \A q \in Proc : proc[q].text \in Text \cup {NoText}
      BY DEF Shape, Typed, Process
    <3> QED
      BY <1>4, <2>1, <2>2, <3>1, NamesOf DEF Bound
  <2>8. Loading'
    <3>1. ASSUME NEW q \in Proc, Fills(q) PROVE at[q].x # x
      <4>1. proc[q].text = at[q].x /\ proc[q].text # NoText /\ Place(q) # "xfree" /\ Busy(q) /\ q # p
        BY <1>2, <3>1, NamesOf, Actors
      <4>2. text[at[q].x].iptr = proc[q].prog
        BY <4>1, NamesOf
      <4>3. proc[q].prog # f
        BY <1>2, <1>4, <4>1, NamesOf, Actors
      <4> QED
        BY <2>2, <4>2, <4>3
    <3>2. \A q, r \in Proc : Fills(q)' /\ proc'[r].text = at'[q].x => q = r
      BY <1>2, <1>4, <2>1, <2>3, <3>1, NamesOf
    <3>3. \A q \in Proc : Fills(q)' => Fills(q) /\ at'[q].x = at[q].x /\ at[q].x \in Text
      BY <2>1, <2>3, NamesOf
    <3>4. \A q \in Proc : Fills(q) => Fills(q)' /\ at'[q].x = at[q].x
      BY <1>2, <2>1
    <3> QED
      BY <1>4, <3>2, <3>3, <3>4, NamesOf DEF Loading
  <2> QED
    BY <2>4, <2>5, <2>6, <2>7, <2>8 DEF Names
<1>5. CASE /\ f \in File /\ x \in Text /\ ProcIs(p, x, f, proc[p].loaded, proc[p].slock)
           /\ \/ /\ EntryIs(x, text[x].iptr, text[x].count + 1, text[x].ccount, TRUE,
                            text[x].writ, text[x].load, text[x].caddr, text[x].core, text[x].swap)
                 /\ Goes(p, "xexpand", x, at[p].xp, at[p].ret, "again")
              \/ /\ EntryIs(x, text[x].iptr, text[x].count + 1, text[x].ccount + 1, text[x].lock,
                            text[x].writ, text[x].load, text[x].caddr, text[x].core, text[x].swap)
                 /\ Goes(p, "user", NoText, NoText, "user", "user")
  <2>1. /\ f \in File /\ x \in Text /\ proc'[p].text = x /\ proc'[p].prog = f
        /\ at'[p].pc \in {"user", "xexpand"} /\ at'[p].after \in {"user", "again"}
    BY <1>5 DEF ProcIs, Goes
  <2>2. \A y \in Text : /\ text'[y].iptr = text[y].iptr /\ text'[y].load = text[y].load
                        /\ text'[y].writ = text[y].writ
    BY <1>5 DEF EntryIs
  <2> QED
    BY <1>4, <2>1, <2>2
<1> QED
  BY <1>1, <1>3, <1>5 DEF DidAttach

(* p makes a new entry of x, which nobody uses. *)
LEMMA TakesNames ==
    ASSUME IInv, Names, NEW p \in Proc, NEW x \in Text, Steps(p), Takes(p, x, proc[p].prog),
           itext' = [itext EXCEPT ![proc[p].prog] = x], proc[p].prog \in File, itext[proc[p].prog] = NoText,
           text[x].iptr = NoFile, text[x].count = 0, Busy(p), ~Fills(p)
    PROVE  Names'
<1> DEFINE f == proc[p].prog
<1>1. Shape /\ itext \in [File -> Text \cup {NoText}]
  BY DEF IInv, Shape, Typed
<1>2. \A q \in Proc : proc[q].text \in Text \cup {NoText} /\ proc[q].text # x
  <2> SUFFICES ASSUME NEW q \in Proc PROVE proc[q].text \in Text \cup {NoText} /\ proc[q].text # x
    OBVIOUS
  <2>1. proc[q].text \in Text \cup {NoText}
    BY DEF IInv, Shape, Typed, Process
  <2>2. proc[q].text = x => text[x].count # 0
    BY UnusedText, Actors
  <2> QED
    BY <2>1, <2>2
<1>3. \A q \in Proc \ {p} : /\ at'[q] = at[q] /\ proc'[q] = proc[q] /\ Busy(q)' = Busy(q) /\ Fills(q)' = Fills(q)
                            /\ Claims(q)' = Claims(q) /\ Place(q)' = Place(q)
  BY OthersSame
<1>4. /\ text'[x].iptr = f /\ text'[x].load = TRUE /\ text'[x].writ = FALSE
      /\ \A y \in Text \ {x} : text'[y] = text[y]
  BY DEF Takes, EntryIs
<1>5. /\ proc'[p].text = x /\ proc'[p].prog = f /\ at'[p].pc = "xexpand" /\ at'[p].x = x /\ at'[p].after = "readi"
  BY DEF Takes, ProcIs, Goes
<1>6. Fills(p)' /\ ~Claims(p)'
  BY <1>5 DEF Fills, Claims
<1>7. itext'[f] = x /\ \A g \in File \ {f} : itext'[g] = itext[g]
  BY <1>1
<1>8. InodeLock'
  BY <1>3, <1>5, NamesOf, <1>1 DEF InodeLock
<1>9. Found'
  <2> SUFFICES ASSUME NEW g \in File, NEW y \in Text PROVE itext'[g] = y <=> text'[y].iptr = g
    BY DEF Found
  <2>1. CASE g = f /\ y = x
    BY <1>4, <1>7, <2>1
  <2>2. CASE g = f /\ y # x
    BY <1>1, <1>4, <1>7, <2>2, NamesOf, Actors
  <2>3. CASE g # f /\ y = x
    BY <1>1, <1>4, <1>7, <2>3, NamesOf, Actors
  <2>4. CASE g # f /\ y # x
    BY <1>1, <1>4, <1>7, <2>4, NamesOf
  <2> QED
    BY <2>1, <2>2, <2>3, <2>4
<1>10. Sole'
  <2> SUFFICES ASSUME NEW q \in Proc, Claims(q)' PROVE itext'[proc'[q].prog] = NoText
    BY DEF Sole
  <2>1. q # p /\ Claims(q) /\ proc'[q] = proc[q]
    BY <1>3, <1>6
  <2>2. Busy(q) /\ proc[q].prog \in File /\ itext[proc[q].prog] = NoText
    BY <1>1, <2>1, NamesOf
  <2>3. proc[q].prog # f
    BY <1>1, <2>1, <2>2, NamesOf, Actors
  <2> QED
    BY <1>7, <2>1, <2>2, <2>3
<1>11. Bound'
  <2> SUFFICES ASSUME NEW q \in Proc, proc'[q].text # NoText, Place(q)' # "xfree"
               PROVE  text'[proc'[q].text].iptr = proc'[q].prog
    BY DEF Bound
  <2>1. CASE q = p
    BY <1>4, <1>5, <2>1
  <2>2. CASE q # p
    BY <1>1, <1>2, <1>3, <1>4, <2>2, NamesOf
  <2> QED
    BY <2>1, <2>2
<1>12. Loading'
  <2>1. \A q \in Proc \ {p} : Fills(q)' => Fills(q) /\ at'[q].x = at[q].x /\ at[q].x \in Text \ {x}
    BY <1>1, <1>2, <1>3, NamesOf
  <2>2. \A q, r \in Proc : Fills(q)' /\ proc'[r].text = at'[q].x => q = r
    BY <1>1, <1>2, <1>3, <1>5, <2>1, NamesOf
  <2>3. \A q \in Proc : Fills(q)' => text'[at'[q].x].load /\ ~text'[at'[q].x].writ
    BY <1>1, <1>4, <1>5, <2>1, NamesOf
  <2>4. \A y \in Text : text'[y].load => \E q \in Proc : Fills(q)' /\ at'[q].x = y
    <3> SUFFICES ASSUME NEW y \in Text, y # x, text'[y].load PROVE \E q \in Proc : Fills(q)' /\ at'[q].x = y
      BY <1>5, <1>6
    <3>1. PICK q \in Proc : Fills(q) /\ at[q].x = y
      BY <1>1, <1>4, NamesOf
    <3>2. q # p
      BY <3>1
    <3> QED
      BY <1>3, <3>1, <3>2
  <2> QED
    BY <2>2, <2>3, <2>4 DEF Loading
<1> QED
  BY <1>8, <1>9, <1>10, <1>11, <1>12 DEF Names

LEMMA AllotNames ==
    ASSUME IInv, Names, NEW p \in Proc, Allot(p)
    PROVE  Names'
<1> DEFINE f == proc[p].prog
<1>1. Shape /\ Steps(p) /\ DidAllot(p) /\ ControlOf(p) /\ p \in Actor /\ f \in File /\ itext[f] = NoText
  BY AllotShape, ShapeOf DEF IInv, DidAllot
<1>2. at[p].pc = "xalloc" /\ at[p].after = "xalloc" /\ proc[p].text = NoText /\ Busy(p) /\ ~Fills(p)
  BY <1>1 DEF DidAllot, Runs, ControlOf, Place, Busy, Fills
<1>3. \A q \in Proc \ {p} : /\ at'[q] = at[q] /\ proc'[q] = proc[q] /\ Busy(q)' = Busy(q) /\ Fills(q)' = Fills(q)
                            /\ Claims(q)' = Claims(q) /\ Place(q)' = Place(q)
  BY <1>1, OthersSame
<1>4. CASE /\ ProcIs(p, proc[p].text, NoFile, proc[p].loaded, proc[p].slock)
           /\ Goes(p, "user", NoText, NoText, "user", "user")
           /\ UNCHANGED <<text, itext>>
  <2>1. /\ proc'[p].text = NoText /\ at'[p].pc = "user" /\ at'[p].after = "user"
    BY <1>2, <1>4 DEF ProcIs, Goes
  <2>2. ~Busy(p)' /\ ~Fills(p)' /\ ~Claims(p)'
    BY <2>1 DEF Busy, Fills, Claims
  <2>3. InodeLock'
    BY <1>1, <1>3, <2>2, NamesOf DEF InodeLock
  <2>4. Found' /\ Sole' /\ Bound'
    BY <1>1, <1>3, <1>4, <2>1, <2>2, NamesOf DEF Found, Sole, Bound
  <2>5. Loading'
    <3>1. \A q \in Proc : /\ Fills(q)' <=> Fills(q)
                          /\ proc'[q].text = proc[q].text /\ (Fills(q) => at'[q].x = at[q].x)
      BY <1>2, <1>3, <2>1, <2>2, Zenon
    <3> QED
      BY <1>1, <1>4, <3>1, NamesOf DEF Loading
  <2> QED
    BY <2>3, <2>4, <2>5 DEF Names
<1>5. CASE Goes(p, "xuntext", Head(free), at[p].xp, at[p].ret, at[p].after) /\ UNCHANGED <<text, itext, proc>>
  <2>1. at'[p].pc = "xuntext" /\ at'[p].after = "xalloc"
    BY <1>2, <1>5 DEF Goes
  <2>2. \A q \in Proc : /\ Busy(q)' => Busy(q)
                        /\ Fills(q)' <=> Fills(q)
                        /\ (Fills(q) => at'[q].x = at[q].x)
                        /\ Place(q)' # "xfree" => Place(q) # "xfree"
    <3>1. ~Fills(p)' /\ Place(p) # "xfree"
      BY <1>2, <2>1 DEF Fills, Place
    <3> QED
      BY <1>2, <1>3, <3>1, Zenon
  <2>3. InodeLock' /\ Found' /\ Bound'
    BY <1>1, <1>5, <2>2, NamesOf DEF InodeLock, Found, Bound
  <2>4. Sole'
    BY <1>1, <1>3, <1>5, NamesOf DEF Sole
  <2>5. Loading'
    BY <1>1, <1>5, <2>2, NamesOf DEF Loading
  <2> QED
    BY <2>3, <2>4, <2>5 DEF Names
<1>6. CASE /\ free # <<>> /\ Head(free) \in Text /\ text[Head(free)].iptr = NoFile
           /\ itext' = [itext EXCEPT ![proc[p].prog] = Head(free)]
           /\ Takes(p, Head(free), proc[p].prog)
  <2>1. Head(free) \in ToSet(free)
    BY <1>6, FreeTypes DEF IInv, Shape, Typed
  <2>2. text[Head(free)].count = 0
    BY <1>6, <2>1 DEF IInv, Listed
  <2> QED
    BY <1>1, <1>2, <1>6, <2>2, TakesNames
<1> QED
  BY <1>1, <1>4, <1>5, <1>6 DEF DidAllot

LEMMA XuntextNames ==
    ASSUME IInv, Names, NEW p \in Proc, Xuntext(p), ~ReusedInUse
    PROVE  Names'
<1> DEFINE x == at[p].x
<1>1. /\ Shape /\ Steps(p) /\ DidXuntext(p) /\ p \in Actor /\ x \in Text /\ itext \in [File -> Text \cup {NoText}]
      /\ text[x].iptr \in File \cup {NoFile}
  BY XuntextShape, ShapeOf DEF IInv, DidXuntext, Shape, Typed, RawEntry
<1>2. at[p].pc = "xuntext" /\ text[x].count = 0
  BY <1>1 DEF DidXuntext, Gets, Runs, ReusedInUse
<1>3. /\ EntryIs(x, NoFile, text[x].count, text[x].ccount, TRUE, text[x].writ,
                 text[x].load, text[x].caddr, NoFile, NoFile)
      /\ itext' = [itext EXCEPT ![text[x].iptr] = NoText] /\ Moves(p, "irele") /\ UNCHANGED proc
  BY <1>1, <1>2 DEF DidXuntext
<1>4. /\ text'[x].iptr = NoFile /\ text'[x].load = text[x].load /\ text'[x].writ = text[x].writ
      /\ \A y \in Text \ {x} : text'[y] = text[y]
  BY <1>3 DEF EntryIs
<1>5. /\ \A q \in Proc : /\ Busy(q)' => Busy(q)
                         /\ Fills(q)' <=> Fills(q)
                         /\ at'[q].x = at[q].x
                         /\ Claims(q)' => Claims(q)
                         /\ Place(q)' # "xfree" => Place(q) # "xfree"
  <2>1. at'[p].pc = "irele" /\ at'[p].after = at[p].after /\ at'[p].x = at[p].x
    BY <1>3 DEF Moves, Goes
  <2>2. /\ Busy(p)' => Busy(p)
        /\ Fills(p)' <=> Fills(p)
        /\ at'[p].x = at[p].x /\ Claims(p) /\ Place(p) # "xfree"
    BY <1>2, <2>1 DEF Busy, Fills, Claims, Place
  <2>3. \A q \in Proc \ {p} : /\ at'[q] = at[q] /\ Busy(q)' = Busy(q) /\ Fills(q)' = Fills(q)
                              /\ Claims(q)' = Claims(q) /\ Place(q)' = Place(q)
    BY <1>1, OthersSame
  <2> QED
    BY <2>2, <2>3, Zenon
<1>6. \A q \in Proc : proc[q].text \in Text \cup {NoText} /\ proc[q].text # x
  <2> SUFFICES ASSUME NEW q \in Proc PROVE proc[q].text \in Text \cup {NoText} /\ proc[q].text # x
    OBVIOUS
  <2>1. proc[q].text \in Text \cup {NoText}
    BY <1>1 DEF Shape, Typed, Process
  <2>2. proc[q].text = x => text[x].count # 0
    BY <1>1, UnusedText, Actors
  <2> QED
    BY <1>2, <2>1, <2>2
<1>7. \A f \in File : itext'[f] = IF f = text[x].iptr THEN NoText ELSE itext[f]
  BY <1>1, <1>3
<1>8. InodeLock'
  BY <1>1, <1>3, <1>5, NamesOf DEF InodeLock
<1>9. Found'
  <2> SUFFICES ASSUME NEW f \in File, NEW y \in Text PROVE itext'[f] = y <=> text'[y].iptr = f
    BY DEF Found
  <2>1. itext[f] = y <=> text[y].iptr = f
    BY <1>1, NamesOf
  <2>2. itext[f] = x <=> text[x].iptr = f
    BY <1>1, NamesOf
  <2>3. CASE f = text[x].iptr
    BY <1>4, <1>7, <2>1, <2>2, <2>3, Actors
  <2>4. CASE f # text[x].iptr /\ y = x
    BY <1>4, <1>7, <2>1, <2>4, Actors
  <2>5. CASE f # text[x].iptr /\ y # x
    BY <1>4, <1>7, <2>1, <2>5
  <2> QED
    BY <2>3, <2>4, <2>5
<1>10. Sole'
  BY SMTT(30), <1>1, <1>3, <1>5, <1>7, NamesOf DEF Sole
<1>11. Bound'
  BY <1>1, <1>3, <1>4, <1>5, <1>6, NamesOf DEF Bound
<1>12. Loading'
  <2>1. \A y \in Text : text'[y].load = text[y].load /\ text'[y].writ = text[y].writ
    BY <1>4
  <2> QED
    BY <1>1, <1>3, <1>5, <2>1, NamesOf DEF Loading
<1> QED
  BY <1>8, <1>9, <1>10, <1>11, <1>12 DEF Names

LEMMA XuntextedNames ==
    ASSUME IInv, Names, NEW p \in Proc, Xuntexted(p)
    PROVE  Names'
<1>1. Shape /\ Steps(p) /\ DidXuntexted(p) /\ p \in Actor /\ Mine(p)
  BY XuntextedShape, ShapeOf DEF IInv
<1>2. at[p].pc = "irele" /\ at[p].x \in Text /\ Claims(p)
  BY <1>1 DEF DidXuntexted, Runs, Claims
<1>3. Busy(p) /\ proc[p].prog \in File /\ ~Fills(p) /\ itext[proc[p].prog] = NoText
  BY <1>1, <1>2, NamesOf
<1>4. text[at[p].x].count = 0 /\ text[at[p].x].iptr = NoFile
  BY <1>1, <1>2 DEF Mine
<1> QED
  BY <1>1, <1>2, <1>3, <1>4, TakesNames DEF DidXuntexted

LEMMA ReadInNames ==
    ASSUME Shape, Names, NEW p \in Proc, ReadIn(p)
    PROVE  Names'
<1> DEFINE x == at[p].x
<1>1. Steps(p) /\ DidReadIn(p) /\ ControlOf(p) /\ p \in Actor /\ x \in Text
  BY ReadInShape, ShapeOf DEF DidReadIn
<1>2. at[p].pc = "reading" /\ at[p].after = "readi" /\ proc[p].text = x /\ Fills(p)
  BY <1>1 DEF DidReadIn, Runs, ControlOf, Place, Fills
<1>3. \A q \in Proc \ {p} : /\ at'[q] = at[q] /\ proc'[q] = proc[q] /\ Busy(q)' = Busy(q) /\ Fills(q)' = Fills(q)
                            /\ Claims(q)' = Claims(q) /\ Place(q)' = Place(q)
  BY <1>1, OthersSame
<1>4. /\ \A y \in Text : text'[y].iptr = text[y].iptr
      /\ \A y \in Text \ {x} : text'[y] = text[y]
      /\ text'[x].load = FALSE /\ itext' = itext
  BY <1>1 DEF DidReadIn, EntryIs
<1>5. /\ proc'[p].text = x /\ proc'[p].prog = proc[p].prog /\ ~Fills(p)' /\ ~Busy(p)' /\ ~Claims(p)'
      /\ Place(p) # "xfree"
  BY <1>1, <1>2 DEF DidReadIn, ProcIs, Goes, Fills, Busy, Claims, Place
<1>6. InodeLock'
  BY <1>3, <1>5, NamesOf DEF InodeLock
<1>7. Found' /\ Sole'
  BY <1>3, <1>4, <1>5, NamesOf DEF Found, Sole
<1>8. Bound'
  <2>1. \A q \in Proc : /\ proc'[q].text = proc[q].text /\ proc'[q].prog = proc[q].prog
                        /\ Place(q)' # "xfree" => Place(q) # "xfree"
    BY <1>2, <1>3, <1>5
  <2>2. \A q \in Proc : proc[q].text \in Text \cup {NoText}
    BY DEF Shape, Typed, Process
  <2> QED
    BY <1>4, <2>1, <2>2, NamesOf DEF Bound
<1>9. Loading'
  <2>1. \A q \in Proc : proc'[q].text = proc[q].text
    BY <1>2, <1>3, <1>5
  <2>2. \A q \in Proc : Fills(q)' => q # p /\ Fills(q) /\ at'[q].x = at[q].x /\ at[q].x \in Text \ {x}
    BY <1>2, <1>3, <1>5, NamesOf
  <2>3. \A y \in Text : text'[y].load => \E q \in Proc : Fills(q)' /\ at'[q].x = y
    <3> SUFFICES ASSUME NEW y \in Text, y # x, text'[y].load PROVE \E q \in Proc : Fills(q)' /\ at'[q].x = y
      BY <1>4
    <3>1. PICK q \in Proc : Fills(q) /\ at[q].x = y
      BY <1>4, NamesOf
    <3> QED
      BY <1>3, <3>1
  <2>4. \A q, r \in Proc : Fills(q)' /\ proc'[r].text = at'[q].x => q = r
    BY <2>1, <2>2, NamesOf
  <2>5. \A q \in Proc : Fills(q)' => text'[at'[q].x].load /\ ~text'[at'[q].x].writ
    BY <1>4, <2>2, NamesOf
  <2> QED
    BY <2>3, <2>4, <2>5 DEF Loading
<1> QED
  BY <1>6, <1>7, <1>8, <1>9 DEF Names

LEMMA NamesNext ==
    ASSUME IInv, Names, [Next]_vars, NoRace
    PROVE  Names'
<1>1. Shape /\ ~ReusedInUse
  BY DEF IInv, NoRace
<1>2. ASSUME NEW p \in Proc, Step(p) PROVE Names'
  BY <1>1, <1>2, ExecNames, QuietNames, AttachNames, AllotNames, XuntextNames, XuntextedNames, ReadInNames DEF Step
<1>3. ASSUME NEW a \in Actor,
             WaitLock(a) \/ Xuncore(a) \/ Xcore(a) \/ Unwritten(a) \/ Swapout(a) \/ Xccdec(a)
             \/ TextOut(a) \/ ImageOut(a)
      PROVE  Names'
  BY <1>1, <1>3, MallocNames, SwapoutNames
<1>4. CASE Swapper
  BY <1>1, <1>4, SwapperNames
<1>5. CASE UNCHANGED vars
  <2>1. SameEntries /\ \A p \in Proc : SameProgram(p)
    BY <1>5 DEF vars, SameEntries, SameProgram, Busy, Fills, Claims, Place
  <2> QED
    BY <1>1, <2>1, SameNames
<1> QED
  BY <1>2, <1>3, <1>4, <1>5 DEF Next

LEMMA NamesInit == Init => Names
<1> SUFFICES ASSUME Init PROVE Names
  OBVIOUS
<1>1. \A p \in Proc : at[p].pc = "user" /\ at[p].after = "user" /\ proc[p].text = NoText
  BY Actors DEF Init, Home, Top
<1>2. \A p \in Proc : ~Busy(p) /\ ~Fills(p) /\ ~Claims(p)
  BY <1>1 DEF Busy, Fills, Claims
<1>3. Found
  BY Actors DEF Init, Found
<1>4. Loading
  BY <1>2 DEF Init, Loading
<1> QED
  BY <1>1, <1>2, <1>3, <1>4 DEF Names, InodeLock, Sole, Bound
-----------------------------------------------------------------------------
(* What is in core and on swap *)

(* Core that the text of x is being read into. *)
Unread(x) == \E a \in Actor : at[a].pc \in {"xread", "inread"} /\ at[a].x = x

(* The text is in the core that the entry has and, unless XWRIT is set, on *)
(* swap; who counts has it in core.                                        *)
ContentOf(x) ==
    LET e == text[x] IN
    /\ e.iptr # NoFile /\ ~e.load /\ e.caddr /\ ~Unread(x) => e.core = e.iptr
    /\ e.iptr # NoFile /\ ~e.load /\ ~e.writ => e.swap = e.iptr
    /\ e.iptr # NoFile /\ ~e.load /\ ~e.caddr => ~e.writ
    /\ e.ccount > 0 => e.caddr
    /\ e.load /\ e.caddr /\ ~e.lock => e.ccount > 0

(* What a has found out about the entries that it has locked since. *)
HasContent(a) ==
    /\ Place(a) = "xexpand" /\ at[a].after = "again" => ~text[at[a].x].caddr
    /\ at[a].pc \in Out /\ at[a].after \in {"again", "readi"} => ~text[at[a].x].caddr
    /\ at[a].pc = "xread" => text[at[a].x].caddr /\ ~text[at[a].x].load /\ ~text[at[a].x].writ
    /\ at[a].pc = "unwrite" => text[at[a].xp].caddr /\ ~text[at[a].xp].load /\ text[at[a].xp].ccount = 0
    /\ at[a].pc = "outwrite" => text[Its(a)].caddr /\ ~text[Its(a)].load /\ text[Its(a)].ccount = 0
    /\ Place(a) = "intext" => ~text[Its(a)].caddr
    /\ Place(a) = "inimage" /\ Its(a) # NoText =>
          IF at[a].x = NoText THEN text[Its(a)].caddr /\ ~text[Its(a)].load ELSE ~text[Its(a)].caddr
    /\ at[a].pc = "inread" =>
          text[Its(a)].caddr /\ ~text[Its(a)].load /\ ~text[Its(a)].writ /\ text[Its(a)].ccount = 0

Contents == (\A x \in Text : ContentOf(x)) /\ \A a \in Actor : HasContent(a)

(* What a step of a leaves to the others. *)
Leaves(a) ==
    \A b \in Actor \ {a} :
       /\ at'[b] = at[b] /\ Place(b)' = Place(b)
       /\ at[b].pc = "outwrite" \/ Place(b) \in {"intext", "inimage", "inread"} => Its(b)' = Its(b)

LEMMA LeavesProc ==
    ASSUME IInv, NEW p \in Proc, Steps(p)
    PROVE  Leaves(p)
<1> SUFFICES ASSUME NEW b \in Actor, b # p
             PROVE  /\ at'[b] = at[b] /\ Place(b)' = Place(b)
                    /\ at[b].pc = "outwrite" \/ Place(b) \in {"intext", "inimage", "inread"} => Its(b)' = Its(b)
  BY DEF Leaves
<1>1. at'[b] = at[b] /\ Place(b)' = Place(b)
  BY DEF Steps, Place
<1>2. CASE b \in Proc
  BY <1>1, <1>2, Actors DEF Steps, Its, Whose
<1>3. CASE b = Sched
  <2>1. sp' = sp /\ (sp # Idle => Its(Sched)' = Its(Sched))
    BY <1>1, <1>3, Actors DEF Steps, IInv, Shape, SchedControl, Typed, Its, Whose
  <2>2. Place(Sched) \in {"intext", "inimage", "inread", "outwrite"} => sp # Idle
    BY DEF IInv, Shape, SchedControl
  <2>3. at[Sched].pc = "outwrite" => Place(Sched) = "outwrite"
    BY DEF Place
  <2> QED
    BY <1>1, <1>3, <2>1, <2>2, <2>3
<1> QED
  BY <1>2, <1>3 DEF Actor

LEMMA LeavesSched ==
    ASSUME SchedSteps
    PROVE  Leaves(Sched)
<1> SUFFICES ASSUME NEW b \in Proc
             PROVE  at'[b] = at[b] /\ Place(b)' = Place(b) /\ Its(b)' = Its(b)
  BY DEF Leaves, Actor
<1> QED
  BY Actors DEF SchedSteps, Place, Its, Whose

LEMMA LeavesActor ==
    ASSUME IInv, NEW a \in Actor, a \in Proc => Steps(a), a = Sched => SchedSteps
    PROVE  Leaves(a)
BY LeavesProc, LeavesSched DEF Actor

(* Nobody else finds the entries that he has locked changed. *)
Respects(a) ==
    \A b \in Actor \ {a} : \A x \in Holds(b) :
       /\ text'[x].caddr = text[x].caddr /\ text'[x].load = text[x].load
       /\ text'[x].writ = text[x].writ /\ text'[x].ccount = text[x].ccount

(* The entries that HasContent is about are those that a has locked. *)
LEMMA HeldEntries ==
    ASSUME NEW a \in Actor
    PROVE  /\ Place(a) = "xexpand" => at[a].x \in Holds(a)
           /\ at[a].pc \in Out /\ at[a].after \in {"again", "readi"} => at[a].x \in Holds(a)
           /\ at[a].pc = "xread" => at[a].x \in Holds(a)
           /\ at[a].pc = "unwrite" => at[a].xp \in Holds(a)
           /\ at[a].pc = "outwrite" => Its(a) \in Holds(a)
           /\ Place(a) \in {"intext", "inimage", "inread"} /\ Its(a) # NoText => Its(a) \in Holds(a)
           /\ at[a].pc = "inread" => Place(a) = "inread"
BY DEF Holds, Place, Out

LEMMA OthersContent ==
    ASSUME IInv, Contents, NEW a \in Actor, Leaves(a), Respects(a), HasContent(a)'
    PROVE  \A b \in Actor : HasContent(b)'
<1> SUFFICES ASSUME NEW b \in Actor, b # a PROVE HasContent(b)'
  OBVIOUS
<1>1. HasContent(b)
  BY DEF Contents
<1>2. /\ at'[b] = at[b] /\ Place(b)' = Place(b)
      /\ at[b].pc = "outwrite" \/ Place(b) \in {"intext", "inimage", "inread"} => Its(b)' = Its(b)
  BY DEF Leaves
<1>3. \A x \in Holds(b) : /\ text'[x].caddr = text[x].caddr /\ text'[x].load = text[x].load
                          /\ text'[x].writ = text[x].writ /\ text'[x].ccount = text[x].ccount
  BY DEF Respects
<1>4. Place(b) \in {"intext", "inread"} => Its(b) # NoText
  <2>1. CASE b \in Proc
    BY <2>1, ShapeOf DEF IInv, ControlOf, Out
  <2>2. CASE b = Sched
    BY <2>2, ShapeOfSched DEF IInv, SchedControl
  <2> QED
    BY <2>1, <2>2 DEF Actor
<1>5. /\ Place(b)' = "xexpand" /\ at'[b].after = "again" => ~text'[at'[b].x].caddr
      /\ at'[b].pc \in Out /\ at'[b].after \in {"again", "readi"} => ~text'[at'[b].x].caddr
      /\ at'[b].pc = "xread" => text'[at'[b].x].caddr /\ ~text'[at'[b].x].load /\ ~text'[at'[b].x].writ
      /\ at'[b].pc = "unwrite" => text'[at'[b].xp].caddr /\ ~text'[at'[b].xp].load /\ text'[at'[b].xp].ccount = 0
  BY <1>1, <1>2, <1>3, HeldEntries DEF HasContent
<1>6. /\ at'[b].pc = "outwrite" => text'[Its(b)'].caddr /\ ~text'[Its(b)'].load /\ text'[Its(b)'].ccount = 0
      /\ Place(b)' = "intext" => ~text'[Its(b)'].caddr
      /\ at'[b].pc = "inread" =>
            text'[Its(b)'].caddr /\ ~text'[Its(b)'].load /\ ~text'[Its(b)'].writ /\ text'[Its(b)'].ccount = 0
  BY <1>1, <1>2, <1>3, <1>4, HeldEntries DEF HasContent
<1>7. Place(b)' = "inimage" /\ Its(b)' # NoText =>
          IF at'[b].x = NoText THEN text'[Its(b)'].caddr /\ ~text'[Its(b)'].load ELSE ~text'[Its(b)'].caddr
  <2> SUFFICES ASSUME Place(b)' = "inimage", Its(b)' # NoText
               PROVE  IF at'[b].x = NoText THEN text'[Its(b)'].caddr /\ ~text'[Its(b)'].load
                                           ELSE ~text'[Its(b)'].caddr
    OBVIOUS
  <2>1. Its(b)' = Its(b) /\ Its(b) \in Holds(b) /\ at'[b].x = at[b].x
    BY <1>2, HeldEntries
  <2>2. IF at[b].x = NoText THEN text[Its(b)].caddr /\ ~text[Its(b)].load ELSE ~text[Its(b)].caddr
    BY <1>1, <1>2, <2>1 DEF HasContent
  <2> QED
    BY <1>3, <2>1, <2>2
<1> QED
  BY <1>5, <1>6, <1>7 DEF HasContent

LEMMA Unreads ==
    ASSUME NEW a \in Actor, Leaves(a), NEW x, at[a].pc \in {"xread", "inread"} => at[a].x # x, Unread(x)
    PROVE  Unread(x)'
<1>1. PICK b \in Actor : at[b].pc \in {"xread", "inread"} /\ at[b].x = x
  BY DEF Unread
<1>2. b # a /\ at'[b] = at[b]
  BY <1>1 DEF Leaves
<1> QED
  BY <1>1, <1>2 DEF Unread

(* A step of a that changes at most the entry of x. *)
LEMMA ContentStep ==
    ASSUME IInv, Contents, NEW a \in Actor, NEW x \in Text, Leaves(a), Respects(a),
           \A y \in Text \ {x} : text'[y] = text[y],
           at[a].pc \in {"xread", "inread"} => at[a].x = x,
           ContentOf(x)', HasContent(a)'
    PROVE  Contents'
<1>1. ASSUME NEW y \in Text, y # x PROVE ContentOf(y)'
  <2>1. ContentOf(y) /\ text'[y] = text[y]
    BY <1>1 DEF Contents
  <2>2. Unread(y) => Unread(y)'
    BY <1>1, Unreads
  <2> QED
    BY <2>1, <2>2 DEF ContentOf
<1>2. \A b \in Actor : HasContent(b)'
  BY OthersContent
<1> QED
  BY <1>1, <1>2 DEF Contents

(* A step of a that changes no entry. *)
LEMMA ContentSame ==
    ASSUME IInv, Contents, NEW a \in Actor, Leaves(a), text' = text,
           at[a].pc \notin {"xread", "inread"}, HasContent(a)'
    PROVE  Contents'
<1>1. ASSUME NEW y \in Text PROVE ContentOf(y)'
  <2>1. ContentOf(y)
    BY DEF Contents
  <2>2. Unread(y) => Unread(y)'
    BY Unreads
  <2> QED
    BY <2>1, <2>2 DEF ContentOf
<1>2. Respects(a)
  BY DEF Respects
<1>3. \A b \in Actor : HasContent(b)'
  BY <1>2, OthersContent
<1> QED
  BY <1>1, <1>3 DEF Contents

(* Where HasContent says nothing of a. *)
LEMMA PlainContent ==
    ASSUME NEW a \in Actor, Place(a)' \notin {"xexpand", "intext", "inimage"},
           at'[a].pc \notin {"xread", "unwrite", "outwrite", "inread"},
           at'[a].pc \in Out => at'[a].after \notin {"again", "readi"}
    PROVE  HasContent(a)'
BY DEF HasContent

LEMMA PlainAt ==
    ASSUME NEW a \in Actor, at'[a].pc \notin Inner \cup Out \cup {"xexpand", "intext", "inimage", "xread", "inread"}
    PROVE  HasContent(a)'
BY PlainContent DEF Place, Inner, Out

(* a changes an entry that nobody else has locked. *)
LEMMA RespectsUnheld ==
    ASSUME IInv, NEW a \in Actor, NEW x \in Text, \A y \in Text \ {x} : text'[y] = text[y],
           x \in Holds(a) \/ ~text[x].lock
    PROVE  Respects(a)
<1> SUFFICES ASSUME NEW b \in Actor, b # a, NEW y \in Holds(b) PROVE y # x /\ y \in Text
  BY DEF Respects
<1>1. y \in Text
  BY HoldsKeeps DEF IInv
<1> QED
  BY <1>1 DEF IInv, Locked

(* a changes nothing in an entry but its lock and x_count. *)
LEMMA RespectsLock ==
    ASSUME IInv, NEW a \in Actor,
           \A y \in Text : /\ text'[y].caddr = text[y].caddr /\ text'[y].load = text[y].load
                           /\ text'[y].writ = text[y].writ /\ text'[y].ccount = text[y].ccount
    PROVE  Respects(a)
BY HoldsKeeps DEF Respects, IInv

LEMMA ContentsOf ==
    ASSUME IInv, Contents, NEW x \in Text
    PROVE  /\ text[x].iptr # NoFile /\ ~text[x].load /\ text[x].caddr /\ ~Unread(x) => text[x].core = text[x].iptr
           /\ text[x].iptr # NoFile /\ ~text[x].load /\ ~text[x].writ => text[x].swap = text[x].iptr
           /\ text[x].iptr # NoFile /\ ~text[x].load /\ ~text[x].caddr => ~text[x].writ
           /\ text[x].ccount > 0 => text[x].caddr
           /\ text[x].load /\ text[x].caddr /\ ~text[x].lock => text[x].ccount > 0
           /\ text[x].ccount \in Nat
           /\ text[x].load \in BOOLEAN /\ text[x].caddr \in BOOLEAN /\ text[x].writ \in BOOLEAN
           /\ text[x].lock \in BOOLEAN
<1>1. ContentOf(x)
  BY DEF Contents
<1>2. text[x] \in RawEntry
  BY DEF IInv, Shape, Typed
<1> QED
  BY <1>1, <1>2, CountsNat DEF ContentOf, RawEntry

(* exec, brk and xalloc, before it has an entry, leave the table alone. *)
LEMMA QuietContents ==
    ASSUME IInv, Contents, NEW p \in Proc,
           (\E f \in Execs[p] : Exec(p, f)) \/ Grow(p) \/ Expand(p) \/ Xwaited(p) \/ Readi(p)
    PROVE  Contents'
<1>1. Shape /\ ControlOf(p) /\ p \in Actor
  BY ShapeOf DEF IInv
<1>2. ASSUME Steps(p), text' = text, at[p].pc # "xread", at[p].pc # "inread", HasContent(p)'
      PROVE  Contents'
  BY <1>1, <1>2, LeavesProc, ContentSame
<1>3. CASE \E f \in Execs[p] : Exec(p, f)
  <2>1. PICK f \in Execs[p] : Steps(p) /\ DidExec(p, f)
    BY <1>1, <1>3, ExecShape
  <2>2. at[p].pc = "user" /\ at'[p].pc = "xfree" /\ text' = text
    BY <2>1 DEF DidExec, Runs, Goes
  <2> QED
    BY <1>1, <1>2, <2>1, <2>2, PlainAt DEF Inner, Out
<1>4. CASE Grow(p)
  <2>1. Steps(p) /\ DidGrow(p)
    BY <1>1, <1>4, GrowShape
  <2>2. at[p].pc = "user" /\ at'[p].pc = "expand" /\ text' = text
    BY <2>1 DEF DidGrow, Runs, Moves, Goes, Rest
  <2> QED
    BY <1>1, <1>2, <2>1, <2>2, PlainAt DEF Inner, Out
<1>5. CASE Expand(p)
  <2>1. Steps(p) /\ DidExpand(p)
    BY <1>1, <1>5, ExpandShape
  <2>2. at[p].pc = "expand" /\ text' = text /\ at[p].after \in {"user", "xalloc"}
    BY <1>1, <2>1 DEF DidExpand, Runs, Rest, ControlOf, Place
  <2>3. \/ at'[p].pc \in {"user", "xalloc"}
        \/ at'[p].pc = "xuncore" /\ at'[p].ret = "expand"
        \/ at'[p].pc = "swapout" /\ at'[p].after \in {"user", "xalloc"}
    BY <2>1, <2>2 DEF DidExpand, Moves, Goes
  <2>4. HasContent(p)'
    BY <1>1, <2>3, PlainContent DEF Place, Out
  <2> QED
    BY <1>2, <2>1, <2>2, <2>4
<1>6. CASE Xwaited(p)
  <2>1. Steps(p) /\ DidXwaited(p)
    BY <1>1, <1>6, XwaitedShape
  <2>2. at[p].pc = "xwait" /\ at'[p].pc = "xalloc" /\ text' = text
    BY <2>1 DEF DidXwaited, Gets, Runs, Goes, Rest
  <2> QED
    BY <1>1, <1>2, <2>1, <2>2, PlainAt DEF Inner, Out
<1>7. CASE Readi(p)
  <2>1. Steps(p) /\ DidReadi(p)
    BY <1>1, <1>7, ReadiShape
  <2>2. at[p].pc = "readi" /\ at'[p].pc = "reading" /\ text' = text
    BY <2>1 DEF DidReadi, Runs, Moves, Goes
  <2> QED
    BY <1>1, <1>2, <2>1, <2>2, PlainAt DEF Inner, Out
<1> QED
  BY <1>3, <1>4, <1>5, <1>6, <1>7

(* A process whose text is being read in is the one that reads it. *)
LEMMA FillsAlone ==
    ASSUME Shape, Names, NEW p \in Proc, proc[p].text # NoText, text[proc[p].text].load
    PROVE  Fills(p) /\ at[p].x = proc[p].text
<1>1. proc[p].text \in Text
  BY DEF Shape, Typed, Process
<1>2. PICK q \in Proc : Fills(q) /\ at[q].x = proc[p].text
  BY <1>1, NamesOf
<1>3. q = p
  BY <1>2, NamesOf
<1> QED
  BY <1>2, <1>3

(* A step of a changes nothing in an entry that nobody else has locked but *)
(* its counts, its lock and, while it is to be read in, whether it has     *)
(* core.                                                                   *)
LEMMA CountContents ==
    ASSUME IInv, Contents, NEW a \in Actor, NEW x \in Text, NEW n, NEW m, NEW k, NEW c \in BOOLEAN,
           Leaves(a), HasContent(a)',
           EntryIs(x, text[x].iptr, n, m, k,
                   text[x].writ, text[x].load, c, text[x].core, text[x].swap),
           x \in Holds(a) \/ ~text[x].lock,
           at[a].pc \notin {"xread", "inread"},
           c = text[x].caddr \/ text[x].load,
           m > 0 => c,
           text[x].load => k \/ ~c \/ m > 0
    PROVE  Contents'
<1>1. /\ text'[x].iptr = text[x].iptr /\ text'[x].ccount = m /\ text'[x].lock = k
      /\ text'[x].writ = text[x].writ /\ text'[x].load = text[x].load /\ text'[x].caddr = c
      /\ text'[x].core = text[x].core /\ text'[x].swap = text[x].swap
      /\ \A y \in Text \ {x} : text'[y] = text[y]
  BY DEF EntryIs
<1>2. Unread(x) => Unread(x)'
  BY Unreads
<1>3. ContentOf(x)'
  BY <1>1, <1>2, ContentsOf DEF ContentOf
<1>4. Respects(a)
  BY <1>1, RespectsUnheld
<1> QED
  BY <1>1, <1>3, <1>4, ContentStep

(* A step of a gives up the core of an entry whose text is on swap. *)
LEMMA DropContents ==
    ASSUME IInv, Contents, NEW a \in Actor, NEW x \in Text, NEW n, NEW m, NEW k, NEW s,
           Leaves(a), HasContent(a)',
           EntryIs(x, text[x].iptr, n, m, k, FALSE, text[x].load, FALSE, NoFile, s),
           x \in Holds(a) \/ ~text[x].lock,
           at[a].pc \notin {"xread", "inread"},
           m = 0,
           text[x].iptr # NoFile /\ ~text[x].load => s = text[x].iptr
    PROVE  Contents'
<1>1. /\ text'[x].iptr = text[x].iptr /\ text'[x].ccount = 0
      /\ text'[x].writ = FALSE /\ text'[x].load = text[x].load /\ text'[x].caddr = FALSE
      /\ text'[x].swap = s
      /\ \A y \in Text \ {x} : text'[y] = text[y]
  BY DEF EntryIs
<1>2. ContentOf(x)'
  BY <1>1 DEF ContentOf
<1>3. Respects(a)
  BY <1>1, RespectsUnheld
<1> QED
  BY <1>1, <1>2, <1>3, ContentStep

(* A step of a gives core to an entry that it has locked, to read the text *)
(* into it.                                                                *)
LEMMA FetchContents ==
    ASSUME IInv, Contents, NEW a \in Actor, NEW x \in Text, NEW n, NEW k,
           Leaves(a), HasContent(a)',
           EntryIs(x, text[x].iptr, n, text[x].ccount, k,
                   text[x].writ, text[x].load, TRUE, text[x].core, text[x].swap),
           x \in Holds(a), ~text[x].load, at[a].pc \notin {"xread", "inread"},
           at'[a].pc \in {"xread", "inread"}, at'[a].x = x
    PROVE  Contents'
<1>1. /\ text'[x].iptr = text[x].iptr /\ text'[x].ccount = text[x].ccount
      /\ text'[x].writ = text[x].writ /\ text'[x].load = text[x].load /\ text'[x].caddr = TRUE
      /\ text'[x].swap = text[x].swap
      /\ \A y \in Text \ {x} : text'[y] = text[y]
  BY DEF EntryIs
<1>2. Unread(x)'
  BY DEF Unread
<1>3. ContentOf(x)'
  BY <1>1, <1>2, ContentsOf DEF ContentOf
<1>4. Respects(a)
  BY <1>1, RespectsUnheld
<1> QED
  BY <1>1, <1>3, <1>4, ContentStep

(* A step of a has read the text from swap. *)
LEMMA ReadContents ==
    ASSUME IInv, Contents, NEW a \in Actor, NEW x \in Text, NEW n, NEW m, NEW k,
           Leaves(a), HasContent(a)',
           EntryIs(x, text[x].iptr, n, m, k, text[x].writ, text[x].load, text[x].caddr,
                   text[x].swap, text[x].swap),
           x \in Holds(a), ~text[x].load, ~text[x].writ, text[x].caddr, at[a].x = x
    PROVE  Contents'
<1>1. /\ text'[x].iptr = text[x].iptr
      /\ text'[x].writ = text[x].writ /\ text'[x].load = text[x].load /\ text'[x].caddr = text[x].caddr
      /\ text'[x].core = text[x].swap /\ text'[x].swap = text[x].swap
      /\ \A y \in Text \ {x} : text'[y] = text[y]
  BY DEF EntryIs
<1>2. ContentOf(x)'
  BY <1>1, ContentsOf DEF ContentOf
<1>3. Respects(a)
  BY <1>1, RespectsUnheld
<1> QED
  BY <1>1, <1>2, <1>3, ContentStep

LEMMA XfreeContents ==
    ASSUME IInv, Names, Contents, NEW p \in Proc, Xfree(p)
    PROVE  Contents'
<1>1. Shape /\ Steps(p) /\ DidXfree(p) /\ ControlOf(p) /\ p \in Actor
  BY XfreeShape, ShapeOf DEF IInv
<1>2. at[p].pc = "xfree" /\ at[p].after = "xalloc" /\ at'[p].pc \in {"expand", "xalloc"}
  BY <1>1 DEF DidXfree, Gets, Runs, Moves, Goes, ControlOf, Place
<1>3. HasContent(p)' /\ Leaves(p)
  BY <1>1, <1>2, PlainAt, LeavesProc DEF Inner, Out
<1>4. CASE proc[p].text = NoText /\ text' = text
  BY <1>1, <1>2, <1>3, <1>4, ContentSame
<1>5. ASSUME NEW x \in Text, x = proc[p].text,
             EntryIs(x, text[x].iptr, text[x].count - 1, text[x].ccount - 1, text[x].lock,
                     text[x].writ, text[x].load, text[x].caddr, text[x].core, text[x].swap)
      PROVE  Contents'
  <2>1. ~text[x].lock
    BY <1>1, <1>2, <1>5, NoneAssumption, Actors DEF DidXfree, Gets, Wants, Its, Whose
  <2>2. ~text[x].load
    BY <1>1, <1>2, <1>5, NoneAssumption, FillsAlone, Actors DEF Fills
  <2>3. text[x].caddr \in BOOLEAN /\ (text[x].ccount - 1 > 0 => text[x].caddr)
    BY ContentsOf
  <2> QED
    BY <1>1, <1>2, <1>3, <1>5, <2>1, <2>2, <2>3, CountContents
<1> QED
  BY <1>1, <1>4, <1>5 DEF DidXfree

LEMMA AttachContents ==
    ASSUME IInv, Names, Contents, NEW p \in Proc, Attach(p)
    PROVE  Contents'
<1>1. Shape /\ Steps(p) /\ DidAttach(p) /\ ControlOf(p) /\ p \in Actor
  BY SMTT(30), AttachShape, ShapeOf DEF IInv
<1>2. at[p].pc = "xalloc" /\ Leaves(p)
  BY <1>1, LeavesProc DEF DidAttach, Runs
<1>3. CASE text' = text /\ at'[p].pc \in {"user", "xwait"}
  <2>1. HasContent(p)'
    BY <1>1, <1>3, PlainAt DEF Inner, Out
  <2> QED
    BY <1>1, <1>2, <1>3, <2>1, ContentSame
<1>4. ASSUME NEW x \in Text, text[x].lock = FALSE, text[x].caddr = FALSE, text[x].ccount = 0,
             EntryIs(x, text[x].iptr, text[x].count + 1, text[x].ccount, TRUE,
                     text[x].writ, text[x].load, text[x].caddr, text[x].core, text[x].swap),
             Goes(p, "xexpand", x, at[p].xp, at[p].ret, "again")
      PROVE  Contents'
  <2>1. HasContent(p)'
    BY <1>4 DEF EntryIs, Goes, HasContent, Place, Out
  <2>2. ~text[x].lock /\ (text[x].ccount > 0 => text[x].caddr)
    BY <1>4
  <2>3. at[p].pc \notin {"xread", "inread"}
    BY <1>2
  <2> QED
    BY ZenonT(60), <1>1, <1>2, <1>4, <2>1, <2>2, <2>3, ContentsOf, CountContents
<1>5. ASSUME NEW x \in Text, text[x].lock = FALSE, text[x].caddr = TRUE \/ text[x].ccount # 0,
             EntryIs(x, text[x].iptr, text[x].count + 1, text[x].ccount + 1, text[x].lock,
                     text[x].writ, text[x].load, text[x].caddr, text[x].core, text[x].swap),
             Goes(p, "user", NoText, NoText, "user", "user")
      PROVE  Contents'
  <2>1. HasContent(p)'
    BY <1>1, <1>5, PlainAt DEF Goes, Inner, Out
  <2>2. text[x].caddr = TRUE /\ text[x].ccount + 1 > 0 /\ ~text[x].lock
    BY <1>5, ContentsOf
  <2> QED
    BY ZenonT(60), <1>1, <1>2, <1>5, <2>1, <2>2, CountContents
<1> QED
  BY ZenonT(60), <1>1, <1>3, <1>4, <1>5 DEF DidAttach, Goes

LEMMA TakesContents ==
    ASSUME IInv, Contents, NEW p \in Proc, NEW x \in Text, Steps(p), Takes(p, x, proc[p].prog),
           x \in Holds(p) \/ ~text[x].lock, at[p].pc \notin {"xread", "inread"}
    PROVE  Contents'
<1>1. p \in Actor /\ Leaves(p)
  BY Actors, LeavesProc
<1>2. /\ text'[x].ccount = 0 /\ text'[x].lock = TRUE /\ text'[x].load = TRUE
      /\ \A y \in Text \ {x} : text'[y] = text[y]
      /\ at'[p].pc = "xexpand" /\ at'[p].after = "readi"
  BY DEF Takes, EntryIs, Goes
<1>3. HasContent(p)' /\ ContentOf(x)'
  BY <1>2 DEF HasContent, ContentOf, Place, Out
<1>4. Respects(p)
  BY <1>1, <1>2, RespectsUnheld
<1> QED
  BY <1>1, <1>2, <1>3, <1>4, ContentStep

LEMMA AllotContents ==
    ASSUME IInv, Contents, NEW p \in Proc, Allot(p)
    PROVE  Contents'
<1>1. Shape /\ Steps(p) /\ DidAllot(p) /\ p \in Actor /\ at[p].pc = "xalloc"
  BY AllotShape, ShapeOf DEF IInv, DidAllot, Runs
<1>2. CASE text' = text /\ at'[p].pc \in {"user", "xuntext"}
  <2>1. HasContent(p)'
    BY <1>1, <1>2, PlainAt DEF Inner, Out
  <2> QED
    BY <1>1, <1>2, <2>1, LeavesProc, ContentSame
<1>3. CASE /\ free # <<>> /\ Head(free) \in Text /\ text[Head(free)].iptr = NoFile
           /\ Takes(p, Head(free), proc[p].prog)
  <2>1. Head(free) \in ToSet(free)
    BY <1>3, FreeTypes DEF IInv, Shape, Typed
  <2>2. ~text[Head(free)].lock
    BY <1>3, <2>1, UnusedUnlocked
  <2> QED
    BY <1>1, <1>3, <2>2, TakesContents
<1> QED
  BY <1>1, <1>2, <1>3 DEF DidAllot, Goes

LEMMA XuntextContents ==
    ASSUME IInv, Contents, NEW p \in Proc, Xuntext(p), ~ReusedInUse
    PROVE  Contents'
<1>1. Shape /\ Steps(p) /\ DidXuntext(p) /\ p \in Actor /\ Leaves(p)
  BY XuntextShape, ShapeOf, LeavesProc DEF IInv
<1>2. at[p].pc = "xuntext" /\ at[p].x \in Text /\ text[at[p].x].count = 0
  BY <1>1 DEF DidXuntext, Gets, Runs, ReusedInUse
<1> PICK x \in Text : x = at[p].x
  BY <1>2
<1>3. /\ EntryIs(x, NoFile, text[x].count, text[x].ccount, TRUE, text[x].writ,
                 text[x].load, text[x].caddr, NoFile, NoFile)
      /\ Moves(p, "irele")
  BY <1>1, <1>2 DEF DidXuntext
<1>4. ~text[x].lock
  BY <1>1, <1>2, Actors DEF DidXuntext, Gets, Wants
<1>5. /\ text'[x].iptr = NoFile /\ text'[x].ccount = text[x].ccount /\ text'[x].lock = TRUE
      /\ text'[x].caddr = text[x].caddr /\ \A y \in Text \ {x} : text'[y] = text[y]
  BY <1>3 DEF EntryIs
<1>6. ContentOf(x)'
  BY <1>5, ContentsOf DEF ContentOf
<1>7. HasContent(p)'
  BY <1>1, <1>3, PlainAt DEF Moves, Goes, Inner, Out
<1>8. Respects(p)
  BY <1>1, <1>4, <1>5, RespectsUnheld
<1> QED
  BY <1>1, <1>2, <1>5, <1>6, <1>7, <1>8, ContentStep

LEMMA XuntextedContents ==
    ASSUME IInv, Contents, NEW p \in Proc, Xuntexted(p)
    PROVE  Contents'
<1>1. Shape /\ Steps(p) /\ DidXuntexted(p) /\ p \in Actor
  BY XuntextedShape, ShapeOf DEF IInv
<1>2. at[p].pc = "irele" /\ at[p].x \in Text /\ at[p].x \in Holds(p)
  BY <1>1 DEF DidXuntexted, Runs, Holds, Place
<1> QED
  BY <1>1, <1>2, TakesContents DEF DidXuntexted

LEMMA XexpandContents ==
    ASSUME IInv, Names, Contents, NEW p \in Proc, Xexpand(p)
    PROVE  Contents'
<1>1. Shape /\ Steps(p) /\ DidXexpand(p) /\ ControlOf(p) /\ p \in Actor /\ Leaves(p) /\ Mine(p) /\ HasContent(p)
  BY XexpandShape, ShapeOf, LeavesProc DEF IInv, Contents
<1>2. at[p].pc = "xexpand" /\ at[p].after \in {"again", "readi"} /\ Fetches(p) /\ at[p].x \in Holds(p)
  BY <1>1 DEF DidXexpand, Runs, ControlOf, Place, Fetches, Holds
<1> PICK x \in Text : x = at[p].x
  BY <1>1 DEF DidXexpand
<1>3. /\ text[x].ccount = 0 /\ text[x].lock = TRUE
      /\ at[p].after = "readi" => text[x].load /\ ~text[x].writ
      /\ at[p].after = "again" => ~text[x].caddr
  BY <1>1, <1>2, HeldLocked, NamesOf, ContentsOf DEF Mine, Fills, HasContent, Place
<1>4. CASE /\ text[x].load = TRUE
           /\ EntryIs(x, text[x].iptr, text[x].count, text[x].ccount + 1, FALSE,
                      text[x].writ, text[x].load, TRUE, text[x].core, text[x].swap)
           /\ Moves(p, at[p].after)
  <2>1. HasContent(p)'
    BY <1>1, <1>2, <1>4, PlainAt DEF Moves, Goes, Inner, Out
  <2>2. text[x].ccount + 1 > 0
    BY <1>3
  <2> QED
    BY <1>1, <1>2, <1>4, <2>1, <2>2, CountContents
<1>5. CASE /\ text[x].load = FALSE
           /\ EntryIs(x, text[x].iptr, text[x].count, text[x].ccount, text[x].lock,
                      text[x].writ, text[x].load, TRUE, text[x].core, text[x].swap)
           /\ Moves(p, "xread")
  <2>1. /\ at'[p].pc = "xread" /\ at'[p].x = x
        /\ text'[x].caddr = TRUE /\ text'[x].load = FALSE /\ text'[x].writ = text[x].writ
    BY <1>5 DEF Moves, Goes, EntryIs
  <2>2. ~text[x].writ
    <3>1. text[x].iptr # NoFile
      BY <1>1, <1>2, Actors DEF Mine, ControlOf
    <3> QED
      BY <1>2, <1>3, <1>5, <3>1, ContentsOf
  <2>3. HasContent(p)'
    BY <2>1, <2>2 DEF HasContent, Place, Out
  <2> QED
    BY <1>1, <1>2, <1>5, <2>1, <2>3, FetchContents
<1>6. CASE (\E xp : Goes(p, "xuncore", x, xp, "xexpand", at[p].after)) /\ UNCHANGED Rest
  <2>1. /\ at'[p].pc = "xuncore" /\ at'[p].x = x /\ Place(p)' = "xexpand" /\ at'[p].after = at[p].after
        /\ text' = text
    BY <1>6 DEF Goes, Place, Rest
  <2>2. HasContent(p)'
    BY <1>3, <2>1 DEF HasContent, Out
  <2> QED
    BY <1>1, <1>2, <2>1, <2>2, ContentSame
<1>7. CASE /\ EntryIs(x, text[x].iptr, text[x].count, text[x].ccount, text[x].lock,
                      text[x].writ, text[x].load, FALSE, text[x].core, text[x].swap)
           /\ Moves(p, "swapout")
  <2>1. at'[p].pc = "swapout" /\ at'[p].x = x /\ text'[x].caddr = FALSE
    BY <1>7 DEF Moves, Goes, EntryIs
  <2>2. HasContent(p)'
    BY <2>1 DEF HasContent, Place, Out
  <2>3. FALSE = text[x].caddr \/ text[x].load
    BY <1>2, <1>3, ContentsOf
  <2>4. ~(text[x].ccount > 0)
    BY <1>3
  <2> QED
    BY <1>1, <1>2, <1>7, <2>1, <2>2, <2>3, <2>4, CountContents
<1> QED
  BY <1>1, <1>4, <1>5, <1>6, <1>7 DEF DidXexpand

LEMMA XreadContents ==
    ASSUME IInv, Contents, NEW p \in Proc, Xread(p)
    PROVE  Contents'
<1>1. Shape /\ Steps(p) /\ DidXread(p) /\ ControlOf(p) /\ p \in Actor /\ Leaves(p) /\ HasContent(p)
  BY XreadShape, ShapeOf, LeavesProc DEF IInv, Contents
<1>2. at[p].pc = "xread" /\ at[p].after \in {"again", "readi"} /\ at[p].x \in Holds(p)
  BY <1>1 DEF DidXread, Runs, ControlOf, Place, Holds
<1> PICK x \in Text : x = at[p].x
  BY <1>1 DEF DidXread
<1>3. text[x].caddr /\ ~text[x].load /\ ~text[x].writ
  BY <1>1, <1>2 DEF HasContent
<1>4. HasContent(p)'
  BY <1>1, <1>2, PlainAt DEF DidXread, Moves, Goes, Inner, Out
<1> QED
  BY <1>1, <1>2, <1>3, <1>4, ReadContents DEF DidXread

LEMMA UnlockAgainContents ==
    ASSUME IInv, Names, Contents, NEW p \in Proc, UnlockAgain(p), ~UnlocksOther
    PROVE  Contents'
<1>1. Shape /\ Steps(p) /\ DidUnlockAgain(p) /\ ControlOf(p) /\ p \in Actor /\ Leaves(p)
  BY UnlockAgainShape, ShapeOf, LeavesProc DEF IInv
<1> PICK x \in Text : x = at[p].x
  BY <1>1 DEF DidUnlockAgain
<1>2. at[p].pc = "again" /\ text[x].lock = FALSE
  BY <1>1, ContentsOf DEF DidUnlockAgain, Runs, UnlocksOther
<1>3. HasContent(p)'
  BY <1>1, PlainAt DEF DidUnlockAgain, Goes, Inner, Out
<1>4. /\ text[x].ccount > 0 => text[x].caddr
      /\ text[x].load => ~text[x].caddr \/ text[x].ccount > 0
      /\ text[x].caddr \in BOOLEAN
  BY <1>2, ContentsOf
<1>5. EntryIs(x, text[x].iptr, text[x].count, text[x].ccount, FALSE,
              text[x].writ, text[x].load, text[x].caddr, text[x].core, text[x].swap)
  BY <1>1 DEF DidUnlockAgain
<1>6. ~text[x].lock /\ p \in Actor /\ Leaves(p) /\ at[p].pc \notin {"xread", "inread"}
  BY <1>1, <1>2
<1> QED
  BY ZenonT(60), <1>3, <1>4, <1>5, <1>6, CountContents

(* Nobody has locked the text that p reads in, nor will anybody before p   *)
(* has read it.                                                            *)
LEMMA FillsUnheld ==
    ASSUME IInv, Names, Contents, NEW p \in Proc, Fills(p), proc[p].loaded, NEW b \in Actor, b # p
    PROVE  at[p].x \notin Holds(b)
<1> PICK x \in Text : x = at[p].x /\ x = proc[p].text /\ text[x].load /\ x # NoText
  BY NamesOf, Actors DEF IInv
<1>1. Mine(b) /\ HasContent(b)
  BY DEF IInv, Contents
<1>2. at[b].pc = "unwrite" => at[b].xp # x
  BY <1>1 DEF HasContent
<1>3. at[b].pc = "outwrite" => Its(b) # x
  BY <1>1 DEF HasContent
<1>4. x \notin Keeps(b)
  <2>1. CASE b \in Proc
    <3>1. ControlOf(b)
      BY <2>1, ShapeOf DEF IInv
    <3>2. proc[b].text # x
      BY <2>1, NamesOf DEF IInv
    <3>3. at[b].pc = "irele" => at[b].x # x
      BY <1>1, <2>1, UnusedText DEF Mine
    <3>4. Place(b) = "irele" => at[b].pc = "irele"
      BY <3>1 DEF ControlOf, Place, Inner
    <3>5. Place(b) \notin {"intext", "inimage", "inread"}
      BY <3>1 DEF ControlOf, Out
    <3> QED
      BY <3>1, <3>2, <3>3, <3>4, <3>5 DEF ControlOf, Keeps
  <2>2. CASE b = Sched
    <3>1. SchedControl
      BY DEF IInv, Shape
    <3>2. Place(Sched) \in {"intext", "inimage", "inread"} => Its(Sched) # x
      <4> SUFFICES ASSUME Place(Sched) \in {"intext", "inimage", "inread"} PROVE Its(Sched) # x
        OBVIOUS
      <4>1. sp # Idle
        BY <3>1 DEF SchedControl
      <4>2. sp \in Proc /\ sp # p
        BY <4>1, SwappedOut
      <4>3. proc[sp].text # x
        BY <4>2, NamesOf DEF IInv
      <4> QED
        BY <4>3 DEF Its, Whose
    <3>3. /\ Place(Sched) \notin {"irele", "xexpand", "xread"}
          /\ at[Sched].after = "sched"
      BY <3>1 DEF SchedControl, Out
    <3> QED
      BY <2>2, <3>2, <3>3 DEF Keeps
  <2> QED
    BY <2>1, <2>2 DEF Actor
<1> QED
  BY <1>2, <1>3, <1>4, HoldsKeeps DEF IInv

LEMMA ReadInContents ==
    ASSUME IInv, Names, Contents, NEW p \in Proc, ReadIn(p)
    PROVE  Contents'
<1>1. Shape /\ Steps(p) /\ DidReadIn(p) /\ ControlOf(p) /\ p \in Actor /\ Leaves(p)
  BY ReadInShape, ShapeOf, LeavesProc DEF IInv
<1> PICK x \in Text : x = at[p].x
  BY <1>1 DEF DidReadIn
<1>2. /\ at[p].pc = "reading" /\ at[p].after = "readi" /\ Place(p) = "reading" /\ proc[p].text = x /\ Fills(p)
      /\ proc[p].loaded /\ x # NoText
  BY <1>1, Actors DEF DidReadIn, Runs, ControlOf, Place, Fills, Steps
<1>3. /\ text'[x].iptr = text[x].iptr /\ text'[x].ccount = text[x].ccount /\ text'[x].caddr = text[x].caddr
      /\ text'[x].load = FALSE /\ text'[x].writ = TRUE /\ text'[x].core = proc[p].prog
      /\ \A y \in Text \ {x} : text'[y] = text[y]
  BY <1>1 DEF DidReadIn, EntryIs
<1>4. text[x].iptr = proc[p].prog
  BY <1>1, <1>2, NamesOf
<1>5. text[x].caddr
  <2>1. Counts(p)
    BY <1>2 DEF Counts
  <2>2. text[x].ccount # 0
    BY <1>2, <2>1, Uncounted
  <2> QED
    BY <2>2, ContentsOf
<1>6. ContentOf(x)'
  BY <1>3, <1>4, <1>5 DEF ContentOf
<1>7. HasContent(p)'
  BY <1>1, PlainAt DEF DidReadIn, Goes, Inner, Out
<1>8. Respects(p)
  <2> SUFFICES ASSUME NEW b \in Actor, b # p, NEW y \in Holds(b) PROVE y # x /\ y \in Text
    BY <1>3 DEF Respects
  <2>1. y \in Text
    BY HoldsKeeps DEF IInv
  <2> QED
    BY <1>2, <2>1, FillsUnheld
<1> QED
  BY <1>1, <1>2, <1>3, <1>6, <1>7, <1>8, ContentStep

(* A step that moves nobody and changes no entry. *)
LEMMA SameContents ==
    ASSUME Contents, UNCHANGED <<text, proc, at, sp>>
    PROVE  Contents'
<1>1. ASSUME NEW x \in Text PROVE ContentOf(x)'
  <2>1. ContentOf(x)
    BY DEF Contents
  <2> QED
    BY <2>1 DEF ContentOf, Unread
<1>2. ASSUME NEW a \in Actor PROVE HasContent(a)'
  <2>1. HasContent(a)
    BY DEF Contents
  <2>2. Its(a)' = Its(a) /\ Place(a)' = Place(a)
    BY DEF Its, Whose, Place
  <2> QED
    BY <2>1, <2>2 DEF HasContent
<1> QED
  BY <1>1, <1>2 DEF Contents

(* a stays in malloc, and leaves what it has locked alone. *)
LEMMA MallocHas ==
    ASSUME IInv, Contents, NEW a \in Actor, at[a].pc \in Inner, proc' = proc, sp' = sp,
           LooksOn(a) \/ Resumes(a) \/ Moves(a, "xcore") \/ Moves(a, "unwrite"),
           \A x \in Keeps(a) : text'[x] = text[x],
           at'[a].pc = "unwrite" =>
              text'[at'[a].xp].caddr /\ ~text'[at'[a].xp].load /\ text'[at'[a].xp].ccount = 0
    PROVE  HasContent(a)'
<1>1. /\ Place(a)' = Place(a) /\ at'[a].x = at[a].x /\ at'[a].pc \in Inner \cup {"expand", "xexpand", "intext", "inimage"}
  BY UncoreKeeps
<1>2. at'[a].after = at[a].after /\ Its(a)' = Its(a)
  BY DEF LooksOn, Resumes, Moves, Goes, Its, Whose
<1>3. HasContent(a)
  BY DEF Contents
<1>4. /\ Place(a) = "xexpand" => at[a].x \in Keeps(a)
      /\ Place(a) \in {"intext", "inimage"} /\ Its(a) # NoText => Its(a) \in Keeps(a)
  BY SMTT(30) DEF Keeps
<1>5. Place(a) = "intext" => Its(a) # NoText
  BY ShapeOf DEF IInv, Shape, SchedControl, ControlOf, Actor, Out
<1>6. Place(a)' = "xexpand" /\ at'[a].after = "again" => ~text'[at'[a].x].caddr
  BY <1>1, <1>2, <1>3, <1>4 DEF HasContent
<1>7. Place(a)' = "intext" => ~text'[Its(a)'].caddr
  BY <1>1, <1>2, <1>3, <1>4, <1>5 DEF HasContent
<1>8. Place(a)' = "inimage" /\ Its(a)' # NoText =>
          IF at'[a].x = NoText THEN text'[Its(a)'].caddr /\ ~text'[Its(a)'].load ELSE ~text'[Its(a)'].caddr
  <2> SUFFICES ASSUME Place(a) = "inimage", Its(a) # NoText
               PROVE  IF at[a].x = NoText THEN text'[Its(a)].caddr /\ ~text'[Its(a)].load ELSE ~text'[Its(a)].caddr
    BY <1>1, <1>2
  <2>1. text'[Its(a)] = text[Its(a)]
    BY <1>4
  <2> QED
    BY <1>3, <2>1 DEF HasContent
<1>9. at'[a].pc \notin Out /\ at'[a].pc \notin {"xread", "outwrite", "inread"}
  BY <1>1 DEF Inner, Out
<1> QED
  BY <1>6, <1>7, <1>8, <1>9 DEF HasContent

LEMMA XuncoreContents ==
    ASSUME IInv, Contents, NEW a \in Actor, Xuncore(a)
    PROVE  Contents'
<1>1. DidXuncore(a) /\ (a \in Proc => Steps(a)) /\ (a = Sched => SchedSteps)
  BY XuncoreShape DEF IInv
<1>2. /\ UNCHANGED <<text, free, itext, proc, sp>> /\ at[a].pc = "xuncore" /\ at[a].pc \in Inner
      /\ (LooksOn(a) \/ Resumes(a) \/ Moves(a, "xcore"))
  BY <1>1 DEF DidXuncore, Rest, Runs, Inner
<1>3. at'[a].pc # "unwrite"
  BY <1>2, UncoreKeeps DEF Moves, Goes
<1>4. HasContent(a)'
  BY <1>2, <1>3, MallocHas
<1> QED
  BY <1>1, <1>2, <1>4, LeavesActor, ContentSame

LEMMA XcoreContents ==
    ASSUME IInv, Names, Contents, NEW a \in Actor, Xcore(a)
    PROVE  Contents'
<1>1. DidXcore(a) /\ (a \in Proc => Steps(a)) /\ (a = Sched => SchedSteps) /\ Leaves(a)
  BY XcoreShape, LeavesActor DEF IInv
<1> PICK x \in Text : x = at[a].xp
  BY <1>1 DEF DidXcore
<1>2. /\ UNCHANGED <<free, itext, proc, sp>> /\ at[a].pc = "xcore" /\ at[a].pc \in Inner
  BY <1>1 DEF DidXcore, Gets, Runs, Inner
<1>3. ~text[x].lock
  BY <1>1, <1>2, Actors DEF DidXcore, Gets, Wants
<1>4. x \notin Keeps(a)
  BY <1>3, HeldLocked, HoldsKeeps DEF IInv
<1>5. CASE LooksOn(a) /\ UNCHANGED text
  <2>1. at'[a].pc # "unwrite"
    BY <1>2, <1>5, UncoreKeeps
  <2>2. HasContent(a)'
    BY <1>2, <1>5, <2>1, MallocHas
  <2> QED
    BY <1>1, <1>2, <1>5, <2>2, ContentSame
<1>6. CASE /\ text[x].ccount = 0 /\ text[x].caddr = TRUE /\ text[x].writ = TRUE
           /\ EntryIs(x, text[x].iptr, text[x].count, text[x].ccount, TRUE, text[x].writ,
                      text[x].load, text[x].caddr, text[x].core, text[x].swap)
           /\ Moves(a, "unwrite")
  <2>1. ~text[x].load
    BY <1>6, NamesOf DEF IInv
  <2>2. /\ text'[x].caddr /\ ~text'[x].load /\ text'[x].ccount = 0 /\ at'[a].xp = x
        /\ \A y \in Text \ {x} : text'[y] = text[y]
    BY <1>6, <2>1 DEF EntryIs, Moves, Goes
  <2>3. \A y \in Keeps(a) : text'[y] = text[y]
    BY <1>4, <2>2, HoldsKeeps DEF IInv
  <2>4. HasContent(a)'
    BY <1>2, <1>6, <2>2, <2>3, MallocHas
  <2>5. ~(text[x].ccount > 0)
    BY <1>6
  <2> QED
    BY <1>1, <1>2, <1>3, <1>6, <2>1, <2>4, <2>5, CountContents
<1>7. CASE /\ text[x].ccount = 0 /\ text[x].writ = FALSE
           /\ EntryIs(x, text[x].iptr, text[x].count, text[x].ccount, text[x].lock,
                      text[x].writ, text[x].load, FALSE, NoFile, text[x].swap)
           /\ LooksOn(a) \/ Resumes(a)
  <2>1. at'[a].pc # "unwrite"
    BY <1>2, <1>7, UncoreKeeps
  <2>2. \A y \in Keeps(a) : text'[y] = text[y]
    BY <1>4, <1>7, HoldsKeeps DEF IInv, EntryIs
  <2>3. HasContent(a)'
    BY <1>2, <1>7, <2>1, <2>2, MallocHas
  <2>4. text[x].iptr # NoFile /\ ~text[x].load => text[x].swap = text[x].iptr
    BY <1>7, ContentsOf
  <2> QED
    BY ZenonT(60), <1>1, <1>2, <1>3, <1>7, <2>3, <2>4, DropContents
<1> QED
  BY <1>1, <1>5, <1>6, <1>7 DEF DidXcore

(* Nobody reads a text in that somebody else has locked. *)
LEMMA HeldRead ==
    ASSUME IInv, NEW a \in Actor, at[a].pc \notin {"xread", "inread"}, NEW x \in Holds(a)
    PROVE  ~Unread(x)
<1> SUFFICES ASSUME Unread(x) PROVE FALSE
  OBVIOUS
<1>1. PICK b \in Actor : at[b].pc \in {"xread", "inread"} /\ at[b].x = x
  BY DEF Unread
<1>2. x \in Text
  BY HoldsKeeps DEF IInv
<1>3. CASE b \in Proc
  <2>1. at[b].pc = "xread"
    BY <1>1, <1>3, ShapeOf DEF IInv, ControlOf, Place, Out
  <2> QED
    BY <1>1, <2>1, HeldEntries DEF IInv, Locked
<1>4. CASE b = Sched
  <2>1. Place(Sched) = at[Sched].pc
    BY <1>1, <1>4 DEF Place
  <2>2. at[Sched].pc = "inread" /\ Its(Sched) = x
    BY <1>1, <1>2, <1>4, <2>1, Actors DEF IInv, Shape, SchedControl, Out
  <2> QED
    BY <1>1, <1>2, <1>4, <2>1, <2>2, HeldEntries, Actors DEF IInv, Locked
<1> QED
  BY <1>3, <1>4 DEF Actor

LEMMA UnwrittenContents ==
    ASSUME IInv, Contents, NEW a \in Actor, Unwritten(a)
    PROVE  Contents'
<1>1. DidUnwritten(a) /\ (a \in Proc => Steps(a)) /\ (a = Sched => SchedSteps) /\ Leaves(a)
  BY UnwrittenShape, LeavesActor DEF IInv
<1> PICK x \in Text : x = at[a].xp
  BY <1>1 DEF DidUnwritten
<1>2. /\ UNCHANGED <<free, itext, proc, sp>> /\ at[a].pc = "unwrite" /\ at[a].pc \in Inner
      /\ (LooksOn(a) \/ Resumes(a))
      /\ EntryIs(x, text[x].iptr, text[x].count, text[x].ccount, FALSE, FALSE,
                 text[x].load, FALSE, NoFile, text[x].core)
  BY <1>1 DEF DidUnwritten, Runs, Inner
<1>3. Mine(a) /\ HasContent(a)
  BY DEF IInv, Contents
<1>4. /\ text[x].caddr /\ ~text[x].load /\ text[x].ccount = 0 /\ text[x].iptr # NoFile
      /\ x \notin Keeps(a) /\ x \in Holds(a)
  BY <1>2, <1>3, HeldEntries DEF Mine, HasContent
<1>5. at'[a].pc # "unwrite"
  BY <1>2, UncoreKeeps
<1>6. \A y \in Keeps(a) : text'[y] = text[y]
  BY <1>2, <1>4, HoldsKeeps DEF IInv, EntryIs
<1>7. HasContent(a)'
  BY <1>2, <1>5, <1>6, MallocHas
<1>8. text[x].core = text[x].iptr
  BY <1>2, <1>4, HeldRead, ContentsOf
<1> QED
  BY <1>1, <1>2, <1>4, <1>7, <1>8, DropContents

LEMMA SwapoutContents ==
    ASSUME IInv, Contents, NEW a \in Actor, Swapout(a)
    PROVE  Contents'
<1>1. DidSwapout(a) /\ (a \in Proc => Steps(a)) /\ (a = Sched => SchedSteps) /\ Leaves(a)
  BY SwapoutShape, LeavesActor DEF IInv
<1>2. /\ at[a].pc = "swapout" /\ text' = text
      /\ at'[a].pc \in {"image", "xccdec"} /\ at'[a].x = at[a].x /\ at'[a].after = at[a].after
  BY <1>1 DEF DidSwapout, Runs, Rest, Moves, Goes
<1>3. HasContent(a)
  BY DEF Contents
<1>4. HasContent(a)'
  BY <1>2, <1>3 DEF HasContent, Place, Out
<1> QED
  BY <1>1, <1>2, <1>4, ContentSame

(* What a is about to release of its text is not what it brings in. *)
LEMMA OutPlain ==
    ASSUME IInv, NEW a \in Actor, at[a].pc \in {"xccdec", "outwrite"}
    PROVE  at[a].after \notin {"again", "readi"}
<1>1. CASE a \in Proc
  BY <1>1 DEF IInv, Mine, Fetches, Out
<1>2. CASE a = Sched
  BY <1>2 DEF IInv, Shape, SchedControl
<1> QED
  BY <1>1, <1>2 DEF Actor

LEMMA XccdecContents ==
    ASSUME IInv, Names, Contents, NEW a \in Actor, Xccdec(a)
    PROVE  Contents'
<1>1. DidXccdec(a) /\ (a \in Proc => Steps(a)) /\ (a = Sched => SchedSteps) /\ Leaves(a)
  BY XccdecShape, LeavesActor DEF IInv
<1> PICK x \in Text : x = Its(a)
  BY <1>1 DEF DidXccdec
<1>2. /\ UNCHANGED <<free, itext, proc, sp>> /\ at[a].pc = "xccdec" /\ at[a].after \notin {"again", "readi"}
      /\ Its(a)' = x
  BY <1>1, OutPlain DEF DidXccdec, Gets, Runs, Its, Whose
<1>3. ~text[x].lock
  BY <1>1, <1>2, Actors DEF DidXccdec, Gets, Wants
<1>4. CASE /\ text[x].ccount # 1 /\ Moves(a, "image")
           /\ EntryIs(x, text[x].iptr, text[x].count, text[x].ccount - 1, text[x].lock,
                      text[x].writ, text[x].load, text[x].caddr, text[x].core, text[x].swap)
  <2>1. HasContent(a)'
    BY <1>2, <1>4, PlainContent DEF Moves, Goes, Place
  <2>2. /\ text[x].ccount - 1 > 0 => text[x].caddr
        /\ text[x].load => ~text[x].caddr \/ text[x].ccount - 1 > 0
        /\ text[x].caddr \in BOOLEAN
    BY <1>3, <1>4, ContentsOf
  <2> QED
    BY <1>1, <1>2, <1>3, <1>4, <2>1, <2>2, CountContents
<1>5. CASE /\ text[x].ccount = 1 /\ text[x].writ = TRUE /\ Moves(a, "outwrite")
           /\ EntryIs(x, text[x].iptr, text[x].count, 0, TRUE, text[x].writ,
                      text[x].load, text[x].caddr, text[x].core, text[x].swap)
  <2>1. text[x].caddr = TRUE /\ ~text[x].load
    BY <1>5, NamesOf, ContentsOf DEF IInv
  <2>2. /\ text'[x].caddr /\ ~text'[x].load /\ text'[x].ccount = 0
        /\ at'[a].pc = "outwrite" /\ at'[a].after = at[a].after
    BY <1>5, <2>1 DEF EntryIs, Moves, Goes
  <2>3. HasContent(a)'
    BY <1>2, <2>2 DEF HasContent, Place
  <2>4. ~(0 > 0)
    OBVIOUS
  <2> QED
    BY <1>1, <1>2, <1>3, <1>5, <2>1, <2>3, <2>4, CountContents
<1>6. CASE /\ text[x].ccount = 1 /\ text[x].writ = FALSE /\ Moves(a, "image")
           /\ EntryIs(x, text[x].iptr, text[x].count, 0, text[x].lock, text[x].writ,
                      text[x].load, FALSE, NoFile, text[x].swap)
  <2>1. HasContent(a)'
    BY <1>2, <1>6, PlainContent DEF Moves, Goes, Place
  <2>2. text[x].iptr # NoFile /\ ~text[x].load => text[x].swap = text[x].iptr
    BY <1>6, ContentsOf
  <2> QED
    BY <1>1, <1>2, <1>3, <1>6, <2>1, <2>2, DropContents
<1> QED
  BY <1>1, <1>4, <1>5, <1>6 DEF DidXccdec

LEMMA TextOutContents ==
    ASSUME IInv, Contents, NEW a \in Actor, TextOut(a)
    PROVE  Contents'
<1>1. DidTextOut(a) /\ (a \in Proc => Steps(a)) /\ (a = Sched => SchedSteps) /\ Leaves(a)
  BY TextOutShape, LeavesActor DEF IInv
<1> PICK x \in Text : x = Its(a)
  BY <1>1 DEF DidTextOut
<1>2. /\ at[a].pc = "outwrite" /\ at[a].after \notin {"again", "readi"} /\ Moves(a, "image")
      /\ EntryIs(x, text[x].iptr, text[x].count, text[x].ccount, FALSE, FALSE,
                 text[x].load, FALSE, NoFile, text[x].core)
  BY <1>1, OutPlain DEF DidTextOut, Runs
<1>3. HasContent(a)
  BY DEF Contents
<1>4. text[x].caddr /\ ~text[x].load /\ text[x].ccount = 0 /\ x \in Holds(a)
  BY <1>2, <1>3, HeldEntries DEF HasContent
<1>5. HasContent(a)'
  BY <1>2, PlainContent DEF Moves, Goes, Place
<1>6. text[x].iptr # NoFile => text[x].core = text[x].iptr
  BY <1>2, <1>4, HeldRead, ContentsOf
<1> QED
  BY <1>1, <1>2, <1>4, <1>5, <1>6, DropContents

LEMMA ImageOutContents ==
    ASSUME IInv, Contents, NEW a \in Actor, ImageOut(a)
    PROVE  Contents'
<1>1. DidImageOut(a) /\ (a \in Proc => Steps(a)) /\ (a = Sched => SchedSteps) /\ Leaves(a)
  BY ImageOutShape, LeavesActor DEF IInv
<1>2. at[a].pc = "image"
  BY <1>1 DEF DidImageOut, Runs
<1>3. at'[a].pc \in {"sched", "user", "xalloc", "again", "readi"}
  <2>1. a \in Proc => at[a].after \in {"user", "xalloc", "again", "readi"}
    BY <1>2, ShapeOf DEF IInv, ControlOf, Out, Locals
  <2> QED
    BY <1>1, <2>1 DEF DidImageOut, Moves, Goes
<1>4. HasContent(a)'
  BY <1>3, PlainAt DEF Inner, Out
<1>5. CASE UNCHANGED text
  BY <1>1, <1>2, <1>4, <1>5, ContentSame
<1>6. ASSUME NEW x \in Text, x = at[a].x, at[a].after \in {"again", "readi"}, a \in Proc,
             EntryIs(x, text[x].iptr, text[x].count, text[x].ccount, FALSE, text[x].writ,
                     text[x].load, text[x].caddr, text[x].core, text[x].swap)
      PROVE  Contents'
  <2>1. Mine(a) /\ HasContent(a) /\ Fetches(a) /\ at[a].pc \in Out
    BY <1>2, <1>6 DEF IInv, Contents, Fetches, Out
  <2>2. text[x].ccount = 0 /\ text[x].caddr = FALSE /\ x \in Holds(a)
    BY <1>6, <2>1, HeldEntries, ContentsOf DEF Mine, HasContent
  <2>3. ~(text[x].ccount > 0)
    BY <2>2
  <2> QED
    BY ZenonT(60), <1>1, <1>2, <1>4, <1>6, <2>2, <2>3, CountContents
<1> QED
  BY <1>1, <1>5, <1>6 DEF DidImageOut

(* sched does not find XLOAD set in a text that has core. *)
LEMMA SwapinLoaded ==
    ASSUME IInv, Names, Contents, at[Sched].pc = "inlock", NEW x \in Text, x = Its(Sched), ~text[x].lock, text[x].caddr
    PROVE  ~text[x].load
<1> SUFFICES ASSUME text[x].load PROVE FALSE
  OBVIOUS
<1>1. sp # Idle
  BY DEF IInv, Shape, SchedControl, Place
<1>2. sp \in Proc /\ ~proc[sp].loaded /\ proc[sp].text = x
  BY <1>1, SwappedOut DEF Its, Whose
<1>3. \A q \in Proc : proc[q].text = x => q = sp
  BY <1>2, NamesOf DEF IInv
<1>4. ~Counts(sp)
  BY <1>2 DEF Counts
<1>5. {q \in Proc : proc[q].text = x /\ Counts(q)} = {}
  BY <1>3, <1>4
<1>6. text[x].ccount = 0
  BY <1>5, FS_EmptySet DEF IInv, Accounts
<1> QED
  BY <1>6, ContentsOf

LEMMA SwapinLockContents ==
    ASSUME IInv, Names, Contents, SwapinLock
    PROVE  Contents'
<1>1. DidSwapinLock /\ SchedSteps /\ Leaves(Sched) /\ Sched \in Actor
  BY SwapinLockShape, LeavesSched, Actors DEF IInv
<1>2. at[Sched].pc = "inlock" /\ Its(Sched)' = Its(Sched) /\ at[Sched].x = NoText
  BY <1>1 DEF DidSwapinLock, Gets, Runs, Its, Whose, IInv, Shape, SchedControl, Place
<1>3. CASE Its(Sched) = NoText /\ Moves(Sched, "inimage") /\ UNCHANGED text
  <2>1. HasContent(Sched)'
    BY <1>2, <1>3 DEF HasContent, Moves, Goes, Place, Out
  <2> QED
    BY <1>1, <1>2, <1>3, <2>1, ContentSame
<1>4. ASSUME NEW x \in Text, x = Its(Sched),
             EntryIs(x, text[x].iptr, text[x].count, text[x].ccount, TRUE, text[x].writ,
                     text[x].load, text[x].caddr, text[x].core, text[x].swap),
             \/ text[x].caddr = FALSE /\ text[x].ccount = 0 /\ Moves(Sched, "intext")
             \/ (text[x].caddr = TRUE \/ text[x].ccount # 0) /\ Moves(Sched, "inimage")
      PROVE  Contents'
  <2>1. ~text[x].lock
    BY <1>1, <1>2, <1>4, Actors DEF DidSwapinLock, Gets, Wants
  <2>2. text'[x].caddr = text[x].caddr /\ text'[x].load = text[x].load
    BY <1>4 DEF EntryIs
  <2>3. ASSUME text[x].caddr = FALSE, Moves(Sched, "intext") PROVE HasContent(Sched)'
    BY <1>2, <1>4, <2>2, <2>3 DEF HasContent, Moves, Goes, Place, Out
  <2>4. ASSUME text[x].caddr = TRUE \/ text[x].ccount # 0, Moves(Sched, "inimage") PROVE HasContent(Sched)'
    <3>1. text[x].caddr
      BY <2>4, ContentsOf
    <3>2. ~text[x].load
      BY <1>2, <1>4, <2>1, <3>1, SwapinLoaded
    <3> QED
      BY <1>2, <1>4, <2>2, <2>4, <3>1, <3>2 DEF HasContent, Moves, Goes, Place, Out
  <2>5. text[x].caddr \in BOOLEAN /\ (text[x].ccount > 0 => text[x].caddr)
    BY ContentsOf
  <2>6. HasContent(Sched)'
    BY <1>4, <2>3, <2>4
  <2> QED
    BY <1>1, <1>2, <1>4, <2>1, <2>5, <2>6, CountContents
<1> QED
  BY <1>1, <1>3, <1>4 DEF DidSwapinLock

LEMMA FailsContents ==
    ASSUME IInv, Contents, SchedSteps, Fails, at[Sched].pc \in {"intext", "inimage"}
    PROVE  Contents'
<1>1. Leaves(Sched) /\ Sched \in Actor /\ HasContent(Sched)
  BY LeavesSched, Actors DEF Contents
<1>2. HasContent(Sched)'
  BY <1>1, PlainAt DEF Fails, Goes, Inner, Out
<1>3. CASE UNCHANGED text
  BY <1>1, <1>2, <1>3, ContentSame
<1>4. ASSUME NEW x \in Text, x = proc[sp].text,
             EntryIs(x, text[x].iptr, text[x].count, text[x].ccount, FALSE, text[x].writ,
                     text[x].load, text[x].caddr, text[x].core, text[x].swap)
      PROVE  Contents'
  <2>1. Its(Sched) = x /\ x # NoText /\ Place(Sched) = at[Sched].pc
    BY <1>4, Actors DEF Its, Whose, Place
  <2>2. x \in Holds(Sched)
    BY <1>1, <2>1, HeldEntries
  <2>3. text[x].load => ~text[x].caddr
    BY <1>1, <2>1 DEF HasContent
  <2>4. text[x].caddr \in BOOLEAN /\ (text[x].ccount > 0 => text[x].caddr)
    BY ContentsOf
  <2> QED
    BY ZenonT(60), <1>1, <1>2, <1>4, <2>2, <2>3, <2>4, CountContents
<1> QED
  BY <1>3, <1>4 DEF Fails

LEMMA SchedCallsContents ==
    ASSUME IInv, Contents, SchedSteps, NEW l \in {"intext", "inimage"}, SchedCalls(l), at[Sched].pc = l
    PROVE  Contents'
<1>1. Leaves(Sched) /\ Sched \in Actor /\ HasContent(Sched)
  BY LeavesSched, Actors DEF Contents
<1>2. /\ at'[Sched].pc = "xuncore" /\ Place(Sched)' = l /\ Place(Sched) = l /\ at'[Sched].x = at[Sched].x
      /\ Its(Sched)' = Its(Sched) /\ text' = text
  BY DEF SchedCalls, Goes, Rest, Place, Its, Whose
<1>3. HasContent(Sched)'
  BY <1>1, <1>2 DEF HasContent, Out
<1> QED
  BY <1>1, <1>2, <1>3, ContentSame

LEMMA SwapinTextContents ==
    ASSUME IInv, Contents, SwapinText
    PROVE  Contents'
<1>1. DidSwapinText /\ SchedSteps /\ Leaves(Sched) /\ Sched \in Actor /\ HasContent(Sched)
  BY SwapinTextShape, LeavesSched, Actors DEF IInv, Contents
<1>2. at[Sched].pc = "intext" /\ proc[sp].text \in Text
  BY <1>1 DEF DidSwapinText, Runs
<1>3. CASE /\ UNCHANGED <<text, free, itext, proc, on, sp>>
           /\ Goes(Sched, "inimage", proc[sp].text, at[Sched].xp, at[Sched].ret, at[Sched].after)
  <2>1. /\ at'[Sched].pc = "inimage" /\ at'[Sched].x # NoText /\ Its(Sched)' = Its(Sched)
        /\ at'[Sched].after = at[Sched].after
    BY <1>2, <1>3, Actors DEF Goes, Its, Whose
  <2>2. ~text[Its(Sched)].caddr
    BY <1>1, <1>2 DEF HasContent, Place
  <2>3. HasContent(Sched)'
    BY <1>3, <2>1, <2>2 DEF HasContent, Place, Out
  <2> QED
    BY <1>1, <1>2, <1>3, <2>3, ContentSame
<1> QED
  BY <1>1, <1>2, <1>3, FailsContents, SchedCallsContents DEF DidSwapinText

LEMMA SwapinImageContents ==
    ASSUME IInv, Contents, SwapinImage
    PROVE  Contents'
<1>1. DidSwapinImage /\ SchedSteps /\ Leaves(Sched) /\ Sched \in Actor /\ HasContent(Sched) /\ SchedControl
  BY SwapinImageShape, LeavesSched, Actors DEF IInv, Contents, Shape
<1>2. at[Sched].pc = "inimage" /\ sp \in Proc /\ Its(Sched) = proc[sp].text /\ Place(Sched) = "inimage"
  BY <1>1, Actors DEF DidSwapinImage, Runs, Its, Whose, Place
<1>3. CASE Moves(Sched, "inload") /\ UNCHANGED text
  <2>1. HasContent(Sched)'
    BY <1>1, <1>3, PlainAt DEF Moves, Goes, Inner, Out
  <2> QED
    BY <1>1, <1>2, <1>3, <2>1, ContentSame
<1>4. ASSUME NEW x \in Text, x = proc[sp].text, at[Sched].x # NoText, text[x].load = FALSE,
             EntryIs(x, text[x].iptr, text[x].count, text[x].ccount, text[x].lock,
                     text[x].writ, text[x].load, TRUE, text[x].core, text[x].swap),
             Moves(Sched, "inread"), UNCHANGED <<proc, sp>>
      PROVE  Contents'
  <2>1. x # NoText /\ x \in Holds(Sched) /\ ~text[x].caddr /\ at[Sched].x = x
    BY <1>1, <1>2, <1>4, HeldEntries, Actors DEF HasContent, SchedControl
  <2>2. text[x].iptr # NoFile
    <3>1. Mine(sp)
      BY <1>2, Actors DEF IInv
    <3> QED
      BY <1>2, <1>4, <2>1, <3>1 DEF Mine
  <2>3. ~text[x].writ /\ text[x].ccount = 0
    BY <1>4, <2>1, <2>2, ContentsOf
  <2>4. /\ text'[x].caddr = TRUE /\ text'[x].load = FALSE /\ text'[x].writ = text[x].writ
        /\ text'[x].ccount = text[x].ccount
        /\ at'[Sched].pc = "inread" /\ at'[Sched].x = x /\ Its(Sched)' = x /\ at'[Sched].after = at[Sched].after
    BY <1>2, <1>4, <2>1 DEF EntryIs, Moves, Goes, Its, Whose
  <2>5. HasContent(Sched)'
    BY <2>3, <2>4 DEF HasContent, Place, Out
  <2> QED
    BY <1>1, <1>2, <1>4, <2>1, <2>4, <2>5, FetchContents
<1>5. ASSUME NEW x \in Text, x = proc[sp].text, at[Sched].x # NoText => text[x].load = TRUE,
             EntryIs(x, text[x].iptr, text[x].count, text[x].ccount + 1, FALSE, text[x].writ,
                     text[x].load, text[x].caddr \/ at[Sched].x # NoText, text[x].core, text[x].swap),
             Moves(Sched, "inload")
      PROVE  Contents'
  <2>1. x # NoText /\ x \in Holds(Sched) /\ (at[Sched].x = NoText => text[x].caddr)
    BY <1>1, <1>2, <1>5, HeldEntries, Actors DEF HasContent
  <2>2. HasContent(Sched)'
    BY <1>1, <1>5, PlainAt DEF Moves, Goes, Inner, Out
  <2>3. text[x].caddr \in BOOLEAN /\ text[x].ccount + 1 > 0
    BY ContentsOf
  <2>4. (text[x].caddr \/ at[Sched].x # NoText) = TRUE
    BY <2>1, <2>3
  <2>5. TRUE = text[x].caddr \/ text[x].load
    BY <1>5, <2>1, <2>3
  <2>6. EntryIs(x, text[x].iptr, text[x].count, text[x].ccount + 1, FALSE, text[x].writ,
                text[x].load, TRUE, text[x].core, text[x].swap)
    BY <1>5, <2>4
  <2> QED
    BY <1>1, <1>2, <2>1, <2>2, <2>3, <2>5, <2>6, CountContents
<1> QED
  BY <1>1, <1>2, <1>3, <1>4, <1>5, FailsContents, SchedCallsContents DEF DidSwapinImage

LEMMA SwapinReadContents ==
    ASSUME IInv, Contents, SwapinRead
    PROVE  Contents'
<1>1. DidSwapinRead /\ SchedSteps /\ Leaves(Sched) /\ Sched \in Actor /\ HasContent(Sched)
  BY SwapinReadShape, LeavesSched, Actors DEF IInv, Contents
<1> PICK x \in Text : x = proc[sp].text
  BY <1>1 DEF DidSwapinRead
<1>2. at[Sched].pc = "inread" /\ Its(Sched) = x /\ at[Sched].x = x /\ x # NoText /\ Place(Sched) = "inread"
  BY <1>1, Actors DEF DidSwapinRead, Runs, Its, Whose, Place
<1>3. text[x].caddr /\ ~text[x].load /\ ~text[x].writ /\ x \in Holds(Sched)
  BY <1>1, <1>2, HeldEntries DEF HasContent
<1>4. HasContent(Sched)'
  BY <1>1, PlainAt DEF DidSwapinRead, Moves, Goes, Inner, Out
<1> QED
  BY <1>1, <1>2, <1>3, <1>4, ReadContents DEF DidSwapinRead

LEMMA SwapperContents ==
    ASSUME IInv, Names, Contents, Swapper
    PROVE  Contents'
<1>1. Shape
  BY DEF IInv
<1>2. ASSUME SchedSteps, text' = text, at[Sched].pc # "inread",
             \/ at'[Sched].pc \in {"inlock", "sched"}
             \/ at'[Sched].pc = "swapout" /\ at'[Sched].after = "sched"
      PROVE  Contents'
  <2>1. HasContent(Sched)'
    BY <1>2, Actors, PlainContent DEF Place, Out
  <2>2. at[Sched].pc # "xread"
    BY <1>1 DEF Shape, SchedControl, Place, Out
  <2> QED
    BY <1>2, <2>1, <2>2, Actors, LeavesSched, ContentSame
<1>3. CASE \E q \in Proc : Bring(q)
  BY <1>1, <1>2, <1>3, BringShape DEF DidBring, Runs, Moves, Goes
<1>4. CASE \E v \in Proc : ThrowOut(v)
  BY <1>1, <1>2, <1>4, ThrowOutShape DEF DidThrowOut, Runs, Moves, Goes, Shape, SchedControl
<1>5. CASE SwapinDone
  BY <1>1, <1>2, <1>5, SwapinDoneShape DEF DidSwapinDone, Runs, Goes
<1>6. CASE WaitCore
  BY <1>1, <1>2, <1>6, WaitCoreShape DEF DidWaitCore, Runs, Moves, Goes, Rest
<1>7. CASE Nobody
  BY <1>7, SameContents DEF Nobody
<1> QED
  BY <1>3, <1>4, <1>5, <1>6, <1>7, SwapinLockContents, SwapinTextContents, SwapinImageContents,
     SwapinReadContents DEF Swapper

LEMMA ContentsNext ==
    ASSUME IInv, Names, Contents, [Next]_vars, NoRace
    PROVE  Contents'
<1>1. ~ReusedInUse /\ ~UnlocksOther
  BY DEF NoRace
<1>2. ASSUME NEW p \in Proc, Step(p) PROVE Contents'
  BY <1>1, <1>2, QuietContents, XfreeContents, AttachContents, AllotContents, XuntextContents,
     XuntextedContents, XexpandContents, XreadContents, ReadInContents, UnlockAgainContents DEF Step
<1>3. ASSUME NEW a \in Actor,
             WaitLock(a) \/ Xuncore(a) \/ Xcore(a) \/ Unwritten(a) \/ Swapout(a) \/ Xccdec(a)
             \/ TextOut(a) \/ ImageOut(a)
      PROVE  Contents'
  <2>1. CASE WaitLock(a)
    BY <2>1, SameContents DEF WaitLock
  <2> QED
    BY <1>3, <2>1, XuncoreContents, XcoreContents, UnwrittenContents, SwapoutContents, XccdecContents,
       TextOutContents, ImageOutContents
<1>4. CASE Swapper
  BY <1>4, SwapperContents
<1>5. CASE UNCHANGED vars
  BY <1>5, SameContents DEF vars
<1> QED
  BY <1>2, <1>3, <1>4, <1>5 DEF Next

LEMMA ContentsInit ==
    ASSUME Init
    PROVE  Contents
<1>1. \A x \in Text : ContentOf(x)
  BY DEF Init, ContentOf
<1>2. \A a \in Actor : at[a].pc \in {"user", "sched"}
  BY DEF Init, Home, Top
<1>3. \A a \in Actor : HasContent(a)
  BY <1>2 DEF HasContent, Place, Out
<1> QED
  BY <1>1, <1>3 DEF Contents

LEMMA RunsWhole ==
    ASSUME IInv, Names, Contents
    PROVE  RunsItsText
<1> SUFFICES ASSUME NEW p \in Proc, proc[p].loaded, at[p].pc = "user", NEW x \in Text, x = proc[p].text, x # NoText
             PROVE  /\ text[x].iptr = proc[p].prog /\ text[x].core = proc[p].prog
                    /\ text[x].caddr /\ text[x].ccount > 0
  BY DEF RunsItsText, IInv, Shape, Typed, Process
<1>1. Place(p) = "user" /\ ControlOf(p) /\ p \in Actor
  BY ShapeOf DEF IInv, Place
<1>2. text[x].iptr = proc[p].prog /\ text[x].iptr # NoFile
  <2>1. Mine(p)
    BY <1>1 DEF IInv
  <2> QED
    BY <1>1, <2>1, NamesOf DEF IInv, Mine
<1>3. text[x].ccount > 0 /\ text[x].caddr
  <2>1. Counts(p)
    BY <1>1 DEF Counts
  <2>2. text[x].ccount # 0
    BY <2>1, Uncounted
  <2> QED
    BY <2>2, ContentsOf
<1>4. ~text[x].load
  <2>1. ~Fills(p)
    BY <1>1 DEF ControlOf, Fills
  <2> QED
    BY <2>1, FillsAlone DEF IInv
<1>5. ~Unread(x)
  <2> SUFFICES ASSUME NEW b \in Actor, at[b].pc \in {"xread", "inread"}, at[b].x = x PROVE FALSE
    BY DEF Unread
  <2>1. Mine(b) /\ HasContent(b)
    BY DEF IInv, Contents
  <2>2. CASE b \in Proc
    <3>1. Fetches(b)
      BY <2>2, ShapeOf DEF IInv, ControlOf, Fetches, Place, Out
    <3> QED
      BY <1>3, <2>1, <2>2, <3>1 DEF Mine
  <2>3. CASE b = Sched
    <3>1. at[Sched].pc = "inread" /\ Its(Sched) = x
      BY <2>3, Actors DEF IInv, Shape, SchedControl, Place, Out
    <3> QED
      BY <1>3, <2>1, <2>3, <3>1 DEF HasContent
  <2> QED
    BY <2>2, <2>3 DEF Actor
<1>6. text[x].core = text[x].iptr
  BY <1>2, <1>3, <1>4, <1>5, ContentsOf
<1> QED
  BY <1>2, <1>3, <1>6

(* A process that runs has its program's text in core, and whole, as long  *)
(* as none of these races has come about: no core is given up before swap  *)
(* has the text, nothing is read from swap that was not written there, and *)
(* nobody counted in core finds it gone.                                   *)
THEOREM TextsRun == Spec /\ []NoRace => []RunsItsText
<1> DEFINE Whole == IInv /\ Names /\ Contents
<1>1. Init => Whole
  BY IInvInit, NamesInit, ContentsInit
<1>2. Whole /\ NoRace /\ [Next]_vars => Whole'
  BY IInvNext, NamesNext, ContentsNext
<1>3. Whole => RunsItsText
  BY RunsWhole
<1> QED
  BY <1>1, <1>2, <1>3, PTL DEF Spec

-----------------------------------------------------------------------------
(* The units of core *)

LEMMA FiniteCore ==
    /\ \A S \in SUBSET Text : IsFiniteSet(S) /\ Cardinality(S) \in Nat
    /\ \A S : IsFiniteSet(UnitsOf(S)) /\ Cardinality(UnitsOf(S)) \in Nat
<1>1. \A S \in SUBSET Text : IsFiniteSet(S) /\ Cardinality(S) \in Nat
  BY NoneAssumption, FS_Subset, FS_CardinalityType
<1>2. IsFiniteSet(Proc \X (1..Core))
  <2>1. IsFiniteSet(1..Core)
    BY CoreAssumption, FS_Interval
  <2> QED
    BY <2>1, ActorAssumption, FS_Product
<1>3. \A S : IsFiniteSet(UnitsOf(S)) /\ Cardinality(UnitsOf(S)) \in Nat
  BY <1>2, FS_Subset, FS_CardinalityType DEF UnitsOf
<1> QED
  BY <1>1, <1>3

LEMMA OneImage ==
    ASSUME NEW S, NEW p \in Proc \ S
    PROVE  Cardinality(UnitsOf(S \cup {p})) = Cardinality(UnitsOf(S)) + Img[p]
<1> DEFINE I == {p} \X (1..Img[p])
<1>1. Img[p] \in 1..Core /\ Core \in Nat
  BY CoreAssumption
<1>2. IsFiniteSet(I) /\ Cardinality(I) = Img[p]
  <2>1. IsFiniteSet(1..Img[p]) /\ Cardinality(1..Img[p]) = Img[p]
    BY <1>1, FS_Interval
  <2>2. IsFiniteSet({p}) /\ Cardinality({p}) = 1
    BY FS_Singleton
  <2>3. IsFiniteSet(I) /\ Cardinality(I) = Cardinality({p}) * Cardinality(1..Img[p])
    BY <2>1, <2>2, FS_Product, Zenon
  <2> QED
    BY <1>1, <2>1, <2>2, <2>3
<1>3. UnitsOf(S \cup {p}) = UnitsOf(S) \cup I
  BY <1>1 DEF UnitsOf
<1>4. UnitsOf(S) \cap I = {}
  BY DEF UnitsOf
<1>5. /\ IsFiniteSet(UnitsOf(S)) /\ Cardinality(UnitsOf(S)) \in Nat
  BY FiniteCore
<1>6. Cardinality(UnitsOf(S) \cup I) = Cardinality(UnitsOf(S)) + Cardinality(I) - Cardinality(UnitsOf(S) \cap I)
  BY <1>2, <1>5, FS_Union
<1>7. Cardinality(UnitsOf(S) \cap I) = 0
  BY <1>4, FS_EmptySet
<1> HIDE DEF I
<1>8. Cardinality(UnitsOf(S \cup {p})) = Cardinality(UnitsOf(S) \cup I)
  BY <1>3
<1> QED
  BY <1>1, <1>2, <1>5, <1>6, <1>7, <1>8

(* A text comes or goes with a unit, or stays. *)
LEMMA TextMoves ==
    ASSUME Conserved, NEW x \in Text, \A y \in Text \ {x} : TextIn(y)' <=> TextIn(y),
           \A p \in Proc : ImageIn(p)' <=> ImageIn(p),
           \/ (TextIn(x)' <=> TextIn(x)) /\ units' = units
           \/ ~TextIn(x) /\ TextIn(x)' /\ units >= 1 /\ units' = units - 1
           \/ TextIn(x) /\ ~TextIn(x)' /\ units' = units + 1
    PROVE  Conserved'
<1>1. ImagesIn' = ImagesIn
  BY DEF ImagesIn
<1>2. UnitsOf(ImagesIn)' = UnitsOf(ImagesIn)
  BY <1>1 DEF UnitsOf
<1>3. /\ IsFiniteSet(TextsIn) /\ Cardinality(TextsIn) \in Nat /\ units \in Nat
      /\ Cardinality(UnitsOf(ImagesIn)) \in Nat /\ Core \in Nat
      /\ units + Cardinality(TextsIn) + Cardinality(UnitsOf(ImagesIn)) = Core
  BY FiniteCore, CoreAssumption DEF TextsIn, Conserved
<1>4. \/ TextsIn' = TextsIn /\ units' = units
      \/ TextsIn' = TextsIn \cup {x} /\ x \notin TextsIn /\ units >= 1 /\ units' = units - 1
      \/ TextsIn' = TextsIn \ {x} /\ x \in TextsIn /\ units' = units + 1
  <2>1. TextIn(x) <=> x \in TextsIn
    BY DEF TextsIn
  <2>2. TextIn(x)' <=> x \in TextsIn'
    BY DEF TextsIn
  <2>3. TextsIn \subseteq Text /\ TextsIn' \subseteq Text
    BY DEF TextsIn
  <2>4. \A y \in Text \ {x} : y \in TextsIn' <=> y \in TextsIn
    BY DEF TextsIn
  <2> QED
    BY <2>1, <2>2, <2>3, <2>4
<1>5. CASE TextsIn' = TextsIn /\ units' = units
  BY <1>2, <1>3, <1>5 DEF Conserved
<1>6. CASE TextsIn' = TextsIn \cup {x} /\ x \notin TextsIn /\ units >= 1 /\ units' = units - 1
  <2>1. Cardinality(TextsIn') = Cardinality(TextsIn) + 1
    BY <1>3, <1>6, FS_AddElement
  <2> QED
    BY <1>2, <1>3, <1>6, <2>1 DEF Conserved
<1>7. CASE TextsIn' = TextsIn \ {x} /\ x \in TextsIn /\ units' = units + 1
  <2>1. Cardinality(TextsIn') = Cardinality(TextsIn) - 1
    BY <1>3, <1>7, FS_RemoveElement
  <2> QED
    BY <1>2, <1>3, <1>7, <2>1 DEF Conserved
<1> QED
  BY <1>4, <1>5, <1>6, <1>7

(* An image comes or goes with its units. *)
LEMMA ImageMoves ==
    ASSUME Conserved, NEW p \in Proc, \A q \in Proc \ {p} : ImageIn(q)' <=> ImageIn(q),
           \A x \in Text : TextIn(x)' <=> TextIn(x),
           \/ ~ImageIn(p) /\ ImageIn(p)' /\ units >= Img[p] /\ units' = units - Img[p]
           \/ ImageIn(p) /\ ~ImageIn(p)' /\ units' = units + Img[p]
    PROVE  Conserved'
<1>1. TextsIn' = TextsIn
  BY DEF TextsIn
<1>2. /\ Cardinality(TextsIn) \in Nat /\ units \in Nat /\ Core \in Nat /\ Img[p] \in Nat
      /\ Cardinality(UnitsOf(ImagesIn)) \in Nat /\ Cardinality(UnitsOf(ImagesIn')) \in Nat
      /\ units + Cardinality(TextsIn) + Cardinality(UnitsOf(ImagesIn)) = Core
  BY FiniteCore, CoreAssumption DEF TextsIn, Conserved
<1>3. UnitsOf(ImagesIn)' = UnitsOf(ImagesIn')
  BY DEF UnitsOf
<1>4. CASE ~ImageIn(p) /\ ImageIn(p)' /\ units >= Img[p] /\ units' = units - Img[p]
  <2>1. ImagesIn' = ImagesIn \cup {p} /\ p \notin ImagesIn
    BY <1>4 DEF ImagesIn
  <2>2. Cardinality(UnitsOf(ImagesIn')) = Cardinality(UnitsOf(ImagesIn)) + Img[p]
    BY <2>1, OneImage
  <2> QED
    BY <1>1, <1>2, <1>3, <1>4, <2>2 DEF Conserved
<1>5. CASE ImageIn(p) /\ ~ImageIn(p)' /\ units' = units + Img[p]
  <2>1. ImagesIn = ImagesIn' \cup {p} /\ p \notin ImagesIn'
    BY <1>5 DEF ImagesIn
  <2>2. Cardinality(UnitsOf(ImagesIn)) = Cardinality(UnitsOf(ImagesIn')) + Img[p]
    BY <2>1, OneImage
  <2> QED
    BY <1>1, <1>2, <1>3, <1>5, <2>2 DEF Conserved
<1> QED
  BY <1>4, <1>5

(* x_caddr tells the core of an entry that nobody has locked, and of one *)
(* that its holder is not about to get or lose core for.                *)
LEMMA UnheldText ==
    ASSUME IInv, NEW x \in Text, ~text[x].lock
    PROVE  TextIn(x) <=> text[x].caddr
<1>1. \A p \in Proc : Bare(p) => at[p].x \in Holds(p)
  BY DEF Bare, Holds, Place
<1>2. \A p \in Proc : ~(Bare(p) /\ at[p].x = x)
  BY <1>1, HeldLocked, Actors
<1>3. ~Given(x)
  <2> SUFFICES ASSUME Given(x) PROVE FALSE
    OBVIOUS
  <2>1. Its(Sched) = x /\ x # NoText
    BY Actors DEF Given, IInv, Shape, SchedControl
  <2> QED
    BY <2>1, HeldEntries, HeldLocked, Actors DEF Given
<1> QED
  BY <1>2, <1>3 DEF TextIn

LEMMA HeldText ==
    ASSUME IInv, NEW a \in Actor, NEW x \in Text, x \in Holds(a),
           ~(a \in Proc /\ Bare(a) /\ at[a].x = x), ~(a = Sched /\ Given(x))
    PROVE  TextIn(x) <=> text[x].caddr
<1>1. ASSUME NEW p \in Proc, Bare(p), at[p].x = x PROVE FALSE
  <2>1. x \in Holds(p) /\ p \in Actor
    BY <1>1, Actors DEF Bare, Holds, Place
  <2>2. p = a
    BY <2>1 DEF IInv, Locked
  <2> QED
    BY <1>1, <2>2
<1>2. ~Given(x)
  <2> SUFFICES ASSUME Given(x) PROVE FALSE
    OBVIOUS
  <2>1. Its(Sched) = x /\ x # NoText
    BY Actors DEF Given, IInv, Shape, SchedControl
  <2>2. x \in Holds(Sched)
    BY <2>1, HeldEntries, Actors DEF Given
  <2>3. a = Sched
    BY <2>2, Actors DEF IInv, Locked
  <2> QED
    BY <2>3
<1> QED
  BY <1>1, <1>2 DEF TextIn

(* A text whose core a leaves alone. *)
LEMMA TextStays ==
    ASSUME NEW a \in Actor, Leaves(a), NEW x \in Text, text'[x].caddr = text[x].caddr,
           a \in Proc => ((Bare(a) /\ at[a].x = x)' <=> Bare(a) /\ at[a].x = x),
           a = Sched => (Given(x)' <=> Given(x))
    PROVE  TextIn(x)' <=> TextIn(x)
<1>1. \A p \in Proc \ {a} : (Bare(p) /\ at[p].x = x)' <=> Bare(p) /\ at[p].x = x
  BY Actors DEF Leaves, Bare
<1>2. (\E p \in Proc : Bare(p) /\ at[p].x = x)' <=> \E p \in Proc : Bare(p) /\ at[p].x = x
  BY <1>1
<1>3. Given(x)' <=> Given(x)
  BY Actors DEF Leaves, Given
<1> QED
  BY <1>2, <1>3 DEF TextIn

(* No step of a process but swapout moves an image. *)
LEMMA ImagesStay ==
    ASSUME NEW p \in Proc, Steps(p), proc'[p].loaded = proc[p].loaded
    PROVE  \A q \in Proc : ImageIn(q)' <=> ImageIn(q)
BY Actors DEF Steps, ImageIn

LEMMA SameCore ==
    ASSUME Conserved, \A x \in Text : TextIn(x)' <=> TextIn(x), \A p \in Proc : ImageIn(p)' <=> ImageIn(p),
           units' = units
    PROVE  Conserved'
<1>1. TextsIn' = TextsIn /\ ImagesIn' = ImagesIn
  BY DEF TextsIn, ImagesIn
<1> QED
  BY <1>1 DEF Conserved, UnitsOf

(* What core x has, for a who has x locked or finds it unlocked. *)
Sees(a, x) == \/ text[x].caddr /\ ~(a \in Proc /\ Bare(a) /\ at[a].x = x)
              \/ a = Sched /\ Given(x)

LEMMA SeesText ==
    ASSUME IInv, NEW a \in Actor, NEW x \in Text, Leaves(a), x \in Holds(a) \/ ~text[x].lock
    PROVE  (TextIn(x) <=> Sees(a, x)) /\ (TextIn(x)' <=> Sees(a, x)')
<1>1. ASSUME NEW b \in Actor, b # a PROVE x \notin Holds(b)
  BY <1>1 DEF IInv, Locked
<1>2. ASSUME NEW p \in Proc, p # a PROVE ~(Bare(p) /\ at[p].x = x)
  BY <1>1, <1>2, Actors DEF Bare, Holds, Place
<1>3. ASSUME Sched # a PROVE ~Given(x)
  <2> SUFFICES ASSUME Given(x) PROVE FALSE
    OBVIOUS
  <2>1. Its(Sched) = x /\ x # NoText
    BY Actors DEF Given, IInv, Shape, SchedControl
  <2> QED
    BY <1>1, <1>3, <2>1, HeldEntries, Actors DEF Given
<1>4. /\ \A p \in Proc \ {a} : (Bare(p) /\ at[p].x = x)' <=> Bare(p) /\ at[p].x = x
      /\ Sched # a => (Given(x)' <=> Given(x))
  BY Actors DEF Leaves, Bare, Given
<1> QED
  BY <1>2, <1>3, <1>4 DEF TextIn, Sees

(* A step of a that gets or gives up the core of x, or neither. *)
LEMMA CoreStep ==
    ASSUME IInv, Conserved, NEW a \in Actor, NEW x \in Text, Leaves(a), x \in Holds(a) \/ ~text[x].lock,
           \A y \in Text \ {x} :
              /\ text'[y].caddr = text[y].caddr
              /\ a \in Proc => ((Bare(a) /\ at[a].x = y)' <=> Bare(a) /\ at[a].x = y)
              /\ a = Sched => (Given(y)' <=> Given(y)),
           \A p \in Proc : ImageIn(p)' <=> ImageIn(p),
           \/ (Sees(a, x)' <=> Sees(a, x)) /\ units' = units
           \/ ~Sees(a, x) /\ Sees(a, x)' /\ units >= 1 /\ units' = units - 1
           \/ Sees(a, x) /\ ~Sees(a, x)' /\ units' = units + 1
    PROVE  Conserved'
<1>1. \A y \in Text \ {x} : TextIn(y)' <=> TextIn(y)
  BY TextStays
<1>2. (TextIn(x) <=> Sees(a, x)) /\ (TextIn(x)' <=> Sees(a, x)')
  BY SeesText
<1>3. \/ (TextIn(x)' <=> TextIn(x)) /\ units' = units
      \/ ~TextIn(x) /\ TextIn(x)' /\ units >= 1 /\ units' = units - 1
      \/ TextIn(x) /\ ~TextIn(x)' /\ units' = units + 1
  BY <1>2
<1> QED
  BY <1>1, <1>3, TextMoves

(* A step of a that gets no core and gives up none. *)
LEMMA CoreStill ==
    ASSUME Conserved, NEW a \in Actor, Leaves(a), units' = units,
           \A y \in Text :
              /\ text'[y].caddr = text[y].caddr
              /\ a \in Proc => ((Bare(a) /\ at[a].x = y)' <=> Bare(a) /\ at[a].x = y)
              /\ a = Sched => (Given(y)' <=> Given(y)),
           \A p \in Proc : ImageIn(p)' <=> ImageIn(p)
    PROVE  Conserved'
<1>1. \A y \in Text : TextIn(y)' <=> TextIn(y)
  BY TextStays
<1> QED
  BY <1>1, SameCore

(* The same of a process that neither has a text without core nor gets one. *)
LEMMA PlainStill ==
    ASSUME IInv, Conserved, NEW p \in Proc, Steps(p), units' = units, proc'[p].loaded = proc[p].loaded,
           \A y \in Text : text'[y].caddr = text[y].caddr,
           ~Bare(p), ~Bare(p)'
    PROVE  Conserved'
<1>1. Leaves(p) /\ p \in Actor /\ p # Sched
  BY LeavesProc, Actors
<1>2. \A q \in Proc : ImageIn(q)' <=> ImageIn(q)
  BY ImagesStay
<1> QED
  BY <1>1, <1>2, CoreStill

LEMMA QuietCore ==
    ASSUME IInv, Conserved, NEW p \in Proc,
           (\E f \in Execs[p] : Exec(p, f)) \/ Grow(p) \/ Expand(p) \/ Xwaited(p) \/ Readi(p) \/ Xfree(p)
    PROVE  Conserved'
<1>1. Shape /\ ControlOf(p) /\ p \in Actor
  BY ShapeOf DEF IInv
<1>2. CASE \E f \in Execs[p] : Exec(p, f)
  <2>1. PICK f \in Execs[p] : Steps(p) /\ DidExec(p, f)
    BY <1>1, <1>2, ExecShape
  <2>2. ~Bare(p) /\ ~Bare(p)' /\ proc'[p].loaded = proc[p].loaded /\ text' = text /\ units' = units
    BY <2>1 DEF DidExec, Runs, Goes, ProcIs, Bare, Place
  <2> QED
    BY <2>1, <2>2, PlainStill
<1>3. CASE Grow(p)
  <2>1. Steps(p) /\ DidGrow(p)
    BY <1>1, <1>3, GrowShape
  <2>2. ~Bare(p) /\ ~Bare(p)' /\ proc' = proc /\ text' = text /\ units' = units
    BY <2>1 DEF DidGrow, Runs, Moves, Goes, Rest, Bare, Place
  <2> QED
    BY <2>1, <2>2, PlainStill
<1>4. CASE Expand(p)
  <2>1. Steps(p) /\ DidExpand(p)
    BY <1>1, <1>4, ExpandShape
  <2>2. at[p].pc = "expand" /\ text' = text /\ units' = units
    BY <2>1 DEF DidExpand, Runs, Rest
  <2>3. \/ at'[p].pc \in {"user", "xalloc", "swapout"}
        \/ at'[p].pc = "xuncore" /\ at'[p].ret = "expand"
    BY <2>1 DEF DidExpand, Moves, Goes
  <2>4. proc'[p].loaded = proc[p].loaded
    BY <2>1 DEF DidExpand, ProcIs, Rest, Steps
  <2>5. ~Bare(p) /\ ~Bare(p)'
    BY <2>2, <2>3 DEF Bare, Place
  <2> QED
    BY <2>1, <2>2, <2>4, <2>5, PlainStill
<1>5. CASE Xwaited(p)
  <2>1. Steps(p) /\ DidXwaited(p)
    BY <1>1, <1>5, XwaitedShape
  <2>2. ~Bare(p) /\ ~Bare(p)' /\ proc' = proc /\ text' = text /\ units' = units
    BY <2>1 DEF DidXwaited, Gets, Runs, Goes, Rest, Bare, Place
  <2> QED
    BY <2>1, <2>2, PlainStill
<1>6. CASE Readi(p)
  <2>1. Steps(p) /\ DidReadi(p)
    BY <1>1, <1>6, ReadiShape
  <2>2. ~Bare(p) /\ ~Bare(p)' /\ proc'[p].loaded = proc[p].loaded /\ text' = text /\ units' = units
    BY <2>1 DEF DidReadi, Runs, Moves, Goes, ProcIs, Bare, Place
  <2> QED
    BY <2>1, <2>2, PlainStill
<1>7. CASE Xfree(p)
  <2>1. Steps(p) /\ DidXfree(p)
    BY <1>1, <1>7, XfreeShape
  <2>2. ~Bare(p) /\ ~Bare(p)' /\ proc'[p].loaded = proc[p].loaded /\ units' = units
    BY <2>1 DEF DidXfree, Gets, Runs, Moves, Goes, ProcIs, Bare, Place
  <2>3. \A y \in Text : text'[y].caddr = text[y].caddr
    BY <2>1 DEF DidXfree, EntryIs
  <2> QED
    BY <2>1, <2>2, <2>3, PlainStill
<1> QED
  BY <1>2, <1>3, <1>4, <1>5, <1>6, <1>7

LEMMA ReadCore ==
    ASSUME IInv, Conserved, NEW p \in Proc, Xread(p) \/ ReadIn(p) \/ UnlockAgain(p)
    PROVE  Conserved'
<1>1. Shape /\ p \in Actor
  BY ShapeOf DEF IInv
<1>2. CASE Xread(p)
  <2>1. Steps(p) /\ DidXread(p) /\ ControlOf(p)
    BY <1>1, <1>2, XreadShape, ShapeOf
  <2>2. at[p].pc = "xread" /\ at[p].after \in {"again", "readi"} /\ units' = units /\ proc' = proc
    BY <2>1 DEF DidXread, Runs, ControlOf, Place
  <2>3. ~Bare(p) /\ ~Bare(p)'
    BY <2>1, <2>2 DEF DidXread, Moves, Goes, Bare, Place
  <2>4. \A y \in Text : text'[y].caddr = text[y].caddr
    BY <2>1 DEF DidXread, EntryIs
  <2> QED
    BY <2>1, <2>2, <2>3, <2>4, PlainStill
<1>3. CASE ReadIn(p)
  <2>1. Steps(p) /\ DidReadIn(p)
    BY <1>1, <1>3, ReadInShape
  <2>2. ~Bare(p) /\ ~Bare(p)' /\ proc'[p].loaded = proc[p].loaded /\ units' = units
    BY <2>1 DEF DidReadIn, Runs, Goes, ProcIs, Bare, Place
  <2>3. \A y \in Text : text'[y].caddr = text[y].caddr
    BY <2>1 DEF DidReadIn, EntryIs
  <2> QED
    BY <2>1, <2>2, <2>3, PlainStill
<1>4. CASE UnlockAgain(p)
  <2>1. Steps(p) /\ DidUnlockAgain(p)
    BY <1>1, <1>4, UnlockAgainShape
  <2>2. ~Bare(p) /\ ~Bare(p)' /\ proc' = proc /\ units' = units
    BY <2>1 DEF DidUnlockAgain, Runs, Goes, Bare, Place
  <2>3. \A y \in Text : text'[y].caddr = text[y].caddr
    BY <2>1 DEF DidUnlockAgain, EntryIs
  <2> QED
    BY <2>1, <2>2, <2>3, PlainStill
<1> QED
  BY <1>2, <1>3, <1>4

(* A step of p with the entry x alone. *)
LEMMA ProcCore ==
    ASSUME IInv, Conserved, NEW p \in Proc, Steps(p), NEW x \in Text, proc'[p].loaded = proc[p].loaded,
           x \in Holds(p) \/ ~text[x].lock, \A y \in Text \ {x} : text'[y] = text[y],
           Bare(p) => at[p].x = x, Bare(p)' => at'[p].x = x,
           LET had == text[x].caddr /\ ~Bare(p)
               has == text'[x].caddr /\ ~Bare(p)' IN
           \/ (has <=> had) /\ units' = units
           \/ ~had /\ has /\ units >= 1 /\ units' = units - 1
           \/ had /\ ~has /\ units' = units + 1
    PROVE  Conserved'
<1>1. Leaves(p) /\ p \in Actor /\ p # Sched
  BY LeavesProc, Actors
<1>2. \A q \in Proc : ImageIn(q)' <=> ImageIn(q)
  BY ImagesStay
<1>3. \A y \in Text \ {x} : text'[y].caddr = text[y].caddr /\ ((Bare(p) /\ at[p].x = y)' <=> Bare(p) /\ at[p].x = y)
  OBVIOUS
<1>4. (Sees(p, x) <=> text[x].caddr /\ ~Bare(p)) /\ (Sees(p, x)' <=> text'[x].caddr /\ ~Bare(p)')
  BY <1>1 DEF Sees
<1>5. \/ (Sees(p, x)' <=> Sees(p, x)) /\ units' = units
      \/ ~Sees(p, x) /\ Sees(p, x)' /\ units >= 1 /\ units' = units - 1
      \/ Sees(p, x) /\ ~Sees(p, x)' /\ units' = units + 1
  BY <1>4
<1> QED
  BY <1>1, <1>2, <1>3, <1>5, CoreStep

LEMMA AttachCore ==
    ASSUME IInv, Contents, Conserved, NEW p \in Proc, Attach(p)
    PROVE  Conserved'
<1>1. Shape /\ Steps(p) /\ DidAttach(p) /\ p \in Actor
  BY AttachShape, ShapeOf DEF IInv
<1>2. at[p].pc = "xalloc" /\ units' = units /\ ~Bare(p)
  BY <1>1 DEF DidAttach, Runs, Bare, Place
<1>3. proc'[p].loaded = proc[p].loaded
  BY <1>1 DEF DidAttach, ProcIs
<1>4. CASE text' = text /\ at'[p].pc \in {"user", "xwait"}
  <2>1. ~Bare(p)'
    BY <1>4 DEF Bare, Place
  <2> QED
    BY <1>1, <1>2, <1>3, <1>4, <2>1, PlainStill
<1>5. ASSUME NEW x \in Text, text[x].lock = FALSE, text[x].caddr = FALSE,
             EntryIs(x, text[x].iptr, text[x].count + 1, text[x].ccount, TRUE,
                     text[x].writ, text[x].load, text[x].caddr, text[x].core, text[x].swap),
             Goes(p, "xexpand", x, at[p].xp, at[p].ret, "again")
      PROVE  Conserved'
  <2>1. text'[x].caddr = FALSE /\ at'[p].x = x /\ \A y \in Text \ {x} : text'[y] = text[y]
    BY <1>5 DEF EntryIs, Goes
  <2> QED
    BY <1>1, <1>2, <1>3, <1>5, <2>1, ProcCore
<1>6. ASSUME NEW x \in Text, text[x].lock = FALSE,
             EntryIs(x, text[x].iptr, text[x].count + 1, text[x].ccount + 1, text[x].lock,
                     text[x].writ, text[x].load, text[x].caddr, text[x].core, text[x].swap),
             Goes(p, "user", NoText, NoText, "user", "user")
      PROVE  Conserved'
  <2>1. ~Bare(p)' /\ \A y \in Text : text'[y].caddr = text[y].caddr
    BY <1>6 DEF EntryIs, Goes, Bare, Place
  <2> QED
    BY <1>1, <1>2, <1>3, <2>1, PlainStill
<1> QED
  BY ZenonT(60), <1>1, <1>4, <1>5, <1>6 DEF DidAttach, Goes

LEMMA AllotCore ==
    ASSUME IInv, Conserved, NEW p \in Proc, Allot(p)
    PROVE  Conserved'
<1>1. Shape /\ Steps(p) /\ DidAllot(p) /\ p \in Actor
  BY AllotShape, ShapeOf DEF IInv
<1>2. at[p].pc = "xalloc" /\ units' = units /\ ~Bare(p)
  BY <1>1 DEF DidAllot, Runs, Bare, Place
<1>3. proc'[p].loaded = proc[p].loaded
  BY <1>1 DEF DidAllot, ProcIs, Takes
<1>4. CASE text' = text /\ at'[p].pc \in {"user", "xuntext"}
  <2>1. ~Bare(p)'
    BY <1>4 DEF Bare, Place
  <2> QED
    BY <1>1, <1>2, <1>3, <1>4, <2>1, PlainStill
<1>5. CASE /\ free # <<>> /\ Head(free) \in Text /\ text[Head(free)].iptr = NoFile
           /\ Takes(p, Head(free), proc[p].prog)
  <2>1. Head(free) \in ToSet(free)
    BY <1>5, FreeTypes DEF IInv, Shape, Typed
  <2> PICK x \in Text : x = Head(free)
    BY <1>5
  <2>2. ~text[x].lock /\ text[x].iptr = NoFile
    BY <1>5, <2>1, UnusedUnlocked
  <2>3. ~text[x].caddr
    BY <2>2 DEF IInv, Unnamed
  <2>4. /\ text'[x].caddr = text[x].caddr /\ at'[p].x = x
        /\ \A y \in Text \ {x} : text'[y] = text[y]
    BY <1>5 DEF Takes, EntryIs, Goes
  <2> QED
    BY <1>1, <1>2, <1>3, <2>2, <2>3, <2>4, ProcCore
<1> QED
  BY <1>1, <1>4, <1>5 DEF DidAllot, Goes

LEMMA XuntextCore ==
    ASSUME IInv, Conserved, NEW p \in Proc, Xuntext(p), ~ReusedInUse
    PROVE  Conserved'
<1>1. Shape /\ Steps(p) /\ DidXuntext(p) /\ p \in Actor
  BY XuntextShape, ShapeOf DEF IInv
<1>2. at[p].pc = "xuntext" /\ at[p].x \in Text /\ text[at[p].x].count = 0 /\ ~Bare(p)
  BY <1>1 DEF DidXuntext, Gets, Runs, ReusedInUse, Bare, Place
<1> PICK x \in Text : x = at[p].x
  BY <1>2
<1>3. /\ EntryIs(x, NoFile, text[x].count, text[x].ccount, TRUE, text[x].writ,
                 text[x].load, text[x].caddr, NoFile, NoFile)
      /\ Moves(p, "irele") /\ units' = IF text[x].caddr THEN units + 1 ELSE units
      /\ proc' = proc
  BY <1>1, <1>2 DEF DidXuntext
<1>4. ~text[x].lock
  BY <1>1, <1>2, Actors DEF DidXuntext, Gets, Wants
<1>5. /\ text'[x].caddr = text[x].caddr /\ \A y \in Text \ {x} : text'[y] = text[y]
      /\ Bare(p)' /\ at'[p].x = x
  BY <1>3 DEF EntryIs, Moves, Goes, Bare
<1>6. \/ ~text[x].caddr /\ units' = units
      \/ text[x].caddr /\ units' = units + 1
  BY <1>3
<1> QED
  BY <1>1, <1>2, <1>3, <1>4, <1>5, <1>6, ProcCore

LEMMA XuntextedCore ==
    ASSUME IInv, Conserved, NEW p \in Proc, Xuntexted(p)
    PROVE  Conserved'
<1>1. Shape /\ Steps(p) /\ DidXuntexted(p) /\ p \in Actor
  BY XuntextedShape, ShapeOf DEF IInv
<1> PICK x \in Text : x = at[p].x
  BY <1>1 DEF DidXuntexted
<1>2. /\ at[p].pc = "irele" /\ x \in Holds(p) /\ Bare(p) /\ units' = units
      /\ Takes(p, x, proc[p].prog)
  BY <1>1 DEF DidXuntexted, Runs, Holds, Place, Bare
<1>3. /\ \A y \in Text \ {x} : text'[y] = text[y]
      /\ Bare(p)' /\ at'[p].x = x /\ proc'[p].loaded = proc[p].loaded
  BY SMTT(30), <1>2 DEF Takes, EntryIs, ProcIs, Goes, Bare, Place
<1> QED
  BY <1>1, <1>2, <1>3, ProcCore

LEMMA XexpandCore ==
    ASSUME IInv, Conserved, NEW p \in Proc, Xexpand(p)
    PROVE  Conserved'
<1>1. Shape /\ Steps(p) /\ DidXexpand(p) /\ ControlOf(p) /\ p \in Actor
  BY XexpandShape, ShapeOf DEF IInv
<1>2. at[p].pc = "xexpand" /\ at[p].after \in {"again", "readi"} /\ at[p].x \in Holds(p) /\ Bare(p)
  BY <1>1 DEF DidXexpand, Runs, ControlOf, Place, Holds, Bare
<1> PICK x \in Text : x = at[p].x
  BY <1>1 DEF DidXexpand
<1>3. proc'[p].loaded = proc[p].loaded
  BY <1>1 DEF DidXexpand, ProcIs, Rest, Steps
<1>4. ASSUME NEW m, NEW k, units >= 1, units' = units - 1,
             EntryIs(x, text[x].iptr, text[x].count, m, k,
                     text[x].writ, text[x].load, TRUE, text[x].core, text[x].swap),
             Moves(p, at[p].after) \/ Moves(p, "xread")
      PROVE  Conserved'
  <2>1. /\ text'[x].caddr = TRUE /\ \A y \in Text \ {x} : text'[y] = text[y]
        /\ ~Bare(p)'
    BY <1>2, <1>4 DEF EntryIs, Moves, Goes, Bare, Place
  <2> QED
    BY <1>1, <1>2, <1>3, <1>4, <2>1, ProcCore
<1>5. CASE (\E xp : Goes(p, "xuncore", x, xp, "xexpand", at[p].after)) /\ UNCHANGED Rest
  <2>1. Bare(p)' /\ at'[p].x = x /\ text' = text /\ units' = units
    BY <1>5 DEF Goes, Place, Bare, Rest
  <2> QED
    BY <1>1, <1>2, <1>3, <2>1, ProcCore
<1>6. CASE /\ EntryIs(x, text[x].iptr, text[x].count, text[x].ccount, text[x].lock,
                      text[x].writ, text[x].load, FALSE, text[x].core, text[x].swap)
           /\ Moves(p, "swapout") /\ units' = units
  <2>1. /\ text'[x].caddr = FALSE /\ ~Bare(p)' /\ \A y \in Text \ {x} : text'[y] = text[y]
    BY <1>6 DEF EntryIs, Moves, Goes, Bare, Place
  <2> QED
    BY <1>1, <1>2, <1>3, <1>6, <2>1, ProcCore
<1> QED
  BY <1>1, <1>4, <1>5, <1>6 DEF DidXexpand

(* xuncore moves no image, and no text that its caller knows of. *)
LEMMA UncoreCore ==
    ASSUME IInv, NEW a \in Actor, at[a].pc \in Inner, proc' = proc, sp' = sp,
           LooksOn(a) \/ Resumes(a) \/ Moves(a, "xcore") \/ Moves(a, "unwrite")
    PROVE  /\ \A q \in Proc : ImageIn(q)' <=> ImageIn(q)
           /\ \A y \in Text :
                 /\ a \in Proc => ((Bare(a) /\ at[a].x = y)' <=> Bare(a) /\ at[a].x = y)
                 /\ a = Sched => (Given(y)' <=> Given(y))
           /\ \A y \in Text : /\ Bare(a) /\ at[a].x = y => y \in Keeps(a)
                              /\ a = Sched /\ Given(y) => y \in Keeps(a)
<1>1. /\ Place(a)' = Place(a) /\ at'[a].x = at[a].x
      /\ at'[a].pc \in Inner \cup {"expand", "xexpand", "intext", "inimage"}
      /\ \A b \in Actor \ {a} : at'[b] = at[b]
  BY UncoreKeeps
<1>2. at[Sched].pc \in {"inread", "inload"} \cup Out <=> at'[Sched].pc \in {"inread", "inload"} \cup Out
  <2>1. CASE a = Sched
    BY <1>1, <2>1 DEF Inner, Out
  <2>2. CASE a # Sched
    BY <1>1, <2>2, Actors
  <2> QED
    BY <2>1, <2>2
<1>3. \A q \in Proc : ImageIn(q)' <=> ImageIn(q)
  BY <1>2 DEF ImageIn
<1>4. Bare(a)' <=> Bare(a)
  BY <1>1 DEF Bare, Inner
<1>5. a = Sched => \A y \in Text : Given(y)' <=> Given(y)
  BY <1>1 DEF Given
<1>6. \A y \in Text : /\ Bare(a) /\ at[a].x = y => y \in Keeps(a)
                      /\ a = Sched /\ Given(y) => y \in Keeps(a)
  <2>1. SchedControl
    BY DEF IInv, Shape
  <2> QED
    BY <2>1, Actors DEF Bare, Given, Keeps, Place, SchedControl
<1> QED
  BY <1>1, <1>3, <1>4, <1>5, <1>6

LEMMA XuncoreCore ==
    ASSUME IInv, Conserved, NEW a \in Actor, Xuncore(a)
    PROVE  Conserved'
<1>1. DidXuncore(a) /\ (a \in Proc => Steps(a)) /\ (a = Sched => SchedSteps) /\ Leaves(a)
  BY XuncoreShape, LeavesActor DEF IInv
<1>2. at[a].pc \in Inner /\ UNCHANGED Rest /\ (LooksOn(a) \/ Resumes(a) \/ Moves(a, "xcore"))
  BY <1>1 DEF DidXuncore, Runs, Inner
<1>3. proc' = proc /\ sp' = sp /\ text' = text /\ units' = units
  BY <1>2 DEF Rest
<1> QED
  BY <1>1, <1>2, <1>3, UncoreCore, CoreStill

(* xuncore, or swapout, frees the core of x. *)
LEMMA FreesCore ==
    ASSUME IInv, Conserved, NEW a \in Actor, NEW x \in Text, Leaves(a), x \in Holds(a) \/ ~text[x].lock,
           \A q \in Proc : ImageIn(q)' <=> ImageIn(q),
           \A y \in Text :
                 /\ a \in Proc => ((Bare(a) /\ at[a].x = y)' <=> Bare(a) /\ at[a].x = y)
                 /\ a = Sched => (Given(y)' <=> Given(y)),
           a \in Proc => ~(Bare(a) /\ at[a].x = x),
           a = Sched => ~Given(x),
           text[x].caddr, ~text'[x].caddr, \A y \in Text \ {x} : text'[y] = text[y],
           units' = units + 1
    PROVE  Conserved'
<1>1. Sees(a, x) /\ ~Sees(a, x)'
  BY DEF Sees
<1> QED
  BY <1>1, CoreStep

LEMMA XcoreCore ==
    ASSUME IInv, Conserved, NEW a \in Actor, Xcore(a)
    PROVE  Conserved'
<1>1. DidXcore(a) /\ (a \in Proc => Steps(a)) /\ (a = Sched => SchedSteps) /\ Leaves(a)
  BY XcoreShape, LeavesActor DEF IInv
<1> PICK x \in Text : x = at[a].xp
  BY <1>1 DEF DidXcore
<1>2. /\ UNCHANGED <<free, itext, proc, sp>> /\ at[a].pc = "xcore" /\ at[a].pc \in Inner
  BY <1>1 DEF DidXcore, Gets, Runs, Inner
<1>3. ~text[x].lock
  BY <1>1, <1>2, Actors DEF DidXcore, Gets, Wants
<1>4. x \notin Keeps(a)
  BY <1>3, HeldLocked, HoldsKeeps DEF IInv
<1>5. CASE LooksOn(a) /\ UNCHANGED <<text, units>>
  BY <1>1, <1>2, <1>5, UncoreCore, CoreStill
<1>6. CASE /\ EntryIs(x, text[x].iptr, text[x].count, text[x].ccount, TRUE, text[x].writ,
                      text[x].load, text[x].caddr, text[x].core, text[x].swap)
           /\ Moves(a, "unwrite") /\ UNCHANGED units
  <2>1. \A y \in Text : text'[y].caddr = text[y].caddr
    BY <1>6 DEF EntryIs
  <2> QED
    BY <1>1, <1>2, <1>6, <2>1, UncoreCore, CoreStill
<1>7. CASE /\ text[x].caddr = TRUE /\ units' = units + 1
           /\ EntryIs(x, text[x].iptr, text[x].count, text[x].ccount, text[x].lock,
                      text[x].writ, text[x].load, FALSE, NoFile, text[x].swap)
           /\ LooksOn(a) \/ Resumes(a)
  <2>1. ~text'[x].caddr /\ \A y \in Text \ {x} : text'[y] = text[y]
    BY <1>7 DEF EntryIs
  <2>2. /\ \A q \in Proc : ImageIn(q)' <=> ImageIn(q)
        /\ \A y \in Text :
              /\ a \in Proc => ((Bare(a) /\ at[a].x = y)' <=> Bare(a) /\ at[a].x = y)
              /\ a = Sched => (Given(y)' <=> Given(y))
        /\ ~(Bare(a) /\ at[a].x = x) /\ ~(a = Sched /\ Given(x))
    BY <1>2, <1>4, <1>7, UncoreCore
  <2> QED
    BY <1>1, <1>3, <1>7, <2>1, <2>2, FreesCore
<1> QED
  BY <1>1, <1>5, <1>6, <1>7 DEF DidXcore

LEMMA UnwrittenCore ==
    ASSUME IInv, Contents, Conserved, NEW a \in Actor, Unwritten(a)
    PROVE  Conserved'
<1>1. DidUnwritten(a) /\ (a \in Proc => Steps(a)) /\ (a = Sched => SchedSteps) /\ Leaves(a)
  BY UnwrittenShape, LeavesActor DEF IInv
<1> PICK x \in Text : x = at[a].xp
  BY <1>1 DEF DidUnwritten
<1>2. /\ UNCHANGED <<free, itext, proc, sp>> /\ at[a].pc = "unwrite" /\ at[a].pc \in Inner
      /\ (LooksOn(a) \/ Resumes(a)) /\ units' = units + 1
      /\ EntryIs(x, text[x].iptr, text[x].count, text[x].ccount, FALSE, FALSE,
                 text[x].load, FALSE, NoFile, text[x].core)
  BY <1>1 DEF DidUnwritten, Runs, Inner
<1>3. Mine(a) /\ HasContent(a)
  BY DEF IInv, Contents
<1>4. text[x].caddr /\ x \notin Keeps(a) /\ x \in Holds(a)
  BY <1>2, <1>3, HeldEntries DEF Mine, HasContent
<1>5. ~text'[x].caddr /\ \A y \in Text \ {x} : text'[y] = text[y]
  BY <1>2 DEF EntryIs
<1>6. /\ \A q \in Proc : ImageIn(q)' <=> ImageIn(q)
      /\ \A y \in Text :
            /\ a \in Proc => ((Bare(a) /\ at[a].x = y)' <=> Bare(a) /\ at[a].x = y)
            /\ a = Sched => (Given(y)' <=> Given(y))
      /\ ~(Bare(a) /\ at[a].x = x) /\ ~(a = Sched /\ Given(x))
  BY <1>2, <1>4, UncoreCore
<1> QED
  BY <1>1, <1>2, <1>4, <1>5, <1>6, FreesCore

(* Before its end, swapout moves no image and knows of no text. *)
LEMMA OutCore ==
    ASSUME NEW a \in Actor, at[a].pc \in Out, proc' = proc, sp' = sp, NEW l \in Out, Moves(a, l)
    PROVE  /\ \A q \in Proc : ImageIn(q)' <=> ImageIn(q)
           /\ ~Bare(a) /\ ~Bare(a)'
           /\ a = Sched => \A y : ~Given(y) /\ ~Given(y)'
<1>1. at'[a].pc = l /\ \A b \in Actor \ {a} : at'[b] = at[b]
  BY DEF Moves, Goes
<1>2. at[Sched].pc \in {"inread", "inload"} \cup Out <=> at'[Sched].pc \in {"inread", "inload"} \cup Out
  BY <1>1, Actors
<1>3. \A q \in Proc : ImageIn(q)' <=> ImageIn(q)
  BY <1>2 DEF ImageIn
<1>4. ~Bare(a) /\ ~Bare(a)'
  BY <1>1 DEF Bare, Place, Out
<1>5. a = Sched => \A y : ~Given(y) /\ ~Given(y)'
  BY <1>1 DEF Given, Place, Out
<1> QED
  BY <1>3, <1>4, <1>5

LEMMA SwapoutCore ==
    ASSUME IInv, Conserved, NEW a \in Actor, Swapout(a)
    PROVE  Conserved'
<1>1. DidSwapout(a) /\ (a \in Proc => Steps(a)) /\ (a = Sched => SchedSteps) /\ Leaves(a)
  BY SwapoutShape, LeavesActor DEF IInv
<1>2. /\ at[a].pc \in Out /\ proc' = proc /\ sp' = sp /\ text' = text /\ units' = units
      /\ Moves(a, "image") \/ Moves(a, "xccdec")
  BY <1>1 DEF DidSwapout, Runs, Rest, Out
<1>3. /\ \A q \in Proc : ImageIn(q)' <=> ImageIn(q)
      /\ ~Bare(a) /\ ~Bare(a)'
      /\ a = Sched => \A y : ~Given(y) /\ ~Given(y)'
  BY <1>2, OutCore DEF Out
<1> QED
  BY <1>1, <1>2, <1>3, CoreStill

LEMMA XccdecCore ==
    ASSUME IInv, Contents, Conserved, NEW a \in Actor, Xccdec(a)
    PROVE  Conserved'
<1>1. DidXccdec(a) /\ (a \in Proc => Steps(a)) /\ (a = Sched => SchedSteps) /\ Leaves(a)
  BY XccdecShape, LeavesActor DEF IInv
<1> PICK x \in Text : x = Its(a)
  BY <1>1 DEF DidXccdec
<1>2. /\ proc' = proc /\ sp' = sp /\ at[a].pc = "xccdec" /\ at[a].pc \in Out
      /\ Moves(a, "image") \/ Moves(a, "outwrite")
  BY <1>1 DEF DidXccdec, Gets, Runs, Out
<1>3. ~text[x].lock
  BY <1>1, <1>2, Actors DEF DidXccdec, Gets, Wants
<1>4. /\ \A q \in Proc : ImageIn(q)' <=> ImageIn(q)
      /\ ~Bare(a) /\ ~Bare(a)'
      /\ a = Sched => \A y : ~Given(y) /\ ~Given(y)'
  BY <1>2, OutCore DEF Out
<1>5. CASE (\A y \in Text : text'[y].caddr = text[y].caddr) /\ units' = units
  BY <1>1, <1>4, <1>5, CoreStill
<1>6. CASE /\ text[x].ccount = 1 /\ units' = units + 1
           /\ EntryIs(x, text[x].iptr, text[x].count, 0, text[x].lock, text[x].writ,
                      text[x].load, FALSE, NoFile, text[x].swap)
  <2>1. ~text'[x].caddr /\ \A y \in Text \ {x} : text'[y] = text[y]
    BY <1>6 DEF EntryIs
  <2>2. text[x].caddr
    BY <1>6, ContentsOf
  <2> QED
    BY <1>1, <1>3, <1>4, <1>6, <2>1, <2>2, FreesCore
<1> QED
  BY <1>1, <1>5, <1>6 DEF DidXccdec, EntryIs

LEMMA TextOutCore ==
    ASSUME IInv, Contents, Conserved, NEW a \in Actor, TextOut(a)
    PROVE  Conserved'
<1>1. DidTextOut(a) /\ (a \in Proc => Steps(a)) /\ (a = Sched => SchedSteps) /\ Leaves(a)
  BY TextOutShape, LeavesActor DEF IInv
<1> PICK x \in Text : x = Its(a)
  BY <1>1 DEF DidTextOut
<1>2. /\ at[a].pc = "outwrite" /\ at[a].pc \in Out /\ Moves(a, "image") /\ proc' = proc /\ sp' = sp
      /\ units' = units + 1
      /\ EntryIs(x, text[x].iptr, text[x].count, text[x].ccount, FALSE, FALSE,
                 text[x].load, FALSE, NoFile, text[x].core)
  BY <1>1 DEF DidTextOut, Runs, Out
<1>3. HasContent(a)
  BY DEF Contents
<1>4. text[x].caddr /\ x \in Holds(a)
  BY <1>2, <1>3, HeldEntries DEF HasContent
<1>5. ~text'[x].caddr /\ \A y \in Text \ {x} : text'[y] = text[y]
  BY <1>2 DEF EntryIs
<1>6. /\ \A q \in Proc : ImageIn(q)' <=> ImageIn(q)
      /\ ~Bare(a) /\ ~Bare(a)'
      /\ a = Sched => \A y : ~Given(y) /\ ~Given(y)'
  BY <1>2, OutCore DEF Out
<1> QED
  BY <1>1, <1>2, <1>4, <1>5, <1>6, FreesCore

(* The image is on swap: its core is freed. *)
LEMMA ImageOutCore ==
    ASSUME IInv, Conserved, NEW a \in Actor, ImageOut(a)
    PROVE  Conserved'
<1>1. DidImageOut(a) /\ (a \in Proc => Steps(a)) /\ (a = Sched => SchedSteps) /\ Leaves(a)
  BY ImageOutShape, LeavesActor DEF IInv
<1> PICK v \in Proc : v = Whose(a)
  BY <1>1 DEF DidImageOut
<1>2. at[a].pc = "image" /\ units' = units + Img[v] /\ ProcIs(v, proc[v].text, proc[v].prog, FALSE, FALSE)
  BY <1>1 DEF DidImageOut, Runs
<1>3. at'[a].pc \in {"sched", "user", "xalloc", "again", "readi"}
  <2>1. a \in Proc => at[a].after \in {"user", "xalloc", "again", "readi"}
    BY <1>2, ShapeOf DEF IInv, ControlOf, Out, Locals
  <2> QED
    BY <1>1, <2>1 DEF DidImageOut, Moves, Goes
<1>4. \A y \in Text : text'[y].caddr = text[y].caddr
  BY <1>1 DEF DidImageOut, EntryIs
<1>5. ~Bare(a) /\ ~Bare(a)' /\ (a = Sched => \A y : ~Given(y) /\ ~Given(y)')
  BY <1>2, <1>3 DEF Bare, Given, Place
<1>6. \A y \in Text : TextIn(y)' <=> TextIn(y)
  BY <1>1, <1>4, <1>5, TextStays
<1>7. CASE a \in Proc
  <2>1. /\ v = a /\ proc[v].loaded /\ sp # v /\ sp' = sp /\ at'[Sched] = at[Sched]
    BY <1>1, <1>2, <1>7, ShapeOf, ShapeOfSched, Actors
       DEF IInv, ControlOf, SchedControl, Out, DidImageOut, Whose, Steps
  <2>2. ImageIn(v) /\ ~ImageIn(v)' /\ \A q \in Proc \ {v} : ImageIn(q)' <=> ImageIn(q)
    BY <1>2, <2>1 DEF ImageIn, ProcIs
  <2> QED
    BY <1>2, <1>6, <2>2, ImageMoves
<1>8. CASE a = Sched
  <2>1. v = sp /\ sp' = Idle /\ at[Sched].pc \in Out
    BY <1>1, <1>2, <1>8, Actors DEF DidImageOut, Whose, Out
  <2>2. ImageIn(v) /\ ~ImageIn(v)' /\ \A q \in Proc \ {v} : ImageIn(q)' <=> ImageIn(q)
    BY <1>2, <2>1, Actors DEF ImageIn, ProcIs
  <2> QED
    BY <1>2, <1>6, <2>2, ImageMoves
<1> QED
  BY <1>7, <1>8 DEF Actor

(* sched keeps its processes where they are, and gets no core. *)
LEMMA SchedStill ==
    ASSUME Conserved, SchedSteps, units' = units, \A y \in Text : text'[y].caddr = text[y].caddr,
           \A y \in Text : Given(y)' <=> Given(y),
           \A q \in Proc : ImageIn(q)' <=> ImageIn(q)
    PROVE  Conserved'
<1>1. Leaves(Sched) /\ Sched \in Actor /\ Sched \notin Proc
  BY LeavesSched, Actors
<1> QED
  BY <1>1, CoreStill

LEMMA SchedQuietCore ==
    ASSUME IInv, Conserved, (\E q \in Proc : Bring(q) \/ ThrowOut(q)) \/ SwapinLock \/ SwapinRead \/ SwapinDone \/ WaitCore
    PROVE  Conserved'
<1>1. Shape /\ SchedControl /\ Sched \in Actor
  BY Actors DEF IInv, Shape
<1>2. ASSUME NEW q \in Proc, Bring(q) PROVE Conserved'
  <2>1. SchedSteps /\ DidBring(q)
    BY <1>1, <1>2, BringShape
  <2>2. /\ at[Sched].pc = "sched" /\ at'[Sched].pc = "inlock" /\ units' = units /\ text' = text /\ proc' = proc
        /\ sp = Idle /\ sp' = q
    BY <2>1 DEF DidBring, Runs, Moves, Goes
  <2>3. /\ \A y \in Text : Given(y)' <=> Given(y)
        /\ \A r \in Proc : ImageIn(r)' <=> ImageIn(r)
    BY <2>2 DEF Given, ImageIn, Place, Out
  <2> QED
    BY <2>1, <2>2, <2>3, SchedStill
<1>3. ASSUME NEW v \in Proc, ThrowOut(v) PROVE Conserved'
  <2>1. SchedSteps /\ DidThrowOut(v)
    BY <1>1, <1>3, ThrowOutShape
  <2>2. /\ at[Sched].pc = "pick" /\ at'[Sched].pc = "swapout" /\ units' = units /\ text' = text
        /\ sp = Idle /\ sp' = v /\ proc[v].loaded /\ \A r \in Proc \ {v} : proc'[r] = proc[r]
    BY <2>1 DEF DidThrowOut, Runs, Moves, Goes, MayGo, ProcIs
  <2>3. \A y \in Text : Given(y)' <=> Given(y)
    BY <2>2 DEF Given, Place
  <2>4. \A r \in Proc : ImageIn(r)' <=> ImageIn(r)
    BY <2>2, Actors DEF ImageIn, Out
  <2> QED
    BY <2>1, <2>2, <2>3, <2>4, SchedStill
<1>4. CASE SwapinLock
  <2>1. SchedSteps /\ DidSwapinLock
    BY <1>1, <1>4, SwapinLockShape
  <2>2. /\ at[Sched].pc = "inlock" /\ at'[Sched].pc \in {"inimage", "intext"} /\ units' = units
        /\ proc' = proc /\ sp' = sp /\ at'[Sched].x = at[Sched].x
    BY <2>1 DEF DidSwapinLock, Gets, Runs, Moves, Goes
  <2>3. at[Sched].x = NoText
    BY <1>1, <2>2 DEF SchedControl, Place
  <2>4. \A y \in Text : Given(y)' <=> Given(y)
    BY <2>2, <2>3, Actors DEF Given
  <2>5. \A r \in Proc : ImageIn(r)' <=> ImageIn(r)
    BY <2>2 DEF ImageIn, Out
  <2>6. \A y \in Text : text'[y].caddr = text[y].caddr
    BY <2>1 DEF DidSwapinLock, EntryIs
  <2> QED
    BY <2>1, <2>2, <2>4, <2>5, <2>6, SchedStill
<1>5. CASE SwapinRead
  <2>1. SchedSteps /\ DidSwapinRead
    BY <1>1, <1>5, SwapinReadShape
  <2>2. /\ at[Sched].pc = "inread" /\ at'[Sched].pc = "inload" /\ units' = units /\ proc' = proc /\ sp' = sp
    BY <2>1 DEF DidSwapinRead, Runs, Moves, Goes
  <2>3. /\ \A y \in Text : Given(y)' <=> Given(y)
        /\ \A r \in Proc : ImageIn(r)' <=> ImageIn(r)
    BY <2>2 DEF Given, ImageIn, Place
  <2>4. \A y \in Text : text'[y].caddr = text[y].caddr
    BY <2>1 DEF DidSwapinRead, EntryIs
  <2> QED
    BY <2>1, <2>2, <2>3, <2>4, SchedStill
<1>6. CASE SwapinDone
  <2>1. SchedSteps /\ DidSwapinDone
    BY <1>1, <1>6, SwapinDoneShape
  <2>2. /\ at[Sched].pc = "inload" /\ at'[Sched].pc = "sched" /\ units' = units /\ text' = text
        /\ sp \in Proc /\ sp' = Idle /\ proc'[sp].loaded = TRUE /\ \A r \in Proc \ {sp} : proc'[r] = proc[r]
    BY <2>1 DEF DidSwapinDone, Runs, Goes, ProcIs
  <2>3. \A y \in Text : Given(y)' <=> Given(y)
    BY <2>2 DEF Given, Place
  <2>4. \A r \in Proc : ImageIn(r)' <=> ImageIn(r)
    BY <2>2, Actors DEF ImageIn
  <2> QED
    BY <2>1, <2>2, <2>3, <2>4, SchedStill
<1>7. CASE WaitCore
  <2>1. SchedSteps /\ DidWaitCore
    BY <1>1, <1>7, WaitCoreShape
  <2>2. /\ at[Sched].pc = "pick" /\ at'[Sched].pc = "sched" /\ units' = units /\ text' = text
        /\ proc' = proc /\ sp' = sp
    BY <2>1 DEF DidWaitCore, Runs, Moves, Goes, Rest
  <2>3. /\ \A y \in Text : Given(y)' <=> Given(y)
        /\ \A r \in Proc : ImageIn(r)' <=> ImageIn(r)
    BY <2>2 DEF Given, ImageIn, Place, Out
  <2> QED
    BY <2>1, <2>2, <2>3, SchedStill
<1> QED
  BY <1>2, <1>3, <1>4, <1>5, <1>6, <1>7

LEMMA SchedCallsCore ==
    ASSUME IInv, Conserved, SchedSteps, NEW l \in {"intext", "inimage"}, SchedCalls(l), at[Sched].pc = l
    PROVE  Conserved'
<1>1. /\ at'[Sched].pc = "xuncore" /\ at'[Sched].x = at[Sched].x /\ Place(Sched)' = Place(Sched)
      /\ text' = text /\ units' = units /\ proc' = proc /\ sp' = sp
  BY DEF SchedCalls, Goes, Rest, Place
<1>2. /\ \A y \in Text : Given(y)' <=> Given(y)
      /\ \A r \in Proc : ImageIn(r)' <=> ImageIn(r)
  BY <1>1 DEF Given, ImageIn, Out
<1> QED
  BY <1>1, <1>2, SchedStill

(* swapin fails: the text's core is given back. *)
LEMMA FailsCore ==
    ASSUME IInv, Contents, Conserved, SchedSteps, Fails, at[Sched].pc \in {"intext", "inimage"}
    PROVE  Conserved'
<1>1. Leaves(Sched) /\ Sched \in Actor /\ Sched \notin Proc /\ HasContent(Sched) /\ SchedControl
  BY LeavesSched, Actors DEF Contents, IInv, Shape
<1>2. /\ at'[Sched].pc = "pick" /\ sp \in Proc /\ sp' = Idle /\ proc' = proc
      /\ units' = IF at[Sched].x = NoText THEN units ELSE units + 1
  BY DEF Fails, Goes
<1>3. \A q \in Proc : ImageIn(q)' <=> ImageIn(q)
  BY <1>2, Actors DEF ImageIn, Out
<1>4. \A y \in Text : text'[y].caddr = text[y].caddr
  BY DEF Fails, EntryIs
<1>5. \A y \in Text : ~Given(y)'
  BY <1>2 DEF Given, Place
<1>6. CASE at[Sched].x = NoText
  <2>1. \A y \in Text : ~Given(y)
    BY <1>6, Actors DEF Given
  <2> QED
    BY <1>2, <1>3, <1>4, <1>5, <1>6, <2>1, SchedStill
<1>7. ASSUME NEW x \in Text, x = at[Sched].x PROVE Conserved'
  <2>1. x = Its(Sched) /\ x # NoText /\ Place(Sched) = "inimage" /\ Given(x)
    BY <1>1, <1>7, Actors DEF SchedControl, Given, Place
  <2>2. x \in Holds(Sched) /\ ~text[x].caddr
    BY <1>1, <1>7, <2>1, HeldEntries DEF HasContent
  <2>3. \A y \in Text \ {x} : ~Given(y)
    BY <1>7 DEF Given
  <2>4. Sees(Sched, x) /\ ~Sees(Sched, x)' /\ units' = units + 1
    BY <1>1, <1>2, <1>4, <1>5, <1>7, <2>1, <2>2 DEF Sees
  <2> QED
    BY <1>1, <1>3, <1>4, <1>5, <2>2, <2>3, <2>4, CoreStep
<1>8. at[Sched].x \in Text \cup {NoText}
  BY <1>1 DEF IInv, Shape, Typed, Locals
<1> QED
  BY <1>6, <1>7, <1>8

LEMMA SwapinTextCore ==
    ASSUME IInv, Contents, Conserved, SwapinText
    PROVE  Conserved'
<1>1. DidSwapinText /\ SchedSteps /\ Leaves(Sched) /\ Sched \in Actor /\ Sched \notin Proc /\ HasContent(Sched)
      /\ SchedControl
  BY SwapinTextShape, LeavesSched, Actors DEF IInv, Contents, Shape
<1>2. at[Sched].pc = "intext" /\ proc[sp].text \in Text /\ Place(Sched) = "intext"
  BY <1>1 DEF DidSwapinText, Runs, Place
<1>3. CASE /\ units >= 1 /\ units' = units - 1 /\ UNCHANGED <<text, free, itext, proc, on, sp>>
           /\ Goes(Sched, "inimage", proc[sp].text, at[Sched].xp, at[Sched].ret, at[Sched].after)
  <2> PICK x \in Text : x = proc[sp].text
    BY <1>2
  <2>1. Its(Sched) = x /\ x # NoText /\ x \in Holds(Sched) /\ ~text[x].caddr
    BY <1>1, <1>2, HeldEntries, Actors DEF HasContent, Its, Whose
  <2>2. at'[Sched].pc = "inimage" /\ at'[Sched].x = x
    BY <1>3 DEF Goes
  <2>3. \A q \in Proc : ImageIn(q)' <=> ImageIn(q)
    BY <1>2, <1>3, <2>2 DEF ImageIn, Out
  <2>4. \A y \in Text : ~Given(y) /\ (Given(y)' <=> y = x)
    BY <1>2, <2>2 DEF Given, Place
  <2>5. ~Sees(Sched, x) /\ Sees(Sched, x)'
    BY <1>1, <2>1, <2>4 DEF Sees
  <2> QED
    BY <1>1, <1>3, <2>1, <2>3, <2>4, <2>5, CoreStep
<1> QED
  BY <1>1, <1>2, <1>3, FailsCore, SchedCallsCore DEF DidSwapinText

LEMMA SwapinImageCore ==
    ASSUME IInv, Contents, Conserved, SwapinImage
    PROVE  Conserved'
<1>1. DidSwapinImage /\ SchedSteps /\ Leaves(Sched) /\ Sched \in Actor /\ Sched \notin Proc /\ HasContent(Sched)
      /\ SchedControl
  BY SwapinImageShape, LeavesSched, Actors DEF IInv, Contents, Shape
<1>2. at[Sched].pc = "inimage" /\ sp \in Proc /\ Its(Sched) = proc[sp].text /\ Place(Sched) = "inimage"
  BY <1>1, Actors DEF DidSwapinImage, Runs, Its, Whose, Place
<1>3. ASSUME units >= Img[sp], units' = units - Img[sp], UNCHANGED <<proc, sp>>,
             Moves(Sched, "inload") \/ Moves(Sched, "inread"), \A y \in Text : TextIn(y)' <=> TextIn(y)
      PROVE  Conserved'
  <2>1. at'[Sched].pc \in {"inload", "inread"} /\ ~proc[sp].loaded /\ sp # Idle
    BY <1>1, <1>2, <1>3, Actors DEF Moves, Goes, SchedControl
  <2>2. ~ImageIn(sp) /\ \A q \in Proc \ {sp} : ImageIn(q)' <=> ImageIn(q)
    BY <1>2, <1>3, <2>1 DEF ImageIn, Out
  <2>3. ImageIn(sp)'
    BY <1>3, <2>1 DEF ImageIn
  <2> PICK p \in Proc : p = sp
    BY <1>2
  <2>4. ~ImageIn(p) /\ ImageIn(p)' /\ \A q \in Proc \ {p} : ImageIn(q)' <=> ImageIn(q)
    BY <1>3, <2>1, <2>2 DEF ImageIn
  <2>5. units >= Img[p] /\ units' = units - Img[p]
    BY <1>3
  <2> QED
    BY <1>3, <2>4, <2>5, ImageMoves
<1>4. ASSUME Moves(Sched, "inload") \/ Moves(Sched, "inread") PROVE \A y \in Text : ~Given(y)'
  BY <1>4 DEF Moves, Goes, Given, Place
<1>5. CASE /\ units >= Img[sp] /\ units' = units - Img[sp] /\ UNCHANGED <<free, itext, proc, sp>>
           /\ proc[sp].text = NoText /\ Moves(Sched, "inload") /\ UNCHANGED text
  <2>1. \A y \in Text : ~Given(y)
    BY <1>1, <1>2, <1>5, Actors DEF SchedControl, Given
  <2>2. \A y \in Text : TextIn(y)' <=> TextIn(y)
    BY <1>1, <1>4, <1>5, <2>1, TextStays
  <2> QED
    BY <1>3, <1>5, <2>2
<1>6. ASSUME NEW x \in Text, x = proc[sp].text, Moves(Sched, "inload") \/ Moves(Sched, "inread"),
             text'[x].caddr <=> text[x].caddr \/ at[Sched].x # NoText,
             \A y \in Text \ {x} : text'[y] = text[y]
      PROVE  \A y \in Text : TextIn(y)' <=> TextIn(y)
  <2>1. x # NoText /\ x \in Holds(Sched) /\ at[Sched].x \in {x, NoText}
    BY <1>1, <1>2, <1>6, HeldEntries, Actors DEF SchedControl
  <2>2. \A y \in Text \ {x} : ~Given(y)
    BY <2>1, Actors DEF Given
  <2>3. \A y \in Text \ {x} : TextIn(y)' <=> TextIn(y)
    BY <1>1, <1>4, <1>6, <2>2, TextStays
  <2>4. Given(x) <=> at[Sched].x # NoText
    BY <1>2, <2>1 DEF Given
  <2>5. Sees(Sched, x)' <=> Sees(Sched, x)
    BY <1>1, <1>4, <1>6, <2>4 DEF Sees
  <2>6. TextIn(x)' <=> TextIn(x)
    BY <1>1, <2>1, <2>5, SeesText
  <2> QED
    BY <2>3, <2>6
<1>7. ASSUME NEW x \in Text, x = proc[sp].text, units >= Img[sp], units' = units - Img[sp], UNCHANGED <<proc, sp>>,
             \/ /\ at[Sched].x # NoText /\ Moves(Sched, "inread")
                /\ EntryIs(x, text[x].iptr, text[x].count, text[x].ccount, text[x].lock,
                           text[x].writ, text[x].load, TRUE, text[x].core, text[x].swap)
             \/ /\ EntryIs(x, text[x].iptr, text[x].count, text[x].ccount + 1, FALSE, text[x].writ,
                           text[x].load, text[x].caddr \/ at[Sched].x # NoText, text[x].core, text[x].swap)
                /\ Moves(Sched, "inload")
      PROVE  Conserved'
  <2>1. /\ text'[x].caddr <=> text[x].caddr \/ at[Sched].x # NoText
        /\ \A y \in Text \ {x} : text'[y] = text[y]
    BY <1>7 DEF EntryIs
  <2>2. \A y \in Text : TextIn(y)' <=> TextIn(y)
    BY <1>6, <1>7, <2>1
  <2> QED
    BY ZenonT(60), <1>3, <1>7, <2>2
<1> QED
  BY <1>1, <1>2, <1>5, <1>7, FailsCore, SchedCallsCore DEF DidSwapinImage

LEMMA SameConserved ==
    ASSUME Conserved, UNCHANGED <<text, units, proc, at, sp>>
    PROVE  Conserved'
<1>1. /\ \A x \in Text : TextIn(x)' <=> TextIn(x)
      /\ \A p \in Proc : ImageIn(p)' <=> ImageIn(p)
  BY DEF TextIn, ImageIn, Bare, Given, Place
<1> QED
  BY <1>1, SameCore

LEMMA ConservedNext ==
    ASSUME IInv, Contents, Conserved, [Next]_vars, NoRace
    PROVE  Conserved'
<1>1. ~ReusedInUse
  BY DEF NoRace
<1>2. ASSUME NEW p \in Proc, Step(p) PROVE Conserved'
  BY <1>1, <1>2, QuietCore, ReadCore, AttachCore, AllotCore, XuntextCore, XuntextedCore, XexpandCore DEF Step
<1>3. ASSUME NEW a \in Actor,
             WaitLock(a) \/ Xuncore(a) \/ Xcore(a) \/ Unwritten(a) \/ Swapout(a) \/ Xccdec(a)
             \/ TextOut(a) \/ ImageOut(a)
      PROVE  Conserved'
  <2>1. CASE WaitLock(a)
    BY <2>1, SameConserved DEF WaitLock
  <2> QED
    BY <1>3, <2>1, XuncoreCore, XcoreCore, UnwrittenCore, SwapoutCore, XccdecCore, TextOutCore, ImageOutCore
<1>4. CASE Swapper
  <2>1. CASE Nobody
    BY <2>1, SameConserved DEF Nobody
  <2> QED
    BY <1>4, <2>1, SchedQuietCore, SwapinTextCore, SwapinImageCore DEF Swapper
<1>5. CASE UNCHANGED vars
  BY <1>5, SameConserved DEF vars
<1> QED
  BY <1>2, <1>3, <1>4, <1>5 DEF Next

LEMMA ConservedInit ==
    ASSUME Init
    PROVE  Conserved
<1>1. at[Sched].pc = "sched" /\ sp = Idle /\ \A p \in Proc : ~proc[p].loaded
  BY Actors DEF Init, Home, Top
<1>2. TextsIn = {} /\ ImagesIn = {}
  BY <1>1, Actors DEF Init, TextsIn, TextIn, Given, Place, ImagesIn, ImageIn
<1>3. UnitsOf(ImagesIn) = {}
  BY <1>2 DEF UnitsOf
<1>4. units = Core /\ Core \in Nat
  BY CoreAssumption DEF Init
<1> QED
  BY <1>2, <1>3, <1>4, FS_EmptySet DEF Conserved

(* No unit of core is lost or given out twice, as long as neither of these *)
(* races has come about: each is free, or the core of a text, or part of   *)
(* the image of a process, while texts and images come and go.             *)
THEOREM TextsConserved == Spec /\ []NoRace => []Conserved
<1> DEFINE Whole == IInv /\ Names /\ Contents /\ Conserved
<1>1. Init => Whole
  BY IInvInit, NamesInit, ContentsInit, ConservedInit
<1>2. Whole /\ NoRace /\ [Next]_vars => Whole'
  BY IInvNext, NamesNext, ContentsNext, ConservedNext
<1>3. Whole => Conserved
  OBVIOUS
<1> QED
  BY <1>1, <1>2, <1>3, PTL DEF Spec

LEMMA ConservedTyped ==
    ASSUME IInv, Conserved
    PROVE  TypeOK
<1>1. Typed /\ Simple(free, Text)
  BY DEF IInv, Shape
<1>2. units \in 0..Core
  <2>1. /\ Cardinality(TextsIn) \in Nat /\ Cardinality(UnitsOf(ImagesIn)) \in Nat /\ units \in Nat /\ Core \in Nat
        /\ units + Cardinality(TextsIn) + Cardinality(UnitsOf(ImagesIn)) = Core
    BY FiniteCore, CoreAssumption DEF TextsIn, Conserved
  <2> QED
    BY <2>1
<1>3. text \in [Text -> Entry]
  <2>1. \A x \in Text : text[x] \in Entry
    BY <1>1, CountsNat DEF Typed, RawEntry, Entry
  <2> QED
    BY <1>1, <2>1 DEF Typed
<1> QED
  BY <1>1, <1>2, <1>3 DEF Typed, TypeOK, Simple

(* The variables keep their types up to the first of these races: counts   *)
(* do not go below 0, an entry is on the free list once, and the free core *)
(* is never more than there is.                                            *)
THEOREM TextsTyped == Spec /\ []NoRace => []TypeOK
<1> DEFINE Whole == IInv /\ Names /\ Contents /\ Conserved
<1>1. Init => Whole
  BY IInvInit, NamesInit, ContentsInit, ConservedInit
<1>2. Whole /\ NoRace /\ [Next]_vars => Whole'
  BY IInvNext, NamesNext, ContentsNext, ConservedNext
<1>3. Whole => TypeOK
  BY ConservedTyped
<1> QED
  BY <1>1, <1>2, <1>3, PTL DEF Spec

-----------------------------------------------------------------------------
(* Who waits for whom *)

(* The entry that xuncore looks at is on the free list: nobody else has    *)
(* the processor.                                                          *)
Looks == \A a \in Actor : at[a].pc = "xuncore" => cpu = a /\ at[a].xp \in ToSet(free) \cup {NoText}

(* It is not the text of the process that calls xuncore. *)
Elsewhere == \A p \in Proc : at[p].pc \in {"xcore", "unwrite"} => at[p].xp # proc[p].text

(* Of those who are at X_LOCK in xuncore, one asks for what none of them has locked. *)
Asking == {a \in Actor : at[a].pc = "xcore"}
Orderly == \A S \in SUBSET Asking : S # {} => \E a \in S : \A b \in S : at[a].xp \notin Keeps(b)

Order == Looks /\ Elsewhere /\ Orderly

(* What a step of c leaves to the others. *)
Besides(c) ==
    \A b \in Actor \ {c} : /\ at'[b] = at[b] /\ Keeps(b)' = Keeps(b)
                           /\ b \in Proc => proc'[b].text = proc[b].text

LEMMA BesidesActor ==
    ASSUME IInv, NEW c \in Actor, c \in Proc => Steps(c), c = Sched => SchedSteps
    PROVE  Besides(c)
<1>1. CASE c \in Proc
  BY <1>1, AsideProc DEF Aside, Besides
<1>2. CASE c = Sched
  <2> SUFFICES ASSUME NEW b \in Proc
               PROVE  at'[b] = at[b] /\ Keeps(b)' = Keeps(b) /\ proc'[b].text = proc[b].text
    BY <1>2 DEF Besides, Actor
  <2>1. at'[b] = at[b] /\ Place(b)' = Place(b) /\ Its(b)' = Its(b) /\ proc'[b].text = proc[b].text
    BY <1>2, Actors DEF SchedSteps, Place, Its, Whose
  <2> QED
    BY <2>1 DEF Keeps
<1> QED
  BY <1>1, <1>2 DEF Actor

(* A step of c out of xuncore, on in it, or from the list to X_LOCK and swap. *)
Enters(c) ==
    \/ at'[c].pc \notin Inner
    \/ at'[c].pc = "xuncore" /\ cpu' = c /\ at'[c].xp \in ToSet(free') \cup {NoText}
    \/ /\ at[c].pc = "xuncore" /\ at'[c].pc = "xcore" /\ at[c].xp \in Text /\ at'[c].xp = at[c].xp
       /\ Keeps(c)' = Keeps(c) /\ proc' = proc
    \/ at[c].pc = "xcore" /\ at'[c].pc = "unwrite" /\ at'[c].xp = at[c].xp /\ proc' = proc

(* Where a step of c can lead. *)
Ordered(c) == Besides(c) /\ Enters(c) /\ cpu \in {c, Idle}

(* Xuncore finds an entry that is in use by nobody who waits there. *)
LEMMA ListedUnkept ==
    ASSUME IInv, NEW x \in ToSet(free)
    PROVE  /\ x \in Text /\ \A p \in Proc : proc[p].text # x
           /\ \A b \in Actor : at[b].pc \in {"xuncore", "xcore"} => x \notin Keeps(b)
<1>1. x \in Text
  BY FreeTypes DEF IInv, Shape, Typed
<1>2. text[x].count = 0
  BY <1>1 DEF IInv, Listed
<1>3. \A p \in Proc : proc[p].text # x
  BY <1>1, <1>2, UnusedText, Actors
<1>4. ASSUME NEW b \in Actor, at[b].pc \in {"xuncore", "xcore"}, x \in Keeps(b) PROVE FALSE
  <2>1. CASE b \in Proc
    <3>1. ControlOf(b)
      BY <2>1, ShapeOf DEF IInv
    <3>2. Place(b) = at[b].ret /\ at[b].ret \in {"expand", "xexpand"} /\ at[b].pc \notin Out
      BY <1>4, <3>1 DEF ControlOf, Place, Inner, Out
    <3>3. Place(b) = "xexpand" /\ x = at[b].x
      BY <1>4, <3>2 DEF Keeps
    <3> QED
      BY <1>3, <2>1, <3>1, <3>3 DEF ControlOf
  <2>2. CASE b = Sched
    <3>1. SchedControl
      BY DEF IInv, Shape
    <3>2. Place(Sched) = at[Sched].ret /\ at[Sched].ret \in {"intext", "inimage"} /\ at[Sched].pc \notin Out
      BY <1>4, <2>2, <3>1 DEF SchedControl, Place, Inner, Out
    <3>3. x = Its(Sched)
      BY <1>4, <2>2, <3>2 DEF Keeps
    <3>4. sp \in Proc /\ Its(Sched) = proc[sp].text
      BY <3>1, <3>2 DEF SchedControl, IInv, Shape, Typed, Its, Whose
    <3> QED
      BY <1>3, <3>3, <3>4
  <2> QED
    BY <2>1, <2>2 DEF Actor
<1> QED
  BY <1>1, <1>3, <1>4

LEMMA OrderStep ==
    ASSUME IInv, Order, NEW c \in Actor, Ordered(c)
    PROVE  Order'
<1>1. \A b \in Actor \ {c} : /\ at'[b] = at[b] /\ Keeps(b)' = Keeps(b)
                             /\ b \in Proc => proc'[b].text = proc[b].text
  BY DEF Ordered, Besides
<1>2. Enters(c) /\ cpu \in {c, Idle}
  BY DEF Ordered
<1>3. \A b \in Actor \ {c} : at[b].pc # "xuncore"
  BY <1>2, Actors DEF Order, Looks
<1>4. Looks'
  BY <1>1, <1>2, <1>3 DEF Looks, Enters, Inner
<1>5. at[c].pc = "xuncore" /\ at[c].xp \in Text =>
         /\ \A p \in Proc : proc[p].text # at[c].xp
         /\ \A b \in Actor : at[b].pc \in {"xuncore", "xcore"} => at[c].xp \notin Keeps(b)
  <2> SUFFICES ASSUME at[c].pc = "xuncore", at[c].xp \in Text
               PROVE  /\ \A p \in Proc : proc[p].text # at[c].xp
                      /\ \A b \in Actor : at[b].pc \in {"xuncore", "xcore"} => at[c].xp \notin Keeps(b)
    OBVIOUS
  <2>1. at[c].xp \in ToSet(free)
    BY Actors DEF Order, Looks
  <2> QED
    BY <2>1, ListedUnkept
<1>6. Elsewhere'
  <2> SUFFICES ASSUME NEW p \in Proc, at'[p].pc \in {"xcore", "unwrite"} PROVE at'[p].xp # proc'[p].text
    BY DEF Elsewhere
  <2>1. p \in Actor
    BY Actors
  <2>2. CASE p # c
    BY <1>1, <2>1, <2>2 DEF Order, Elsewhere
  <2>3. CASE p = c
    BY <1>2, <1>5, <2>3 DEF Order, Elsewhere, Enters, Inner
  <2> QED
    BY <2>2, <2>3
<1>7. Orderly'
  <2> SUFFICES ASSUME NEW S \in SUBSET Asking', S # {}
               PROVE  \E a \in S : \A b \in S : at'[a].xp \notin Keeps(b)'
    BY DEF Orderly
  <2>1. \A b \in S : b \in Actor /\ at'[b].pc = "xcore"
    BY DEF Asking
  <2>2. \A b \in S \ {c} : at[b].pc = "xcore"
    BY <1>1, <2>1
  <2>3. CASE c \in S
    <3>1. /\ at[c].pc = "xuncore" /\ at[c].xp \in Text /\ at'[c].xp = at[c].xp
          /\ Keeps(c)' = Keeps(c)
      BY <1>2, <2>1, <2>3 DEF Enters, Inner
    <3>2. \A b \in S : at[c].xp \notin Keeps(b)
      BY <1>5, <2>1, <2>2, <3>1
    <3>3. \A b \in S : Keeps(b)' = Keeps(b)
      BY <1>1, <2>1, <3>1
    <3> QED
      BY <2>3, <3>1, <3>2, <3>3
  <2>4. CASE c \notin S
    <3>1. S \in SUBSET Asking
      BY <2>1, <2>2, <2>4 DEF Asking
    <3>2. PICK a \in S : \A b \in S : at[a].xp \notin Keeps(b)
      BY <3>1 DEF Order, Orderly
    <3>3. \A b \in S : at'[b] = at[b] /\ Keeps(b)' = Keeps(b)
      BY <1>1, <2>1, <2>4
    <3> QED
      BY <3>2, <3>3
  <2> QED
    BY <2>3, <2>4
<1> QED
  BY <1>4, <1>6, <1>7 DEF Order

(* A step that moves nobody. *)
LEMMA SameOrder ==
    ASSUME Order, UNCHANGED <<free, proc, at, sp>>,
           \A a \in Actor : at[a].pc = "xuncore" => cpu' = cpu
    PROVE  Order'
<1>1. \A a \in Actor : Keeps(a)' = Keeps(a)
  BY DEF Keeps, Place, Its, Whose
<1>2. Looks' /\ Elsewhere'
  BY DEF Order, Looks, Elsewhere
<1>3. Orderly'
  <2> SUFFICES ASSUME NEW S \in SUBSET Asking', S # {}
               PROVE  \E a \in S : \A b \in S : at'[a].xp \notin Keeps(b)'
    BY DEF Orderly
  <2>1. S \in SUBSET Asking /\ \A b \in S : b \in Actor
    BY DEF Asking
  <2>2. PICK a \in S : \A b \in S : at[a].xp \notin Keeps(b)
    BY <2>1 DEF Order, Orderly
  <2> QED
    BY <1>1, <2>1, <2>2
<1> QED
  BY <1>2, <1>3 DEF Order

LEMMA ProcOrder ==
    ASSUME IInv, NEW p \in Proc, Step(p)
    PROVE  Ordered(p)
<1>1. Shape /\ ControlOf(p) /\ p \in Actor /\ p # Sched
  BY ShapeOf, Actors DEF IInv
<1>2. ASSUME Steps(p), Enters(p), NEW l, Runs(p, l) PROVE Ordered(p)
  BY <1>1, <1>2, BesidesActor DEF Ordered, Runs
<1>3. ASSUME Steps(p), at'[p].pc \notin Inner, NEW l, Runs(p, l) PROVE Ordered(p)
  BY <1>2, <1>3 DEF Enters
<1>4. CASE \E f \in Execs[p] : Exec(p, f)
  <2>1. PICK f \in Execs[p] : Steps(p) /\ DidExec(p, f)
    BY <1>1, <1>4, ExecShape
  <2> QED
    BY <1>3, <2>1 DEF DidExec, Goes, Inner
<1>5. CASE Grow(p)
  BY <1>1, <1>3, <1>5, GrowShape DEF DidGrow, Moves, Goes, Inner
<1>6. CASE Expand(p)
  <2>1. Steps(p) /\ DidExpand(p) /\ Runs(p, "expand")
    BY <1>1, <1>6, ExpandShape DEF DidExpand
  <2>2. CASE /\ \E xp \in ToSet(free) \cup {NoText} : Goes(p, "xuncore", at[p].x, xp, "expand", at[p].after)
             /\ cpu' = p /\ UNCHANGED Rest
    <3>1. Enters(p)
      BY <2>2 DEF Enters, Goes, Rest
    <3> QED
      BY <1>2, <2>1, <3>1
  <2>3. CASE at'[p].pc \in {"user", "xalloc", "swapout"}
    BY <1>3, <2>1, <2>3 DEF Inner
  <2> QED
    BY <2>1, <2>2, <2>3 DEF DidExpand, Moves, Goes
<1>7. CASE Xfree(p)
  BY <1>1, <1>3, <1>7, XfreeShape DEF DidXfree, Gets, Moves, Goes, Inner
<1>8. CASE Attach(p)
  BY <1>1, <1>3, <1>8, AttachShape DEF DidAttach, Goes, Inner
<1>9. CASE Xwaited(p)
  BY <1>1, <1>3, <1>9, XwaitedShape DEF DidXwaited, Gets, Goes, Inner
<1>10. CASE Allot(p)
  BY <1>1, <1>3, <1>10, AllotShape DEF DidAllot, Takes, Goes, Inner
<1>11. CASE Xuntext(p)
  BY <1>1, <1>3, <1>11, XuntextShape DEF DidXuntext, Gets, Takes, Moves, Goes, Inner
<1>12. CASE Xuntexted(p)
  BY ZenonT(60), <1>1, <1>3, <1>12, XuntextedShape DEF DidXuntexted, Takes, Goes, Inner
<1>13. CASE Xexpand(p)
  <2>1. Steps(p) /\ DidXexpand(p) /\ Runs(p, "xexpand") /\ at[p].after \in {"again", "readi"}
    BY <1>1, <1>13, XexpandShape DEF DidXexpand, Runs, ControlOf, Place
  <2>2. CASE /\ \E xp \in ToSet(free) \cup {NoText} : Goes(p, "xuncore", at[p].x, xp, "xexpand", at[p].after)
             /\ cpu' = p /\ UNCHANGED Rest
    <3>1. Enters(p)
      BY <2>2 DEF Enters, Goes, Rest
    <3> QED
      BY <1>2, <2>1, <3>1
  <2>3. CASE at'[p].pc \in {"again", "readi", "xread", "swapout"}
    BY <1>3, <2>1, <2>3 DEF Inner
  <2> QED
    BY ZenonT(60), <2>1, <2>2, <2>3 DEF DidXexpand, Moves, Goes
<1>14. CASE Xread(p)
  <2>1. Steps(p) /\ DidXread(p) /\ Runs(p, "xread") /\ at[p].after \in {"again", "readi"}
    BY <1>1, <1>14, XreadShape DEF DidXread, Runs, ControlOf, Place
  <2>2. at'[p].pc \in {"again", "readi"}
    BY <2>1 DEF DidXread, Moves, Goes
  <2> QED
    BY <1>3, <2>1, <2>2 DEF Inner
<1>15. CASE Readi(p)
  BY <1>1, <1>3, <1>15, ReadiShape DEF DidReadi, Moves, Goes, Inner
<1>16. CASE ReadIn(p)
  BY <1>1, <1>3, <1>16, ReadInShape DEF DidReadIn, Goes, Inner
<1>17. CASE UnlockAgain(p)
  BY <1>1, <1>3, <1>17, UnlockAgainShape DEF DidUnlockAgain, Goes, Inner
<1> QED
  BY <1>4, <1>5, <1>6, <1>7, <1>8, <1>9, <1>10, <1>11, <1>12, <1>13, <1>14, <1>15, <1>16, <1>17 DEF Step

LEMMA ActorOrder ==
    ASSUME IInv, NEW a \in Actor,
           Xuncore(a) \/ Xcore(a) \/ Unwritten(a) \/ Swapout(a) \/ Xccdec(a) \/ TextOut(a) \/ ImageOut(a)
    PROVE  Ordered(a)
<1>1. Shape
  BY DEF IInv
<1>2. ASSUME a \in Proc => Steps(a), a = Sched => SchedSteps, Enters(a), NEW l, Runs(a, l) PROVE Ordered(a)
  BY <1>2, BesidesActor DEF Ordered, Runs
<1>3. /\ LooksOn(a) /\ free' = free => Enters(a)
      /\ at'[a].pc \notin Inner => Enters(a)
  BY DEF LooksOn, Goes, Enters
<1>4. at[a].pc \in Inner /\ Resumes(a) => at'[a].pc \notin Inner
  BY <1>1 DEF Shape, ControlOf, SchedControl, Actor, Resumes, Goes, Inner
<1>5. CASE Xuncore(a)
  <2>1. DidXuncore(a) /\ (a \in Proc => Steps(a)) /\ (a = Sched => SchedSteps)
    BY <1>1, <1>5, XuncoreShape
  <2>2. Runs(a, "xuncore") /\ at[a].pc = "xuncore" /\ at[a].pc \in Inner /\ UNCHANGED Rest
    BY <2>1 DEF DidXuncore, Runs, Inner
  <2>3. CASE at[a].xp \in Text /\ Moves(a, "xcore")
    <3>1. proc' = proc /\ sp' = sp
      BY <2>2 DEF Rest
    <3>2. Keeps(a)' = Keeps(a)
      BY <2>2, <2>3, <3>1, UncoreKeeps
    <3>3. Enters(a)
      BY <2>2, <2>3, <3>1, <3>2 DEF Moves, Goes, Enters
    <3> QED
      BY <1>2, <2>1, <2>2, <3>3
  <2>4. LooksOn(a) \/ Resumes(a) => Enters(a)
    BY <1>3, <1>4, <2>2 DEF Rest
  <2> QED
    BY <1>2, <2>1, <2>2, <2>3, <2>4 DEF DidXuncore
<1>6. CASE Xcore(a)
  <2>1. DidXcore(a) /\ (a \in Proc => Steps(a)) /\ (a = Sched => SchedSteps)
    BY <1>1, <1>6, XcoreShape
  <2>2. /\ Runs(a, "xcore") /\ at[a].pc = "xcore" /\ at[a].pc \in Inner /\ free' = free /\ proc' = proc
        /\ LooksOn(a) \/ Resumes(a) \/ Moves(a, "unwrite")
    BY <2>1 DEF DidXcore, Gets, Runs, Inner
  <2>3. Moves(a, "unwrite") => Enters(a)
    BY <2>2 DEF Moves, Goes, Enters
  <2> QED
    BY <1>2, <1>3, <1>4, <2>1, <2>2, <2>3
<1>7. CASE Unwritten(a)
  <2>1. DidUnwritten(a) /\ (a \in Proc => Steps(a)) /\ (a = Sched => SchedSteps)
    BY <1>1, <1>7, UnwrittenShape
  <2>2. Runs(a, "unwrite") /\ at[a].pc \in Inner /\ free' = free /\ (LooksOn(a) \/ Resumes(a))
    BY <2>1 DEF DidUnwritten, Runs, Inner
  <2> QED
    BY <1>2, <1>3, <1>4, <2>1, <2>2
<1>8. CASE Swapout(a)
  <2>1. DidSwapout(a) /\ (a \in Proc => Steps(a)) /\ (a = Sched => SchedSteps)
    BY <1>1, <1>8, SwapoutShape
  <2>2. Runs(a, "swapout") /\ at'[a].pc \notin Inner
    BY <2>1 DEF DidSwapout, Moves, Goes, Inner
  <2> QED
    BY <1>2, <1>3, <2>1, <2>2
<1>9. CASE Xccdec(a)
  <2>1. DidXccdec(a) /\ (a \in Proc => Steps(a)) /\ (a = Sched => SchedSteps)
    BY <1>1, <1>9, XccdecShape
  <2>2. Runs(a, "xccdec") /\ at'[a].pc \notin Inner
    BY <2>1 DEF DidXccdec, Gets, Moves, Goes, Inner
  <2> QED
    BY <1>2, <1>3, <2>1, <2>2
<1>10. CASE TextOut(a)
  <2>1. DidTextOut(a) /\ (a \in Proc => Steps(a)) /\ (a = Sched => SchedSteps)
    BY <1>1, <1>10, TextOutShape
  <2>2. Runs(a, "outwrite") /\ at'[a].pc \notin Inner
    BY <2>1 DEF DidTextOut, Moves, Goes, Inner
  <2> QED
    BY <1>2, <1>3, <2>1, <2>2
<1>11. CASE ImageOut(a)
  <2>1. DidImageOut(a) /\ (a \in Proc => Steps(a)) /\ (a = Sched => SchedSteps)
    BY <1>1, <1>11, ImageOutShape
  <2>2. Runs(a, "image") /\ at[a].pc = "image"
    BY <2>1 DEF DidImageOut, Runs
  <2>3. a \in Proc => at[a].after \in {"user", "xalloc", "again", "readi"}
    BY <1>1, <2>2, ShapeOf DEF ControlOf, Out, Locals
  <2>4. at'[a].pc \in {"sched", "user", "xalloc", "again", "readi"}
    BY <2>1, <2>3 DEF DidImageOut, Moves, Goes
  <2> QED
    BY <1>2, <1>3, <2>1, <2>2, <2>4 DEF Inner
<1> QED
  BY <1>5, <1>6, <1>7, <1>8, <1>9, <1>10, <1>11

LEMMA SwapperOrder ==
    ASSUME IInv,
           \/ SwapinLock \/ SwapinText \/ SwapinImage \/ SwapinRead \/ SwapinDone \/ WaitCore
           \/ \E p \in Proc : Bring(p) \/ ThrowOut(p)
    PROVE  Ordered(Sched)
<1>1. Shape /\ Sched \in Actor /\ Sched \notin Proc
  BY Actors DEF IInv
<1>2. ASSUME SchedSteps, Enters(Sched), NEW l, Runs(Sched, l) PROVE Ordered(Sched)
  BY <1>1, <1>2, BesidesActor DEF Ordered, Runs
<1>3. ASSUME SchedSteps, at'[Sched].pc \notin Inner, NEW l, Runs(Sched, l) PROVE Ordered(Sched)
  BY <1>2, <1>3 DEF Enters
<1>4. Fails => at'[Sched].pc \notin Inner
  BY DEF Fails, Goes, Inner
<1>5. \A l : SchedCalls(l) => Enters(Sched)
  BY DEF SchedCalls, Goes, Enters, Rest
<1>6. CASE \E p \in Proc : Bring(p)
  BY <1>1, <1>3, <1>6, BringShape DEF DidBring, Moves, Goes, Inner
<1>7. CASE \E p \in Proc : ThrowOut(p)
  BY <1>1, <1>3, <1>7, ThrowOutShape DEF DidThrowOut, Moves, Goes, Inner
<1>8. CASE SwapinLock
  BY <1>1, <1>3, <1>8, SwapinLockShape DEF DidSwapinLock, Gets, Moves, Goes, Inner
<1>9. CASE SwapinText
  <2>1. SchedSteps /\ DidSwapinText /\ Runs(Sched, "intext")
    BY <1>1, <1>9, SwapinTextShape DEF DidSwapinText
  <2>2. Enters(Sched)
    BY <1>4, <1>5, <2>1 DEF DidSwapinText, Goes, Enters, Inner
  <2> QED
    BY <1>2, <2>1, <2>2
<1>10. CASE SwapinImage
  <2>1. SchedSteps /\ DidSwapinImage /\ Runs(Sched, "inimage")
    BY <1>1, <1>10, SwapinImageShape DEF DidSwapinImage
  <2>2. \/ Moves(Sched, "inload") \/ Moves(Sched, "inread")
        \/ SchedCalls("inimage") \/ Fails
    BY <2>1 DEF DidSwapinImage
  <2>3. Enters(Sched)
    BY <1>4, <1>5, <2>2 DEF Moves, Goes, Enters, Inner
  <2> QED
    BY <1>2, <2>1, <2>3
<1>11. CASE SwapinRead
  BY <1>1, <1>3, <1>11, SwapinReadShape DEF DidSwapinRead, Moves, Goes, Inner
<1>12. CASE SwapinDone
  BY <1>1, <1>3, <1>12, SwapinDoneShape DEF DidSwapinDone, Goes, Inner
<1>13. CASE WaitCore
  BY <1>1, <1>3, <1>13, WaitCoreShape DEF DidWaitCore, Moves, Goes, Inner
<1> QED
  BY <1>6, <1>7, <1>8, <1>9, <1>10, <1>11, <1>12, <1>13

LEMMA OrderNext ==
    ASSUME IInv, Order, [Next]_vars
    PROVE  Order'
<1>1. ASSUME NEW p \in Proc, Step(p) PROVE Order'
  BY <1>1, ProcOrder, OrderStep, Actors
<1>2. ASSUME NEW a \in Actor, WaitLock(a) PROVE Order'
  <2>1. DidWaitLock(a)
    BY <1>2, WaitLockDoes DEF IInv
  <2>2. UNCHANGED <<free, proc, at, sp>> /\ cpu \in {a, Idle} /\ at[a].pc # "xuncore"
    BY <2>1, Actors DEF DidWaitLock, Runs, Wants
  <2>3. \A b \in Actor : at[b].pc # "xuncore"
    BY <2>2, Actors DEF Order, Looks
  <2> QED
    BY <2>2, <2>3, SameOrder
<1>3. ASSUME NEW a \in Actor,
             Xuncore(a) \/ Xcore(a) \/ Unwritten(a) \/ Swapout(a) \/ Xccdec(a) \/ TextOut(a) \/ ImageOut(a)
      PROVE  Order'
  BY <1>3, ActorOrder, OrderStep
<1>4. CASE Swapper
  <2>1. CASE Nobody
    <3>1. UNCHANGED <<free, proc, at, sp>> /\ cpu = Sched /\ at[Sched].pc = "sched"
      BY <2>1 DEF Nobody, Runs
    <3>2. \A b \in Actor : at[b].pc # "xuncore"
      BY <3>1 DEF Order, Looks
    <3> QED
      BY <3>1, <3>2, SameOrder
  <2> QED
    BY <1>4, <2>1, SwapperOrder, OrderStep, Actors DEF Swapper
<1>5. CASE UNCHANGED vars
  BY <1>5, SameOrder DEF vars
<1> QED
  BY <1>1, <1>2, <1>3, <1>4, <1>5 DEF Next

LEMMA OrderInit == Init => Order
<1> SUFFICES ASSUME Init PROVE Order
  OBVIOUS
<1>1. \A a \in Actor : at[a].pc \notin Inner
  BY DEF Init, Home, Top, Inner
<1>2. Asking = {}
  BY <1>1 DEF Asking, Inner
<1> QED
  BY <1>1, <1>2, Actors DEF Order, Looks, Elsewhere, Orderly, Inner

(* Who keeps a lock while he waits for one waits in xuncore, and is in core. *)
LEMMA WaitersHold ==
    ASSUME IInv, Order, ~HolderOut, NEW b \in Actor, Holds(b) # {},
           on[b] # NoText \/ (b \in Proc /\ ~proc[b].loaded)
    PROVE  at[b].pc = "xcore" /\ Holds(b) = Keeps(b) /\ (b \in Proc => proc[b].loaded)
<1>1. Shape /\ Mine(b)
  BY DEF IInv
<1>2. ASSUME b \in Proc, ~proc[b].loaded PROVE FALSE
  <2>1. PICK x \in Holds(b) : x = proc[b].text
    BY <1>2 DEF HolderOut
  <2>2. x \in ProcHeld(b) /\ x \in Text /\ ControlOf(b)
    BY <1>1, <1>2, ProcHolds, ShapeOf, HoldsKeeps
  <2>3. ~Fetches(b) /\ at[b].pc # "outwrite"
    BY <1>1, <1>2, <2>2 DEF Mine, ControlOf, Out
  <2>4. at[b].pc = "irele" => proc[b].text = NoText
    BY <2>2 DEF ControlOf, Place
  <2>5. at[b].pc = "unwrite" => at[b].xp # x
    BY <1>2, <2>1 DEF Order, Elsewhere
  <2> QED
    BY <2>1, <2>2, <2>3, <2>4, <2>5, Actors DEF ProcHeld
<1>3. on[b] = Wants(b) /\ Wants(b) # NoText
  BY <1>1, <1>2 DEF Shape, SleepsFor
<1>4. at[b].pc \in {"xwait", "xuntext", "xfree", "inlock", "xccdec", "xcore"}
  BY <1>3 DEF Wants
<1>5. Holds(b) = Keeps(b)
  BY <1>1, <1>4, HeldKept DEF HeldBy
<1>6. at[b].pc # "xcore" => Keeps(b) = {}
  <2>1. at[b].pc = "xccdec" => at[b].after \notin {"again", "readi"}
    BY OutPlain
  <2> QED
    BY <1>4, <2>1 DEF Keeps, Place, Out
<1> QED
  BY <1>2, <1>5, <1>6

LEMMA OrderCycle ==
    ASSUME IInv, Order, ~HolderOut
    PROVE  NoCycle
<1> SUFFICES ASSUME NEW S \in SUBSET {a \in Actor : on[a] # NoText \/ (a \in Proc /\ ~proc[a].loaded)}, S # {}
             PROVE  \E a \in S : ~\E b \in S : Waits(a, b)
  BY DEF NoCycle
<1> DEFINE C == {b \in S : at[b].pc = "xcore" /\ (b \in Proc => proc[b].loaded)}
<1>1. \A b \in S : b \in Actor /\ (on[b] # NoText \/ (b \in Proc /\ ~proc[b].loaded))
  OBVIOUS
<1>2. \A b \in S : Holds(b) # {} => b \in C /\ Holds(b) = Keeps(b)
  BY <1>1, WaitersHold
<1>3. CASE C # {}
  <2>1. C \in SUBSET Asking
    BY DEF Asking
  <2>2. PICK a \in C : \A b \in C : at[a].xp \notin Keeps(b)
    BY <1>3, <2>1 DEF Order, Orderly
  <2>3. on[a] \in {at[a].xp, NoText}
    BY <1>1, <2>2 DEF IInv, Shape, SleepsFor, Wants
  <2>4. \A b \in S : ~Waits(a, b)
    BY <1>2, <2>2, <2>3 DEF Waits
  <2> QED
    BY <2>2, <2>4
<1>4. CASE C = {}
  <2>1. \A b \in S : Holds(b) = {}
    BY <1>2, <1>4
  <2>2. CASE Sched \in S
    BY <2>1, <2>2, Actors DEF Waits
  <2>3. CASE Sched \notin S
    BY <2>1, <2>3 DEF Waits
  <2> QED
    BY <2>2, <2>3
<1> QED
  BY <1>3, <1>4

(* Nobody waits in a circle, up to the first of the three races: who waits *)
(* for the lock of a text with another locked does so in xuncore, for one  *)
(* of the free list, which those who wait there have not locked; and whom  *)
(* sched is to bring in has nothing locked.                                *)
THEOREM TextsNoCycle == Spec /\ []NoKnownRace => []NoCycle
<1> DEFINE Whole == IInv /\ Order
<1>1. Init => Whole
  BY IInvInit, OrderInit
<1>2. Whole /\ NoKnownRace /\ [Next]_vars => Whole'
  BY IInvNext, OrderNext DEF NoKnownRace, NoRace
<1>3. Whole /\ NoKnownRace => NoCycle
  BY OrderCycle DEF NoKnownRace
<1> QED
  BY <1>1, <1>2, <1>3, PTL DEF Spec
=============================================================================

----------------------------- MODULE BioProofs -----------------------------
(***************************************************************************)
(* Proofs about Bio for any pool, any set of processes and any requests.   *)
(*                                                                         *)
(* The inductive invariant says, beyond the properties proved, where each  *)
(* process can be with which locals (Control), what the flags say about    *)
(* the block a buffer has (Keys), who owns a busy buffer (Owners) and what *)
(* a sleeper waits for (Sleepers).  Lists are reasoned about as sets       *)
(* without repetition; the first lemmas say what each list operation does  *)
(* to both.                                                                *)
(*                                                                         *)
(* The last two parts are about executions without the known races: DInv   *)
(* says that a block has one buffer and a clean buffer what the platter    *)
(* has, SInv that the buffer a process has is that of the block it asked   *)
(* for, and from these the cache implements BlockStore.                    *)
(***************************************************************************)
EXTENDS Bio, SeqFacts

FreeSet == ToSet(lru) \cup ToSet(age)
QueueSet == ToSet(ioq)

Asked == {r \in Request : /\ r.op \in {"read", "reada", "write", "update", "fsync"} => r.blk \in Blk
                          /\ r.op = "reada" => r.ra # r.blk}

Searching == {"getblk", "hit", "getnew", "aged", "got"}

ControlOf(p) ==
    /\ pc[p] # "user" => req[p] \in Asked
    /\ pc[p] \in {"hit", "aged", "written", "got"} => cand[p] \in Buf
    /\ pc[p] \in {"biowait", "wwait", "fwait", "use", "wild"} => bp[p] \in Buf
    /\ bp[p] \in Buf => \/ pc[p] \in {"biowait", "wwait", "fwait", "use", "wild"}
                        \/ pc[p] \in {"ra", "reap"} /\ req[p].op = "reada"
                        \/ pc[p] \in Searching /\ ForReadAhead(p)
    /\ pc[p] \in {"incore", "ra", "reap"} => req[p].op = "reada"
    /\ pc[p] = "incore" => want[p] = req[p].blk
    /\ pc[p] = "wwait" => req[p].op \in {"write", "update"}
    /\ pc[p] = "biowait" => req[p].op \in {"read", "reada", "update"}
    /\ pc[p] \in {"blkflush", "fwait"} => req[p].op = "fsync"
    /\ pc[p] \in {"getblk", "hit"} => want[p] \in Blk /\ req[p].op # "scratch"
    /\ pc[p] \in Searching => want[p] \in Blk \/ req[p].op = "scratch"
    /\ pc[p] \in Searching \cup {"use"} =>
           req[p].op \in {"read", "reada", "write", "update", "scratch"}
    /\ pc[p] = "hit" => cpu = p
    /\ pc[p] = "got" => bp[p] # cand[p]

Control == \A p \in Proc : ControlOf(p)

KeysOf(b) ==
    /\ key[b] = NoBlk => "INVAL" \in flags[b] \/ {"DONE", "ERROR"} \subseteq flags[b]
    /\ "ERROR" \in flags[b] => "DONE" \in flags[b]
    /\ "DELWRI" \in flags[b] => key[b] \in Blk /\ "ERROR" \notin flags[b] /\ "DONE" \in flags[b]
    /\ b \in QueueSet => key[b] \in Blk
    /\ b \in FreeSet /\ "ERROR" \in flags[b] => key[b] = NoBlk

LocalKeysOf(p) ==
    /\ pc[p] = "hit" => key[cand[p]] = want[p] \/ {"DONE", "ERROR"} \subseteq flags[cand[p]]
    /\ pc[p] = "got" => /\ "ERROR" \notin flags[cand[p]] \/ key[cand[p]] = NoBlk
                        /\ req[p].op # "scratch" => \/ key[cand[p]] \in Blk
                                                    \/ "DONE" \in flags[cand[p]]
    /\ pc[p] = "got" => cand[p] \notin QueueSet
    /\ pc[p] = "use" => bp[p] \notin QueueSet
    /\ pc[p] = "use" /\ req[p].op = "write" => "ERROR" \notin flags[bp[p]] \/ key[bp[p]] = NoBlk
    /\ bp[p] \in Buf /\ pc[p] \notin {"use", "wild"} => "DONE" \in flags[bp[p]] \/ bp[p] \in QueueSet

Keys == (\A b \in Buf : KeysOf(b)) /\ (\A p \in Proc : LocalKeysOf(p))

Lists == /\ IsInjective(lru) /\ IsInjective(age) /\ IsInjective(ioq)
         /\ ToSet(lru) \cap ToSet(age) = {}

OwnersOf(b) ==
    /\ b \in FreeSet <=> "BUSY" \notin flags[b]
    /\ b \in FreeSet => "ASYNC" \notin flags[b]
    /\ b \in QueueSet => "BUSY" \in flags[b] /\ "DONE" \notin flags[b]
    /\ "BUSY" \in flags[b] => \/ "ASYNC" \in flags[b] /\ b \in QueueSet
                              \/ "ASYNC" \notin flags[b] /\ \E p \in Proc : Holds(p, b)
    /\ \A p \in Proc : Holds(p, b) => "BUSY" \in flags[b] /\ "ASYNC" \notin flags[b]
    /\ \A p, q \in Proc : Holds(p, b) /\ Holds(q, b) => p = q

Owners == \A b \in Buf : OwnersOf(b)

SleepersOf(p) ==
    chan[p] # NoBuf =>
        \/ pc[p] \in {"getblk", "blkflush"} /\ chan[p] \in Buf /\ {"BUSY", "WANTED"} \subseteq flags[chan[p]]
        \/ pc[p] \in {"biowait", "wwait", "fwait"} /\ chan[p] = bp[p] /\ "DONE" \notin flags[bp[p]]
        \/ pc[p] = "getnew" /\ chan[p] = FreeList /\ freewant /\ FreeSet = {}

Sleepers == \A p \in Proc : SleepersOf(p)

IInv == TypeOK /\ Control /\ Keys /\ Lists /\ Owners /\ Sleepers

-----------------------------------------------------------------------------
(* The lists *)

LEMMA UnlinkSimple ==
    ASSUME NEW s, Simple(s, Buf), NEW b
    PROVE  Simple(Unlink(s, b), Buf) /\ ToSet(Unlink(s, b)) = ToSet(s) \ {b}
<1>1. CASE b \in ToSet(s)
  <2> DEFINE i == CHOOSE i \in DOMAIN s : s[i] = b
  <2>1. i \in DOMAIN s /\ s[i] = b
    BY <1>1 DEF ToSet
  <2>2. DOMAIN s = 1..Len(s)
    BY LenProperties DEF Simple
  <2>3. Unlink(s, b) = RemoveAt(s, i)
    BY <1>1 DEF Unlink
  <2> HIDE DEF i
  <2> QED BY <2>1, <2>2, <2>3, RemoveSimple
<1>2. CASE b \notin ToSet(s)
  BY <1>2 DEF Unlink
<1> QED BY <1>1, <1>2

(* disksort always finds a place in a queue that is not empty. *)
LEMMA SortPlaceInQueue ==
    ASSUME TypeOK, NEW q \in Seq(Buf), q # <<>>, NEW b \in Buf, NEW rd \in BOOLEAN
    PROVE  SortPlace(q, b, rd) \in 1..Len(q)
<1>1. Len(q) \in Nat /\ Len(q) # 0 /\ DOMAIN q = 1..Len(q)
  BY EmptySeq, LenProperties
<1>2. \A c \in Buf : CylOf(c) \in Nat
  BY DataAssumption DEF CylOf, TypeOK
<1> DEFINE W == {i \in SortWindow(q, rd) : CylOf(q[i]) <= CylOf(b)}
           firstWrite == {i \in DOMAIN q : /\ rd /\ ~IsRead(flags[q[i]])
                                           /\ \A j \in 1..(i - 1) : IsRead(flags[q[j]])}
           best(i) == \A j \in W : \/ CylOf(q[j]) < CylOf(q[i])
                                   \/ CylOf(q[j]) = CylOf(q[i]) /\ j <= i
<1>3. W \subseteq DOMAIN q /\ firstWrite \subseteq DOMAIN q
  BY DEF SortWindow
<1>4. \A i \in W : q[i] \in Buf /\ CylOf(q[i]) \in Nat /\ CylOf(q[i]) <= CylOf(b)
  BY <1>1, <1>2, <1>3, ElementOfSeq
<1>5. ASSUME W # {} PROVE \E i \in W : best(i)
  <2> HIDE DEF W
  <2> DEFINE C == {CylOf(q[i]) : i \in W}
  <2>1. C \subseteq Nat /\ C # {} /\ \A c \in C : c <= CylOf(b)
    BY <1>4, <1>5
  <2>2. CylOf(b) \in Nat
    BY <1>2
  <2> HIDE DEF C
  <2>3. PICK c \in C : \A d \in C : d <= c
    BY <2>1, <2>2, GreatestNat
  <2> DEFINE I == {i \in W : CylOf(q[i]) = c}
  <2>4. I \subseteq Nat /\ I # {} /\ \A i \in I : i <= Len(q)
    BY <1>1, <1>3, <2>3 DEF C
  <2> HIDE DEF I
  <2>5. PICK i \in I : \A j \in I : j <= i
    BY <1>1, <2>4, GreatestNat
  <2>6. i \in W /\ CylOf(q[i]) = c
    BY DEF I
  <2>7. ASSUME NEW j \in W
        PROVE  CylOf(q[j]) < CylOf(q[i]) \/ (CylOf(q[j]) = CylOf(q[i]) /\ j <= i)
    <3>1. CylOf(q[j]) <= c /\ CylOf(q[j]) \in Nat /\ c \in Nat
      BY <1>4, <2>1, <2>3 DEF C
    <3>2. CASE CylOf(q[j]) = c
      BY <3>2, <2>5, <2>6 DEF I
    <3>3. CASE CylOf(q[j]) < c
      BY <3>3, <2>6
    <3> QED BY <3>1, <3>2, <3>3
  <2> QED BY <2>6, <2>7
<1>6. SortPlace(q, b, rd) = CASE W # {} -> CHOOSE i \in W : best(i)
                              [] W = {} /\ firstWrite # {} -> CHOOSE i \in firstWrite : TRUE
                              [] OTHER -> Len(q)
  BY DEF SortPlace
<1> HIDE DEF W, firstWrite, best
<1>7. CASE W # {}
  <2>1. (CHOOSE i \in W : best(i)) \in W
    BY <1>5, <1>7
  <2> QED BY <1>1, <1>3, <1>6, <1>7, <2>1
<1>8. CASE W = {} /\ firstWrite # {}
  <2>1. (CHOOSE i \in firstWrite : TRUE) \in firstWrite
    BY <1>8
  <2> QED BY <1>1, <1>3, <1>6, <1>8, <2>1
<1>9. CASE W = {} /\ firstWrite = {}
  BY <1>1, <1>6, <1>9
<1> QED BY <1>7, <1>8, <1>9

LEMMA DiskSortSimple ==
    ASSUME TypeOK, NEW q, Simple(q, Buf), NEW b \in Buf, b \notin ToSet(q), NEW rd \in BOOLEAN
    PROVE  Simple(DiskSort(q, b, rd), Buf) /\ ToSet(DiskSort(q, b, rd)) = ToSet(q) \cup {b}
<1>1. q \in Seq(Buf) /\ Len(q) \in Nat
  BY LenProperties DEF Simple
<1>2. CASE q = <<>>
  <2>1. DiskSort(q, b, rd) = Append(q, b)
    BY <1>2 DEF DiskSort
  <2> QED BY <2>1, AppendSimple
<1>3. CASE q # <<>>
  <2> DEFINE k == SortPlace(q, b, rd) + 1
  <2>1. k \in 1..(Len(q) + 1)
    BY <1>1, <1>3, SortPlaceInQueue
  <2>2. DiskSort(q, b, rd) = InsertAt(q, k, b)
    BY <1>3 DEF DiskSort
  <2> HIDE DEF k
  <2> QED BY <2>1, <2>2, InsertSimple
<1> QED BY <1>2, <1>3

LEMMA SimpleLists ==
    ASSUME TypeOK, Lists
    PROVE  Simple(lru, Buf) /\ Simple(age, Buf) /\ Simple(ioq, Buf)
BY DEF TypeOK, Lists, Simple

(* notavail takes exactly one buffer off the free lists. *)
LEMMA TakeOffLists ==
    ASSUME TypeOK, Lists, NEW b \in Buf, TakeOff(b)
    PROVE  /\ lru' \in Seq(Buf) /\ age' \in Seq(Buf)
           /\ IsInjective(lru') /\ IsInjective(age') /\ ToSet(lru') \cap ToSet(age') = {}
           /\ FreeSet' = FreeSet \ {b}
<1>1. /\ Simple(lru', Buf) /\ ToSet(lru') = ToSet(lru) \ {b}
      /\ Simple(age', Buf) /\ ToSet(age') = ToSet(age) \ {b}
  BY SimpleLists, UnlinkSimple DEF TakeOff
<1>2. FreeSet' = ToSet(lru') \cup ToSet(age')
  BY DEF FreeSet
<1> QED BY <1>1, <1>2 DEF Simple, Lists, FreeSet

(* brelse puts it back on exactly one. *)
LEMMA BrelseLists ==
    ASSUME TypeOK, Lists, NEW b \in Buf, b \notin FreeSet, NEW fl, Brelse(b, fl)
    PROVE  /\ lru' \in Seq(Buf) /\ age' \in Seq(Buf)
           /\ IsInjective(lru') /\ IsInjective(age') /\ ToSet(lru') \cap ToSet(age') = {}
           /\ FreeSet' = FreeSet \cup {b}
<1>1. Simple(lru, Buf) /\ Simple(age, Buf) /\ b \notin ToSet(lru) /\ b \notin ToSet(age)
  BY SimpleLists DEF FreeSet
<1>2. \/ age' = Cons(b, age) /\ lru' = lru
      \/ age' = Append(age, b) /\ lru' = lru
      \/ age' = age /\ lru' = Append(lru, b)
  BY DEF Brelse
<1>3. /\ Simple(lru', Buf) /\ Simple(age', Buf)
      /\ \/ ToSet(lru') = ToSet(lru) \cup {b} /\ ToSet(age') = ToSet(age)
         \/ ToSet(lru') = ToSet(lru) /\ ToSet(age') = ToSet(age) \cup {b}
  <2>1. Simple(Cons(b, age), Buf) /\ ToSet(Cons(b, age)) = ToSet(age) \cup {b}
    BY <1>1, ConsSimple
  <2>2. Simple(Append(age, b), Buf) /\ ToSet(Append(age, b)) = ToSet(age) \cup {b}
    BY <1>1, AppendSimple
  <2>3. Simple(Append(lru, b), Buf) /\ ToSet(Append(lru, b)) = ToSet(lru) \cup {b}
    BY <1>1, AppendSimple
  <2> QED BY <1>1, <1>2, <2>1, <2>2, <2>3
<1>4. FreeSet' = ToSet(lru') \cup ToSet(age')
  BY DEF FreeSet
<1> QED BY <1>1, <1>3, <1>4 DEF Simple, Lists, FreeSet

(* The driver gets a buffer it does not have, once. *)
LEMMA StrategyLists ==
    ASSUME TypeOK, Lists, NEW b \in Buf, b \notin QueueSet, NEW fl, Strategy(b, fl)
    PROVE  ioq' \in Seq(Buf) /\ IsInjective(ioq') /\ QueueSet' = QueueSet \cup {b}
<1>1. Simple(ioq, Buf) /\ b \notin ToSet(ioq)
  BY SimpleLists DEF QueueSet
<1>2. ioq' = DiskSort(ioq, b, IsRead(fl)) /\ IsRead(fl) \in BOOLEAN
  BY DEF Strategy, IsRead
<1>3. Simple(ioq', Buf) /\ ToSet(ioq') = ToSet(ioq) \cup {b}
  BY <1>1, <1>2, DiskSortSimple
<1> QED BY <1>3 DEF Simple, QueueSet

(* The interrupt takes the head off. *)
LEMMA InterruptLists ==
    ASSUME TypeOK, Lists, ioq # <<>>, ioq' = Tail(ioq)
    PROVE  /\ Head(ioq) \in Buf /\ Head(ioq) \in QueueSet
           /\ ioq' \in Seq(Buf) /\ IsInjective(ioq') /\ QueueSet' = QueueSet \ {Head(ioq)}
<1>1. Simple(ioq, Buf)
  BY SimpleLists
<1>2. QueueSet' = ToSet(ioq')
  BY DEF QueueSet
<1> QED BY <1>1, <1>2, TailSimple DEF Simple, QueueSet

(* Nothing free: both lists are empty. *)
LEMMA EmptyPool ==
    ASSUME TypeOK
    PROVE  FreeSet = {} <=> lru = <<>> /\ age = <<>>
BY NoElements DEF TypeOK, FreeSet

(* The head of AGE, else of LRU, is a free buffer. *)
LEMMA OldestIsFree ==
    ASSUME TypeOK, Lists, age # <<>> \/ lru # <<>>
    PROVE  Oldest \in Buf /\ Oldest \in FreeSet
BY SimpleLists, TailSimple DEF Oldest, FreeSet

-----------------------------------------------------------------------------
(* A step of one process p that touches at most one buffer x *)

(* For everybody but p and x, all is as it was, as far as the invariant is *)
(* concerned; and x is no other process's.                                 *)
Lasting == {"DONE", "ERROR", "BUSY", "ASYNC", "DELWRI"}

SameBuffer(b) ==
    /\ key'[b] = key[b]
    /\ \A f \in Lasting : f \in flags'[b] <=> f \in flags[b]
    /\ "INVAL" \in flags[b] => "INVAL" \in flags'[b]
    /\ b \in FreeSet' <=> b \in FreeSet
    /\ b \in QueueSet' <=> b \in QueueSet

SameProcess(q) ==
    /\ pc'[q] = pc[q] /\ req'[q] = req[q] /\ want'[q] = want[q]
    /\ cand'[q] = cand[q] /\ bp'[q] = bp[q] /\ chan'[q] \in {chan[q], NoBuf}

Frame(p, x) ==
    /\ cpu \in {p, Idle}
    /\ \A b \in Buf \ {x} : SameBuffer(b) /\ (Holds(p, b)' <=> Holds(p, b))
    /\ \A q \in Proc \ {p} : SameProcess(q) /\ ~Holds(q, x)

(* Nobody keeps sleeping on a buffer that is no longer busy and wanted, or *)
(* for a free buffer when there is one.                                    *)
WakesAll(p) ==
    /\ \A b \in Buf : {"BUSY", "WANTED"} \subseteq flags[b] =>
           \/ {"BUSY", "WANTED"} \subseteq flags'[b]
           \/ \A q \in Proc \ {p} : chan'[q] # b
    /\ freewant /\ FreeSet = {} => \/ freewant' /\ FreeSet' = {}
                                  \/ \A q \in Proc \ {p} : chan'[q] # FreeList

LEMMA OtherProcesses ==
    ASSUME IInv, NEW p \in Proc, NEW x, Frame(p, x), NEW q \in Proc \ {p}
    PROVE  ControlOf(q)' /\ LocalKeysOf(q)'
<1>1. ControlOf(q) /\ LocalKeysOf(q) /\ SameProcess(q) /\ ~Holds(q, x)
  BY DEF IInv, Control, Keys, Frame
<1>2. pc[q] # "hit"
  BY <1>1, ProcAssumption DEF ControlOf, Frame
<1>3. ControlOf(q)'
  BY <1>1, <1>2 DEF ControlOf, SameProcess, ForReadAhead
<1>4. pc[q] = "got" => cand[q] \in Buf \ {x} /\ SameBuffer(cand[q])
  BY <1>1 DEF ControlOf, Holds, Frame
<1>5. bp[q] \in Buf => bp[q] \in Buf \ {x} /\ SameBuffer(bp[q])
  BY <1>1 DEF Holds, Frame
<1>6. pc[q] = "use" => bp[q] \in Buf
  BY <1>1 DEF ControlOf
<1>7. LocalKeysOf(q)'
  BY <1>1, <1>2, <1>4, <1>5, <1>6 DEF LocalKeysOf, SameProcess, SameBuffer, Lasting
<1> QED BY <1>3, <1>7

LEMMA OtherBuffers ==
    ASSUME IInv, NEW p \in Proc, NEW x, Frame(p, x), NEW b \in Buf \ {x}
    PROVE  KeysOf(b)' /\ OwnersOf(b)'
<1>1. KeysOf(b) /\ OwnersOf(b) /\ SameBuffer(b)
  BY DEF IInv, Keys, Owners, Frame
<1>2. KeysOf(b)'
  BY <1>1 DEF KeysOf, SameBuffer, Lasting
<1>3. \A q \in Proc : Holds(q, b)' <=> Holds(q, b)
  BY DEF Frame, SameProcess, Holds
<1>4. OwnersOf(b)'
  BY <1>1, <1>3 DEF OwnersOf, SameBuffer, Lasting
<1> QED BY <1>2, <1>4

LEMMA OtherSleepers ==
    ASSUME IInv, NEW p \in Proc, NEW x, Frame(p, x), WakesAll(p), NEW q \in Proc \ {p}
    PROVE  SleepersOf(q)'
<1>1. ControlOf(q) /\ SleepersOf(q) /\ SameProcess(q) /\ ~Holds(q, x)
  BY DEF IInv, Control, Sleepers, Frame
<1>2. SUFFICES ASSUME chan'[q] # NoBuf PROVE SleepersOf(q)'
  BY DEF SleepersOf
<1>3. chan'[q] = chan[q] /\ chan[q] # NoBuf
  BY <1>1, <1>2 DEF SameProcess
<1>4. CASE pc[q] \in {"getblk", "blkflush"} /\ chan[q] \in Buf /\ {"BUSY", "WANTED"} \subseteq flags[chan[q]]
  BY <1>1, <1>3, <1>4 DEF SleepersOf, WakesAll, SameProcess
<1>5. CASE pc[q] \in {"biowait", "wwait", "fwait"} /\ chan[q] = bp[q] /\ "DONE" \notin flags[bp[q]]
  <2>1. bp[q] \in Buf \ {x}
    BY <1>1, <1>5 DEF ControlOf, Holds
  <2>2. "DONE" \notin flags'[bp[q]]
    BY <1>5, <2>1 DEF Frame, SameBuffer, Lasting
  <2> QED BY <1>1, <1>3, <1>5, <2>2 DEF SleepersOf, SameProcess
<1>6. CASE pc[q] = "getnew" /\ chan[q] = FreeList /\ freewant /\ FreeSet = {}
  BY <1>1, <1>3, <1>6 DEF SleepersOf, WakesAll, SameProcess
<1> QED BY <1>1, <1>3, <1>4, <1>5, <1>6 DEF SleepersOf

LEMMA OneProcess ==
    ASSUME IInv, NEW p \in Proc, NEW x, Frame(p, x), WakesAll(p), TypeOK', Lists',
           ControlOf(p)', LocalKeysOf(p)', SleepersOf(p)',
           x \in Buf => KeysOf(x)' /\ OwnersOf(x)'
    PROVE  IInv'
<1>1. \A q \in Proc : ControlOf(q)' /\ LocalKeysOf(q)'
  BY OtherProcesses
<1>2. \A b \in Buf : KeysOf(b)' /\ OwnersOf(b)'
  BY OtherBuffers
<1>3. \A q \in Proc : SleepersOf(q)'
  BY OtherSleepers
<1> QED BY <1>1, <1>2, <1>3 DEF IInv, Control, Keys, Owners, Sleepers

(* A step that leaves buffers, lists and sleepers alone. *)
LEMMA QuietStep ==
    ASSUME IInv, NEW p \in Proc, cpu \in {p, Idle}, chan[p] = NoBuf,
           UNCHANGED <<flags, key, lru, age, freewant, ioq, chan>>,
           \A q \in Proc \ {p} : SameProcess(q),
           \A b \in Buf : Holds(p, b)' <=> Holds(p, b),
           TypeOK', ControlOf(p)', LocalKeysOf(p)'
    PROVE  IInv'
<1>1. FreeSet' = FreeSet /\ QueueSet' = QueueSet
  BY DEF FreeSet, QueueSet
<1>2. FreeList \notin Buf /\ FreeList # NoBuf
  BY PoolAssumption
<1>3. \A q \in Proc : ~Holds(q, FreeList)
  BY <1>2 DEF Holds, IInv, TypeOK
<1>4. Frame(p, FreeList)
  BY <1>1, <1>3 DEF Frame, SameBuffer
<1>5. WakesAll(p)
  BY <1>1 DEF WakesAll
<1>6. Lists'
  BY DEF IInv, Lists
<1>7. SleepersOf(p)'
  BY DEF SleepersOf
<1> QED BY <1>2, <1>4, <1>5, <1>6, <1>7, OneProcess

(* A step in which p gives up a buffer it holds by brelse. *)
LEMMA ReleaseStep ==
    ASSUME IInv, NEW p \in Proc, cpu \in {p, Idle}, chan[p] = NoBuf,
           NEW x \in Buf, Holds(p, x), x \notin QueueSet, NEW fl, Brelse(x, fl),
           fl \subseteq Flag,
           "WANTED" \in flags[x] => "WANTED" \in fl,
           "ERROR" \in fl => "DONE" \in fl /\ "DELWRI" \notin fl,
           "DELWRI" \in fl => key[x] \in Blk /\ "DONE" \in fl,
           key[x] = NoBlk => "INVAL" \in fl \/ {"DONE", "ERROR"} \subseteq fl,
           UNCHANGED ioq,
           \A q \in Proc \ {p} : /\ pc'[q] = pc[q] /\ req'[q] = req[q] /\ want'[q] = want[q]
                                 /\ cand'[q] = cand[q] /\ bp'[q] = bp[q],
           ~Holds(p, x)', \A b \in Buf \ {x} : Holds(p, b)' <=> Holds(p, b),
           TypeOK', ControlOf(p)', LocalKeysOf(p)'
    PROVE  IInv'
<1>1. OwnersOf(x) /\ KeysOf(x) /\ x \notin FreeSet
  BY DEF IInv, Owners, Keys, OwnersOf
<1>2. /\ IsInjective(lru') /\ IsInjective(age') /\ ToSet(lru') \cap ToSet(age') = {}
      /\ FreeSet' = FreeSet \cup {x} /\ QueueSet' = QueueSet
  BY <1>1, BrelseLists DEF IInv, QueueSet
<1>3. Lists'
  BY <1>2 DEF IInv, Lists
<1>4. /\ flags' = [flags EXCEPT ![x] = fl \ {"WANTED", "BUSY", "ASYNC", "AGE"}]
      /\ key' = IF "ERROR" \in fl THEN [key EXCEPT ![x] = NoBlk] ELSE key
  BY DEF Brelse
<1>5. \A q \in Proc : /\ "WANTED" \in fl /\ chan[q] = x => chan'[q] = NoBuf
                      /\ freewant /\ chan[q] = FreeList => chan'[q] = NoBuf
                      /\ chan'[q] \in {NoBuf, chan[q]}
  <2> DEFINE C == (IF "WANTED" \in fl THEN {x} ELSE {})
                  \cup (IF freewant THEN {FreeList} ELSE {})
  <2>1. chan' = [q \in Proc |-> IF chan[q] \in C THEN NoBuf ELSE chan[q]]
    BY DEF Brelse, Wakeup
  <2>2. "WANTED" \in fl => x \in C
    OBVIOUS
  <2>3. freewant => FreeList \in C
    OBVIOUS
  <2> HIDE DEF C
  <2> QED BY <2>1, <2>2, <2>3
<1>6. flags \in [Buf -> SUBSET Flag] /\ key \in [Buf -> Blk \cup {NoBlk}]
  BY DEF IInv, TypeOK
<1>7. \A b \in Buf \ {x} : flags'[b] = flags[b] /\ key'[b] = key[b]
  BY <1>4, <1>6
<1>8. /\ flags'[x] = fl \ {"WANTED", "BUSY", "ASYNC", "AGE"}
      /\ key'[x] = IF "ERROR" \in fl THEN NoBlk ELSE key[x]
  BY <1>4, <1>6
<1>9. \A q \in Proc \ {p} : ~Holds(q, x)
  BY <1>1 DEF OwnersOf
<1>10. Frame(p, x)
  BY <1>2, <1>5, <1>7, <1>9 DEF Frame, SameBuffer, SameProcess
<1>11. WakesAll(p)
  <2>1. FreeList # NoBuf /\ NoBuf \notin Buf
    BY PoolAssumption
  <2>2. ASSUME NEW b \in Buf, {"BUSY", "WANTED"} \subseteq flags[b]
        PROVE  {"BUSY", "WANTED"} \subseteq flags'[b] \/ \A q \in Proc \ {p} : chan'[q] # b
    <3>1. CASE b = x
      <4>1. "WANTED" \in fl
        BY <2>2, <3>1
      <4>2. \A q \in Proc : chan'[q] # x
        <5> TAKE q \in Proc
        <5>2. chan[q] = x => chan'[q] = NoBuf
          BY <1>5, <4>1
        <5>3. chan[q] # x => chan'[q] \in {NoBuf, chan[q]}
          BY <1>5
        <5> QED BY <2>1, <5>2, <5>3
      <4> QED BY <3>1, <4>2
    <3>2. CASE b # x
      BY <1>7, <2>2, <3>2
    <3> QED BY <3>1, <3>2
  <2>3. freewant => \A q \in Proc \ {p} : chan'[q] # FreeList
    BY <1>5, <2>1
  <2> QED BY <2>2, <2>3 DEF WakesAll
<1>12. KeysOf(x)'
  BY <1>1, <1>2, <1>6, <1>8, DataAssumption DEF KeysOf
<1>13. OwnersOf(x)'
  <2>1. \A q \in Proc : ~Holds(q, x)'
    BY <1>9 DEF Holds
  <2> QED BY <1>2, <1>8, <2>1 DEF OwnersOf
<1>14. SleepersOf(p)'
  BY <1>5 DEF SleepersOf
<1> QED BY <1>3, <1>10, <1>11, <1>12, <1>13, <1>14, OneProcess

(* A step in which p hands a buffer to the driver: one it holds, or one it *)
(* has just taken off a free list.                                         *)
LEMMA SubmitStep ==
    ASSUME IInv, NEW p \in Proc, cpu \in {p, Idle}, chan[p] = NoBuf,
           NEW x \in Buf, Holds(p, x) \/ x \in FreeSet, x \notin QueueSet,
           NEW fl, Strategy(x, fl),
           Holds(p, x) => UNCHANGED <<lru, age>>, x \in FreeSet => TakeOff(x),
           fl \subseteq Flag, "BUSY" \in fl, {"DONE", "ERROR", "DELWRI"} \cap fl = {},
           "WANTED" \in flags[x] => "WANTED" \in fl,
           key[x] \in Blk,
           UNCHANGED <<key, freewant, chan>>,
           \A q \in Proc \ {p} : SameProcess(q),
           Holds(p, x)' <=> "ASYNC" \notin fl, \A b \in Buf \ {x} : Holds(p, b)' <=> Holds(p, b),
           TypeOK', ControlOf(p)', LocalKeysOf(p)'
    PROVE  IInv'
<1>1. OwnersOf(x) /\ KeysOf(x)
  BY DEF IInv, Owners, Keys
<1>2. IsInjective(ioq') /\ QueueSet' = QueueSet \cup {x}
  BY StrategyLists DEF IInv
<1>3. /\ IsInjective(lru') /\ IsInjective(age') /\ ToSet(lru') \cap ToSet(age') = {}
      /\ FreeSet' = FreeSet \ {x}
  <2>1. CASE x \in FreeSet
    BY <2>1, TakeOffLists DEF IInv
  <2>2. CASE x \notin FreeSet
    BY <2>2 DEF IInv, Lists, FreeSet
  <2> QED BY <2>1, <2>2
<1>4. Lists'
  BY <1>2, <1>3 DEF Lists
<1>5. flags \in [Buf -> SUBSET Flag] /\ flags' = [flags EXCEPT ![x] = fl]
  BY DEF IInv, TypeOK, Strategy
<1>6. flags'[x] = fl /\ key' = key /\ \A b \in Buf \ {x} : flags'[b] = flags[b]
  BY <1>5
<1>7. \A q \in Proc \ {p} : ~Holds(q, x)
  BY <1>1 DEF OwnersOf
<1>8. Frame(p, x)
  BY <1>2, <1>3, <1>6, <1>7 DEF Frame, SameBuffer
<1>9. WakesAll(p)
  BY <1>3, <1>6 DEF WakesAll
<1>10. KeysOf(x)'
  BY <1>2, <1>3, <1>6, DataAssumption DEF KeysOf
<1>11. OwnersOf(x)'
  <2>1. \A q \in Proc \ {p} : ~Holds(q, x)'
    BY <1>7 DEF Holds, SameProcess
  <2> QED BY <1>2, <1>3, <1>6, <2>1 DEF OwnersOf
<1>12. SleepersOf(p)'
  BY DEF SleepersOf
<1> QED BY <1>4, <1>8, <1>9, <1>10, <1>11, <1>12, OneProcess

-----------------------------------------------------------------------------
(* One lemma per action *)

LEMMA StartStep == ASSUME IInv, NEW p \in Proc, Start(p) PROVE IInv'
<1>1. /\ pc[p] = "user" /\ chan[p] = NoBuf /\ cpu \in {p, Idle} /\ cpu' = p
      /\ UNCHANGED <<flags, key, data, lru, age, freewant, ioq, disk, cand, bp, chan, reply>>
  BY DEF Start, Runs, Goto, pool
<1>2. PICK r \in Requests : /\ req' = [req EXCEPT ![p] = r]
                            /\ want' = [want EXCEPT ![p] = r.blk]
                            /\ pc' = [pc EXCEPT ![p] = Entry[r.op]]
  BY DEF Start, Goto
<1>3. TypeOK /\ ControlOf(p) /\ LocalKeysOf(p)
  BY DEF IInv, Control, Keys
<1>4. r \in Request /\ r \in Asked
  BY RequestAssumption DEF Asked
<1>5. r.op \in {"read", "reada", "write", "update", "scratch", "sync", "close", "fsync"}
      /\ r.blk \in Blk \cup {NoBlk}
  BY <1>4 DEF Request
<1>6. \/ r.op = "reada" /\ Entry[r.op] = "incore"
      \/ r.op \in {"read", "write", "update"} /\ Entry[r.op] = "getblk"
      \/ r.op = "scratch" /\ Entry[r.op] = "getnew"
      \/ r.op \in {"sync", "close"} /\ Entry[r.op] = "flush"
      \/ r.op = "fsync" /\ Entry[r.op] = "blkflush"
  <2>1. /\ Entry["read"] = "getblk" /\ Entry["write"] = "getblk" /\ Entry["update"] = "getblk"
        /\ Entry["reada"] = "incore" /\ Entry["scratch"] = "getnew"
        /\ Entry["sync"] = "flush" /\ Entry["close"] = "flush" /\ Entry["fsync"] = "blkflush"
    BY DEF Entry
  <2> QED BY <1>5, <2>1
<1>7. TypeOK'
  BY <1>1, <1>2, <1>3, <1>4, <1>5, <1>6 DEF TypeOK, Where
<1>8. req'[p] = r /\ want'[p] = r.blk /\ pc'[p] = Entry[r.op] /\ bp'[p] = bp[p] /\ bp[p] \notin Buf
  BY <1>1, <1>2, <1>3 DEF TypeOK, ControlOf, Searching
<1>9. ControlOf(p)'
  BY <1>1, <1>4, <1>6, <1>8 DEF ControlOf, Searching, Asked
<1>10. LocalKeysOf(p)'
  BY <1>6, <1>8 DEF LocalKeysOf
<1>11. \A q \in Proc \ {p} : SameProcess(q)
  BY <1>1, <1>2, <1>3 DEF SameProcess, TypeOK
<1>12. \A b \in Buf : Holds(p, b)' <=> Holds(p, b)
  BY <1>1, <1>6, <1>8 DEF Holds
<1> QED BY <1>1, <1>7, <1>9, <1>10, <1>11, <1>12, QuietStep

LEMMA IncoreStep == ASSUME IInv, NEW p \in Proc, Incore(p) PROVE IInv'
<1>1. /\ pc[p] = "incore" /\ chan[p] = NoBuf /\ cpu \in {p, Idle} /\ cpu' = p
      /\ UNCHANGED <<flags, key, data, lru, age, freewant, ioq, disk, req, want, cand, bp, chan, reply>>
      /\ \E at \in {"ra", "getblk"} : pc' = [pc EXCEPT ![p] = at]
  BY DEF Incore, Runs, Goto, pool
<1>2. TypeOK /\ ControlOf(p) /\ LocalKeysOf(p)
  BY DEF IInv, Control, Keys
<1>3. pc'[p] \in {"ra", "getblk"} /\ TypeOK'
  BY <1>1, <1>2 DEF TypeOK, Where
<1>5. ControlOf(p)'
  BY <1>1, <1>2, <1>3 DEF ControlOf, Searching, Asked
<1>6. LocalKeysOf(p)'
  BY <1>1, <1>2, <1>3 DEF LocalKeysOf, ControlOf, Searching
<1>7. \A q \in Proc \ {p} : SameProcess(q)
  BY <1>1, <1>2 DEF SameProcess, TypeOK
<1>8. \A b \in Buf : Holds(p, b)' <=> Holds(p, b)
  BY <1>1, <1>3 DEF Holds
<1> QED BY <1>1, <1>3, <1>5, <1>6, <1>7, <1>8, QuietStep

LEMMA ReadAheadStep == ASSUME IInv, NEW p \in Proc, ReadAhead(p) PROVE IInv'
<1>1. /\ pc[p] = "ra" /\ chan[p] = NoBuf /\ cpu \in {p, Idle}
      /\ UNCHANGED <<flags, key, data, lru, age, freewant, ioq, disk, req, cand, bp, chan, reply>>
      /\ \/ /\ req[p].ra # NoBlk /\ want' = [want EXCEPT ![p] = req[p].ra]
            /\ pc' = [pc EXCEPT ![p] = "getblk"]
         \/ want' = want /\ pc' = [pc EXCEPT ![p] = "reap"]
      /\ cpu' = p
  BY DEF ReadAhead, Runs, Goto, pool
<1>2. TypeOK /\ ControlOf(p) /\ LocalKeysOf(p) /\ QueueSet' = QueueSet
  BY <1>1 DEF IInv, Control, Keys, QueueSet
<1>r. req[p] \in Request /\ req[p].ra \in Blk \cup {NoBlk}
  <2>1. req[p] \in Request
    BY <1>1, <1>2 DEF ControlOf, Asked
  <2> QED BY <2>1 DEF Request
<1>3. /\ req'[p] = req[p] /\ bp'[p] = bp[p] /\ cand'[p] = cand[p] /\ req[p].ra \in Blk \cup {NoBlk}
      /\ \/ pc'[p] = "getblk" /\ want'[p] = req[p].ra /\ want'[p] \in Blk
         \/ pc'[p] = "reap" /\ want'[p] = want[p]
  BY <1>1, <1>2, <1>r DEF TypeOK, Where
<1>4. ControlOf(p)'
  BY <1>1, <1>2, <1>3 DEF TypeOK, ControlOf, ForReadAhead, Searching, Asked
<1>5. LocalKeysOf(p)'
  BY <1>1, <1>2, <1>3 DEF TypeOK, LocalKeysOf, ControlOf, ForReadAhead, Searching
<1>6. \A q \in Proc \ {p} : SameProcess(q)
  BY <1>1, <1>2 DEF SameProcess, TypeOK
<1>7. \A b \in Buf : Holds(p, b)' <=> Holds(p, b)
  BY <1>1, <1>2, <1>3 DEF Holds, ControlOf, TypeOK, ForReadAhead
<1>8. TypeOK'
  BY ZenonT(60), <1>1, <1>2, <1>3 DEF TypeOK, Where
<1> QED BY <1>1, <1>4, <1>5, <1>6, <1>7, <1>8, QuietStep

LEMMA ReapStep == ASSUME IInv, NEW p \in Proc, Reap(p) PROVE IInv'
<1>1. /\ pc[p] = "reap" /\ chan[p] = NoBuf /\ cpu \in {p, Idle}
      /\ UNCHANGED <<flags, key, data, lru, age, freewant, ioq, disk, cand, bp, chan, reply>>
      /\ \/ /\ bp[p] = NoBuf
            /\ req' = [req EXCEPT ![p].op = "read"]
            /\ want' = [want EXCEPT ![p] = req[p].blk]
            /\ pc' = [pc EXCEPT ![p] = "getblk"]
         \/ bp[p] # NoBuf /\ req' = req /\ want' = want /\ pc' = [pc EXCEPT ![p] = "biowait"]
      /\ cpu' = p
  BY DEF Reap, Runs, Goto, pool
<1>2. TypeOK /\ ControlOf(p) /\ LocalKeysOf(p) /\ QueueSet' = QueueSet
  BY <1>1 DEF IInv, Control, Keys, QueueSet
<1>r. req[p] \in Request /\ req[p].blk \in Blk /\ [req[p] EXCEPT !.op = "read"] \in Request
      /\ [req[p] EXCEPT !.op = "read"].op = "read" /\ [req[p] EXCEPT !.op = "read"].blk = req[p].blk
  <2>1. req[p] \in Request /\ req[p].blk \in Blk
    BY <1>1, <1>2 DEF ControlOf, Asked
  <2> QED BY <2>1 DEF Request
<1>3. /\ bp'[p] = bp[p] /\ cand'[p] = cand[p] /\ bp[p] \in Buf \cup {NoBuf} /\ NoBuf \notin Buf
      /\ \/ /\ pc'[p] = "getblk" /\ want'[p] \in Blk /\ bp[p] = NoBuf
            /\ req'[p] \in Request /\ req'[p].op = "read" /\ req'[p].blk \in Blk
         \/ pc'[p] = "biowait" /\ want'[p] = want[p] /\ req'[p] = req[p] /\ bp[p] \in Buf
  BY <1>1, <1>2, <1>r, PoolAssumption DEF TypeOK, Where
<1>4. ControlOf(p)'
  BY <1>1, <1>2, <1>3 DEF TypeOK, ControlOf, ForReadAhead, Searching, Asked
<1>5. LocalKeysOf(p)'
  BY <1>1, <1>2, <1>3 DEF TypeOK, LocalKeysOf, ControlOf, ForReadAhead, Searching
<1>6. \A q \in Proc \ {p} : SameProcess(q)
  BY <1>1, <1>2 DEF SameProcess, TypeOK
<1>7. \A b \in Buf : Holds(p, b)' <=> Holds(p, b)
  BY <1>1, <1>2, <1>3 DEF Holds, ControlOf, TypeOK, ForReadAhead
<1>8. TypeOK'
  BY ZenonT(60), <1>1, <1>2, <1>3 DEF TypeOK, Where
<1> QED BY <1>1, <1>4, <1>5, <1>6, <1>7, <1>8, QuietStep

LEMMA ScanStep == ASSUME IInv, NEW p \in Proc, Scan(p) PROVE IInv'
<1>1. /\ pc[p] = "getblk" /\ chan[p] = NoBuf /\ cpu \in {p, Idle}
      /\ UNCHANGED <<flags, key, data, lru, age, freewant, ioq, disk, req, want, bp, chan, reply>>
      /\ \/ /\ \E b \in Hits(want[p]) : cand' = [cand EXCEPT ![p] = b]
            /\ pc' = [pc EXCEPT ![p] = "hit"]
         \/ cand' = cand /\ pc' = [pc EXCEPT ![p] = "getnew"]
      /\ cpu' = p
  BY DEF Scan, Runs, Goto, pool
<1>2. TypeOK /\ ControlOf(p) /\ LocalKeysOf(p) /\ QueueSet' = QueueSet
  BY <1>1 DEF IInv, Control, Keys, QueueSet
<1>r. \A b \in Hits(want[p]) : b \in Buf /\ key[b] = want[p]
  BY DEF Hits
<1>3. /\ bp'[p] = bp[p] /\ req'[p] = req[p] /\ want'[p] = want[p] /\ cpu' = p
      /\ \/ pc'[p] = "hit" /\ cand'[p] \in Buf /\ key[cand'[p]] = want[p]
         \/ pc'[p] = "getnew" /\ cand'[p] = cand[p]
  BY <1>1, <1>2, <1>r DEF TypeOK, Where
<1>4. ControlOf(p)'
  BY <1>1, <1>2, <1>3 DEF TypeOK, ControlOf, ForReadAhead, Searching, Asked
<1>5. LocalKeysOf(p)'
  BY <1>1, <1>2, <1>3 DEF TypeOK, LocalKeysOf, ControlOf, ForReadAhead, Searching
<1>6. \A q \in Proc \ {p} : SameProcess(q)
  BY <1>1, <1>2 DEF SameProcess, TypeOK
<1>7. \A b \in Buf : Holds(p, b)' <=> Holds(p, b)
  BY <1>1, <1>2, <1>3 DEF Holds, ControlOf, TypeOK, ForReadAhead
<1>8. TypeOK'
  BY ZenonT(60), <1>1, <1>2, <1>3 DEF TypeOK, Where
<1> QED BY <1>1, <1>4, <1>5, <1>6, <1>7, <1>8, QuietStep

LEMMA GotReadyStep == ASSUME IInv, NEW p \in Proc, GotReady(p) PROVE IInv'
<1>1. /\ pc[p] = "got" /\ chan[p] = NoBuf /\ cpu \in {p, Idle}
      /\ UNCHANGED <<flags, key, data, lru, age, freewant, ioq, disk, req, want, chan, reply>>
      /\ ~ForReadAhead(p) /\ ("DONE" \in flags[cand[p]] \/ req[p].op \in {"write", "scratch"})
      /\ bp' = [bp EXCEPT ![p] = cand[p]]
      /\ cand' = [cand EXCEPT ![p] = NoBuf]
      /\ \/ req[p].op = "reada" /\ pc' = [pc EXCEPT ![p] = "ra"]
         \/ req[p].op # "reada" /\ pc' = [pc EXCEPT ![p] = "use"]
      /\ cpu' = p
  BY DEF GotReady, Runs, Goto, pool
<1>2. TypeOK /\ ControlOf(p) /\ LocalKeysOf(p) /\ QueueSet' = QueueSet
  BY <1>1 DEF IInv, Control, Keys, QueueSet
<1>r. cand[p] \in Buf /\ bp[p] \notin Buf
  BY <1>1, <1>2 DEF ControlOf, Searching
<1>3. /\ req'[p] = req[p] /\ want'[p] = want[p] /\ cand'[p] = NoBuf /\ bp'[p] = cand[p]
      /\ cand[p] \in Buf /\ bp[p] \notin Buf
      /\ \/ pc'[p] = "ra" /\ req[p].op = "reada"
         \/ pc'[p] = "use" /\ req[p].op # "reada"
  BY <1>1, <1>2, <1>r DEF TypeOK, Where
<1>4. ControlOf(p)'
  BY <1>1, <1>2, <1>3 DEF TypeOK, ControlOf, ForReadAhead, Searching, Asked
<1>5. LocalKeysOf(p)'
  BY <1>1, <1>2, <1>3 DEF TypeOK, LocalKeysOf, ControlOf, ForReadAhead, Searching
<1>6. \A q \in Proc \ {p} : SameProcess(q)
  BY <1>1, <1>2 DEF SameProcess, TypeOK
<1>7. \A b \in Buf : Holds(p, b)' <=> Holds(p, b)
  BY <1>1, <1>2, <1>3 DEF Holds, ControlOf, TypeOK, ForReadAhead
<1>8. TypeOK'
  BY <1>1, <1>2, <1>3 DEF TypeOK, Where
<1> QED BY <1>1, <1>4, <1>5, <1>6, <1>7, <1>8, QuietStep

LEMMA ReadDoneStep == ASSUME IInv, NEW p \in Proc, ReadDone(p) PROVE IInv'
<1>1. /\ pc[p] = "biowait" /\ chan[p] = NoBuf /\ cpu \in {p, Idle}
      /\ UNCHANGED <<flags, key, data, lru, age, freewant, ioq, disk, req, want, cand, bp, chan, reply>>
      /\ "DONE" \in flags[bp[p]] /\ pc' = [pc EXCEPT ![p] = "use"] /\ cpu' = p
  BY DEF ReadDone, Runs, Goto, pool
<1>2. TypeOK /\ ControlOf(p) /\ LocalKeysOf(p) /\ QueueSet' = QueueSet
  BY <1>1 DEF IInv, Control, Keys, QueueSet
<1>r. bp[p] \in Buf /\ bp[p] \notin QueueSet
  BY <1>1, <1>2 DEF ControlOf, IInv, Owners, OwnersOf
<1>3. /\ req'[p] = req[p] /\ want'[p] = want[p] /\ cand'[p] = cand[p] /\ bp'[p] = bp[p]
      /\ pc'[p] = "use" /\ bp[p] \in Buf /\ bp[p] \notin QueueSet
  BY <1>1, <1>2, <1>r DEF TypeOK, Where
<1>4. ControlOf(p)'
  BY <1>1, <1>2, <1>3 DEF TypeOK, ControlOf, ForReadAhead, Searching, Asked
<1>5. LocalKeysOf(p)'
  BY <1>1, <1>2, <1>3 DEF TypeOK, LocalKeysOf, ControlOf, ForReadAhead, Searching
<1>6. \A q \in Proc \ {p} : SameProcess(q)
  BY <1>1, <1>2 DEF SameProcess, TypeOK
<1>7. \A b \in Buf : Holds(p, b)' <=> Holds(p, b)
  BY <1>1, <1>2, <1>3 DEF Holds, ControlOf, TypeOK, ForReadAhead
<1>8. TypeOK'
  BY <1>1, <1>2, <1>3 DEF TypeOK, Where
<1> QED BY <1>1, <1>4, <1>5, <1>6, <1>7, <1>8, QuietStep

LEMMA UseWildStep == ASSUME IInv, NEW p \in Proc, UseWild(p) PROVE IInv'
<1>1. /\ pc[p] = "use" /\ chan[p] = NoBuf /\ cpu \in {p, Idle}
      /\ UNCHANGED <<flags, key, data, lru, age, freewant, ioq, disk, req, want, cand, bp, chan, reply>>
      /\ pc' = [pc EXCEPT ![p] = "wild"] /\ cpu' = p
  BY DEF UseWild, Runs, Goto, pool, Writes
<1>2. TypeOK /\ ControlOf(p) /\ LocalKeysOf(p) /\ QueueSet' = QueueSet
  BY <1>1 DEF IInv, Control, Keys, QueueSet
<1>3. /\ req'[p] = req[p] /\ want'[p] = want[p] /\ cand'[p] = cand[p] /\ bp'[p] = bp[p]
      /\ pc'[p] = "wild"
  BY <1>1, <1>2 DEF TypeOK, Where
<1>4. ControlOf(p)'
  BY <1>1, <1>2, <1>3 DEF TypeOK, ControlOf, ForReadAhead, Searching, Asked
<1>5. LocalKeysOf(p)'
  BY <1>1, <1>2, <1>3 DEF TypeOK, LocalKeysOf, ControlOf, ForReadAhead, Searching
<1>6. \A q \in Proc \ {p} : SameProcess(q)
  BY <1>1, <1>2 DEF SameProcess, TypeOK
<1>7. \A b \in Buf : Holds(p, b)' <=> Holds(p, b)
  BY <1>1, <1>2, <1>3 DEF Holds, ControlOf, TypeOK, ForReadAhead
<1>8. TypeOK'
  BY <1>1, <1>2, <1>3 DEF TypeOK, Where
<1> QED BY <1>1, <1>4, <1>5, <1>6, <1>7, <1>8, QuietStep

LEMMA FlushDoneStep == ASSUME IInv, NEW p \in Proc, FlushDone(p) PROVE IInv'
<1>1. /\ pc[p] = "flush" /\ chan[p] = NoBuf /\ cpu \in {p, Idle}
      /\ UNCHANGED <<flags, key, data, lru, age, freewant, ioq, disk, req, want, cand, bp, chan, reply>>
      /\ \E at \in {"inval", "return"} : pc' = [pc EXCEPT ![p] = at]
      /\ cpu' = p
  BY DEF FlushDone, Runs, Goto, pool
<1>2. TypeOK /\ ControlOf(p) /\ LocalKeysOf(p) /\ QueueSet' = QueueSet
  BY <1>1 DEF IInv, Control, Keys, QueueSet
<1>3. /\ req'[p] = req[p] /\ want'[p] = want[p] /\ cand'[p] = cand[p] /\ bp'[p] = bp[p]
      /\ pc'[p] \in {"inval", "return"}
  BY <1>1, <1>2 DEF TypeOK, Where
<1>4. ControlOf(p)'
  BY <1>1, <1>2, <1>3 DEF TypeOK, ControlOf, ForReadAhead, Searching, Asked
<1>5. LocalKeysOf(p)'
  BY <1>1, <1>2, <1>3 DEF TypeOK, LocalKeysOf, ControlOf, ForReadAhead, Searching
<1>6. \A q \in Proc \ {p} : SameProcess(q)
  BY <1>1, <1>2 DEF SameProcess, TypeOK
<1>7. \A b \in Buf : Holds(p, b)' <=> Holds(p, b)
  BY <1>1, <1>2, <1>3 DEF Holds, ControlOf, TypeOK, ForReadAhead
<1>8. TypeOK'
  BY <1>1, <1>2, <1>3 DEF TypeOK, Where
<1> QED BY <1>1, <1>4, <1>5, <1>6, <1>7, <1>8, QuietStep

LEMMA PushDoneStep == ASSUME IInv, NEW p \in Proc, PushDone(p) PROVE IInv'
<1>1. /\ pc[p] = "blkflush" /\ chan[p] = NoBuf /\ cpu \in {p, Idle}
      /\ UNCHANGED <<flags, key, data, lru, age, freewant, ioq, disk, req, want, cand, bp, chan, reply>>
      /\ pc' = [pc EXCEPT ![p] = "return"] /\ cpu' = p
  BY DEF PushDone, Runs, Goto, pool
<1>2. TypeOK /\ ControlOf(p) /\ LocalKeysOf(p)
  BY DEF IInv, Control, Keys
<1>3. /\ req'[p] = req[p] /\ want'[p] = want[p] /\ cand'[p] = cand[p] /\ bp'[p] = bp[p]
      /\ pc'[p] = "return" /\ bp[p] \notin Buf
  BY <1>1, <1>2 DEF TypeOK, ControlOf, Searching
<1>4. ControlOf(p)' /\ LocalKeysOf(p)'
  BY <1>1, <1>2, <1>3 DEF TypeOK, ControlOf, LocalKeysOf, Searching, Asked
<1>5. \A q \in Proc \ {p} : SameProcess(q)
  BY <1>1, <1>2 DEF SameProcess, TypeOK
<1>6. \A b \in Buf : Holds(p, b)' <=> Holds(p, b)
  BY <1>1, <1>3 DEF Holds
<1>7. TypeOK'
  BY <1>1, <1>2 DEF TypeOK, Where
<1> QED BY <1>1, <1>4, <1>5, <1>6, <1>7, QuietStep

LEMMA ReturnStep == ASSUME IInv, NEW p \in Proc, Return(p) PROVE IInv'
<1>1. /\ pc[p] = "return" /\ chan[p] = NoBuf /\ cpu \in {p, Idle}
      /\ UNCHANGED <<flags, key, data, lru, age, freewant, ioq, disk, cand, bp, chan>>
      /\ pc' = [pc EXCEPT ![p] = "user"] /\ cpu' = Idle
      /\ req' = [req EXCEPT ![p] = NoReq] /\ want' = [want EXCEPT ![p] = NoBlk]
      /\ reply' = [reply EXCEPT ![p] = NoReply]
  BY DEF Return, Runs, Goto, pool
<1>2. TypeOK /\ ControlOf(p) /\ LocalKeysOf(p) /\ QueueSet' = QueueSet
  BY <1>1 DEF IInv, Control, Keys, QueueSet
<1>r. bp[p] \notin Buf
  BY <1>1, <1>2 DEF ControlOf, Searching
<1>3. /\ cand'[p] = cand[p] /\ bp'[p] = bp[p] /\ pc'[p] = "user" /\ bp[p] \notin Buf
  BY <1>1, <1>2, <1>r DEF TypeOK, Where
<1>4. ControlOf(p)'
  BY <1>1, <1>2, <1>3 DEF TypeOK, ControlOf, ForReadAhead, Searching, Asked
<1>5. LocalKeysOf(p)'
  BY <1>1, <1>2, <1>3 DEF TypeOK, LocalKeysOf, ControlOf, ForReadAhead, Searching
<1>6. \A q \in Proc \ {p} : SameProcess(q)
  BY <1>1, <1>2 DEF SameProcess, TypeOK
<1>7. \A b \in Buf : Holds(p, b)' <=> Holds(p, b)
  BY <1>1, <1>2, <1>3 DEF Holds, ControlOf, TypeOK, ForReadAhead
<1>8. TypeOK'
  BY <1>1, <1>2, <1>3 DEF TypeOK, Where
<1> QED BY <1>1, <1>4, <1>5, <1>6, <1>7, <1>8, QuietStep

(* The variables brelse touches keep their types. *)
LEMMA BrelseTypes ==
    ASSUME IInv, NEW b \in Buf, b \notin FreeSet, NEW fl, fl \subseteq Flag, Brelse(b, fl)
    PROVE  /\ flags' \in [Buf -> SUBSET Flag] /\ key' \in [Buf -> Blk \cup {NoBlk}]
           /\ lru' \in Seq(Buf) /\ age' \in Seq(Buf) /\ freewant' \in BOOLEAN
           /\ chan' \in [Proc -> Buf \cup {NoBuf, FreeList}]
           /\ \A c \in Buf \ {b} : flags'[c] = flags[c] /\ key'[c] = key[c]
<1>1. TypeOK /\ Lists
  BY DEF IInv
<1>2. lru' \in Seq(Buf) /\ age' \in Seq(Buf)
  BY <1>1, BrelseLists
<1>3. /\ flags' = [flags EXCEPT ![b] = fl \ {"WANTED", "BUSY", "ASYNC", "AGE"}]
      /\ key' = IF "ERROR" \in fl THEN [key EXCEPT ![b] = NoBlk] ELSE key
      /\ freewant' = FALSE
  BY DEF Brelse
<1>4. /\ flags' \in [Buf -> SUBSET Flag] /\ key' \in [Buf -> Blk \cup {NoBlk}]
      /\ \A c \in Buf \ {b} : flags'[c] = flags[c] /\ key'[c] = key[c]
  BY <1>1, <1>3 DEF TypeOK
<1>5. chan' \in [Proc -> Buf \cup {NoBuf, FreeList}]
  <2>1. PICK C : chan' = [q \in Proc |-> IF chan[q] \in C THEN NoBuf ELSE chan[q]]
    BY DEF Brelse, Wakeup
  <2> QED BY <1>1, <2>1 DEF TypeOK
<1> QED BY <1>2, <1>3, <1>4, <1>5

(* p releases bp[p] and is about to return from its call, or blkflush     *)
(* looks for another buffer.                                               *)
LEMMA ReleaseAndReturn ==
    ASSUME IInv, NEW p \in Proc, pc[p] \in {"use", "wwait", "fwait"}, cpu \in {p, Idle}, chan[p] = NoBuf,
           bp[p] \notin QueueSet, NEW fl, Brelse(bp[p], fl), fl \subseteq Flag,
           "WANTED" \in flags[bp[p]] => "WANTED" \in fl,
           "ERROR" \in fl => "DONE" \in fl /\ "DELWRI" \notin fl,
           "DELWRI" \in fl => key[bp[p]] \in Blk /\ "DONE" \in fl,
           key[bp[p]] = NoBlk => "INVAL" \in fl \/ {"DONE", "ERROR"} \subseteq fl,
           NEW at \in {"return", "blkflush"}, at = "blkflush" => pc[p] = "fwait",
           bp' = [bp EXCEPT ![p] = NoBuf], pc' = [pc EXCEPT ![p] = at], cpu' = p,
           UNCHANGED <<ioq, disk, req, want, cand>>,
           data' \in [Buf -> Val],
           reply' \in [Proc -> [blk : Blk, res : Val \cup {"synced", "error"}] \cup {NoReply}]
    PROVE  IInv'
<1>1. TypeOK /\ ControlOf(p)
  BY DEF IInv, Control
<1>2. PICK b \in Buf : b = bp[p]
  BY <1>1 DEF ControlOf
<1>3. OwnersOf(b) /\ Holds(p, b)
  BY <1>2 DEF IInv, Owners, Holds
<1>4. b \notin FreeSet /\ b \notin QueueSet /\ Brelse(b, fl)
  BY <1>2, <1>3 DEF OwnersOf
<1>5. /\ flags' \in [Buf -> SUBSET Flag] /\ key' \in [Buf -> Blk \cup {NoBlk}]
      /\ lru' \in Seq(Buf) /\ age' \in Seq(Buf) /\ freewant' \in BOOLEAN
      /\ chan' \in [Proc -> Buf \cup {NoBuf, FreeList}]
  BY <1>4, BrelseTypes
<1>6. TypeOK'
  BY <1>1, <1>5 DEF TypeOK, Where
<1>7. NoBuf \notin Buf /\ pc'[p] = at /\ bp'[p] = NoBuf /\ req'[p] = req[p]
  BY <1>1, PoolAssumption DEF TypeOK
<1>8. ControlOf(p)' /\ LocalKeysOf(p)'
  BY <1>1, <1>7 DEF ControlOf, LocalKeysOf, Searching, Asked
<1>9. \A q \in Proc \ {p} : /\ pc'[q] = pc[q] /\ req'[q] = req[q] /\ want'[q] = want[q]
                            /\ cand'[q] = cand[q] /\ bp'[q] = bp[q]
  BY <1>1 DEF TypeOK
<1>10. ~Holds(p, b)' /\ \A c \in Buf \ {b} : Holds(p, c)' <=> Holds(p, c)
  BY <1>2, <1>7 DEF Holds
<1> QED BY <1>2, <1>3, <1>4, <1>6, <1>8, <1>9, <1>10, ReleaseStep

(* What p knows about the buffer it uses. *)
LEMMA InUse ==
    ASSUME IInv, NEW p \in Proc, pc[p] = "use" \/ (pc[p] \in {"wwait", "fwait"} /\ "DONE" \in flags[bp[p]])
    PROVE  /\ bp[p] \in Buf /\ bp[p] \notin QueueSet /\ KeysOf(bp[p]) /\ flags[bp[p]] \subseteq Flag
           /\ key[bp[p]] \in Blk \cup {NoBlk} /\ data[bp[p]] \in Val
           /\ req[p] \in Request
           /\ req[p].op \in {"read", "reada", "write", "update"} => req[p].blk \in Blk
           /\ req[p].op = "write" => "ERROR" \notin flags[bp[p]] \/ key[bp[p]] = NoBlk \/ pc[p] # "use"
<1>1. TypeOK /\ ControlOf(p) /\ LocalKeysOf(p)
  BY DEF IInv, Control, Keys
<1>2. PICK b \in Buf : b = bp[p]
  BY <1>1 DEF ControlOf
<1>3. KeysOf(b) /\ OwnersOf(b)
  BY DEF IInv, Keys, Owners
<1>4. b \notin QueueSet
  BY <1>1, <1>2, <1>3 DEF LocalKeysOf, OwnersOf
<1> QED BY <1>1, <1>2, <1>3, <1>4 DEF ControlOf, LocalKeysOf, TypeOK, Asked

LEMMA AnswerType ==
    ASSUME TypeOK, NEW p \in Proc, req[p].blk \in Blk, NEW res \in Val \cup {"synced", "error"},
           Answer(p, res)
    PROVE  reply' \in [Proc -> [blk : Blk, res : Val \cup {"synced", "error"}] \cup {NoReply}]
BY DEF TypeOK, Answer

LEMMA WriteDoneStep == ASSUME IInv, NEW p \in Proc, WriteDone(p) PROVE IInv'
<1>1. /\ pc[p] = "wwait" /\ "DONE" \in flags[bp[p]] /\ chan[p] = NoBuf /\ cpu \in {p, Idle}
      /\ Brelse(bp[p], flags[bp[p]]) /\ Answer(p, Outcome(flags[bp[p]]))
      /\ bp' = [bp EXCEPT ![p] = NoBuf] /\ pc' = [pc EXCEPT ![p] = "return"] /\ cpu' = p
      /\ UNCHANGED <<data, ioq, disk, req, want, cand>>
  BY DEF WriteDone, Runs, Goto
<1>2. TypeOK /\ ControlOf(p)
  BY DEF IInv, Control
<1>3. req[p].blk \in Blk
  BY <1>1, <1>2, InUse DEF ControlOf
<1>4. Outcome(flags[bp[p]]) \in Val \cup {"synced", "error"}
  BY DEF Outcome
<1>5. reply' \in [Proc -> [blk : Blk, res : Val \cup {"synced", "error"}] \cup {NoReply}]
  BY <1>1, <1>2, <1>3, <1>4, AnswerType
<1> QED BY <1>1, <1>2, <1>5, InUse, ReleaseAndReturn DEF KeysOf, TypeOK

(* blkflush comes back from its bwrite. *)
LEMMA PushWrittenStep == ASSUME IInv, NEW p \in Proc, PushWritten(p) PROVE IInv'
<1>1. /\ pc[p] = "fwait" /\ "DONE" \in flags[bp[p]] /\ chan[p] = NoBuf /\ cpu \in {p, Idle}
      /\ Brelse(bp[p], flags[bp[p]])
      /\ bp' = [bp EXCEPT ![p] = NoBuf] /\ pc' = [pc EXCEPT ![p] = "blkflush"] /\ cpu' = p
      /\ UNCHANGED <<data, ioq, disk, req, want, cand, reply>>
  BY DEF PushWritten, Runs, Goto
<1>2. TypeOK
  BY DEF IInv
<1> QED BY <1>1, <1>2, InUse, ReleaseAndReturn DEF KeysOf, TypeOK

LEMMA UseFailedStep == ASSUME IInv, NEW p \in Proc, UseFailed(p) PROVE IInv'
<1>1. /\ pc[p] = "use" /\ chan[p] = NoBuf /\ cpu \in {p, Idle}
      /\ req[p].op \in {"read", "reada", "update"}
      /\ Brelse(bp[p], flags[bp[p]]) /\ Answer(p, "error")
      /\ bp' = [bp EXCEPT ![p] = NoBuf] /\ pc' = [pc EXCEPT ![p] = "return"] /\ cpu' = p
      /\ UNCHANGED <<data, ioq, disk, req, want, cand>>
  BY DEF UseFailed, Runs, Goto
<1>2. TypeOK
  BY DEF IInv
<1>3. reply' \in [Proc -> [blk : Blk, res : Val \cup {"synced", "error"}] \cup {NoReply}]
  BY <1>1, <1>2, InUse, AnswerType
<1> QED BY <1>1, <1>2, <1>3, InUse, ReleaseAndReturn DEF KeysOf, TypeOK

LEMMA UseReadStep == ASSUME IInv, NEW p \in Proc, UseRead(p) PROVE IInv'
<1>1. /\ pc[p] = "use" /\ chan[p] = NoBuf /\ cpu \in {p, Idle}
      /\ req[p].op \in {"read", "reada"} /\ "ERROR" \notin flags[bp[p]]
      /\ Answer(p, data[bp[p]])
      /\ bp' = [bp EXCEPT ![p] = NoBuf] /\ pc' = [pc EXCEPT ![p] = "return"] /\ cpu' = p
      /\ UNCHANGED <<data, ioq, disk, req, want, cand>>
  BY DEF UseRead, Runs, Goto
<1>2. PICK fl \in {flags[bp[p]], flags[bp[p]] \cup {"AGE"}} : Brelse(bp[p], fl)
  BY DEF UseRead
<1>3. TypeOK
  BY DEF IInv
<1>4. reply' \in [Proc -> [blk : Blk, res : Val \cup {"synced", "error"}] \cup {NoReply}]
  BY <1>1, <1>3, InUse, AnswerType
<1>5. /\ fl \subseteq Flag /\ "ERROR" \notin fl /\ ("WANTED" \in flags[bp[p]] => "WANTED" \in fl)
      /\ ("DELWRI" \in fl => key[bp[p]] \in Blk /\ "DONE" \in fl)
      /\ (key[bp[p]] = NoBlk => "INVAL" \in fl \/ {"DONE", "ERROR"} \subseteq fl)
  BY <1>1, InUse DEF KeysOf, Flag
<1> QED BY <1>1, <1>2, <1>3, <1>4, <1>5, InUse, ReleaseAndReturn DEF TypeOK

LEMMA UseScratchStep == ASSUME IInv, NEW p \in Proc, UseScratch(p) PROVE IInv'
<1>1. /\ pc[p] = "use" /\ chan[p] = NoBuf /\ cpu \in {p, Idle}
      /\ Brelse(bp[p], flags[bp[p]])
      /\ bp' = [bp EXCEPT ![p] = NoBuf] /\ pc' = [pc EXCEPT ![p] = "return"] /\ cpu' = p
      /\ UNCHANGED <<data, ioq, disk, req, want, cand, reply>>
  BY DEF UseScratch, Runs, Goto
<1>2. TypeOK
  BY DEF IInv
<1> QED BY <1>1, <1>2, InUse, ReleaseAndReturn DEF KeysOf, TypeOK

(* The requests that write are writes and updates, and their value is one. *)
LEMMA CopyInType ==
    ASSUME TypeOK, NEW p \in Proc, bp[p] \in Buf, req[p] \in Request, CopyIn(p)
    PROVE  data' \in [Buf -> Val]
<1>1. req[p].val \in Val
  BY DEF Request
<1> QED BY <1>1 DEF CopyIn, TypeOK

LEMMA WriteDelayedStep == ASSUME IInv, NEW p \in Proc, WriteDelayed(p) PROVE IInv'
<1>1. /\ pc[p] = "use" /\ chan[p] = NoBuf /\ cpu \in {p, Idle}
      /\ CopyIn(p) /\ Brelse(bp[p], flags[bp[p]] \cup {"DELWRI", "DONE"})
      /\ bp' = [bp EXCEPT ![p] = NoBuf] /\ pc' = [pc EXCEPT ![p] = "return"] /\ cpu' = p
      /\ key[bp[p]] # NoBlk
      /\ req[p].op = "write" \/ "ERROR" \notin flags[bp[p]]
      /\ UNCHANGED <<ioq, disk, req, want, cand, reply>>
  BY DEF WriteDelayed, Runs, Goto, Writes
<1>2. TypeOK
  BY DEF IInv
<1>3. data' \in [Buf -> Val]
  BY <1>1, <1>2, InUse, CopyInType
<1> DEFINE fl == flags[bp[p]] \cup {"DELWRI", "DONE"}
<1>4. /\ fl \subseteq Flag /\ "ERROR" \notin fl /\ "DONE" \in fl /\ ("WANTED" \in flags[bp[p]] => "WANTED" \in fl)
      /\ key[bp[p]] \in Blk
  BY <1>1, InUse DEF KeysOf, Flag
<1> HIDE DEF fl
<1>5. Brelse(bp[p], fl)
  BY <1>1 DEF fl
<1> QED BY <1>1, <1>2, <1>3, <1>4, <1>5, InUse, ReleaseAndReturn, DataAssumption DEF TypeOK

LEMMA WriteFaultsStep == ASSUME IInv, NEW p \in Proc, WriteFaults(p) PROVE IInv'
<1>1. /\ pc[p] = "use" /\ chan[p] = NoBuf /\ cpu \in {p, Idle}
      /\ req[p].op \in {"write", "update"}
      /\ CopyIn(p) \/ data' = data
      /\ Brelse(bp[p], flags[bp[p]]) /\ Answer(p, "error")
      /\ bp' = [bp EXCEPT ![p] = NoBuf] /\ pc' = [pc EXCEPT ![p] = "return"] /\ cpu' = p
      /\ UNCHANGED <<ioq, disk, req, want, cand>>
  BY DEF WriteFaults, Runs, Goto, Writes
<1>2. TypeOK
  BY DEF IInv
<1>3. reply' \in [Proc -> [blk : Blk, res : Val \cup {"synced", "error"}] \cup {NoReply}]
  BY <1>1, <1>2, InUse, AnswerType
<1>4. data' \in [Buf -> Val]
  BY <1>1, <1>2, InUse, CopyInType DEF TypeOK
<1> QED BY <1>1, <1>2, <1>3, <1>4, InUse, ReleaseAndReturn DEF KeysOf

(* The variables d_strategy touches keep their types. *)
LEMMA StrategyTypes ==
    ASSUME IInv, NEW b \in Buf, b \notin QueueSet, NEW fl, fl \subseteq Flag, Strategy(b, fl)
    PROVE  /\ flags' \in [Buf -> SUBSET Flag] /\ ioq' \in Seq(Buf) /\ QueueSet' = QueueSet \cup {b}
           /\ flags'[b] = fl /\ \A c \in Buf \ {b} : flags'[c] = flags[c]
<1>1. TypeOK /\ Lists
  BY DEF IInv
<1>2. flags' = [flags EXCEPT ![b] = fl]
  BY DEF Strategy
<1>3. ioq' \in Seq(Buf) /\ QueueSet' = QueueSet \cup {b}
  BY <1>1, StrategyLists
<1> QED BY <1>1, <1>2, <1>3 DEF TypeOK

(* A buffer p holds, and one that is free. *)
LEMMA Held ==
    ASSUME IInv, NEW p \in Proc, NEW b \in Buf, Holds(p, b)
    PROVE  /\ "BUSY" \in flags[b] /\ "ASYNC" \notin flags[b] /\ KeysOf(b)
           /\ flags[b] \subseteq Flag /\ b \notin FreeSet
<1>1. KeysOf(b) /\ OwnersOf(b) /\ TypeOK
  BY DEF IInv, Keys, Owners
<1> QED BY <1>1 DEF OwnersOf, TypeOK

LEMMA NotHeld ==
    ASSUME IInv, NEW b \in FreeSet, b \in Buf
    PROVE  /\ "BUSY" \notin flags[b] /\ "ASYNC" \notin flags[b] /\ KeysOf(b)
           /\ flags[b] \subseteq Flag /\ b \notin QueueSet
           /\ \A p \in Proc : ~Holds(p, b)
<1>1. KeysOf(b) /\ OwnersOf(b) /\ TypeOK
  BY DEF IInv, Keys, Owners
<1> QED BY <1>1 DEF OwnersOf, TypeOK

LEMMA EvictStep == ASSUME IInv, NEW p \in Proc, Evict(p) PROVE IInv'
<1>1. /\ pc[p] = "getnew" /\ chan[p] = NoBuf /\ cpu \in {p, Idle} /\ cpu' = p
      /\ age # <<>> \/ lru # <<>>
      /\ "DELWRI" \in flags[Oldest] /\ TakeOff(Oldest)
      /\ Strategy(Oldest, BwriteFlags(flags[Oldest] \cup {"BUSY", "ASYNC"}))
      /\ cand' = [cand EXCEPT ![p] = Oldest] /\ pc' = [pc EXCEPT ![p] = "aged"]
      /\ UNCHANGED <<key, data, freewant, disk, req, want, bp, chan, reply>>
  BY DEF Evict, Runs, Goto
<1>2. TypeOK /\ Lists /\ ControlOf(p) /\ LocalKeysOf(p)
  BY DEF IInv, Control, Keys
<1>3. PICK b \in Buf : b = Oldest /\ b \in FreeSet
  BY <1>1, <1>2, OldestIsFree
<1>4. PICK fl : fl = BwriteFlags(flags[b] \cup {"BUSY", "ASYNC"})
  OBVIOUS
<1>5. b \notin QueueSet /\ (\A q \in Proc : ~Holds(q, b)) /\ key[b] \in Blk /\ flags[b] \subseteq Flag
  BY <1>1, <1>3, NotHeld DEF KeysOf
<1>6. /\ fl \subseteq Flag /\ {"BUSY", "ASYNC"} \subseteq fl /\ {"DONE", "ERROR", "DELWRI"} \cap fl = {}
      /\ "WANTED" \in flags[b] => "WANTED" \in fl
  BY <1>4, <1>5 DEF BwriteFlags, Flag
<1>7. Strategy(b, fl) /\ TakeOff(b)
  BY <1>1, <1>3, <1>4
<1>8. /\ flags' \in [Buf -> SUBSET Flag] /\ ioq' \in Seq(Buf) /\ QueueSet' = QueueSet \cup {b}
      /\ \A c \in Buf \ {b} : flags'[c] = flags[c]
  BY <1>5, <1>6, <1>7, StrategyTypes
<1>9. lru' \in Seq(Buf) /\ age' \in Seq(Buf)
  BY <1>2, <1>7, TakeOffLists
<1>10. TypeOK'
  BY <1>1, <1>2, <1>3, <1>8, <1>9 DEF TypeOK, Where
<1>11. /\ pc'[p] = "aged" /\ cand'[p] = b /\ bp'[p] = bp[p] /\ bp[p] # b
       /\ req'[p] = req[p] /\ want'[p] = want[p]
  BY <1>1, <1>2, <1>3, <1>5 DEF TypeOK, Holds
<1>12. ControlOf(p)'
  BY <1>1, <1>2, <1>3, <1>11 DEF ControlOf, Searching, ForReadAhead, Asked
<1>13. LocalKeysOf(p)'
  BY <1>1, <1>2, <1>8, <1>11 DEF LocalKeysOf
<1>14. \A q \in Proc \ {p} : SameProcess(q)
  BY <1>1, <1>2 DEF SameProcess, TypeOK
<1>15. ~Holds(p, b)' /\ \A c \in Buf \ {b} : Holds(p, c)' <=> Holds(p, c)
  BY <1>1, <1>11 DEF Holds
<1> QED BY <1>1, <1>3, <1>5, <1>6, <1>7, <1>10, <1>12, <1>13, <1>14, <1>15, SubmitStep

LEMMA GotToReadStep == ASSUME IInv, NEW p \in Proc, GotToRead(p) PROVE IInv'
<1>1. /\ pc[p] = "got" /\ chan[p] = NoBuf /\ cpu \in {p, Idle} /\ cpu' = p
      /\ ~ForReadAhead(p) /\ "DONE" \notin flags[cand[p]] /\ req[p].op \in {"read", "reada", "update"}
      /\ Strategy(cand[p], flags[cand[p]] \cup {"READ"})
      /\ bp' = [bp EXCEPT ![p] = cand[p]] /\ cand' = [cand EXCEPT ![p] = NoBuf]
      /\ \/ req[p].op = "reada" /\ pc' = [pc EXCEPT ![p] = "ra"]
         \/ req[p].op # "reada" /\ pc' = [pc EXCEPT ![p] = "biowait"]
      /\ UNCHANGED <<key, data, lru, age, freewant, disk, req, want, chan, reply>>
  BY DEF GotToRead, Runs, Goto
<1>2. TypeOK /\ Lists /\ ControlOf(p) /\ LocalKeysOf(p)
  BY DEF IInv, Control, Keys
<1>3. PICK b \in Buf : b = cand[p] /\ Holds(p, b) /\ b \notin QueueSet
  BY <1>1, <1>2 DEF ControlOf, LocalKeysOf, Holds
<1>4. PICK fl : fl = flags[b] \cup {"READ"}
  OBVIOUS
<1>5. /\ "BUSY" \in flags[b] /\ "ASYNC" \notin flags[b] /\ "ERROR" \notin flags[b] /\ key[b] \in Blk
      /\ "DELWRI" \notin flags[b] /\ flags[b] \subseteq Flag /\ b \notin FreeSet
  BY <1>1, <1>2, <1>3, Held DEF KeysOf, LocalKeysOf
<1>6. /\ fl \subseteq Flag /\ "BUSY" \in fl /\ "ASYNC" \notin fl /\ {"DONE", "ERROR", "DELWRI"} \cap fl = {}
      /\ "WANTED" \in flags[b] => "WANTED" \in fl
  BY <1>1, <1>3, <1>4, <1>5 DEF Flag
<1>7. Strategy(b, fl)
  BY <1>1, <1>3, <1>4
<1>8. /\ flags' \in [Buf -> SUBSET Flag] /\ ioq' \in Seq(Buf) /\ QueueSet' = QueueSet \cup {b}
      /\ \A c \in Buf \ {b} : flags'[c] = flags[c]
  BY <1>3, <1>6, <1>7, StrategyTypes
<1>10. TypeOK'
  BY <1>1, <1>2, <1>3, <1>8 DEF TypeOK, Where
<1>11. /\ \/ pc'[p] = "ra" /\ req[p].op = "reada"
          \/ pc'[p] = "biowait" /\ req[p].op # "reada"
       /\ cand'[p] = NoBuf /\ bp'[p] = b /\ bp[p] \notin Buf
       /\ req'[p] = req[p] /\ want'[p] = want[p]
  BY <1>1, <1>2, <1>3 DEF TypeOK, ControlOf, Searching
<1>12. ControlOf(p)'
  BY <1>1, <1>2, <1>3, <1>11 DEF ControlOf, Searching, ForReadAhead, Asked
<1>13. LocalKeysOf(p)'
  BY <1>1, <1>2, <1>8, <1>11 DEF LocalKeysOf
<1>14. \A q \in Proc \ {p} : SameProcess(q)
  BY <1>1, <1>2 DEF SameProcess, TypeOK
<1>15. Holds(p, b)' /\ \A c \in Buf \ {b} : Holds(p, c)' <=> Holds(p, c)
  BY <1>1, <1>3, <1>11 DEF Holds
<1> QED BY <1>1, <1>3, <1>5, <1>6, <1>7, <1>10, <1>12, <1>13, <1>14, <1>15, SubmitStep

LEMMA GotAheadStep == ASSUME IInv, NEW p \in Proc, GotAhead(p) PROVE IInv'
<1>1. /\ pc[p] = "got" /\ chan[p] = NoBuf /\ cpu \in {p, Idle} /\ cpu' = p
      /\ ForReadAhead(p)
      /\ cand' = [cand EXCEPT ![p] = NoBuf] /\ pc' = [pc EXCEPT ![p] = "reap"]
      /\ UNCHANGED <<data, disk, req, want, bp, reply>>
  BY DEF GotAhead, Runs, Goto
<1>2. TypeOK /\ Lists /\ ControlOf(p) /\ LocalKeysOf(p) /\ NoBuf \notin Buf
  BY PoolAssumption DEF IInv, Control, Keys
<1>3. PICK b \in Buf : b = cand[p] /\ Holds(p, b) /\ b \notin QueueSet
  BY <1>1, <1>2 DEF ControlOf, LocalKeysOf, Holds
<1>4. /\ "BUSY" \in flags[b] /\ flags[b] \subseteq Flag /\ KeysOf(b) /\ b \notin FreeSet
  BY <1>1, <1>2, <1>3, Held
<1>5. /\ pc'[p] = "reap" /\ cand'[p] = NoBuf /\ bp'[p] = bp[p] /\ bp[p] # b
      /\ req'[p] = req[p] /\ want'[p] = want[p] /\ req[p].op = "reada"
  BY <1>1, <1>2, <1>3 DEF TypeOK, ControlOf, ForReadAhead
<1>6. ControlOf(p)'
  BY <1>1, <1>2, <1>3, <1>5 DEF ControlOf, Searching, ForReadAhead, Asked
<1>7. \A q \in Proc \ {p} : /\ pc'[q] = pc[q] /\ req'[q] = req[q] /\ want'[q] = want[q]
                            /\ cand'[q] = cand[q] /\ bp'[q] = bp[q]
  BY <1>1, <1>2 DEF TypeOK
<1>8. ~Holds(p, b)' /\ \A c \in Buf \ {b} : Holds(p, c)' <=> Holds(p, c)
  BY <1>1, <1>3, <1>5 DEF Holds
<1>9. CASE "DONE" \in flags[b]
  <2>1. Brelse(b, flags[b]) /\ ioq' = ioq
    BY <1>3, <1>9 DEF GotAhead
  <2>2. /\ flags' \in [Buf -> SUBSET Flag] /\ key' \in [Buf -> Blk \cup {NoBlk}]
        /\ lru' \in Seq(Buf) /\ age' \in Seq(Buf) /\ freewant' \in BOOLEAN
        /\ chan' \in [Proc -> Buf \cup {NoBuf, FreeList}]
        /\ \A c \in Buf \ {b} : flags'[c] = flags[c]
    BY <1>4, <2>1, BrelseTypes
  <2>3. TypeOK'
    BY <1>1, <1>2, <2>1, <2>2 DEF TypeOK, Where
  <2>4. LocalKeysOf(p)'
    BY <1>1, <1>2, <1>5, <2>1, <2>2 DEF LocalKeysOf, QueueSet
  <2> QED BY <1>1, <1>3, <1>4, <1>6, <1>7, <1>8, <2>1, <2>3, <2>4, ReleaseStep DEF KeysOf
<1>10. CASE "DONE" \notin flags[b]
  <2>1. PICK fl : fl = flags[b] \cup {"READ", "ASYNC"}
    OBVIOUS
  <2>2. Strategy(b, fl) /\ UNCHANGED <<key, lru, age, freewant, chan>>
    BY <1>3, <1>10, <2>1 DEF GotAhead
  <2>3. /\ fl \subseteq Flag /\ "BUSY" \in fl /\ "ASYNC" \in fl /\ {"DONE", "ERROR", "DELWRI"} \cap fl = {}
        /\ "WANTED" \in flags[b] => "WANTED" \in fl
    BY <1>4, <1>10, <2>1 DEF Flag, KeysOf
  <2>4. key[b] \in Blk
    BY <1>1, <1>2, <1>3, <1>5, <1>10 DEF LocalKeysOf
  <2>5. /\ flags' \in [Buf -> SUBSET Flag] /\ ioq' \in Seq(Buf) /\ QueueSet' = QueueSet \cup {b}
        /\ \A c \in Buf \ {b} : flags'[c] = flags[c]
    BY <1>3, <2>2, <2>3, StrategyTypes
  <2>6. TypeOK'
    BY <1>1, <1>2, <2>2, <2>5 DEF TypeOK, Where
  <2>7. LocalKeysOf(p)'
    BY <1>1, <1>2, <1>5, <2>5 DEF LocalKeysOf
  <2>8. \A q \in Proc \ {p} : SameProcess(q)
    BY <1>7, <2>2 DEF SameProcess
  <2> QED BY <1>1, <1>3, <1>4, <1>6, <1>8, <2>2, <2>3, <2>4, <2>6, <2>7, <2>8, SubmitStep
<1> QED BY <1>9, <1>10

LEMMA WriteAsyncStep == ASSUME IInv, NEW p \in Proc, WriteAsync(p) PROVE IInv'
<1>1. /\ pc[p] = "use" /\ chan[p] = NoBuf /\ cpu \in {p, Idle} /\ cpu' = p
      /\ CopyIn(p) /\ key[bp[p]] # NoBlk
      /\ Strategy(bp[p], BwriteFlags(flags[bp[p]] \cup {"AGE", "ASYNC"}))
      /\ bp' = [bp EXCEPT ![p] = NoBuf]
      /\ \/ cand' = [cand EXCEPT ![p] = bp[p]] /\ pc' = [pc EXCEPT ![p] = "written"]
         \/ cand' = cand /\ pc' = [pc EXCEPT ![p] = "return"]
      /\ UNCHANGED <<key, lru, age, freewant, disk, req, want, chan, reply>>
  BY DEF WriteAsync, Writes, Runs, Goto
<1>2. TypeOK /\ Lists /\ ControlOf(p) /\ LocalKeysOf(p) /\ NoBuf \notin Buf
  BY PoolAssumption DEF IInv, Control, Keys
<1>3. PICK b \in Buf : b = bp[p] /\ Holds(p, b) /\ b \notin QueueSet
  BY <1>1, <1>2 DEF ControlOf, LocalKeysOf, Holds
<1>4. PICK fl : fl = BwriteFlags(flags[b] \cup {"AGE", "ASYNC"})
  OBVIOUS
<1>5. "BUSY" \in flags[b] /\ key[b] \in Blk /\ flags[b] \subseteq Flag /\ b \notin FreeSet
  BY <1>1, <1>2, <1>3, Held DEF TypeOK
<1>6. /\ fl \subseteq Flag /\ "BUSY" \in fl /\ "ASYNC" \in fl /\ {"DONE", "ERROR", "DELWRI"} \cap fl = {}
      /\ "WANTED" \in flags[b] => "WANTED" \in fl
  BY <1>4, <1>5 DEF Flag, BwriteFlags
<1>7. Strategy(b, fl)
  BY <1>1, <1>3, <1>4
<1>8. /\ flags' \in [Buf -> SUBSET Flag] /\ ioq' \in Seq(Buf) /\ QueueSet' = QueueSet \cup {b}
      /\ \A c \in Buf \ {b} : flags'[c] = flags[c]
  BY <1>3, <1>6, <1>7, StrategyTypes
<1>9. data' \in [Buf -> Val]
  BY <1>1, <1>2, InUse, CopyInType
<1>10. TypeOK'
  BY <1>1, <1>2, <1>3, <1>8, <1>9 DEF TypeOK, Where
<1>11. /\ \/ pc'[p] = "written" /\ cand'[p] = b
          \/ pc'[p] = "return"
       /\ bp'[p] = NoBuf /\ req'[p] = req[p] /\ want'[p] = want[p]
  BY <1>1, <1>2, <1>3 DEF TypeOK
<1>12. ControlOf(p)'
  BY <1>1, <1>2, <1>3, <1>11 DEF ControlOf, Searching, ForReadAhead, Asked
<1>13. LocalKeysOf(p)'
  BY <1>1, <1>2, <1>8, <1>11 DEF LocalKeysOf
<1>14. \A q \in Proc \ {p} : SameProcess(q)
  BY <1>1, <1>2 DEF SameProcess, TypeOK
<1>15. ~Holds(p, b)' /\ \A c \in Buf \ {b} : Holds(p, c)' <=> Holds(p, c)
  BY <1>1, <1>2, <1>3, <1>11 DEF Holds
<1> QED BY <1>1, <1>3, <1>5, <1>6, <1>7, <1>10, <1>12, <1>13, <1>14, <1>15, SubmitStep

LEMMA WriteSyncStep == ASSUME IInv, NEW p \in Proc, WriteSync(p) PROVE IInv'
<1>1. /\ pc[p] = "use" /\ chan[p] = NoBuf /\ cpu \in {p, Idle} /\ cpu' = p
      /\ CopyIn(p) /\ key[bp[p]] # NoBlk /\ req[p].op \in {"write", "update"}
      /\ Strategy(bp[p], BwriteFlags(flags[bp[p]]))
      /\ pc' = [pc EXCEPT ![p] = "wwait"]
      /\ UNCHANGED <<key, lru, age, freewant, disk, req, want, cand, bp, chan, reply>>
  BY DEF WriteSync, Writes, Runs, Goto
<1>2. TypeOK /\ Lists /\ ControlOf(p) /\ LocalKeysOf(p) /\ NoBuf \notin Buf
  BY PoolAssumption DEF IInv, Control, Keys
<1>3. PICK b \in Buf : b = bp[p] /\ Holds(p, b) /\ b \notin QueueSet
  BY <1>1, <1>2 DEF ControlOf, LocalKeysOf, Holds
<1>4. PICK fl : fl = BwriteFlags(flags[b])
  OBVIOUS
<1>5. /\ "BUSY" \in flags[b] /\ "ASYNC" \notin flags[b] /\ key[b] \in Blk
      /\ flags[b] \subseteq Flag /\ b \notin FreeSet
  BY <1>1, <1>2, <1>3, Held DEF TypeOK
<1>6. /\ fl \subseteq Flag /\ "BUSY" \in fl /\ "ASYNC" \notin fl /\ {"DONE", "ERROR", "DELWRI"} \cap fl = {}
      /\ "WANTED" \in flags[b] => "WANTED" \in fl
  BY <1>4, <1>5 DEF Flag, BwriteFlags
<1>7. Strategy(b, fl)
  BY <1>1, <1>3, <1>4
<1>8. /\ flags' \in [Buf -> SUBSET Flag] /\ ioq' \in Seq(Buf) /\ QueueSet' = QueueSet \cup {b}
      /\ \A c \in Buf \ {b} : flags'[c] = flags[c]
  BY <1>3, <1>6, <1>7, StrategyTypes
<1>9. data' \in [Buf -> Val]
  BY <1>1, <1>2, InUse, CopyInType
<1>10. TypeOK'
  BY <1>1, <1>2, <1>3, <1>8, <1>9 DEF TypeOK, Where
<1>11. pc'[p] = "wwait" /\ bp'[p] = b /\ req'[p] = req[p] /\ want'[p] = want[p] /\ cand'[p] = cand[p]
  BY <1>1, <1>2, <1>3 DEF TypeOK
<1>12. ControlOf(p)'
  BY <1>1, <1>2, <1>3, <1>11 DEF ControlOf, Searching, ForReadAhead, Asked
<1>13. LocalKeysOf(p)'
  BY <1>1, <1>2, <1>8, <1>11 DEF LocalKeysOf
<1>14. \A q \in Proc \ {p} : SameProcess(q)
  BY <1>1, <1>2 DEF SameProcess, TypeOK
<1>15. Holds(p, b)' /\ \A c \in Buf \ {b} : Holds(p, c)' <=> Holds(p, c)
  BY <1>1, <1>2, <1>3, <1>11 DEF Holds
<1> QED BY <1>1, <1>3, <1>5, <1>6, <1>7, <1>10, <1>12, <1>13, <1>14, <1>15, SubmitStep

(* bflush finds what it writes on a free list. *)
LEMMA FlushFinds ==
    ASSUME IInv, NEW p \in Proc, FlushOne(p)
    PROVE  \E b \in FreeSet : /\ b \in Buf /\ "DELWRI" \in flags[b] /\ TakeOff(b)
                              /\ Strategy(b, BwriteFlags(flags[b] \cup {"BUSY", "ASYNC"}) \cup {"AGE"})
<1> DEFINE s == lru \o age
           D == {i \in DOMAIN s : "DELWRI" \in flags[s[i]]}
           i == CHOOSE i \in D : \A j \in D : i <= j
<1>1. TypeOK /\ lru \in Seq(Buf) /\ age \in Seq(Buf)
  BY DEF IInv, TypeOK
<1>2. /\ Len(lru) \in Nat /\ Len(age) \in Nat /\ DOMAIN lru = 1..Len(lru) /\ DOMAIN age = 1..Len(age)
      /\ s \in Seq(Buf) /\ DOMAIN s = 1..(Len(lru) + Len(age))
      /\ \A j \in 1..(Len(lru) + Len(age)) :
             s[j] = IF j <= Len(lru) THEN lru[j] ELSE age[j - Len(lru)]
  BY <1>1, LenProperties, ConcatProperties
<1>3. \A j \in DOMAIN s : s[j] \in FreeSet
  <2> HIDE DEF s
  <2> TAKE j \in DOMAIN s
  <2>1. CASE j <= Len(lru)
    <3>1. s[j] = lru[j] /\ j \in DOMAIN lru
      BY <1>2, <2>1
    <3> QED BY <3>1 DEF FreeSet, ToSet
  <2>2. CASE ~(j <= Len(lru))
    <3>1. s[j] = age[j - Len(lru)] /\ j - Len(lru) \in DOMAIN age
      BY <1>2, <2>2
    <3> QED BY <3>1 DEF FreeSet, ToSet
  <2> QED BY <2>1, <2>2
<1>4. D # {} /\ D \subseteq Nat
  <2>1. D # {}
    BY ZenonT(60) DEF FlushOne
  <2>2. D \subseteq DOMAIN s
    OBVIOUS
  <2> HIDE DEF s, D
  <2> QED BY <1>2, <2>1, <2>2
<1>5. \E k \in D : \A j \in D : k <= j
  <2> HIDE DEF D
  <2> QED BY ZenonT(60), <1>4, LeastNat
<1>6. i \in D
  <2> HIDE DEF D
  <2> QED BY <1>5
<1>7. TakeOff(s[i]) /\ Strategy(s[i], BwriteFlags(flags[s[i]] \cup {"BUSY", "ASYNC"}) \cup {"AGE"})
  BY ZenonT(60) DEF FlushOne
<1>8. s[i] \in FreeSet /\ "DELWRI" \in flags[s[i]]
  BY ZenonT(60), <1>3, <1>6
<1>9. FreeSet \subseteq Buf
  BY <1>1 DEF FreeSet, ToSet
<1> HIDE DEF s, D, i
<1> QED BY <1>7, <1>8, <1>9

LEMMA FlushOneStep == ASSUME IInv, NEW p \in Proc, FlushOne(p) PROVE IInv'
<1>1. /\ pc[p] = "flush" /\ chan[p] = NoBuf /\ cpu \in {p, Idle} /\ cpu' = p
      /\ pc' = [pc EXCEPT ![p] = "flush"]
      /\ UNCHANGED <<key, data, freewant, disk, req, want, cand, bp, chan, reply>>
  BY ZenonT(60) DEF FlushOne, Runs, Goto
<1>2. TypeOK /\ Lists /\ ControlOf(p) /\ LocalKeysOf(p)
  BY DEF IInv, Control, Keys
<1>3. PICK b \in FreeSet : /\ b \in Buf /\ "DELWRI" \in flags[b] /\ TakeOff(b)
                           /\ Strategy(b, BwriteFlags(flags[b] \cup {"BUSY", "ASYNC"}) \cup {"AGE"})
  BY FlushFinds
<1>4. PICK fl : fl = BwriteFlags(flags[b] \cup {"BUSY", "ASYNC"}) \cup {"AGE"}
  OBVIOUS
<1>5. b \notin QueueSet /\ (\A q \in Proc : ~Holds(q, b)) /\ key[b] \in Blk /\ flags[b] \subseteq Flag
  BY <1>3, NotHeld DEF KeysOf
<1>6. /\ fl \subseteq Flag /\ {"BUSY", "ASYNC"} \subseteq fl /\ {"DONE", "ERROR", "DELWRI"} \cap fl = {}
      /\ "WANTED" \in flags[b] => "WANTED" \in fl
  BY <1>4, <1>5 DEF BwriteFlags, Flag
<1>7. Strategy(b, fl) /\ TakeOff(b)
  BY <1>3, <1>4
<1>8. /\ flags' \in [Buf -> SUBSET Flag] /\ ioq' \in Seq(Buf) /\ QueueSet' = QueueSet \cup {b}
      /\ \A c \in Buf \ {b} : flags'[c] = flags[c]
  BY <1>3, <1>5, <1>6, <1>7, StrategyTypes
<1>9. lru' \in Seq(Buf) /\ age' \in Seq(Buf)
  BY <1>2, <1>3, <1>7, TakeOffLists
<1>10. TypeOK'
  BY <1>1, <1>2, <1>3, <1>8, <1>9 DEF TypeOK, Where
<1>11. /\ pc'[p] = "flush" /\ cand'[p] = cand[p] /\ bp'[p] = bp[p]
       /\ bp[p] \notin Buf /\ req'[p] = req[p] /\ want'[p] = want[p]
  BY <1>1, <1>2 DEF TypeOK, ControlOf, Searching
<1>12. ControlOf(p)'
  BY <1>1, <1>2, <1>11 DEF ControlOf, Searching, ForReadAhead, Asked
<1>13. LocalKeysOf(p)'
  BY <1>11 DEF LocalKeysOf
<1>14. \A q \in Proc \ {p} : SameProcess(q)
  BY <1>1, <1>2 DEF SameProcess, TypeOK
<1>15. \A c \in Buf : Holds(p, c)' <=> Holds(p, c)
  BY <1>1, <1>11 DEF Holds
<1>16. UNCHANGED <<key, freewant, chan>> /\ ~Holds(p, b)
  BY <1>1, <1>5
<1> QED BY <1>1, <1>3, <1>5, <1>6, <1>7, <1>10, <1>12, <1>13, <1>14, <1>15, <1>16, SubmitStep

LEMMA PushWritesStep == ASSUME IInv, NEW p \in Proc, PushWrites(p) PROVE IInv'
<1>1. /\ pc[p] = "blkflush" /\ chan[p] = NoBuf /\ cpu \in {p, Idle} /\ cpu' = p
      /\ pc' = [pc EXCEPT ![p] = "fwait"]
      /\ UNCHANGED <<key, data, freewant, disk, req, want, cand, chan, reply>>
  BY DEF PushWrites, Runs, Goto
<1>2. TypeOK /\ Lists /\ ControlOf(p) /\ LocalKeysOf(p)
  BY DEF IInv, Control, Keys
<1>3. PICK b \in Buf : /\ "BUSY" \notin flags[b] /\ "DELWRI" \in flags[b] /\ TakeOff(b)
                       /\ Strategy(b, BwriteFlags(flags[b] \cup {"BUSY"}))
                       /\ bp' = [bp EXCEPT ![p] = b]
  BY DEF PushWrites, Hits
<1>4. PICK fl : fl = BwriteFlags(flags[b] \cup {"BUSY"})
  OBVIOUS
<1>5. b \in FreeSet
  BY <1>3 DEF IInv, Owners, OwnersOf
<1>6. /\ b \notin QueueSet /\ (\A q \in Proc : ~Holds(q, b)) /\ key[b] \in Blk /\ flags[b] \subseteq Flag
      /\ "ASYNC" \notin flags[b]
  BY <1>3, <1>5, NotHeld DEF KeysOf
<1>7. /\ fl \subseteq Flag /\ "BUSY" \in fl /\ "ASYNC" \notin fl /\ {"DONE", "ERROR", "DELWRI"} \cap fl = {}
      /\ "WANTED" \in flags[b] => "WANTED" \in fl
  BY <1>4, <1>6 DEF BwriteFlags, Flag
<1>8. Strategy(b, fl) /\ TakeOff(b)
  BY <1>3, <1>4
<1>9. /\ flags' \in [Buf -> SUBSET Flag] /\ ioq' \in Seq(Buf) /\ QueueSet' = QueueSet \cup {b}
      /\ \A c \in Buf \ {b} : flags'[c] = flags[c]
  BY <1>6, <1>7, <1>8, StrategyTypes
<1>10. lru' \in Seq(Buf) /\ age' \in Seq(Buf)
  BY <1>2, <1>8, TakeOffLists
<1>11. TypeOK'
  BY <1>1, <1>2, <1>3, <1>9, <1>10 DEF TypeOK, Where
<1>12. /\ pc'[p] = "fwait" /\ cand'[p] = cand[p] /\ bp'[p] = b /\ bp[p] \notin Buf
       /\ req'[p] = req[p] /\ want'[p] = want[p]
  BY <1>1, <1>2, <1>3 DEF TypeOK, ControlOf, Searching
<1>13. ControlOf(p)'
  BY <1>1, <1>2, <1>3, <1>12 DEF ControlOf, Searching, ForReadAhead, Asked
<1>14. LocalKeysOf(p)'
  BY <1>9, <1>12 DEF LocalKeysOf
<1>15. \A q \in Proc \ {p} : SameProcess(q)
  BY <1>1, <1>2, <1>3 DEF SameProcess, TypeOK
<1>16. Holds(p, b)' /\ \A c \in Buf \ {b} : Holds(p, c)' <=> Holds(p, c)
  BY <1>1, <1>12 DEF Holds
<1> QED BY <1>1, <1>5, <1>6, <1>7, <1>8, <1>11, <1>13, <1>14, <1>15, <1>16, SubmitStep

(* A step that only adds B_WANTED, B_AGE or B_INVAL and lets p sleep. *)
LEMMA ShadeStep ==
    ASSUME IInv, NEW p \in Proc, cpu \in {p, Idle}, UNCHANGED <<key, lru, age, ioq>>,
           \A b \in Buf : flags[b] \subseteq flags'[b]
                          /\ flags'[b] \subseteq flags[b] \cup {"WANTED", "AGE", "INVAL"},
           freewant => freewant',
           \A q \in Proc \ {p} : SameProcess(q),
           \A b \in Buf : Holds(p, b)' <=> Holds(p, b),
           TypeOK', ControlOf(p)', LocalKeysOf(p)', SleepersOf(p)'
    PROVE  IInv'
<1>1. FreeSet' = FreeSet /\ QueueSet' = QueueSet
  BY DEF FreeSet, QueueSet
<1>2. FreeList \notin Buf /\ FreeList # NoBuf
  BY PoolAssumption
<1>3. \A q \in Proc : ~Holds(q, FreeList)
  BY <1>2 DEF Holds, IInv, TypeOK
<1>4. \A b \in Buf : SameBuffer(b)
  BY <1>1 DEF SameBuffer, Lasting
<1>5. Frame(p, FreeList)
  BY <1>3, <1>4 DEF Frame
<1>6. WakesAll(p)
  BY <1>1 DEF WakesAll
<1>7. Lists'
  BY DEF IInv, Lists
<1> QED BY <1>2, <1>5, <1>6, <1>7, OneProcess

LEMMA WaitHitStep == ASSUME IInv, NEW p \in Proc, WaitHit(p) PROVE IInv'
<1>1. /\ pc[p] = "hit" /\ chan[p] = NoBuf /\ cpu \in {p, Idle} /\ cpu' = Idle
      /\ "BUSY" \in flags[cand[p]]
      /\ flags' = [flags EXCEPT ![cand[p]] = @ \cup {"WANTED"}]
      /\ cand' = [cand EXCEPT ![p] = NoBuf] /\ pc' = [pc EXCEPT ![p] = "getblk"]
      /\ chan' = [chan EXCEPT ![p] = cand[p]]
      /\ UNCHANGED <<key, data, lru, age, freewant, ioq, disk, req, want, bp, reply>>
  BY DEF WaitHit, Runs, SleepOn
<1>2. TypeOK /\ ControlOf(p) /\ LocalKeysOf(p) /\ NoBuf \notin Buf /\ QueueSet' = QueueSet
  BY <1>1, PoolAssumption DEF IInv, Control, Keys, QueueSet
<1>3. PICK b \in Buf : b = cand[p]
  BY <1>1, <1>2 DEF ControlOf
<1>4. /\ flags'[b] = flags[b] \cup {"WANTED"} /\ \A c \in Buf \ {b} : flags'[c] = flags[c]
      /\ flags' \in [Buf -> SUBSET Flag]
  BY <1>1, <1>2, <1>3 DEF TypeOK, Flag
<1>5. TypeOK'
  BY <1>1, <1>2, <1>3, <1>4 DEF TypeOK, Where
<1>6. /\ pc'[p] = "getblk" /\ cand'[p] = NoBuf /\ bp'[p] = bp[p] /\ chan'[p] = b
      /\ req'[p] = req[p] /\ want'[p] = want[p]
  BY <1>1, <1>2, <1>3 DEF TypeOK
<1>7. ControlOf(p)'
  BY <1>1, <1>2, <1>6 DEF ControlOf, Searching, ForReadAhead, Asked
<1>8. LocalKeysOf(p)'
  BY <1>1, <1>2, <1>4, <1>6 DEF LocalKeysOf
<1>9. SleepersOf(p)'
  BY <1>1, <1>3, <1>4, <1>6 DEF SleepersOf
<1>10. \A q \in Proc \ {p} : SameProcess(q)
  BY <1>1, <1>2 DEF SameProcess, TypeOK
<1>11. \A c \in Buf : Holds(p, c)' <=> Holds(p, c)
  BY <1>1, <1>6 DEF Holds
<1>12. \A c \in Buf : flags[c] \subseteq flags'[c] /\ flags'[c] \subseteq flags[c] \cup {"WANTED", "AGE", "INVAL"}
  BY <1>4
<1> QED BY <1>1, <1>5, <1>7, <1>8, <1>9, <1>10, <1>11, <1>12, ShadeStep

LEMMA PushWaitsStep == ASSUME IInv, NEW p \in Proc, PushWaits(p) PROVE IInv'
<1>1. /\ pc[p] = "blkflush" /\ chan[p] = NoBuf /\ cpu \in {p, Idle}
      /\ UNCHANGED <<key, data, lru, age, freewant, ioq, disk, req, want, cand, bp, reply>>
  BY DEF PushWaits, Runs
<1>2. TypeOK /\ ControlOf(p) /\ LocalKeysOf(p) /\ QueueSet' = QueueSet
  BY <1>1 DEF IInv, Control, Keys, QueueSet
<1>3. PICK b \in Buf : /\ "BUSY" \in flags[b] /\ flags' = [flags EXCEPT ![b] = @ \cup {"WANTED"}]
                       /\ pc' = [pc EXCEPT ![p] = "blkflush"]
                       /\ chan' = [chan EXCEPT ![p] = b] /\ cpu' = Idle
  BY DEF PushWaits, SleepOn, Hits
<1>4. /\ flags'[b] = flags[b] \cup {"WANTED"} /\ \A c \in Buf \ {b} : flags'[c] = flags[c]
      /\ flags' \in [Buf -> SUBSET Flag]
  BY <1>2, <1>3 DEF TypeOK, Flag
<1>5. TypeOK'
  BY <1>1, <1>2, <1>3, <1>4 DEF TypeOK, Where
<1>6. /\ pc'[p] = "blkflush" /\ cand'[p] = cand[p] /\ bp'[p] = bp[p] /\ chan'[p] = b
      /\ req'[p] = req[p] /\ want'[p] = want[p] /\ bp[p] \notin Buf
  BY <1>1, <1>2, <1>3 DEF TypeOK, ControlOf, Searching
<1>7. ControlOf(p)'
  BY <1>1, <1>2, <1>6 DEF ControlOf, Searching, ForReadAhead, Asked
<1>8. LocalKeysOf(p)'
  BY <1>6 DEF LocalKeysOf
<1>9. SleepersOf(p)'
  BY <1>3, <1>4, <1>6 DEF SleepersOf
<1>10. \A q \in Proc \ {p} : SameProcess(q)
  BY <1>1, <1>2, <1>3 DEF SameProcess, TypeOK
<1>11. \A c \in Buf : Holds(p, c)' <=> Holds(p, c)
  BY <1>1, <1>6 DEF Holds
<1>12. \A c \in Buf : flags[c] \subseteq flags'[c] /\ flags'[c] \subseteq flags[c] \cup {"WANTED", "AGE", "INVAL"}
  BY <1>4
<1> QED BY <1>1, <1>5, <1>7, <1>8, <1>9, <1>10, <1>11, <1>12, ShadeStep

LEMMA WaitFreeStep == ASSUME IInv, NEW p \in Proc, WaitFree(p) PROVE IInv'
<1>1. /\ pc[p] = "getnew" /\ chan[p] = NoBuf /\ cpu \in {p, Idle} /\ cpu' = Idle
      /\ age = <<>> /\ lru = <<>> /\ freewant' = TRUE
      /\ pc' = [pc EXCEPT ![p] = "getnew"]
      /\ chan' = [chan EXCEPT ![p] = FreeList]
      /\ UNCHANGED <<flags, key, data, lru, age, ioq, disk, req, want, cand, bp, reply>>
  BY DEF WaitFree, Runs, SleepOn
<1>2. /\ TypeOK /\ ControlOf(p) /\ LocalKeysOf(p) /\ NoBuf \notin Buf /\ QueueSet' = QueueSet
      /\ FreeSet' = FreeSet
  BY <1>1, PoolAssumption DEF IInv, Control, Keys, QueueSet, FreeSet
<1>3. FreeSet = {}
  BY <1>1, <1>2, EmptyPool
<1>5. TypeOK'
  BY <1>1, <1>2 DEF TypeOK, Where
<1>6. /\ pc'[p] = "getnew" /\ cand'[p] = cand[p] /\ bp'[p] = bp[p] /\ chan'[p] = FreeList
      /\ req'[p] = req[p] /\ want'[p] = want[p]
  BY <1>1, <1>2 DEF TypeOK
<1>7. ControlOf(p)'
  BY <1>1, <1>2, <1>6 DEF ControlOf, Searching, ForReadAhead, Asked
<1>8. LocalKeysOf(p)'
  BY <1>1, <1>2, <1>6 DEF LocalKeysOf
<1>9. SleepersOf(p)'
  BY <1>1, <1>2, <1>3, <1>6 DEF SleepersOf
<1>10. \A q \in Proc \ {p} : SameProcess(q)
  BY <1>1, <1>2 DEF SameProcess, TypeOK
<1>11. \A c \in Buf : Holds(p, c)' <=> Holds(p, c)
  BY <1>1, <1>6 DEF Holds
<1> QED BY <1>1, <1>5, <1>7, <1>8, <1>9, <1>10, <1>11, ShadeStep

LEMMA SleepIOStep == ASSUME IInv, NEW p \in Proc, SleepIO(p) PROVE IInv'
<1>1. /\ pc[p] \in {"biowait", "wwait", "fwait"} /\ chan[p] = NoBuf /\ cpu \in {p, Idle} /\ cpu' = Idle
      /\ "DONE" \notin flags[bp[p]]
      /\ pc' = [pc EXCEPT ![p] = pc[p]]
      /\ chan' = [chan EXCEPT ![p] = bp[p]]
      /\ UNCHANGED <<flags, key, data, lru, age, freewant, ioq, disk, req, want, cand, bp, reply>>
  BY DEF SleepIO, Runs, SleepOn, pool
<1>2. TypeOK /\ ControlOf(p) /\ LocalKeysOf(p) /\ QueueSet' = QueueSet
  BY <1>1 DEF IInv, Control, Keys, QueueSet
<1>5. TypeOK'
  BY <1>1, <1>2 DEF TypeOK, Where
<1>6. /\ pc'[p] = pc[p] /\ cand'[p] = cand[p] /\ bp'[p] = bp[p] /\ chan'[p] = bp[p]
      /\ req'[p] = req[p] /\ want'[p] = want[p]
  BY <1>1, <1>2 DEF TypeOK
<1>7. ControlOf(p)'
  BY <1>1, <1>2, <1>6 DEF ControlOf, Searching, ForReadAhead, Asked
<1>8. LocalKeysOf(p)'
  BY <1>1, <1>2, <1>6 DEF LocalKeysOf
<1>9. SleepersOf(p)'
  BY <1>1, <1>6 DEF SleepersOf
<1>10. \A q \in Proc \ {p} : SameProcess(q)
  BY <1>1, <1>2 DEF SameProcess, TypeOK
<1>11. \A c \in Buf : Holds(p, c)' <=> Holds(p, c)
  BY <1>1, <1>6 DEF Holds
<1> QED BY <1>1, <1>5, <1>7, <1>8, <1>9, <1>10, <1>11, ShadeStep

LEMMA SetAgeStep == ASSUME IInv, NEW p \in Proc, SetAge(p) PROVE IInv'
<1>1. /\ chan[p] = NoBuf /\ cpu \in {p, Idle} /\ cpu' = p
      /\ \/ pc[p] = "aged" /\ pc' = [pc EXCEPT ![p] = "getnew"]
         \/ pc[p] = "written" /\ pc' = [pc EXCEPT ![p] = "return"]
      /\ flags' = [flags EXCEPT ![cand[p]] = @ \cup {"AGE"}]
      /\ cand' = [cand EXCEPT ![p] = NoBuf]
      /\ UNCHANGED <<key, data, lru, age, freewant, ioq, disk, req, want, bp, chan, reply>>
  BY DEF SetAge, Runs, Goto
<1>2. TypeOK /\ ControlOf(p) /\ LocalKeysOf(p) /\ NoBuf \notin Buf /\ QueueSet' = QueueSet
  BY <1>1, PoolAssumption DEF IInv, Control, Keys, QueueSet
<1>3. PICK b \in Buf : b = cand[p]
  BY <1>1, <1>2 DEF ControlOf
<1>4. /\ flags'[b] = flags[b] \cup {"AGE"} /\ \A c \in Buf \ {b} : flags'[c] = flags[c]
      /\ flags' \in [Buf -> SUBSET Flag]
  BY <1>1, <1>2, <1>3 DEF TypeOK, Flag
<1>5. TypeOK'
  BY <1>1, <1>2, <1>3, <1>4 DEF TypeOK, Where
<1>6. /\ \/ pc[p] = "aged" /\ pc'[p] = "getnew"
         \/ pc[p] = "written" /\ pc'[p] = "return"
      /\ cand'[p] = NoBuf /\ bp'[p] = bp[p] /\ req'[p] = req[p] /\ want'[p] = want[p]
  BY <1>1, <1>2, <1>3 DEF TypeOK
<1>7. ControlOf(p)'
  BY <1>1, <1>2, <1>6 DEF ControlOf, Searching, ForReadAhead, Asked
<1>8. LocalKeysOf(p)'
  BY <1>1, <1>2, <1>4, <1>6 DEF LocalKeysOf
<1>9. SleepersOf(p)'
  BY <1>1 DEF SleepersOf
<1>10. \A q \in Proc \ {p} : SameProcess(q)
  BY <1>1, <1>2 DEF SameProcess, TypeOK
<1>11. \A c \in Buf : Holds(p, c)' <=> Holds(p, c)
  BY <1>1, <1>6 DEF Holds
<1>12. \A c \in Buf : flags[c] \subseteq flags'[c] /\ flags'[c] \subseteq flags[c] \cup {"WANTED", "AGE", "INVAL"}
  BY <1>4
<1> QED BY <1>1, <1>5, <1>7, <1>8, <1>9, <1>10, <1>11, <1>12, ShadeStep

LEMMA BinvalStep == ASSUME IInv, NEW p \in Proc, Binval(p) PROVE IInv'
<1>1. /\ pc[p] = "inval" /\ chan[p] = NoBuf /\ cpu \in {p, Idle} /\ cpu' = p
      /\ pc' = [pc EXCEPT ![p] = "return"]
      /\ flags' = [b \in Buf |-> IF key[b] # NoBlk THEN flags[b] \cup {"INVAL"} ELSE flags[b]]
      /\ UNCHANGED <<key, data, lru, age, freewant, ioq, disk, req, want, cand, bp, chan, reply>>
  BY DEF Binval, Runs, Goto
<1>2. TypeOK /\ ControlOf(p) /\ LocalKeysOf(p)
  BY DEF IInv, Control, Keys
<1>3. /\ \A c \in Buf : flags[c] \subseteq flags'[c] /\ flags'[c] \subseteq flags[c] \cup {"WANTED", "AGE", "INVAL"}
      /\ flags' \in [Buf -> SUBSET Flag]
  BY <1>1, <1>2 DEF TypeOK, Flag
<1>4. TypeOK'
  BY <1>1, <1>2, <1>3 DEF TypeOK, Where
<1>5. /\ pc'[p] = "return" /\ cand'[p] = cand[p] /\ bp'[p] = bp[p] /\ bp[p] \notin Buf
      /\ req'[p] = req[p] /\ want'[p] = want[p]
  BY <1>1, <1>2 DEF TypeOK, ControlOf, Searching
<1>6. ControlOf(p)' /\ LocalKeysOf(p)' /\ SleepersOf(p)'
  BY <1>1, <1>2, <1>5 DEF ControlOf, LocalKeysOf, SleepersOf, Searching, Asked
<1>7. \A q \in Proc \ {p} : SameProcess(q)
  BY <1>1, <1>2 DEF SameProcess, TypeOK
<1>8. \A c \in Buf : Holds(p, c)' <=> Holds(p, c)
  BY <1>1, <1>5 DEF Holds
<1> QED BY <1>1, <1>3, <1>4, <1>6, <1>7, <1>8, ShadeStep

LEMMA TakeHitStep == ASSUME IInv, NEW p \in Proc, TakeHit(p) PROVE IInv'
<1>1. /\ pc[p] = "hit" /\ chan[p] = NoBuf /\ cpu \in {p, Idle} /\ cpu' = p
      /\ "BUSY" \notin flags[cand[p]] /\ TakeOff(cand[p])
      /\ flags' = [flags EXCEPT ![cand[p]] = @ \cup {"BUSY"}]
      /\ pc' = [pc EXCEPT ![p] = "got"]
      /\ UNCHANGED <<key, data, freewant, ioq, disk, req, want, cand, bp, chan, reply>>
  BY DEF TakeHit, Runs, Goto
<1>2. /\ TypeOK /\ Lists /\ ControlOf(p) /\ LocalKeysOf(p) /\ QueueSet' = QueueSet
  BY <1>1 DEF IInv, Control, Keys, QueueSet
<1>3. PICK b \in Buf : b = cand[p]
  BY <1>1, <1>2 DEF ControlOf
<1>4. b \in FreeSet
  BY <1>1, <1>3 DEF IInv, Owners, OwnersOf
<1>5. /\ b \notin QueueSet /\ (\A q \in Proc : ~Holds(q, b)) /\ KeysOf(b) /\ "ASYNC" \notin flags[b]
  BY <1>4, NotHeld
<1>6. TakeOff(b)
  BY <1>1, <1>3
<1>7. /\ lru' \in Seq(Buf) /\ age' \in Seq(Buf) /\ FreeSet' = FreeSet \ {b} /\ Lists'
  <2>1. /\ lru' \in Seq(Buf) /\ age' \in Seq(Buf) /\ FreeSet' = FreeSet \ {b}
        /\ IsInjective(lru') /\ IsInjective(age') /\ ToSet(lru') \cap ToSet(age') = {}
    BY <1>2, <1>6, TakeOffLists
  <2> QED BY <1>1, <1>2, <2>1 DEF Lists
<1>8. /\ flags'[b] = flags[b] \cup {"BUSY"} /\ \A c \in Buf \ {b} : flags'[c] = flags[c]
      /\ flags' \in [Buf -> SUBSET Flag]
  BY <1>1, <1>2, <1>3 DEF TypeOK, Flag
<1>9. TypeOK'
  BY <1>1, <1>2, <1>7, <1>8 DEF TypeOK, Where
<1>10. /\ pc'[p] = "got" /\ cand'[p] = b /\ bp'[p] = bp[p] /\ bp[p] # b
       /\ req'[p] = req[p] /\ want'[p] = want[p] /\ key' = key
  BY <1>1, <1>2, <1>3, <1>5 DEF TypeOK, Holds
<1>11. ControlOf(p)'
  BY <1>1, <1>2, <1>3, <1>10 DEF ControlOf, Searching, ForReadAhead, Asked
<1>12. LocalKeysOf(p)'
  BY <1>1, <1>2, <1>3, <1>4, <1>5, <1>8, <1>10 DEF LocalKeysOf, ControlOf, KeysOf
<1>13. SleepersOf(p)'
  BY <1>1 DEF SleepersOf
<1>14. Frame(p, b)
  <2>1. \A c \in Buf \ {b} : SameBuffer(c)
    BY <1>2, <1>7, <1>8, <1>10 DEF SameBuffer
  <2>2. \A c \in Buf \ {b} : Holds(p, c)' <=> Holds(p, c)
    BY <1>1, <1>10 DEF Holds
  <2>3. \A q \in Proc \ {p} : SameProcess(q)
    BY <1>1, <1>2 DEF SameProcess, TypeOK
  <2> QED BY <1>1, <1>5, <2>1, <2>2, <2>3 DEF Frame
<1>15. WakesAll(p)
  BY <1>4, <1>8 DEF WakesAll
<1>16. KeysOf(b)'
  BY <1>2, <1>5, <1>7, <1>8, <1>10 DEF KeysOf
<1>17. OwnersOf(b)'
  <2>1. \A q \in Proc : Holds(q, b)' <=> q = p
    BY <1>5, <1>10, <1>14 DEF Holds, Frame, SameProcess
  <2> QED BY <1>2, <1>5, <1>7, <1>8, <2>1 DEF OwnersOf
<1> QED BY <1>7, <1>9, <1>11, <1>12, <1>13, <1>14, <1>15, <1>16, <1>17, OneProcess

LEMMA ReassignStep == ASSUME IInv, NEW p \in Proc, Reassign(p) PROVE IInv'
<1>1. /\ pc[p] = "getnew" /\ chan[p] = NoBuf /\ cpu \in {p, Idle} /\ cpu' = p
      /\ age # <<>> \/ lru # <<>>
      /\ "DELWRI" \notin flags[Oldest] /\ TakeOff(Oldest)
      /\ \/ /\ req[p].op = "scratch"
            /\ flags' = [flags EXCEPT ![Oldest] = {"BUSY", "INVAL"}]
            /\ key' = [key EXCEPT ![Oldest] = NoBlk]
         \/ /\ req[p].op # "scratch"
            /\ flags' = [flags EXCEPT ![Oldest] = {"BUSY"}]
            /\ key' = [key EXCEPT ![Oldest] = want[p]]
      /\ cand' = [cand EXCEPT ![p] = Oldest] /\ pc' = [pc EXCEPT ![p] = "got"]
      /\ UNCHANGED <<data, freewant, ioq, disk, req, want, bp, chan, reply>>
  BY DEF Reassign, Runs, Goto
<1>2. /\ TypeOK /\ Lists /\ ControlOf(p) /\ LocalKeysOf(p) /\ QueueSet' = QueueSet
  BY <1>1 DEF IInv, Control, Keys, QueueSet
<1>3. PICK b \in Buf : b = Oldest /\ b \in FreeSet
  BY <1>1, <1>2, OldestIsFree
<1>5. /\ b \notin QueueSet /\ (\A q \in Proc : ~Holds(q, b)) /\ "BUSY" \notin flags[b]
  BY <1>3, NotHeld
<1>6. TakeOff(b)
  BY <1>1, <1>3
<1>7. /\ lru' \in Seq(Buf) /\ age' \in Seq(Buf) /\ FreeSet' = FreeSet \ {b} /\ Lists'
  <2>1. /\ lru' \in Seq(Buf) /\ age' \in Seq(Buf) /\ FreeSet' = FreeSet \ {b}
        /\ IsInjective(lru') /\ IsInjective(age') /\ ToSet(lru') \cap ToSet(age') = {}
    BY <1>2, <1>6, TakeOffLists
  <2> QED BY <1>1, <1>2, <2>1 DEF Lists
<1>8. /\ \/ req[p].op = "scratch" /\ flags'[b] = {"BUSY", "INVAL"} /\ key'[b] = NoBlk
         \/ req[p].op # "scratch" /\ flags'[b] = {"BUSY"} /\ key'[b] = want[p] /\ want[p] \in Blk
      /\ \A c \in Buf \ {b} : flags'[c] = flags[c] /\ key'[c] = key[c]
      /\ flags' \in [Buf -> SUBSET Flag] /\ key' \in [Buf -> Blk \cup {NoBlk}]
  <2>1. req[p].op # "scratch" => want[p] \in Blk
    BY <1>1, <1>2 DEF ControlOf, Searching
  <2>2. {"BUSY"} \subseteq Flag /\ {"BUSY", "INVAL"} \subseteq Flag
    BY DEF Flag
  <2>3. flags \in [Buf -> SUBSET Flag] /\ key \in [Buf -> Blk \cup {NoBlk}]
    BY <1>2 DEF TypeOK
  <2>4. CASE req[p].op = "scratch"
    BY <1>1, <1>3, <2>2, <2>3, <2>4
  <2>5. CASE req[p].op # "scratch"
    BY <1>1, <1>3, <2>1, <2>2, <2>3, <2>5
  <2> QED BY <2>4, <2>5
<1>9. TypeOK'
  BY <1>1, <1>2, <1>3, <1>7, <1>8 DEF TypeOK, Where
<1>10. /\ pc'[p] = "got" /\ cand'[p] = b /\ bp'[p] = bp[p] /\ bp[p] # b
       /\ req'[p] = req[p] /\ want'[p] = want[p]
  BY <1>1, <1>2, <1>3, <1>5 DEF TypeOK, Holds
<1>11. ControlOf(p)'
  BY <1>1, <1>2, <1>3, <1>10 DEF ControlOf, Searching, ForReadAhead, Asked
<1>12. LocalKeysOf(p)'
  BY <1>1, <1>2, <1>5, <1>8, <1>10 DEF LocalKeysOf
<1>13. SleepersOf(p)'
  BY <1>1 DEF SleepersOf
<1>14. Frame(p, b)
  <2>1. \A c \in Buf \ {b} : SameBuffer(c)
    BY <1>2, <1>7, <1>8 DEF SameBuffer
  <2>2. \A c \in Buf \ {b} : Holds(p, c)' <=> Holds(p, c)
    BY <1>1, <1>10 DEF Holds
  <2>3. \A q \in Proc \ {p} : SameProcess(q)
    BY <1>1, <1>2 DEF SameProcess, TypeOK
  <2> QED BY <1>1, <1>5, <2>1, <2>2, <2>3 DEF Frame
<1>15. WakesAll(p)
  BY <1>3, <1>5, <1>8 DEF WakesAll
<1>16. KeysOf(b)'
  BY <1>2, <1>5, <1>7, <1>8, DataAssumption DEF KeysOf
<1>17. OwnersOf(b)'
  <2>1. \A q \in Proc : Holds(q, b)' <=> q = p
    BY <1>5, <1>10, <1>14 DEF Holds, Frame, SameProcess
  <2> QED BY <1>2, <1>5, <1>7, <1>8, <2>1 DEF OwnersOf
<1> QED BY <1>7, <1>9, <1>11, <1>12, <1>13, <1>14, <1>15, <1>16, <1>17, OneProcess

-----------------------------------------------------------------------------
(* The disk, the crash and the boot *)

(* biodone touches the one buffer at the head of the queue. *)
LEMMA InterruptStep ==
    ASSUME IInv, ioq # <<>>, ioq' = Tail(ioq), NEW fl,
           flags[Head(ioq)] \subseteq fl, fl \subseteq flags[Head(ioq)] \cup {"ERROR"},
           Biodone(Head(ioq), fl),
           UNCHANGED <<pc, req, want, cand, bp, cpu, reply>>,
           data' \in [Buf -> Val], disk' \in [Blk -> Val]
    PROVE  IInv'
<1>1. TypeOK /\ Lists /\ NoBuf \notin Buf /\ FreeList \notin Buf /\ FreeList # NoBuf
  BY PoolAssumption DEF IInv
<1>2. PICK x \in Buf : /\ x = Head(ioq) /\ x \in QueueSet
                       /\ ioq' \in Seq(Buf) /\ IsInjective(ioq') /\ QueueSet' = QueueSet \ {x}
  BY <1>1, InterruptLists
<1>3. KeysOf(x) /\ OwnersOf(x) /\ flags[x] \subseteq Flag
  BY <1>1 DEF IInv, Keys, Owners, TypeOK
<1>4. /\ "BUSY" \in flags[x] /\ {"DONE", "ERROR", "DELWRI"} \cap flags[x] = {} /\ key[x] \in Blk
      /\ x \notin FreeSet
  BY <1>2, <1>3 DEF KeysOf, OwnersOf
<1>5. PICK done : done = fl \cup {"DONE"}
  OBVIOUS
<1>6. /\ done \subseteq Flag /\ "DONE" \in done /\ "BUSY" \in done /\ "DELWRI" \notin done
      /\ \A f \in Flag \ {"DONE", "ERROR"} : f \in done <=> f \in flags[x]
      /\ "ASYNC" \in fl <=> "ASYNC" \in flags[x]
  BY <1>2, <1>3, <1>4, <1>5 DEF Flag
<1>7. \A b \in Buf \ {x} : KeysOf(b) /\ OwnersOf(b)
  BY DEF IInv, Keys, Owners
<1>8. \A q \in Proc : ControlOf(q) /\ LocalKeysOf(q) /\ SleepersOf(q)
  BY DEF IInv, Control, Keys, Sleepers
<1>9. Control'
  BY <1>8 DEF Control, ControlOf, ForReadAhead
<1>10. \A q \in Proc, b \in Buf : Holds(q, b)' <=> Holds(q, b)
  BY DEF Holds
<1>11. CASE "ASYNC" \in flags[x]
  <2>1. Brelse(x, done)
    BY <1>2, <1>5, <1>6, <1>11 DEF Biodone
  <2>2. /\ lru' \in Seq(Buf) /\ age' \in Seq(Buf) /\ FreeSet' = FreeSet \cup {x} /\ Lists'
    BY <1>1, <1>2, <1>4, <2>1, BrelseLists DEF Lists
  <2>3. TypeOK'
    BY <1>1, <1>2, <1>4, <1>6, <2>1, BrelseTypes DEF TypeOK
  <2>4. /\ flags'[x] = done \ {"WANTED", "BUSY", "ASYNC", "AGE"}
        /\ key'[x] = IF "ERROR" \in done THEN NoBlk ELSE key[x]
        /\ \A b \in Buf \ {x} : flags'[b] = flags[b] /\ key'[b] = key[b]
    BY <1>1, <2>1 DEF Brelse, TypeOK
  <2>5. \A q \in Proc : ~Holds(q, x)
    BY <1>3, <1>11 DEF OwnersOf
  <2>6. Keys'
    <3>1. KeysOf(x)'
      BY ZenonT(60), <1>2, <1>4, <1>6, <2>4, DataAssumption DEF KeysOf, Flag
    <3>2. \A b \in Buf \ {x} : KeysOf(b)'
      BY <1>2, <1>7, <2>2, <2>4 DEF KeysOf
    <3>3. ASSUME NEW q \in Proc PROVE LocalKeysOf(q)'
      <4>1. pc[q] = "hit" => cand[q] \in Buf
        BY <1>8 DEF ControlOf
      <4>2. pc[q] = "got" => cand[q] \in Buf \ {x}
        BY <1>8, <2>5 DEF ControlOf, Holds
      <4>3. bp[q] # x /\ (pc[q] = "use" => bp[q] \in Buf)
        BY <1>8, <2>5 DEF ControlOf, Holds
      <4>4. pc[q] = "hit" => key'[cand[q]] = want[q] \/ {"DONE", "ERROR"} \subseteq flags'[cand[q]]
        <5>1. CASE cand[q] = x
          BY <1>4, <1>6, <1>8, <2>4, <5>1 DEF LocalKeysOf
        <5>2. CASE cand[q] # x
          BY <1>8, <2>4, <4>1, <5>2 DEF LocalKeysOf
        <5> QED BY <5>1, <5>2
      <4> QED BY <1>2, <1>8, <2>4, <4>2, <4>3, <4>4 DEF LocalKeysOf
    <3> QED BY <3>1, <3>2, <3>3 DEF Keys
  <2>7. Owners'
    <3>1. OwnersOf(x)'
      BY <1>2, <1>10, <2>2, <2>4, <2>5 DEF OwnersOf
    <3>2. \A b \in Buf \ {x} : OwnersOf(b)'
      BY <1>2, <1>7, <1>10, <2>2, <2>4 DEF OwnersOf
    <3> QED BY <3>1, <3>2 DEF Owners
  <2>8. \A q \in Proc : /\ "WANTED" \in done /\ chan[q] = x => chan'[q] = NoBuf
                        /\ freewant /\ chan[q] = FreeList => chan'[q] = NoBuf
                        /\ chan'[q] \in {NoBuf, chan[q]}
    BY <2>1 DEF Brelse, Wakeup
  <2>9. Sleepers'
    <3>1. SUFFICES ASSUME NEW q \in Proc, chan'[q] # NoBuf PROVE SleepersOf(q)'
      BY DEF Sleepers, SleepersOf
    <3>2. chan'[q] = chan[q] /\ chan[q] # NoBuf /\ SleepersOf(q)
      BY <1>8, <2>8, <3>1
    <3>3. CASE pc[q] \in {"getblk", "blkflush"} /\ chan[q] \in Buf /\ {"BUSY", "WANTED"} \subseteq flags[chan[q]]
      <4>1. chan[q] # x
        <5>1. "WANTED" \in flags[x] => "WANTED" \in done
          BY <1>6 DEF Flag
        <5> QED BY <2>8, <3>1, <3>3, <5>1
      <4> QED BY <2>4, <3>2, <3>3, <4>1 DEF SleepersOf
    <3>4. CASE pc[q] \in {"biowait", "wwait", "fwait"} /\ chan[q] = bp[q] /\ "DONE" \notin flags[bp[q]]
      <4>1. bp[q] \in Buf \ {x}
        BY <1>8, <2>5, <3>4 DEF ControlOf, Holds
      <4> QED BY <2>4, <3>2, <3>4, <4>1 DEF SleepersOf
    <3>5. CASE pc[q] = "getnew" /\ chan[q] = FreeList /\ freewant /\ FreeSet = {}
      BY <2>8, <3>1, <3>5
    <3> QED BY <3>2, <3>3, <3>4, <3>5 DEF SleepersOf
  <2> QED BY <1>9, <2>2, <2>3, <2>6, <2>7, <2>9 DEF IInv
<1>12. CASE "ASYNC" \notin flags[x]
  <2>1. /\ flags' = [flags EXCEPT ![x] = done \ {"WANTED"}]
        /\ Wakeup({x}) /\ UNCHANGED <<key, lru, age, freewant>>
    BY <1>2, <1>5, <1>6, <1>12 DEF Biodone
  <2>2. FreeSet' = FreeSet /\ Lists'
    BY <1>1, <1>2, <2>1 DEF Lists, FreeSet
  <2>3. /\ flags'[x] = done \ {"WANTED"} /\ \A b \in Buf \ {x} : flags'[b] = flags[b]
        /\ flags' \in [Buf -> SUBSET Flag]
    BY <1>1, <1>6, <2>1 DEF TypeOK
  <2>4. \A q \in Proc : chan'[q] = IF chan[q] = x THEN NoBuf ELSE chan[q]
    BY <2>1 DEF Wakeup
  <2>5. chan' \in [Proc -> Buf \cup {NoBuf, FreeList}]
    BY <1>1, <2>1 DEF Wakeup, TypeOK
  <2>6. TypeOK'
    BY <1>1, <1>2, <2>1, <2>3, <2>5 DEF TypeOK
  <2>7. Keys'
    <3>1. KeysOf(x)'
      BY ZenonT(60), <1>2, <1>4, <1>6, <2>1, <2>2, <2>3, DataAssumption DEF KeysOf, Flag
    <3>2. \A b \in Buf \ {x} : KeysOf(b)'
      BY <1>2, <1>7, <2>1, <2>2, <2>3 DEF KeysOf
    <3>3. ASSUME NEW q \in Proc PROVE LocalKeysOf(q)'
      <4>1. pc[q] \in {"hit", "got"} => cand[q] \in Buf
        BY <1>8 DEF ControlOf
      <4>2. pc[q] = "got" => cand[q] # x
        BY <1>2, <1>8 DEF LocalKeysOf
      <4>3. pc[q] = "use" => bp[q] \in Buf \ {x}
        BY <1>2, <1>8 DEF LocalKeysOf, ControlOf
      <4>4. bp[q] = x => "DONE" \in flags'[bp[q]]
        BY <1>6, <2>3
      <4>5. \A b \in Buf : "DONE" \in flags[b] => "DONE" \in flags'[b]
        BY <1>6, <2>3
      <4>6. \A b \in Buf : {"DONE", "ERROR"} \subseteq flags[b] => {"DONE", "ERROR"} \subseteq flags'[b]
        BY <1>4, <2>3
      <4> QED BY <1>2, <1>8, <2>1, <2>3, <4>1, <4>2, <4>3, <4>4, <4>5, <4>6 DEF LocalKeysOf
    <3> QED BY <3>1, <3>2, <3>3 DEF Keys
  <2>8. Owners'
    <3>1. OwnersOf(x)'
      BY <1>2, <1>3, <1>4, <1>6, <1>10, <1>12, <2>2, <2>3 DEF OwnersOf, Flag
    <3>2. \A b \in Buf \ {x} : OwnersOf(b)'
      BY <1>2, <1>7, <1>10, <2>2, <2>3 DEF OwnersOf
    <3> QED BY <3>1, <3>2 DEF Owners
  <2>9. Sleepers'
    <3>1. SUFFICES ASSUME NEW q \in Proc, chan'[q] # NoBuf PROVE SleepersOf(q)'
      BY DEF Sleepers, SleepersOf
    <3>2. chan'[q] = chan[q] /\ chan[q] \notin {NoBuf, x} /\ SleepersOf(q)
      BY <1>8, <2>4, <3>1
    <3> QED BY <1>8, <2>1, <2>2, <2>3, <3>2 DEF SleepersOf, ControlOf
  <2> QED BY <1>9, <2>2, <2>6, <2>7, <2>8, <2>9 DEF IInv
<1> QED BY <1>11, <1>12

LEMMA DiskDoneStep == ASSUME IInv, DiskDone PROVE IInv'
<1>1. /\ ioq # <<>> /\ ioq' = Tail(ioq) /\ Biodone(Head(ioq), flags[Head(ioq)])
      /\ UNCHANGED <<pc, req, want, cand, bp, cpu, reply>>
      /\ \/ data' = [data EXCEPT ![Head(ioq)] = disk[key[Head(ioq)]]] /\ disk' = disk
         \/ disk' = [disk EXCEPT ![key[Head(ioq)]] = data[Head(ioq)]] /\ data' = data
  BY DEF DiskDone
<1>2. TypeOK /\ Lists
  BY DEF IInv
<1>3. PICK x \in Buf : x = Head(ioq) /\ x \in QueueSet
  BY <1>1, <1>2, InterruptLists
<1>4. key[x] \in Blk
  BY <1>3 DEF IInv, Keys, KeysOf
<1>5. data' \in [Buf -> Val] /\ disk' \in [Blk -> Val]
  BY ZenonT(60), <1>1, <1>2, <1>3, <1>4 DEF TypeOK
<1> QED BY <1>1, <1>5, InterruptStep

LEMMA DiskErrorStep == ASSUME IInv, DiskError PROVE IInv'
<1>1. /\ ioq # <<>> /\ ioq' = Tail(ioq) /\ Biodone(Head(ioq), flags[Head(ioq)] \cup {"ERROR"})
      /\ UNCHANGED <<data, disk, pc, req, want, cand, bp, cpu, reply>>
  BY DEF DiskError
<1>2. TypeOK
  BY DEF IInv
<1> QED BY <1>1, <1>2, InterruptStep DEF TypeOK

(* The state the machine boots in, from scratch or after a crash. *)
Booted ==
    /\ flags = [b \in Buf |-> {"INVAL"}]
    /\ key = [b \in Buf |-> NoBlk]
    /\ data = [b \in Buf |-> Zero]
    /\ lru = <<>>
    /\ age \in [1..Cardinality(Buf) -> Buf] /\ IsInjective(age)
    /\ freewant = FALSE
    /\ ioq = <<>>
    /\ disk \in [Blk -> Val]
    /\ pc = [p \in Proc |-> "user"]
    /\ req = [p \in Proc |-> NoReq]
    /\ want = [p \in Proc |-> NoBlk]
    /\ cand = [p \in Proc |-> NoBuf]
    /\ bp = [p \in Proc |-> NoBuf]
    /\ chan = [p \in Proc |-> NoBuf]
    /\ cpu = Idle
    /\ reply = [p \in Proc |-> NoReply]

LEMMA BootedIInv == Booted => IInv
<1> SUFFICES ASSUME Booted PROVE IInv
  OBVIOUS
<1>1. Simple(age, Buf) /\ ToSet(age) = Buf
  BY PoolAssumption, FullSimple DEF Booted
<1>2. <<>> \in Seq(Buf) /\ ToSet(<<>>) = {} /\ IsInjective(<<>>)
  BY DEF ToSet, IsInjective
<1>3. FreeSet = Buf /\ QueueSet = {}
  BY <1>1, <1>2 DEF FreeSet, QueueSet, Booted
<1>4. TypeOK
  BY <1>1, <1>2, DataAssumption DEF TypeOK, Booted, Simple, Flag, Where
<1>5. Lists
  BY <1>1, <1>2 DEF Lists, Booted, Simple
<1>6. Control /\ Sleepers
  BY PoolAssumption DEF Control, ControlOf, Sleepers, SleepersOf, Booted, Searching
<1>7. \A p \in Proc, b \in Buf : ~Holds(p, b)
  BY PoolAssumption DEF Holds, Booted
<1>8. Owners
  BY <1>3, <1>7 DEF Owners, OwnersOf, Booted
<1>9. Keys
  BY <1>3, PoolAssumption DEF Keys, KeysOf, LocalKeysOf, Booted
<1> QED BY <1>4, <1>5, <1>6, <1>8, <1>9 DEF IInv

LEMMA CrashStep == ASSUME IInv, Crash PROVE IInv'
<1>1. disk' \in [Blk -> Val]
  <2>1. TypeOK /\ Lists
    BY DEF IInv
  <2>2. CASE disk' = disk
    BY <2>1, <2>2 DEF TypeOK
  <2>3. CASE disk' # disk
    <3>1. ioq # <<>> /\ disk' = [disk EXCEPT ![key[Head(ioq)]] = data[Head(ioq)]]
      BY <2>3 DEF Crash
    <3>2. Head(ioq) \in Buf
      BY <2>1, <3>1, SimpleLists, TailSimple
    <3> QED BY <2>1, <3>1, <3>2 DEF TypeOK
  <2> QED BY <2>2, <2>3
<1>2. Booted'
  BY <1>1 DEF Crash, Booted
<1> QED BY <1>2, BootedIInv, PTL

-----------------------------------------------------------------------------
(* The theorems *)

LEMMA ProcessStep == ASSUME IInv, NEW p \in Proc, Step(p) PROVE IInv'
<1>1. CASE Start(p) \/ Incore(p) \/ ReadAhead(p) \/ Reap(p)
  BY <1>1, StartStep, IncoreStep, ReadAheadStep, ReapStep
<1>2. CASE Scan(p) \/ WaitHit(p) \/ TakeHit(p)
  BY <1>2, ScanStep, WaitHitStep, TakeHitStep
<1>3. CASE WaitFree(p) \/ Evict(p) \/ SetAge(p) \/ Reassign(p)
  BY <1>3, WaitFreeStep, EvictStep, SetAgeStep, ReassignStep
<1>4. CASE GotReady(p) \/ GotToRead(p) \/ GotAhead(p)
  BY <1>4, GotReadyStep, GotToReadStep, GotAheadStep
<1>5. CASE SleepIO(p) \/ ReadDone(p) \/ WriteDone(p)
  BY <1>5, SleepIOStep, ReadDoneStep, WriteDoneStep
<1>6. CASE UseFailed(p) \/ UseRead(p) \/ UseScratch(p)
  BY <1>6, UseFailedStep, UseReadStep, UseScratchStep
<1>7. CASE WriteDelayed(p) \/ WriteAsync(p) \/ WriteSync(p) \/ WriteFaults(p) \/ UseWild(p)
  BY <1>7, WriteDelayedStep, WriteAsyncStep, WriteSyncStep, WriteFaultsStep, UseWildStep
<1>8. CASE FlushOne(p) \/ FlushDone(p) \/ Binval(p) \/ Return(p)
  BY <1>8, FlushOneStep, FlushDoneStep, BinvalStep, ReturnStep
<1>9. CASE PushWaits(p) \/ PushWrites(p) \/ PushWritten(p) \/ PushDone(p)
  BY <1>9, PushWaitsStep, PushWritesStep, PushWrittenStep, PushDoneStep
<1> QED BY <1>1, <1>2, <1>3, <1>4, <1>5, <1>6, <1>7, <1>8, <1>9 DEF Step

LEMMA StutterStep == ASSUME IInv, UNCHANGED vars PROVE IInv'
<1>1. /\ UNCHANGED <<flags, key, data, lru, age, freewant, ioq, disk>>
      /\ UNCHANGED <<pc, req, want, cand, bp, chan, cpu, reply>>
  BY DEF vars, pool, calls
<1>2. FreeSet' = FreeSet /\ QueueSet' = QueueSet /\ \A p \in Proc, b \in Buf : Holds(p, b)' <=> Holds(p, b)
  BY <1>1 DEF FreeSet, QueueSet, Holds
<1>3. TypeOK' /\ Lists'
  BY <1>1 DEF IInv, TypeOK, Lists
<1>4. Control'
  BY <1>1 DEF IInv, Control, ControlOf, ForReadAhead
<1>5. Keys'
  BY <1>1, <1>2 DEF IInv, Keys, KeysOf, LocalKeysOf
<1>6. Owners'
  BY <1>1, <1>2 DEF IInv, Owners, OwnersOf
<1>7. Sleepers'
  BY <1>1, <1>2 DEF IInv, Sleepers, SleepersOf
<1> QED BY <1>3, <1>4, <1>5, <1>6, <1>7 DEF IInv

(* The inductive invariant: every statement of the buffer cache keeps the  *)
(* free lists, the owners of busy buffers, the flags and the sleepers      *)
(* consistent with one another.                                            *)
THEOREM Inductive == Spec => []IInv
<1>1. Init => IInv
  BY BootedIInv DEF Init, Booted
<1>2. IInv /\ [Next]_vars => IInv'
  BY ProcessStep, DiskDoneStep, DiskErrorStep, CrashStep, StutterStep DEF Next
<1> QED BY <1>1, <1>2, PTL DEF Spec

(* Every variable of the cache keeps its type, for any pool of buffers,    *)
(* any processes and any requests.                                         *)
THEOREM TypeCorrect == Spec => []TypeOK
<1>1. IInv => TypeOK
  BY DEF IInv
<1> QED BY <1>1, Inductive, PTL

(* B_BUSY is a lock: a buffer is on exactly one free list, once, exactly   *)
(* when it is not busy; a busy one has exactly one owner, a process or the *)
(* driver; and the driver never has a buffer twice.                        *)
THEOREM BusyIsALock == Spec => []Ownership
<1>1. ASSUME IInv PROVE Ownership
  <2>1. TypeOK /\ Lists /\ Owners
    BY <1>1 DEF IInv
  <2>2. \A b \in Buf : (Free(b) <=> b \in FreeSet) /\ (Queued(b) <=> b \in QueueSet)
    BY DEF Free, FreeSet, Queued, QueueSet
  <2>3. IsInjective(lru \o age) /\ IsInjective(ioq)
    BY <2>1, ConcatSimple DEF Lists, TypeOK
  <2>4. \A b \in Buf : OwnersOf(b)
    BY <2>1 DEF Owners
  <2>5. \A b \in Buf : Free(b) <=> "BUSY" \notin flags[b]
    BY <2>2, <2>4 DEF OwnersOf
  <2>6. \A b \in Buf : "BUSY" \in flags[b] =>
            \/ \E p \in Proc : Holds(p, b) /\ "ASYNC" \notin flags[b]
            \/ Queued(b) /\ "ASYNC" \in flags[b]
    BY <2>2, <2>4 DEF OwnersOf
  <2>7. \A b \in Buf, p, q \in Proc : Holds(p, b) /\ Holds(q, b) => p = q
    BY <2>4 DEF OwnersOf
  <2>8. \A b \in Buf, p \in Proc : Holds(p, b) => "BUSY" \in flags[b] /\ "ASYNC" \notin flags[b]
    BY <2>4 DEF OwnersOf
  <2>9. \A b \in Buf : Queued(b) => "BUSY" \in flags[b] /\ "DONE" \notin flags[b]
    BY <2>2, <2>4 DEF OwnersOf
  <2> QED BY <2>3, <2>5, <2>6, <2>7, <2>8, <2>9 DEF Ownership
<1> QED BY <1>1, Inductive, PTL

(* No wakeup is lost: a process asleep in getblk sleeps on a buffer that   *)
(* is busy and marked wanted, one asleep in biowait on a buffer that is    *)
(* with the driver, and one asleep in getnewbuf is announced on an empty   *)
(* pool.                                                                   *)
THEOREM WakeupsReach == Spec => []NoLostWakeup
<1>1. ASSUME IInv PROVE NoLostWakeup
  <2>1. SUFFICES ASSUME NEW p \in Proc
                 PROVE  /\ chan[p] \in Buf /\ pc[p] \in {"getblk", "blkflush"} => {"BUSY", "WANTED"} \subseteq flags[chan[p]]
                        /\ chan[p] \in Buf /\ pc[p] \notin {"getblk", "blkflush"} => Queued(chan[p])
                        /\ chan[p] = FreeList => freewant /\ lru = <<>> /\ age = <<>>
    BY DEF NoLostWakeup
  <2>2. /\ TypeOK /\ ControlOf(p) /\ LocalKeysOf(p) /\ SleepersOf(p)
        /\ NoBuf \notin Buf /\ FreeList \notin Buf /\ FreeList # NoBuf
    BY <1>1, PoolAssumption DEF IInv, Control, Keys, Sleepers
  <2>3. CASE chan[p] = NoBuf
    BY <2>2, <2>3
  <2>4. CASE pc[p] \in {"getblk", "blkflush"} /\ chan[p] \in Buf /\ {"BUSY", "WANTED"} \subseteq flags[chan[p]]
    BY <2>2, <2>4
  <2>5. CASE pc[p] \in {"biowait", "wwait", "fwait"} /\ chan[p] = bp[p] /\ "DONE" \notin flags[bp[p]]
    <3>1. bp[p] \in Buf /\ bp[p] \in QueueSet
      BY <2>2, <2>5 DEF ControlOf, LocalKeysOf
    <3> QED BY <2>2, <2>5, <3>1 DEF Queued, QueueSet
  <2>6. CASE pc[p] = "getnew" /\ chan[p] = FreeList /\ freewant /\ FreeSet = {}
    BY <2>2, <2>6, EmptyPool
  <2> QED BY <2>2, <2>3, <2>4, <2>5, <2>6 DEF SleepersOf
<1> QED BY <1>1, Inductive, PTL

-----------------------------------------------------------------------------
(* Deadlock *)

(* A process that keeps breada's first buffer never waits for a busy one:  *)
(* the read-ahead block was not in core when it began to look for it, and  *)
(* nothing has happened since.                                             *)
AheadOf(p) ==
    /\ pc[p] = "getblk" /\ ForReadAhead(p) =>
           cpu = p /\ chan[p] = NoBuf /\ Hits(want[p]) = {}
    /\ pc[p] = "hit" => ~ForReadAhead(p)

AheadInv == \A p \in Proc : AheadOf(p)

(* Whatever p does, it does to its own control state, and it wakes others  *)
(* or leaves them alone; only a few statements lead back to the search.    *)
LEMMA OwnControl ==
    ASSUME TypeOK, NEW p \in Proc, Step(p)
    PROVE  /\ cpu \in {p, Idle}
           /\ \A q \in Proc \ {p} : pc'[q] = pc[q] /\ req'[q] = req[q] /\ want'[q] = want[q]
           /\ \/ Start(p) \/ Incore(p) \/ ReadAhead(p) \/ Reap(p) \/ Scan(p) \/ WaitHit(p)
              \/ pc'[p] \notin {"getblk", "hit"}
<1>1. CASE Start(p) \/ Incore(p) \/ ReadAhead(p) \/ Reap(p) \/ Scan(p) \/ WaitHit(p)
  BY <1>1 DEF Start, Incore, ReadAhead, Reap, Scan, WaitHit, Runs, Goto, SleepOn, TypeOK
<1> DEFINE Own == /\ cpu \in {p, Idle} /\ UNCHANGED <<req, want>>
                  /\ \E at \in Where \ {"getblk", "hit"} : pc' = [pc EXCEPT ![p] = at]
<1>2. Own => /\ cpu \in {p, Idle} /\ pc'[p] \notin {"getblk", "hit"}
             /\ \A q \in Proc \ {p} : pc'[q] = pc[q] /\ req'[q] = req[q] /\ want'[q] = want[q]
  BY DEF TypeOK
<1>3. TakeHit(p) => Own
  BY DEF TakeHit, Runs, Goto, Where
<1>4. WaitFree(p) \/ Evict(p) \/ SetAge(p) \/ Reassign(p) => Own
  BY DEF WaitFree, Evict, SetAge, Reassign, Runs, Goto, SleepOn, Where
<1>5. GotReady(p) \/ GotToRead(p) \/ GotAhead(p) => Own
  BY DEF GotReady, GotToRead, GotAhead, Runs, Goto, Where
<1>6. SleepIO(p) \/ ReadDone(p) \/ WriteDone(p) => Own
  BY DEF SleepIO, ReadDone, WriteDone, Runs, Goto, SleepOn, Where
<1>7. UseFailed(p) \/ UseRead(p) \/ UseScratch(p) => Own
  BY DEF UseFailed, UseRead, UseScratch, Runs, Goto, Where
<1>8. WriteDelayed(p) \/ WriteAsync(p) \/ WriteSync(p) \/ WriteFaults(p) \/ UseWild(p) => Own
  BY DEF WriteDelayed, WriteAsync, WriteSync, WriteFaults, UseWild, Writes, Runs, Goto, Where
<1>9. FlushOne(p) \/ FlushDone(p) \/ Binval(p) => Own
  BY ZenonT(60) DEF FlushOne, FlushDone, Binval, Runs, Goto, Where
<1>11. PushWaits(p) \/ PushWrites(p) \/ PushWritten(p) \/ PushDone(p) => Own
  BY DEF PushWaits, PushWrites, PushWritten, PushDone, Runs, Goto, SleepOn, Where
<1>10. CASE Return(p)
  BY <1>10 DEF Return, Runs, TypeOK
<1> HIDE DEF Own
<1> QED BY <1>1, <1>2, <1>3, <1>4, <1>5, <1>6, <1>7, <1>8, <1>9, <1>10, <1>11 DEF Step

LEMMA AheadStep == ASSUME IInv, AheadInv, NEW p \in Proc, Step(p) PROVE AheadInv'
<1>1. TypeOK /\ ControlOf(p) /\ AheadOf(p)
  BY DEF IInv, Control, AheadInv
<1>2. ASSUME NEW q \in Proc \ {p} PROVE AheadOf(q)'
  <2>1. pc'[q] = pc[q] /\ req'[q] = req[q] /\ want'[q] = want[q] /\ cpu # q
    BY <1>1, OwnControl, ProcAssumption
  <2>2. AheadOf(q)
    BY DEF AheadInv
  <2> QED BY <2>1, <2>2 DEF AheadOf, ForReadAhead
<1>3. AheadOf(p)'
  <2>1. CASE pc'[p] \notin {"getblk", "hit"}
    BY <2>1 DEF AheadOf
  <2>2. CASE Start(p)
    <3>1. PICK r \in Requests : req'[p] = r /\ want'[p] = r.blk /\ pc'[p] = Entry[r.op]
      BY <1>1, <2>2 DEF Start, Goto, TypeOK
    <3>2. Entry["reada"] = "incore"
      BY DEF Entry
    <3> QED BY <3>1, <3>2 DEF AheadOf, ForReadAhead, Entry
  <2>3. CASE Incore(p)
    <3>1. pc[p] = "incore" /\ want'[p] = want[p] /\ req'[p] = req[p] /\ pc'[p] \in {"ra", "getblk"}
      BY <1>1, <2>3 DEF Incore, Runs, Goto, TypeOK
    <3>2. want[p] = req[p].blk /\ req[p].op = "reada" /\ req[p].ra # req[p].blk
      BY <1>1, <3>1 DEF ControlOf, Asked
    <3> QED BY <3>1, <3>2 DEF AheadOf, ForReadAhead
  <2>4. CASE ReadAhead(p)
    <3>1. chan'[p] = NoBuf /\ cpu' = p /\ pc'[p] # "hit" /\ UNCHANGED <<key, flags>>
      BY <1>1, <2>4 DEF ReadAhead, Runs, Goto, TypeOK, pool
    <3>2. pc'[p] = "getblk" => want'[p] = req[p].ra /\ Hits(req[p].ra) = {}
      BY <1>1, <2>4 DEF ReadAhead, Goto, TypeOK
    <3>3. pc'[p] = "getblk" => Hits(want[p])' = {}
      BY <3>1, <3>2 DEF Hits
    <3> QED BY <3>1, <3>3 DEF AheadOf
  <2>5. CASE Reap(p)
    <3>1. pc'[p] = "getblk" => req'[p].op = "read"
      <4>1. pc[p] = "reap" /\ req[p] \in Request
        BY <1>1, <2>5 DEF Reap, Runs, ControlOf, Asked
      <4>2. pc'[p] = "getblk" => req' = [req EXCEPT ![p].op = "read"]
        BY <1>1, <2>5 DEF Reap, Goto, TypeOK
      <4> QED BY <1>1, <4>1, <4>2 DEF TypeOK, Request
    <3>2. pc'[p] # "hit"
      BY <1>1, <2>5 DEF Reap, Goto, TypeOK
    <3> QED BY <3>1, <3>2 DEF AheadOf, ForReadAhead
  <2>6. CASE Scan(p)
    <3>1. /\ pc[p] = "getblk" /\ want'[p] = want[p] /\ req'[p] = req[p] /\ pc'[p] # "getblk"
          /\ pc'[p] = "hit" => Hits(want[p]) # {}
      BY <1>1, <2>6 DEF Scan, Runs, Goto, TypeOK
    <3> QED BY <1>1, <3>1 DEF AheadOf, ForReadAhead
  <2>7. CASE WaitHit(p)
    <3>1. pc[p] = "hit" /\ want'[p] = want[p] /\ req'[p] = req[p] /\ pc'[p] = "getblk"
      BY <1>1, <2>7 DEF WaitHit, Runs, SleepOn, TypeOK
    <3> QED BY <1>1, <3>1 DEF AheadOf, ForReadAhead
  <2> QED BY <1>1, <2>1, <2>2, <2>3, <2>4, <2>5, <2>6, <2>7, OwnControl
<1> QED BY <1>2, <1>3 DEF AheadInv

(* An interrupt never makes a search succeed that would have failed. *)
LEMMA AheadInterrupt ==
    ASSUME IInv, AheadInv, ioq # <<>>, NEW fl, flags[Head(ioq)] \subseteq fl, Biodone(Head(ioq), fl),
           UNCHANGED <<pc, req, want, cpu>>
    PROVE  AheadInv'
<1>1. TypeOK /\ Lists
  BY DEF IInv
<1>2. Head(ioq) \in Buf
  BY <1>1, SimpleLists, TailSimple
<1>3. PICK x \in Buf : x = Head(ioq)
  BY <1>2
<1>4. \A b \in Buf : /\ "INVAL" \in flags[b] => "INVAL" \in flags'[b]
                     /\ key'[b] \in {key[b], NoBlk}
  <2>1. PICK set : /\ flags' = [flags EXCEPT ![x] = set]
                   /\ "INVAL" \in fl => "INVAL" \in set
    <3>1. CASE "ASYNC" \in fl
      BY <1>3, <3>1 DEF Biodone, Brelse
    <3>2. CASE "ASYNC" \notin fl
      BY <1>3, <3>2 DEF Biodone
    <3> QED BY <3>1, <3>2
  <2>2. key' = key \/ key' = [key EXCEPT ![x] = NoBlk]
    BY <1>3 DEF Biodone, Brelse
  <2>3. flags \in [Buf -> SUBSET Flag] /\ key \in [Buf -> Blk \cup {NoBlk}]
    BY <1>1 DEF TypeOK
  <2> QED BY <1>3, <2>1, <2>2, <2>3
<1>5. \A q \in Proc : chan'[q] \in {chan[q], NoBuf}
  <2>1. PICK C : chan' = [q \in Proc |-> IF chan[q] \in C THEN NoBuf ELSE chan[q]]
    BY ZenonT(60) DEF Biodone, Brelse, Wakeup
  <2> QED BY <2>1
<1>6. ASSUME NEW q \in Proc PROVE AheadOf(q)'
  <2>1. AheadOf(q) /\ ControlOf(q)
    BY DEF AheadInv, IInv, Control
  <2>2. pc[q] = "getblk" => want[q] # NoBlk
    BY <2>1, DataAssumption DEF ControlOf
  <2>3. pc[q] = "getblk" /\ Hits(want[q]) = {} => Hits(want[q])' = {}
    BY <1>4, <2>2 DEF Hits
  <2> QED BY <1>5, <2>1, <2>3 DEF AheadOf, ForReadAhead
<1> QED BY <1>6 DEF AheadInv

LEMMA AheadAlways == Spec => []AheadInv
<1>1. Init => AheadInv
  BY DEF Init, AheadInv, AheadOf
<1>2. IInv /\ AheadInv /\ [Next]_vars => AheadInv'
  <2>1. SUFFICES ASSUME IInv, AheadInv, [Next]_vars PROVE AheadInv'
    OBVIOUS
  <2>2. CASE \E p \in Proc : Step(p)
    BY <2>1, <2>2, AheadStep
  <2>3. CASE DiskDone
    BY <2>1, <2>3, AheadInterrupt DEF DiskDone
  <2>4. CASE DiskError
    BY <2>1, <2>4, AheadInterrupt DEF DiskError
  <2>5. CASE Crash
    BY <2>5 DEF Crash, AheadInv, AheadOf
  <2>6. CASE UNCHANGED vars
    BY <2>1, <2>6 DEF vars, pool, calls, AheadInv, AheadOf, ForReadAhead, Hits
  <2> QED BY <2>1, <2>2, <2>3, <2>4, <2>5, <2>6 DEF Next
<1> QED BY <1>1, <1>2, Inductive, PTL DEF Spec

(* With more buffers than processes the cache cannot deadlock: breada      *)
(* keeps a buffer while it waits for any other, but when everybody is      *)
(* asleep the disk has a transfer under way.                               *)
THEOREM DeadlockFree ==
    ASSUME Proc # {}, IsFiniteSet(Proc), Cardinality(Buf) > Cardinality(Proc)
    PROVE  Spec => []NoDeadlock
<1>1. ASSUME IInv, AheadInv PROVE NoDeadlock
  <2>1. SUFFICES ASSUME \A p \in Proc : chan[p] # NoBuf, ioq = <<>> PROVE FALSE
    BY DEF NoDeadlock
  <2>2. QueueSet = {}
    BY <1>1, <2>1, NoElements DEF IInv, TypeOK, QueueSet
  <2>3. \A p \in Proc : ControlOf(p) /\ LocalKeysOf(p) /\ SleepersOf(p) /\ AheadOf(p)
    BY <1>1 DEF IInv, Control, Keys, Sleepers, AheadInv
  <2>4. \A p \in Proc : pc[p] \in {"getblk", "blkflush", "getnew"}
    <3>1. TAKE p \in Proc
    <3>2. ASSUME pc[p] \in {"biowait", "wwait", "fwait"}, "DONE" \notin flags[bp[p]] PROVE FALSE
      BY <2>2, <2>3, <3>1, <3>2 DEF ControlOf, LocalKeysOf
    <3> QED BY <2>1, <2>3, <3>1, <3>2 DEF SleepersOf
  <2>5. \A b \in Buf : "BUSY" \in flags[b] => \E p \in Proc : bp[p] = b
    BY <1>1, <2>2, <2>4 DEF IInv, Owners, OwnersOf, Holds
  <2>6. \A p \in Proc : bp[p] \in Buf => pc[p] = "getnew"
    BY <2>1, <2>3, <2>4 DEF ControlOf, AheadOf, Searching
  <2>7. \E p \in Proc : pc[p] = "getnew"
    <3>1. PICK p \in Proc : TRUE
      OBVIOUS
    <3>2. CASE pc[p] \in {"getblk", "blkflush"}
      <4>1. chan[p] \in Buf /\ "BUSY" \in flags[chan[p]]
        BY <2>1, <2>3, <3>2 DEF SleepersOf
      <4> QED BY <2>5, <2>6, <4>1
    <3> QED BY <2>4, <3>2
  <2>8. FreeSet = {}
    BY <2>1, <2>3, <2>7 DEF SleepersOf
  <2>9. \A b \in Buf : \E p \in Proc : bp[p] = b
    BY <1>1, <2>5, <2>8 DEF IInv, Owners, OwnersOf
  <2> DEFINE f == [b \in Buf |-> CHOOSE p \in Proc : bp[p] = b]
  <2>10. \A b \in Buf : f[b] \in Proc /\ bp[f[b]] = b
    BY <2>9
  <2>11. f \in Injection(Buf, Proc)
    BY <2>10 DEF Injection, IsInjective
  <2>12. Cardinality(Buf) <= Cardinality(Proc)
    BY <2>11, FS_Injection
  <2> QED BY <2>12, FS_CardinalityType, PoolAssumption
<1> QED BY <1>1, Inductive, AheadAlways, PTL

-----------------------------------------------------------------------------
(* One value per block *)

(* Nobody closes the device, and no copy from a process fails. *)
Tame == \A r \in Requests : r.op # "close" /\ r.how # "fault"

Valid == \A b \in Buf : key[b] \in Blk => "INVAL" \notin flags[b]

Unique == \A b, c \in Buf : key[b] \in Blk /\ key[b] = key[c] => b = c

(* The buffer has what the platter has. *)
Agrees(b) == "DONE" \in flags[b] /\ {"ERROR", "DELWRI"} \cap flags[b] = {} => data[b] = disk[key[b]]

Clean == \A b \in Buf : key[b] \in Blk => Agrees(b)

(* Nobody gives a block a buffer while another process looks for one for it. *)
LooksOf(p) ==
    /\ pc[p] \in {"getnew", "aged"} /\ req[p].op # "scratch" => cpu = p /\ \A b \in Buf : key[b] # want[p]
    /\ pc[p] # "user" => req[p].op # "close" /\ req[p].how # "fault" /\ pc[p] # "inval"

DInv == Valid /\ Unique /\ Clean /\ \A p \in Proc : LooksOf(p)

(* The flags that say what a buffer holds. *)
Kept == {"READ", "DONE", "ERROR", "DELWRI", "INVAL"}

Alike(b) == /\ key'[b] = key[b] /\ data'[b] = data[b]
            /\ \A f \in Kept : f \in flags'[b] <=> f \in flags[b]

(* Another process does not look for a block while p runs. *)
LEMMA LooksAlone ==
    ASSUME DInv, NEW p \in Proc, cpu \in {p, Idle}, NEW q \in Proc \ {p}, pc[q] \in {"getnew", "aged"}
    PROVE  req[q].op = "scratch"
BY ProcAssumption DEF DInv, LooksOf

(* p's step leaves to each buffer its block, or takes it away. *)
LEMMA KeepOne ==
    ASSUME IInv, DInv, NEW p \in Proc, cpu \in {p, Idle}, disk' = disk,
           \A q \in Proc \ {p} : pc'[q] = pc[q] /\ req'[q] = req[q] /\ want'[q] = want[q],
           \A b \in Buf : key'[b] \in Blk =>
               key'[b] = key[b] /\ ("INVAL" \in flags'[b] => "INVAL" \in flags[b]) /\ (Agrees(b) => Agrees(b)'),
           LooksOf(p)'
    PROVE  DInv'
<1>1. Valid'
  BY DEF DInv, Valid
<1>2. Unique'
  BY DEF DInv, Unique
<1>3. Clean'
  BY DEF DInv, Clean
<1>4. ASSUME NEW q \in Proc PROVE LooksOf(q)'
  <2>1. CASE q = p
    BY <2>1
  <2>2. CASE q # p
    BY <2>2, LooksAlone DEF DInv, LooksOf
  <2> QED
    BY <2>1, <2>2
<1> QED
  BY <1>1, <1>2, <1>3, <1>4 DEF DInv

(* No buffer changes, but for flags that say nothing of what it holds. *)
LEMMA KeepAll ==
    ASSUME IInv, DInv, NEW p \in Proc, cpu \in {p, Idle}, disk' = disk, \A b \in Buf : Alike(b),
           \A q \in Proc \ {p} : pc'[q] = pc[q] /\ req'[q] = req[q] /\ want'[q] = want[q],
           LooksOf(p)'
    PROVE  DInv'
<1>1. \A b \in Buf : ("INVAL" \in flags'[b] => "INVAL" \in flags[b]) /\ (Agrees(b) => Agrees(b)')
  BY DEF Alike, Kept, Agrees
<1> QED
  BY <1>1, KeepOne DEF Alike

(* Few statements lead to getnewbuf, and Start alone brings a request. *)
LEMMA LooksControl ==
    ASSUME IInv, DInv, NEW p \in Proc, Step(p), Tame
    PROVE  /\ cpu \in {p, Idle}
           /\ \A q \in Proc \ {p} : pc'[q] = pc[q] /\ req'[q] = req[q] /\ want'[q] = want[q]
           /\ pc'[p] # "user" => req'[p].op # "close" /\ req'[p].how # "fault" /\ pc'[p] # "inval"
           /\ \/ Start(p) \/ Scan(p) \/ WaitFree(p) \/ Evict(p) \/ SetAge(p)
              \/ pc'[p] \notin {"getnew", "aged"}
<1>1. TypeOK /\ ControlOf(p) /\ LooksOf(p)
  BY DEF IInv, Control, DInv
<1>2. /\ cpu \in {p, Idle}
      /\ \A q \in Proc \ {p} : pc'[q] = pc[q] /\ req'[q] = req[q] /\ want'[q] = want[q]
  BY <1>1, OwnControl
<1> DEFINE Goes == req'[p].op # "close" /\ req'[p].how # "fault" /\ pc'[p] # "inval"
           Own == /\ pc[p] # "user" /\ UNCHANGED req
                  /\ \E at \in Where \ {"getnew", "aged", "inval"} : pc' = [pc EXCEPT ![p] = at]
<1>3. Own => Goes /\ pc'[p] \notin {"getnew", "aged"}
  BY <1>1 DEF TypeOK, LooksOf
<1>4. CASE Start(p)
  <2>1. PICK r \in Requests : req'[p] = r /\ pc'[p] = Entry[r.op]
    BY <1>1, <1>4 DEF Start, Goto, TypeOK
  <2>2. r.op # "close" /\ r.how # "fault" /\ Entry[r.op] # "inval"
    BY RequestAssumption DEF Tame, Request, Entry
  <2> QED
    BY <1>2, <1>4, <2>1, <2>2
<1>5. CASE Reap(p)
  <2>1. pc'[p] \in {"getblk", "biowait"} /\ pc[p] = "reap"
    BY <1>1, <1>5 DEF Reap, Runs, Goto, TypeOK
  <2>2. req'[p].op \in {"read", req[p].op} /\ req'[p].how = req[p].how
    <3>1. req[p] \in Request
      BY <1>1, <2>1 DEF ControlOf, Asked
    <3>2. req' = [req EXCEPT ![p].op = "read"] \/ req' = req
      BY <1>1, <1>5 DEF Reap
    <3> QED
      BY <1>1, <3>1, <3>2 DEF TypeOK, Request
  <2> QED
    BY <1>1, <1>2, <2>1, <2>2 DEF LooksOf
<1>6. CASE Scan(p) \/ WaitFree(p) \/ Evict(p) \/ SetAge(p)
  <2>1. req' = req /\ pc[p] # "user" /\ pc'[p] # "inval"
    BY <1>1, <1>6 DEF Scan, WaitFree, Evict, SetAge, Runs, Goto, SleepOn, TypeOK
  <2> QED
    BY <1>1, <1>2, <1>6, <2>1 DEF LooksOf
<1>7. CASE Return(p)
  BY <1>1, <1>2, <1>7 DEF Return, TypeOK
<1>8. CASE FlushDone(p)
  <2>1. req' = req /\ pc[p] # "user"
    BY <1>8 DEF FlushDone, Runs
  <2>2. pc'[p] = "return"
    BY <1>1, <1>8, <2>1 DEF FlushDone, Goto, TypeOK, LooksOf
  <2> QED
    BY <1>1, <1>2, <2>1, <2>2 DEF LooksOf
<1>9. Incore(p) \/ ReadAhead(p) => Own
  BY DEF Incore, ReadAhead, Runs, Goto, Where
<1>10. WaitHit(p) \/ TakeHit(p) \/ Reassign(p) => Own
  BY DEF WaitHit, TakeHit, Reassign, Runs, Goto, SleepOn, Where
<1>11. GotReady(p) \/ GotToRead(p) \/ GotAhead(p) => Own
  BY DEF GotReady, GotToRead, GotAhead, Runs, Goto, Where
<1>12. SleepIO(p) \/ ReadDone(p) \/ WriteDone(p) => Own
  BY DEF SleepIO, ReadDone, WriteDone, Runs, Goto, SleepOn, Where
<1>13. UseFailed(p) \/ UseRead(p) \/ UseScratch(p) => Own
  BY DEF UseFailed, UseRead, UseScratch, Runs, Goto, Where
<1>14. WriteDelayed(p) \/ WriteAsync(p) \/ WriteSync(p) \/ WriteFaults(p) \/ UseWild(p) => Own
  BY DEF WriteDelayed, WriteAsync, WriteSync, WriteFaults, UseWild, Writes, Runs, Goto, Where
<1>15. FlushOne(p) \/ Binval(p) => Own
  BY ZenonT(60) DEF FlushOne, Binval, Runs, Goto, Where
<1>16. PushWaits(p) \/ PushWrites(p) \/ PushWritten(p) \/ PushDone(p) => Own
  BY DEF PushWaits, PushWrites, PushWritten, PushDone, Runs, Goto, SleepOn, Where
<1> HIDE DEF Own
<1> QED
  BY <1>2, <1>3, <1>4, <1>5, <1>6, <1>7, <1>8, <1>9, <1>10, <1>11, <1>12, <1>13, <1>14, <1>15, <1>16 DEF Step

(* A process that does not go to getnewbuf looks for no block. *)
LEMMA OwnLooks ==
    ASSUME IInv, DInv, NEW p \in Proc, Step(p), Tame, pc'[p] \notin {"getnew", "aged"}
    PROVE  /\ cpu \in {p, Idle} /\ LooksOf(p)'
           /\ \A q \in Proc \ {p} : pc'[q] = pc[q] /\ req'[q] = req[q] /\ want'[q] = want[q]
<1>1. LooksOf(p)'
  BY LooksControl DEF LooksOf
<1> QED
  BY <1>1, LooksControl

(* The statements that lead elsewhere. *)
LEMMA GoesElsewhere ==
    ASSUME IInv, DInv, NEW p \in Proc, Step(p), Tame,
           ~Start(p), ~Scan(p), ~WaitFree(p), ~Evict(p), ~SetAge(p)
    PROVE  /\ cpu \in {p, Idle} /\ LooksOf(p)'
           /\ \A q \in Proc \ {p} : pc'[q] = pc[q] /\ req'[q] = req[q] /\ want'[q] = want[q]
<1>1. pc'[p] \notin {"getnew", "aged"}
  BY LooksControl
<1> QED
  BY <1>1, OwnLooks

(* brelse takes a block away after an error, and says nothing else of what *)
(* a buffer holds.                                                         *)
LEMMA BrelseKeeps ==
    ASSUME IInv, NEW b \in Buf, NEW fl, Brelse(b, fl), disk' = disk,
           \A c \in Buf \ {b} : data'[c] = data[c],
           "INVAL" \in fl => "INVAL" \in flags[b],
           \/ "DELWRI" \in fl
           \/ data'[b] = data[b] /\ \A f \in Kept : f \in fl <=> f \in flags[b]
    PROVE  \A c \in Buf : key'[c] \in Blk =>
               key'[c] = key[c] /\ ("INVAL" \in flags'[c] => "INVAL" \in flags[c]) /\ (Agrees(c) => Agrees(c)')
<1>1. TypeOK /\ NoBlk \notin Blk
  BY DataAssumption DEF IInv
<1>2. flags' = [flags EXCEPT ![b] = fl \ {"WANTED", "BUSY", "ASYNC", "AGE"}]
  BY DEF Brelse
<1>3. key' = IF "ERROR" \in fl THEN [key EXCEPT ![b] = NoBlk] ELSE key
  BY DEF Brelse
<1>4. flags'[b] = fl \ {"WANTED", "BUSY", "ASYNC", "AGE"} /\ \A c \in Buf \ {b} : flags'[c] = flags[c]
  BY <1>1, <1>2 DEF TypeOK
<1>5. \A c \in Buf : key'[c] \in Blk => key'[c] = key[c]
  BY <1>1, <1>3 DEF TypeOK
<1>6. ASSUME NEW c \in Buf \ {b}, key'[c] \in Blk
      PROVE  ("INVAL" \in flags'[c] => "INVAL" \in flags[c]) /\ (Agrees(c) => Agrees(c)')
  BY <1>4, <1>5, <1>6 DEF Agrees
<1>7. ASSUME key'[b] \in Blk
      PROVE  ("INVAL" \in flags'[b] => "INVAL" \in flags[b]) /\ (Agrees(b) => Agrees(b)')
  <2>1. "INVAL" \in flags'[b] => "INVAL" \in flags[b]
    BY <1>4
  <2>2. CASE "DELWRI" \in fl
    BY <1>4, <2>1, <2>2 DEF Agrees
  <2>3. CASE data'[b] = data[b] /\ \A f \in Kept : f \in fl <=> f \in flags[b]
    <3>1. \A f \in {"DONE", "ERROR", "DELWRI"} : f \in flags'[b] <=> f \in flags[b]
      BY <1>4, <2>3 DEF Kept
    <3>2. "DONE" \in flags'[b] <=> "DONE" \in flags[b]
      BY <3>1
    <3>3. {"ERROR", "DELWRI"} \cap flags'[b] = {} <=> {"ERROR", "DELWRI"} \cap flags[b] = {}
      BY <3>1
    <3> QED
      BY <1>5, <1>7, <2>1, <2>3, <3>2, <3>3 DEF Agrees
  <2> QED
    BY <2>2, <2>3
<1> QED
  BY <1>5, <1>6, <1>7

(* A buffer given to the driver is not done. *)
LEMMA StrategyKeeps ==
    ASSUME IInv, NEW b \in Buf, NEW fl, Strategy(b, fl), disk' = disk, key' = key,
           \A c \in Buf \ {b} : data'[c] = data[c],
           "INVAL" \in fl => "INVAL" \in flags[b], "DONE" \notin fl
    PROVE  \A c \in Buf : key'[c] \in Blk =>
               key'[c] = key[c] /\ ("INVAL" \in flags'[c] => "INVAL" \in flags[c]) /\ (Agrees(c) => Agrees(c)')
<1>1. flags' = [flags EXCEPT ![b] = fl]
  BY DEF Strategy
<1>2. flags'[b] = fl /\ \A c \in Buf \ {b} : flags'[c] = flags[c]
  BY <1>1 DEF IInv, TypeOK
<1> QED
  BY <1>2 DEF Agrees

(* The steps that leave the buffers and the platter alone. *)
LEMMA SameBuffers ==
    ASSUME IInv, DInv, NEW p \in Proc, cpu \in {p, Idle}, disk' = disk, UNCHANGED <<flags, key, data>>,
           \A q \in Proc \ {p} : pc'[q] = pc[q] /\ req'[q] = req[q] /\ want'[q] = want[q],
           LooksOf(p)'
    PROVE  DInv'
<1>1. \A b \in Buf : Alike(b)
  BY DEF Alike
<1> QED
  BY <1>1, KeepAll

LEMMA StartClean == ASSUME IInv, DInv, NEW p \in Proc, Start(p), Tame PROVE DInv'
<1>1. Step(p) /\ TypeOK
  BY DEF Step, IInv
<1>2. PICK r \in Requests : req'[p] = r /\ pc'[p] = Entry[r.op]
  BY <1>1 DEF Start, Goto, TypeOK
<1>3. pc'[p] = "aged" => FALSE
  BY <1>2, RequestAssumption DEF Request, Entry
<1>4. pc'[p] = "getnew" => req'[p].op = "scratch"
  BY <1>2, RequestAssumption DEF Request, Entry
<1>5. LooksOf(p)'
  BY <1>1, <1>3, <1>4, LooksControl DEF LooksOf
<1>6. disk' = disk /\ UNCHANGED <<flags, key, data>>
  BY DEF Start, pool
<1> QED
  BY <1>1, <1>5, <1>6, LooksControl, SameBuffers

LEMMA ScanClean == ASSUME IInv, DInv, NEW p \in Proc, Scan(p), Tame PROVE DInv'
<1>1. Step(p) /\ TypeOK
  BY DEF Step, IInv
<1>2. disk' = disk /\ UNCHANGED <<flags, key, data, want>> /\ cpu' = p /\ pc'[p] \in {"hit", "getnew"}
  BY <1>1 DEF Scan, pool, Goto, TypeOK
<1>3. ASSUME pc'[p] = "getnew" PROVE \A b \in Buf : key'[b] # want'[p]
  <2>1. Hits(want[p]) = {} /\ want[p] \in Blk
    BY <1>1, <1>3 DEF Scan, Goto, Runs, TypeOK, IInv, Control, ControlOf
  <2> QED
    BY <1>2, <2>1 DEF Hits, DInv, Valid
<1>4. LooksOf(p)'
  BY <1>1, <1>2, <1>3, LooksControl DEF LooksOf
<1> QED
  BY <1>1, <1>2, <1>4, LooksControl, SameBuffers

LEMMA QuietClean ==
    ASSUME IInv, DInv, NEW p \in Proc, Tame,
           \/ Incore(p) \/ ReadAhead(p) \/ Reap(p) \/ GotReady(p) \/ SleepIO(p) \/ ReadDone(p)
           \/ UseWild(p) \/ FlushDone(p) \/ PushDone(p) \/ Return(p)
    PROVE  DInv'
<1>1. Step(p) /\ TypeOK
  BY DEF Step, IInv
<1>2. disk' = disk /\ UNCHANGED <<flags, key, data>>
  BY DEF Incore, ReadAhead, Reap, GotReady, SleepIO, ReadDone, UseWild, FlushDone, PushDone, Return, pool
<1>3. pc'[p] \notin {"getnew", "aged"}
  <2>1. CASE Incore(p) \/ ReadAhead(p) \/ Reap(p) \/ GotReady(p) \/ ReadDone(p)
    BY <1>1, <2>1 DEF Incore, ReadAhead, Reap, GotReady, ReadDone, Goto, TypeOK
  <2>2. CASE SleepIO(p)
    BY <1>1, <2>2 DEF SleepIO, SleepOn, TypeOK
  <2>3. CASE UseWild(p) \/ FlushDone(p) \/ PushDone(p) \/ Return(p)
    BY <1>1, <2>3 DEF UseWild, FlushDone, PushDone, Return, Goto, TypeOK
  <2> QED
    BY <2>1, <2>2, <2>3
<1> QED
  BY <1>1, <1>2, <1>3, OwnLooks, SameBuffers

(* Setting B_WANTED, B_AGE or B_BUSY says nothing of what a buffer holds. *)
LEMMA ShadeAlike ==
    ASSUME IInv, NEW p \in Proc, WaitHit(p) \/ PushWaits(p) \/ TakeHit(p) \/ SetAge(p)
    PROVE  \A b \in Buf : Alike(b)
<1>1. TypeOK /\ ControlOf(p)
  BY DEF IInv, Control
<1>2. UNCHANGED <<key, data>>
  BY DEF WaitHit, PushWaits, TakeHit, SetAge
<1>3. \E b \in Buf, f \in {"WANTED", "BUSY", "AGE"} : flags' = [flags EXCEPT ![b] = @ \cup {f}]
  <2>1. CASE WaitHit(p) \/ TakeHit(p) \/ SetAge(p)
    BY <1>1, <2>1 DEF WaitHit, TakeHit, SetAge, Runs, ControlOf
  <2>2. CASE PushWaits(p)
    BY <2>2 DEF PushWaits, Hits
  <2> QED
    BY <2>1, <2>2
<1>4. \A b \in Buf : Alike(b)
  <2>1. PICK b \in Buf, f \in {"WANTED", "BUSY", "AGE"} : flags' = [flags EXCEPT ![b] = @ \cup {f}]
    BY <1>3
  <2>2. flags'[b] = flags[b] \cup {f} /\ \A c \in Buf \ {b} : flags'[c] = flags[c]
    BY <1>1, <2>1 DEF TypeOK
  <2>3. \A c \in Buf : \A g \in Kept : g \in flags'[c] <=> g \in flags[c]
    BY <2>2 DEF Kept
  <2> QED
    BY <1>2, <2>3 DEF Alike
<1> QED
  BY <1>4

LEMMA ShadeClean ==
    ASSUME IInv, DInv, NEW p \in Proc, Tame, WaitHit(p) \/ PushWaits(p) \/ TakeHit(p) \/ SetAge(p)
    PROVE  DInv'
<1>1. Step(p) /\ TypeOK /\ ControlOf(p) /\ LooksOf(p)
  BY DEF Step, IInv, Control, DInv
<1>2. disk' = disk /\ UNCHANGED <<key, data, want, req>>
  BY DEF WaitHit, PushWaits, TakeHit, SetAge
<1>4. \A b \in Buf : Alike(b)
  BY ShadeAlike
<1>5. LooksOf(p)'
  <2>1. CASE SetAge(p)
    <3>1. pc'[p] = "getnew" => pc[p] = "aged" /\ cpu' = p
      BY <1>1, <2>1 DEF SetAge, Runs, Goto, TypeOK
    <3>2. pc'[p] # "aged"
      BY <1>1, <2>1 DEF SetAge, Runs, Goto, TypeOK
    <3> QED
      BY <1>1, <1>2, <3>1, <3>2, LooksControl DEF LooksOf
  <2>2. CASE WaitHit(p) \/ PushWaits(p) \/ TakeHit(p)
    <3>1. pc'[p] \notin {"getnew", "aged"}
      BY <1>1, <2>2 DEF WaitHit, PushWaits, TakeHit, SleepOn, Goto, TypeOK
    <3> QED
      BY <1>1, <3>1, OwnLooks
  <2> QED
    BY <2>1, <2>2
<1> QED
  BY <1>1, <1>2, <1>4, <1>5, LooksControl, KeepAll

LEMMA ReleaseClean ==
    ASSUME IInv, DInv, NEW p \in Proc, Tame,
           \/ WriteDone(p) \/ PushWritten(p) \/ UseFailed(p) \/ UseRead(p) \/ UseScratch(p) \/ WriteDelayed(p)
    PROVE  DInv'
<1>1. Step(p) /\ TypeOK /\ ControlOf(p)
  BY DEF Step, IInv, Control
<1>2. PICK b \in Buf : b = bp[p]
  BY <1>1 DEF WriteDone, PushWritten, UseFailed, UseRead, UseScratch, WriteDelayed, Writes, Runs, ControlOf
<1>3. disk' = disk /\ \A c \in Buf \ {b} : data'[c] = data[c]
  BY <1>1, <1>2 DEF WriteDone, PushWritten, UseFailed, UseRead, UseScratch, WriteDelayed, CopyIn, TypeOK
<1>4. PICK fl : /\ Brelse(b, fl) /\ fl \in {flags[b], flags[b] \cup {"AGE"}, flags[b] \cup {"DELWRI", "DONE"}}
                /\ "DELWRI" \in fl \/ data'[b] = data[b]
  <2>1. CASE WriteDone(p) \/ PushWritten(p) \/ UseFailed(p) \/ UseScratch(p)
    BY <1>2, <2>1 DEF WriteDone, PushWritten, UseFailed, UseScratch
  <2>2. CASE UseRead(p)
    BY <1>2, <2>2 DEF UseRead
  <2>3. CASE WriteDelayed(p)
    BY <1>2, <2>3 DEF WriteDelayed
  <2> QED
    BY <2>1, <2>2, <2>3
<1>5. "INVAL" \in fl => "INVAL" \in flags[b]
  BY <1>4
<1>6. \/ "DELWRI" \in fl
      \/ data'[b] = data[b] /\ \A f \in Kept : f \in fl <=> f \in flags[b]
  BY <1>4 DEF Kept
<1>7. ~Start(p) /\ ~Scan(p) /\ ~WaitFree(p) /\ ~Evict(p) /\ ~SetAge(p)
  <2>1. pc'[p] \in {"return", "blkflush"}
    BY <1>1 DEF WriteDone, PushWritten, UseFailed, UseRead, UseScratch, WriteDelayed, Goto, TypeOK
  <2>2. pc[p] \in {"wwait", "fwait", "use"}
    BY DEF WriteDone, PushWritten, UseFailed, UseRead, UseScratch, WriteDelayed, Writes, Runs
  <2> QED
    BY <2>2 DEF Start, Scan, WaitFree, Evict, SetAge, Runs
<1>8. \A c \in Buf : key'[c] \in Blk =>
          key'[c] = key[c] /\ ("INVAL" \in flags'[c] => "INVAL" \in flags[c]) /\ (Agrees(c) => Agrees(c)')
  BY <1>3, <1>4, <1>5, <1>6, BrelseKeeps
<1> QED
  BY <1>1, <1>3, <1>7, <1>8, GoesElsewhere, KeepOne

LEMMA GotAheadClean == ASSUME IInv, DInv, NEW p \in Proc, Tame, GotAhead(p) PROVE DInv'
<1>1. Step(p) /\ TypeOK /\ ControlOf(p)
  BY DEF Step, IInv, Control
<1>2. PICK b \in Buf : b = cand[p]
  BY <1>1 DEF GotAhead, Runs, ControlOf
<1>3. disk' = disk /\ data' = data
  BY DEF GotAhead
<1>4. ~Start(p) /\ ~Scan(p) /\ ~WaitFree(p) /\ ~Evict(p) /\ ~SetAge(p)
  BY DEF GotAhead, Start, Scan, WaitFree, Evict, SetAge, Runs
<1>5. \A c \in Buf : key'[c] \in Blk =>
          key'[c] = key[c] /\ ("INVAL" \in flags'[c] => "INVAL" \in flags[c]) /\ (Agrees(c) => Agrees(c)')
  <2>1. CASE "DONE" \in flags[b]
    <3>1. Brelse(b, flags[b])
      BY <1>2, <2>1 DEF GotAhead
    <3> QED
      BY <1>3, <3>1, BrelseKeeps
  <2>2. CASE "DONE" \notin flags[b]
    <3> DEFINE fl == flags[b] \cup {"READ", "ASYNC"}
    <3>1. Strategy(b, fl) /\ key' = key
      BY <1>2, <2>2 DEF GotAhead
    <3>2. ("INVAL" \in fl => "INVAL" \in flags[b]) /\ "DONE" \notin fl
      BY <2>2
    <3> HIDE DEF fl
    <3> QED
      BY <1>3, <3>1, <3>2, StrategyKeeps
  <2> QED
    BY <2>1, <2>2
<1> QED
  BY <1>1, <1>3, <1>4, <1>5, GoesElsewhere, KeepOne

LEMMA SubmitClean ==
    ASSUME IInv, DInv, NEW p \in Proc, Tame,
           Evict(p) \/ GotToRead(p) \/ WriteAsync(p) \/ WriteSync(p) \/ FlushOne(p) \/ PushWrites(p)
    PROVE  DInv'
<1>1. Step(p) /\ TypeOK /\ ControlOf(p) /\ LooksOf(p) /\ Lists
  BY DEF Step, IInv, Control, DInv
<1>2. disk' = disk /\ key' = key
  BY ZenonT(60) DEF Evict, GotToRead, WriteAsync, WriteSync, FlushOne, PushWrites
<1>3. \E b \in Buf, fl \in SUBSET Flag :
          /\ Strategy(b, fl) /\ ("INVAL" \in fl => "INVAL" \in flags[b]) /\ "DONE" \notin fl
          /\ \A c \in Buf \ {b} : data'[c] = data[c]
  <2> DEFINE Out(b, fl) == BwriteFlags(flags[b] \cup fl)
  <2>1. \A b \in Buf, fl \in SUBSET {"AGE", "BUSY", "ASYNC"} :
            /\ Out(b, fl) \in SUBSET Flag /\ "DONE" \notin Out(b, fl)
            /\ "INVAL" \in Out(b, fl) => "INVAL" \in flags[b]
    BY <1>1 DEF BwriteFlags, Flag, TypeOK
  <2>2. CASE Evict(p)
    <3>1. Oldest \in Buf
      BY <1>1, <2>2, OldestIsFree DEF Evict
    <3>2. Strategy(Oldest, Out(Oldest, {"BUSY", "ASYNC"})) /\ data' = data
      BY <2>2 DEF Evict
    <3> HIDE DEF Out
    <3> QED
      BY <2>1, <3>1, <3>2
  <2>3. CASE GotToRead(p)
    <3>1. cand[p] \in Buf /\ Strategy(cand[p], flags[cand[p]] \cup {"READ"}) /\ data' = data
          /\ "DONE" \notin flags[cand[p]]
      BY <1>1, <2>3 DEF GotToRead, Runs, ControlOf
    <3>2. flags[cand[p]] \cup {"READ"} \in SUBSET Flag
      BY <1>1, <3>1 DEF TypeOK, Flag
    <3> QED
      BY <3>1, <3>2
  <2>4. CASE WriteAsync(p)
    <3>1. bp[p] \in Buf /\ Strategy(bp[p], Out(bp[p], {"AGE", "ASYNC"}))
      BY <1>1, <2>4 DEF WriteAsync, Writes, Runs, ControlOf
    <3>2. \A c \in Buf \ {bp[p]} : data'[c] = data[c]
      BY <1>1, <2>4, <3>1 DEF WriteAsync, CopyIn, TypeOK
    <3> HIDE DEF Out
    <3> QED
      BY <2>1, <3>1, <3>2
  <2>5. CASE WriteSync(p)
    <3>1. bp[p] \in Buf /\ Strategy(bp[p], BwriteFlags(flags[bp[p]]))
      BY <1>1, <2>5 DEF WriteSync, Writes, Runs, ControlOf
    <3>2. \A c \in Buf \ {bp[p]} : data'[c] = data[c]
      BY <1>1, <2>5, <3>1 DEF WriteSync, CopyIn, TypeOK
    <3>3. BwriteFlags(flags[bp[p]]) = Out(bp[p], {})
      OBVIOUS
    <3> HIDE DEF Out
    <3> QED
      BY <2>1, <3>1, <3>2, <3>3
  <2>6. CASE FlushOne(p)
    <3>1. PICK b \in FreeSet : b \in Buf /\ Strategy(b, Out(b, {"BUSY", "ASYNC"}) \cup {"AGE"})
      BY ZenonT(60), <2>6, FlushFinds
    <3>2. data' = data
      BY ZenonT(60), <2>6 DEF FlushOne
    <3> DEFINE fl == Out(b, {"BUSY", "ASYNC"}) \cup {"AGE"}
    <3>3. fl \in SUBSET Flag /\ ("INVAL" \in fl => "INVAL" \in flags[b]) /\ "DONE" \notin fl
      BY <1>1, <3>1 DEF BwriteFlags, Flag, TypeOK
    <3> HIDE DEF fl
    <3>4. Strategy(b, fl)
      BY <3>1 DEF fl
    <3> QED
      BY <3>1, <3>2, <3>3, <3>4
  <2>7. CASE PushWrites(p)
    <3>1. PICK b \in Buf : Strategy(b, Out(b, {"BUSY"}))
      BY <2>7 DEF PushWrites, Hits
    <3>2. data' = data
      BY <2>7 DEF PushWrites
    <3> HIDE DEF Out
    <3> QED
      BY <2>1, <3>1, <3>2
  <2> QED
    BY <2>2, <2>3, <2>4, <2>5, <2>6, <2>7
<1>4. \A c \in Buf : key'[c] \in Blk =>
          key'[c] = key[c] /\ ("INVAL" \in flags'[c] => "INVAL" \in flags[c]) /\ (Agrees(c) => Agrees(c)')
  BY <1>2, <1>3, StrategyKeeps
<1>5. LooksOf(p)'
  <2>1. CASE Evict(p)
    <3>1. pc[p] = "getnew" /\ pc'[p] = "aged" /\ cpu' = p /\ UNCHANGED <<req, want, key>>
      BY <1>1, <2>1 DEF Evict, Runs, Goto, TypeOK
    <3> QED
      BY <1>1, <3>1, LooksControl DEF LooksOf
  <2>2. CASE ~Evict(p)
    <3>1. ~Start(p) /\ ~Scan(p) /\ ~WaitFree(p) /\ ~SetAge(p)
      BY ZenonT(60), <2>2 DEF GotToRead, WriteAsync, WriteSync, FlushOne, PushWrites, Writes,
                  Start, Scan, WaitFree, SetAge, Runs
    <3> QED
      BY <1>1, <2>2, <3>1, GoesElsewhere
  <2> QED
    BY <2>1, <2>2
<1> QED
  BY <1>1, <1>2, <1>4, <1>5, LooksControl, KeepOne

(* getblk gives the block a buffer, and nobody else has given it one. *)
LEMMA ReassignClean == ASSUME IInv, DInv, NEW p \in Proc, Tame, Reassign(p) PROVE DInv'
<1>1. Step(p) /\ TypeOK /\ ControlOf(p) /\ LooksOf(p) /\ Lists /\ NoBlk \notin Blk
  BY DataAssumption DEF Step, IInv, Control, DInv
<1>2. PICK x \in Buf : x = Oldest
  BY <1>1, OldestIsFree DEF Reassign
<1> DEFINE scratch == req[p].op = "scratch"
<1>3. /\ \A b \in Buf \ {x} : flags'[b] = flags[b] /\ key'[b] = key[b]
      /\ flags'[x] \in SUBSET {"BUSY", "INVAL"} /\ ("INVAL" \in flags'[x] => scratch)
      /\ key'[x] = IF scratch THEN NoBlk ELSE want[p]
      /\ data' = data /\ disk' = disk
  BY <1>1, <1>2 DEF Reassign, TypeOK
<1>4. pc[p] = "getnew" /\ pc'[p] = "got"
  BY <1>1 DEF Reassign, Runs, Goto, TypeOK
<1>5. ~scratch => \A b \in Buf : key[b] # want[p]
  BY <1>1, <1>4 DEF LooksOf
<1>6. /\ cpu \in {p, Idle} /\ LooksOf(p)'
      /\ \A q \in Proc \ {p} : pc'[q] = pc[q] /\ req'[q] = req[q] /\ want'[q] = want[q]
  BY <1>1, <1>4, OwnLooks
<1>7. Valid'
  BY <1>1, <1>3 DEF DInv, Valid
<1>8. Unique'
  BY <1>1, <1>3, <1>5 DEF DInv, Unique
<1>9. Clean'
  <2>1. ASSUME NEW b \in Buf \ {x}, key'[b] \in Blk PROVE Agrees(b)'
    BY <1>3, <2>1 DEF DInv, Clean, Agrees
  <2>2. Agrees(x)'
    BY <1>3 DEF Agrees
  <2> QED
    BY <2>1, <2>2 DEF Clean
<1>10. ASSUME NEW q \in Proc \ {p} PROVE LooksOf(q)'
  BY <1>6, <1>10, LooksAlone DEF DInv, LooksOf
<1> QED
  BY <1>6, <1>7, <1>8, <1>9, <1>10 DEF DInv

(* The interrupt copies between the buffer and its block, and no other     *)
(* buffer has that block.                                                  *)
LEMMA InterruptClean ==
    ASSUME IInv, DInv, NEW x \in Buf, x \in QueueSet, NEW fl, Biodone(x, fl),
           fl \subseteq flags[x] \cup {"ERROR"},
           UNCHANGED <<pc, req, want, cpu>>,
           \/ "ERROR" \in fl /\ data' = data /\ disk' = disk
           \/ data' = [data EXCEPT ![x] = disk[key[x]]] /\ disk' = disk
           \/ disk' = [disk EXCEPT ![key[x]] = data[x]] /\ data' = data
    PROVE  DInv'
<1>1. TypeOK /\ key[x] \in Blk /\ NoBlk \notin Blk
  BY DataAssumption DEF IInv, Keys, KeysOf
<1>2. \A b \in Buf \ {x} : flags'[b] = flags[b] /\ key'[b] = key[b] /\ data'[b] = data[b]
  BY <1>1 DEF Biodone, Brelse, TypeOK
<1>3. /\ flags'[x] \in SUBSET (fl \cup {"DONE"})
      /\ "ERROR" \in fl => "ERROR" \in flags'[x]
      /\ key'[x] \in {key[x], NoBlk}
  <2>1. CASE "ASYNC" \in fl
    <3>1. flags' = [flags EXCEPT ![x] = (fl \cup {"DONE"}) \ {"WANTED", "BUSY", "ASYNC", "AGE"}]
          /\ (key' = [key EXCEPT ![x] = NoBlk] \/ key' = key)
      BY <2>1 DEF Biodone, Brelse
    <3> QED
      BY <1>1, <3>1 DEF TypeOK
  <2>2. CASE "ASYNC" \notin fl
    <3>1. flags' = [flags EXCEPT ![x] = (fl \cup {"DONE"}) \ {"WANTED"}] /\ key' = key
      BY <2>2 DEF Biodone
    <3> QED
      BY <1>1, <3>1 DEF TypeOK
  <2> QED
    BY <2>1, <2>2
<1>4. \A b \in Buf : key'[b] \in Blk => key'[b] = key[b]
  BY <1>1, <1>2, <1>3
<1>5. Valid'
  BY <1>2, <1>3, <1>4 DEF DInv, Valid
<1>6. Unique'
  BY <1>4 DEF DInv, Unique
<1>7. Clean'
  <2>1. ASSUME NEW b \in Buf \ {x}, key'[b] \in Blk PROVE Agrees(b)'
    <3>1. key[b] = key'[b] /\ key[b] \in Blk /\ key[b] # key[x] /\ Agrees(b)
      BY <1>1, <1>4, <2>1 DEF DInv, Unique, Clean
    <3>2. disk'[key[b]] = disk[key[b]]
      BY <1>1, <3>1 DEF TypeOK
    <3> QED
      BY <1>2, <3>1, <3>2 DEF Agrees
  <2>2. ASSUME key'[x] \in Blk PROVE Agrees(x)'
    <3>1. key'[x] = key[x]
      BY <1>4, <2>2
    <3>2. CASE "ERROR" \in fl
      BY <1>3, <3>2 DEF Agrees
    <3>3. CASE data' = [data EXCEPT ![x] = disk[key[x]]] /\ disk' = disk
      BY <1>1, <3>1, <3>3 DEF Agrees, TypeOK
    <3>4. CASE disk' = [disk EXCEPT ![key[x]] = data[x]] /\ data' = data
      BY <1>1, <3>1, <3>4 DEF Agrees, TypeOK
    <3> QED
      BY <3>2, <3>3, <3>4
  <2> QED
    BY <2>1, <2>2 DEF Clean
<1>8. ASSUME NEW p \in Proc PROVE LooksOf(p)'
  <2>1. LooksOf(p) /\ ControlOf(p)
    BY DEF DInv, IInv, Control
  <2>2. ASSUME pc[p] \in {"getnew", "aged"}, req[p].op # "scratch"
        PROVE  cpu = p /\ \A b \in Buf : key'[b] # want[p]
    <3>1. want[p] \in Blk
      BY <2>1, <2>2 DEF ControlOf, Searching
    <3> QED
      BY <1>4, <2>1, <2>2, <3>1 DEF LooksOf
  <2> QED
    BY <2>1, <2>2 DEF LooksOf
<1> QED
  BY <1>5, <1>6, <1>7, <1>8 DEF DInv

LEMMA DiskClean == ASSUME IInv, DInv, DiskDone \/ DiskError PROVE DInv'
<1>1. TypeOK /\ Lists /\ ioq # <<>>
  BY DEF IInv, DiskDone, DiskError
<1>2. ioq' = Tail(ioq)
  BY DEF DiskDone, DiskError
<1>3. PICK x \in Buf : x = Head(ioq) /\ x \in QueueSet
  BY <1>1, <1>2, InterruptLists
<1>4. UNCHANGED <<pc, req, want, cpu>>
  BY DEF DiskDone, DiskError
<1>5. CASE DiskDone
  <2>1. Biodone(x, flags[x])
    BY <1>3, <1>5 DEF DiskDone
  <2>2. \/ data' = [data EXCEPT ![x] = disk[key[x]]] /\ disk' = disk
        \/ disk' = [disk EXCEPT ![key[x]] = data[x]] /\ data' = data
    BY <1>3, <1>5 DEF DiskDone
  <2> QED
    BY <1>3, <1>4, <2>1, <2>2, InterruptClean
<1>6. CASE DiskError
  <2>1. Biodone(x, flags[x] \cup {"ERROR"}) /\ data' = data /\ disk' = disk
    BY <1>3, <1>6 DEF DiskError
  <2> QED
    BY <1>3, <1>4, <2>1, InterruptClean
<1> QED
  BY <1>5, <1>6

LEMMA BootedClean == Booted => DInv
<1>1. NoBlk \notin Blk
  BY DataAssumption
<1> QED
  BY <1>1 DEF Booted, DInv, Valid, Unique, Clean, LooksOf

LEMMA CrashClean == ASSUME IInv, Crash PROVE DInv'
<1>1. NoBlk \notin Blk
  BY DataAssumption
<1> QED
  BY <1>1 DEF Crash, DInv, Valid, Unique, Clean, LooksOf

LEMMA CleanStep ==
    ASSUME Tame, IInv, DInv, PoolNeverDry', [Next]_vars
    PROVE  DInv'
<1>1. ASSUME NEW p \in Proc, Step(p) PROVE DInv'
  <2>1. ~WaitFree(p)
    <3>1. SUFFICES ASSUME WaitFree(p) PROVE FALSE
      OBVIOUS
    <3>2. chan'[p] = FreeList
      BY <3>1 DEF WaitFree, SleepOn, IInv, TypeOK
    <3> QED
      BY <3>2 DEF PoolNeverDry
  <2>2. ~WriteFaults(p) /\ ~Binval(p)
    BY DEF DInv, LooksOf, WriteFaults, Writes, Binval, Runs
  <2> QED
    BY <1>1, <2>1, <2>2, StartClean, ScanClean, QuietClean, ShadeClean, ReleaseClean, GotAheadClean,
       SubmitClean, ReassignClean DEF Step
<1>2. CASE UNCHANGED vars
  BY <1>2 DEF vars, pool, calls, DInv, Valid, Unique, Clean, Agrees, LooksOf
<1> QED
  BY <1>1, <1>2, DiskClean, CrashClean DEF Next

LEMMA CleanAlways == ASSUME Tame PROVE Spec /\ []PoolNeverDry => []DInv
<1>1. Init => DInv
  BY BootedClean DEF Init, Booted
<1>2. IInv /\ DInv /\ PoolNeverDry' /\ [Next]_vars => DInv'
  BY CleanStep
<1> QED
  BY <1>1, <1>2, Inductive, PTL DEF Spec

(* A cached block that nobody is using agrees with the platter, so that    *)
(* getnewbuf may give its buffer away: in every execution in which no      *)
(* process has had to sleep for a free buffer (the getnewbuf that does may *)
(* give a block a second one), when nobody closes the device (binval       *)
(* invalidates what bflush has only begun to write) and no copy from a     *)
(* process fails (writei then releases a changed buffer as a clean one).   *)
THEOREM CleanKept == ASSUME Tame PROVE Spec /\ []PoolNeverDry => []CleanMatchesDisk
<1>1. ASSUME IInv, DInv PROVE CleanMatchesDisk
  <2>1. ASSUME NEW b \in Buf, key[b] \in Blk, Free(b), "DONE" \in flags[b], flags[b] \cap {"INVAL", "DELWRI"} = {}
        PROVE  data[b] = disk[key[b]]
    <3>1. "ERROR" \notin flags[b]
      BY <1>1, <2>1, DataAssumption DEF IInv, Keys, KeysOf, Free, FreeSet
    <3> QED
      BY <1>1, <2>1, <3>1 DEF DInv, Clean, Agrees
  <2> QED
    BY <2>1 DEF CleanMatchesDisk
<1>2. IInv /\ DInv => CleanMatchesDisk
  BY <1>1
<1> QED
  BY <1>2, Inductive, CleanAlways, PTL

(* "If the appropriate block is already associated, return it": no block   *)
(* has two valid buffers, until a process has had to sleep for a free one. *)
(* The run that exhibits two, of getnewbuf's `goto loop', thus shows the   *)
(* only way to come by them, closes and failing copies apart.              *)
THEOREM OneUnlessDry == ASSUME Tame PROVE Spec /\ []PoolNeverDry => []OneBufferPerBlock
<1>1. ASSUME DInv PROVE OneBufferPerBlock
  <2>1. ASSUME NEW k \in Blk PROVE Cardinality(Hits(k)) <= 1
    <3>1. CASE Hits(k) = {}
      BY <3>1, FS_EmptySet
    <3>2. CASE Hits(k) # {}
      <4>1. PICK b \in Hits(k) : TRUE
        BY <3>2
      <4>2. \A c \in Hits(k) : c = b
        BY <1>1, <4>1 DEF DInv, Unique, Hits
      <4>3. Hits(k) = {b}
        BY <4>1, <4>2
      <4> QED
        BY <4>3, FS_Singleton
    <3> QED
      BY <3>1, <3>2
  <2> QED
    BY <2>1 DEF OneBufferPerBlock
<1>2. DInv => OneBufferPerBlock
  BY <1>1
<1> QED
  BY <1>2, CleanAlways, PTL

-----------------------------------------------------------------------------
(* The cache implements the block store *)

(* The buffer that p has is that of the block it asked for. *)
AsksOf(p) ==
    /\ pc[p] \in Searching => want[p] = req[p].blk \/ ForReadAhead(p)
    /\ pc[p] = "got" /\ req[p].op # "scratch" => key[cand[p]] = want[p]
    /\ bp[p] \in Buf /\ pc[p] # "fwait" /\ req[p].op # "scratch" => key[bp[p]] = req[p].blk
    /\ pc[p] = "use" /\ req[p].op \in {"read", "reada", "update"} => "DONE" \in flags[bp[p]]
    /\ pc[p] = "wwait" => "DELWRI" \notin flags[bp[p]]
    /\ pc[p] \notin {"return", "written"} => reply[p] = NoReply
    /\ pc[p] = "user" => req[p] = NoReq
    /\ pc[p] # "wild"

SInv == DInv /\ \A p \in Proc : AsksOf(p)

(* The buffer has the block's value, and what the platter has is older. *)
Holding(b) == "ERROR" \notin flags[b] /\ ("DONE" \in flags[b] \/ (b \in QueueSet /\ ~IsRead(flags[b])))
Owes(b) == key[b] \in Blk /\ Holding(b) /\ data[b] # disk[key[b]]

FailedSet == {b \in Buf : "ERROR" \in flags[b]}

LEMMA StoreAt ==
    DInv => \A x \in Buf : key[x] \in Blk => StoreOf[key[x]] = IF Holding(x) THEN data[x] ELSE disk[key[x]]
<1> SUFFICES ASSUME DInv, NEW x \in Buf, key[x] \in Blk
             PROVE  StoreOf[key[x]] = IF Holding(x) THEN data[x] ELSE disk[key[x]]
  OBVIOUS
<1>1. PICK k \in Blk : k = key[x]
  OBVIOUS
<1>2. \A b \in Buf : Current(b, k) <=> key[b] = k /\ Holding(b)
  BY DEF Current, Hits, Holding, Queued, QueueSet, DInv, Valid
<1>3. \A b \in Buf : key[b] = k => b = x
  BY <1>1 DEF DInv, Unique
<1>4. StoreOf[k] = IF \E b \in Buf : Current(b, k) THEN data[CHOOSE b \in Buf : Current(b, k)] ELSE disk[k]
  BY DEF StoreOf
<1> QED
  BY <1>1, <1>2, <1>3, <1>4

LEMMA StoreElse ==
    DInv => \A k \in Blk : (\A b \in Buf : key[b] # k) => StoreOf[k] = disk[k]
BY DEF StoreOf, Current, Hits

LEMMA StoreOwes ==
    DInv => \A k \in Blk :
                /\ \A b \in Buf : key[b] = k /\ Owes(b) => StoreOf[k] = data[b]
                /\ (\A b \in Buf : key[b] = k => ~Owes(b)) => StoreOf[k] = disk[k]
<1> SUFFICES ASSUME DInv, NEW k \in Blk
             PROVE  /\ \A b \in Buf : key[b] = k /\ Owes(b) => StoreOf[k] = data[b]
                    /\ (\A b \in Buf : key[b] = k => ~Owes(b)) => StoreOf[k] = disk[k]
  OBVIOUS
<1>1. CASE \A b \in Buf : key[b] # k
  BY <1>1, StoreElse
<1>2. CASE \E b \in Buf : key[b] = k
  <2>1. PICK x \in Buf : key[x] = k
    BY <1>2
  <2>2. StoreOf[k] = IF Holding(x) THEN data[x] ELSE disk[k]
    BY <2>1, StoreAt
  <2>3. \A b \in Buf : key[b] = k => b = x
    BY <2>1 DEF DInv, Unique
  <2> QED
    BY <2>1, <2>2, <2>3 DEF Owes
<1> QED
  BY <1>1, <1>2

(* A step after which the same buffers owe the same values. *)
LEMMA StoreSame ==
    ASSUME DInv, DInv', disk' = disk,
           \A b \in Buf : Owes(b) \/ Owes(b)' => Owes(b) /\ Owes(b)' /\ key'[b] = key[b] /\ data'[b] = data[b]
    PROVE  StoreOf' = StoreOf
<1>1. StoreOwes!2
  BY StoreOwes
<1>2. (StoreOwes!2)'
  BY StoreOwes, PTL
<1>3. ASSUME NEW k \in Blk PROVE StoreOf'[k] = StoreOf[k]
  <2>1. CASE \E b \in Buf : key[b] = k /\ Owes(b)
    BY <1>1, <1>2, <2>1
  <2>2. CASE \A b \in Buf : key[b] = k => ~Owes(b)
    BY <1>1, <1>2, <2>2
  <2> QED
    BY <2>1, <2>2
<1> QED
  BY <1>3 DEF StoreOf

(* A step that concerns one block and the buffer that has it. *)
LEMMA StorePoint ==
    ASSUME DInv, DInv', NEW x \in Buf, NEW k \in Blk, key[x] = k, key'[x] \in {k, NoBlk},
           \A j \in Blk \ {k} : disk'[j] = disk[j],
           \A b \in Buf \ {x} : key'[b] = key[b] /\ data'[b] = data[b] /\ (Holding(b)' <=> Holding(b))
    PROVE  StoreOf' = [StoreOf EXCEPT ![k] = IF key'[x] = k /\ Holding(x)' THEN data'[x] ELSE disk'[k]]
<1>1. (StoreOwes!2)' /\ (StoreAt!2)' /\ (StoreElse!2)'
  BY StoreOwes, StoreAt, StoreElse, PTL
<1>2. \A b \in Buf \ {x} : key[b] # k
  BY DEF DInv, Unique
<1>3. StoreOf'[k] = IF key'[x] = k /\ Holding(x)' THEN data'[x] ELSE disk'[k]
  <2>1. CASE key'[x] = k
    BY <1>1, <2>1
  <2>2. CASE key'[x] # k
    BY <1>1, <1>2, <2>2
  <2> QED
    BY <2>1, <2>2
<1>4. ASSUME NEW j \in Blk \ {k} PROVE StoreOf'[j] = StoreOf[j]
  <2>1. NoBlk # j
    BY DataAssumption
  <2>2. \A b \in Buf : key[b] = j => b # x
    OBVIOUS
  <2>3. \A b \in Buf : key'[b] = j <=> key[b] = j
    BY <2>1
  <2>4. \A b \in Buf : key[b] = j => (Owes(b)' <=> Owes(b)) /\ data'[b] = data[b]
    BY <2>2, <2>3 DEF Owes
  <2>5. StoreOwes!2
    BY StoreOwes
  <2> QED
    BY <1>1, <2>3, <2>4, <2>5
<1>5. StoreOf \in [Blk -> {StoreOf[j] : j \in Blk}] /\ StoreOf' = [j \in Blk |-> StoreOf'[j]]
      /\ StoreOf = [j \in Blk |-> StoreOf[j]]
  BY DEF StoreOf
<1> HIDE DEF StoreOf
<1> QED
  BY <1>3, <1>4, <1>5

(* A process touches no locals but its own. *)
LEMMA OwnLocals ==
    ASSUME TypeOK, NEW p \in Proc, Step(p), NEW q \in Proc \ {p}
    PROVE  cand'[q] = cand[q] /\ bp'[q] = bp[q] /\ reply'[q] = reply[q]
<1> DEFINE Own == /\ cand' = cand \/ \E c : cand' = [cand EXCEPT ![p] = c]
                  /\ bp' = bp \/ \E c : bp' = [bp EXCEPT ![p] = c]
                  /\ reply' = reply \/ \E c : reply' = [reply EXCEPT ![p] = c]
<1>1. Own => cand'[q] = cand[q] /\ bp'[q] = bp[q] /\ reply'[q] = reply[q]
  BY DEF TypeOK
<1>2. Start(p) \/ Incore(p) \/ ReadAhead(p) \/ Reap(p) => Own
  BY DEF Start, Incore, ReadAhead, Reap
<1>3. Scan(p) \/ WaitHit(p) \/ TakeHit(p) => Own
  BY DEF Scan, WaitHit, TakeHit
<1>4. WaitFree(p) \/ Evict(p) \/ SetAge(p) \/ Reassign(p) => Own
  BY DEF WaitFree, Evict, SetAge, Reassign
<1>5. GotReady(p) \/ GotToRead(p) \/ GotAhead(p) => Own
  BY DEF GotReady, GotToRead, GotAhead
<1>6. SleepIO(p) \/ ReadDone(p) \/ WriteDone(p) => Own
  BY DEF SleepIO, ReadDone, WriteDone, Answer
<1>7. UseFailed(p) \/ UseRead(p) \/ UseScratch(p) => Own
  BY DEF UseFailed, UseRead, UseScratch, Answer
<1>8. WriteDelayed(p) \/ WriteAsync(p) \/ WriteSync(p) \/ WriteFaults(p) \/ UseWild(p) => Own
  BY DEF WriteDelayed, WriteAsync, WriteSync, WriteFaults, UseWild, Answer
<1>9. FlushOne(p) \/ FlushDone(p) \/ Binval(p) => Own
  BY ZenonT(60) DEF FlushOne, FlushDone, Binval
<1>10. PushWaits(p) \/ PushWrites(p) \/ PushWritten(p) \/ PushDone(p) \/ Return(p) => Own
  BY DEF PushWaits, PushWrites, PushWritten, PushDone, Return
<1> HIDE DEF Own
<1> QED
  BY <1>1, <1>2, <1>3, <1>4, <1>5, <1>6, <1>7, <1>8, <1>9, <1>10 DEF Step

(* What a process knows of its buffer stays true while nobody else touches *)
(* the buffer.                                                             *)
LEMMA AsksStill ==
    ASSUME IInv, SInv, NEW q \in Proc, pc'[q] = pc[q], req'[q] = req[q], want'[q] = want[q],
           cand'[q] = cand[q], bp'[q] = bp[q], reply'[q] = reply[q],
           \A b \in Buf : Holds(q, b) =>
               /\ key'[b] = key[b]
               /\ "DONE" \in flags[b] => "DONE" \in flags'[b]
               /\ "DELWRI" \in flags'[b] => "DELWRI" \in flags[b]
    PROVE  AsksOf(q)'
<1>1. AsksOf(q) /\ ControlOf(q)
  BY DEF SInv, IInv, Control
<1>2. pc[q] = "got" => cand[q] \in Buf /\ Holds(q, cand[q])
  BY <1>1 DEF ControlOf, Holds
<1>3. bp[q] \in Buf => Holds(q, bp[q])
  BY DEF Holds
<1>4. pc[q] \in {"use", "wwait"} => bp[q] \in Buf
  BY <1>1 DEF ControlOf
<1> QED
  BY <1>1, <1>2, <1>3, <1>4 DEF AsksOf, ForReadAhead

(* The buffer a step changes is p's, or nobody's. *)
Touches(p, x) == /\ \A b \in Buf \ {x} : Alike(b)
                 /\ \A q \in Proc \ {p} : x \in Buf => ~Holds(q, x)

LEMMA OthersAsk ==
    ASSUME IInv, SInv, NEW p \in Proc, NEW x, Touches(p, x), Step(p), Tame, NEW q \in Proc \ {p}
    PROVE  AsksOf(q)'
<1>1. \A b \in Buf : Holds(q, b) => Alike(b)
  BY DEF Touches
<1>2. cand'[q] = cand[q] /\ bp'[q] = bp[q] /\ reply'[q] = reply[q]
  BY OwnLocals DEF IInv
<1>3. pc'[q] = pc[q] /\ req'[q] = req[q] /\ want'[q] = want[q]
  BY LooksControl DEF SInv
<1>4. \A b \in Buf : Holds(q, b) =>
          /\ key'[b] = key[b]
          /\ "DONE" \in flags[b] => "DONE" \in flags'[b]
          /\ "DELWRI" \in flags'[b] => "DELWRI" \in flags[b]
  BY <1>1 DEF Alike, Kept
<1> QED
  BY <1>2, <1>3, <1>4, AsksStill

LEMMA MineOrFree ==
    ASSUME IInv, NEW p \in Proc, NEW x \in Buf, Holds(p, x) \/ x \in FreeSet, NEW q \in Proc \ {p}
    PROVE  ~Holds(q, x)
<1>1. OwnersOf(x)
  BY DEF IInv, Owners
<1> QED
  BY <1>1 DEF OwnersOf

LEMMA AllAsk ==
    ASSUME IInv, SInv, NEW p \in Proc, NEW x, Touches(p, x), Step(p), Tame, DInv', AsksOf(p)'
    PROVE  SInv'
BY OthersAsk DEF SInv

(* The requests lead where their first statement is, with nothing asked of *)
(* the cache yet.                                                          *)
LEMMA StartAsks == ASSUME IInv, SInv, NEW p \in Proc, Start(p), Tame PROVE SInv'
<1>1. Step(p) /\ TypeOK /\ ControlOf(p) /\ AsksOf(p) /\ DInv
  BY DEF Step, IInv, Control, SInv
<1>2. DInv'
  BY <1>1, StartClean
<1>3. Touches(p, NoBuf)
  BY PoolAssumption DEF Start, pool, Touches, Alike
<1>4. PICK r \in Requests : req'[p] = r /\ want'[p] = r.blk /\ pc'[p] = Entry[r.op]
  BY <1>1 DEF Start, Goto, TypeOK
<1>5. pc'[p] \in {"getblk", "incore", "getnew", "flush", "blkflush"}
  BY <1>4, RequestAssumption DEF Request, Entry
<1>6. pc[p] = "user" /\ bp'[p] = bp[p] /\ reply'[p] = reply[p]
  BY DEF Start, Runs
<1>7. bp[p] \notin Buf /\ reply[p] = NoReply
  BY <1>1, <1>6 DEF ControlOf, AsksOf, Searching
<1>8. AsksOf(p)'
  BY <1>4, <1>5, <1>6, <1>7 DEF AsksOf
<1> QED
  BY <1>1, <1>2, <1>3, <1>8, AllAsk

LEMMA QuietAsks ==
    ASSUME IInv, SInv, HitsStayBound, NEW p \in Proc, Tame,
           \/ Incore(p) \/ ReadAhead(p) \/ Reap(p) \/ Scan(p) \/ GotReady(p) \/ SleepIO(p) \/ ReadDone(p)
           \/ UseWild(p) \/ FlushDone(p) \/ PushDone(p) \/ Return(p)
    PROVE  SInv' /\ ~UseWild(p)
<1>1. Step(p) /\ TypeOK /\ ControlOf(p) /\ AsksOf(p) /\ DInv /\ LooksOf(p)
  BY DEF Step, IInv, Control, SInv, DInv
<1>2. DInv'
  BY <1>1, QuietClean, ScanClean
<1>3. UNCHANGED <<flags, key, data>>
  BY DEF Incore, ReadAhead, Reap, Scan, GotReady, SleepIO, ReadDone, UseWild, FlushDone, PushDone, Return, pool
<1>4. Touches(p, NoBuf)
  BY <1>3, PoolAssumption DEF Touches, Alike
<1>5. CASE Incore(p)
  <2>1. pc'[p] \in {"ra", "getblk"} /\ pc[p] = "incore" /\ UNCHANGED <<req, want, bp, reply>>
    BY <1>1, <1>5 DEF Incore, Goto, Runs, TypeOK
  <2>2. AsksOf(p)'
    BY <1>1, <1>3, <2>1 DEF AsksOf, ControlOf
  <2> QED
    BY <1>1, <1>2, <1>4, <1>5, <2>1, <2>2, AllAsk DEF UseWild, Writes, Runs
<1>6. CASE ReadAhead(p)
  <2>1. /\ pc[p] = "ra" /\ UNCHANGED <<req, bp, reply>>
        /\ \/ pc'[p] = "getblk" /\ want'[p] = req[p].ra
           \/ pc'[p] = "reap"
    BY <1>1, <1>6 DEF ReadAhead, Goto, Runs, TypeOK
  <2>2. AsksOf(p)'
    BY <1>1, <1>3, <2>1 DEF AsksOf, ControlOf, ForReadAhead, Searching
  <2> QED
    BY <1>1, <1>2, <1>4, <1>6, <2>1, <2>2, AllAsk DEF UseWild, Writes, Runs
<1>7. CASE Reap(p)
  <2>1. pc[p] = "reap" /\ UNCHANGED <<bp, reply>>
    BY <1>7 DEF Reap, Runs
  <2>2. AsksOf(p)'
    <3>1. CASE bp[p] = NoBuf
      <4>1. pc'[p] = "getblk" /\ want'[p] = req[p].blk /\ req'[p].blk = req[p].blk
        <5>1. req' = [req EXCEPT ![p].op = "read"] /\ want' = [want EXCEPT ![p] = req[p].blk]
              /\ pc' = [pc EXCEPT ![p] = "getblk"]
          BY <1>7, <3>1 DEF Reap, Goto
        <5>2. req[p] \in Request
          BY <1>1, <2>1 DEF ControlOf, Asked
        <5> QED
          BY <1>1, <5>1, <5>2 DEF TypeOK, Request
      <4> QED
        BY <1>1, <2>1, <3>1, <4>1, PoolAssumption DEF AsksOf
    <3>2. CASE bp[p] # NoBuf
      <4>1. pc'[p] = "biowait" /\ UNCHANGED <<req, want>>
        BY <1>1, <1>7, <3>2 DEF Reap, Goto, TypeOK
      <4> QED
        BY <1>1, <1>3, <2>1, <4>1 DEF AsksOf, Searching
    <3> QED
      BY <3>1, <3>2
  <2> QED
    BY <1>1, <1>2, <1>4, <1>7, <2>1, <2>2, AllAsk DEF UseWild, Writes, Runs
<1>8. CASE Scan(p)
  <2>1. pc'[p] \in {"hit", "getnew"} /\ pc[p] = "getblk" /\ UNCHANGED <<req, want, bp, reply>>
    BY <1>1, <1>8 DEF Scan, Goto, Runs, TypeOK
  <2>2. AsksOf(p)'
    BY <1>1, <1>3, <2>1 DEF AsksOf, Searching, ForReadAhead
  <2> QED
    BY <1>1, <1>2, <1>4, <1>8, <2>1, <2>2, AllAsk DEF UseWild, Writes, Runs
<1>9. CASE GotReady(p)
  <2>1. /\ pc[p] = "got" /\ bp'[p] = cand[p] /\ ~ForReadAhead(p)
        /\ "DONE" \in flags[cand[p]] \/ req[p].op \in {"write", "scratch"}
        /\ UNCHANGED <<req, want, reply>>
        /\ pc'[p] \in {"ra", "use"} /\ (pc'[p] = "ra" => req[p].op = "reada")
    BY <1>1, <1>9 DEF GotReady, Goto, Runs, TypeOK
  <2>2. AsksOf(p)'
    BY <1>1, <1>3, <2>1 DEF AsksOf, Searching
  <2> QED
    BY <1>1, <1>2, <1>4, <1>9, <2>1, <2>2, AllAsk DEF UseWild, Writes, Runs
<1>10. CASE SleepIO(p)
  <2>1. pc'[p] = pc[p] /\ pc[p] \in {"biowait", "wwait", "fwait"} /\ UNCHANGED <<req, want, bp, reply>>
    BY <1>1, <1>10 DEF SleepIO, SleepOn, Runs, TypeOK
  <2>2. AsksOf(p)'
    BY <1>1, <1>3, <2>1 DEF AsksOf, Searching
  <2> QED
    BY <1>1, <1>2, <1>4, <1>10, <2>1, <2>2, AllAsk DEF UseWild, Writes, Runs
<1>11. CASE ReadDone(p)
  <2>1. pc'[p] = "use" /\ pc[p] = "biowait" /\ "DONE" \in flags[bp[p]] /\ UNCHANGED <<req, want, bp, reply>>
    BY <1>1, <1>11 DEF ReadDone, Goto, Runs, TypeOK
  <2>2. AsksOf(p)'
    BY <1>1, <1>3, <2>1 DEF AsksOf, Searching
  <2> QED
    BY <1>1, <1>2, <1>4, <1>11, <2>1, <2>2, AllAsk DEF UseWild, Writes, Runs
<1>12. ~UseWild(p)
  <2>1. SUFFICES ASSUME UseWild(p) PROVE FALSE
    OBVIOUS
  <2>2. pc[p] = "use" /\ req[p].op \in {"write", "update"} /\ key[bp[p]] = NoBlk
    BY <2>1 DEF UseWild, Writes, Runs
  <2>3. bp[p] \in Buf /\ req[p].blk \in Blk
    BY <1>1, <2>2 DEF ControlOf, Asked
  <2>4. key[bp[p]] = req[p].blk
    BY <1>1, <2>2, <2>3 DEF AsksOf
  <2> QED
    BY <2>2, <2>3, <2>4, DataAssumption
<1>13. CASE FlushDone(p) \/ PushDone(p)
  <2>1. pc'[p] = "return" /\ UNCHANGED <<req, bp, reply>> /\ pc[p] \in {"flush", "blkflush"}
    BY <1>1, <1>13 DEF FlushDone, PushDone, Goto, Runs, TypeOK, LooksOf
  <2>2. AsksOf(p)'
    BY <1>1, <1>3, <2>1 DEF AsksOf, Searching, ControlOf
  <2> QED
    BY <1>1, <1>2, <1>4, <1>12, <2>2, AllAsk
<1>14. CASE Return(p)
  <2>1. pc'[p] = "user" /\ req'[p] = NoReq /\ reply'[p] = NoReply /\ bp' = bp /\ pc[p] = "return"
    BY <1>1, <1>14 DEF Return, Runs, TypeOK
  <2>2. AsksOf(p)'
    BY <1>1, <2>1 DEF AsksOf, ControlOf, Searching
  <2> QED
    BY <1>1, <1>2, <1>4, <1>12, <2>2, AllAsk
<1> QED
  BY <1>5, <1>6, <1>7, <1>8, <1>9, <1>10, <1>11, <1>12, <1>13, <1>14

LEMMA ShadeAsks ==
    ASSUME IInv, SInv, HitsStayBound, NEW p \in Proc, Tame,
           WaitHit(p) \/ PushWaits(p) \/ TakeHit(p) \/ SetAge(p)
    PROVE  SInv' /\ \A b \in Buf : Alike(b)
<1>1. Step(p) /\ TypeOK /\ ControlOf(p) /\ AsksOf(p) /\ DInv /\ LooksOf(p)
  BY DEF Step, IInv, Control, SInv, DInv
<1>2. DInv'
  BY <1>1, ShadeClean
<1>3. \A b \in Buf : Alike(b)
  BY <1>1, ShadeAlike
<1>4. Touches(p, NoBuf)
  BY <1>3, PoolAssumption DEF Touches
<1>5. UNCHANGED <<req, want, bp, reply, key>>
  BY DEF WaitHit, PushWaits, TakeHit, SetAge
<1>6. AsksOf(p)'
  <2>1. CASE WaitHit(p)
    <3>1. pc[p] = "hit" /\ pc'[p] = "getblk"
      BY <1>1, <2>1 DEF WaitHit, Runs, SleepOn, TypeOK
    <3> QED
      BY <1>1, <1>5, <3>1 DEF AsksOf, Searching, ForReadAhead
  <2>2. CASE PushWaits(p)
    <3>1. pc[p] = "blkflush" /\ pc'[p] = "blkflush"
      BY <1>1, <2>2 DEF PushWaits, Runs, SleepOn, TypeOK
    <3> QED
      BY <1>1, <1>5, <3>1 DEF AsksOf, Searching, ForReadAhead
  <2>3. CASE TakeHit(p)
    <3>1. pc[p] = "hit" /\ pc'[p] = "got" /\ cand' = cand
      BY <1>1, <2>3 DEF TakeHit, Runs, Goto, TypeOK
    <3>2. key[cand[p]] = want[p]
      BY <3>1 DEF HitsStayBound
    <3> QED
      BY <1>1, <1>5, <3>1, <3>2 DEF AsksOf, Searching, ForReadAhead
  <2>4. CASE SetAge(p)
    <3>1. \/ pc[p] = "aged" /\ pc'[p] = "getnew"
          \/ pc[p] = "written" /\ pc'[p] = "return"
      BY <1>1, <2>4 DEF SetAge, Runs, Goto, TypeOK
    <3> QED
      BY <1>1, <1>5, <3>1 DEF AsksOf, Searching, ForReadAhead
  <2> QED
    BY <2>1, <2>2, <2>3, <2>4
<1> QED
  BY <1>1, <1>2, <1>3, <1>4, <1>6, AllAsk

(* brelse, once the transfer is over, changes no block's value: after an   *)
(* error the buffer had none.                                              *)
LEMMA BrelseStore ==
    ASSUME IInv, DInv, DInv', NEW b \in Buf, b \notin QueueSet, NEW fl, Brelse(b, fl),
           \A f \in Kept : f \in fl <=> f \in flags[b], UNCHANGED <<data, ioq, disk>>
    PROVE  /\ StoreOf' = StoreOf /\ FailedSet' = FailedSet
           /\ \A c \in Buf \ {b} : Alike(c)
<1>1. TypeOK /\ NoBlk \notin Blk /\ QueueSet' = QueueSet
  BY DataAssumption DEF IInv, QueueSet
<1>2. /\ flags' = [flags EXCEPT ![b] = fl \ {"WANTED", "BUSY", "ASYNC", "AGE"}]
      /\ key' = IF "ERROR" \in fl THEN [key EXCEPT ![b] = NoBlk] ELSE key
  BY DEF Brelse
<1>3. \A c \in Buf \ {b} : flags'[c] = flags[c] /\ key'[c] = key[c]
  BY <1>1, <1>2 DEF TypeOK
<1>4. /\ \A f \in Kept : f \in flags'[b] <=> f \in flags[b]
      /\ "ERROR" \notin flags[b] => key'[b] = key[b]
  <2>1. flags'[b] = fl \ {"WANTED", "BUSY", "ASYNC", "AGE"}
    BY <1>1, <1>2 DEF TypeOK
  <2> QED
    BY <1>2, <2>1 DEF Kept
<1>5. \A c \in Buf \ {b} : Alike(c)
  BY <1>3 DEF Alike
<1>6. \A c \in Buf : \A f \in Kept : f \in flags'[c] <=> f \in flags[c]
  BY <1>3, <1>4
<1>7. \A c \in Buf : ("ERROR" \in flags'[c] <=> "ERROR" \in flags[c]) /\ ("DONE" \in flags'[c] <=> "DONE" \in flags[c])
                     /\ (IsRead(flags'[c]) <=> IsRead(flags[c]))
  BY <1>6 DEF Kept, IsRead
<1>8. \A c \in Buf : Holding(c)' <=> Holding(c)
  BY <1>1, <1>7 DEF Holding
<1>9. \A c \in Buf : Owes(c) \/ Owes(c)' => Owes(c) /\ Owes(c)' /\ key'[c] = key[c] /\ data'[c] = data[c]
  <2>1. \A c \in Buf : Holding(c) => key'[c] = key[c]
    BY <1>3, <1>4 DEF Holding
  <2> QED
    BY <1>8, <2>1 DEF Owes
<1>10. FailedSet' = FailedSet
  BY <1>7 DEF FailedSet
<1> QED
  BY <1>5, <1>9, <1>10, StoreSame

LEMMA ReleaseAsks ==
    ASSUME IInv, SInv, NEW p \in Proc, Tame,
           WriteDone(p) \/ PushWritten(p) \/ UseFailed(p) \/ UseRead(p) \/ UseScratch(p)
    PROVE  SInv' /\ StoreOf' = StoreOf /\ FailedSet' = FailedSet
<1>1. Step(p) /\ TypeOK /\ ControlOf(p) /\ AsksOf(p) /\ DInv
  BY DEF Step, IInv, Control, SInv
<1>2. DInv'
  BY <1>1, ReleaseClean
<1>3. pc[p] = "use" \/ (pc[p] \in {"wwait", "fwait"} /\ "DONE" \in flags[bp[p]])
  BY DEF WriteDone, PushWritten, UseFailed, UseRead, UseScratch, Runs
<1>4. PICK b \in Buf : b = bp[p] /\ b \notin QueueSet
  BY <1>3, InUse
<1>5. UNCHANGED <<data, ioq, disk, req, want>>
  BY DEF WriteDone, PushWritten, UseFailed, UseRead, UseScratch
<1>6. PICK fl : Brelse(b, fl) /\ fl \in {flags[b], flags[b] \cup {"AGE"}}
  <2>1. CASE WriteDone(p) \/ PushWritten(p) \/ UseFailed(p) \/ UseScratch(p)
    BY <1>4, <2>1 DEF WriteDone, PushWritten, UseFailed, UseScratch
  <2>2. CASE UseRead(p)
    BY <1>4, <2>2 DEF UseRead
  <2> QED
    BY <2>1, <2>2
<1>7. \A f \in Kept : f \in fl <=> f \in flags[b]
  BY <1>6 DEF Kept
<1>8. StoreOf' = StoreOf /\ FailedSet' = FailedSet /\ \A c \in Buf \ {b} : Alike(c)
  BY <1>1, <1>2, <1>4, <1>5, <1>6, <1>7, BrelseStore
<1>9. Touches(p, b)
  <2>1. Holds(p, b)
    BY <1>4 DEF Holds
  <2> QED
    BY <1>8, <2>1, MineOrFree DEF Touches
<1>10. AsksOf(p)'
  <2>1. bp'[p] = NoBuf
    BY <1>1 DEF WriteDone, PushWritten, UseFailed, UseRead, UseScratch, TypeOK
  <2>2. CASE PushWritten(p)
    <3>1. pc[p] = "fwait" /\ pc'[p] = "blkflush" /\ reply' = reply
      BY <1>1, <2>2 DEF PushWritten, Runs, Goto, TypeOK
    <3> QED
      BY <1>1, <2>1, <3>1, PoolAssumption DEF AsksOf, Searching
  <2>3. CASE ~PushWritten(p)
    <3>1. pc'[p] = "return"
      BY <1>1, <2>3 DEF WriteDone, UseFailed, UseRead, UseScratch, Goto, TypeOK
    <3> QED
      BY <2>1, <3>1, PoolAssumption DEF AsksOf, Searching
  <2> QED
    BY <2>2, <2>3
<1> QED
  BY <1>1, <1>2, <1>8, <1>9, <1>10, AllAsk

(* writei: the block takes the new value at once. *)
LEMMA WriteAsks ==
    ASSUME IInv, SInv, NEW p \in Proc, Tame, WriteDelayed(p) \/ WriteAsync(p) \/ WriteSync(p)
    PROVE  /\ SInv' /\ FailedSet' = FailedSet
           /\ StoreOf' = [StoreOf EXCEPT ![req[p].blk] = req[p].val]
           /\ req[p].op \in {"write", "update"} /\ pc[p] = "use"
<1>1. Step(p) /\ TypeOK /\ ControlOf(p) /\ AsksOf(p) /\ DInv /\ Lists
  BY DEF Step, IInv, Control, SInv
<1>2. DInv'
  BY <1>1, ReleaseClean, SubmitClean
<1>3. pc[p] = "use" /\ req[p].op \in {"write", "update"} /\ key[bp[p]] # NoBlk
      /\ (req[p].op = "update" => "ERROR" \notin flags[bp[p]])
  BY DEF WriteDelayed, WriteAsync, WriteSync, Writes, Runs
<1>4. PICK b \in Buf : b = bp[p] /\ b \notin QueueSet /\ "ERROR" \notin flags[b] /\ req[p].blk \in Blk
  BY <1>3, InUse
<1>5. PICK k \in Blk : k = req[p].blk /\ key[b] = k
  BY <1>1, <1>3, <1>4 DEF AsksOf
<1>6. /\ data'[b] = req[p].val /\ \A c \in Buf \ {b} : data'[c] = data[c]
      /\ UNCHANGED <<disk, req, want, reply>>
  BY <1>1, <1>4 DEF WriteDelayed, WriteAsync, WriteSync, CopyIn, TypeOK
<1>7. /\ \A c \in Buf \ {b} : flags'[c] = flags[c]
      /\ key' = key /\ "ERROR" \notin flags'[b]
      /\ Holding(b)' /\ \A c \in Buf \ {b} : c \in QueueSet' <=> c \in QueueSet
  <2>1. CASE WriteDelayed(p)
    <3>1. Brelse(b, flags[b] \cup {"DELWRI", "DONE"}) /\ QueueSet' = QueueSet
      BY <1>4, <2>1 DEF WriteDelayed, QueueSet
    <3>2. flags' = [flags EXCEPT ![b] = (flags[b] \cup {"DELWRI", "DONE"}) \ {"WANTED", "BUSY", "ASYNC", "AGE"}]
          /\ key' = key
      BY <1>4, <3>1 DEF Brelse
    <3> QED
      BY <1>1, <1>4, <3>1, <3>2 DEF Holding, TypeOK
  <2>2. CASE WriteAsync(p) \/ WriteSync(p)
    <3>1. PICK fl : /\ Strategy(b, fl) /\ "ERROR" \notin fl /\ "READ" \notin fl
      <4>1. CASE WriteAsync(p)
        BY <1>4, <4>1 DEF WriteAsync, BwriteFlags
      <4>2. CASE WriteSync(p)
        BY <1>4, <4>2 DEF WriteSync, BwriteFlags
      <4> QED
        BY <2>2, <4>1, <4>2
    <3>2. QueueSet' = QueueSet \cup {b}
      BY <1>1, <1>4, <3>1, StrategyLists
    <3>3. flags' = [flags EXCEPT ![b] = fl] /\ key' = key
      BY <2>2, <3>1 DEF Strategy, WriteAsync, WriteSync
    <3> QED
      BY <1>1, <3>1, <3>2, <3>3 DEF Holding, IsRead, TypeOK
  <2> QED
    BY <2>1, <2>2
<1>8. \A c \in Buf \ {b} : Alike(c) /\ (Holding(c)' <=> Holding(c))
  BY <1>6, <1>7 DEF Alike, Holding
<1>9. StoreOf' = [StoreOf EXCEPT ![k] = req[p].val]
  <2>1. \A c \in Buf \ {b} : key'[c] = key[c] /\ data'[c] = data[c] /\ (Holding(c)' <=> Holding(c))
    BY <1>6, <1>7, <1>8
  <2>2. key'[b] \in {k, NoBlk} /\ \A j \in Blk \ {k} : disk'[j] = disk[j]
    BY <1>5, <1>6, <1>7
  <2>3. StoreOf' = [StoreOf EXCEPT ![k] = IF key'[b] = k /\ Holding(b)' THEN data'[b] ELSE disk'[k]]
    BY <1>1, <1>2, <1>5, <2>1, <2>2, StorePoint
  <2>4. (IF key'[b] = k /\ Holding(b)' THEN data'[b] ELSE disk'[k]) = req[p].val
    BY <1>5, <1>6, <1>7
  <2> QED
    BY <2>3, <2>4
<1>10. FailedSet' = FailedSet
  BY <1>4, <1>7 DEF FailedSet
<1>11. Touches(p, b)
  <2>1. Holds(p, b)
    BY <1>4 DEF Holds
  <2> QED
    BY <1>8, <2>1, MineOrFree DEF Touches
<1>12. AsksOf(p)'
  <2>1. CASE WriteDelayed(p)
    <3>1. pc'[p] = "return" /\ bp'[p] = NoBuf
      BY <1>1, <2>1 DEF WriteDelayed, Goto, TypeOK
    <3> QED
      BY <3>1, PoolAssumption DEF AsksOf, Searching
  <2>2. CASE WriteAsync(p)
    <3>1. pc'[p] \in {"written", "return"} /\ bp'[p] = NoBuf
      BY <1>1, <2>2 DEF WriteAsync, Goto, TypeOK
    <3> QED
      BY <3>1, PoolAssumption DEF AsksOf, Searching
  <2>3. CASE WriteSync(p)
    <3>1. pc'[p] = "wwait" /\ bp' = bp /\ flags' = [flags EXCEPT ![b] = BwriteFlags(flags[b])]
      BY <1>1, <1>4, <2>3 DEF WriteSync, Goto, Strategy, TypeOK
    <3>2. "DELWRI" \notin flags'[b]
      BY <1>1, <3>1 DEF BwriteFlags, TypeOK
    <3> QED
      BY <1>1, <1>3, <1>4, <1>5, <1>6, <1>7, <3>1, <3>2 DEF AsksOf, Searching
  <2> QED
    BY <2>1, <2>2, <2>3
<1> QED
  BY <1>1, <1>2, <1>3, <1>5, <1>9, <1>10, <1>11, <1>12, AllAsk

(* Giving a buffer to the driver changes no block's value. *)
LEMMA StrategyStore ==
    ASSUME IInv, DInv, DInv', NEW b \in Buf, b \notin QueueSet, NEW fl, Strategy(b, fl),
           UNCHANGED <<key, data, disk>>,
           "ERROR" \in fl <=> "ERROR" \in flags[b], "DONE" \notin fl,
           Holding(b) <=> "ERROR" \notin fl /\ ~IsRead(fl)
    PROVE  /\ StoreOf' = StoreOf /\ FailedSet' = FailedSet
           /\ \A c \in Buf \ {b} : Alike(c)
<1>1. TypeOK /\ Lists
  BY DEF IInv
<1>2. flags'[b] = fl /\ \A c \in Buf \ {b} : flags'[c] = flags[c]
  BY <1>1 DEF Strategy, TypeOK
<1>3. QueueSet' = QueueSet \cup {b}
  BY <1>1, StrategyLists
<1>4. \A c \in Buf : Holding(c)' <=> Holding(c)
  BY <1>2, <1>3 DEF Holding
<1>5. \A c \in Buf : Owes(c) \/ Owes(c)' => Owes(c) /\ Owes(c)' /\ key'[c] = key[c] /\ data'[c] = data[c]
  BY <1>4 DEF Owes
<1>6. \A c \in Buf : "ERROR" \in flags'[c] <=> "ERROR" \in flags[c]
  BY <1>2
<1>7. FailedSet' = FailedSet
  BY <1>6 DEF FailedSet
<1> QED
  BY <1>2, <1>5, <1>7, StoreSame DEF Alike

(* The cache starts to write a dirty buffer that nobody has. *)
LEMMA EvictAsks ==
    ASSUME IInv, SInv, NEW p \in Proc, Tame, Evict(p) \/ FlushOne(p) \/ PushWrites(p)
    PROVE  SInv' /\ StoreOf' = StoreOf /\ FailedSet' = FailedSet
<1>1. Step(p) /\ TypeOK /\ ControlOf(p) /\ AsksOf(p) /\ DInv /\ Lists
  BY DEF Step, IInv, Control, SInv
<1>2. DInv'
  BY <1>1, SubmitClean
<1>3. UNCHANGED <<key, data, disk, req, want, reply>>
  BY ZenonT(60) DEF Evict, FlushOne, PushWrites
<1>4. PICK b \in FreeSet : /\ b \in Buf /\ "DELWRI" \in flags[b]
                           /\ \E fl : Strategy(b, fl) /\ {"ERROR", "DONE", "READ"} \cap fl = {}
  <2>1. CASE Evict(p)
    <3>1. Oldest \in Buf /\ Oldest \in FreeSet /\ "DELWRI" \in flags[Oldest]
      BY <1>1, <2>1, OldestIsFree DEF Evict
    <3>2. Strategy(Oldest, BwriteFlags(flags[Oldest] \cup {"BUSY", "ASYNC"}))
      BY <2>1 DEF Evict
    <3>3. {"ERROR", "DONE", "READ"} \cap BwriteFlags(flags[Oldest] \cup {"BUSY", "ASYNC"}) = {}
      BY DEF BwriteFlags
    <3> QED
      BY <3>1, <3>2, <3>3
  <2>2. CASE FlushOne(p)
    <3>1. PICK b \in FreeSet : /\ b \in Buf /\ "DELWRI" \in flags[b]
                               /\ Strategy(b, BwriteFlags(flags[b] \cup {"BUSY", "ASYNC"}) \cup {"AGE"})
      BY <2>2, FlushFinds
    <3>2. {"ERROR", "DONE", "READ"} \cap (BwriteFlags(flags[b] \cup {"BUSY", "ASYNC"}) \cup {"AGE"}) = {}
      BY DEF BwriteFlags
    <3> QED
      BY <3>1, <3>2
  <2>3. CASE PushWrites(p)
    <3>1. PICK b \in Buf : /\ "BUSY" \notin flags[b] /\ "DELWRI" \in flags[b]
                           /\ Strategy(b, BwriteFlags(flags[b] \cup {"BUSY"}))
      BY <2>3 DEF PushWrites, Hits
    <3>2. b \in FreeSet
      BY <3>1 DEF IInv, Owners, OwnersOf
    <3>3. {"ERROR", "DONE", "READ"} \cap BwriteFlags(flags[b] \cup {"BUSY"}) = {}
      BY DEF BwriteFlags
    <3> QED
      BY <3>1, <3>2, <3>3
  <2> QED
    BY <2>1, <2>2, <2>3
<1>5. PICK fl : Strategy(b, fl) /\ {"ERROR", "DONE", "READ"} \cap fl = {}
  BY <1>4
<1>6. b \notin QueueSet /\ "DONE" \in flags[b] /\ "ERROR" \notin flags[b]
  BY <1>4, NotHeld DEF KeysOf
<1>7. StoreOf' = StoreOf /\ FailedSet' = FailedSet /\ \A c \in Buf \ {b} : Alike(c)
  <2>1. "DONE" \notin fl /\ "ERROR" \notin fl /\ ~IsRead(fl) /\ Holding(b)
    BY <1>5, <1>6 DEF Holding, IsRead
  <2> QED
    BY <1>1, <1>2, <1>3, <1>4, <1>5, <1>6, <2>1, StrategyStore
<1>8. Touches(p, b)
  BY <1>4, <1>7, MineOrFree DEF Touches
<1>9. AsksOf(p)'
  <2>1. CASE Evict(p)
    <3>1. pc[p] = "getnew" /\ pc'[p] = "aged" /\ bp' = bp
      BY <1>1, <2>1 DEF Evict, Runs, Goto, TypeOK
    <3> QED
      BY <1>1, <1>3, <3>1 DEF AsksOf, Searching, ForReadAhead
  <2>2. CASE FlushOne(p)
    <3>1. pc[p] = "flush" /\ pc'[p] = "flush" /\ bp' = bp
      BY ZenonT(60), <1>1, <2>2 DEF FlushOne, Runs, Goto, TypeOK
    <3> QED
      BY <1>1, <1>3, <3>1 DEF AsksOf, Searching, ForReadAhead
  <2>3. CASE PushWrites(p)
    <3>1. pc[p] = "blkflush" /\ pc'[p] = "fwait"
      BY <1>1, <2>3 DEF PushWrites, Runs, Goto, TypeOK
    <3> QED
      BY <1>1, <1>3, <3>1 DEF AsksOf, Searching, ForReadAhead
  <2> QED
    BY <2>1, <2>2, <2>3
<1> QED
  BY <1>1, <1>2, <1>7, <1>8, <1>9, AllAsk

(* bread and breada start a read, or breada finds the block there. *)
LEMMA ReadAsks ==
    ASSUME IInv, SInv, NEW p \in Proc, Tame, GotToRead(p) \/ GotAhead(p)
    PROVE  SInv' /\ StoreOf' = StoreOf /\ FailedSet' = FailedSet
<1>1. Step(p) /\ TypeOK /\ ControlOf(p) /\ LocalKeysOf(p) /\ AsksOf(p) /\ DInv /\ Lists
  BY DEF Step, IInv, Control, Keys, SInv
<1>2. DInv'
  BY <1>1, SubmitClean, GotAheadClean
<1>3. pc[p] = "got" /\ UNCHANGED <<data, disk, req, want, reply>>
  BY DEF GotToRead, GotAhead, Runs
<1>4. PICK b \in Buf : b = cand[p] /\ b \notin QueueSet /\ KeysOf(b) /\ bp[p] # b
  BY <1>1, <1>3 DEF ControlOf, LocalKeysOf, IInv, Keys
<1>5. StoreOf' = StoreOf /\ FailedSet' = FailedSet /\ \A c \in Buf \ {b} : Alike(c)
  <2>1. CASE GotAhead(p) /\ "DONE" \in flags[b]
    <3>1. Brelse(b, flags[b]) /\ ioq' = ioq
      BY <1>4, <2>1 DEF GotAhead
    <3> QED
      BY <1>1, <1>2, <1>3, <1>4, <3>1, BrelseStore
  <2>2. CASE ~(GotAhead(p) /\ "DONE" \in flags[b])
    <3>1. PICK fl : Strategy(b, fl) /\ fl \in {flags[b] \cup {"READ"}, flags[b] \cup {"READ", "ASYNC"}}
      BY <1>4, <2>2 DEF GotToRead, GotAhead
    <3>2. "DONE" \notin flags[b] /\ key' = key
      BY <1>4, <2>2 DEF GotToRead, GotAhead
    <3>3. "DONE" \notin fl /\ ("ERROR" \in fl <=> "ERROR" \in flags[b]) /\ IsRead(fl)
      BY <3>1, <3>2 DEF IsRead
    <3>4. ~Holding(b)
      BY <1>4, <3>2 DEF Holding
    <3> QED
      BY <1>1, <1>2, <1>3, <1>4, <3>1, <3>2, <3>3, <3>4, StrategyStore
  <2> QED
    BY <2>1, <2>2
<1>6. Touches(p, b)
  <2>1. Holds(p, b)
    BY <1>3, <1>4 DEF Holds
  <2> QED
    BY <1>5, <2>1, MineOrFree DEF Touches
<1>7. AsksOf(p)'
  <2>1. CASE GotToRead(p)
    <3>1. /\ pc'[p] \in {"ra", "biowait"} /\ bp'[p] = cand[p] /\ key' = key
          /\ ~ForReadAhead(p) /\ req[p].op # "scratch"
      BY <1>1, <2>1 DEF GotToRead, Goto, TypeOK
    <3>2. key[cand[p]] = req[p].blk
      BY <1>1, <1>3, <3>1 DEF AsksOf, Searching
    <3> QED
      BY <1>1, <1>3, <3>1, <3>2 DEF AsksOf, Searching
  <2>2. CASE GotAhead(p)
    <3>1. pc'[p] = "reap" /\ bp' = bp
      BY <1>1, <2>2 DEF GotAhead, Goto, TypeOK
    <3>2. bp[p] \in Buf => key'[bp[p]] = key[bp[p]]
      BY <1>4, <1>5 DEF Alike
    <3> QED
      BY <1>1, <1>3, <3>1, <3>2 DEF AsksOf, Searching
  <2> QED
    BY <2>1, <2>2
<1> QED
  BY <1>1, <1>2, <1>5, <1>6, <1>7, AllAsk

(* A clean buffer goes to another block: it owed the old one nothing and   *)
(* has nothing of the new one yet.                                         *)
LEMMA ReassignAsks ==
    ASSUME IInv, SInv, NEW p \in Proc, Tame, Reassign(p)
    PROVE  /\ SInv' /\ StoreOf' = StoreOf
           /\ \/ FailedSet' = FailedSet
              \/ \E x \in FailedSet : FailedSet' = FailedSet \ {x}
<1>1. Step(p) /\ TypeOK /\ ControlOf(p) /\ AsksOf(p) /\ DInv /\ Lists
  BY DEF Step, IInv, Control, SInv
<1>2. DInv'
  BY <1>1, ReassignClean
<1>3. PICK x \in Buf : x = Oldest /\ x \in FreeSet /\ "DELWRI" \notin flags[x]
  BY <1>1, OldestIsFree DEF Reassign
<1>4. x \notin QueueSet
  BY <1>3, NotHeld
<1>5. /\ \A b \in Buf \ {x} : flags'[b] = flags[b] /\ key'[b] = key[b]
      /\ flags'[x] \in SUBSET {"BUSY", "INVAL"}
      /\ req[p].op # "scratch" => key'[x] = want[p]
      /\ cand'[p] = x
      /\ UNCHANGED <<data, disk, ioq, req, want, bp, reply>>
  BY <1>1, <1>3 DEF Reassign, TypeOK
<1>6. QueueSet' = QueueSet
  BY <1>5 DEF QueueSet
<1>7. ~Owes(x) /\ ~Owes(x)'
  <2>1. ~Owes(x)
    BY <1>1, <1>3, <1>4 DEF Owes, Holding, DInv, Clean, Agrees
  <2>2. ~Holding(x)'
    BY <1>4, <1>5, <1>6 DEF Holding
  <2> QED
    BY <2>1, <2>2 DEF Owes
<1>8. \A b \in Buf \ {x} : Alike(b) /\ (Owes(b)' <=> Owes(b))
  BY <1>5, <1>6 DEF Alike, Owes, Holding
<1>9. StoreOf' = StoreOf
  <2>1. \A b \in Buf : Owes(b) \/ Owes(b)' => Owes(b) /\ Owes(b)' /\ key'[b] = key[b] /\ data'[b] = data[b]
    BY <1>5, <1>7, <1>8
  <2> QED
    BY <1>1, <1>2, <1>5, <2>1, StoreSame
<1>10. FailedSet' = FailedSet \ {x}
  BY <1>5 DEF FailedSet
<1>11. Touches(p, x)
  BY <1>3, <1>8, MineOrFree DEF Touches
<1>12. AsksOf(p)'
  <2>1. pc[p] = "getnew" /\ pc'[p] = "got"
    BY <1>1 DEF Reassign, Runs, Goto, TypeOK
  <2>2. bp[p] \in Buf => key'[bp[p]] = key[bp[p]]
    <3>1. ~Holds(p, x)
      BY <1>3, NotHeld
    <3> QED
      BY <1>5, <3>1 DEF Holds
  <2> QED
    BY <1>1, <1>5, <2>1, <2>2 DEF AsksOf, Searching, ForReadAhead
<1> QED
  BY <1>1, <1>2, <1>9, <1>10, <1>11, <1>12, AllAsk

(* The transfer that ends concerns the block of its buffer alone. *)
LEMMA InterruptAsks ==
    ASSUME IInv, SInv, ioq # <<>>, ioq' = Tail(ioq), DInv', UNCHANGED <<pc, req, want, cand, bp, reply>>,
           NEW x \in Buf, x = Head(ioq), NEW fl, fl \in {flags[x], flags[x] \cup {"ERROR"}}, Biodone(x, fl),
           \A b \in Buf \ {x} : data'[b] = data[b],
           \A j \in Blk \ {key[x]} : disk'[j] = disk[j]
    PROVE  /\ SInv' /\ x \notin FailedSet
           /\ FailedSet' = IF "ERROR" \in fl THEN FailedSet \cup {x} ELSE FailedSet
           /\ key[x] \in Blk
           /\ StoreOf[key[x]] = IF IsRead(flags[x]) THEN disk[key[x]] ELSE data[x]
           /\ StoreOf' = [StoreOf EXCEPT ![key[x]] = IF "ERROR" \in fl THEN disk'[key[x]] ELSE data'[x]]
<1>1. TypeOK /\ Lists /\ NoBlk \notin Blk /\ DInv
  BY DataAssumption DEF IInv, SInv
<1>2. x \in QueueSet /\ QueueSet' = QueueSet \ {x}
  BY <1>1, InterruptLists
<1>3. PICK k \in Blk : k = key[x]
  BY <1>2 DEF IInv, Keys, KeysOf
<1>4. "DONE" \notin flags[x] /\ "ERROR" \notin flags[x]
  BY <1>2 DEF IInv, Keys, KeysOf, Owners, OwnersOf
<1>5. \A b \in Buf \ {x} : flags'[b] = flags[b] /\ key'[b] = key[b]
  BY <1>1 DEF Biodone, Brelse, TypeOK
<1>6. /\ "DONE" \in flags'[x] /\ ("ERROR" \in flags'[x] <=> "ERROR" \in fl)
      /\ "DELWRI" \in flags'[x] => "DELWRI" \in flags[x]
      /\ key'[x] \in {k, NoBlk} /\ ("ERROR" \notin fl => key'[x] = k)
      /\ "ASYNC" \notin flags[x] => key'[x] = k
  <2>1. CASE "ASYNC" \in fl
    <3>1. flags' = [flags EXCEPT ![x] = (fl \cup {"DONE"}) \ {"WANTED", "BUSY", "ASYNC", "AGE"}]
          /\ key' = IF "ERROR" \in fl THEN [key EXCEPT ![x] = NoBlk] ELSE key
      BY <2>1 DEF Biodone, Brelse
    <3>2. flags'[x] = (fl \cup {"DONE"}) \ {"WANTED", "BUSY", "ASYNC", "AGE"}
      BY <1>1, <3>1 DEF TypeOK
    <3> QED
      BY <1>1, <1>3, <2>1, <3>1, <3>2 DEF TypeOK
  <2>2. CASE "ASYNC" \notin fl
    <3>1. flags' = [flags EXCEPT ![x] = (fl \cup {"DONE"}) \ {"WANTED"}] /\ key' = key
      BY <2>2 DEF Biodone
    <3>2. flags'[x] = (fl \cup {"DONE"}) \ {"WANTED"}
      BY <1>1, <3>1 DEF TypeOK
    <3> QED
      BY <1>1, <1>3, <2>2, <3>1, <3>2
  <2> QED
    BY <2>1, <2>2
<1>7. ASSUME NEW q \in Proc PROVE AsksOf(q)'
  <2>1. Holds(q, x) => "ASYNC" \notin flags[x]
    BY DEF IInv, Owners, OwnersOf
  <2>2. \A b \in Buf : Holds(q, b) =>
            /\ key'[b] = key[b]
            /\ "DONE" \in flags[b] => "DONE" \in flags'[b]
            /\ "DELWRI" \in flags'[b] => "DELWRI" \in flags[b]
    BY <1>3, <1>5, <1>6, <2>1
  <2> QED
    BY <2>2, AsksStill
<1>8. FailedSet' = (IF "ERROR" \in fl THEN FailedSet \cup {x} ELSE FailedSet) /\ x \notin FailedSet
  BY <1>4, <1>5, <1>6 DEF FailedSet
<1>9. StoreOf[k] = IF IsRead(flags[x]) THEN disk[k] ELSE data[x]
  <2>1. Holding(x) <=> ~IsRead(flags[x])
    BY <1>2, <1>4 DEF Holding
  <2> QED
    BY <1>1, <1>3, <2>1, StoreAt
<1>10. StoreOf' = [StoreOf EXCEPT ![k] = IF "ERROR" \in fl THEN disk'[k] ELSE data'[x]]
  <2>1. \A b \in Buf \ {x} : key'[b] = key[b] /\ data'[b] = data[b] /\ (Holding(b)' <=> Holding(b))
    BY <1>2, <1>5 DEF Holding
  <2>2. key'[x] = k /\ Holding(x)' <=> "ERROR" \notin fl
    BY <1>6 DEF Holding
  <2>3. StoreOf' = [StoreOf EXCEPT ![k] = IF key'[x] = k /\ Holding(x)' THEN data'[x] ELSE disk'[k]]
    BY <1>1, <1>3, <1>6, <2>1, StorePoint
  <2> QED
    BY <2>2, <2>3
<1> QED
  BY <1>3, <1>7, <1>8, <1>9, <1>10 DEF SInv

(* Nothing is asked anew. *)
LEMMA SameAsked == ASSUME req' = req PROVE Writing' = Writing
BY DEF Writing

LEMMA StoreRange == StoreOf = [j \in Blk |-> StoreOf[j]]
BY DEF StoreOf

LEMMA StoreStutter ==
    ASSUME StoreOf' = StoreOf, disk' = disk, Writing' = Writing, reply' = reply, FailedSet' = FailedSet
    PROVE  UNCHANGED Store!vars
BY DEF Store!vars, FailedSet

LEMMA DiskStore ==
    ASSUME IInv, SInv, Tame, DiskDone \/ DiskError
    PROVE  SInv' /\ (Store!Next \/ UNCHANGED Store!vars)
<1>1. TypeOK /\ Lists /\ ioq # <<>> /\ ioq' = Tail(ioq) /\ DInv
  BY DEF IInv, SInv, DiskDone, DiskError
<1>2. PICK x \in Buf : x = Head(ioq)
  BY <1>1, InterruptLists
<1>3. UNCHANGED <<pc, req, want, cand, bp, reply>> /\ Writing' = Writing
  BY SameAsked DEF DiskDone, DiskError
<1>4. DInv'
  BY <1>1, DiskClean
<1>5. CASE DiskDone
  <2>1. Biodone(x, flags[x])
    BY <1>2, <1>5 DEF DiskDone
  <2>2. \/ IsRead(flags[x]) /\ data' = [data EXCEPT ![x] = disk[key[x]]] /\ disk' = disk
        \/ ~IsRead(flags[x]) /\ disk' = [disk EXCEPT ![key[x]] = data[x]] /\ data' = data
    BY <1>2, <1>5 DEF DiskDone
  <2>3. /\ \A b \in Buf \ {x} : data'[b] = data[b]
        /\ \A j \in Blk \ {key[x]} : disk'[j] = disk[j]
    BY <1>1, <2>2 DEF TypeOK
  <2>4. "ERROR" \notin flags[x]
    <3>1. x \in QueueSet
      BY <1>1, <1>2, InterruptLists
    <3> QED
      BY <3>1 DEF IInv, Keys, KeysOf, Owners, OwnersOf
  <2>5. /\ SInv' /\ FailedSet' = FailedSet /\ key[x] \in Blk
        /\ StoreOf[key[x]] = IF IsRead(flags[x]) THEN disk[key[x]] ELSE data[x]
        /\ StoreOf' = [StoreOf EXCEPT ![key[x]] = data'[x]]
    BY <1>1, <1>2, <1>3, <1>4, <2>1, <2>3, <2>4, InterruptAsks
  <2>6. data'[x] = StoreOf[key[x]]
    BY <1>1, <2>2, <2>5 DEF TypeOK
  <2>7. StoreOf' = StoreOf
    BY <2>5, <2>6, StoreRange
  <2>8. CASE IsRead(flags[x])
    <3>1. disk' = disk
      BY <2>2, <2>8
    <3> QED
      BY <1>3, <2>5, <2>7, <3>1, StoreStutter
  <2>9. CASE ~IsRead(flags[x])
    <3>1. disk' = [disk EXCEPT ![key[x]] = StoreOf[key[x]]]
      BY <2>2, <2>5, <2>9
    <3>2. Store!Flush(key[x])
      BY <1>3, <2>5, <2>7, <3>1 DEF Store!Flush, FailedSet
    <3> QED
      BY <2>5, <3>2 DEF Store!Next
  <2> QED
    BY <2>8, <2>9
<1>6. CASE DiskError
  <2>1. Biodone(x, flags[x] \cup {"ERROR"}) /\ UNCHANGED <<data, disk>>
    BY <1>2, <1>6 DEF DiskError
  <2>2. "ERROR" \in flags[x] \cup {"ERROR"}
    OBVIOUS
  <2>3. /\ SInv' /\ x \notin FailedSet /\ FailedSet' = FailedSet \cup {x} /\ key[x] \in Blk
        /\ StoreOf' = [StoreOf EXCEPT ![key[x]] = disk'[key[x]]]
    BY <1>1, <1>2, <1>3, <1>4, <2>1, <2>2, InterruptAsks
  <2>4. \E s \in Buf, b \in Blk : Store!Fail(s, b)
    <3>1. PICK k \in Blk : k = key[x]
      BY <2>3
    <3>2. Store!Fail(x, k)
      BY <1>3, <2>1, <2>3, <3>1 DEF Store!Fail, FailedSet
    <3> QED
      BY <3>2
  <2> QED
    BY <2>3, <2>4 DEF Store!Next
<1> QED
  BY <1>1, <1>5, <1>6

LEMMA StoreAlone ==
    ASSUME UNCHANGED <<flags, key, data, ioq, disk>>
    PROVE  StoreOf' = StoreOf /\ FailedSet' = FailedSet
BY DEF StoreOf, Current, Hits, Queued, FailedSet

LEMMA StartStore ==
    ASSUME IInv, SInv, NEW p \in Proc, Start(p), Tame
    PROVE  SInv' /\ (Store!Next \/ UNCHANGED Store!vars)
<1>1. SInv' /\ TypeOK /\ AsksOf(p)
  BY StartAsks DEF IInv, SInv
<1>2. pc[p] = "user" /\ UNCHANGED <<flags, key, data, ioq, disk, reply>>
  BY DEF Start, Runs, pool
<1>3. StoreOf' = StoreOf /\ FailedSet' = FailedSet
  BY <1>2, StoreAlone
<1>4. req[p] = NoReq /\ reply[p] = NoReply
  BY <1>1, <1>2 DEF AsksOf
<1>5. PICK r \in Requests : req' = [req EXCEPT ![p] = r]
  BY DEF Start
<1>6. r # NoReq /\ r \in Request
  BY RequestAssumption
<1>7. \A q \in Proc \ {p} : Writing'[q] = Writing[q]
  BY <1>1, <1>5 DEF Writing, TypeOK
<1>8. Writing[p] = NoReply
  BY <1>4 DEF Writing
<1>9. Writing'[p] = IF r.op \in {"write", "update"} THEN [blk |-> r.blk, val |-> r.val] ELSE NoReply
  BY <1>1, <1>5, <1>6 DEF Writing, TypeOK
<1>10. CASE r.op \in {"write", "update"}
  <2>1. PICK k \in Blk, v \in Val : k = r.blk /\ v = r.val
    BY <1>6, <1>10, RequestAssumption DEF Request
  <2>2. Writing' = [Writing EXCEPT ![p] = [blk |-> k, val |-> v]]
    BY <1>7, <1>9, <1>10, <2>1 DEF Writing
  <2>3. Store!Ask(p)
    BY <1>2, <1>3, <1>4, <1>8, <2>2 DEF Store!Ask, FailedSet
  <2> QED
    BY <1>1, <2>3 DEF Store!Next
<1>11. CASE r.op \notin {"write", "update"}
  <2>1. Writing' = Writing
    BY <1>7, <1>8, <1>9, <1>11 DEF Writing
  <2> QED
    BY <1>1, <1>2, <1>3, <2>1, StoreStutter
<1> QED
  BY <1>10, <1>11

LEMMA QuietStore ==
    ASSUME IInv, SInv, HitsStayBound, NEW p \in Proc, Tame,
           \/ Incore(p) \/ ReadAhead(p) \/ Reap(p) \/ Scan(p) \/ GotReady(p) \/ SleepIO(p) \/ ReadDone(p)
           \/ UseWild(p) \/ FlushDone(p) \/ PushDone(p) \/ Return(p)
    PROVE  SInv' /\ (Store!Next \/ UNCHANGED Store!vars)
<1>1. SInv' /\ ~UseWild(p) /\ TypeOK /\ ControlOf(p)
  BY QuietAsks DEF IInv, Control
<1>2. UNCHANGED <<flags, key, data, ioq, disk>>
  BY DEF Incore, ReadAhead, Reap, Scan, GotReady, SleepIO, ReadDone, UseWild, FlushDone, PushDone, Return, pool
<1>3. StoreOf' = StoreOf /\ FailedSet' = FailedSet
  BY <1>2, StoreAlone
<1>4. CASE Return(p)
  <2>1. req' = [req EXCEPT ![p] = NoReq] /\ reply' = [reply EXCEPT ![p] = NoReply]
    BY <1>4 DEF Return
  <2>2. Writing' = [Writing EXCEPT ![p] = NoReply]
    <3>1. \A q \in Proc \ {p} : Writing'[q] = Writing[q]
      BY <1>1, <2>1 DEF Writing, TypeOK
    <3>2. Writing'[p] = NoReply
      BY <1>1, <2>1 DEF Writing, TypeOK
    <3> QED
      BY <3>1, <3>2 DEF Writing
  <2>3. Store!Collect(p)
    BY <1>2, <1>3, <2>1, <2>2 DEF Store!Collect, FailedSet
  <2> QED
    BY <1>1, <2>3 DEF Store!Next
<1>5. CASE Reap(p)
  <2>1. reply' = reply /\ pc[p] = "reap"
    BY <1>5 DEF Reap, Runs
  <2>2. Writing' = Writing
    <3>1. CASE req' = req
      BY <3>1, SameAsked
    <3>2. CASE req' = [req EXCEPT ![p].op = "read"]
      <4>1. \A q \in Proc \ {p} : Writing'[q] = Writing[q]
        BY <1>1, <3>2 DEF Writing, TypeOK
      <4>2. req[p].op = "reada" /\ req[p] \in Request
        BY <1>1, <2>1 DEF ControlOf, Asked
      <4>3. req'[p].op = "read"
        BY <1>1, <3>2, <4>2 DEF TypeOK, Request
      <4>4. Writing'[p] = NoReply /\ Writing[p] = NoReply
        BY <4>2, <4>3 DEF Writing
      <4> QED
        BY <4>1, <4>4 DEF Writing
    <3> QED
      BY <1>5, <3>1, <3>2 DEF Reap
  <2> QED
    BY <1>1, <1>2, <1>3, <2>1, <2>2, StoreStutter
<1>6. CASE ~Return(p) /\ ~Reap(p)
  <2>1. reply' = reply /\ req' = req
    BY <1>1, <1>6 DEF Incore, ReadAhead, Scan, GotReady, SleepIO, ReadDone, FlushDone, PushDone
  <2> QED
    BY <1>1, <1>2, <1>3, <2>1, SameAsked, StoreStutter
<1> QED
  BY <1>4, <1>5, <1>6

LEMMA ShadeStore ==
    ASSUME IInv, SInv, HitsStayBound, NEW p \in Proc, Tame,
           WaitHit(p) \/ PushWaits(p) \/ TakeHit(p) \/ SetAge(p)
    PROVE  SInv' /\ UNCHANGED Store!vars
<1>1. SInv' /\ \A b \in Buf : Alike(b)
  BY ShadeAsks
<1>2. UNCHANGED <<ioq, disk, req, reply>>
  BY DEF WaitHit, PushWaits, TakeHit, SetAge
<1>3. \A b \in Buf : /\ "ERROR" \in flags'[b] <=> "ERROR" \in flags[b]
                     /\ "DONE" \in flags'[b] <=> "DONE" \in flags[b]
                     /\ IsRead(flags'[b]) <=> IsRead(flags[b])
                     /\ key'[b] = key[b] /\ data'[b] = data[b]
  BY <1>1 DEF Alike, Kept, IsRead
<1>4. \A b \in Buf : Owes(b)' <=> Owes(b)
  BY <1>2, <1>3 DEF Owes, Holding, QueueSet
<1>5. StoreOf' = StoreOf
  <2>1. DInv /\ DInv'
    BY <1>1 DEF SInv
  <2> QED
    BY <1>2, <1>3, <1>4, <2>1, StoreSame
<1>6. FailedSet' = FailedSet
  BY <1>3 DEF FailedSet
<1> QED
  BY <1>1, <1>2, <1>5, <1>6, SameAsked, StoreStutter

(* The calls answer: a reader with the block's value, a writer with        *)
(* "synced" once the platter has it.                                       *)
LEMMA ReleaseStore ==
    ASSUME IInv, SInv, NEW p \in Proc, Tame,
           WriteDone(p) \/ PushWritten(p) \/ UseFailed(p) \/ UseRead(p) \/ UseScratch(p)
    PROVE  SInv' /\ (Store!Next \/ UNCHANGED Store!vars)
<1>1. SInv' /\ StoreOf' = StoreOf /\ FailedSet' = FailedSet
  BY ReleaseAsks
<1>2. TypeOK /\ ControlOf(p) /\ AsksOf(p) /\ DInv
  BY DEF IInv, Control, SInv
<1>3. disk' = disk /\ Writing' = Writing
  BY SameAsked DEF WriteDone, PushWritten, UseFailed, UseRead, UseScratch
<1>4. CASE PushWritten(p) \/ UseScratch(p)
  <2>1. reply' = reply
    BY <1>4 DEF PushWritten, UseScratch
  <2> QED
    BY <1>1, <1>3, <2>1, StoreStutter
<1>5. CASE WriteDone(p) \/ UseFailed(p) \/ UseRead(p)
  <2>1. /\ pc[p] \in {"use", "wwait"} /\ (pc[p] = "wwait" => "DONE" \in flags[bp[p]])
        /\ req[p].op \in {"read", "reada", "write", "update"}
    BY <1>2, <1>5 DEF WriteDone, UseFailed, UseRead, Runs, ControlOf
  <2>2. PICK b \in Buf : b = bp[p]
    BY <1>2, <2>1 DEF ControlOf
  <2>3. PICK k \in Blk : k = req[p].blk
    BY <1>2, <2>1 DEF ControlOf, Asked
  <2>4. key[b] = k /\ reply[p] = NoReply
    BY <1>2, <2>1, <2>2, <2>3 DEF AsksOf
  <2>5. StoreOf[k] = IF Holding(b) THEN data[b] ELSE disk[k]
    BY <1>2, <2>2, <2>3, <2>4, StoreAt
  <2>6. ASSUME Answer(p, "error") PROVE Store!Failed(p, k)
    <3>1. reply' = [reply EXCEPT ![p] = [blk |-> k, res |-> "error"]]
      BY <2>3, <2>6 DEF Answer
    <3> QED
      BY <1>1, <1>3, <2>4, <3>1 DEF Store!Failed, Store!Tell, FailedSet
  <2>7. CASE UseFailed(p)
    <3>1. Store!Failed(p, k)
      BY <2>6, <2>7 DEF UseFailed
    <3> QED
      BY <1>1, <3>1 DEF Store!Next
  <2>8. CASE UseRead(p)
    <3>1. pc[p] = "use" /\ req[p].op \in {"read", "reada"} /\ "ERROR" \notin flags[b]
          /\ reply' = [reply EXCEPT ![p] = [blk |-> k, res |-> data[b]]]
      BY <2>2, <2>3, <2>8 DEF UseRead, Runs, Answer
    <3>2. Holding(b)
      BY <1>2, <2>2, <3>1 DEF AsksOf, Holding
    <3>3. Writing[p] = NoReply
      BY <3>1 DEF Writing
    <3>4. Store!Read(p, k)
      BY <1>1, <1>3, <2>4, <2>5, <3>1, <3>2, <3>3 DEF Store!Read, Store!Tell, FailedSet
    <3> QED
      BY <1>1, <3>4 DEF Store!Next
  <2>9. CASE WriteDone(p)
    <3>1. pc[p] = "wwait" /\ req[p].op \in {"write", "update"} /\ req[p] \in Request
      BY <1>2, <2>9 DEF WriteDone, Runs, ControlOf, Asked
    <3>2. CASE "ERROR" \in flags[b]
      <4>1. Answer(p, "error")
        BY <2>2, <2>9, <3>2 DEF WriteDone, Outcome
      <4>2. Store!Failed(p, k)
        BY <2>6, <4>1
      <4> QED
        BY <1>1, <4>2 DEF Store!Next
    <3>3. CASE "ERROR" \notin flags[b]
      <4>1. reply' = [reply EXCEPT ![p] = [blk |-> k, res |-> "synced"]]
        BY <2>2, <2>3, <2>9, <3>3 DEF WriteDone, Outcome, Answer
      <4>2. disk[k] = StoreOf[k]
        <5>1. "DONE" \in flags[b] /\ "DELWRI" \notin flags[b]
          BY <1>2, <2>1, <2>2, <3>1 DEF AsksOf
        <5>2. Agrees(b) /\ Holding(b)
          BY <1>2, <2>4, <3>3, <5>1 DEF DInv, Clean, Holding
        <5> QED
          BY <2>4, <2>5, <3>3, <5>1, <5>2 DEF Agrees
      <4>3. Writing[p] # NoReply /\ Writing[p].blk = k
        <5>1. Writing[p] = [blk |-> k, val |-> req[p].val] /\ req[p].val \in Val
          BY <2>3, <3>1, RequestAssumption DEF Writing, Request
        <5> QED
          BY <5>1, DataAssumption
      <4>4. Store!Synced(p, k)
        BY <1>1, <1>3, <2>4, <4>1, <4>2, <4>3 DEF Store!Synced, Store!Tell, FailedSet
      <4> QED
        BY <1>1, <4>4 DEF Store!Next
    <3> QED
      BY <3>2, <3>3
  <2> QED
    BY <1>5, <2>7, <2>8, <2>9
<1> QED
  BY <1>4, <1>5

LEMMA WriteStore ==
    ASSUME IInv, SInv, NEW p \in Proc, Tame, WriteDelayed(p) \/ WriteAsync(p) \/ WriteSync(p)
    PROVE  SInv' /\ Store!Next
<1>1. /\ SInv' /\ FailedSet' = FailedSet
      /\ StoreOf' = [StoreOf EXCEPT ![req[p].blk] = req[p].val]
      /\ req[p].op \in {"write", "update"} /\ pc[p] = "use"
  BY WriteAsks
<1>2. TypeOK /\ ControlOf(p) /\ AsksOf(p)
  BY DEF IInv, Control, SInv
<1>3. UNCHANGED <<disk, reply>> /\ Writing' = Writing
  BY SameAsked DEF WriteDelayed, WriteAsync, WriteSync
<1>4. reply[p] = NoReply
  BY <1>1, <1>2 DEF AsksOf
<1>5. req[p] \in Request /\ req[p].blk \in Blk /\ req[p] # NoReq
  BY <1>1, <1>2, RequestAssumption DEF ControlOf, Asked
<1>6. Writing[p] = [blk |-> req[p].blk, val |-> req[p].val] /\ req[p].val \in Val
  BY <1>1, <1>5 DEF Writing, Request
<1>7. Writing[p] # NoReply /\ Writing[p].blk = req[p].blk /\ Writing[p].val = req[p].val
  BY <1>5, <1>6, DataAssumption
<1>8. Store!Write(p)
  BY <1>1, <1>3, <1>4, <1>7 DEF Store!Write, FailedSet
<1> QED
  BY <1>1, <1>8 DEF Store!Next

LEMMA PoolStore ==
    ASSUME IInv, SInv, NEW p \in Proc, Tame,
           Evict(p) \/ FlushOne(p) \/ PushWrites(p) \/ GotToRead(p) \/ GotAhead(p) \/ Reassign(p)
    PROVE  SInv' /\ (Store!Next \/ UNCHANGED Store!vars)
<1>1. UNCHANGED <<disk, reply>> /\ Writing' = Writing
  BY ZenonT(60), SameAsked DEF Evict, FlushOne, PushWrites, GotToRead, GotAhead, Reassign
<1>2. /\ SInv' /\ StoreOf' = StoreOf
      /\ \/ FailedSet' = FailedSet
         \/ \E x \in FailedSet : FailedSet' = FailedSet \ {x}
  BY EvictAsks, ReadAsks, ReassignAsks
<1>3. CASE FailedSet' = FailedSet
  BY <1>1, <1>2, <1>3, StoreStutter
<1>4. CASE \E x \in FailedSet : FailedSet' = FailedSet \ {x}
  <2>1. PICK x \in FailedSet : FailedSet' = FailedSet \ {x}
    BY <1>4
  <2>2. x \in Buf /\ Store!Reuse(x)
    BY <1>1, <1>2, <2>1 DEF Store!Reuse, FailedSet
  <2> QED
    BY <1>2, <2>2 DEF Store!Next
<1> QED
  BY <1>2, <1>3, <1>4

LEMMA CrashStore == ASSUME IInv, SInv, Crash PROVE SInv' /\ Store!Next
<1>1. TypeOK /\ Lists /\ DInv /\ DInv' /\ TypeOK' /\ NoBlk \notin Blk
  BY CrashClean, CrashStep, DataAssumption DEF IInv, SInv
<1>2. SInv'
  BY <1>1, PoolAssumption DEF SInv, AsksOf, Crash, Searching
<1>3. disk' \in {disk} \cup {[disk EXCEPT ![k] = StoreOf[k]] : k \in Blk}
  <2>1. CASE disk' = disk
    BY <2>1
  <2>2. CASE disk' # disk
    <3>1. ioq # <<>> /\ ~IsRead(flags[Head(ioq)]) /\ disk' = [disk EXCEPT ![key[Head(ioq)]] = data[Head(ioq)]]
      BY <2>2 DEF Crash
    <3>2. PICK x \in Buf : x = Head(ioq) /\ x \in QueueSet
      BY <1>1, <3>1, SimpleLists, TailSimple DEF QueueSet
    <3>3. key[x] \in Blk /\ "ERROR" \notin flags[x]
      BY <3>2 DEF IInv, Keys, KeysOf, Owners, OwnersOf
    <3>4. Holding(x)
      BY <3>1, <3>2, <3>3 DEF Holding
    <3>5. StoreOf[key[x]] = data[x]
      BY <1>1, <3>3, <3>4, StoreAt
    <3> QED
      BY <3>1, <3>2, <3>3, <3>5
  <2> QED
    BY <2>1, <2>2
<1>4. StoreOf' = disk'
  <2>1. (StoreElse!2)'
    BY <1>1, StoreElse, PTL
  <2>2. \A k \in Blk, b \in Buf : key'[b] # k
    BY <1>1 DEF Crash
  <2>3. \A k \in Blk : StoreOf'[k] = disk'[k]
    BY <2>1, <2>2
  <2>4. StoreOf' = [k \in Blk |-> StoreOf'[k]]
    BY DEF StoreOf
  <2> HIDE DEF StoreOf
  <2> QED
    BY <1>1, <2>3, <2>4 DEF TypeOK
<1>5. Writing' = [q \in Proc |-> NoReply] /\ reply' = [q \in Proc |-> NoReply]
  BY DEF Crash, Writing
<1>6. {b \in Buf : "ERROR" \in flags'[b]} = {}
  BY DEF Crash
<1>7. Store!Crash
  BY <1>3, <1>4, <1>5, <1>6 DEF Store!Crash, Store!None
<1> QED
  BY <1>2, <1>7 DEF Store!Next

LEMMA StoreStep ==
    ASSUME Tame, IInv, SInv, NoKnownRace, NoKnownRace', [Next]_vars
    PROVE  SInv' /\ [Store!Next]_(Store!vars)
<1>1. ASSUME NEW p \in Proc, Step(p) PROVE SInv' /\ (Store!Next \/ UNCHANGED Store!vars)
  <2>1. ~WaitFree(p)
    <3>1. SUFFICES ASSUME WaitFree(p) PROVE FALSE
      OBVIOUS
    <3>2. chan'[p] = FreeList
      BY <3>1 DEF WaitFree, SleepOn, IInv, TypeOK
    <3> QED
      BY <3>2 DEF NoKnownRace, PoolNeverDry
  <2>2. ~WriteFaults(p) /\ ~Binval(p)
    BY DEF SInv, DInv, LooksOf, WriteFaults, Writes, Binval, Runs
  <2>3. HitsStayBound
    BY DEF NoKnownRace
  <2> QED
    BY <1>1, <2>1, <2>2, <2>3, StartStore, QuietStore, ShadeStore, ReleaseStore, WriteStore, PoolStore DEF Step
<1>2. CASE UNCHANGED vars
  <2>1. SInv'
    BY <1>2 DEF vars, pool, calls, SInv, DInv, Valid, Unique, Clean, Agrees, LooksOf, AsksOf, ForReadAhead
  <2>2. UNCHANGED <<flags, key, data, ioq, disk, req, reply>>
    BY <1>2 DEF vars, pool, calls
  <2> QED
    BY <2>1, <2>2, StoreAlone, SameAsked, StoreStutter
<1> QED
  BY <1>1, <1>2, DiskStore, CrashStore DEF Next

LEMMA BootedStore == ASSUME Init PROVE SInv /\ Store!Init
<1>1. DInv /\ NoBlk \notin Blk
  BY BootedClean, DataAssumption DEF Init, Booted
<1>2. SInv
  BY <1>1, PoolAssumption DEF SInv, AsksOf, Init, Searching
<1>3. StoreOf = disk
  <2>1. \A k \in Blk : StoreOf[k] = disk[k]
    BY <1>1, StoreElse DEF Init
  <2>2. disk \in [Blk -> Val]
    BY DEF Init
  <2> QED
    BY <2>1, <2>2, StoreRange
<1>4. Writing = [q \in Proc |-> NoReply] /\ reply = [q \in Proc |-> NoReply]
  BY DEF Init, Writing
<1>5. {b \in Buf : "ERROR" \in flags[b]} = {} /\ disk \in [Blk -> Val]
  BY DEF Init
<1> QED
  BY <1>2, <1>3, <1>4, <1>5 DEF Store!Init, Store!None

(* The cache implements a store with one value per block: readers see the  *)
(* block's last write, what is on the platter only catches up with it, a   *)
(* synchronous write is answered once it is durable, and a write is lost   *)
(* only when its transfer fails or the machine crashes.  This is proved of *)
(* every execution without the two races the cache is known to have, when  *)
(* nobody closes the device and no copy from a process fails.              *)
THEOREM StoreKept == ASSUME Tame PROVE Spec /\ []NoKnownRace => StoreSpec
<1>1. Init => SInv /\ Store!Init
  BY BootedStore
<1>2. IInv /\ SInv /\ NoKnownRace /\ NoKnownRace' /\ [Next]_vars => SInv' /\ [Store!Next]_(Store!vars)
  BY StoreStep
<1>3. Spec /\ []NoKnownRace => Store!Init /\ [][Store!Next]_(Store!vars)
  BY <1>1, <1>2, Inductive, PTL DEF Spec
<1> QED
  BY <1>3 DEF StoreSpec, Store!Spec

=============================================================================

---------------------------- MODULE BallocProofs ----------------------------
(***************************************************************************)
(* Proofs about Balloc for any processes, files, blocks and NICFREE: the   *)
(* type invariant, that nobody waits for the free list for ever, that no   *)
(* crash leaves a block in two files or a broken free list, that update    *)
(* may trust fs_fmod, and that Balloc implements Space.                    *)
(*                                                                         *)
(* The inductive invariant IInv keeps account of every block: the places   *)
(* it can be in -- a file, the hands of a process, the free list in core,  *)
(* a list in another free block -- never share a block (Apart).  Every     *)
(* step moves blocks from one place to another at most, which is all that  *)
(* Apart needs (MoveStep).  What a file has on the disk it still has in    *)
(* core, or the process that truncates it has it in its hands and frees    *)
(* nothing before the inode is written (OnDisk).                           *)
(*                                                                         *)
(* LInv, beside it, has the lists: what is in a block that holds one       *)
(* (Lists), that they lead to an end (NoLoop), that every list in use is   *)
(* reached (Reached), and that what a crash would leave starts a chain of  *)
(* lists on the disk that no step changes (Copies).                        *)
(***************************************************************************)
EXTENDS Balloc, SeqFacts

Entry == Blk \cup {Zero}

(* Whoever has fs_flock. *)
Holder(p) == pc[p] \in {"chain", "super", "swrite", "list", "lwrite"}

Hand(p) == ToSet(rest[p]) \cup ({bno[p]} \ {Zero})

(* The list in block b is the free list now, or will not be used. *)
Dead(b) == \E p \in Proc : pc[p] \in {"super", "swrite", "got"} /\ bno[p] = b

(* Where blocks can be. *)
Places == ({"file"} \X File) \cup ({"hand"} \X Proc) \cup ({"list"} \X Blk) \cup ({"free"} \X {Zero})

Part(x) ==
    IF x[1] = "file" THEN ToSet(addr[x[2]])
    ELSE IF x[1] = "hand" THEN Hand(x[2])
    ELSE IF x[1] = "list" THEN (IF Dead(x[2]) THEN {} ELSE ToSet(cache[x[2]]) \ {Zero})
    ELSE ToSet(free) \ {Zero}

Apart == \A x, y \in Places : x # y => Part(x) \cap Part(y) = {}

(* No place has a block twice. *)
Once ==
    /\ Simple(free, Entry)
    /\ \A b \in Blk : Simple(cache[b], Entry) /\ Len(cache[b]) <= NICFREE
    /\ \A f \in File : Simple(addr[f], Blk)
    /\ \A p \in Proc : Simple(rest[p], Blk) /\ bno[p] \notin ToSet(rest[p])

(* What the place of p in the code implies. *)
Local(p) ==
    /\ pc[p] \notin {"user", "update", "uwrite"} => file[p] \in File
    /\ pc[p] \in {"chain", "super", "swrite", "got"} => bno[p] \in Blk
    /\ pc[p] \in {"list", "lwrite"} => rest[p] # <<>>
    /\ pc[p] = "fill" => size[file[p]] < Len(addr[file[p]])
    /\ Holder(p) => flock = TRUE
    /\ pc[p] \in {"super", "swrite"} => free = cache[bno[p]]

Alone ==
    \A p, q \in Proc : p # q => /\ ~(Holder(p) /\ Holder(q))
                                /\ file[p] = file[q] => file[p] = NoFile

(* The blocks that the inode of f has, or had when it was last written. *)
Owned(f) == ToSet(addr[f]) \cup UNION {ToSet(rest[p]) : p \in {q \in Proc : pc[q] = "inode" /\ file[q] = f}}

OnDisk == \A f \in File : ToSet(dinode[f]) \subseteq Owned(f) /\ ToSet(ddisk[f]) \subseteq Owned(f)

IInv == TypeOK /\ Once /\ Apart /\ (\A p \in Proc : Local(p)) /\ Alone /\ OnDisk /\ NoLostWakeup

-----------------------------------------------------------------------------
(* Sequences *)

LEMMA FrontSimple ==
    ASSUME NEW S, NEW s, Simple(s, S), s # <<>>
    PROVE  /\ Last(s) \in S /\ Last(s) \in ToSet(s)
           /\ Simple(Front(s), S) /\ ToSet(Front(s)) = ToSet(s) \ {Last(s)}
           /\ Len(Front(s)) = Len(s) - 1
<1>1. s \in Seq(S) /\ IsInjective(s) /\ Len(s) \in Nat /\ Len(s) > 0 /\ DOMAIN s = 1..Len(s)
  BY DEF Simple
<1> DEFINE t == Front(s)
           n == Len(s) - 1
<1>2. t \in Seq(S) /\ Len(t) = n /\ \A j \in 1..n : t[j] = s[j]
  <2>1. t = SubSeq(s, 1, n)
    BY DEF Front
  <2>2. \A j \in 1..n : s[j] \in S
    BY <1>1
  <2>3. 1 \in Int /\ n \in Int /\ n - 1 + 1 = n /\ (IF 1 <= n THEN n - 1 + 1 ELSE 0) = n
        /\ \A j \in 1..n : 1 + j - 1 = j
    BY <1>1
  <2> QED
    BY <2>1, <2>2, <2>3, SubSeqProperties
<1> HIDE DEF t
<1>3. Last(s) = s[Len(s)] /\ Last(s) \in S /\ Last(s) \in ToSet(s)
  BY <1>1 DEF Last, ToSet
<1>4. DOMAIN t = 1..n /\ n \in Nat /\ \A j \in 1..n : j \in 1..Len(s) /\ j # Len(s)
  <2>0. n \in Nat /\ Len(s) \in Nat /\ n + 1 = Len(s)
    BY <1>1
  <2>1. \A j \in 1..n : j \in 1..Len(s) /\ j # Len(s)
    <3> HIDE DEF n
    <3> QED
      BY <2>0
  <2>2. DOMAIN t = 1..Len(t)
    BY <1>2, LenProperties
  <2> QED
    BY ZenonT(60), <2>0, <2>1, <2>2, <1>2
<1>5. IsInjective(t)
  <2> SUFFICES ASSUME NEW i \in 1..n, NEW j \in 1..n, t[i] = t[j] PROVE i = j
    BY <1>4 DEF IsInjective
  <2>1. s[i] = s[j] /\ i \in DOMAIN s /\ j \in DOMAIN s
    BY ZenonT(60), <1>1, <1>2, <1>4
  <2> QED
    BY <1>1, <2>1 DEF IsInjective
<1>6. ToSet(t) \subseteq ToSet(s) \ {Last(s)}
  <2> SUFFICES ASSUME NEW j \in 1..n PROVE s[j] \in ToSet(s) \ {Last(s)}
    BY <1>2, <1>4 DEF ToSet
  <2>1. j \in 1..Len(s) /\ j # Len(s)
    BY <1>4
  <2>2. Len(s) \in 1..Len(s)
    BY <1>1
  <2>3. j \in DOMAIN s /\ Len(s) \in DOMAIN s
    BY ZenonT(60), <1>1, <2>1, <2>2
  <2>4. s[j] # s[Len(s)]
    BY <1>1, <2>1, <2>3 DEF IsInjective
  <2> QED
    BY <1>3, <2>3, <2>4 DEF ToSet
<1>7. ToSet(s) \ {Last(s)} \subseteq ToSet(t)
  <2> SUFFICES ASSUME NEW j \in 1..Len(s), s[j] # Last(s) PROVE s[j] \in ToSet(t)
    BY <1>1 DEF ToSet
  <2>1. j \in 1..n
    BY <1>1, <1>3
  <2> QED
    BY <2>1, <1>2, <1>4 DEF ToSet
<1> QED
  BY <1>2, <1>3, <1>5, <1>6, <1>7 DEF t, Simple

LEMMA ReverseSimple ==
    ASSUME NEW S, NEW s, Simple(s, S)
    PROVE  Simple(Reverse(s), S) /\ ToSet(Reverse(s)) = ToSet(s)
<1>1. s \in Seq(S) /\ IsInjective(s) /\ Len(s) \in Nat /\ DOMAIN s = 1..Len(s)
  BY DEF Simple
<1> DEFINE t == Reverse(s)
<1>2. t = [j \in 1..Len(s) |-> s[(Len(s) - j) + 1]]
  BY DEF Reverse
<1>3. \A j \in 1..Len(s) : (Len(s) - j) + 1 \in 1..Len(s)
  BY <1>1
<1>4. t \in Seq(S) /\ DOMAIN t = 1..Len(s) /\ \A j \in 1..Len(s) : t[j] = s[(Len(s) - j) + 1]
  BY <1>1, <1>2, <1>3
<1> HIDE DEF t
<1>5. IsInjective(t)
  <2> SUFFICES ASSUME NEW i \in 1..Len(s), NEW j \in 1..Len(s), t[i] = t[j] PROVE i = j
    BY <1>4 DEF IsInjective
  <2>1. (Len(s) - i) + 1 = (Len(s) - j) + 1
    BY <1>1, <1>3, <1>4 DEF IsInjective
  <2> QED
    BY <1>1, <2>1
<1>6. ToSet(t) = ToSet(s)
  <2>1. ToSet(t) \subseteq ToSet(s)
    BY <1>1, <1>3, <1>4 DEF ToSet
  <2>2. ASSUME NEW j \in 1..Len(s) PROVE s[j] \in ToSet(t)
    <3>1. PICK i \in 1..Len(s) : i = (Len(s) - j) + 1
      BY <1>3
    <3>2. (Len(s) - i) + 1 = j
      BY <1>1, <3>1
    <3> QED
      BY <1>4, <3>2 DEF ToSet
  <2> QED
    BY <1>1, <2>1, <2>2 DEF ToSet
<1> QED
  BY <1>4, <1>5, <1>6 DEF t, Simple

-----------------------------------------------------------------------------
(* What leaves the blocks apart *)

(* Blocks move between the places a and c, or leave them. *)
LEMMA MoveStep ==
    ASSUME Apart, NEW a \in Places, NEW c \in Places, a # c,
           \A x \in Places \ {a, c} : Part(x)' \subseteq Part(x),
           Part(a)' \cup Part(c)' \subseteq Part(a) \cup Part(c),
           Part(a)' \cap Part(c)' = {}
    PROVE  Apart'
<1> SUFFICES ASSUME NEW x \in Places, NEW y \in Places, x # y PROVE Part(x)' \cap Part(y)' = {}
  BY DEF Apart, Places
<1>1. /\ \A z \in Places \ {a, c} : Part(z) \cap (Part(a) \cup Part(c)) = {}
      /\ Part(x) \cap Part(y) = {}
  BY DEF Apart
<1>2. \A z \in Places : Part(z)' \subseteq IF z \in {a, c} THEN Part(a) \cup Part(c) ELSE Part(z)
  OBVIOUS
<1>3. CASE x \in {a, c} /\ y \in {a, c}
  BY <1>3
<1>4. CASE x \in {a, c} /\ y \notin {a, c}
  BY <1>1, <1>2, <1>4
<1>5. CASE x \notin {a, c} /\ y \in {a, c}
  BY <1>1, <1>2, <1>5
<1>6. CASE x \notin {a, c} /\ y \notin {a, c}
  BY <1>1, <1>2, <1>6
<1> QED
  BY <1>3, <1>4, <1>5, <1>6

LEMMA KeepStep ==
    ASSUME Apart, \A x \in Places : Part(x)' \subseteq Part(x)
    PROVE  Apart'
BY DEF Apart, Places

LEMMA PlaceKinds ==
    /\ \A f \in File : <<"file", f>> \in Places
    /\ \A p \in Proc : <<"hand", p>> \in Places
    /\ \A b \in Blk : <<"list", b>> \in Places
    /\ <<"free", Zero>> \in Places
    /\ \A x \in Places : \/ \E f \in File : x = <<"file", f>>
                         \/ \E p \in Proc : x = <<"hand", p>>
                         \/ \E b \in Blk : x = <<"list", b>>
                         \/ x = <<"free", Zero>>
BY DEF Places

LEMMA PartKinds ==
    /\ \A f \in File : Part(<<"file", f>>) = ToSet(addr[f])
    /\ \A p \in Proc : Part(<<"hand", p>>) = Hand(p)
    /\ \A b \in Blk : Part(<<"list", b>>) = IF Dead(b) THEN {} ELSE ToSet(cache[b]) \ {Zero}
    /\ Part(<<"free", Zero>>) = ToSet(free) \ {Zero}
BY DEF Part

LEMMA PartKinds2 ==
    /\ \A f \in File : Part(<<"file", f>>)' = ToSet(addr'[f])
    /\ \A p \in Proc : Part(<<"hand", p>>)' = Hand(p)'
    /\ \A b \in Blk : Part(<<"list", b>>)' = IF Dead(b)' THEN {} ELSE ToSet(cache'[b]) \ {Zero}
    /\ Part(<<"free", Zero>>)' = ToSet(free') \ {Zero}
BY DEF Part

LEMMA ApartKinds ==
    ASSUME Apart
    PROVE  /\ \A f, g \in File : f # g => ToSet(addr[f]) \cap ToSet(addr[g]) = {}
           /\ \A f \in File, p \in Proc : ToSet(addr[f]) \cap Hand(p) = {}
           /\ \A p, q \in Proc : p # q => Hand(p) \cap Hand(q) = {}
           /\ \A p \in Proc : Hand(p) \cap (ToSet(free) \ {Zero}) = {}
<1>1. ASSUME NEW f \in File, NEW g \in File, f # g PROVE ToSet(addr[f]) \cap ToSet(addr[g]) = {}
  <2>1. <<"file", f>> # <<"file", g>>
    BY <1>1
  <2> QED
    BY ZenonT(60), <2>1, PlaceKinds, PartKinds DEF Apart
<1>2. ASSUME NEW f \in File, NEW p \in Proc PROVE ToSet(addr[f]) \cap Hand(p) = {}
  <2>1. <<"file", f>> # <<"hand", p>>
    OBVIOUS
  <2> QED
    BY ZenonT(60), <2>1, PlaceKinds, PartKinds DEF Apart
<1>3. ASSUME NEW p \in Proc, NEW q \in Proc, p # q PROVE Hand(p) \cap Hand(q) = {}
  <2>1. <<"hand", p>> # <<"hand", q>>
    BY <1>3
  <2> QED
    BY ZenonT(60), <2>1, PlaceKinds, PartKinds DEF Apart
<1>4. ASSUME NEW p \in Proc PROVE Hand(p) \cap (ToSet(free) \ {Zero}) = {}
  <2>1. <<"hand", p>> # <<"free", Zero>>
    OBVIOUS
  <2> QED
    BY <2>1, PlaceKinds, PartKinds DEF Apart
<1> QED
  BY <1>1, <1>2, <1>3, <1>4

-----------------------------------------------------------------------------
(* What leaves the other parts of the invariant true *)

(* Processes other than p stay where they are, with what they have. *)
Only(p) == \A q \in Proc \ {p} : /\ pc'[q] = pc[q] /\ file'[q] = file[q]
                                 /\ bno'[q] = bno[q] /\ rest'[q] = rest[q]

Marking == {"super", "swrite", "got"}

(* No block moves, and whoever made a list dead keeps it dead. *)
LEMMA QuietStep ==
    ASSUME Once, Apart, UNCHANGED <<free, cache, addr, rest, bno>>,
           \A q \in Proc : pc[q] \in Marking => pc'[q] \in Marking
    PROVE  Once' /\ Apart'
<1>1. Once'
  BY DEF Once
<1>2. \A b \in Blk : Dead(b) => Dead(b)'
  BY DEF Dead, Marking
<1>3. ASSUME NEW x \in Places PROVE Part(x)' \subseteq Part(x)
  <2>1. ASSUME NEW f \in File, x = <<"file", f>> PROVE Part(x)' \subseteq Part(x)
    BY <2>1, PartKinds, PartKinds2
  <2>2. ASSUME NEW p \in Proc, x = <<"hand", p>> PROVE Part(x)' \subseteq Part(x)
    BY <2>2, PartKinds, PartKinds2 DEF Hand
  <2>3. ASSUME NEW b \in Blk, x = <<"list", b>> PROVE Part(x)' \subseteq Part(x)
    BY <1>2, <2>3, PartKinds, PartKinds2
  <2>4. ASSUME x = <<"free", Zero>> PROVE Part(x)' \subseteq Part(x)
    BY <2>4, PartKinds, PartKinds2
  <2> QED
    BY <2>1, <2>2, <2>3, <2>4, PlaceKinds
<1> QED
  BY <1>1, <1>3, KeepStep

LEMMA LocalStep ==
    ASSUME NEW q \in Proc, Local(q),
           pc'[q] = pc[q], file'[q] = file[q], bno'[q] = bno[q], rest'[q] = rest[q],
           pc[q] = "fill" => size'[file[q]] = size[file[q]] /\ addr'[file[q]] = addr[file[q]],
           Holder(q) => flock' = TRUE,
           pc[q] \in {"super", "swrite"} => free' = free /\ cache'[bno[q]] = cache[bno[q]]
    PROVE  Local(q)'
BY DEF Local, Holder

LEMMA AloneStep ==
    ASSUME Alone,
           \A q \in Proc : (Holder(q)' => Holder(q)) /\ file'[q] \in {file[q], NoFile}
    PROVE  Alone'
<1>1. ASSUME NEW p \in Proc, NEW q \in Proc, p # q
      PROVE  ~(Holder(p)' /\ Holder(q)') /\ (file'[p] = file'[q] => file'[p] = NoFile)
  BY <1>1 DEF Alone
<1> QED
  BY <1>1 DEF Alone

(* p takes fs_flock. *)
LEMMA AloneTake ==
    ASSUME Alone, \A q \in Proc : Local(q), flock = FALSE, NEW p \in Proc, Only(p), file' = file
    PROVE  Alone'
<1>1. \A q \in Proc : ~Holder(q)
  BY DEF Local
<1>2. \A q \in Proc \ {p} : ~Holder(q)'
  BY <1>1 DEF Only, Holder
<1>3. ASSUME NEW q \in Proc, NEW r \in Proc, q # r
      PROVE  ~(Holder(q)' /\ Holder(r)') /\ (file'[q] = file'[r] => file'[q] = NoFile)
  BY <1>2, <1>3 DEF Alone
<1> QED
  BY <1>3 DEF Alone

(* p locks f. *)
LEMMA AloneLock ==
    ASSUME Alone, NEW p \in Proc, NEW f \in File, Only(p), ~Locked(f), file' = [file EXCEPT ![p] = f],
           ~Holder(p)', TypeOK
    PROVE  Alone'
<1>1. \A q \in Proc \ {p} : file'[q] = file[q] /\ file[q] # f /\ (Holder(q)' => Holder(q))
  BY DEF Locked, Only, Holder, TypeOK
<1>2. file'[p] = f
  BY DEF TypeOK
<1>3. ASSUME NEW q \in Proc, NEW r \in Proc, q # r
      PROVE  ~(Holder(q)' /\ Holder(r)') /\ (file'[q] = file'[r] => file'[q] = NoFile)
  <2>1. CASE p \in {q, r}
    BY <1>1, <1>2, <1>3, <2>1
  <2>2. CASE p \notin {q, r}
    BY <1>1, <1>3, <2>2 DEF Alone
  <2> QED
    BY <2>1, <2>2
<1> QED
  BY <1>3 DEF Alone

LEMMA OnDiskStep ==
    ASSUME OnDisk, UNCHANGED <<dinode, ddisk>>,
           \A f \in File : ToSet(addr[f]) \subseteq ToSet(addr'[f]),
           \A q \in Proc : pc[q] = "inode" => /\ pc'[q] = "inode" /\ file'[q] = file[q]
                                              /\ rest'[q] = rest[q]
    PROVE  OnDisk'
<1>1. ASSUME NEW f \in File PROVE Owned(f) \subseteq Owned(f)'
  BY DEF Owned
<1> QED
  BY <1>1 DEF OnDisk

LEMMA WakeStep ==
    ASSUME NoLostWakeup,
           \A q \in Proc : chan'[q] = "flock" => flock' = TRUE \/ (chan[q] = "flock" /\ flock' = flock)
    PROVE  NoLostWakeup'
BY DEF NoLostWakeup

(* p goes on without moving a block or taking a lock. *)
LEMMA GoOnStep ==
    ASSUME IInv, NEW p \in Proc, TypeOK', Only(p), Local(p)',
           UNCHANGED <<free, flock, cache, addr, dinode, ddisk, rest, bno>>,
           \A f \in File : f # file[p] => size'[f] = size[f],
           \A q \in Proc : chan'[q] = "flock" => flock' = TRUE \/ chan[q] = "flock",
           pc[p] \in Marking => pc'[p] \in Marking,
           Holder(p)' => Holder(p),
           file'[p] \in {file[p], NoFile},
           pc[p] # "inode"
    PROVE  IInv'
<1>1. Once' /\ Apart'
  <2>1. \A q \in Proc : pc[q] \in Marking => pc'[q] \in Marking
    BY DEF Only
  <2> QED
    BY <2>1, QuietStep DEF IInv
<1>2. ASSUME NEW q \in Proc PROVE Local(q)'
  <2>1. CASE q = p
    BY <2>1
  <2>2. CASE q # p
    <3>1. pc[q] = "fill" => file[q] \in File /\ file[q] # file[p]
      BY <2>2, FileAssumption DEF IInv, Alone, Local
    <3>2. Holder(q) => flock' = TRUE
      BY DEF IInv, Local
    <3> QED
      BY <2>2, <3>1, <3>2, LocalStep DEF IInv, Only
  <2> QED
    BY <2>1, <2>2
<1>3. Alone'
  <2>1. \A q \in Proc : (Holder(q)' => Holder(q)) /\ file'[q] \in {file[q], NoFile}
    BY DEF Only, Holder
  <2> QED
    BY <2>1, AloneStep DEF IInv
<1>4. OnDisk'
  <2>1. \A q \in Proc : pc[q] = "inode" => pc'[q] = "inode" /\ file'[q] = file[q] /\ rest'[q] = rest[q]
    BY DEF Only
  <2> QED
    BY <2>1, OnDiskStep DEF IInv
<1>5. NoLostWakeup'
  BY WakeStep DEF IInv
<1> QED
  BY <1>1, <1>2, <1>3, <1>4, <1>5 DEF IInv

-----------------------------------------------------------------------------
(* The steps *)

LEMMA WaitFreeInv ==
    ASSUME IInv, NEW p \in Proc, WaitFree(p)
    PROVE  IInv'
<1>1. TypeOK'
  BY DEF IInv, TypeOK, WaitFree, Runs, Goto, Yield, Return, Unlock, Location, core, blocks, files
<1>2. /\ pc[p] \in {"alloc", "free"} /\ pc'[p] = pc[p] /\ file'[p] = file[p]
      /\ bno'[p] = bno[p] /\ rest'[p] = rest[p] /\ Only(p)
  BY DEF IInv, TypeOK, WaitFree, Runs, Goto, Yield, Return, Only
<1>3. Local(p)'
  BY <1>2 DEF IInv, Local, Holder, WaitFree, core, blocks, files
<1>4. UNCHANGED <<free, flock, cache, addr, dinode, ddisk, rest, bno>>
  BY DEF WaitFree, core, blocks, files
<1>5. \A f \in File : f # file[p] => size'[f] = size[f]
  BY DEF IInv, TypeOK, WaitFree, files
<1>6. \A q \in Proc : chan'[q] = "flock" => flock' = TRUE \/ chan[q] = "flock"
  BY <1>4 DEF IInv, TypeOK, WaitFree
<1> QED
  BY <1>1, <1>2, <1>3, <1>4, <1>5, <1>6, GoOnStep DEF Holder, Marking

LEMMA SuperCopyInv ==
    ASSUME IInv, NEW p \in Proc, SuperCopy(p)
    PROVE  IInv'
<1>1. TypeOK'
  BY DEF IInv, TypeOK, SuperCopy, Runs, Goto, Yield, Return, Unlock, Location, core, blocks, files
<1>2. /\ pc[p] = "super" /\ pc'[p] = "swrite" /\ file'[p] = file[p]
      /\ bno'[p] = bno[p] /\ rest'[p] = rest[p] /\ Only(p)
  BY DEF IInv, TypeOK, SuperCopy, Runs, Goto, Yield, Return, Only
<1>3. Local(p)'
  BY <1>2 DEF IInv, Local, Holder, SuperCopy, core, blocks, files
<1>4. UNCHANGED <<free, flock, cache, addr, dinode, ddisk, rest, bno>>
  BY DEF SuperCopy, core, blocks, files
<1>5. \A f \in File : f # file[p] => size'[f] = size[f]
  BY DEF IInv, TypeOK, SuperCopy, files
<1>6. \A q \in Proc : chan'[q] = "flock" => flock' = TRUE \/ chan[q] = "flock"
  BY <1>4 DEF IInv, TypeOK, SuperCopy
<1> QED
  BY <1>1, <1>2, <1>3, <1>4, <1>5, <1>6, GoOnStep DEF Holder, Marking

LEMMA FillInv ==
    ASSUME IInv, NEW p \in Proc, Fill(p)
    PROVE  IInv'
<1>1. TypeOK'
  <2>1. file[p] \in File /\ size[file[p]] < Len(addr[file[p]])
    BY DEF IInv, Local, Fill, Runs
  <2>2. size' = [size EXCEPT ![file[p]] = size[file[p]] + 1] /\ addr' = addr
    BY DEF Fill
  <2>3. size' \in [File -> Nat] /\ \A f \in File : size'[f] <= Len(addr'[f])
    <3>1. \A f \in File : size[f] \in Nat /\ size[f] <= Len(addr[f]) /\ Len(addr[f]) \in Nat
      BY LenProperties DEF IInv, TypeOK
    <3> QED
      BY <2>1, <2>2, <3>1 DEF IInv, TypeOK
  <2> QED
    BY <2>3 DEF IInv, TypeOK, Fill, Runs, Yield, Return, Location, core, blocks
<1>2. /\ pc[p] = "fill" /\ pc'[p] = "user" /\ file'[p] = NoFile
      /\ bno'[p] = bno[p] /\ rest'[p] = rest[p] /\ Only(p)
  BY DEF IInv, TypeOK, Fill, Runs, Goto, Yield, Return, Only
<1>3. Local(p)'
  BY <1>2 DEF IInv, Local, Holder, Fill, core, blocks, files
<1>4. UNCHANGED <<free, flock, cache, addr, dinode, ddisk, rest, bno>>
  BY DEF Fill, core, blocks, files
<1>5. \A f \in File : f # file[p] => size'[f] = size[f]
  BY DEF IInv, TypeOK, Fill, files
<1>6. \A q \in Proc : chan'[q] = "flock" => flock' = TRUE \/ chan[q] = "flock"
  BY <1>4 DEF IInv, TypeOK, Fill
<1> QED
  BY <1>1, <1>2, <1>3, <1>4, <1>5, <1>6, GoOnStep DEF Holder, Marking

LEMMA FillFaultInv ==
    ASSUME IInv, NEW p \in Proc, FillFault(p)
    PROVE  IInv'
<1>1. TypeOK'
  BY DEF IInv, TypeOK, FillFault, Runs, Goto, Yield, Return, Unlock, Location, core, blocks, files
<1>2. /\ pc[p] = "fill" /\ pc'[p] = "user" /\ file'[p] = NoFile
      /\ bno'[p] = bno[p] /\ rest'[p] = rest[p] /\ Only(p)
  BY DEF IInv, TypeOK, FillFault, Runs, Goto, Yield, Return, Only
<1>3. Local(p)'
  BY <1>2 DEF IInv, Local, Holder, FillFault, core, blocks, files
<1>4. UNCHANGED <<free, flock, cache, addr, dinode, ddisk, rest, bno>>
  BY DEF FillFault, core, blocks, files
<1>5. \A f \in File : f # file[p] => size'[f] = size[f]
  BY DEF IInv, TypeOK, FillFault, files
<1>6. \A q \in Proc : chan'[q] = "flock" => flock' = TRUE \/ chan[q] = "flock"
  BY <1>4 DEF IInv, TypeOK, FillFault
<1> QED
  BY <1>1, <1>2, <1>3, <1>4, <1>5, <1>6, GoOnStep DEF Holder, Marking

LEMMA GiveUpInv ==
    ASSUME IInv, NEW p \in Proc, GiveUp(p)
    PROVE  IInv'
<1>1. TypeOK'
  BY DEF IInv, TypeOK, GiveUp, Runs, Goto, Yield, Return, Unlock, Location, core, blocks, files
<1>2. /\ pc[p] = "full" /\ pc'[p] = "user" /\ file'[p] = NoFile
      /\ bno'[p] = bno[p] /\ rest'[p] = rest[p] /\ Only(p)
  BY DEF IInv, TypeOK, GiveUp, Runs, Goto, Yield, Return, Only
<1>3. Local(p)'
  BY <1>2 DEF IInv, Local, Holder, GiveUp, core, blocks, files
<1>4. UNCHANGED <<free, flock, cache, addr, dinode, ddisk, rest, bno>>
  BY DEF GiveUp, core, blocks, files
<1>5. \A f \in File : f # file[p] => size'[f] = size[f]
  BY DEF IInv, TypeOK, GiveUp, files
<1>6. \A q \in Proc : chan'[q] = "flock" => flock' = TRUE \/ chan[q] = "flock"
  BY <1>4 DEF IInv, TypeOK, GiveUp
<1> QED
  BY <1>1, <1>2, <1>3, <1>4, <1>5, <1>6, GoOnStep DEF Holder, Marking

LEMMA TruncDoneInv ==
    ASSUME IInv, NEW p \in Proc, TruncDone(p)
    PROVE  IInv'
<1>1. TypeOK'
  BY DEF IInv, TypeOK, TruncDone, Runs, Goto, Yield, Return, Unlock, Location, core, blocks, files
<1>2. /\ pc[p] = "free" /\ pc'[p] = "user" /\ file'[p] = NoFile
      /\ bno'[p] = bno[p] /\ rest'[p] = rest[p] /\ Only(p)
  BY DEF IInv, TypeOK, TruncDone, Runs, Goto, Yield, Return, Only
<1>3. Local(p)'
  BY <1>2 DEF IInv, Local, Holder, TruncDone, core, blocks, files
<1>4. UNCHANGED <<free, flock, cache, addr, dinode, ddisk, rest, bno>>
  BY DEF TruncDone, core, blocks, files
<1>5. \A f \in File : f # file[p] => size'[f] = size[f]
  BY DEF IInv, TypeOK, TruncDone, files
<1>6. \A q \in Proc : chan'[q] = "flock" => flock' = TRUE \/ chan[q] = "flock"
  BY <1>4 DEF IInv, TypeOK, TruncDone
<1> QED
  BY <1>1, <1>2, <1>3, <1>4, <1>5, <1>6, GoOnStep DEF Holder, Marking

LEMMA UpdateInv ==
    ASSUME IInv, NEW p \in Proc, Update(p)
    PROVE  IInv'
<1>1. TypeOK'
  BY DEF IInv, TypeOK, Update, Runs, Goto, Yield, Return, Unlock, Location, core, blocks, files
<1>2. /\ pc[p] = "user" /\ pc'[p] = "update" /\ file'[p] = file[p]
      /\ bno'[p] = bno[p] /\ rest'[p] = rest[p] /\ Only(p)
  BY DEF IInv, TypeOK, Update, Runs, Goto, Yield, Return, Only
<1>3. Local(p)'
  BY <1>2 DEF IInv, Local, Holder, Update, core, blocks, files
<1>4. UNCHANGED <<free, flock, cache, addr, dinode, ddisk, rest, bno>>
  BY DEF Update, core, blocks, files
<1>5. \A f \in File : f # file[p] => size'[f] = size[f]
  BY DEF IInv, TypeOK, Update, files
<1>6. \A q \in Proc : chan'[q] = "flock" => flock' = TRUE \/ chan[q] = "flock"
  BY <1>4 DEF IInv, TypeOK, Update
<1> QED
  BY <1>1, <1>2, <1>3, <1>4, <1>5, <1>6, GoOnStep DEF Holder, Marking

LEMMA UpdateCopyInv ==
    ASSUME IInv, NEW p \in Proc, UpdateCopy(p)
    PROVE  IInv'
<1>1. TypeOK'
  BY DEF IInv, TypeOK, UpdateCopy, Runs, Goto, Yield, Return, Unlock, Location, core, blocks, files
<1>2. /\ pc[p] = "update" /\ pc'[p] = "uwrite" /\ file'[p] = file[p]
      /\ bno'[p] = bno[p] /\ rest'[p] = rest[p] /\ Only(p)
  BY DEF IInv, TypeOK, UpdateCopy, Runs, Goto, Yield, Return, Only
<1>3. Local(p)'
  BY <1>2 DEF IInv, Local, Holder, UpdateCopy, core, blocks, files
<1>4. UNCHANGED <<free, flock, cache, addr, dinode, ddisk, rest, bno>>
  BY DEF UpdateCopy, core, blocks, files
<1>5. \A f \in File : f # file[p] => size'[f] = size[f]
  BY DEF IInv, TypeOK, UpdateCopy, files
<1>6. \A q \in Proc : chan'[q] = "flock" => flock' = TRUE \/ chan[q] = "flock"
  BY <1>4 DEF IInv, TypeOK, UpdateCopy
<1> QED
  BY <1>1, <1>2, <1>3, <1>4, <1>5, <1>6, GoOnStep DEF Holder, Marking

LEMMA UpdateWrittenInv ==
    ASSUME IInv, NEW p \in Proc, UpdateWritten(p)
    PROVE  IInv'
<1>1. TypeOK'
  BY DEF IInv, TypeOK, UpdateWritten, Runs, Goto, Yield, Return, Unlock, Location, core, blocks, files
<1>2. /\ pc[p] = "uwrite" /\ pc'[p] = "user" /\ file'[p] = file[p]
      /\ bno'[p] = bno[p] /\ rest'[p] = rest[p] /\ Only(p)
  BY DEF IInv, TypeOK, UpdateWritten, Runs, Goto, Yield, Return, Only
<1>3. Local(p)'
  BY <1>2 DEF IInv, Local, Holder, UpdateWritten, core, blocks, files
<1>4. UNCHANGED <<free, flock, cache, addr, dinode, ddisk, rest, bno>>
  BY DEF UpdateWritten, core, blocks, files
<1>5. \A f \in File : f # file[p] => size'[f] = size[f]
  BY DEF IInv, TypeOK, UpdateWritten, files
<1>6. \A q \in Proc : chan'[q] = "flock" => flock' = TRUE \/ chan[q] = "flock"
  BY <1>4 DEF IInv, TypeOK, UpdateWritten
<1> QED
  BY <1>1, <1>2, <1>3, <1>4, <1>5, <1>6, GoOnStep DEF Holder, Marking

(* The processes other than p are where they were, and p alone works on g. *)
LEMMA OthersLocal ==
    ASSUME \A q \in Proc : Local(q), NEW p \in Proc, Only(p),
           NEW g, \A q \in Proc \ {p} : file[q] # g,
           \A f \in File : f # g => size'[f] = size[f] /\ addr'[f] = addr[f],
           \A q \in Proc \ {p} :
              Holder(q) => /\ flock' = flock /\ free' = free
                           /\ cache'[bno[q]] = cache[bno[q]]
    PROVE  \A q \in Proc \ {p} : Local(q)'
<1> SUFFICES ASSUME NEW q \in Proc \ {p} PROVE Local(q)'
  OBVIOUS
<1>1. pc[q] = "fill" => file[q] \in File /\ file[q] # g
  BY DEF Local
<1>2. Holder(q) => flock = TRUE
  BY DEF Local
<1>3. pc[q] \in {"super", "swrite"} => Holder(q)
  BY DEF Holder
<1> QED
  BY <1>1, <1>2, <1>3, LocalStep DEF Only

LEMMA WriteInv ==
    ASSUME IInv, NEW p \in Proc, NEW f \in File, Write(p, f)
    PROVE  IInv'
<1>1. TypeOK'
  BY DEF IInv, TypeOK, Write, Runs, Goto, Yield, Location, core, blocks, files
<1>2. /\ pc[p] = "user" /\ pc'[p] \in {"fill", "alloc"} /\ file'[p] = f /\ ~Locked(f)
      /\ pc'[p] = "fill" => Len(addr[f]) > size[f]
      /\ file' = [file EXCEPT ![p] = f]
      /\ bno'[p] = bno[p] /\ rest'[p] = rest[p] /\ Only(p)
  BY DEF IInv, TypeOK, Write, Runs, Goto, Yield, Only
<1>3. UNCHANGED <<free, flock, cache, addr, size, dinode, ddisk, chan, rest, bno>>
  BY DEF Write, core, blocks, files
<1>4. Once' /\ Apart'
  <2>1. \A q \in Proc : pc[q] \in Marking => pc'[q] \in Marking
    BY <1>2 DEF Only, Marking
  <2> QED
    BY <1>3, <2>1, QuietStep DEF IInv
<1>5. Local(p)'
  <2>1. Len(addr[f]) \in Nat /\ size[f] \in Nat
    BY LenProperties DEF IInv, TypeOK
  <2> QED
    BY <1>2, <1>3, <2>1 DEF Local, Holder
<1>6. \A q \in Proc \ {p} : Local(q)'
  <2>1. \A q \in Proc \ {p} : file[q] # f
    BY <1>2 DEF Locked
  <2> QED
    BY <1>2, <1>3, <2>1, OthersLocal DEF IInv
<1>7. Alone'
  BY <1>2, AloneLock DEF IInv, Holder
<1>8. OnDisk'
  <2>1. \A q \in Proc : pc[q] = "inode" => pc'[q] = "inode" /\ file'[q] = file[q] /\ rest'[q] = rest[q]
    BY <1>2 DEF Only
  <2> QED
    BY <1>3, <2>1, OnDiskStep DEF IInv
<1>9. NoLostWakeup'
  BY <1>3, WakeStep DEF IInv
<1> QED
  BY <1>1, <1>4, <1>5, <1>6, <1>7, <1>8, <1>9 DEF IInv

LEMMA TruncInv ==
    ASSUME IInv, NEW p \in Proc, NEW f \in File, Trunc(p, f)
    PROVE  IInv'
<1>1. /\ pc[p] = "user" /\ pc'[p] = "inode" /\ file'[p] = f /\ ~Locked(f)
      /\ file' = [file EXCEPT ![p] = f]
      /\ bno'[p] = bno[p] /\ Only(p)
  BY DEF IInv, TypeOK, Trunc, Runs, Yield, Only
<1>2. UNCHANGED <<free, flock, cache, dinode, ddisk, chan, bno>>
  BY DEF Trunc, core, blocks
<1>3. \/ UNCHANGED <<addr, size, rest>>
      \/ /\ addr' = [addr EXCEPT ![f] = <<>>] /\ size' = [size EXCEPT ![f] = 0]
         /\ rest' = [rest EXCEPT ![p] = Reverse(addr[f])]
  BY DEF Trunc
<1>4. \A q \in Proc \ {p} : file[q] # f
  BY <1>1 DEF Locked
<1>5. Alone'
  BY <1>1, AloneLock DEF IInv, Holder
<1>6. NoLostWakeup'
  BY <1>2, WakeStep DEF IInv
<1>7. Local(p)'
  BY <1>1 DEF Local, Holder
<1>8. \A q \in Proc \ {p} : Local(q)'
  <2>1. \A g \in File : g # f => size'[g] = size[g] /\ addr'[g] = addr[g]
    BY <1>3 DEF IInv, TypeOK
  <2> QED
    BY <1>1, <1>2, <1>4, <2>1, OthersLocal DEF IInv
<1>9. CASE UNCHANGED <<addr, size, rest>>
  <2>1. TypeOK'
    BY <1>9 DEF IInv, TypeOK, Trunc, Runs, Yield, Location, core, blocks
  <2>2. Once' /\ Apart'
    <3>1. \A q \in Proc : pc[q] \in Marking => pc'[q] \in Marking
      BY <1>1 DEF Only, Marking
    <3> QED
      BY <1>2, <1>9, <3>1, QuietStep DEF IInv
  <2>3. OnDisk'
    <3>1. \A q \in Proc : pc[q] = "inode" => pc'[q] = "inode" /\ file'[q] = file[q] /\ rest'[q] = rest[q]
      BY <1>1, <1>9 DEF Only
    <3> QED
      BY <1>2, <1>9, <3>1, OnDiskStep DEF IInv
  <2> QED
    BY <1>5, <1>6, <1>7, <1>8, <2>1, <2>2, <2>3 DEF IInv
<1>10. CASE /\ addr' = [addr EXCEPT ![f] = <<>>] /\ size' = [size EXCEPT ![f] = 0]
            /\ rest' = [rest EXCEPT ![p] = Reverse(addr[f])]
  <2>1. Simple(Reverse(addr[f]), Blk) /\ ToSet(Reverse(addr[f])) = ToSet(addr[f])
    BY ReverseSimple DEF IInv, Once
  <2>2. /\ addr'[f] = <<>> /\ size'[f] = 0 /\ rest'[p] = Reverse(addr[f])
        /\ \A g \in File \ {f} : addr'[g] = addr[g] /\ size'[g] = size[g]
    BY <1>10 DEF IInv, TypeOK
  <2>3. ToSet(<<>>) = {} /\ <<>> \in Seq(Blk) /\ Simple(<<>>, Blk) /\ Len(<<>>) = 0
    BY DEF ToSet, Simple, IsInjective
  <2>4. TypeOK'
    <3>1. addr' \in [File -> Seq(Blk)] /\ rest' \in [Proc -> Seq(Blk)] /\ size' \in [File -> Nat]
      BY <1>10, <2>1, <2>3 DEF IInv, TypeOK, Simple
    <3>2. \A g \in File : size'[g] <= Len(addr'[g])
      BY SMTT(30), <2>2, <2>3 DEF IInv, TypeOK
    <3> QED
      BY <3>1, <3>2 DEF IInv, TypeOK, Trunc, Runs, Yield, Location, core, blocks
  <2>5. Apart'
    <3> DEFINE a == <<"file", f>>
               c == <<"hand", p>>
    <3>1. a \in Places /\ c \in Places /\ a # c
      BY PlaceKinds
    <3>2. Part(a)' = {} /\ Part(c)' = ToSet(addr[f]) \cup ({bno[p]} \ {Zero})
      BY <1>1, <2>1, <2>2, <2>3, PartKinds2 DEF Hand
    <3>3. Part(a) = ToSet(addr[f]) /\ {bno[p]} \ {Zero} \subseteq Part(c)
      BY PartKinds DEF Hand
    <3>4. ASSUME NEW x \in Places \ {a, c} PROVE Part(x)' \subseteq Part(x)
      <4>1. ASSUME NEW g \in File, x = <<"file", g>> PROVE Part(x)' \subseteq Part(x)
        BY <2>2, <4>1, PartKinds, PartKinds2
      <4>2. ASSUME NEW q \in Proc, x = <<"hand", q>> PROVE Part(x)' \subseteq Part(x)
        BY <1>1, <4>2, PartKinds, PartKinds2 DEF Hand, Only
      <4>3. ASSUME NEW b \in Blk, x = <<"list", b>> PROVE Part(x)' \subseteq Part(x)
        <5>1. Dead(b) => Dead(b)'
          BY <1>1, <1>2 DEF Dead, Only
        <5> QED
          BY <1>2, <4>3, <5>1, PartKinds, PartKinds2
      <4>4. ASSUME x = <<"free", Zero>> PROVE Part(x)' \subseteq Part(x)
        BY <1>2, <4>4, PartKinds, PartKinds2
      <4> QED
        BY <4>1, <4>2, <4>3, <4>4, PlaceKinds
    <3> HIDE DEF a, c
    <3> QED
      BY <3>1, <3>2, <3>3, <3>4, MoveStep DEF IInv
  <2>6. Once'
    <3>1. \A g \in File : Simple(addr'[g], Blk)
      BY <2>2, <2>3 DEF IInv, Once
    <3>2. bno[p] \notin ToSet(addr[f])
      <4>1. CASE bno[p] = Zero
        BY <4>1, BlkAssumption, <2>1, TailSimple DEF IInv, TypeOK, ToSet
      <4>2. CASE bno[p] # Zero
        BY <4>2, ApartKinds DEF IInv, Hand
      <4> QED
        BY <4>1, <4>2
    <3>3. \A q \in Proc : Simple(rest'[q], Blk) /\ bno'[q] \notin ToSet(rest'[q])
      BY <1>1, <2>1, <2>2, <3>2 DEF IInv, Once, Only
    <3> QED
      BY <1>2, <3>1, <3>3 DEF IInv, Once
  <2>7. OnDisk'
    <3>1. ASSUME NEW g \in File PROVE Owned(g) \subseteq Owned(g)'
      <4>1. \A q \in Proc : pc[q] = "inode" => /\ pc'[q] = "inode" /\ file'[q] = file[q]
                                               /\ rest'[q] = rest[q]
        BY <1>1 DEF Only
      <4>2. UNION {ToSet(rest[q]) : q \in {q \in Proc : pc[q] = "inode" /\ file[q] = g}} \subseteq Owned(g)'
        BY <4>1 DEF Owned
      <4>3. ToSet(addr[g]) \subseteq Owned(g)'
        <5>1. CASE g = f
          BY <1>1, <2>1, <2>2, <5>1 DEF Owned
        <5>2. CASE g # f
          BY <2>2, <5>2 DEF Owned
        <5> QED
          BY <5>1, <5>2
      <4> QED
        BY <4>2, <4>3 DEF Owned
    <3> QED
      BY <1>2, <3>1 DEF IInv, OnDisk
  <2> QED
    BY <1>5, <1>6, <1>7, <1>8, <2>4, <2>5, <2>6, <2>7 DEF IInv
<1> QED
  BY <1>3, <1>9, <1>10

LEMMA InodeWrittenInv ==
    ASSUME IInv, NEW p \in Proc, InodeWritten(p)
    PROVE  IInv'
<1>1. /\ pc[p] = "inode" /\ pc'[p] = "free" /\ file' = file
      /\ bno'[p] = bno[p] /\ rest'[p] = rest[p] /\ Only(p)
  BY DEF IInv, TypeOK, InodeWritten, Runs, Goto, Only
<1>2. UNCHANGED <<free, flock, cache, addr, size, chan, rest, bno>>
  BY DEF InodeWritten, core, blocks
<1>3. file[p] \in File
  BY <1>1 DEF IInv, Local
<1>4. TypeOK'
  BY <1>3 DEF IInv, TypeOK, InodeWritten, Runs, Goto, Location, core, blocks
<1>5. Once' /\ Apart'
  <2>1. \A q \in Proc : pc[q] \in Marking => pc'[q] \in Marking
    BY <1>1 DEF Only, Marking
  <2> QED
    BY <1>2, <2>1, QuietStep DEF IInv
<1>6. Local(p)'
  BY <1>1, <1>3 DEF Local, Holder
<1>7. \A q \in Proc \ {p} : Local(q)'
  <2>1. \A q \in Proc \ {p} : file[q] # file[p]
    BY <1>3, FileAssumption DEF IInv, Alone
  <2> QED
    BY <1>1, <1>2, <2>1, OthersLocal DEF IInv
<1>8. Alone'
  <2>1. \A q \in Proc : (Holder(q)' => Holder(q)) /\ file'[q] \in {file[q], NoFile}
    BY <1>1 DEF Only, Holder
  <2> QED
    BY <2>1, AloneStep DEF IInv
<1>9. OnDisk'
  <2>1. /\ dinode' = [dinode EXCEPT ![file[p]] = addr[file[p]]]
        /\ ddisk' = [ddisk EXCEPT ![file[p]] = addr[file[p]]]
    BY DEF InodeWritten
  <2> SUFFICES ASSUME NEW f \in File
               PROVE  ToSet(dinode'[f]) \subseteq Owned(f)' /\ ToSet(ddisk'[f]) \subseteq Owned(f)'
    BY DEF OnDisk
  <2>2. CASE f = file[p]
    <3>1. dinode'[f] = addr'[f] /\ ddisk'[f] = addr'[f]
      BY <1>2, <1>3, <2>1, <2>2 DEF IInv, TypeOK
    <3> QED
      BY <3>1 DEF Owned
  <2>3. CASE f # file[p]
    <3>1. dinode'[f] = dinode[f] /\ ddisk'[f] = ddisk[f]
      BY <2>1, <2>3 DEF IInv, TypeOK
    <3>2. \A q \in Proc : pc[q] = "inode" /\ file[q] = f => pc'[q] = "inode" /\ file'[q] = f
      BY <1>1, <2>3 DEF Only
    <3>3. Owned(f) \subseteq Owned(f)'
      BY <1>2, <3>2 DEF Owned
    <3> QED
      BY <3>1, <3>3 DEF IInv, OnDisk
  <2> QED
    BY <2>2, <2>3
<1>10. NoLostWakeup'
  BY <1>2, WakeStep DEF IInv
<1> QED
  BY <1>4, <1>5, <1>6, <1>7, <1>8, <1>9, <1>10 DEF IInv

(* Nobody does a thing. *)
LEMMA IdleStep ==
    ASSUME IInv, TypeOK', OnDisk',
           UNCHANGED <<free, flock, cache, addr, size, pc, chan, file, bno, rest>>
    PROVE  IInv'
<1>1. Once' /\ Apart'
  BY QuietStep DEF IInv
<1>2. \A q \in Proc : Local(q)'
  BY DEF IInv, Local, Holder
<1>3. Alone' /\ NoLostWakeup'
  BY DEF IInv, Alone, Holder, NoLostWakeup
<1> QED
  BY <1>1, <1>2, <1>3 DEF IInv

LEMMA BackInv ==
    ASSUME IInv,
           \/ \E f \in File : SyncInode(f) \/ FlushInode(f)
           \/ \E b \in Blk : FlushBlock(b)
    PROVE  IInv'
<1>1. ASSUME NEW f \in File, SyncInode(f) PROVE IInv'
  <2>1. UNCHANGED <<free, flock, cache, addr, size, pc, chan, file, bno, rest, ddisk>>
        /\ dinode' = [dinode EXCEPT ![f] = addr[f]]
    BY <1>1 DEF SyncInode, core, blocks, calls
  <2>2. TypeOK'
    BY <1>1, <2>1 DEF IInv, TypeOK, SyncInode, core, blocks, calls
  <2>3. \A g \in File : Owned(g)' = Owned(g)
    BY <2>1 DEF Owned
  <2>4. \A g \in File : dinode'[g] = IF g = f THEN addr[g] ELSE dinode[g]
    BY <2>1 DEF IInv, TypeOK
  <2>5. \A g \in File : ToSet(addr[g]) \subseteq Owned(g)
    BY DEF Owned
  <2>6. OnDisk'
    BY <2>1, <2>3, <2>4, <2>5 DEF IInv, OnDisk
  <2> QED
    BY <2>1, <2>2, <2>6, IdleStep
<1>2. ASSUME NEW f \in File, FlushInode(f) PROVE IInv'
  <2>1. UNCHANGED <<free, flock, cache, addr, size, pc, chan, file, bno, rest, dinode>>
        /\ ddisk' = [ddisk EXCEPT ![f] = dinode[f]]
    BY <1>2 DEF FlushInode, core, blocks, calls
  <2>2. TypeOK'
    BY <1>2, <2>1 DEF IInv, TypeOK, FlushInode, core, blocks, calls
  <2>3. \A g \in File : Owned(g)' = Owned(g)
    BY <2>1 DEF Owned
  <2>4. \A g \in File : ddisk'[g] = IF g = f THEN dinode[g] ELSE ddisk[g]
    BY <2>1 DEF IInv, TypeOK
  <2>5. OnDisk'
    BY <2>1, <2>3, <2>4 DEF IInv, OnDisk
  <2> QED
    BY <2>1, <2>2, <2>5, IdleStep
<1>3. ASSUME NEW b \in Blk, FlushBlock(b) PROVE IInv'
  <2>1. UNCHANGED <<free, flock, cache, addr, size, pc, chan, file, bno, rest, dinode, ddisk>>
    BY <1>3 DEF FlushBlock, core, files, calls
  <2>2. TypeOK'
    BY <1>3, <2>1 DEF IInv, TypeOK, FlushBlock, core, files, calls
  <2>3. OnDisk'
    BY <2>1 DEF IInv, OnDisk, Owned
  <2> QED
    BY <2>1, <2>2, <2>3, IdleStep
<1> QED
  BY <1>1, <1>2, <1>3

(* p works on the list of free blocks; nobody else does. *)
LEMMA ListStep ==
    ASSUME IInv, NEW p \in Proc, TypeOK', Once', Apart', Local(p)', Only(p),
           UNCHANGED <<addr, size, dinode, ddisk, file>>,
           Holder(p) \/ flock = FALSE,
           pc[p] # "inode",
           \A q \in Proc : chan'[q] = "flock" => flock' = TRUE \/ (chan[q] = "flock" /\ flock' = flock)
    PROVE  IInv'
<1>1. \A q \in Proc \ {p} : ~Holder(q)
  BY DEF IInv, Alone, Local
<1>2. ASSUME NEW q \in Proc PROVE Local(q)'
  <2>1. CASE q = p
    BY <2>1
  <2>2. CASE q # p
    <3>1. ~Holder(q) /\ pc[q] \notin {"super", "swrite"}
      BY <1>1, <2>2 DEF Holder
    <3> QED
      BY <2>2, <3>1, LocalStep DEF IInv, Only
  <2> QED
    BY <2>1, <2>2
<1>3. Alone'
  <2>1. CASE Holder(p)
    <3>1. \A q \in Proc : (Holder(q)' => Holder(q)) /\ file'[q] \in {file[q], NoFile}
      BY <2>1 DEF Only, Holder
    <3> QED
      BY <3>1, AloneStep DEF IInv
  <2>2. CASE flock = FALSE
    BY <2>2, AloneTake DEF IInv
  <2> QED
    BY <2>1, <2>2
<1>4. OnDisk'
  <2>1. \A q \in Proc : pc[q] = "inode" => pc'[q] = "inode" /\ file'[q] = file[q] /\ rest'[q] = rest[q]
    BY DEF Only
  <2> QED
    BY <2>1, OnDiskStep DEF IInv
<1>5. NoLostWakeup'
  BY WakeStep DEF IInv
<1> QED
  BY <1>2, <1>3, <1>4, <1>5 DEF IInv

LEMMA ChainInv ==
    ASSUME IInv, NEW p \in Proc, Chain(p)
    PROVE  IInv'
<1>1. /\ pc[p] = "chain" /\ pc'[p] = "super" /\ file' = file
      /\ bno'[p] = bno[p] /\ rest'[p] = rest[p] /\ Only(p)
      /\ free' = cache[bno[p]]
  BY DEF IInv, TypeOK, Chain, Runs, Yield, Only
<1>2. UNCHANGED <<flock, cache, addr, size, dinode, ddisk, chan, rest, bno>>
  BY DEF Chain, blocks, files
<1>3. bno[p] \in Blk /\ file[p] \in File /\ flock = TRUE
  BY <1>1 DEF IInv, Local, Holder
<1>4. Simple(free', Entry) /\ free' \in Seq(Blk \cup {Zero}) /\ Len(free') <= NICFREE
  BY <1>1, <1>3 DEF IInv, Once, Simple, Entry
<1>5. TypeOK'
  BY <1>4 DEF IInv, TypeOK, Chain, Runs, Yield, Location, List, blocks, files
<1>6. Once'
  BY <1>1, <1>2, <1>4 DEF IInv, Once
<1>7. Local(p)'
  BY <1>1, <1>2, <1>3 DEF Local, Holder
<1>8. Apart'
  <2>0. PICK d \in Blk : d = bno[p]
    BY <1>3
  <2> DEFINE a == <<"list", d>>
             c == <<"free", Zero>>
  <2>1. a \in Places /\ c \in Places /\ a # c
    BY PlaceKinds
  <2>2. ~Dead(d)
    <3> SUFFICES ASSUME NEW q \in Proc, pc[q] \in {"super", "swrite", "got"}, bno[q] = d PROVE FALSE
      BY DEF Dead
    <3>1. q # p
      BY <1>1
    <3>2. d \in Hand(p) /\ d \in Hand(q)
      BY <1>3, <2>0, BlkAssumption DEF Hand
    <3> QED
      BY <3>1, <3>2, ApartKinds DEF IInv
  <2>3. Dead(d)'
    BY <2>0, <1>1, <1>2 DEF Dead
  <2>4. Part(a) = ToSet(cache[d]) \ {Zero} /\ Part(a)' = {}
    BY <1>2, <2>2, <2>3, PartKinds, PartKinds2
  <2>5. Part(c)' = ToSet(cache[d]) \ {Zero}
    BY <1>1, <2>0, PartKinds2
  <2>6. ASSUME NEW x \in Places \ {a, c} PROVE Part(x)' \subseteq Part(x)
    <3>1. ASSUME NEW g \in File, x = <<"file", g>> PROVE Part(x)' \subseteq Part(x)
      BY <1>2, <3>1, PartKinds, PartKinds2
    <3>2. ASSUME NEW q \in Proc, x = <<"hand", q>> PROVE Part(x)' \subseteq Part(x)
      BY <1>2, <3>2, PartKinds, PartKinds2 DEF Hand
    <3>3. ASSUME NEW b \in Blk, x = <<"list", b>> PROVE Part(x)' \subseteq Part(x)
      <4>1. Dead(b) => Dead(b)'
        BY <1>1, <1>2 DEF Dead, Only
      <4> QED
        BY <1>2, <3>3, <4>1, PartKinds, PartKinds2
    <3> QED
      BY <3>1, <3>2, <3>3, PlaceKinds
  <2>7. Part(a)' \cup Part(c)' \subseteq Part(a) \cup Part(c) /\ Part(a)' \cap Part(c)' = {}
    BY <2>4, <2>5
  <2> HIDE DEF a, c
  <2> QED
    BY <2>1, <2>6, <2>7, MoveStep DEF IInv
<1> QED
  BY <1>1, <1>2, <1>5, <1>6, <1>7, <1>8, ListStep DEF Holder

LEMMA SuperWrittenInv ==
    ASSUME IInv, NEW p \in Proc, SuperWritten(p)
    PROVE  IInv'
<1>1. /\ pc[p] = "swrite" /\ pc'[p] \in {"full", "got"} /\ file' = file
      /\ free' = free /\ (pc'[p] = "full" => free = <<>>)
      /\ bno'[p] = bno[p] /\ rest'[p] = rest[p] /\ Only(p)
  BY DEF IInv, TypeOK, SuperWritten, Runs, Yield, Only, NoSpace, Unlock
<1>2. UNCHANGED <<cache, addr, size, dinode, ddisk, rest, bno>> /\ \A q \in Proc : chan'[q] = "none"
  BY DEF SuperWritten, Unlock, files
<1>3. bno[p] \in Blk /\ file[p] \in File /\ free = cache[bno[p]]
  BY <1>1 DEF IInv, Local
<1>4. TypeOK'
  BY ZenonT(60), <1>1 DEF IInv, TypeOK, SuperWritten, Runs, Yield, NoSpace, Unlock, Location, files
<1>5. Once'
  BY <1>1, <1>2 DEF IInv, Once
<1>6. Local(p)'
  BY <1>1, <1>2, <1>3 DEF Local, Holder
<1>7. Apart'
  <2>1. ASSUME NEW x \in Places PROVE Part(x)' \subseteq Part(x)
    <3>1. ASSUME NEW g \in File, x = <<"file", g>> PROVE Part(x)' \subseteq Part(x)
      BY <1>2, <3>1, PartKinds, PartKinds2
    <3>2. ASSUME NEW q \in Proc, x = <<"hand", q>> PROVE Part(x)' \subseteq Part(x)
      BY <1>2, <3>2, PartKinds, PartKinds2 DEF Hand
    <3>3. ASSUME NEW b \in Blk, x = <<"list", b>> PROVE Part(x)' \subseteq Part(x)
      <4>1. CASE b = bno[p] /\ free = <<>>
        <5>1. ToSet(cache'[b]) = {}
          BY <1>2, <1>3, <4>1 DEF ToSet
        <5> QED
          BY <3>3, <5>1, PartKinds2
      <4>2. CASE ~(b = bno[p] /\ free = <<>>)
        <5>1. Dead(b) => Dead(b)'
          BY <1>1, <1>2, <4>2 DEF Dead, Only
        <5> QED
          BY <1>2, <3>3, <5>1, PartKinds, PartKinds2
      <4> QED
        BY <4>1, <4>2
    <3>4. ASSUME x = <<"free", Zero>> PROVE Part(x)' \subseteq Part(x)
      BY <1>1, <3>4, PartKinds, PartKinds2
    <3> QED
      BY <3>1, <3>2, <3>3, <3>4, PlaceKinds
  <2> QED
    BY <2>1, KeepStep DEF IInv
<1> QED
  BY <1>1, <1>2, <1>4, <1>5, <1>6, <1>7, ListStep DEF Holder

LEMMA GotInv ==
    ASSUME IInv, NEW p \in Proc, Got(p)
    PROVE  IInv'
<1>0. PICK b \in Blk, f \in File : b = bno[p] /\ f = file[p]
  BY DEF IInv, Local, Got, Runs
<1>1. /\ pc[p] = "got" /\ pc'[p] = "fill" /\ file' = file
      /\ bno'[p] = Zero /\ rest'[p] = rest[p] /\ Only(p)
      /\ cache' = [cache EXCEPT ![b] = Data] /\ addr' = [addr EXCEPT ![f] = Append(addr[f], b)]
  BY <1>0 DEF IInv, TypeOK, Got, Runs, Yield, Only
<1>2. UNCHANGED <<free, flock, size, dinode, ddisk, chan, rest>>
  BY DEF Got
<1>3. b \in Blk /\ f \in File /\ b # Zero
  BY BlkAssumption
<1>4. b \in Hand(p)
  BY <1>0, <1>3 DEF Hand
<1>5. /\ cache'[b] = <<>> /\ \A c \in Blk \ {b} : cache'[c] = cache[c]
      /\ addr'[f] = Append(addr[f], b) /\ \A g \in File \ {f} : addr'[g] = addr[g]
  BY <1>1, <1>3 DEF IInv, TypeOK, Data
<1>6. ToSet(<<>>) = {} /\ <<>> \in Seq(Entry) /\ Simple(<<>>, Entry) /\ Len(<<>>) = 0
  BY DEF ToSet, Simple, IsInjective
<1>7. /\ Simple(addr'[f], Blk) /\ ToSet(addr'[f]) = ToSet(addr[f]) \cup {b}
      /\ Len(addr'[f]) = Len(addr[f]) + 1 /\ Len(addr[f]) \in Nat
  <2>1. Simple(addr[f], Blk) /\ b \notin ToSet(addr[f])
    BY <1>3, <1>4, ApartKinds DEF IInv, Once
  <2>2. Len(Append(addr[f], b)) = Len(addr[f]) + 1 /\ Len(addr[f]) \in Nat
    BY <1>3, <2>1, AppendProperties, LenProperties DEF Simple
  <2> QED
    BY <1>3, <1>5, <2>1, <2>2, AppendSimple
<1>8. \A q \in Proc \ {p} : bno[q] # b
  BY <1>3, <1>4, ApartKinds DEF IInv, Hand
<1>9. TypeOK'
  <2>1. addr' \in [File -> Seq(Blk)] /\ cache' \in [Blk -> List]
    BY <1>1, <1>3, <1>5, <1>6, <1>7 DEF IInv, TypeOK, Simple, Entry, List, Data
  <2>2. \A g \in File : size'[g] <= Len(addr'[g])
    <3>1. \A g \in File : size[g] \in Nat /\ size[g] <= Len(addr[g])
      BY DEF IInv, TypeOK
    <3> QED
      BY <1>2, <1>3, <1>5, <1>7, <3>1
  <2> QED
    BY <2>1, <2>2 DEF IInv, TypeOK, Got, Runs, Yield, Location
<1>10. Once'
  <2>1. \A q \in Proc : Simple(rest'[q], Blk) /\ bno'[q] \notin ToSet(rest'[q])
    <3>1. Zero \notin ToSet(rest[p])
      BY BlkAssumption DEF IInv, TypeOK, ToSet
    <3> QED
      BY <1>1, <1>2, <3>1 DEF IInv, Once, Only
  <2>2. \A c \in Blk : Simple(cache'[c], Entry) /\ Len(cache'[c]) <= NICFREE
    BY <1>5, <1>6, ListAssumption DEF IInv, Once
  <2>3. \A g \in File : Simple(addr'[g], Blk)
    BY <1>5, <1>7 DEF IInv, Once
  <2> QED
    BY <1>2, <2>1, <2>2, <2>3 DEF IInv, Once
<1>11. Apart'
  <2> DEFINE a == <<"hand", p>>
             c == <<"file", f>>
  <2>1. a \in Places /\ c \in Places /\ a # c
    BY <1>3, PlaceKinds
  <2>2. Part(a) = Hand(p) /\ Part(a)' = ToSet(rest[p])
    <3>1. Hand(p)' = ToSet(rest[p])
      BY <1>1 DEF Hand
    <3> QED
      BY <3>1, PartKinds, PartKinds2
  <2>3. Part(c) = ToSet(addr[f]) /\ Part(c)' = ToSet(addr[f]) \cup {b}
    <3>1. Part(c)' = ToSet(addr'[f])
      BY <1>3, PartKinds2
    <3> QED
      BY <1>3, <1>7, <3>1, PartKinds
  <2>4. ASSUME NEW x \in Places \ {a, c} PROVE Part(x)' \subseteq Part(x)
    <3>1. ASSUME NEW g \in File, x = <<"file", g>> PROVE Part(x)' \subseteq Part(x)
      BY <1>5, <3>1, PartKinds, PartKinds2
    <3>2. ASSUME NEW q \in Proc, x = <<"hand", q>> PROVE Part(x)' \subseteq Part(x)
      BY <1>1, <3>2, PartKinds, PartKinds2 DEF Hand, Only
    <3>3. ASSUME NEW d \in Blk, x = <<"list", d>> PROVE Part(x)' \subseteq Part(x)
      <4>1. CASE d = b
        BY <1>5, <1>6, <3>3, <4>1, PartKinds2
      <4>2. CASE d # b
        <5>1. Dead(d) => Dead(d)'
          BY <1>0, <1>1, <4>2 DEF Dead, Only
        <5> QED
          BY <1>5, <3>3, <4>2, <5>1, PartKinds, PartKinds2
      <4> QED
        BY <4>1, <4>2
    <3>4. ASSUME x = <<"free", Zero>> PROVE Part(x)' \subseteq Part(x)
      BY <1>2, <3>4, PartKinds, PartKinds2
    <3> QED
      BY <3>1, <3>2, <3>3, <3>4, PlaceKinds
  <2>5. Part(a)' \subseteq Part(a) /\ b \in Part(a) /\ Part(a)' \cap Part(c)' = {}
    <3>1. ToSet(rest[p]) \subseteq Hand(p) /\ b \notin ToSet(rest[p])
      BY <1>0 DEF IInv, Once, Hand
    <3>2. ToSet(addr[f]) \cap Hand(p) = {}
      BY <1>3, ApartKinds DEF IInv
    <3> QED
      BY <1>4, <2>2, <2>3, <3>1, <3>2
  <2>6. Part(a)' \cup Part(c)' \subseteq Part(a) \cup Part(c)
    BY <2>3, <2>5
  <2> HIDE DEF a, c
  <2> QED
    BY <2>1, <2>4, <2>5, <2>6, MoveStep DEF IInv
<1>12. Local(p)'
  <2>1. size[f] \in Nat /\ size[f] <= Len(addr[f])
    BY <1>3 DEF IInv, TypeOK
  <2>2. size'[file'[p]] < Len(addr'[file'[p]]) /\ file'[p] \in File
    BY <1>0, <1>1, <1>2, <1>3, <1>7, <2>1
  <2> QED
    BY <1>1, <2>2 DEF Local, Holder
<1>13. \A q \in Proc \ {p} : Local(q)'
  <2>1. \A q \in Proc \ {p} : file[q] # f
    BY <1>0, <1>3, FileAssumption DEF IInv, Alone
  <2>2. \A g \in File : g # f => size'[g] = size[g] /\ addr'[g] = addr[g]
    BY <1>2, <1>5
  <2>3. \A q \in Proc \ {p} : cache'[bno[q]] = cache[bno[q]]
    BY <1>1, <1>8 DEF IInv, TypeOK
  <2> QED
    BY ZenonT(60), <1>1, <1>2, <2>1, <2>2, <2>3, OthersLocal DEF IInv
<1>14. Alone'
  <2>1. \A q \in Proc : (Holder(q)' => Holder(q)) /\ file'[q] \in {file[q], NoFile}
    BY <1>1 DEF Only, Holder
  <2> QED
    BY <2>1, AloneStep DEF IInv
<1>15. OnDisk'
  <2>1. \A q \in Proc : pc[q] = "inode" => pc'[q] = "inode" /\ file'[q] = file[q] /\ rest'[q] = rest[q]
    BY <1>1, <1>2 DEF Only
  <2>2. \A g \in File : ToSet(addr[g]) \subseteq ToSet(addr'[g])
    BY <1>5, <1>7
  <2> QED
    BY <1>2, <2>1, <2>2, OnDiskStep DEF IInv
<1>16. NoLostWakeup'
  BY <1>2, WakeStep DEF IInv
<1> QED
  BY <1>9, <1>10, <1>11, <1>12, <1>13, <1>14, <1>15, <1>16 DEF IInv

LEMMA PopInv ==
    ASSUME IInv, NEW p \in Proc, Pop(p)
    PROVE  IInv'
<1>1. /\ pc[p] = "alloc" /\ file' = file /\ rest' = rest /\ Only(p)
      /\ \/ /\ free' = <<>> /\ flock' = flock /\ bno' = bno /\ pc'[p] = "full"
         \/ /\ free # <<>> /\ Last(free) # Zero /\ free' = Front(free)
            /\ bno' = [bno EXCEPT ![p] = Last(free)]
            /\ flock' = (Len(free) = 1)
            /\ pc'[p] = IF Len(free) = 1 THEN "chain" ELSE "got"
  BY DEF IInv, TypeOK, Pop, Runs, Yield, Only, NoSpace
<1>2. UNCHANGED <<cache, addr, size, dinode, ddisk, chan, rest>> /\ flock = FALSE
  BY DEF Pop, blocks, files, IInv, TypeOK
<1>3. file[p] \in File
  BY <1>1 DEF IInv, Local
<1>4. \A q \in Proc : chan'[q] # "flock"
  BY <1>2 DEF IInv, NoLostWakeup
<1>5. pc' \in [Proc -> Location] /\ cpu' \in Proc \cup {NoProc}
  BY DEF IInv, TypeOK, Pop, NoSpace, Yield, Location
<1>6. ToSet(<<>>) = {} /\ <<>> \in Seq(Entry) /\ Simple(<<>>, Entry) /\ Len(<<>>) = 0
  BY DEF ToSet, Simple, IsInjective
<1>7. CASE free' = <<>> /\ flock' = flock /\ bno' = bno /\ pc'[p] = "full"
  <2>1. TypeOK'
    BY <1>1, <1>2, <1>5, <1>6, <1>7, ListAssumption DEF IInv, TypeOK, Pop, blocks, files, List, Entry
  <2>2. Once'
    BY <1>2, <1>6, <1>7 DEF IInv, Once
  <2>3. Local(p)'
    BY <1>1, <1>3, <1>7 DEF Local, Holder
  <2>4. Apart'
    <3>1. ASSUME NEW x \in Places PROVE Part(x)' \subseteq Part(x)
      <4>1. ASSUME NEW g \in File, x = <<"file", g>> PROVE Part(x)' \subseteq Part(x)
        BY <1>2, <4>1, PartKinds, PartKinds2
      <4>2. ASSUME NEW q \in Proc, x = <<"hand", q>> PROVE Part(x)' \subseteq Part(x)
        BY <1>2, <1>7, <4>2, PartKinds, PartKinds2 DEF Hand
      <4>3. ASSUME NEW d \in Blk, x = <<"list", d>> PROVE Part(x)' \subseteq Part(x)
        <5>1. Dead(d) => Dead(d)'
          BY <1>1, <1>7 DEF Dead, Only
        <5> QED
          BY <1>2, <4>3, <5>1, PartKinds, PartKinds2
      <4>4. ASSUME x = <<"free", Zero>> PROVE Part(x)' \subseteq Part(x)
        BY <1>6, <1>7, <4>4, PartKinds, PartKinds2
      <4> QED
        BY <4>1, <4>2, <4>3, <4>4, PlaceKinds
    <3> QED
      BY <3>1, KeepStep DEF IInv
  <2> QED
    BY <1>1, <1>2, <1>4, <2>1, <2>2, <2>3, <2>4, ListStep
<1>8. CASE /\ free # <<>> /\ Last(free) # Zero /\ free' = Front(free)
           /\ bno' = [bno EXCEPT ![p] = Last(free)]
           /\ flock' = (Len(free) = 1)
           /\ pc'[p] = IF Len(free) = 1 THEN "chain" ELSE "got"
  <2>1. /\ Last(free) \in Entry /\ Last(free) \in ToSet(free) /\ Simple(free', Entry)
        /\ ToSet(free') = ToSet(free) \ {Last(free)} /\ Len(free') = Len(free) - 1
    BY <1>8, FrontSimple DEF IInv, Once
  <2>2. PICK b \in Blk : b = Last(free)
    BY <1>8, <2>1 DEF Entry
  <2>3. bno'[p] = b /\ \A q \in Proc \ {p} : bno'[q] = bno[q]
    BY <1>8, <2>2 DEF IInv, TypeOK
  <2>4. b # Zero /\ b \in ToSet(free) /\ b \notin ToSet(free') /\ b \notin ToSet(rest[p])
    BY <1>8, <2>1, <2>2, BlkAssumption, ApartKinds DEF IInv, Hand
  <2>5. TypeOK'
    <3>1. Len(free') <= NICFREE
      <4>1. Len(free) \in Nat /\ Len(free) <= NICFREE /\ NICFREE \in Nat
        BY ListAssumption, LenProperties DEF IInv, TypeOK
      <4> QED
        BY <2>1, <4>1
    <3>2. flock' \in BOOLEAN
      BY <1>8
    <3>3. bno' \in [Proc -> Blk \cup {Zero}]
      BY <1>8, <2>2 DEF IInv, TypeOK
    <3> QED
      BY <1>1, <1>2, <1>5, <2>1, <3>1, <3>2, <3>3 DEF IInv, TypeOK, Pop, blocks, files, Simple, Entry, List
  <2>6. Once'
    <3>1. \A q \in Proc : Simple(rest'[q], Blk) /\ bno'[q] \notin ToSet(rest'[q])
      BY <1>2, <2>3, <2>4 DEF IInv, Once
    <3> QED
      BY <1>2, <2>1, <3>1 DEF IInv, Once
  <2>7. Local(p)'
    <3>1. Len(free) = 1 => flock' = TRUE
      BY <1>8
    <3> QED
      BY <1>1, <1>3, <1>8, <2>3, <3>1 DEF Local, Holder
  <2>8. Apart'
    <3> DEFINE a == <<"free", Zero>>
               c == <<"hand", p>>
    <3>1. a \in Places /\ c \in Places /\ a # c
      BY PlaceKinds
    <3>2. Part(a) = ToSet(free) \ {Zero} /\ Part(a)' = ToSet(free') \ {Zero}
      BY PartKinds, PartKinds2
    <3>3. Part(c)' = ToSet(rest[p]) \cup {b} /\ ToSet(rest[p]) \subseteq Part(c)
      <4>1. Hand(p)' = ToSet(rest[p]) \cup {b}
        BY <1>2, <2>3, <2>4 DEF Hand
      <4> QED
        BY <4>1, PartKinds, PartKinds2 DEF Hand
    <3>4. Part(a)' \cup Part(c)' \subseteq Part(a) \cup Part(c)
      BY <2>1, <2>4, <3>2, <3>3
    <3>5. Part(a)' \cap Part(c)' = {}
      <4>1. ToSet(rest[p]) \cap (ToSet(free) \ {Zero}) = {}
        BY ApartKinds DEF IInv, Hand
      <4> QED
        BY <2>1, <2>4, <3>2, <3>3, <4>1
    <3>6. ASSUME NEW x \in Places \ {a, c} PROVE Part(x)' \subseteq Part(x)
      <4>1. ASSUME NEW g \in File, x = <<"file", g>> PROVE Part(x)' \subseteq Part(x)
        BY <1>2, <4>1, PartKinds, PartKinds2
      <4>2. ASSUME NEW q \in Proc, x = <<"hand", q>> PROVE Part(x)' \subseteq Part(x)
        BY <1>2, <2>3, <4>2, PartKinds, PartKinds2 DEF Hand
      <4>3. ASSUME NEW d \in Blk, x = <<"list", d>> PROVE Part(x)' \subseteq Part(x)
        <5>1. Dead(d) => Dead(d)'
          BY <1>1, <2>3 DEF Dead, Only
        <5> QED
          BY <1>2, <4>3, <5>1, PartKinds, PartKinds2
      <4> QED
        BY <4>1, <4>2, <4>3, PlaceKinds
    <3> HIDE DEF a, c
    <3> QED
      BY <3>1, <3>4, <3>5, <3>6, MoveStep DEF IInv
  <2> QED
    BY <1>1, <1>2, <1>4, <2>5, <2>6, <2>7, <2>8, ListStep
<1> QED
  BY <1>1, <1>7, <1>8

(* The head of p's blocks goes to the list, which becomes l. *)
LEMMA GiveStep ==
    ASSUME IInv, NEW p \in Proc, Only(p), rest[p] # <<>>, rest'[p] = Tail(rest[p]), bno' = bno,
           rest' \in [Proc -> Seq(Blk)],
           UNCHANGED <<cache, addr>>,
           Simple(free', Entry),
           ToSet(free') \subseteq ToSet(free) \cup {Head(rest[p]), Zero},
           pc[p] \notin Marking
    PROVE  Once' /\ Apart'
<1>1. /\ Simple(rest[p], Blk) /\ Simple(rest'[p], Blk)
      /\ ToSet(rest'[p]) = ToSet(rest[p]) \ {Head(rest[p])}
      /\ Head(rest[p]) \in Blk /\ Head(rest[p]) \in ToSet(rest[p])
  <2>1. Simple(rest[p], Blk)
    BY DEF IInv, Once
  <2>2. /\ Head(rest[p]) \in Blk /\ Head(rest[p]) \in ToSet(rest[p])
        /\ Simple(Tail(rest[p]), Blk) /\ ToSet(Tail(rest[p])) = ToSet(rest[p]) \ {Head(rest[p])}
    BY <2>1, TailSimple
  <2> QED
    BY <2>1, <2>2
<1>2. PICK h \in Blk : h = Head(rest[p])
  BY <1>1
<1>3. Once'
  <2>1. \A q \in Proc : Simple(rest'[q], Blk) /\ bno'[q] \notin ToSet(rest'[q])
    BY <1>1 DEF IInv, Once, Only
  <2> QED
    BY <2>1 DEF IInv, Once
<1>4. Apart'
  <2> DEFINE a == <<"hand", p>>
             c == <<"free", Zero>>
  <2>1. a \in Places /\ c \in Places /\ a # c
    BY PlaceKinds
  <2>2. Part(a) = Hand(p) /\ Part(a)' = Hand(p) \ {h} /\ h \in Hand(p)
    <3>1. Hand(p)' = Hand(p) \ {h} /\ h \in Hand(p)
      BY <1>1, <1>2 DEF Hand, IInv, Once
    <3> QED
      BY <3>1, PartKinds, PartKinds2
  <2>3. Part(c) = ToSet(free) \ {Zero} /\ Part(c)' \subseteq (ToSet(free) \ {Zero}) \cup {h}
    BY <1>2, PartKinds, PartKinds2
  <2>4. Part(a)' \cup Part(c)' \subseteq Part(a) \cup Part(c)
    BY <2>2, <2>3
  <2>5. Part(a)' \cap Part(c)' = {}
    <3>1. Hand(p) \cap (ToSet(free) \ {Zero}) = {}
      BY ApartKinds DEF IInv
    <3> QED
      BY <2>2, <2>3, <3>1
  <2>6. ASSUME NEW x \in Places \ {a, c} PROVE Part(x)' \subseteq Part(x)
    <3>1. ASSUME NEW g \in File, x = <<"file", g>> PROVE Part(x)' \subseteq Part(x)
      BY <3>1, PartKinds, PartKinds2
    <3>2. ASSUME NEW q \in Proc, x = <<"hand", q>> PROVE Part(x)' \subseteq Part(x)
      BY ZenonT(60), <3>2, PartKinds, PartKinds2 DEF Hand, Only
    <3>3. ASSUME NEW d \in Blk, x = <<"list", d>> PROVE Part(x)' \subseteq Part(x)
      <4>1. Dead(d) => Dead(d)'
        BY DEF Dead, Only, Marking
      <4> QED
        BY ZenonT(60), <3>3, <4>1, PartKinds, PartKinds2
    <3> QED
      BY <3>1, <3>2, <3>3, PlaceKinds
  <2> HIDE DEF a, c
  <2> QED
    BY <2>1, <2>4, <2>5, <2>6, MoveStep DEF IInv
<1> QED
  BY <1>3, <1>4

LEMMA FreeInv ==
    ASSUME IInv, NEW p \in Proc, Free(p)
    PROVE  IInv'
<1>1. /\ pc[p] = "free" /\ rest[p] # <<>> /\ flock = FALSE
      /\ file' = file /\ bno' = bno /\ Only(p)
      /\ \/ /\ Len(Ended(free)) < NICFREE
            /\ free' = Append(Ended(free), Head(rest[p]))
            /\ rest' = [rest EXCEPT ![p] = Tail(rest[p])]
            /\ flock' = flock /\ pc'[p] = "free"
         \/ free' = free /\ rest' = rest /\ flock' = TRUE /\ pc'[p] = "list"
  BY DEF IInv, TypeOK, Free, Runs, Goto, Yield, Only
<1>2. UNCHANGED <<cache, addr, size, dinode, ddisk, chan>>
  BY DEF Free, blocks, files
<1>3. file[p] \in File
  BY <1>1 DEF IInv, Local
<1>4. \A q \in Proc : chan'[q] # "flock"
  BY <1>1, <1>2 DEF IInv, NoLostWakeup
<1>5. pc' \in [Proc -> Location] /\ cpu' \in Proc \cup {NoProc} /\ fmod' \in BOOLEAN
  BY DEF IInv, TypeOK, Free, Goto, Yield, Location
<1>6. CASE /\ Len(Ended(free)) < NICFREE
           /\ free' = Append(Ended(free), Head(rest[p]))
           /\ rest' = [rest EXCEPT ![p] = Tail(rest[p])]
           /\ flock' = flock /\ pc'[p] = "free"
  <2>1. /\ Head(rest[p]) \in Blk /\ Head(rest[p]) \in ToSet(rest[p]) /\ Tail(rest[p]) \in Seq(Blk)
    BY <1>1, TailSimple DEF IInv, Once, Simple
  <2>2. PICK h \in Blk : h = Head(rest[p])
    BY <2>1
  <2>3. h # Zero /\ h \notin ToSet(free)
    BY <2>1, <2>2, BlkAssumption, ApartKinds DEF IInv, Hand
  <2>4. Simple(Ended(free), Entry) /\ ToSet(Ended(free)) \subseteq ToSet(free) \cup {Zero}
    <3>1. Simple(<<Zero>>, Entry) /\ ToSet(<<Zero>>) = {Zero}
      BY DEF Simple, Entry, IsInjective, ToSet
    <3> QED
      BY <3>1 DEF Ended, IInv, Once
  <2>5. /\ Simple(free', Entry) /\ ToSet(free') \subseteq ToSet(free) \cup {h, Zero}
        /\ Len(free') = Len(Ended(free)) + 1
    <3>1. h \in Entry /\ h \notin ToSet(Ended(free)) /\ Ended(free) \in Seq(Entry)
      BY <2>3, <2>4 DEF Entry, Simple
    <3>2. free' = Append(Ended(free), h)
      BY <1>6, <2>2
    <3> QED
      BY <2>4, <3>1, <3>2, AppendSimple, AppendProperties
  <2>6. rest' \in [Proc -> Seq(Blk)] /\ rest'[p] = Tail(rest[p])
    BY <1>6, <2>1 DEF IInv, TypeOK
  <2>7. TypeOK'
    <3>1. Len(free') <= NICFREE
      <4>1. Len(Ended(free)) \in Nat /\ NICFREE \in Nat
        BY <2>4, ListAssumption, LenProperties DEF Simple
      <4> QED
        BY <1>6, <2>5, <4>1
    <3> QED
      BY <1>1, <1>2, <1>5, <1>6, <2>5, <2>6, <3>1 DEF IInv, TypeOK, Free, blocks, files, Simple, Entry, List
  <2>8. Once' /\ Apart'
    <3>1. ToSet(free') \subseteq ToSet(free) \cup {Head(rest[p]), Zero}
      BY <2>2, <2>5
    <3> QED
      BY <1>1, <1>2, <2>5, <2>6, <3>1, GiveStep DEF Marking
  <2>9. Local(p)'
    BY <1>1, <1>3, <1>6 DEF Local, Holder
  <2> QED
    BY <1>1, <1>2, <1>4, <2>7, <2>8, <2>9, ListStep
<1>7. CASE free' = free /\ rest' = rest /\ flock' = TRUE /\ pc'[p] = "list"
  <2>1. TypeOK'
    BY <1>1, <1>2, <1>5, <1>7 DEF IInv, TypeOK, Free, blocks, files
  <2>2. Once' /\ Apart'
    <3>1. \A q \in Proc : pc[q] \in Marking => pc'[q] \in Marking
      BY <1>1 DEF Only, Marking
    <3> QED
      BY <1>1, <1>2, <1>7, <3>1, QuietStep DEF IInv
  <2>3. Local(p)'
    BY <1>1, <1>3, <1>7 DEF Local, Holder
  <2> QED
    BY <1>1, <1>2, <1>4, <2>1, <2>2, <2>3, ListStep
<1> QED
  BY <1>1, <1>6, <1>7

LEMMA ListCopyInv ==
    ASSUME IInv, NEW p \in Proc, ListCopy(p)
    PROVE  IInv'
<1>1. /\ pc[p] = "list" /\ pc'[p] = "lwrite" /\ file' = file /\ rest' = rest /\ bno' = bno
      /\ free' = <<>> /\ Only(p)
      /\ cache' = [cache EXCEPT ![Head(rest[p])] = free]
  BY DEF IInv, TypeOK, ListCopy, Runs, Yield, Only
<1>2. UNCHANGED <<flock, addr, size, dinode, ddisk, chan>>
  BY DEF ListCopy, files
<1>3. rest[p] # <<>> /\ file[p] \in File /\ flock = TRUE
  BY <1>1 DEF IInv, Local, Holder
<1>4. PICK h \in Blk : h = Head(rest[p])
  BY <1>3, TailSimple DEF IInv, Once
<1>5. cache'[h] = free /\ \A d \in Blk \ {h} : cache'[d] = cache[d]
  BY <1>1, <1>4 DEF IInv, TypeOK
<1>6. ToSet(<<>>) = {} /\ <<>> \in Seq(Entry) /\ Simple(<<>>, Entry) /\ Len(<<>>) = 0
  BY DEF ToSet, Simple, IsInjective
<1>7. TypeOK'
  <2>1. cache' \in [Blk -> List]
    BY <1>1 DEF IInv, TypeOK
  <2> QED
    BY SMTT(30), <1>1, <1>6, <2>1, ListAssumption DEF IInv, TypeOK, ListCopy, Yield, Location, files, List, Entry
<1>8. Once'
  <2>1. \A d \in Blk : Simple(cache'[d], Entry) /\ Len(cache'[d]) <= NICFREE
    BY <1>5 DEF IInv, Once, TypeOK
  <2> QED
    BY <1>1, <1>2, <1>6, <2>1 DEF IInv, Once
<1>9. Local(p)'
  BY <1>1, <1>2, <1>3 DEF Local, Holder
<1>10. Apart'
  <2> DEFINE a == <<"free", Zero>>
             c == <<"list", h>>
  <2>1. a \in Places /\ c \in Places /\ a # c
    BY PlaceKinds
  <2>2. Part(a) = ToSet(free) \ {Zero} /\ Part(a)' = {}
    BY <1>1, <1>6, PartKinds, PartKinds2
  <2>3. Part(c)' \subseteq ToSet(free) \ {Zero}
    BY <1>5, PartKinds2
  <2>4. ASSUME NEW x \in Places \ {a, c} PROVE Part(x)' \subseteq Part(x)
    <3>1. ASSUME NEW g \in File, x = <<"file", g>> PROVE Part(x)' \subseteq Part(x)
      BY <1>2, <3>1, PartKinds, PartKinds2
    <3>2. ASSUME NEW q \in Proc, x = <<"hand", q>> PROVE Part(x)' \subseteq Part(x)
      BY <1>1, <3>2, PartKinds, PartKinds2 DEF Hand
    <3>3. ASSUME NEW d \in Blk, x = <<"list", d>> PROVE Part(x)' \subseteq Part(x)
      <4>1. Dead(d) => Dead(d)'
        BY <1>1 DEF Dead, Only
      <4> QED
        BY ZenonT(60), <1>5, <3>3, <4>1, PartKinds, PartKinds2
    <3> QED
      BY <3>1, <3>2, <3>3, PlaceKinds
  <2>5. Part(a)' \cup Part(c)' \subseteq Part(a) \cup Part(c) /\ Part(a)' \cap Part(c)' = {}
    BY <2>2, <2>3
  <2> HIDE DEF a, c
  <2> QED
    BY <2>1, <2>4, <2>5, MoveStep DEF IInv
<1> QED
  BY <1>1, <1>2, <1>7, <1>8, <1>9, <1>10, ListStep DEF Holder

LEMMA ListWrittenInv ==
    ASSUME IInv, NEW p \in Proc, ListWritten(p)
    PROVE  IInv'
<1>1. /\ pc[p] = "lwrite" /\ pc'[p] = "free" /\ file' = file /\ bno' = bno /\ Only(p)
      /\ free' = <<Head(rest[p])>> /\ rest' = [rest EXCEPT ![p] = Tail(rest[p])]
  BY DEF IInv, TypeOK, ListWritten, Runs, Goto, Only
<1>2. UNCHANGED <<cache, addr, size, dinode, ddisk>> /\ \A q \in Proc : chan'[q] = "none"
  BY DEF ListWritten, Unlock, files
<1>3. rest[p] # <<>> /\ file[p] \in File
  BY <1>1 DEF IInv, Local
<1>4. Head(rest[p]) \in Blk /\ Tail(rest[p]) \in Seq(Blk)
  BY <1>3, TailSimple DEF IInv, Once, Simple
<1>5. rest' \in [Proc -> Seq(Blk)] /\ rest'[p] = Tail(rest[p])
  BY <1>1, <1>4 DEF IInv, TypeOK
<1>6. Simple(free', Entry) /\ ToSet(free') = {Head(rest[p])} /\ Len(free') = 1
  BY <1>1, <1>4 DEF Simple, Entry, IsInjective, ToSet
<1>7. TypeOK'
  <2>1. disk' \in [Blk -> List]
    BY <1>4 DEF IInv, TypeOK, ListWritten
  <2>2. Len(free') <= NICFREE
    BY <1>6, ListAssumption
  <2> QED
    BY <1>1, <1>5, <1>6, <2>1, <2>2
       DEF IInv, TypeOK, ListWritten, Goto, Unlock, Location, files, List, Entry, Simple
<1>8. Once' /\ Apart'
  BY <1>1, <1>2, <1>3, <1>5, <1>6, GiveStep DEF Marking
<1>9. Local(p)'
  BY <1>1, <1>3 DEF Local, Holder
<1> QED
  BY <1>1, <1>2, <1>7, <1>8, <1>9, ListStep DEF Holder

-----------------------------------------------------------------------------
(* The places of the blocks stay apart *)

LEMMA IInvInit == Init => IInv
<1> SUFFICES ASSUME Init PROVE IInv
  OBVIOUS
<1>1. /\ addr \in [File -> Seq(Blk)]
      /\ \A f \in File : IsInjective(addr[f]) /\ Len(addr[f]) \in Nat
      /\ \A f, g \in File : f # g => ToSet(addr[f]) \cap ToSet(addr[g]) = {}
  BY StartAssumption, LenProperties DEF Init
<1>2. /\ ToSet(<<>>) = {} /\ <<>> \in Seq(Entry) /\ <<>> \in Seq(Blk) /\ Len(<<>>) = 0
      /\ Simple(<<>>, Entry) /\ Simple(<<>>, Blk)
  BY DEF ToSet, Simple, IsInjective
<1>3. TypeOK
  <2>1. \A f \in File : size[f] <= Len(addr[f]) /\ size[f] \in Nat
    BY <1>1 DEF Init
  <2>2. size \in [File -> Nat]
    BY <2>1 DEF Init
  <2>3. free \in List /\ Len(free) <= NICFREE /\ super \in List /\ sbuf \in List
    BY <1>2, ListAssumption DEF Init, List, Entry
  <2>4. cache \in [Blk -> List] /\ disk \in [Blk -> List]
    BY <1>2 DEF Init, List, Entry, Data
  <2>5. rest \in [Proc -> Seq(Blk)] /\ bno \in [Proc -> Blk \cup {Zero}]
    BY <1>2 DEF Init
  <2> QED
    BY <1>1, <2>1, <2>2, <2>3, <2>4, <2>5 DEF Init, TypeOK, Location
<1>4. Once
  BY <1>1, <1>2, ListAssumption DEF Init, Once, Simple, Data
<1>5. Apart
  <2>1. \A f \in File : Part(<<"file", f>>) = ToSet(addr[f])
    BY PartKinds
  <2>2. \A p \in Proc : Part(<<"hand", p>>) = {}
    BY <1>2, PartKinds DEF Hand, Init
  <2>3. \A b \in Blk : Part(<<"list", b>>) = {}
    BY <1>2, PartKinds DEF Init, Data
  <2>4. Part(<<"free", Zero>>) = {}
    BY <1>2, PartKinds DEF Init
  <2> SUFFICES ASSUME NEW x \in Places, NEW y \in Places, x # y PROVE Part(x) \cap Part(y) = {}
    BY DEF Apart
  <2>5. CASE \E f, g \in File : x = <<"file", f>> /\ y = <<"file", g>>
    BY <1>1, <2>1, <2>5
  <2>6. CASE ~\E f, g \in File : x = <<"file", f>> /\ y = <<"file", g>>
    <3>1. Part(x) = {} \/ Part(y) = {}
      BY <2>2, <2>3, <2>4, <2>6, PlaceKinds
    <3> QED
      BY <3>1
  <2> QED
    BY <2>5, <2>6
<1>6. \A p \in Proc : Local(p)
  BY DEF Init, Local, Holder
<1>7. Alone /\ NoLostWakeup
  BY DEF Init, Alone, Holder, NoLostWakeup
<1>8. OnDisk
  BY DEF Init, OnDisk, Owned
<1> QED
  BY <1>3, <1>4, <1>5, <1>6, <1>7, <1>8 DEF IInv

LEMMA IInvNext == IInv /\ [Next]_vars => IInv'
<1> SUFFICES ASSUME IInv, [Next]_vars PROVE IInv'
  OBVIOUS
<1>1. CASE UNCHANGED vars
  <2>1. TypeOK' /\ OnDisk'
    BY <1>1 DEF IInv, TypeOK, OnDisk, Owned, vars, core, blocks, files, calls
  <2> QED
    BY <1>1, <2>1, IdleStep DEF vars, core, blocks, files, calls
<1>2. ASSUME NEW p \in Proc, Step(p) PROVE IInv'
  BY <1>2, WaitFreeInv, PopInv, ChainInv, SuperCopyInv, SuperWrittenInv, GotInv, FillInv,
     FillFaultInv, GiveUpInv, InodeWrittenInv, FreeInv, ListCopyInv, ListWrittenInv,
     TruncDoneInv, UpdateInv, UpdateCopyInv, UpdateWrittenInv DEF Step
<1>3. ASSUME NEW p \in Proc, NEW f \in File, Write(p, f) \/ Trunc(p, f) PROVE IInv'
  BY <1>3, WriteInv, TruncInv
<1>4. CASE \/ \E f \in File : SyncInode(f) \/ FlushInode(f)
           \/ \E b \in Blk : FlushBlock(b)
  BY <1>4, BackInv
<1> QED
  BY <1>1, <1>2, <1>3, <1>4 DEF Next

(* The invariant keeps the files apart on the disk: what an inode there    *)
(* has is in the inode in core or in the hands of the process that         *)
(* truncates it, and two of these never share a block.                     *)
LEMMA FilesApartNow == IInv => DurableFiles
<1> SUFFICES ASSUME IInv, NEW f \in File, NEW g \in File, f # g
             PROVE  ToSet(ddisk[f]) \cap ToSet(ddisk[g]) = {}
  BY DEF DurableFiles
<1>1. \A q \in Proc : ToSet(rest[q]) \subseteq Hand(q)
  BY DEF Hand
<1>2. ASSUME NEW b, b \in Owned(f), b \in Owned(g) PROVE FALSE
  <2>1. b \in ToSet(addr[f]) \/ \E q \in Proc : b \in Hand(q) /\ file[q] = f
    BY <1>1, <1>2 DEF Owned
  <2>2. b \in ToSet(addr[g]) \/ \E q \in Proc : b \in Hand(q) /\ file[q] = g
    BY <1>1, <1>2 DEF Owned
  <2> QED
    BY <2>1, <2>2, ApartKinds DEF IInv
<1> QED
  BY <1>2 DEF IInv, OnDisk

LEMMA Invariant == Spec => []IInv
BY IInvInit, IInvNext, PTL DEF Spec

-----------------------------------------------------------------------------
(* The lists of free blocks *)

(* A list: entry 0 is 0 or the block that holds the next list, the other   *)
(* blocks hold none.                                                       *)
Chained(l) ==
    /\ l # <<>> => l[1] = Zero \/ cache[l[1]] # <<>>
    /\ \A i \in 2..Len(l) : l[i] # Zero /\ cache[l[i]] = <<>>

(* p is writing the list in block b. *)
Writes(p, b) == pc[p] = "lwrite" /\ rest[p] # <<>> /\ b = Head(rest[p])

(* p has taken b off the end of a list, and the next list is in use.       *)
Stale(b) == \E p \in Proc : pc[p] = "got" /\ bno[p] = b

(* What p moves holds no list, but for the block p has just taken off the  *)
(* end of a list, and the one it is writing a list to.                     *)
Moving(p) ==
    /\ \A b \in ToSet(rest[p]) : cache[b] # <<>> => Writes(p, b)
    /\ pc[p] \notin {"chain", "super", "swrite", "got"} => bno[p] = Zero
    /\ pc[p] \notin {"inode", "free", "list", "lwrite"} => rest[p] = <<>>
    /\ pc[p] \in {"chain", "super", "swrite"} => cache[bno[p]] # <<>>
    /\ pc[p] \in {"chain", "lwrite"} => free = <<>>
    /\ pc[p] = "list" => free # <<>>
    /\ pc[p] = "lwrite" => cache[Head(rest[p])] # <<>>

Lists ==
    /\ Chained(free)
    /\ \A b \in Blk : Stale(b) \/ Chained(cache[b])
    /\ \A f \in File : \A b \in ToSet(addr[f]) : cache[b] = <<>>
    /\ \A p \in Proc : Moving(p)
    /\ \A b \in Blk : cache[b] # <<>> => disk[b] = cache[b] \/ \E p \in Proc : Writes(p, b)

(* r goes up from every list to the next. *)
Rises(r) == \A b \in Blk : ~Stale(b) /\ cache[b] # <<>> /\ cache[b][1] # Zero => r[b] < r[cache[b][1]]

NoLoop == \E r \in [Blk -> Nat] : Rises(r)

(* D has all the lists that follow list s, and what is in s is in none.    *)
Covers(D, s) ==
    /\ s # <<>> => s[1] \in D \cup {Zero}
    /\ \A b \in D : /\ cache[b] # <<>> /\ disk[b] = cache[b]
                    /\ cache[b][1] \in D \cup {Zero}
                    /\ ToSet(s) \cap ToSet(cache[b]) \subseteq {Zero}
                    /\ ~Stale(b)

(* A list that a crash may leave in the super block. *)
Sound(s) ==
    /\ Simple(s, Entry)
    /\ \A i \in 2..Len(s) : s[i] # Zero
    /\ \E D \in SUBSET Blk : Covers(D, s)

(* Nobody has taken or given a block that fs_fmod does not tell of yet. *)
Settled == \A p \in Proc : pc[p] \notin {"chain", "super", "swrite", "got", "list", "lwrite"}

Alike(s) == s = free \/ (free = <<>> /\ s = <<Zero>>)

Copies ==
    /\ Sound(super) /\ Sound(sbuf)
    /\ ~SuperBusy => sbuf = super
    /\ \A p \in Proc : pc[p] = "swrite" => sbuf = free
    /\ Settled /\ ~fmod => Alike(sbuf)

(* Every list in use is the next of another, or of the free list. *)
After(b) ==
    \/ free # <<>> /\ free[1] = b
    \/ \E d \in Blk : ~Dead(d) /\ cache[d] # <<>> /\ cache[d][1] = b
    \/ \E p \in Proc : Writes(p, b) \/ (pc[p] = "chain" /\ bno[p] = b)

Reached == \A b \in Blk : cache[b] # <<>> => After(b) \/ Dead(b)

LEMMA HeadOf ==
    ASSUME NEW l \in List, l # <<>>
    PROVE  1 \in 1..Len(l) /\ l[1] \in Blk \cup {Zero} /\ l[1] \in ToSet(l)
<1>1. 1 \in 1..Len(l) /\ DOMAIN l = 1..Len(l)
  BY EmptySeq, LenProperties DEF List
<1> QED
  BY <1>1, ElementOfSeq DEF List, ToSet

LEMMA ListTypes ==
    ASSUME IInv
    PROVE  /\ free \in List /\ super \in List /\ sbuf \in List
           /\ \A b \in Blk : cache[b] \in List /\ disk[b] \in List
           /\ \A p \in Proc : rest[p] \in Seq(Blk) /\ bno[p] \in Blk \cup {Zero}
BY DEF IInv, TypeOK

(* What is in a list of free blocks is nowhere else. *)
LEMMA ListsApart ==
    ASSUME IInv
    PROVE  /\ \A b, d \in Blk : b # d /\ ~Dead(b) /\ ~Dead(d) => ToSet(cache[b]) \cap ToSet(cache[d]) \subseteq {Zero}
           /\ \A b \in Blk : ~Dead(b) => ToSet(cache[b]) \cap ToSet(free) \subseteq {Zero}
           /\ \A b \in Blk, p \in Proc : ~Dead(b) => ToSet(cache[b]) \cap Hand(p) = {}
           /\ \A b \in Blk, f \in File : ~Dead(b) => ToSet(cache[b]) \cap ToSet(addr[f]) = {}
           /\ \A p \in Proc : ToSet(free) \cap Hand(p) = {}
           /\ \A f \in File : ToSet(free) \cap ToSet(addr[f]) = {}
<1>0. /\ \A p \in Proc : Zero \notin Hand(p)
      /\ \A f \in File : Zero \notin ToSet(addr[f])
  <2>1. \A p \in Proc : \A x \in ToSet(rest[p]) : x \in Blk
    BY DEF IInv, TypeOK, ToSet
  <2>2. \A f \in File : \A x \in ToSet(addr[f]) : x \in Blk
    BY DEF IInv, TypeOK, ToSet
  <2> QED
    BY <2>1, <2>2, BlkAssumption DEF Hand
<1>1. ASSUME NEW b \in Blk, NEW d \in Blk, b # d, ~Dead(b), ~Dead(d)
      PROVE  ToSet(cache[b]) \cap ToSet(cache[d]) \subseteq {Zero}
  <2>1. <<"list", b>> # <<"list", d>>
    BY <1>1
  <2> QED
    BY ZenonT(60), <1>1, <2>1, PlaceKinds, PartKinds DEF IInv, Apart
<1>2. ASSUME NEW b \in Blk, ~Dead(b) PROVE ToSet(cache[b]) \cap ToSet(free) \subseteq {Zero}
  <2>1. <<"list", b>> # <<"free", Zero>>
    OBVIOUS
  <2> QED
    BY ZenonT(60), <1>2, <2>1, PlaceKinds, PartKinds DEF IInv, Apart
<1>3. ASSUME NEW b \in Blk, NEW p \in Proc, ~Dead(b) PROVE ToSet(cache[b]) \cap Hand(p) = {}
  <2>1. <<"list", b>> # <<"hand", p>>
    OBVIOUS
  <2>2. Part(<<"list", b>>) \cap Part(<<"hand", p>>) = {}
    BY <2>1, PlaceKinds DEF IInv, Apart
  <2> QED
    BY ZenonT(60), <1>0, <1>3, <2>2, PartKinds
<1>4. ASSUME NEW b \in Blk, NEW f \in File, ~Dead(b) PROVE ToSet(cache[b]) \cap ToSet(addr[f]) = {}
  <2>1. <<"list", b>> # <<"file", f>>
    OBVIOUS
  <2>2. Part(<<"list", b>>) \cap Part(<<"file", f>>) = {}
    BY <2>1, PlaceKinds DEF IInv, Apart
  <2> QED
    BY <1>0, <1>4, <2>2, PartKinds
<1>5. ASSUME NEW p \in Proc PROVE ToSet(free) \cap Hand(p) = {}
  BY <1>0, ApartKinds DEF IInv
<1>6. ASSUME NEW f \in File PROVE ToSet(free) \cap ToSet(addr[f]) = {}
  <2>1. <<"free", Zero>> # <<"file", f>>
    OBVIOUS
  <2>2. Part(<<"free", Zero>>) \cap Part(<<"file", f>>) = {}
    BY <2>1, PlaceKinds DEF IInv, Apart
  <2> QED
    BY <1>0, <2>2, PartKinds
<1> QED
  BY <1>1, <1>2, <1>3, <1>4, <1>5, <1>6

(* A list that is dead is still in its block, or it is the free list. *)
LEMMA DeadLists ==
    ASSUME IInv, NEW b \in Blk, Dead(b), ~Stale(b)
    PROVE  cache[b] = free /\ \E p \in Proc : pc[p] \in {"super", "swrite"} /\ bno[p] = b
BY DEF IInv, Dead, Stale, Local

LEMMA DeadOnce ==
    ASSUME IInv, NEW b \in Blk, NEW d \in Blk, Dead(b), Dead(d), ~Stale(b), ~Stale(d)
    PROVE  b = d
<1>1. PICK p \in Proc : pc[p] \in {"super", "swrite"} /\ bno[p] = b
  BY DeadLists
<1>2. PICK q \in Proc : pc[q] \in {"super", "swrite"} /\ bno[q] = d
  BY DeadLists
<1>3. p = q
  BY <1>1, <1>2 DEF IInv, Alone, Holder
<1> QED
  BY <1>1, <1>2, <1>3

LEMMA FreshApart ==
    ASSUME IInv, NEW b \in Blk, NEW d \in Blk, b # d, ~Stale(b), ~Stale(d)
    PROVE  ToSet(cache[b]) \cap ToSet(cache[d]) \subseteq {Zero}
<1>1. CASE ~Dead(b) /\ ~Dead(d)
  BY <1>1, ListsApart
<1>2. CASE Dead(b) /\ ~Dead(d)
  BY <1>2, DeadLists, ListsApart
<1>3. CASE ~Dead(b) /\ Dead(d)
  BY <1>3, DeadLists, ListsApart
<1>4. CASE Dead(b) /\ Dead(d)
  BY <1>4, DeadOnce
<1> QED
  BY <1>1, <1>2, <1>3, <1>4

(* A crash could leave the free list of the moment. *)
LEMMA FreeSound ==
    ASSUME IInv, Lists
    PROVE  Sound(free)
<1> DEFINE D == {b \in Blk : cache[b] # <<>> /\ disk[b] = cache[b] /\ \A p \in Proc : bno[p] # b}
<1>1. \A b \in D : ~Dead(b) /\ ~Stale(b)
  BY DEF Dead, Stale
<1>2. ASSUME NEW b \in Blk, cache[b] # <<>>, \A p \in Proc : b \notin Hand(p)
      PROVE  b \in D
  <2>1. \A p \in Proc : bno[p] # b
    BY <1>2, BlkAssumption DEF Hand
  <2>2. ASSUME NEW p \in Proc PROVE ~Writes(p, b)
    <3>1. rest[p] # <<>> => Head(rest[p]) \in ToSet(rest[p])
      BY TailSimple DEF IInv, Once
    <3> QED
      BY <1>2, <3>1 DEF Writes, Hand
  <2> QED
    BY <1>2, <2>1, <2>2 DEF Lists
<1>3. free # <<>> => free[1] \in D \cup {Zero}
  <2> SUFFICES ASSUME free # <<>>, free[1] # Zero PROVE free[1] \in D
    OBVIOUS
  <2>1. free[1] \in Blk /\ free[1] \in ToSet(free) /\ cache[free[1]] # <<>>
    BY HeadOf, ListTypes DEF Lists, Chained
  <2>2. \A p \in Proc : free[1] \notin Hand(p)
    BY <2>1, ListsApart
  <2> HIDE DEF D
  <2> QED
    BY <1>2, <2>1, <2>2
<1>4. ASSUME NEW b \in D
      PROVE  cache[b][1] \in D \cup {Zero} /\ ToSet(free) \cap ToSet(cache[b]) \subseteq {Zero}
  <2>0. b \in Blk /\ cache[b] # <<>> /\ cache[b] \in List /\ ~Dead(b) /\ ~Stale(b)
    BY <1>1, ListTypes
  <2>1. ASSUME cache[b][1] # Zero PROVE cache[b][1] \in D
    <3>1. cache[b][1] \in Blk /\ cache[b][1] \in ToSet(cache[b]) /\ cache[cache[b][1]] # <<>>
      BY <2>0, <2>1, HeadOf DEF Lists, Chained
    <3>2. \A p \in Proc : cache[b][1] \notin Hand(p)
      BY <2>0, <3>1, ListsApart
    <3> HIDE DEF D
    <3> QED
      BY <1>2, <3>1, <3>2
  <2>2. ToSet(free) \cap ToSet(cache[b]) \subseteq {Zero}
    BY <2>0, ListsApart
  <2> QED
    BY <2>1, <2>2
<1>5. Covers(D, free)
  <2>1. \A b \in D : cache[b] # <<>> /\ disk[b] = cache[b]
    OBVIOUS
  <2> HIDE DEF D
  <2> QED
    BY <1>1, <1>3, <1>4, <2>1 DEF Covers
<1>6. Simple(free, Entry) /\ \A i \in 2..Len(free) : free[i] # Zero
  BY DEF IInv, Once, Lists, Chained
<1>7. D \in SUBSET Blk
  OBVIOUS
<1> HIDE DEF D
<1> QED
  BY <1>5, <1>6, <1>7 DEF Sound

-----------------------------------------------------------------------------
(* Chains of lists *)

(* The list that follows list k. *)
NextList(k, c) == IF k = <<>> \/ k[1] = Zero THEN <<>> ELSE c[k[1]]

LEMMA IterList ==
    ASSUME NEW l \in List, NEW G \in [List -> List]
    PROVE  \E g \in [Nat -> List] : g[0] = l /\ \A n \in Nat : g[n + 1] = G[g[n]]
BY Iterates

LEMMA LinksAre ==
    ASSUME NEW l \in List, NEW c \in [Blk -> List]
    PROVE  \E g \in [Nat -> List] : /\ g[0] = l
                                    /\ \A n \in Nat : g[n + 1] = NextList(g[n], c)
                                    /\ \A n \in 0..Cardinality(Blk) : Links(l, c)[n] = g[n]
<1> DEFINE F == [k \in List |-> NextList(k, c)]
<1>1. F \in [List -> List]
  <2>1. ASSUME NEW k \in List PROVE NextList(k, c) \in List
    <3>1. CASE k = <<>>
      BY <3>1 DEF NextList, List
    <3>2. CASE k # <<>>
      <4>1. 1 \in 1..Len(k) /\ k[1] \in Blk \cup {Zero}
        BY <3>2, EmptySeq, ElementOfSeq, LenProperties DEF List
      <4> QED
        BY <4>1 DEF NextList, List
    <3> QED
      BY <3>1, <3>2
  <2> QED
    BY <2>1
<1>2. PICK g \in [Nat -> List] : g[0] = l /\ \A n \in Nat : g[n + 1] = F[g[n]]
  <2> HIDE DEF F
  <2> QED
    BY <1>1, IterList
<1>3. \A n \in Nat : g[n + 1] = NextList(g[n], c)
  BY <1>2
<1> DEFINE Body(h) == [n \in Nat |-> IF n = 0 THEN l
                             ELSE LET k == h[n - 1] IN IF k = <<>> \/ k[1] = Zero THEN <<>> ELSE c[k[1]]]
<1>4. g = Body(g)
  <2>1. ASSUME NEW n \in Nat, n # 0
        PROVE g[n] = LET k == g[n - 1] IN IF k = <<>> \/ k[1] = Zero THEN <<>> ELSE c[k[1]]
    <3>1. n - 1 \in Nat /\ (n - 1) + 1 = n
      BY <2>1
    <3>2. g[n] = NextList(g[n - 1], c)
      BY <1>3, <3>1
    <3> QED
      BY <3>2 DEF NextList
  <2> QED
    BY <1>2, <2>1
<1> DEFINE link == CHOOSE h : h = Body(h)
<1>5. link = Body(link)
  <2> HIDE DEF Body
  <2> QED
    BY <1>4
<1>6. link = g
  <2> DEFINE T == {n \in Nat : link[n] = g[n]}
  <2>1. 0 \in T
    <3>1. link[0] = l
      BY ZenonT(60), <1>5
    <3> QED
      BY <1>2, <3>1
  <2>2. ASSUME NEW n \in Nat, n \in T PROVE n + 1 \in T
    <3>1. n + 1 \in Nat /\ n + 1 # 0 /\ (n + 1) - 1 = n
      OBVIOUS
    <3>2. link[n + 1] = Body(link)[n + 1]
      BY ZenonT(60), <1>5
    <3>3. Body(link)[n + 1] = NextList(link[n], c)
      BY <3>1 DEF NextList
    <3> QED
      BY ZenonT(60), <1>3, <2>2, <3>1, <3>2, <3>3
  <2> HIDE DEF T
  <2>3. Nat \subseteq T
    BY <2>1, <2>2, NatInduct
  <2>4. \A n \in Nat : link[n] = g[n]
    BY <2>3 DEF T
  <2>5. DOMAIN link = Nat /\ link = [n \in Nat |-> link[n]]
    BY ZenonT(60), <1>5
  <2> HIDE DEF link
  <2> QED
    BY <2>4, <2>5
<1>7. Links(l, c) = [n \in 0..Cardinality(Blk) |-> link[n]]
  BY DEF Links
<1> HIDE DEF link
<1> QED
  BY ZenonT(60), <1>2, <1>3, <1>6, <1>7

(* A chain through the lists in the blocks D ends, or goes on in D.        *)
LEMMA ChainRuns ==
    ASSUME NEW c \in [Blk -> List], NEW D \in SUBSET Blk, NEW g \in [Nat -> List],
           \A n \in Nat : g[n + 1] = NextList(g[n], c),
           g[0] # <<>> => g[0][1] \in D \cup {Zero},
           \A b \in D : c[b] # <<>> /\ c[b][1] \in D \cup {Zero}
    PROVE  \A n \in Nat : /\ g[n] # <<>> => g[n][1] \in D \cup {Zero}
                          /\ IF g[n] = <<>> \/ g[n][1] = Zero THEN g[n + 1] = <<>>
                             ELSE g[n][1] \in D /\ g[n + 1] = c[g[n][1]] /\ g[n + 1] # <<>>
<1> DEFINE T == {n \in Nat : g[n] # <<>> => g[n][1] \in D \cup {Zero}}
<1>1. 0 \in T
  OBVIOUS
<1>2. ASSUME NEW n \in Nat, n \in T PROVE n + 1 \in T
  <2>1. g[n + 1] = NextList(g[n], c)
    OBVIOUS
  <2>2. CASE g[n] = <<>> \/ g[n][1] = Zero
    BY <2>1, <2>2 DEF NextList
  <2>3. CASE ~(g[n] = <<>> \/ g[n][1] = Zero)
    BY SMTT(30), <1>2, <2>1, <2>3 DEF NextList
  <2> QED
    BY <2>2, <2>3
<1> HIDE DEF T
<1>3. Nat \subseteq T
  BY <1>1, <1>2, NatInduct
<1>4. \A n \in Nat : g[n] # <<>> => g[n][1] \in D \cup {Zero}
  BY <1>3 DEF T
<1> QED
  BY SMTT(30), <1>4, BlkAssumption DEF NextList

(* And when r goes up along it, it does not come back to a block. *)
LEMMA ChainRises ==
    ASSUME NEW c \in [Blk -> List], NEW D \in SUBSET Blk, NEW g \in [Nat -> List], NEW r \in [Blk -> Nat],
           \A n \in Nat : g[n + 1] = NextList(g[n], c),
           g[0] # <<>> => g[0][1] \in D \cup {Zero},
           \A b \in D : c[b] # <<>> /\ c[b][1] \in D \cup {Zero} /\ (c[b][1] # Zero => r[b] < r[c[b][1]])
    PROVE  \A n \in Nat : \A m \in 0..n :
              g[n] # <<>> /\ g[n][1] # Zero =>
                 /\ g[m] # <<>> /\ g[m][1] \in D /\ g[n][1] \in D
                 /\ m # n => r[g[m][1]] < r[g[n][1]]
<1>1. \A n \in Nat : /\ g[n] # <<>> => g[n][1] \in D \cup {Zero}
                     /\ IF g[n] = <<>> \/ g[n][1] = Zero THEN g[n + 1] = <<>>
                        ELSE g[n][1] \in D /\ g[n + 1] = c[g[n][1]] /\ g[n + 1] # <<>>
  <2>1. \A b \in D : c[b] # <<>> /\ c[b][1] \in D \cup {Zero}
    OBVIOUS
  <2> HIDE DEF NextList
  <2> QED
    BY ZenonT(60), <2>1, ChainRuns
<1> DEFINE Below(n) == \A m \in 0..n : g[n] # <<>> /\ g[n][1] # Zero =>
                           /\ g[m] # <<>> /\ g[m][1] \in D /\ g[n][1] \in D
                           /\ m # n => r[g[m][1]] < r[g[n][1]]
           T == {n \in Nat : Below(n)}
<1>2. 0 \in T
  BY <1>1
<1>3. ASSUME NEW n \in Nat, n \in T PROVE n + 1 \in T
  <2> SUFFICES ASSUME NEW m \in 0..(n + 1), g[n + 1] # <<>>, g[n + 1][1] # Zero
               PROVE  /\ g[m] # <<>> /\ g[m][1] \in D /\ g[n + 1][1] \in D
                      /\ m # n + 1 => r[g[m][1]] < r[g[n + 1][1]]
    OBVIOUS
  <2>1. g[n] # <<>> /\ g[n][1] # Zero /\ g[n][1] \in D /\ g[n + 1] = c[g[n][1]]
    BY <1>1, n \in Nat
  <2>2. g[n + 1][1] \in D /\ r[g[n][1]] < r[g[n + 1][1]] /\ n + 1 \in Nat
    <3>1. PICK b \in D : b = g[n][1]
      BY <2>1
    <3>2. g[n + 1] = c[b] /\ c[b][1] # Zero
      BY <2>1, <3>1
    <3>3. c[b][1] \in D \cup {Zero} /\ (c[b][1] # Zero => r[b] < r[c[b][1]])
      OBVIOUS
    <3>4. g[n + 1][1] = c[b][1] /\ r[g[n][1]] = r[b] /\ n + 1 \in Nat
      BY <3>1, <3>2
    <3>5. c[b][1] \in D /\ r[b] < r[c[b][1]]
      BY <3>2, <3>3
    <3> QED
      BY <3>4, <3>5
  <2>3. CASE m = n + 1
    BY <2>2, <2>3
  <2>4. CASE m # n + 1
    <3>1. m \in 0..n
      BY <2>4
    <3>2. g[m] # <<>> /\ g[m][1] \in D /\ (m # n => r[g[m][1]] < r[g[n][1]])
      BY <1>3, <2>1, <3>1
    <3>3. PICK x \in Nat, y \in Nat, z \in Nat : x = r[g[m][1]] /\ y = r[g[n][1]] /\ z = r[g[n + 1][1]]
      BY <2>1, <2>2, <3>2
    <3>4. CASE m = n
      BY <2>2, <3>2, <3>4
    <3>5. CASE m # n
      <4>1. x < y /\ y < z
        BY <2>2, <3>2, <3>3, <3>5
      <4>2. x < z
        BY <4>1
      <4> QED
        BY <2>2, <3>2, <3>3, <4>2
    <3> QED
      BY <3>4, <3>5
  <2> QED
    BY <2>3, <2>4
<1> HIDE DEF T
<1>4. Nat \subseteq T
  BY <1>2, <1>3, NatInduct
<1> QED
  BY <1>4 DEF T

(* What a crash would leave now is a free list. *)
LEMMA DurableNow ==
    ASSUME IInv, Lists, NoLoop, Sound(super)
    PROVE  DurableList
<1>1. super \in List /\ disk \in [Blk -> List]
  BY DEF IInv, TypeOK
<1>2. PICK g \in [Nat -> List] : /\ g[0] = super
                                 /\ \A n \in Nat : g[n + 1] = NextList(g[n], disk)
                                 /\ \A n \in 0..Cardinality(Blk) : Links(super, disk)[n] = g[n]
  BY <1>1, LinksAre
<1>3. PICK D \in SUBSET Blk : Covers(D, super)
  BY DEF Sound
<1>4. PICK r \in [Blk -> Nat] : Rises(r)
  BY DEF NoLoop
<1>5. g[0] # <<>> => g[0][1] \in D \cup {Zero}
  BY <1>2, <1>3 DEF Covers
<1>6. \A b \in D : /\ disk[b] # <<>> /\ disk[b][1] \in D \cup {Zero}
                   /\ disk[b][1] # Zero => r[b] < r[disk[b][1]]
  BY <1>3, <1>4 DEF Covers, Rises
<1>7. \A n \in Nat : /\ g[n] # <<>> => g[n][1] \in D \cup {Zero}
                     /\ IF g[n] = <<>> \/ g[n][1] = Zero THEN g[n + 1] = <<>>
                        ELSE g[n][1] \in D /\ g[n + 1] = disk[g[n][1]] /\ g[n + 1] # <<>>
  <2>1. \A b \in D : disk[b] # <<>> /\ disk[b][1] \in D \cup {Zero}
    BY <1>6
  <2>2. \A n \in Nat : g[n + 1] = NextList(g[n], disk)
    BY <1>2
  <2> QED
    BY ZenonT(60), <1>1, <1>5, <2>1, <2>2, ChainRuns
<1>8. \A n \in Nat : \A m \in 0..n :
              g[n] # <<>> /\ g[n][1] # Zero =>
                 /\ g[m] # <<>> /\ g[m][1] \in D /\ g[n][1] \in D
                 /\ m # n => r[g[m][1]] < r[g[n][1]]
  BY ZenonT(60), <1>1, <1>2, <1>5, <1>6, ChainRises
<1>9. ASSUME NEW n \in Nat, n # 0, g[n] # <<>>
      PROVE  /\ n - 1 \in Nat /\ g[n - 1] # <<>> /\ g[n - 1][1] # Zero /\ g[n - 1][1] \in D
             /\ g[n] = cache[g[n - 1][1]]
  <2>1. n - 1 \in Nat /\ (n - 1) + 1 = n
    BY <1>9
  <2>2. g[n - 1] # <<>> /\ g[n - 1][1] # Zero /\ g[n - 1][1] \in D /\ g[n] = disk[g[n - 1][1]]
    BY <1>7, <1>9, <2>1
  <2> QED
    BY <1>3, <2>1, <2>2 DEF Covers
<1>10. ASSUME NEW n \in Nat
       PROVE  IsInjective(g[n]) /\ \A i \in 2..Len(g[n]) : g[n][i] # Zero
  <2>1. CASE n = 0
    BY <1>2, <2>1 DEF Sound, Simple
  <2>2. CASE n # 0 /\ g[n] = <<>>
    BY <2>2 DEF IsInjective
  <2>3. CASE n # 0 /\ g[n] # <<>>
    <3>1. PICK b \in D : g[n] = cache[b]
      BY <1>9, <2>3
    <3>2. ~Stale(b) /\ b \in Blk
      BY <1>3 DEF Covers
    <3> QED
      BY <3>1, <3>2 DEF IInv, Once, Simple, Lists, Chained
  <2> QED
    BY <2>1, <2>2, <2>3
<1>11. ASSUME NEW n \in Nat, NEW m \in 0..n, m # n
       PROVE  ToSet(g[m]) \cap ToSet(g[n]) \subseteq {Zero}
  <2>0. CASE g[n] = <<>>
    BY <2>0 DEF ToSet
  <2> SUFFICES ASSUME g[n] # <<>> PROVE ToSet(g[m]) \cap ToSet(g[n]) \subseteq {Zero}
    BY <2>0
  <2>1. n # 0 /\ m \in 0..(n - 1)
    BY <1>11
  <2>2. g[n - 1] # <<>> /\ g[n - 1][1] # Zero /\ g[n - 1][1] \in D /\ n - 1 \in Nat /\ g[n] = cache[g[n - 1][1]]
    BY <1>9, <2>1
  <2>3. CASE m = 0
    BY ZenonT(60), <1>2, <1>3, <2>2, <2>3 DEF Covers
  <2>4. CASE m # 0
    <3>1. m \in Nat /\ m - 1 \in 0..(n - 1) /\ m - 1 # n - 1
      BY <2>1, <2>4
    <3>2. g[m] # <<>>
      BY <1>8, <2>1, <2>2
    <3>3. g[m - 1][1] \in D /\ g[m] = cache[g[m - 1][1]]
      BY <1>9, <2>4, <3>1, <3>2
    <3>4. r[g[m - 1][1]] < r[g[n - 1][1]]
      BY <1>8, <2>2, <3>1
    <3>5. PICK b \in D, d \in D : b = g[m - 1][1] /\ d = g[n - 1][1]
      BY <2>2, <3>3
    <3>6. b # d /\ b \in Blk /\ d \in Blk
      BY <3>4, <3>5
    <3>7. ~Stale(b) /\ ~Stale(d)
      BY <1>3 DEF Covers
    <3> QED
      BY <2>2, <3>3, <3>5, <3>6, <3>7, FreshApart
  <2> QED
    BY <2>3, <2>4
<1>12. Cardinality(Blk) \in Nat
  BY BlkAssumption, FS_CardinalityType
<1>13. ASSUME NEW m \in 0..Cardinality(Blk), NEW n \in 0..Cardinality(Blk), m # n
       PROVE  ToSet(g[m]) \cap ToSet(g[n]) \subseteq {Zero}
  <2>1. m \in Nat /\ n \in Nat /\ (m \in 0..n \/ n \in 0..m)
    BY <1>12
  <2> QED
    BY <1>11, <1>13, <2>1
<1>14. \A n \in 0..(Cardinality(Blk) - 1) :
          /\ n \in 0..Cardinality(Blk) /\ n + 1 \in 0..Cardinality(Blk)
          /\ g[n] # <<>> /\ g[n][1] # Zero => g[n + 1] # <<>>
  BY <1>7, <1>12
<1>15. \A n \in 0..Cardinality(Blk) : n \in Nat
  BY <1>12
<1> DEFINE links == Links(super, disk)
<1>16. \A n \in 0..Cardinality(Blk) : links[n] = g[n]
  BY <1>2
<1> HIDE DEF links
<1>17. /\ \A n \in 0..Cardinality(Blk) : IsInjective(links[n]) /\ \A i \in 2..Len(links[n]) : links[n][i] # Zero
       /\ \A m, n \in 0..Cardinality(Blk) : m # n => ToSet(links[m]) \cap ToSet(links[n]) \subseteq {Zero}
       /\ \A n \in 0..(Cardinality(Blk) - 1) :
             links[n] # <<>> /\ links[n][1] # Zero => links[n + 1] # <<>>
  BY <1>10, <1>13, <1>14, <1>15, <1>16
<1> QED
  BY <1>17 DEF DurableList, WellFormed, links

LEMMA OnChainIs ==
    ASSUME NEW l, NEW c, NEW g, \A n \in 0..Cardinality(Blk) : Links(l, c)[n] = g[n]
    PROVE  \A x : x \in OnChain(l, c) <=> x # Zero /\ \E n \in 0..Cardinality(Blk) : x \in ToSet(g[n])
BY DEF OnChain

(* A chain that is only an end has no blocks. *)
LEMMA EndOnly ==
    ASSUME NEW c \in [Blk -> List], NEW l, l \in {<<>>, <<Zero>>}
    PROVE  OnChain(l, c) = {}
<1>0. l \in List
  <2>1. <<>> \in Seq(Blk \cup {Zero}) /\ <<Zero>> \in Seq(Blk \cup {Zero})
    OBVIOUS
  <2> QED
    BY <2>1 DEF List
<1>1. PICK g \in [Nat -> List] : /\ g[0] = l
                                 /\ \A n \in Nat : g[n + 1] = NextList(g[n], c)
                                 /\ \A n \in 0..Cardinality(Blk) : Links(l, c)[n] = g[n]
  BY <1>0, LinksAre
<1> DEFINE T == {n \in Nat : g[n] \in {<<>>, <<Zero>>}}
<1>2. 0 \in T
  BY <1>1
<1>3. ASSUME NEW n \in Nat, n \in T PROVE n + 1 \in T
  <2>1. g[n + 1] = NextList(g[n], c)
    BY <1>1
  <2>2. g[n] = <<>> \/ g[n][1] = Zero
    BY <1>3
  <2>3. g[n + 1] = <<>>
    BY <2>1, <2>2 DEF NextList
  <2> QED
    BY <2>3
<1> HIDE DEF T
<1>4. Nat \subseteq T
  BY <1>2, <1>3, NatInduct
<1>5. \A n \in 0..Cardinality(Blk) : g[n] \in {<<>>, <<Zero>>}
  <2>1. Cardinality(Blk) \in Nat
    BY BlkAssumption, FS_CardinalityType
  <2>2. \A n \in 0..Cardinality(Blk) : n \in Nat
    BY <2>1
  <2> QED
    BY <1>4, <2>2 DEF T
<1>6. ToSet(<<>>) = {} /\ ToSet(<<Zero>>) = {Zero}
  BY DEF ToSet
<1>7. \A n \in 0..Cardinality(Blk) : ToSet(g[n]) \subseteq {Zero}
  BY <1>5, <1>6
<1>8. \A n \in 0..Cardinality(Blk) : Links(l, c)[n] = g[n]
  BY <1>1
<1>9. \A x : x \in OnChain(l, c) <=> x # Zero /\ \E n \in 0..Cardinality(Blk) : x \in ToSet(g[n])
  BY <1>8, OnChainIs
<1> QED
  BY <1>7, <1>9

(* With nothing under way the two free lists are the same. *)
LEMMA MarkedNow ==
    ASSUME IInv, Lists, Copies
    PROVE  Marked
<1> SUFFICES ASSUME \A p \in Proc : pc[p] \in {"user", "fill", "full"}, fmod = FALSE
             PROVE  OnChain(super, disk) = OnChain(free, cache)
  BY DEF Marked, IInv, TypeOK
<1>1. Settled /\ ~SuperBusy
  BY DEF Settled, SuperBusy
<1>2. Alike(super)
  BY <1>1 DEF Copies, Alike
<1>3. cache \in [Blk -> List] /\ disk \in [Blk -> List] /\ free \in List
  BY DEF IInv, TypeOK
<1>4. \A b \in Blk : ~Stale(b) /\ (cache[b] # <<>> => disk[b] = cache[b])
  BY DEF Stale, Lists, Writes
<1>5. CASE free = <<>> /\ super = <<Zero>>
  <2>1. OnChain(super, disk) = {}
    BY <1>3, <1>5, EndOnly
  <2>2. OnChain(free, cache) = {}
    BY <1>3, <1>5, EndOnly
  <2> QED
    BY <2>1, <2>2
<1>6. CASE super = free
  <2>1. PICK g \in [Nat -> List] : /\ g[0] = free
                                   /\ \A n \in Nat : g[n + 1] = NextList(g[n], disk)
                                   /\ \A n \in 0..Cardinality(Blk) : Links(free, disk)[n] = g[n]
    BY ZenonT(60), <1>3, LinksAre
  <2>2. PICK h \in [Nat -> List] : /\ h[0] = free
                                   /\ \A n \in Nat : h[n + 1] = NextList(h[n], cache)
                                   /\ \A n \in 0..Cardinality(Blk) : Links(free, cache)[n] = h[n]
    BY ZenonT(60), <1>3, LinksAre
  <2>3. PICK D \in SUBSET Blk : D = {b \in Blk : cache[b] # <<>>}
    OBVIOUS
  <2>4. \A b \in D : cache[b] # <<>> /\ cache[b][1] \in D \cup {Zero} /\ disk[b] = cache[b]
    <3>1. ASSUME NEW b \in D PROVE cache[b][1] \in D \cup {Zero}
      <4>1. b \in Blk /\ cache[b] # <<>> /\ cache[b][1] \in Blk \cup {Zero}
        BY <1>3, <2>3, HeadOf
      <4> QED
        BY <1>4, <2>3, <4>1 DEF Lists, Chained
    <3> QED
      BY <1>4, <2>3, <3>1
  <2>5. h[0] # <<>> => h[0][1] \in D \cup {Zero}
    <3>1. free # <<>> => free[1] \in Blk \cup {Zero}
      BY <1>3, HeadOf
    <3> QED
      BY <2>2, <2>3, <3>1 DEF Lists, Chained
  <2>6. \A n \in Nat : /\ h[n] # <<>> => h[n][1] \in D \cup {Zero}
                       /\ IF h[n] = <<>> \/ h[n][1] = Zero THEN h[n + 1] = <<>>
                          ELSE h[n][1] \in D /\ h[n + 1] = cache[h[n][1]] /\ h[n + 1] # <<>>
    <3>1. \A n \in Nat : h[n + 1] = NextList(h[n], cache)
      BY <2>2
    <3>2. \A b \in D : cache[b] # <<>> /\ cache[b][1] \in D \cup {Zero}
      BY <2>4
    <3>3. PICK c \in [Blk -> List] : c = cache
      BY <1>3
    <3>4. /\ \A n \in Nat : h[n + 1] = NextList(h[n], c)
          /\ \A b \in D : c[b] # <<>> /\ c[b][1] \in D \cup {Zero}
      BY <3>1, <3>2, <3>3
    <3>5. \A n \in Nat : /\ h[n] # <<>> => h[n][1] \in D \cup {Zero}
                         /\ IF h[n] = <<>> \/ h[n][1] = Zero THEN h[n + 1] = <<>>
                            ELSE h[n][1] \in D /\ h[n + 1] = c[h[n][1]] /\ h[n + 1] # <<>>
      BY ZenonT(60), <2>5, <3>4, ChainRuns
    <3> QED
      BY <3>3, <3>5
  <2> DEFINE T == {n \in Nat : g[n] = h[n]}
  <2>7. 0 \in T
    BY <2>1, <2>2
  <2>8. ASSUME NEW n \in Nat, n \in T PROVE n + 1 \in T
    <3>1. g[n + 1] = NextList(h[n], disk) /\ h[n + 1] = NextList(h[n], cache)
      BY <2>1, <2>2, <2>8
    <3>2. NextList(h[n], disk) = NextList(h[n], cache)
      BY <2>4, <2>6 DEF NextList
    <3> QED
      BY <3>1, <3>2
  <2> HIDE DEF T
  <2>9. Nat \subseteq T
    BY <2>7, <2>8, NatInduct
  <2>10. \A n \in 0..Cardinality(Blk) : g[n] = h[n]
    <3>1. Cardinality(Blk) \in Nat
      BY BlkAssumption, FS_CardinalityType
    <3>2. \A n \in 0..Cardinality(Blk) : n \in Nat
      BY <3>1
    <3> QED
      BY <2>9, <3>2 DEF T
  <2>11. \A x : x \in OnChain(free, disk) <=> x # Zero /\ \E n \in 0..Cardinality(Blk) : x \in ToSet(g[n])
    BY <2>1, OnChainIs
  <2>12. \A x : x \in OnChain(free, cache) <=> x # Zero /\ \E n \in 0..Cardinality(Blk) : x \in ToSet(h[n])
    <3>1. \A n \in 0..Cardinality(Blk) : Links(free, cache)[n] = h[n]
      BY <2>2
    <3> QED
      BY <3>1, OnChainIs
  <2> QED
    BY <1>6, <2>10, <2>11, <2>12
<1> QED
  BY <1>2, <1>5, <1>6 DEF Alike

-----------------------------------------------------------------------------
(* Every step keeps the lists *)

LInv == Lists /\ NoLoop /\ Copies /\ Reached

(* A list that a crash may need stays as it is. *)
Frozen ==
    \A b \in Blk : cache[b] # <<>> /\ disk[b] = cache[b] /\ ~Stale(b)
                      => cache'[b] = cache[b] /\ disk'[b] = disk[b] /\ ~Stale(b)'

LEMMA CoverStep ==
    ASSUME Frozen, NEW s, NEW D \in SUBSET Blk, Covers(D, s)
    PROVE  Covers(D, s)'
BY DEF Frozen, Covers

LEMMA SoundKept ==
    ASSUME Frozen
    PROVE  /\ Sound(super) /\ super' = super => Sound(super)'
           /\ Sound(sbuf) /\ sbuf' = sbuf => Sound(sbuf)'
           /\ Sound(sbuf) /\ super' = sbuf => Sound(super)'
<1>1. ASSUME NEW s, Sound(s) PROVE Sound(s)'
  <2>1. PICK D \in SUBSET Blk : Covers(D, s)
    BY <1>1 DEF Sound
  <2>2. Covers(D, s)'
    BY <2>1, CoverStep
  <2> QED
    BY <1>1, <2>2 DEF Sound
<1>2. PICK s, t : s = super /\ t = sbuf
  OBVIOUS
<1>3. (Sound(super) => Sound(s)) /\ (Sound(sbuf) => Sound(t))
  BY <1>2
<1>4. /\ Sound(s)' /\ super' = s => Sound(super)'
      /\ Sound(t)' /\ sbuf' = t => Sound(sbuf)'
      /\ Sound(t)' /\ super' = t => Sound(super)'
  BY ZenonT(60) DEF Sound, Covers
<1> QED
  BY <1>1, <1>2, <1>3, <1>4

FreeOK == IInv /\ Lists => Sound(free)

LEMMA FreeAlways == FreeOK
BY FreeSound DEF FreeOK

(* The free list is copied. *)
LEMMA SoundCopied ==
    ASSUME IInv', Lists'
    PROVE  /\ sbuf' = free' => Sound(sbuf)'
           /\ super' = free' => Sound(super)'
<1>0. FreeOK'
  BY FreeAlways, PTL
<1>1. Sound(free)'
  BY <1>0 DEF FreeOK
<1> QED
  BY ZenonT(60), <1>1 DEF Sound, Covers

Busy == {"chain", "super", "swrite", "got", "list", "lwrite", "uwrite"}

(* Nothing happens to the lists; whoever moves on has no list in its hands. *)
LEMMA QuietLists ==
    ASSUME IInv, LInv, UNCHANGED <<free, fmod, super, sbuf, cache, disk, bno>>,
           \A f \in File : \A b \in ToSet(addr'[f]) : cache[b] = <<>>,
           \A q \in Proc : \/ pc'[q] = pc[q] /\ rest'[q] = rest[q]
                           \/ /\ pc[q] \notin Busy /\ pc'[q] \notin Busy
                              /\ \A b \in ToSet(rest'[q]) : cache[b] = <<>>
                              /\ pc'[q] \in {"inode", "free"} \/ rest'[q] = <<>>
    PROVE  LInv'
<1>1. /\ \A b \in Blk : Stale(b)' <=> Stale(b)
      /\ \A b \in Blk : Dead(b)' <=> Dead(b)
  BY DEF Stale, Dead, Busy
<1>2. \A q \in Proc : \A b : Writes(q, b)' <=> Writes(q, b)
  BY DEF Writes, Busy
<1>3. (Settled' => Settled) /\ (SuperBusy' <=> SuperBusy)
  <2>1. \A q \in Proc : pc[q] \in Busy \/ pc'[q] \in Busy => pc'[q] = pc[q]
    OBVIOUS
  <2> QED
    BY <2>1 DEF Settled, SuperBusy, Busy
<1>4. Lists'
  <2>1. ASSUME NEW q \in Proc PROVE Moving(q)'
    <3>0. Moving(q)
      BY DEF LInv, Lists
    <3>1. CASE pc'[q] = pc[q] /\ rest'[q] = rest[q]
      BY <1>2, <3>0, <3>1 DEF Moving
    <3>2. CASE ~(pc'[q] = pc[q] /\ rest'[q] = rest[q])
      BY <3>0, <3>2 DEF Moving, Busy
    <3> QED
      BY <3>1, <3>2
  <2> QED
    BY <1>1, <1>2, <2>1 DEF LInv, Lists, Chained
<1>5. NoLoop'
  BY <1>1 DEF LInv, NoLoop, Rises
<1>6. Frozen
  BY <1>1 DEF Frozen
<1>7. Copies'
  <2>1. \A q \in Proc : pc'[q] = "swrite" => pc[q] = "swrite"
    BY DEF Busy
  <2> QED
    BY <1>3, <1>6, <2>1, SoundKept DEF LInv, Copies, Alike
<1>8. Reached'
  <2>1. ASSUME NEW b \in Blk, After(b) PROVE After(b)'
    <3>1. \A q \in Proc : pc[q] = "chain" => pc'[q] = "chain"
      BY DEF Busy
    <3> QED
      BY <1>1, <1>2, <2>1, <3>1 DEF After
  <2> QED
    BY <1>1, <2>1 DEF LInv, Reached
<1> QED
  BY <1>4, <1>5, <1>7, <1>8 DEF LInv

LEMMA ChainedStep ==
    ASSUME NEW l \in List, NEW h \in Blk, h \notin ToSet(l),
           \A b \in Blk \ {h} : cache'[b] = cache[b], Chained(l)
    PROVE  Chained(l)'
<1>1. l # <<>> => l[1] # h /\ l[1] \in Blk \cup {Zero}
  BY HeadOf
<1>2. \A i \in 2..Len(l) : l[i] # h /\ l[i] \in Blk \cup {Zero}
  <2>1. \A i \in 2..Len(l) : i \in 1..Len(l) /\ i \in DOMAIN l
    BY LenProperties DEF List
  <2> QED
    BY <2>1, ElementOfSeq DEF List, ToSet
<1> QED
  BY <1>1, <1>2, BlkAssumption DEF Chained

(* A process that does not work on the lists still moves what it moved.    *)
LEMMA MovingStep ==
    ASSUME NEW q \in Proc, Moving(q), ~Holder(q),
           pc'[q] = pc[q], bno'[q] = bno[q], rest'[q] = rest[q],
           \A b \in ToSet(rest[q]) : cache'[b] = cache[b]
    PROVE  Moving(q)'
<1>1. \A b \in ToSet(rest[q]) : ~Writes(q, b)
  BY DEF Writes, Holder
<1> QED
  BY <1>1 DEF Moving, Holder

LEMMA NoListInHand ==
    ASSUME LInv, NEW p \in Proc, pc[p] # "lwrite"
    PROVE  \A b \in ToSet(rest[p]) : cache[b] = <<>>
BY DEF LInv, Lists, Moving, Writes

LEMMA WaitFreeLists ==
    ASSUME IInv, LInv, NEW p \in Proc, WaitFree(p)
    PROVE  LInv'
<1>1. \A f \in File : \A b \in ToSet(addr[f]) : cache[b] = <<>>
  BY DEF LInv, Lists
<1> QED
  BY <1>1, QuietLists DEF WaitFree, core, blocks, files

LEMMA FillLists ==
    ASSUME IInv, LInv, NEW p \in Proc, Fill(p)
    PROVE  LInv'
<1>1. \A f \in File : \A b \in ToSet(addr[f]) : cache[b] = <<>>
  BY DEF LInv, Lists
<1>2. /\ UNCHANGED <<free, fmod, super, sbuf, cache, disk, addr, rest, bno>>
      /\ pc[p] = "fill" /\ pc' = [pc EXCEPT ![p] = "user"]
  BY DEF Fill, Runs, Return, Yield, core, blocks, files
<1>3. rest[p] = <<>>
  BY <1>2 DEF LInv, Lists, Moving
<1>4. \A b \in ToSet(rest[p]) : cache[b] = <<>>
  BY <1>3 DEF ToSet
<1>5. pc'[p] = "user" /\ \A q \in Proc \ {p} : pc'[q] = pc[q]
  BY <1>2 DEF IInv, TypeOK
<1> QED
  BY <1>1, <1>2, <1>3, <1>4, <1>5, QuietLists DEF Busy

LEMMA FillFaultLists ==
    ASSUME IInv, LInv, NEW p \in Proc, FillFault(p)
    PROVE  LInv'
<1>1. \A f \in File : \A b \in ToSet(addr[f]) : cache[b] = <<>>
  BY DEF LInv, Lists
<1>2. /\ UNCHANGED <<free, fmod, super, sbuf, cache, disk, addr, rest, bno>>
      /\ pc[p] = "fill" /\ pc' = [pc EXCEPT ![p] = "user"]
  BY DEF FillFault, Runs, Return, Yield, core, blocks, files
<1>3. rest[p] = <<>>
  BY <1>2 DEF LInv, Lists, Moving
<1>4. \A b \in ToSet(rest[p]) : cache[b] = <<>>
  BY <1>3 DEF ToSet
<1>5. pc'[p] = "user" /\ \A q \in Proc \ {p} : pc'[q] = pc[q]
  BY <1>2 DEF IInv, TypeOK
<1> QED
  BY <1>1, <1>2, <1>3, <1>4, <1>5, QuietLists DEF Busy

LEMMA GiveUpLists ==
    ASSUME IInv, LInv, NEW p \in Proc, GiveUp(p)
    PROVE  LInv'
<1>1. \A f \in File : \A b \in ToSet(addr[f]) : cache[b] = <<>>
  BY DEF LInv, Lists
<1>2. /\ UNCHANGED <<free, fmod, super, sbuf, cache, disk, addr, rest, bno>>
      /\ pc[p] = "full" /\ pc' = [pc EXCEPT ![p] = "user"]
  BY DEF GiveUp, Runs, Return, Yield, core, blocks, files
<1>3. rest[p] = <<>>
  BY <1>2 DEF LInv, Lists, Moving
<1>4. \A b \in ToSet(rest[p]) : cache[b] = <<>>
  BY <1>3 DEF ToSet
<1>5. pc'[p] = "user" /\ \A q \in Proc \ {p} : pc'[q] = pc[q]
  BY <1>2 DEF IInv, TypeOK
<1> QED
  BY <1>1, <1>2, <1>3, <1>4, <1>5, QuietLists DEF Busy

LEMMA TruncDoneLists ==
    ASSUME IInv, LInv, NEW p \in Proc, TruncDone(p)
    PROVE  LInv'
<1>1. \A f \in File : \A b \in ToSet(addr[f]) : cache[b] = <<>>
  BY DEF LInv, Lists
<1>2. /\ UNCHANGED <<free, fmod, super, sbuf, cache, disk, addr, rest, bno>>
      /\ pc[p] = "free" /\ pc' = [pc EXCEPT ![p] = "user"]
  BY DEF TruncDone, Runs, Return, Yield, core, blocks, files
<1>3. rest[p] = <<>>
  BY DEF TruncDone
<1>4. \A b \in ToSet(rest[p]) : cache[b] = <<>>
  BY <1>3 DEF ToSet
<1>5. pc'[p] = "user" /\ \A q \in Proc \ {p} : pc'[q] = pc[q]
  BY <1>2 DEF IInv, TypeOK
<1> QED
  BY <1>1, <1>2, <1>3, <1>4, <1>5, QuietLists DEF Busy

LEMMA UpdateLists ==
    ASSUME IInv, LInv, NEW p \in Proc, Update(p)
    PROVE  LInv'
<1>1. \A f \in File : \A b \in ToSet(addr[f]) : cache[b] = <<>>
  BY DEF LInv, Lists
<1>2. /\ UNCHANGED <<free, fmod, super, sbuf, cache, disk, addr, rest, bno>>
      /\ pc[p] = "user" /\ pc' = [pc EXCEPT ![p] = "update"]
  BY DEF Update, Runs, Return, Yield, core, blocks, files
<1>3. rest[p] = <<>>
  BY <1>2 DEF LInv, Lists, Moving
<1>4. \A b \in ToSet(rest[p]) : cache[b] = <<>>
  BY <1>3 DEF ToSet
<1>5. pc'[p] = "update" /\ \A q \in Proc \ {p} : pc'[q] = pc[q]
  BY <1>2 DEF IInv, TypeOK
<1> QED
  BY <1>1, <1>2, <1>3, <1>4, <1>5, QuietLists DEF Busy

LEMMA WriteLists ==
    ASSUME IInv, LInv, NEW p \in Proc, NEW f \in File, Write(p, f)
    PROVE  LInv'
<1>1. \A g \in File : \A b \in ToSet(addr[g]) : cache[b] = <<>>
  BY DEF LInv, Lists
<1>2. /\ UNCHANGED <<free, fmod, super, sbuf, cache, disk, addr, rest, bno>>
      /\ pc[p] = "user" /\ pc'[p] \in {"fill", "alloc"} /\ \A q \in Proc \ {p} : pc'[q] = pc[q]
  BY DEF IInv, TypeOK, Write, Runs, Goto, Yield, core, blocks, files
<1>3. rest[p] = <<>>
  BY <1>2 DEF LInv, Lists, Moving
<1>4. \A b \in ToSet(rest[p]) : cache[b] = <<>>
  BY <1>3 DEF ToSet
<1> QED
  BY <1>1, <1>2, <1>3, <1>4, QuietLists DEF Busy

LEMMA InodeWrittenLists ==
    ASSUME IInv, LInv, NEW p \in Proc, InodeWritten(p)
    PROVE  LInv'
<1>1. \A g \in File : \A b \in ToSet(addr[g]) : cache[b] = <<>>
  BY DEF LInv, Lists
<1>2. /\ UNCHANGED <<free, fmod, super, sbuf, cache, disk, addr, rest, bno>>
      /\ pc[p] = "inode" /\ pc'[p] = "free" /\ \A q \in Proc \ {p} : pc'[q] = pc[q]
  BY DEF IInv, TypeOK, InodeWritten, Runs, Goto, core, blocks, files
<1>3. \A b \in ToSet(rest[p]) : cache[b] = <<>>
  BY <1>2, NoListInHand
<1> QED
  BY <1>1, <1>2, <1>3, QuietLists DEF Busy

LEMMA TruncLists ==
    ASSUME IInv, LInv, NEW p \in Proc, NEW f \in File, Trunc(p, f)
    PROVE  LInv'
<1>1. \A g \in File : \A b \in ToSet(addr[g]) : cache[b] = <<>>
  BY DEF LInv, Lists
<1>2. /\ UNCHANGED <<free, fmod, super, sbuf, cache, disk, bno>>
      /\ pc[p] = "user" /\ pc'[p] = "inode" /\ \A q \in Proc \ {p} : pc'[q] = pc[q]
  BY DEF IInv, TypeOK, Trunc, Runs, Yield, core, blocks
<1>3. \A b \in ToSet(rest[p]) : cache[b] = <<>>
  BY <1>2, NoListInHand
<1>4. CASE UNCHANGED <<addr, size, rest>>
  BY <1>1, <1>2, <1>3, <1>4, QuietLists DEF Busy
<1>5. CASE /\ addr' = [addr EXCEPT ![f] = <<>>]
           /\ rest' = [rest EXCEPT ![p] = Reverse(addr[f])]
  <2>1. ToSet(Reverse(addr[f])) = ToSet(addr[f]) /\ ToSet(<<>>) = {}
    <3>1. ToSet(<<>>) = {}
      BY DEF ToSet
    <3> QED
      BY <3>1, ReverseSimple DEF IInv, Once
  <2>2. /\ addr'[f] = <<>> /\ rest'[p] = Reverse(addr[f])
        /\ \A g \in File \ {f} : addr'[g] = addr[g]
        /\ \A q \in Proc \ {p} : rest'[q] = rest[q]
    BY <1>5 DEF IInv, TypeOK
  <2>3. \A b \in ToSet(rest'[p]) : cache[b] = <<>>
    BY <1>1, <2>1, <2>2
  <2>4. \A g \in File : \A b \in ToSet(addr'[g]) : cache[b] = <<>>
    BY <1>1, <2>1, <2>2
  <2> QED
    BY <1>2, <2>2, <2>3, <2>4, QuietLists DEF Busy
<1> QED
  BY <1>4, <1>5 DEF Trunc

LEMMA BackLists ==
    ASSUME IInv, LInv, NEW f \in File, SyncInode(f) \/ FlushInode(f)
    PROVE  LInv'
<1>1. \A g \in File : \A b \in ToSet(addr[g]) : cache[b] = <<>>
  BY DEF LInv, Lists
<1> QED
  BY <1>1, QuietLists DEF SyncInode, FlushInode, core, blocks, calls

LEMMA FlushBlockLists ==
    ASSUME IInv, LInv, NEW b \in Blk, FlushBlock(b)
    PROVE  LInv'
<1>1. /\ UNCHANGED <<free, fmod, super, sbuf, cache, addr, pc, bno, rest>>
      /\ disk[b] # cache[b] /\ disk'[b] = cache[b] /\ \A d \in Blk \ {b} : disk'[d] = disk[d]
  BY DEF IInv, TypeOK, FlushBlock, core, files, calls
<1>2. /\ \A d \in Blk : (Stale(d)' <=> Stale(d)) /\ (Dead(d)' <=> Dead(d))
      /\ \A q \in Proc : \A d : Writes(q, d)' <=> Writes(q, d)
  BY <1>1 DEF Stale, Dead, Writes
<1>3. Lists'
  <2>1. \A q \in Proc : Moving(q)'
    BY <1>1, <1>2 DEF LInv, Lists, Moving
  <2> QED
    BY <1>1, <1>2, <2>1 DEF LInv, Lists, Chained
<1>4. NoLoop'
  BY <1>1, <1>2 DEF LInv, NoLoop, Rises
<1>5. Frozen
  BY <1>1, <1>2 DEF Frozen
<1>6. Copies'
  BY <1>1, <1>5, SoundKept DEF LInv, Copies, Settled, SuperBusy, Alike
<1>7. Reached'
  BY <1>1, <1>2 DEF LInv, Reached, After
<1> QED
  BY <1>3, <1>4, <1>6, <1>7 DEF LInv

(* The processes other than p go on with what they had. *)
LEMMA OthersMoving ==
    ASSUME LInv, NEW p \in Proc, Only(p),
           \A q \in Proc \ {p} : ~Holder(q),
           \A q \in Proc \ {p} : \A b \in ToSet(rest[q]) : cache'[b] = cache[b]
    PROVE  \A q \in Proc \ {p} : Moving(q)'
BY MovingStep DEF LInv, Lists, Only

LEMMA NoOther ==
    ASSUME IInv, NEW p \in Proc, Holder(p) \/ flock = FALSE
    PROVE  \A q \in Proc \ {p} : ~Holder(q)
BY DEF IInv, Alone, Local

LEMMA UpdateCopyLists ==
    ASSUME IInv, LInv, NEW p \in Proc, UpdateCopy(p)
    PROVE  LInv'
<1>0. IInv'
  BY UpdateCopyInv
<1>1. /\ UNCHANGED <<free, super, cache, disk, addr, bno, rest>> /\ sbuf' = free
      /\ pc[p] = "update" /\ pc'[p] = "uwrite" /\ \A q \in Proc \ {p} : pc'[q] = pc[q]
  BY DEF IInv, TypeOK, UpdateCopy, Runs, Yield, files
<1>2. /\ \A d \in Blk : (Stale(d)' <=> Stale(d)) /\ (Dead(d)' <=> Dead(d))
      /\ \A q \in Proc : \A d : Writes(q, d)' <=> Writes(q, d)
  BY <1>1 DEF Stale, Dead, Writes
<1>3. Lists'
  <2>1. ASSUME NEW q \in Proc PROVE Moving(q)'
    <3>1. CASE q = p
      <4>1. Moving(p) /\ \A b \in ToSet(rest[p]) : cache[b] = <<>>
        BY <1>1, NoListInHand DEF LInv, Lists
      <4> QED
        BY <1>1, <3>1, <4>1 DEF Moving
    <3>2. CASE q # p
      BY <1>1, <1>2, <3>2 DEF LInv, Lists, Moving
    <3> QED
      BY <3>1, <3>2
  <2> QED
    BY <1>1, <1>2, <2>1 DEF LInv, Lists, Chained
<1>4. NoLoop'
  BY <1>1, <1>2 DEF LInv, NoLoop, Rises
<1>5. Frozen
  BY <1>1, <1>2 DEF Frozen
<1>6. Copies'
  <2>1. Sound(super)'
    BY <1>1, <1>5, SoundKept DEF LInv, Copies
  <2>2. Sound(sbuf)'
    BY <1>0, <1>1, <1>3, SoundCopied
  <2>3. SuperBusy'
    BY <1>1 DEF SuperBusy
  <2> QED
    BY <1>1, <2>1, <2>2, <2>3 DEF Copies, Alike
<1>7. Reached'
  BY <1>1, <1>2 DEF LInv, Reached, After
<1> QED
  BY <1>3, <1>4, <1>6, <1>7 DEF LInv

LEMMA UpdateWrittenLists ==
    ASSUME IInv, LInv, NEW p \in Proc, UpdateWritten(p)
    PROVE  LInv'
<1>1. /\ UNCHANGED <<free, fmod, sbuf, cache, disk, addr, bno, rest>> /\ super' = sbuf
      /\ pc[p] = "uwrite" /\ pc'[p] = "user" /\ \A q \in Proc \ {p} : pc'[q] = pc[q]
  BY DEF IInv, TypeOK, UpdateWritten, Runs, Yield, core, files
<1>2. /\ \A d \in Blk : (Stale(d)' <=> Stale(d)) /\ (Dead(d)' <=> Dead(d))
      /\ \A q \in Proc : \A d : Writes(q, d)' <=> Writes(q, d)
  BY <1>1 DEF Stale, Dead, Writes
<1>3. Lists'
  <2>1. ASSUME NEW q \in Proc PROVE Moving(q)'
    <3>1. CASE q = p
      <4>1. Moving(p) /\ \A b \in ToSet(rest[p]) : cache[b] = <<>>
        BY <1>1, NoListInHand DEF LInv, Lists
      <4> QED
        BY <1>1, <3>1, <4>1 DEF Moving
    <3>2. CASE q # p
      BY <1>1, <1>2, <3>2 DEF LInv, Lists, Moving
    <3> QED
      BY <3>1, <3>2
  <2> QED
    BY <1>1, <1>2, <2>1 DEF LInv, Lists, Chained
<1>4. NoLoop'
  BY <1>1, <1>2 DEF LInv, NoLoop, Rises
<1>5. Frozen
  BY <1>1, <1>2 DEF Frozen
<1>6. Copies'
  <2>1. Sound(super)' /\ Sound(sbuf)'
    BY <1>1, <1>5, SoundKept DEF LInv, Copies
  <2>2. Settled' => Settled
    BY <1>1 DEF Settled
  <2>3. \A q \in Proc : pc'[q] = "swrite" => pc[q] = "swrite"
    BY <1>1
  <2> QED
    BY <1>1, <2>1, <2>2, <2>3 DEF LInv, Copies, Alike
<1>7. Reached'
  BY <1>1, <1>2 DEF LInv, Reached, After
<1> QED
  BY <1>3, <1>4, <1>6, <1>7 DEF LInv

LEMMA SuperCopyLists ==
    ASSUME IInv, LInv, NEW p \in Proc, SuperCopy(p)
    PROVE  LInv'
<1>0. IInv'
  BY SuperCopyInv
<1>1. /\ UNCHANGED <<free, super, cache, disk, addr, bno, rest>> /\ sbuf' = free
      /\ pc[p] = "super" /\ pc'[p] = "swrite" /\ \A q \in Proc \ {p} : pc'[q] = pc[q]
  BY DEF IInv, TypeOK, SuperCopy, Runs, Yield, files
<1>2. /\ \A d \in Blk : (Stale(d)' <=> Stale(d)) /\ (Dead(d)' <=> Dead(d))
      /\ \A q \in Proc : \A d : Writes(q, d)' <=> Writes(q, d)
  BY <1>1 DEF Stale, Dead, Writes
<1>3. Lists'
  <2>1. ASSUME NEW q \in Proc PROVE Moving(q)'
    <3>1. CASE q = p
      <4>1. Moving(p) /\ \A b \in ToSet(rest[p]) : cache[b] = <<>>
        BY <1>1, NoListInHand DEF LInv, Lists
      <4> QED
        BY <1>1, <3>1, <4>1 DEF Moving
    <3>2. CASE q # p
      BY <1>1, <1>2, <3>2 DEF LInv, Lists, Moving
    <3> QED
      BY <3>1, <3>2
  <2> QED
    BY <1>1, <1>2, <2>1 DEF LInv, Lists, Chained
<1>4. NoLoop'
  BY <1>1, <1>2 DEF LInv, NoLoop, Rises
<1>5. Frozen
  BY <1>1, <1>2 DEF Frozen
<1>6. Copies'
  <2>1. Sound(super)'
    BY <1>1, <1>5, SoundKept DEF LInv, Copies
  <2>2. Sound(sbuf)'
    BY <1>0, <1>1, <1>3, SoundCopied
  <2>3. SuperBusy'
    BY <1>1 DEF SuperBusy
  <2> QED
    BY <1>1, <2>1, <2>2, <2>3 DEF Copies, Alike
<1>7. Reached'
  BY <1>1, <1>2 DEF LInv, Reached, After
<1> QED
  BY <1>3, <1>4, <1>6, <1>7 DEF LInv

LEMMA SuperWrittenLists ==
    ASSUME IInv, LInv, NEW p \in Proc, SuperWritten(p)
    PROVE  LInv'
<1>0. IInv'
  BY SuperWrittenInv
<1>1. /\ pc[p] = "swrite" /\ free # <<>> /\ sbuf = free /\ bno[p] \in Blk /\ Holder(p)
      /\ \A b \in ToSet(rest[p]) : cache[b] = <<>>
      /\ rest[p] = <<>>
  <2>1. pc[p] = "swrite"
    BY DEF SuperWritten, Runs
  <2>2. free = cache[bno[p]] /\ bno[p] \in Blk
    BY <2>1 DEF IInv, Local
  <2>3. Moving(p)
    BY DEF LInv, Lists
  <2> QED
    BY <2>1, <2>2, <2>3, NoListInHand DEF LInv, Copies, Moving, Holder
<1>2. /\ UNCHANGED <<free, fmod, sbuf, cache, disk, addr, bno, rest>> /\ super' = sbuf
      /\ pc'[p] = "got" /\ \A q \in Proc \ {p} : pc'[q] = pc[q]
  BY <1>1 DEF IInv, TypeOK, SuperWritten, Yield, files
<1>3. /\ \A d \in Blk : (Stale(d) => Stale(d)') /\ (Dead(d)' <=> Dead(d))
      /\ \A q \in Proc : \A d : Writes(q, d)' <=> Writes(q, d)
  BY <1>1, <1>2 DEF Stale, Dead, Writes
<1>4. Lists'
  <2>1. ASSUME NEW q \in Proc PROVE Moving(q)'
    <3>1. CASE q = p
      BY <1>1, <1>2, <3>1 DEF Moving
    <3>2. CASE q # p
      BY <1>2, <1>3, <3>2 DEF LInv, Lists, Moving
    <3> QED
      BY <3>1, <3>2
  <2> QED
    BY <1>2, <1>3, <2>1 DEF LInv, Lists, Chained
<1>5. NoLoop'
  BY <1>2, <1>3 DEF LInv, NoLoop, Rises
<1>6. Copies'
  <2>1. Sound(super)' /\ Sound(sbuf)'
    BY <1>0, <1>1, <1>2, <1>4, SoundCopied
  <2>2. ~Settled'
    BY <1>2 DEF Settled
  <2>3. \A q \in Proc : pc'[q] = "swrite" => pc[q] = "swrite"
    BY <1>2
  <2> QED
    BY <1>1, <1>2, <2>1, <2>2, <2>3 DEF LInv, Copies
<1>7. Reached'
  BY <1>1, <1>2, <1>3 DEF LInv, Reached, After
<1> QED
  BY <1>4, <1>5, <1>6, <1>7 DEF LInv

LEMMA ChainLists ==
    ASSUME IInv, LInv, NEW p \in Proc, Chain(p)
    PROVE  LInv'
<1>1. /\ UNCHANGED <<fmod, super, sbuf, cache, disk, addr, bno, rest>> /\ free' = cache[bno[p]]
      /\ pc[p] = "chain" /\ pc'[p] = "super" /\ \A q \in Proc \ {p} : pc'[q] = pc[q]
  BY DEF IInv, TypeOK, Chain, Runs, Yield, blocks, files
<1>2. /\ bno[p] \in Blk /\ rest[p] = <<>> /\ cache[bno[p]] # <<>> /\ free = <<>> /\ Holder(p)
      /\ \A b \in ToSet(rest[p]) : cache[b] = <<>>
  BY <1>1, NoListInHand DEF IInv, Local, LInv, Lists, Moving, Holder
<1>3. ~Stale(bno[p])
  <2>1. ASSUME NEW q \in Proc, pc[q] = "got", bno[q] = bno[p] PROVE FALSE
    BY <1>1, <1>2, <2>1, BlkAssumption, ApartKinds DEF IInv, Hand
  <2> QED
    BY <2>1 DEF Stale
<1>4. /\ \A d \in Blk : Stale(d)' <=> Stale(d)
      /\ \A d \in Blk : Dead(d)' <=> Dead(d) \/ d = bno[p]
      /\ \A q \in Proc : \A d : Writes(q, d)' <=> Writes(q, d)
  BY <1>1 DEF Stale, Dead, Writes
<1>5. \A q \in Proc \ {p} : ~Holder(q)
  BY <1>2, NoOther
<1>6. Lists'
  <2>1. ASSUME NEW q \in Proc PROVE Moving(q)'
    <3>1. CASE q = p
      BY <1>1, <1>2, <3>1 DEF Moving
    <3>2. CASE q # p
      BY <1>1, <1>4, <1>5, <3>2 DEF LInv, Lists, Moving, Holder
    <3> QED
      BY <3>1, <3>2
  <2>2. Chained(cache[bno[p]])
    BY <1>2, <1>3 DEF LInv, Lists
  <2> QED
    BY <1>1, <1>4, <2>1, <2>2 DEF LInv, Lists, Chained
<1>7. NoLoop'
  BY <1>1, <1>4 DEF LInv, NoLoop, Rises
<1>8. Frozen
  BY <1>1, <1>4 DEF Frozen
<1>9. Copies'
  <2>1. Sound(super)' /\ Sound(sbuf)'
    BY <1>1, <1>8, SoundKept DEF LInv, Copies
  <2>2. ~Settled' /\ (SuperBusy' <=> SuperBusy)
    BY <1>1 DEF Settled, SuperBusy
  <2>3. \A q \in Proc : pc'[q] # "swrite"
    BY <1>1, <1>5 DEF Holder
  <2> QED
    BY <1>1, <2>1, <2>2, <2>3 DEF LInv, Copies
<1>10. Reached'
  <2> SUFFICES ASSUME NEW b \in Blk, cache[b] # <<>> PROVE After(b)' \/ Dead(b)'
    BY <1>1 DEF Reached
  <2>1. CASE Dead(b)
    BY <1>4, <2>1
  <2>2. CASE b = bno[p]
    BY <1>4, <2>2
  <2>3. CASE ~Dead(b) /\ b # bno[p]
    <3>1. After(b)
      BY <2>3 DEF LInv, Reached
    <3>2. \A q \in Proc : ~(pc[q] = "chain" /\ bno[q] = b)
      BY <1>5, <2>3 DEF Holder
    <3>3. CASE \E q \in Proc : Writes(q, b)
      BY <1>4, <3>3 DEF After
    <3>4. CASE \E d \in Blk : ~Dead(d) /\ cache[d] # <<>> /\ cache[d][1] = b
      BY <1>1, <1>2, <1>4, <3>4 DEF After
    <3> QED
      BY <1>2, <3>1, <3>2, <3>3, <3>4 DEF After
  <2> QED
    BY <2>1, <2>2, <2>3
<1> QED
  BY <1>6, <1>7, <1>9, <1>10 DEF LInv

LEMMA PopLists ==
    ASSUME IInv, LInv, NEW p \in Proc, Pop(p)
    PROVE  LInv'
<1>1. /\ UNCHANGED <<fmod, super, sbuf, cache, disk, addr, rest>>
      /\ pc[p] = "alloc" /\ flock = FALSE /\ \A q \in Proc \ {p} : pc'[q] = pc[q]
  BY DEF IInv, TypeOK, Pop, Runs, NoSpace, Yield, blocks, files
<1>2. \A q \in Proc : ~Holder(q)
  BY <1>1 DEF IInv, Local
<1>3. rest[p] = <<>> /\ bno[p] = Zero /\ \A b \in ToSet(rest[p]) : cache[b] = <<>>
  BY <1>1, NoListInHand DEF LInv, Lists, Moving
<1>4. (SuperBusy' <=> SuperBusy)
  <2>1. pc'[p] \in {"full", "chain", "got"}
    BY DEF IInv, TypeOK, Pop, NoSpace, Yield
  <2> QED
    BY <1>1, <2>1 DEF SuperBusy
<1>5. CASE free = <<>> \/ Last(free) = Zero
  <2>1. free' = <<>> /\ bno' = bno /\ pc'[p] = "full"
    BY <1>5 DEF IInv, TypeOK, Pop, NoSpace, Yield
  <2>2. free = <<>> \/ free = <<Zero>>
    <3> SUFFICES ASSUME free # <<>>, Last(free) = Zero PROVE free = <<Zero>>
      BY <1>5
    <3>1. free \in Seq(Entry) /\ Len(free) \in Nat /\ Len(free) # 0 /\ free[Len(free)] = Zero
      BY DEF IInv, Once, Simple, Last
    <3>2. \A i \in 2..Len(free) : free[i] # Zero
      BY DEF LInv, Lists, Chained
    <3>3. Len(free) = 1
      <4>1. Len(free) \notin 2..Len(free)
        BY <3>1, <3>2
      <4>2. PICK n \in Nat : n = Len(free)
        BY <3>1
      <4>3. n # 0 /\ n \notin 2..n
        BY <3>1, <4>1, <4>2
      <4> QED
        BY <4>2, <4>3
    <3>4. <<Zero>> \in Seq(Entry) /\ Len(<<Zero>>) = 1 /\ free[1] = <<Zero>>[1]
      BY <3>1, <3>3 DEF Entry
    <3>5. \A i \in 1..Len(free) : free[i] = <<Zero>>[i]
      BY <3>3, <3>4
    <3> QED
      BY <3>1, <3>3, <3>4, <3>5, SeqEqual
  <2>3. /\ \A d \in Blk : (Stale(d)' <=> Stale(d)) /\ (Dead(d)' <=> Dead(d))
        /\ \A q \in Proc : \A d : Writes(q, d)' <=> Writes(q, d)
    BY <1>1, <2>1 DEF Stale, Dead, Writes
  <2>4. Lists'
    <3>1. ASSUME NEW q \in Proc PROVE Moving(q)'
      <4>1. CASE q = p
        BY <1>1, <1>3, <2>1, <4>1 DEF Moving
      <4>2. CASE q # p
        BY <1>1, <1>2, <2>1, <2>3, <4>2 DEF LInv, Lists, Moving, Holder
      <4> QED
        BY <4>1, <4>2
    <3>2. Chained(free)'
      BY <2>1 DEF Chained
    <3> QED
      BY <1>1, <2>3, <3>1, <3>2 DEF LInv, Lists, Chained
  <2>5. NoLoop'
    BY <1>1, <2>3 DEF LInv, NoLoop, Rises
  <2>6. Frozen
    BY <1>1, <2>3 DEF Frozen
  <2>7. Copies'
    <3>1. Sound(super)' /\ Sound(sbuf)'
      BY <1>1, <2>6, SoundKept DEF LInv, Copies
    <3>2. Settled' => Settled
      BY <1>1 DEF Settled
    <3>3. \A q \in Proc : pc'[q] # "swrite"
      BY <1>1, <1>2, <2>1 DEF Holder
    <3>4. Alike(sbuf) => Alike(sbuf)'
      BY <1>1, <2>1, <2>2 DEF Alike
    <3> QED
      BY <1>1, <1>4, <3>1, <3>2, <3>3, <3>4 DEF LInv, Copies
  <2>8. Reached'
    <3>1. ASSUME NEW b \in Blk, After(b) PROVE After(b)'
      <4>1. ~(free # <<>> /\ free[1] = b)
        BY <2>2, BlkAssumption
      <4>2. \A q \in Proc : pc[q] # "chain"
        BY <1>2 DEF Holder
      <4> QED
        BY <1>1, <2>3, <3>1, <4>1, <4>2 DEF After
    <3> QED
      BY <1>1, <2>3, <3>1 DEF LInv, Reached
  <2> QED
    BY <2>4, <2>5, <2>7, <2>8 DEF LInv
<1>6. CASE free # <<>> /\ Last(free) # Zero /\ Len(free) # 1
  <2> DEFINE h == Last(free)
  <2>1. /\ free' = Front(free) /\ pc'[p] = "got" /\ bno'[p] = h
        /\ \A q \in Proc \ {p} : bno'[q] = bno[q]
    BY <1>6 DEF IInv, TypeOK, Pop, Yield
  <2>2. /\ h \in Blk /\ h \in ToSet(free) /\ cache[h] = <<>>
        /\ Front(free) # <<>> /\ Front(free)[1] = free[1]
        /\ \A i \in 2..Len(Front(free)) : Front(free)[i] = free[i] /\ i \in 2..Len(free)
    <3>1. Simple(free, Entry) /\ free \in Seq(Entry) /\ Len(free) \in Nat /\ Len(free) > 1
      <4>1. Simple(free, Entry) /\ free \in Seq(Entry)
        BY DEF IInv, Once, Simple
      <4>2. Len(free) \in Nat \ {0}
        BY <1>6, <4>1, EmptySeq
      <4>3. PICK n \in Nat : n = Len(free) /\ n # 0 /\ n # 1
        BY <1>6, <4>2
      <4>4. n > 1
        BY <4>3
      <4> QED
        BY <4>1, <4>3, <4>4
    <3>2. /\ h \in Entry /\ h \in ToSet(free) /\ Len(Front(free)) = Len(free) - 1
          /\ Simple(Front(free), Entry)
      BY <1>6, <3>1, FrontSimple
    <3>3. h = free[Len(free)] /\ Len(free) \in 2..Len(free)
      BY <3>1 DEF Last
    <3>4. \A i \in 2..Len(free) : cache[free[i]] = <<>>
      BY DEF LInv, Lists, Chained
    <3>5. \A i \in 1..(Len(free) - 1) : Front(free)[i] = free[i]
      <4>1. \A j \in 1..(Len(free) - 1) : free[j] \in Entry
        BY <3>1
      <4>2. Front(free) = SubSeq(free, 1, Len(free) - 1)
        BY DEF Front
      <4> QED
        BY <3>1, <4>1, <4>2
    <3>6. Front(free) # <<>> /\ 1 \in 1..(Len(free) - 1)
      BY <3>1, <3>2
    <3>7. \A i \in 2..(Len(free) - 1) : i \in 1..(Len(free) - 1) /\ i \in 2..Len(free)
      BY <3>1
    <3> QED
      BY <1>6, <3>2, <3>3, <3>4, <3>5, <3>6, <3>7 DEF Entry
  <2> HIDE DEF h
  <2>3. /\ \A d \in Blk : /\ Stale(d) => Stale(d)'
                          /\ Stale(d)' => Stale(d) \/ d = h
                          /\ Dead(d)' <=> Dead(d) \/ d = h
        /\ \A q \in Proc : \A d : Writes(q, d)' <=> Writes(q, d)
    <3>1. \A q \in Proc \ {p} : pc'[q] = pc[q] /\ bno'[q] = bno[q] /\ rest'[q] = rest[q]
      BY <1>1, <2>1
    <3> QED
      BY <1>1, <2>1, <3>1 DEF Stale, Dead, Writes
  <2>4. Lists'
    <3>1. ASSUME NEW q \in Proc PROVE Moving(q)'
      <4>1. CASE q = p
        BY <1>1, <1>3, <2>1, <4>1 DEF Moving
      <4>2. CASE q # p
        BY <1>1, <1>2, <2>1, <2>3, <4>2 DEF LInv, Lists, Moving, Holder
      <4> QED
        BY <4>1, <4>2
    <3>2. Chained(free)'
      BY <1>1, <1>6, <2>1, <2>2 DEF LInv, Lists, Chained
    <3>3. \A b \in Blk : Chained(cache[b]) => Chained(cache[b])'
      BY <1>1 DEF Chained
    <3> QED
      BY <1>1, <2>3, <3>1, <3>2, <3>3 DEF LInv, Lists
  <2>5. NoLoop'
    BY <1>1, <2>3 DEF LInv, NoLoop, Rises
  <2>6. Frozen
    BY <1>1, <2>2, <2>3 DEF Frozen
  <2>7. Copies'
    <3>1. Sound(super)' /\ Sound(sbuf)'
      BY <1>1, <2>6, SoundKept DEF LInv, Copies
    <3>2. ~Settled'
      BY <2>1 DEF Settled
    <3>3. \A q \in Proc : pc'[q] # "swrite"
      BY <1>1, <1>2, <2>1 DEF Holder
    <3> QED
      BY <1>1, <1>4, <3>1, <3>2, <3>3 DEF LInv, Copies
  <2>8. Reached'
    <3> SUFFICES ASSUME NEW b \in Blk, cache[b] # <<>>, ~Dead(b) PROVE After(b)'
      BY <1>1, <2>3 DEF LInv, Reached
    <3>1. After(b)
      BY DEF LInv, Reached
    <3>2. ~\E q \in Proc : Writes(q, b) \/ (pc[q] = "chain" /\ bno[q] = b)
      BY <1>2 DEF Writes, Holder
    <3>3. CASE free # <<>> /\ free[1] = b
      BY <2>1, <2>2, <3>3 DEF After
    <3>4. CASE \E d \in Blk : ~Dead(d) /\ cache[d] # <<>> /\ cache[d][1] = b
      BY <1>1, <2>2, <2>3, <3>4 DEF After
    <3> QED
      BY <3>1, <3>2, <3>3, <3>4 DEF After
  <2> QED
    BY <2>4, <2>5, <2>7, <2>8 DEF LInv
<1>7. CASE free # <<>> /\ Last(free) # Zero /\ Len(free) = 1
  <2> DEFINE h == Last(free)
  <2>1. /\ free' = <<>> /\ pc'[p] = "chain" /\ bno'[p] = h
        /\ \A q \in Proc \ {p} : bno'[q] = bno[q]
    <3>1. Front(free) = <<>>
      BY <1>7 DEF Front
    <3> QED
      BY <1>7, <3>1 DEF IInv, TypeOK, Pop, Yield
  <2>2. h = free[1] /\ h \in Blk /\ cache[h] # <<>>
    <3>1. h = free[1]
      BY <1>7 DEF Last
    <3> QED
      BY <1>7, <3>1, HeadOf, ListTypes DEF LInv, Lists, Chained
  <2> HIDE DEF h
  <2>3. /\ \A d \in Blk : (Stale(d)' <=> Stale(d)) /\ (Dead(d)' <=> Dead(d))
        /\ \A q \in Proc : \A d : Writes(q, d)' <=> Writes(q, d)
    <3>1. \A q \in Proc \ {p} : pc'[q] = pc[q] /\ bno'[q] = bno[q] /\ rest'[q] = rest[q]
      BY <1>1, <2>1
    <3> QED
      BY <1>1, <2>1, <3>1 DEF Stale, Dead, Writes
  <2>4. Lists'
    <3>1. ASSUME NEW q \in Proc PROVE Moving(q)'
      <4>1. CASE q = p
        BY <1>1, <1>3, <2>1, <2>2, <4>1 DEF Moving
      <4>2. CASE q # p
        BY <1>1, <1>2, <2>1, <2>3, <4>2 DEF LInv, Lists, Moving, Holder
      <4> QED
        BY <4>1, <4>2
    <3>2. Chained(free)'
      BY <2>1 DEF Chained
    <3>3. \A b \in Blk : Chained(cache[b]) => Chained(cache[b])'
      BY <1>1 DEF Chained
    <3> QED
      BY <1>1, <2>3, <3>1, <3>2, <3>3 DEF LInv, Lists
  <2>5. NoLoop'
    BY <1>1, <2>3 DEF LInv, NoLoop, Rises
  <2>6. Frozen
    BY <1>1, <2>3 DEF Frozen
  <2>7. Copies'
    <3>1. Sound(super)' /\ Sound(sbuf)'
      BY <1>1, <2>6, SoundKept DEF LInv, Copies
    <3>2. ~Settled'
      BY <2>1 DEF Settled
    <3>3. \A q \in Proc : pc'[q] # "swrite"
      BY <1>1, <1>2, <2>1 DEF Holder
    <3> QED
      BY <1>1, <1>4, <3>1, <3>2, <3>3 DEF LInv, Copies
  <2>8. Reached'
    <3> SUFFICES ASSUME NEW b \in Blk, cache[b] # <<>>, ~Dead(b) PROVE After(b)'
      BY <1>1, <2>3 DEF LInv, Reached
    <3>1. After(b)
      BY DEF LInv, Reached
    <3>2. ~\E q \in Proc : Writes(q, b) \/ (pc[q] = "chain" /\ bno[q] = b)
      BY <1>2 DEF Writes, Holder
    <3>3. CASE free # <<>> /\ free[1] = b
      BY <2>1, <2>2, <3>3 DEF After
    <3>4. CASE \E d \in Blk : ~Dead(d) /\ cache[d] # <<>> /\ cache[d][1] = b
      BY <1>1, <2>3, <3>4 DEF After
    <3> QED
      BY <3>1, <3>2, <3>3, <3>4 DEF After
  <2> QED
    BY <2>4, <2>5, <2>7, <2>8 DEF LInv
<1> QED
  BY <1>5, <1>6, <1>7

(* p gives the first of its blocks, or keeps it for a list. *)
LEMMA FirstInHand ==
    ASSUME IInv, NEW p \in Proc, rest[p] # <<>>
    PROVE  \E h \in Blk : /\ h = Head(rest[p]) /\ h # Zero /\ h \in ToSet(rest[p]) /\ h \in Hand(p)
                          /\ ToSet(Tail(rest[p])) = ToSet(rest[p]) \ {h}
                          /\ h \notin ToSet(free)
                          /\ \A q \in Proc \ {p} : h \notin Hand(q)
                          /\ \A f \in File : h \notin ToSet(addr[f])
                          /\ \A b \in Blk : ~Stale(b) => h \notin ToSet(cache[b])
<1>1. /\ Head(rest[p]) \in Blk /\ Head(rest[p]) \in ToSet(rest[p])
      /\ ToSet(Tail(rest[p])) = ToSet(rest[p]) \ {Head(rest[p])}
  BY TailSimple DEF IInv, Once
<1>2. PICK h \in Blk : h = Head(rest[p])
  BY <1>1
<1>3. h # Zero /\ h \in Hand(p)
  BY <1>1, <1>2, BlkAssumption DEF Hand
<1>4. /\ h \notin ToSet(free)
      /\ \A q \in Proc \ {p} : h \notin Hand(q)
      /\ \A f \in File : h \notin ToSet(addr[f])
  BY <1>3, ApartKinds, ListsApart DEF IInv
<1>5. ASSUME NEW b \in Blk, ~Stale(b) PROVE h \notin ToSet(cache[b])
  <2>1. CASE Dead(b)
    BY <1>4, <1>5, <2>1, DeadLists
  <2>2. CASE ~Dead(b)
    BY <1>3, <2>2, ListsApart
  <2> QED
    BY <2>1, <2>2
<1> QED
  BY <1>1, <1>2, <1>3, <1>4, <1>5

LEMMA GotLists ==
    ASSUME IInv, LInv, NEW p \in Proc, Got(p)
    PROVE  LInv'
<1>0. PICK b \in Blk, f \in File : b = bno[p] /\ f = file[p]
  BY DEF IInv, Local, Got, Runs
<1>1. /\ pc[p] = "got" /\ pc'[p] = "fill" /\ bno'[p] = Zero /\ UNCHANGED <<free, super, sbuf, disk, rest>>
      /\ \A q \in Proc \ {p} : pc'[q] = pc[q] /\ bno'[q] = bno[q]
      /\ cache'[b] = <<>> /\ \A d \in Blk \ {b} : cache'[d] = cache[d]
      /\ addr'[f] = Append(addr[f], b) /\ \A g \in File \ {f} : addr'[g] = addr[g]
      /\ fmod' = TRUE
  BY <1>0 DEF IInv, TypeOK, Got, Runs, Yield, Data
<1>2. b # Zero /\ b \in Hand(p) /\ Stale(b) /\ Dead(b)
  BY <1>0, <1>1, BlkAssumption DEF Hand, Stale, Dead
<1>3. /\ b \notin ToSet(free)
      /\ \A q \in Proc \ {p} : b \notin Hand(q)
      /\ \A g \in File : b \notin ToSet(addr[g])
  BY <1>2, ApartKinds, ListsApart DEF IInv
<1>4. ASSUME NEW d \in Blk, ~Stale(d) PROVE b \notin ToSet(cache[d])
  <2>1. CASE Dead(d)
    BY <1>3, <1>4, <2>1, DeadLists
  <2>2. CASE ~Dead(d)
    BY <1>2, <2>2, ListsApart
  <2> QED
    BY <2>1, <2>2
<1>5. /\ \A d \in Blk \ {b} : (Stale(d)' <=> Stale(d)) /\ (Dead(d)' <=> Dead(d))
      /\ \A q \in Proc : \A d : Writes(q, d)' <=> Writes(q, d)
  BY <1>0, <1>1 DEF Stale, Dead, Writes
<1>6. rest[p] = <<>> /\ ToSet(<<>>) = {}
  BY <1>1 DEF LInv, Lists, Moving, ToSet
<1>7. Lists'
  <2>1. Chained(free)'
    <3>1. PICK l \in List : l = free
      BY ListTypes
    <3>2. Chained(l)'
      BY <1>1, <1>3, <3>1, ChainedStep DEF LInv, Lists
    <3> QED
      BY <1>1, <3>1, <3>2 DEF Chained
  <2>2. ASSUME NEW d \in Blk PROVE Stale(d)' \/ Chained(cache[d])'
    <3>1. CASE d = b
      <4>1. cache'[d] = <<>> /\ Len(<<>>) = 0 /\ 2..0 = {}
        BY <1>1, <3>1
      <4> QED
        BY <4>1 DEF Chained
    <3>2. CASE d # b /\ ~Stale(d)
      <4>1. PICK l \in List : l = cache[d]
        BY ListTypes
      <4>2. Chained(l)'
        BY <1>1, <1>4, <3>2, <4>1, ChainedStep DEF LInv, Lists
      <4> QED
        BY <1>1, <3>2, <4>1, <4>2 DEF Chained
    <3>3. CASE d # b /\ Stale(d)
      BY <1>5, <3>3
    <3> QED
      BY <3>1, <3>2, <3>3
  <2>3. ASSUME NEW g \in File, NEW d \in ToSet(addr'[g]) PROVE cache'[d] = <<>>
    <3>1. addr[g] \in Seq(Blk) /\ \A x \in ToSet(addr[g]) : x \in Blk /\ cache[x] = <<>>
      BY DEF IInv, TypeOK, LInv, Lists, ToSet
    <3>2. ToSet(addr'[f]) = ToSet(addr[f]) \cup {b}
      BY <1>1, <1>3, AppendSimple DEF IInv, Once
    <3>3. d \in ToSet(addr[g]) \/ d = b
      BY <1>1, <3>2
    <3> QED
      BY <1>1, <3>1, <3>3
  <2>4. ASSUME NEW q \in Proc PROVE Moving(q)'
    <3>1. CASE q = p
      BY <1>1, <1>6, <3>1 DEF Moving
    <3>2. CASE q # p
      <4>1. Moving(q) /\ \A d \in ToSet(rest[q]) : cache'[d] = cache[d] /\ (Writes(q, d)' <=> Writes(q, d))
        BY <1>1, <1>3, <1>5, <3>2 DEF LInv, Lists, IInv, TypeOK, Hand, ToSet
      <4>2. bno[q] \in Blk => cache'[bno[q]] = cache[bno[q]]
        BY <1>1, <1>2, <1>3, <3>2 DEF Hand
      <4>3. pc[q] \in {"chain", "super", "swrite"} => bno[q] \in Blk
        BY DEF IInv, Local
      <4>4. pc[q] = "lwrite" => Head(rest[q]) \in Blk /\ Head(rest[q]) \in ToSet(rest[q])
        BY FirstInHand DEF IInv, Local
      <4> QED
        BY <1>1, <3>2, <4>1, <4>2, <4>3, <4>4 DEF Moving
    <3> QED
      BY <3>1, <3>2
  <2>5. \A d \in Blk : cache'[d] # <<>> => disk'[d] = cache'[d] \/ \E q \in Proc : Writes(q, d)'
    BY <1>1, <1>5 DEF LInv, Lists
  <2> QED
    BY <2>1, <2>2, <2>3, <2>4, <2>5 DEF Lists
<1>8. NoLoop'
  <2>1. PICK r \in [Blk -> Nat] : Rises(r)
    BY DEF LInv, NoLoop
  <2>2. Rises(r)'
    BY <1>1, <1>5, <2>1 DEF Rises
  <2> QED
    BY <2>2 DEF NoLoop
<1>9. Frozen
  BY <1>1, <1>2, <1>5 DEF Frozen
<1>10. Copies'
  <2>1. Sound(super)' /\ Sound(sbuf)'
    BY <1>1, <1>9, SoundKept DEF LInv, Copies
  <2>2. SuperBusy' <=> SuperBusy
    BY <1>1 DEF SuperBusy
  <2>3. \A q \in Proc : pc'[q] = "swrite" => pc[q] = "swrite"
    BY <1>1
  <2> QED
    BY <1>1, <2>1, <2>2, <2>3 DEF LInv, Copies
<1>11. Reached'
  <2> SUFFICES ASSUME NEW d \in Blk, cache'[d] # <<>>, ~Dead(d)' PROVE After(d)'
    BY DEF Reached
  <2>1. d # b /\ cache[d] # <<>> /\ ~Dead(d)
    BY <1>1, <1>5
  <2>2. After(d)
    BY <2>1 DEF LInv, Reached
  <2>3. CASE free # <<>> /\ free[1] = d
    BY <1>1, <2>3 DEF After
  <2>4. CASE \E e \in Blk : ~Dead(e) /\ cache[e] # <<>> /\ cache[e][1] = d
    BY <1>1, <1>2, <1>5, <2>4 DEF After
  <2>5. CASE \E q \in Proc : Writes(q, d) \/ (pc[q] = "chain" /\ bno[q] = d)
    BY <1>1, <1>5, <2>5 DEF After
  <2> QED
    BY <2>2, <2>3, <2>4, <2>5 DEF After
<1> QED
  BY <1>7, <1>8, <1>10, <1>11 DEF LInv

LEMMA FreeLists ==
    ASSUME IInv, LInv, NEW p \in Proc, Free(p)
    PROVE  LInv'
<1>1. /\ UNCHANGED <<super, sbuf, cache, disk, addr, bno>>
      /\ pc[p] = "free" /\ rest[p] # <<>> /\ flock = FALSE
      /\ \A q \in Proc \ {p} : pc'[q] = pc[q] /\ rest'[q] = rest[q]
      /\ pc'[p] \in {"free", "list"}
  BY DEF IInv, TypeOK, Free, Runs, Goto, Yield, blocks, files
<1>2. \A q \in Proc : ~Holder(q)
  BY <1>1 DEF IInv, Local
<1>3. bno[p] = Zero /\ \A b \in ToSet(rest[p]) : cache[b] = <<>>
  BY <1>1, NoListInHand DEF LInv, Lists, Moving
<1>4. PICK h \in Blk : /\ h = Head(rest[p]) /\ h # Zero /\ h \in ToSet(rest[p])
                       /\ ToSet(Tail(rest[p])) = ToSet(rest[p]) \ {h}
  BY <1>1, FirstInHand
<1>5. /\ \A d \in Blk : (Stale(d)' <=> Stale(d)) /\ (Dead(d)' <=> Dead(d))
      /\ \A q \in Proc : \A d : ~Writes(q, d) /\ ~Writes(q, d)'
      /\ SuperBusy' <=> SuperBusy
      /\ \A q \in Proc : pc'[q] # "swrite"
  BY <1>1, <1>2 DEF Stale, Dead, Writes, Holder, SuperBusy
<1>6. NoLoop'
  BY <1>1, <1>5 DEF LInv, NoLoop, Rises
<1>7. Frozen
  BY <1>1, <1>5 DEF Frozen
<1>8. Sound(super)' /\ Sound(sbuf)'
  BY <1>1, <1>7, SoundKept DEF LInv, Copies
<1>9. \A b \in Blk : Chained(cache[b]) => Chained(cache[b])'
  BY <1>1 DEF Chained
<1>10. CASE pc'[p] = "free"
  <2>1. /\ free' = Append(Ended(free), h) /\ rest'[p] = Tail(rest[p]) /\ fmod' = TRUE
    BY <1>4, <1>10 DEF IInv, TypeOK, Free, Yield, Goto
  <2>2. /\ Ended(free) \in Seq(Entry) /\ h \in Entry
        /\ Ended(free) # <<>>
        /\ free # <<>> => Ended(free) = free
        /\ free = <<>> => Ended(free) = <<Zero>>
    <3>1. free \in Seq(Entry) /\ h \in Entry /\ <<Zero>> \in Seq(Entry) /\ <<Zero>> # <<>>
      BY DEF IInv, Once, Simple, Entry
    <3> QED
      BY <3>1 DEF Ended
  <2>3. /\ Len(Ended(free)) \in Nat \ {0} /\ Len(free') = Len(Ended(free)) + 1
        /\ \A i \in 1..Len(Ended(free)) : free'[i] = Ended(free)[i]
        /\ free'[Len(Ended(free)) + 1] = h
    BY <2>1, <2>2, EmptySeq, AppendProperties
  <2>4. free' # <<>> /\ free'[1] = Ended(free)[1]
    BY <2>1, <2>2, <2>3
  <2>5. Chained(free)'
    <3>1. \A i \in 2..Len(free') : free'[i] # Zero /\ cache[free'[i]] = <<>>
      <4> SUFFICES ASSUME NEW i \in 2..Len(free') PROVE free'[i] # Zero /\ cache[free'[i]] = <<>>
        OBVIOUS
      <4>1. CASE i = Len(Ended(free)) + 1
        BY <1>3, <1>4, <2>3, <4>1
      <4>2. CASE i # Len(Ended(free)) + 1
        <5>1. i \in 1..Len(Ended(free)) /\ i \in 2..Len(Ended(free)) /\ Len(Ended(free)) # 1
          BY <2>3, <4>2
        <5>2. free # <<>>
          BY <2>2, <5>1
        <5> QED
          BY <2>2, <2>3, <5>1, <5>2 DEF LInv, Lists, Chained
      <4> QED
        BY <4>1, <4>2
    <3>2. free'[1] = Zero \/ cache[free'[1]] # <<>>
      BY <2>2, <2>4 DEF LInv, Lists, Chained
    <3> QED
      BY <1>1, <3>1, <3>2 DEF Chained
  <2>6. Lists'
    <3>1. ASSUME NEW q \in Proc PROVE Moving(q)'
      <4>1. CASE q = p
        BY <1>1, <1>3, <1>4, <1>10, <2>1, <4>1 DEF Moving
      <4>2. CASE q # p
        BY <1>1, <1>2, <1>5, <4>2 DEF LInv, Lists, Moving, Holder
      <4> QED
        BY <4>1, <4>2
    <3> QED
      BY <1>1, <1>5, <1>9, <2>5, <3>1 DEF LInv, Lists
  <2>7. Copies'
    BY <1>1, <1>5, <1>8, <2>1 DEF LInv, Copies
  <2>8. Reached'
    <3>1. ASSUME NEW b \in Blk, After(b) PROVE After(b)'
      <4>1. CASE free # <<>> /\ free[1] = b
        BY <2>2, <2>4, <4>1 DEF After
      <4>2. CASE ~(free # <<>> /\ free[1] = b)
        BY <1>1, <1>2, <1>5, <3>1, <4>2 DEF After, Holder
      <4> QED
        BY <4>1, <4>2
    <3> QED
      BY <1>1, <1>5, <3>1 DEF LInv, Reached
  <2> QED
    BY <1>6, <2>6, <2>7, <2>8 DEF LInv
<1>11. CASE pc'[p] = "list"
  <2>1. UNCHANGED <<free, fmod, rest>> /\ ~(Len(Ended(free)) < NICFREE)
    BY <1>11 DEF IInv, TypeOK, Free, Yield, Goto
  <2>2. free # <<>>
    <3>1. Len(<<Zero>>) = 1 /\ NICFREE \in Nat /\ NICFREE > 1
      BY ListAssumption
    <3> QED
      BY <2>1, <3>1 DEF Ended
  <2>3. Lists'
    <3>1. ASSUME NEW q \in Proc PROVE Moving(q)'
      <4>1. CASE q = p
        BY <1>1, <1>3, <1>11, <2>1, <2>2, <4>1 DEF Moving
      <4>2. CASE q # p
        BY <1>1, <1>2, <1>5, <4>2 DEF LInv, Lists, Moving, Holder
      <4> QED
        BY <4>1, <4>2
    <3>2. Chained(free)'
      BY <1>1, <2>1 DEF LInv, Lists, Chained
    <3> QED
      BY <1>1, <1>5, <1>9, <3>1, <3>2 DEF LInv, Lists
  <2>4. Copies'
    <3>1. ~Settled'
      BY <1>11 DEF Settled
    <3> QED
      BY <1>1, <1>5, <1>8, <3>1 DEF LInv, Copies
  <2>5. Reached'
    <3>1. ASSUME NEW b \in Blk, After(b) PROVE After(b)'
      BY <1>1, <1>2, <1>5, <2>1, <3>1 DEF After, Holder
    <3> QED
      BY <1>1, <1>5, <3>1 DEF LInv, Reached
  <2> QED
    BY <1>6, <2>3, <2>4, <2>5 DEF LInv
<1> QED
  BY <1>1, <1>10, <1>11

LEMMA ListCopyLists ==
    ASSUME IInv, LInv, NEW p \in Proc, ListCopy(p)
    PROVE  LInv'
<1>1. /\ pc[p] = "list" /\ rest[p] # <<>> /\ free # <<>> /\ Holder(p) /\ bno[p] = Zero
      /\ \A d \in ToSet(rest[p]) : cache[d] = <<>>
  <2>1. pc[p] = "list" /\ rest[p] # <<>>
    BY DEF ListCopy, Runs, IInv, Local
  <2> QED
    BY <2>1, NoListInHand DEF LInv, Lists, Moving, Holder
<1>2. PICK h \in Blk : /\ h = Head(rest[p]) /\ h # Zero /\ h \in ToSet(rest[p]) /\ h \in Hand(p)
                       /\ h \notin ToSet(free)
                       /\ \A q \in Proc \ {p} : h \notin Hand(q)
                       /\ \A f \in File : h \notin ToSet(addr[f])
                       /\ \A b \in Blk : ~Stale(b) => h \notin ToSet(cache[b])
  BY <1>1, FirstInHand
<1>3. /\ UNCHANGED <<fmod, super, sbuf, disk, addr, bno, rest>> /\ free' = <<>>
      /\ pc'[p] = "lwrite" /\ \A q \in Proc \ {p} : pc'[q] = pc[q]
      /\ cache'[h] = free /\ \A d \in Blk \ {h} : cache'[d] = cache[d]
  BY <1>2 DEF IInv, TypeOK, ListCopy, Runs, Yield, files
<1>4. \A q \in Proc \ {p} : ~Holder(q)
  BY <1>1, NoOther
<1>5. /\ \A d \in Blk : (Stale(d)' <=> Stale(d)) /\ (Dead(d)' <=> Dead(d))
      /\ \A q \in Proc : \A d : ~Writes(q, d) /\ (Writes(q, d)' <=> q = p /\ d = h)
      /\ SuperBusy' <=> SuperBusy
      /\ \A q \in Proc : pc'[q] # "swrite"
  BY <1>1, <1>2, <1>3, <1>4 DEF Stale, Dead, Writes, Holder, SuperBusy
<1>6. ~Dead(h) /\ cache[h] = <<>>
  <2>1. ASSUME NEW q \in Proc, pc[q] \in {"super", "swrite", "got"}, bno[q] = h PROVE FALSE
    <3>1. h \in Hand(q)
      BY <1>2, <2>1 DEF Hand
    <3> QED
      BY <1>1, <1>2, <2>1, <3>1
  <2> QED
    BY <1>1, <1>2, <2>1 DEF Dead
<1>7. Lists'
  <2>1. Chained(free)'
    <3>1. Len(<<>>) = 0 /\ 2..0 = {}
      OBVIOUS
    <3> QED
      BY <1>3, <3>1 DEF Chained
  <2>2. ASSUME NEW d \in Blk PROVE Stale(d)' \/ Chained(cache[d])'
    <3>1. CASE d = h
      <4>1. PICK l \in List : l = free
        BY ListTypes
      <4>2. Chained(l)'
        BY <1>2, <1>3, <4>1, ChainedStep DEF LInv, Lists
      <4> QED
        BY <1>3, <3>1, <4>1, <4>2 DEF Chained
    <3>2. CASE d # h /\ ~Stale(d)
      <4>1. PICK l \in List : l = cache[d]
        BY ListTypes
      <4>2. Chained(l)'
        BY <1>2, <1>3, <3>2, <4>1, ChainedStep DEF LInv, Lists
      <4> QED
        BY <1>3, <3>2, <4>1, <4>2 DEF Chained
    <3>3. CASE d # h /\ Stale(d)
      BY <1>5, <3>3
    <3> QED
      BY <3>1, <3>2, <3>3
  <2>3. ASSUME NEW g \in File, NEW d \in ToSet(addr'[g]) PROVE cache'[d] = <<>>
    <3>1. d \in ToSet(addr[g]) /\ d \in Blk /\ cache[d] = <<>>
      BY <1>3 DEF IInv, TypeOK, LInv, Lists, ToSet
    <3> QED
      BY <1>2, <1>3, <3>1
  <2>4. ASSUME NEW q \in Proc PROVE Moving(q)'
    <3>1. CASE q = p
      <4>1. \A d \in ToSet(rest[p]) : d \in Blk
        BY DEF IInv, TypeOK, ToSet
      <4>2. \A d \in ToSet(rest[p]) : cache'[d] # <<>> => d = h
        BY <1>1, <1>3, <4>1
      <4> QED
        BY <1>1, <1>2, <1>3, <1>5, <3>1, <4>2 DEF Moving
    <3>2. CASE q # p
      <4>1. \A d \in ToSet(rest[q]) : cache'[d] = cache[d]
        BY <1>2, <1>3, <3>2 DEF IInv, TypeOK, Hand, ToSet
      <4> QED
        BY <1>3, <1>4, <3>2, <4>1, MovingStep DEF LInv, Lists
    <3> QED
      BY <3>1, <3>2
  <2>5. \A d \in Blk : cache'[d] # <<>> => disk'[d] = cache'[d] \/ \E q \in Proc : Writes(q, d)'
    BY <1>3, <1>5 DEF LInv, Lists
  <2> QED
    BY <2>1, <2>2, <2>3, <2>4, <2>5 DEF Lists
<1>8. NoLoop'
  <2>1. PICK r \in [Blk -> Nat] : Rises(r)
    BY DEF LInv, NoLoop
  <2> DEFINE s == [d \in Blk |-> IF d = h THEN 0 ELSE r[d] + 1]
  <2>2. s \in [Blk -> Nat] /\ s[h] = 0 /\ \A d \in Blk \ {h} : s[d] = r[d] + 1
    OBVIOUS
  <2> HIDE DEF s
  <2>3. ASSUME NEW d \in Blk, ~Stale(d), cache'[d] # <<>>, cache'[d][1] # Zero
        PROVE  s[d] < s[cache'[d][1]]
    <3>1. CASE d = h
      <4>1. free[1] \in Blk /\ free[1] # h
        BY <1>1, <1>2, <1>3, <2>3, <3>1, HeadOf, ListTypes
      <4>2. s[free[1]] > 0
        BY <2>2, <4>1
      <4> QED
        BY <1>3, <2>2, <3>1, <4>2
    <3>2. CASE d # h
      <4>1. PICK e \in Blk : e = cache[d][1] /\ e # h
        BY <1>2, <1>3, <2>3, <3>2, HeadOf, ListTypes
      <4>2. r[d] < r[e]
        BY <1>3, <2>1, <2>3, <3>2, <4>1 DEF Rises
      <4>3. s[d] = r[d] + 1 /\ s[e] = r[e] + 1 /\ r[d] \in Nat /\ r[e] \in Nat
        BY <2>2, <3>2, <4>1
      <4>4. s[d] < s[e]
        BY <4>2, <4>3
      <4> QED
        BY <1>3, <3>2, <4>1, <4>4
    <3> QED
      BY <3>1, <3>2
  <2>4. Rises(s)'
    BY <1>5, <2>3 DEF Rises
  <2> QED
    BY <2>2, <2>4 DEF NoLoop
<1>9. Frozen
  BY <1>3, <1>5, <1>6 DEF Frozen
<1>10. Copies'
  <2>1. Sound(super)' /\ Sound(sbuf)'
    BY <1>3, <1>9, SoundKept DEF LInv, Copies
  <2>2. ~Settled'
    BY <1>3 DEF Settled
  <2> QED
    BY <1>3, <1>5, <2>1, <2>2 DEF LInv, Copies
<1>11. Reached'
  <2> SUFFICES ASSUME NEW d \in Blk, cache'[d] # <<>>, ~Dead(d)' PROVE After(d)'
    BY DEF Reached
  <2>1. CASE d = h
    BY <1>5, <2>1 DEF After
  <2>2. CASE d # h
    <3>1. cache[d] # <<>> /\ ~Dead(d)
      BY <1>3, <1>5, <2>2
    <3>2. After(d)
      BY <3>1 DEF LInv, Reached
    <3>3. ~\E q \in Proc : Writes(q, d) \/ (pc[q] = "chain" /\ bno[q] = d)
      BY <1>1, <1>4, <1>5 DEF Holder
    <3>4. CASE free # <<>> /\ free[1] = d
      <4>1. ~Dead(h)' /\ cache'[h] # <<>> /\ cache'[h][1] = d
        BY <1>3, <1>5, <1>6, <3>4
      <4> QED
        BY <4>1 DEF After
    <3>5. CASE \E e \in Blk : ~Dead(e) /\ cache[e] # <<>> /\ cache[e][1] = d
      BY <1>3, <1>5, <1>6, <3>5 DEF After
    <3> QED
      BY <3>2, <3>3, <3>4, <3>5 DEF After
  <2> QED
    BY <2>1, <2>2
<1> QED
  BY <1>7, <1>8, <1>10, <1>11 DEF LInv

LEMMA ListWrittenLists ==
    ASSUME IInv, LInv, NEW p \in Proc, ListWritten(p)
    PROVE  LInv'
<1>1. /\ pc[p] = "lwrite" /\ rest[p] # <<>> /\ free = <<>> /\ Holder(p) /\ bno[p] = Zero
      /\ cache[Head(rest[p])] # <<>> /\ \A d \in ToSet(rest[p]) : cache[d] # <<>> => d = Head(rest[p])
  <2>1. pc[p] = "lwrite" /\ rest[p] # <<>>
    BY DEF ListWritten, Runs, IInv, Local
  <2> QED
    BY <2>1 DEF LInv, Lists, Moving, Writes, Holder
<1>2. PICK h \in Blk : /\ h = Head(rest[p]) /\ h # Zero /\ h \in ToSet(rest[p])
                       /\ ToSet(Tail(rest[p])) = ToSet(rest[p]) \ {h}
  BY <1>1, FirstInHand
<1>3. /\ UNCHANGED <<super, sbuf, cache, addr, bno>> /\ free' = <<h>> /\ fmod' = TRUE
      /\ pc'[p] = "free" /\ rest'[p] = Tail(rest[p])
      /\ \A q \in Proc \ {p} : pc'[q] = pc[q] /\ rest'[q] = rest[q]
      /\ disk'[h] = cache[h] /\ \A d \in Blk \ {h} : disk'[d] = disk[d]
  BY <1>2 DEF IInv, TypeOK, ListWritten, Runs, Goto, files
<1>4. \A q \in Proc \ {p} : ~Holder(q)
  BY <1>1, NoOther
<1>5. /\ \A d \in Blk : (Stale(d)' <=> Stale(d)) /\ (Dead(d)' <=> Dead(d))
      /\ \A q \in Proc : \A d : Writes(q, d) => d = h
      /\ SuperBusy' <=> SuperBusy
      /\ \A q \in Proc : pc'[q] # "swrite"
  BY <1>1, <1>2, <1>3, <1>4 DEF Stale, Dead, Writes, Holder, SuperBusy
<1>6. Lists'
  <2>1. Chained(free)'
    <3>1. Len(free') = 1 /\ free'[1] = h /\ 2..1 = {}
      BY <1>3
    <3> QED
      BY <1>1, <1>2, <1>3, <3>1 DEF Chained
  <2>2. \A b \in Blk : Chained(cache[b]) => Chained(cache[b])'
    BY <1>3 DEF Chained
  <2>3. ASSUME NEW q \in Proc PROVE Moving(q)'
    <3>1. CASE q = p
      BY <1>1, <1>2, <1>3, <3>1 DEF Moving
    <3>2. CASE q # p
      BY <1>3, <1>4, <3>2, MovingStep DEF LInv, Lists
    <3> QED
      BY <3>1, <3>2
  <2>4. \A d \in Blk : cache'[d] # <<>> => disk'[d] = cache'[d] \/ \E q \in Proc : Writes(q, d)'
    BY <1>3, <1>5 DEF LInv, Lists
  <2>5. \A f \in File : \A b \in ToSet(addr'[f]) : cache'[b] = <<>>
    BY <1>3 DEF LInv, Lists
  <2> QED
    BY <1>5, <2>1, <2>2, <2>3, <2>4, <2>5 DEF LInv, Lists
<1>7. NoLoop'
  BY <1>3, <1>5 DEF LInv, NoLoop, Rises
<1>8. Frozen
  BY <1>3, <1>5 DEF Frozen
<1>9. Copies'
  <2>1. Sound(super)' /\ Sound(sbuf)'
    BY <1>3, <1>8, SoundKept DEF LInv, Copies
  <2> QED
    BY <1>3, <1>5, <2>1 DEF LInv, Copies
<1>10. Reached'
  <2>1. ASSUME NEW b \in Blk, After(b) PROVE After(b)'
    <3>1. CASE b = h
      <4>1. free'[1] = h /\ free' # <<>>
        BY <1>3
      <4> QED
        BY <3>1, <4>1 DEF After
    <3>2. CASE b # h
      <4>1. ~\E q \in Proc : Writes(q, b) \/ (pc[q] = "chain" /\ bno[q] = b)
        BY <1>1, <1>4, <1>5, <3>2 DEF Holder
      <4> QED
        BY <1>1, <1>3, <1>5, <2>1, <4>1 DEF After
    <3> QED
      BY <3>1, <3>2
  <2> QED
    BY <1>3, <1>5, <2>1 DEF LInv, Reached
<1> QED
  BY <1>6, <1>7, <1>9, <1>10 DEF LInv

LEMMA LInvInit == Init => LInv
<1> SUFFICES ASSUME Init PROVE LInv
  OBVIOUS
<1>1. /\ free = <<>> /\ super = <<>> /\ sbuf = <<>> /\ disk = cache
      /\ \A b \in Blk : cache[b] = <<>>
      /\ \A p \in Proc : pc[p] = "user" /\ bno[p] = Zero /\ rest[p] = <<>>
  BY DEF Init, Data
<1>2. ToSet(<<>>) = {} /\ Len(<<>>) = 0 /\ 2..0 = {} /\ Simple(<<>>, Entry)
  BY DEF ToSet, Simple, IsInjective
<1>3. Lists
  <2>1. \A f \in File : \A b \in ToSet(addr[f]) : b \in Blk
    BY IInvInit DEF IInv, TypeOK, ToSet
  <2>2. Chained(free) /\ \A b \in Blk : Chained(cache[b])
    BY <1>1, <1>2 DEF Chained
  <2>3. \A p \in Proc : Moving(p)
    BY <1>1, <1>2 DEF Moving
  <2> QED
    BY <1>1, <2>1, <2>2, <2>3 DEF Lists
<1>4. NoLoop
  <2>1. [b \in Blk |-> 0] \in [Blk -> Nat]
    OBVIOUS
  <2>2. \A r \in [Blk -> Nat] : Rises(r)
    BY <1>1 DEF Rises
  <2> QED
    BY <2>1, <2>2 DEF NoLoop
<1>5. Sound(<<>>)
  <2>1. Covers({}, <<>>)
    BY DEF Covers
  <2>2. {} \in SUBSET Blk
    OBVIOUS
  <2> QED
    BY <1>2, <2>1, <2>2 DEF Sound
<1>6. Copies
  <2>1. Sound(super) /\ Sound(sbuf)
    BY <1>1, <1>5
  <2> QED
    BY <1>1, <2>1 DEF Copies, Alike
<1>7. Reached
  BY <1>1 DEF Reached
<1> QED
  BY <1>3, <1>4, <1>6, <1>7 DEF LInv

LEMMA IdleLists ==
    ASSUME IInv, LInv, UNCHANGED vars
    PROVE  LInv'
<1>1. \A f \in File : \A b \in ToSet(addr[f]) : cache[b] = <<>>
  BY DEF LInv, Lists
<1> QED
  BY <1>1, QuietLists DEF vars, core, blocks, files, calls

LEMMA LInvNext == IInv /\ LInv /\ [Next]_vars => LInv'
<1> SUFFICES ASSUME IInv, LInv, [Next]_vars PROVE LInv'
  OBVIOUS
<1>1. CASE UNCHANGED vars
  BY <1>1, IdleLists
<1>2. ASSUME NEW p \in Proc, Step(p) PROVE LInv'
  BY <1>2, WaitFreeLists, PopLists, ChainLists, SuperCopyLists, SuperWrittenLists, GotLists,
     FillLists, FillFaultLists, GiveUpLists, InodeWrittenLists, FreeLists, ListCopyLists,
     ListWrittenLists, TruncDoneLists, UpdateLists, UpdateCopyLists, UpdateWrittenLists DEF Step
<1>3. ASSUME NEW p \in Proc, NEW f \in File, Write(p, f) \/ Trunc(p, f) PROVE LInv'
  BY <1>3, WriteLists, TruncLists
<1>4. CASE \/ \E f \in File : SyncInode(f) \/ FlushInode(f)
           \/ \E b \in Blk : FlushBlock(b)
  BY <1>4, BackLists, FlushBlockLists
<1> QED
  BY <1>1, <1>2, <1>3, <1>4 DEF Next

LEMMA ListInvariant == Spec => [](IInv /\ LInv)
BY IInvInit, IInvNext, LInvInit, LInvNext, PTL DEF Spec

-----------------------------------------------------------------------------
(* The free blocks are those in the lists *)

InList(x) == x \in ToSet(free) \/ \E b \in Blk : ~Dead(b) /\ x \in ToSet(cache[b])

Heads == {free} \cup {cache[Head(rest[p])] : p \in {q \in Proc : pc[q] = "lwrite"}}
                \cup {cache[bno[p]] : p \in {q \in Proc : pc[q] = "chain"}}

(* The blocks whose list may be in use. *)
Alive == {b \in Blk : cache[b] # <<>> /\ ~Dead(b)}

LEMMA FreeFromHeads ==
    /\ \A x : x \in FreeBlocks <=> \E l \in Heads : x \in OnChain(l, cache)
    /\ \A l : l \in Heads <=> \/ l = free
                              \/ \E p \in Proc : pc[p] = "lwrite" /\ l = cache[Head(rest[p])]
                              \/ \E p \in Proc : pc[p] = "chain" /\ l = cache[bno[p]]
BY DEF FreeBlocks, Heads

(* A list in use leads to another. *)
LEMMA AliveNext ==
    ASSUME IInv, LInv
    PROVE  /\ \A b \in Alive : cache[b] # <<>> /\ cache[b][1] \in Alive \cup {Zero} /\ ~Stale(b)
           /\ free # <<>> => free[1] \in Alive \cup {Zero}
<1>1. ASSUME NEW b \in Blk, \A p \in Proc : b \notin Hand(p) PROVE ~Dead(b)
  <2>1. \A p \in Proc : bno[p] # b
    BY <1>1, BlkAssumption DEF Hand
  <2> QED
    BY <2>1 DEF Dead
<1>2. ASSUME NEW b \in Alive PROVE cache[b] # <<>> /\ cache[b][1] \in Alive \cup {Zero} /\ ~Stale(b)
  <2>1. b \in Blk /\ cache[b] # <<>> /\ ~Dead(b) /\ ~Stale(b)
    BY DEF Alive, Dead, Stale
  <2>2. cache[b][1] \in Blk \cup {Zero} /\ cache[b][1] \in ToSet(cache[b])
    BY <2>1, HeadOf, ListTypes
  <2>3. ASSUME cache[b][1] # Zero PROVE cache[b][1] \in Alive
    <3>1. PICK d \in Blk : d = cache[b][1]
      BY <2>2, <2>3
    <3>2. cache[d] # <<>>
      BY <2>1, <2>3, <3>1 DEF LInv, Lists, Chained
    <3>3. \A p \in Proc : d \notin Hand(p)
      BY <2>1, <2>2, <3>1, ListsApart
    <3> QED
      BY <1>1, <3>1, <3>2, <3>3 DEF Alive
  <2> QED
    BY <2>1, <2>3
<1>3. ASSUME free # <<>>, free[1] # Zero PROVE free[1] \in Alive
  <2>1. PICK d \in Blk : d = free[1] /\ d \in ToSet(free)
    BY <1>3, HeadOf, ListTypes
  <2>2. cache[d] # <<>>
    BY <1>3, <2>1 DEF LInv, Lists, Chained
  <2>3. \A p \in Proc : d \notin Hand(p)
    BY <2>1, ListsApart
  <2> QED
    BY <1>1, <2>1, <2>2, <2>3 DEF Alive
<1> QED
  BY <1>2, <1>3

(* A chain starts with the free list, or with a list in a block in use.    *)
LEMMA HeadKinds ==
    ASSUME IInv, LInv, NEW l \in Heads
    PROVE  /\ l \in List
           /\ l = free \/ \E b \in Alive : l = cache[b]
           /\ l # <<>> => l[1] \in Alive \cup {Zero}
<1>1. CASE l = free
  BY <1>1, AliveNext, ListTypes
<1>2. ASSUME NEW p \in Proc, pc[p] = "lwrite", l = cache[Head(rest[p])]
      PROVE  \E b \in Alive : l = cache[b]
  <2>1. PICK h \in Blk : h = Head(rest[p]) /\ h \in Hand(p) /\ \A q \in Proc \ {p} : h \notin Hand(q)
    BY <1>2, FirstInHand DEF IInv, Local
  <2>2. cache[h] # <<>>
    BY <1>2, <2>1 DEF LInv, Lists, Moving
  <2>3. ASSUME NEW q \in Proc, pc[q] \in {"super", "swrite", "got"}, bno[q] = h PROVE FALSE
    <3>1. h \in Hand(q)
      BY <2>3, BlkAssumption DEF Hand
    <3> QED
      BY <1>2, <2>1, <2>3, <3>1
  <2> QED
    BY <1>2, <2>1, <2>2, <2>3 DEF Alive, Dead
<1>3. ASSUME NEW p \in Proc, pc[p] = "chain", l = cache[bno[p]]
      PROVE  \E b \in Alive : l = cache[b]
  <2>1. PICK b \in Blk : b = bno[p] /\ cache[b] # <<>>
    BY <1>3 DEF IInv, Local, LInv, Lists, Moving
  <2>2. b \in Hand(p) /\ \A q \in Proc \ {p} : b \notin Hand(q)
    <3>1. b \in Hand(p)
      BY <2>1, BlkAssumption DEF Hand
    <3> QED
      BY <3>1, ApartKinds DEF IInv
  <2>3. ASSUME NEW q \in Proc, pc[q] \in {"super", "swrite", "got"}, bno[q] = b PROVE FALSE
    <3>1. b \in Hand(q)
      BY <2>3, BlkAssumption DEF Hand
    <3> QED
      BY <1>3, <2>2, <2>3, <3>1
  <2> QED
    BY <1>3, <2>1, <2>3 DEF Alive, Dead
<1>4. ASSUME NEW b \in Alive, l = cache[b] PROVE l \in List /\ l[1] \in Alive \cup {Zero}
  BY <1>4, AliveNext, ListTypes DEF Alive
<1>5. CASE \E b \in Alive : l = cache[b]
  BY <1>4, <1>5
<1> QED
  BY <1>1, <1>2, <1>3, <1>5, FreeFromHeads

(* A chain through rising links is no longer than there are blocks. *)
LEMMA ChainShort ==
    ASSUME NEW c \in [Blk -> List], NEW D \in SUBSET Blk, NEW g \in [Nat -> List], NEW r \in [Blk -> Nat],
           \A n \in Nat : g[n + 1] = NextList(g[n], c),
           g[0] # <<>> => g[0][1] \in D \cup {Zero},
           \A b \in D : c[b] # <<>> /\ c[b][1] \in D \cup {Zero} /\ (c[b][1] # Zero => r[b] < r[c[b][1]]),
           NEW n \in Nat, g[n] # <<>>, g[n][1] # Zero
    PROVE  n + 1 <= Cardinality(Blk)
<1>0. \A m \in Nat : \A k \in 0..m :
         g[m] # <<>> /\ g[m][1] # Zero =>
            /\ g[k] # <<>> /\ g[k][1] \in D /\ g[m][1] \in D
            /\ k # m => r[g[k][1]] < r[g[m][1]]
  BY ChainRises
<1>1. \A m \in 0..n : g[m] # <<>> /\ g[m][1] \in D
  BY <1>0
<1>2. ASSUME NEW m \in 0..n, NEW k \in 0..m, k # m PROVE r[g[k][1]] < r[g[m][1]]
  <2>1. \A d \in D : d # Zero
    BY BlkAssumption
  <2>2. m \in Nat /\ g[m] # <<>> /\ g[m][1] # Zero
    <3>1. g[m] # <<>> /\ g[m][1] \in D
      BY <1>1
    <3>2. m \in Nat
      OBVIOUS
    <3> QED
      BY <2>1, <3>1, <3>2
  <2> QED
    BY <1>0, <1>2, <2>2
<1> DEFINE w == [m \in 0..n |-> g[m][1]]
<1>3. w \in [0..n -> Blk] /\ \A m \in 0..n : w[m] = g[m][1] /\ g[m][1] \in Blk /\ r[g[m][1]] \in Nat
  BY <1>1
<1> HIDE DEF w
<1>4. ASSUME NEW m \in 0..n, NEW k \in 0..n, w[m] = w[k] PROVE m = k
  <2>1. PICK b \in Blk : b = g[m][1] /\ b = g[k][1] /\ r[b] \in Nat
    BY <1>3, <1>4
  <2>2. ~(r[b] < r[b])
    <3>1. PICK x \in Nat : x = r[b]
      BY <2>1
    <3>2. ~(x < x)
      OBVIOUS
    <3> QED
      BY <3>1, <3>2
  <2>3. ~(m # k /\ k \in 0..m)
    BY <1>2, <2>1, <2>2
  <2>4. ~(m # k /\ m \in 0..k)
    BY <1>2, <2>1, <2>2
  <2>5. k \in 0..m \/ m \in 0..k
    OBVIOUS
  <2> QED
    BY <2>3, <2>4, <2>5
<1>5. IsFiniteSet(0..n) /\ Cardinality(0..n) = n + 1
  BY FS_Interval
<1>6. Cardinality(Blk) \in Nat
  BY BlkAssumption, FS_CardinalityType
<1>7. w \in Injection(0..n, Blk)
  BY <1>3, <1>4 DEF Injection, IsInjective
<1>8. IsFiniteSet(Blk)
  BY BlkAssumption
<1>9. Cardinality(0..n) <= Cardinality(Blk)
  BY <1>7, <1>8, FS_Injection
<1> QED
  BY <1>5, <1>6, <1>9

(* Every list in use is a link of a chain. *)
LEMMA AllChained ==
    ASSUME IInv, LInv, NEW b \in Alive
    PROVE  \E l \in Heads : \E n \in 0..Cardinality(Blk) : Links(l, cache)[n] = cache[b]
<1>1. PICK c \in [Blk -> List] : c = cache
  BY DEF IInv, TypeOK
<1>2. PICK r \in [Blk -> Nat] : Rises(r)
  BY DEF LInv, NoLoop
<1>3. PICK D \in SUBSET Blk : D = Alive
  BY DEF Alive
<1>4. \A d \in D : c[d] # <<>> /\ c[d][1] \in D \cup {Zero} /\ (c[d][1] # Zero => r[d] < r[c[d][1]])
  BY <1>1, <1>2, <1>3, AliveNext DEF Rises
<1>5. Cardinality(Blk) \in Nat
  BY BlkAssumption, FS_CardinalityType
<1> DEFINE Good(d) == \E l \in Heads : \E n \in 0..Cardinality(Blk) : Links(l, c)[n] = c[d]
           U == {d \in D : ~Good(d)}
           R == {r[d] : d \in U}
<1>6. ASSUME NEW l \in Heads, NEW n \in 0..Cardinality(Blk), NEW e \in Blk,
             Links(l, c)[n] # <<>>, Links(l, c)[n][1] = e
      PROVE  Good(e)
  <2>1. l \in List /\ (l # <<>> => l[1] \in D \cup {Zero})
    BY <1>3, HeadKinds
  <2>2. PICK g \in [Nat -> List] : /\ g[0] = l
                                   /\ \A m \in Nat : g[m + 1] = NextList(g[m], c)
                                   /\ \A m \in 0..Cardinality(Blk) : Links(l, c)[m] = g[m]
    BY ZenonT(60), <2>1, LinksAre
  <2>3. n \in Nat /\ g[n] # <<>> /\ g[n][1] = e /\ g[n][1] # Zero
    <3>1. Links(l, c)[n] = g[n]
      BY <2>2
    <3>2. n \in Nat
      BY <1>5
    <3>3. g[n] # <<>> /\ g[n][1] = e
      BY <1>6, <3>1
    <3> QED
      BY <3>2, <3>3, BlkAssumption
  <2>4. g[0] # <<>> => g[0][1] \in D \cup {Zero}
    BY <2>1, <2>2
  <2>5. \A m \in Nat : g[m + 1] = NextList(g[m], c)
    BY <2>2
  <2>6. n + 1 <= Cardinality(Blk)
    BY <1>4, <2>3, <2>4, <2>5, ChainShort
  <2>7. g[n + 1] = c[e]
    BY <2>3, <2>5 DEF NextList
  <2>8. n + 1 \in 0..Cardinality(Blk)
    BY <1>5, <2>3, <2>6
  <2>9. Links(l, c)[n + 1] = c[e]
    BY <2>2, <2>7, <2>8
  <2> QED
    BY <2>8, <2>9
<1>7. ASSUME NEW l \in Heads, NEW e \in Blk, l = c[e] PROVE Good(e)
  <2>1. l \in List
    BY HeadKinds
  <2>2. 0 \in 0..Cardinality(Blk)
    BY <1>5
  <2>3. Links(l, c)[0] = l
    BY SMTT(30), <2>1, <2>2, LinksAre
  <2> QED
    BY <1>7, <2>2, <2>3
<1>8. U = {}
  <2> SUFFICES ASSUME U # {} PROVE FALSE
    OBVIOUS
  <2>1. R \subseteq Nat /\ R # {}
    OBVIOUS
  <2>2. PICK x \in R : \A y \in R : x <= y
    <3> HIDE DEF R
    <3> QED
      BY <2>1, LeastNat
  <2>3. PICK d \in U : x = r[d]
    OBVIOUS
  <2>4. \A e \in U : r[d] <= r[e]
    BY <2>2, <2>3
  <2>5. d \in D /\ ~Good(d) /\ d \in Blk /\ cache[d] # <<>> /\ ~Dead(d)
    BY <1>3 DEF Alive
  <2>6. \A e \in D : r[e] < r[d] => Good(e)
    <3>1. \A e \in D : e \in Blk /\ d \in Blk
      BY <2>5
    <3>2. \A e \in D : r[e] < r[d] => ~(r[d] <= r[e])
      BY <3>1
    <3> QED
      BY <2>4, <3>2
  <2> HIDE DEF U, R, Good
  <2>7. After(d)
    BY <2>5 DEF LInv, Reached
  <2>8. CASE free # <<>> /\ free[1] = d
    <3>1. free \in Heads /\ free \in List
      BY FreeFromHeads, ListTypes
    <3>2. 0 \in 0..Cardinality(Blk)
      BY <1>5
    <3>3. Links(free, c)[0] = free
      BY <3>1, <3>2, LinksAre
    <3> QED
      BY <1>6, <2>5, <2>8, <3>1, <3>2, <3>3
  <2>9. ASSUME NEW e \in Blk, ~Dead(e), cache[e] # <<>>, cache[e][1] = d PROVE FALSE
    <3>1. e \in D
      BY <1>3, <2>9 DEF Alive
    <3>2. r[e] < r[d]
      BY <1>1, <1>4, <2>5, <2>9, <3>1, BlkAssumption
    <3>3. Good(e)
      BY <2>6, <3>1, <3>2
    <3>4. PICK l \in Heads, n \in 0..Cardinality(Blk) : Links(l, c)[n] = c[e]
      BY <3>3 DEF Good
    <3>5. Good(d)
      BY <1>1, <1>6, <2>5, <2>9, <3>4
    <3> QED
      BY <2>5, <3>5
  <2>10. ASSUME NEW p \in Proc, Writes(p, d) PROVE FALSE
    <3>1. cache[d] \in Heads
      BY <2>10, FreeFromHeads DEF Writes
    <3> QED
      BY <1>1, <1>7, <2>5, <3>1
  <2>11. ASSUME NEW p \in Proc, pc[p] = "chain", bno[p] = d PROVE FALSE
    <3>1. cache[d] \in Heads
      BY <2>11, FreeFromHeads
    <3> QED
      BY <1>1, <1>7, <2>5, <3>1
  <2> QED
    BY <2>7, <2>8, <2>9, <2>10, <2>11 DEF After
<1>9. Good(b)
  BY <1>3, <1>8
<1> QED
  BY <1>1, <1>9

LEMMA FreeIs ==
    ASSUME IInv, LInv
    PROVE  \A x : x \in FreeBlocks <=> x # Zero /\ InList(x)
<1>0. Cardinality(Blk) \in Nat
  BY BlkAssumption, FS_CardinalityType
<1>1. PICK c \in [Blk -> List] : c = cache
  BY DEF IInv, TypeOK
<1>2. ASSUME NEW x, x \in FreeBlocks PROVE x # Zero /\ InList(x)
  <2>1. PICK l \in Heads : x \in OnChain(l, c)
    BY <1>1, <1>2, FreeFromHeads
  <2>2. l \in List /\ (l # <<>> => l[1] \in Alive \cup {Zero}) /\ (l = free \/ \E b \in Alive : l = cache[b])
    BY HeadKinds
  <2>3. PICK g \in [Nat -> List] : /\ g[0] = l
                                   /\ \A m \in Nat : g[m + 1] = NextList(g[m], c)
                                   /\ \A m \in 0..Cardinality(Blk) : Links(l, c)[m] = g[m]
    BY <2>2, LinksAre
  <2>4. PICK D \in SUBSET Blk : D = Alive
    BY DEF Alive
  <2>5. \A b \in D : c[b] # <<>> /\ c[b][1] \in D \cup {Zero}
    BY <1>1, <2>4, AliveNext
  <2>6. g[0] # <<>> => g[0][1] \in D \cup {Zero}
    BY <2>2, <2>3, <2>4
  <2>7. \A m \in Nat : g[m + 1] = NextList(g[m], c)
    BY <2>3
  <2>8. \A n \in Nat : /\ g[n] # <<>> => g[n][1] \in D \cup {Zero}
                       /\ IF g[n] = <<>> \/ g[n][1] = Zero THEN g[n + 1] = <<>>
                          ELSE g[n][1] \in D /\ g[n + 1] = c[g[n][1]] /\ g[n + 1] # <<>>
    BY ZenonT(60), <2>5, <2>6, <2>7, ChainRuns
  <2>9. PICK n \in 0..Cardinality(Blk) : x \in ToSet(g[n]) /\ x # Zero
    <3>1. \A m \in 0..Cardinality(Blk) : Links(l, c)[m] = g[m]
      BY <2>3
    <3> QED
      BY <2>1, <3>1, OnChainIs
  <2>10. CASE n = 0
    <3>1. x \in ToSet(l)
      BY <2>3, <2>9, <2>10
    <3> QED
      BY <2>2, <2>9, <3>1 DEF InList, Alive
  <2>11. CASE n # 0
    <3>1. n - 1 \in Nat /\ (n - 1) + 1 = n
      BY <1>0, <2>11
    <3>2. ToSet(<<>>) = {}
      BY DEF ToSet
    <3>3. g[n] # <<>>
      BY <2>9, <3>2
    <3>4. g[n - 1][1] \in D /\ g[n] = c[g[n - 1][1]]
      BY <2>8, <3>1, <3>3
    <3>5. PICK b \in Alive : g[n] = cache[b]
      BY <1>1, <2>4, <3>4
    <3> QED
      BY <2>9, <3>5 DEF InList, Alive
  <2> QED
    BY <2>10, <2>11
<1>3. ASSUME NEW x, x # Zero, InList(x) PROVE x \in FreeBlocks
  <2>1. ASSUME NEW l \in Heads, NEW n \in 0..Cardinality(Blk), x \in ToSet(Links(l, c)[n])
        PROVE  x \in FreeBlocks
    <3>1. x \in OnChain(l, c)
      BY <1>3, <2>1 DEF OnChain
    <3> QED
      BY <1>1, <3>1, FreeFromHeads
  <2>2. CASE x \in ToSet(free)
    <3>1. free \in Heads /\ free \in List
      BY FreeFromHeads, ListTypes
    <3>2. 0 \in 0..Cardinality(Blk)
      BY <1>0
    <3>3. Links(free, c)[0] = free
      BY <3>1, <3>2, LinksAre
    <3> QED
      BY <2>1, <2>2, <3>1, <3>2, <3>3
  <2>3. ASSUME NEW b \in Blk, ~Dead(b), x \in ToSet(cache[b]) PROVE x \in FreeBlocks
    <3>1. cache[b] # <<>>
      BY <2>3 DEF ToSet
    <3>2. b \in Alive
      BY <2>3, <3>1 DEF Alive
    <3> QED
      BY <1>1, <2>1, <2>3, <3>2, AllChained
  <2> QED
    BY <1>3, <2>2, <2>3 DEF InList
<1> QED
  BY <1>2, <1>3

-----------------------------------------------------------------------------
(* Blocks are shared out as Space says *)

LEMMA FreeExact == IInv /\ LInv => \A x : x \in FreeBlocks <=> x # Zero /\ InList(x)
BY FreeIs

(* What a step does to the lists in use it does to the free blocks. *)
LEMMA FreeStep ==
    ASSUME IInv, LInv, IInv', LInv'
    PROVE  /\ \A x : x \in FreeBlocks <=> x # Zero /\ InList(x)
           /\ \A x : x \in FreeBlocks' <=> x # Zero /\ InList(x)'
<1>1. (IInv /\ LInv => \A x : x \in FreeBlocks <=> x # Zero /\ InList(x))'
  BY FreeExact, PTL
<1>2. \A x : x \in FreeBlocks' <=> x # Zero /\ InList(x)'
  BY <1>1
<1> QED
  BY <1>2, FreeExact

HandNow == [q \in Proc |-> Hand(q)]
FileNow == [f \in File |-> ToSet(addr[f])]

LEMMA SharesAre ==
    /\ [q \in Proc |-> ToSet(rest[q]) \cup ({bno[q]} \ {Zero})] = HandNow
    /\ [f \in File |-> ToSet(addr[f])] = FileNow
BY DEF HandNow, FileNow, Hand

LEMMA SharesNext ==
    ASSUME NEW p \in Proc,
           told' = {} \/ (told' = {p} /\ FreeBlocks = {} /\ UNCHANGED <<FreeBlocks, FileNow, HandNow>>),
           told' # {} \/ \/ UNCHANGED <<FreeBlocks, FileNow, HandNow>>
                         \/ /\ HandNow[p] = {} /\ FileNow' = FileNow
                            /\ \E b \in FreeBlocks : /\ FreeBlocks' = FreeBlocks \ {b}
                                                     /\ HandNow' = [HandNow EXCEPT ![p] = {b}]
                         \/ /\ FileNow' = FileNow
                            /\ \E b \in HandNow[p] : /\ FreeBlocks' = FreeBlocks \cup {b}
                                                     /\ HandNow' = [HandNow EXCEPT ![p] = @ \ {b}]
                         \/ /\ HandNow[p] # {} /\ FreeBlocks' = FreeBlocks
                            /\ \E f \in File : FileNow' = [FileNow EXCEPT ![f] = @ \cup HandNow[p]]
                            /\ HandNow' = [HandNow EXCEPT ![p] = {}]
                         \/ /\ HandNow[p] = {} /\ FreeBlocks' = FreeBlocks
                            /\ \E f \in File : /\ HandNow' = [HandNow EXCEPT ![p] = FileNow[f]]
                                               /\ FileNow' = [FileNow EXCEPT ![f] = {}]
    PROVE  Shares!Next
<1>0. /\ [q \in Proc |-> ToSet(rest[q]) \cup ({bno[q]} \ {Zero})] = HandNow
      /\ [f \in File |-> ToSet(addr[f])] = FileNow
  BY SharesAre
<1>1. /\ [q \in Proc |-> ToSet(rest'[q]) \cup ({bno'[q]} \ {Zero})] = HandNow'
      /\ [f \in File |-> ToSet(addr'[f])] = FileNow'
  BY DEF HandNow, FileNow, Hand
<1>2. CASE told' # {}
  BY <1>0, <1>1, <1>2 DEF Shares!Next, Shares!Refuse
<1>3. CASE told' = {} /\ UNCHANGED <<FreeBlocks, FileNow, HandNow>>
  BY <1>0, <1>1, <1>3 DEF Shares!Next, Shares!Quiet
<1>4. CASE told' = {} /\ ~UNCHANGED <<FreeBlocks, FileNow, HandNow>>
  BY ZenonT(60), <1>0, <1>1, <1>4 DEF Shares!Next, Shares!Take, Shares!Put, Shares!Attach, Shares!Detach
<1> QED
  BY <1>2, <1>3, <1>4

(* The files and the hands are what they were. *)
LEMMA SameShares ==
    /\ (\A q \in Proc : Hand(q)' = Hand(q)) => HandNow' = HandNow
    /\ (\A f \in File : ToSet(addr'[f]) = ToSet(addr[f])) => FileNow' = FileNow
    /\ UNCHANGED <<rest, bno>> => \A q \in Proc : Hand(q)' = Hand(q)
    /\ \A q \in Proc : HandNow[q] = Hand(q)
    /\ \A f \in File : FileNow[f] = ToSet(addr[f])
BY DEF HandNow, FileNow, Hand

LEMMA SameFree ==
    ASSUME IInv, LInv, IInv', LInv', \A x : x # Zero => (InList(x)' <=> InList(x))
    PROVE  FreeBlocks' = FreeBlocks
<1>1. \A x : x \in FreeBlocks <=> x # Zero /\ InList(x)
  BY FreeStep
<1>2. \A x : x \in FreeBlocks' <=> x # Zero /\ InList(x)'
  BY FreeStep
<1>3. \A x : x \in FreeBlocks' <=> x \in FreeBlocks
  BY <1>1, <1>2
<1> QED
  BY <1>3

(* No block changes hands. *)
LEMMA StillShare ==
    ASSUME IInv, LInv, IInv', LInv', NEW p \in Proc,
           UNCHANGED <<free, cache, addr, rest, bno>>, told' = {},
           \A q \in Proc : pc'[q] \in Marking <=> pc[q] \in Marking
    PROVE  Shares!Next
<1>1. \A b \in Blk : Dead(b)' <=> Dead(b)
  BY DEF Dead, Marking
<1>2. \A x : InList(x)' <=> InList(x)
  BY <1>1 DEF InList
<1>3. FreeBlocks' = FreeBlocks
  BY <1>2, SameFree
<1>4. HandNow' = HandNow /\ FileNow' = FileNow
  BY SameShares
<1> QED
  BY <1>3, <1>4, SharesNext

(* p's step moves at most its own hand. *)
LEMMA MyHand ==
    ASSUME NEW p \in Proc, NEW H, Hand(p)' = H, \A q \in Proc \ {p} : Hand(q)' = Hand(q)
    PROVE  HandNow' = [HandNow EXCEPT ![p] = H]
BY DEF HandNow

(* Whoever is about to take blocks has none. *)
LEMMA EmptyHanded ==
    ASSUME IInv, LInv, NEW p \in Proc, pc[p] \in {"user", "alloc"}
    PROVE  Hand(p) = {} /\ rest[p] = <<>> /\ bno[p] = Zero
BY DEF LInv, Lists, Moving, Hand, ToSet

LEMMA StillSteps ==
    ASSUME IInv, LInv, IInv', LInv', NEW p \in Proc,
           \/ WaitFree(p) \/ SuperCopy(p) \/ Fill(p) \/ FillFault(p) \/ GiveUp(p) \/ InodeWritten(p)
           \/ TruncDone(p) \/ Update(p) \/ UpdateCopy(p) \/ UpdateWritten(p)
           \/ (\E f \in File : Write(p, f))
    PROVE  Shares!Next
<1>1. UNCHANGED <<free, cache, addr, rest, bno>> /\ told' = {} /\ pc \in [Proc -> Location]
  BY DEF IInv, TypeOK, WaitFree, SuperCopy, Fill, FillFault, GiveUp, InodeWritten, TruncDone, Update,
         UpdateCopy, UpdateWritten, Write, core, blocks, files
<1>2. \A q \in Proc : pc'[q] \in Marking <=> pc[q] \in Marking
  BY <1>1 DEF WaitFree, SuperCopy, Fill, FillFault, GiveUp, InodeWritten, TruncDone, Update,
              UpdateCopy, UpdateWritten, Write, Runs, Goto, Yield, Return, Marking, Location
<1> QED
  BY <1>1, <1>2, StillShare

LEMMA SuperWrittenShare ==
    ASSUME IInv, LInv, IInv', LInv', NEW p \in Proc, SuperWritten(p)
    PROVE  Shares!Next
<1>1. free # <<>>
  BY DEF SuperWritten, Runs, IInv, Local, LInv, Lists, Moving
<1>2. UNCHANGED <<free, cache, addr, rest, bno>> /\ told' = {} /\ pc \in [Proc -> Location]
  BY <1>1 DEF IInv, TypeOK, SuperWritten, files
<1>3. \A q \in Proc : pc'[q] \in Marking <=> pc[q] \in Marking
  BY <1>1, <1>2 DEF SuperWritten, Runs, Yield, Marking
<1> QED
  BY <1>2, <1>3, StillShare

(* The list in the block p took becomes the free list. *)
LEMMA ChainShare ==
    ASSUME IInv, LInv, IInv', LInv', NEW p \in Proc, Chain(p)
    PROVE  Shares!Next
<1>1. /\ UNCHANGED <<cache, addr, rest, bno>> /\ told' = {} /\ free' = cache[bno[p]]
      /\ pc[p] = "chain" /\ pc'[p] = "super" /\ \A q \in Proc \ {p} : pc'[q] = pc[q]
  BY DEF IInv, TypeOK, Chain, Runs, Yield, blocks, files
<1>2. free = <<>> /\ ToSet(<<>>) = {}
  BY <1>1 DEF LInv, Lists, Moving, ToSet
<1>3. PICK b \in Blk : b = bno[p]
  BY <1>1 DEF IInv, Local
<1>4. ~Dead(b)
  <2>1. b \in Hand(p) /\ \A q \in Proc \ {p} : b \notin Hand(q)
    <3>1. b \in Hand(p)
      BY <1>3, BlkAssumption DEF Hand
    <3> QED
      BY <3>1, ApartKinds DEF IInv
  <2>2. ASSUME NEW q \in Proc, pc[q] \in {"super", "swrite", "got"}, bno[q] = b PROVE FALSE
    <3>1. b \in Hand(q)
      BY <2>2, BlkAssumption DEF Hand
    <3> QED
      BY <1>1, <2>1, <2>2, <3>1
  <2> QED
    BY <2>2 DEF Dead
<1>5. \A d \in Blk : Dead(d)' <=> Dead(d) \/ d = b
  BY <1>1, <1>3 DEF Dead
<1>6. \A x : InList(x)' <=> InList(x)
  BY <1>1, <1>2, <1>3, <1>4, <1>5 DEF InList
<1>7. FreeBlocks' = FreeBlocks
  BY <1>6, SameFree
<1>8. HandNow' = HandNow /\ FileNow' = FileNow
  BY <1>1, SameShares
<1> QED
  BY <1>1, <1>7, <1>8, SharesNext

(* The free list becomes the list in a block that p has. *)
LEMMA ListCopyShare ==
    ASSUME IInv, LInv, IInv', LInv', NEW p \in Proc, ListCopy(p)
    PROVE  Shares!Next
<1>1. /\ UNCHANGED <<addr, rest, bno>> /\ told' = {} /\ free' = <<>>
      /\ cache' = [cache EXCEPT ![Head(rest[p])] = free]
      /\ pc[p] = "list" /\ pc'[p] = "lwrite" /\ \A q \in Proc \ {p} : pc'[q] = pc[q]
  BY DEF IInv, TypeOK, ListCopy, Runs, Yield, files
<1>2. rest[p] # <<>>
  BY <1>1 DEF IInv, Local
<1>3. PICK h \in Blk : /\ h = Head(rest[p]) /\ h \in ToSet(rest[p]) /\ h \in Hand(p)
                       /\ \A q \in Proc \ {p} : h \notin Hand(q)
  BY <1>2, FirstInHand
<1>4. cache[h] = <<>> /\ ToSet(<<>>) = {}
  BY <1>1, <1>3 DEF LInv, Lists, Moving, Writes, ToSet
<1>5. cache'[h] = free /\ \A d \in Blk \ {h} : cache'[d] = cache[d]
  BY <1>1, <1>3 DEF IInv, TypeOK
<1>6. ~Dead(h)
  <2>1. ASSUME NEW q \in Proc, pc[q] \in {"super", "swrite", "got"}, bno[q] = h PROVE FALSE
    <3>1. h \in Hand(q)
      BY <2>1, BlkAssumption DEF Hand
    <3> QED
      BY <1>1, <1>3, <2>1, <3>1
  <2> QED
    BY <2>1 DEF Dead
<1>7. \A d \in Blk : Dead(d)' <=> Dead(d)
  BY <1>1 DEF Dead
<1>8. \A x : InList(x)' <=> InList(x)
  BY <1>1, <1>4, <1>5, <1>6, <1>7 DEF InList
<1>9. FreeBlocks' = FreeBlocks
  BY <1>8, SameFree
<1>10. HandNow' = HandNow /\ FileNow' = FileNow
  BY <1>1, SameShares
<1> QED
  BY <1>1, <1>9, <1>10, SharesNext

(* The first of p's blocks becomes free. *)
LEMMA PutShare ==
    ASSUME IInv, LInv, IInv', LInv', NEW p \in Proc, rest[p] # <<>>, told' = {},
           UNCHANGED <<addr, bno>>, rest' = [rest EXCEPT ![p] = Tail(@)],
           \A x : x # Zero => (InList(x)' <=> InList(x) \/ x = Head(rest[p]))
    PROVE  Shares!Next
<1>1. PICK h \in Blk : /\ h = Head(rest[p]) /\ h # Zero /\ h \in Hand(p)
                       /\ ToSet(Tail(rest[p])) = ToSet(rest[p]) \ {h}
  BY FirstInHand
<1>2. bno[p] # h
  BY <1>1, FirstInHand DEF IInv, Once
<1>3. Hand(p)' = Hand(p) \ {h} /\ \A q \in Proc \ {p} : Hand(q)' = Hand(q)
  BY <1>1, <1>2 DEF IInv, TypeOK, Hand
<1>4. HandNow' = [HandNow EXCEPT ![p] = @ \ {h}] /\ HandNow[p] = Hand(p)
  BY <1>3 DEF HandNow
<1>5. FreeBlocks' = FreeBlocks \cup {h}
  <2>1. \A x : x \in FreeBlocks <=> x # Zero /\ InList(x)
    BY FreeStep
  <2>2. \A x : x \in FreeBlocks' <=> x # Zero /\ InList(x)'
    BY FreeStep
  <2>3. \A x : x \in FreeBlocks' <=> x \in FreeBlocks \/ x = h
    BY <1>1, <2>1, <2>2
  <2> QED
    BY <2>3
<1>6. FileNow' = FileNow
  BY SameShares
<1> QED
  BY <1>1, <1>4, <1>5, <1>6, SharesNext

LEMMA AppendSet ==
    ASSUME NEW S, NEW s \in Seq(S), NEW e \in S
    PROVE  ToSet(Append(s, e)) = ToSet(s) \cup {e}
<1>1. /\ DOMAIN s = 1..Len(s) /\ Len(s) \in Nat
      /\ DOMAIN Append(s, e) = 1..(Len(s) + 1)
      /\ \A i \in 1..Len(s) : Append(s, e)[i] = s[i]
      /\ Append(s, e)[Len(s) + 1] = e
  OBVIOUS
<1>2. 1..(Len(s) + 1) = (1..Len(s)) \cup {Len(s) + 1}
  BY <1>1
<1> QED
  BY <1>1, <1>2 DEF ToSet

LEMMA FreeShare ==
    ASSUME IInv, LInv, IInv', LInv', NEW p \in Proc, Free(p)
    PROVE  Shares!Next
<1>1. rest[p] # <<>> /\ told' = {} /\ UNCHANGED <<addr, bno, cache>> /\ pc \in [Proc -> Location] /\ pc[p] = "free"
  BY DEF IInv, TypeOK, Free, Runs, blocks, files
<1>2. CASE Len(Ended(free)) < NICFREE
  <2>1. free' = Append(Ended(free), Head(rest[p])) /\ rest' = [rest EXCEPT ![p] = Tail(@)] /\ pc' = pc
    BY <1>1, <1>2 DEF Free, Goto
  <2>2. PICK h \in Blk : h = Head(rest[p])
    BY <1>1, FirstInHand
  <2>3. Ended(free) \in Seq(Entry) /\ \A x : x # Zero => (x \in ToSet(Ended(free)) <=> x \in ToSet(free))
    <3>1. CASE free = <<>>
      BY <3>1 DEF Ended, Entry, ToSet
    <3>2. CASE free # <<>>
      BY <3>2, ListTypes DEF Ended, Entry, List
    <3> QED
      BY <3>1, <3>2
  <2>4. ToSet(free') = ToSet(Ended(free)) \cup {h}
    BY <2>1, <2>2, <2>3, AppendSet DEF Entry
  <2>5. \A d \in Blk : Dead(d)' <=> Dead(d)
    BY <1>1, <2>1 DEF Dead
  <2>6. \A x : x # Zero => (InList(x)' <=> InList(x) \/ x = Head(rest[p]))
    BY <1>1, <2>2, <2>3, <2>4, <2>5 DEF InList
  <2> QED
    BY <1>1, <2>1, <2>6, PutShare
<1>3. CASE ~(Len(Ended(free)) < NICFREE)
  <2>1. UNCHANGED <<free, rest>> /\ pc'[p] = "list" /\ \A q \in Proc \ {p} : pc'[q] = pc[q]
    BY <1>1, <1>3 DEF Free, Yield
  <2>2. \A q \in Proc : pc'[q] \in Marking <=> pc[q] \in Marking
    BY <1>1, <2>1 DEF Marking
  <2> QED
    BY <1>1, <2>1, <2>2, StillShare
<1> QED
  BY <1>2, <1>3

(* The block that holds the old list starts the new one. *)
LEMMA ListWrittenShare ==
    ASSUME IInv, LInv, IInv', LInv', NEW p \in Proc, ListWritten(p)
    PROVE  Shares!Next
<1>1. /\ UNCHANGED <<addr, bno, cache>> /\ told' = {} /\ free' = <<Head(rest[p])>>
      /\ rest' = [rest EXCEPT ![p] = Tail(@)]
      /\ pc[p] = "lwrite" /\ pc'[p] = "free" /\ \A q \in Proc \ {p} : pc'[q] = pc[q]
  BY DEF IInv, TypeOK, ListWritten, Runs, Goto, files
<1>2. rest[p] # <<>> /\ free = <<>>
  BY <1>1 DEF IInv, Local, LInv, Lists, Moving
<1>3. ToSet(<<>>) = {} /\ ToSet(free') = {Head(rest[p])}
  BY <1>1 DEF ToSet
<1>4. \A d \in Blk : Dead(d)' <=> Dead(d)
  BY <1>1 DEF Dead
<1>5. \A x : InList(x)' <=> InList(x) \/ x = Head(rest[p])
  BY <1>1, <1>2, <1>3, <1>4 DEF InList
<1> QED
  BY <1>1, <1>2, <1>5, PutShare

(* The block that p found becomes part of its file. *)
LEMMA GotShare ==
    ASSUME IInv, LInv, IInv', LInv', NEW p \in Proc, Got(p)
    PROVE  Shares!Next
<1>1. /\ UNCHANGED <<free, rest>> /\ told' = {}
      /\ bno' = [bno EXCEPT ![p] = Zero] /\ cache' = [cache EXCEPT ![bno[p]] = Data]
      /\ addr' = [addr EXCEPT ![file[p]] = Append(@, bno[p])]
      /\ pc[p] = "got" /\ pc'[p] = "fill" /\ \A q \in Proc \ {p} : pc'[q] = pc[q]
  BY DEF IInv, TypeOK, Got, Runs, Yield
<1>2. file[p] \in File /\ bno[p] \in Blk /\ rest[p] = <<>> /\ bno[p] # Zero
  BY <1>1, BlkAssumption DEF IInv, Local, LInv, Lists, Moving
<1>3. PICK b \in Blk : b = bno[p]
  BY <1>2
<1>4. ToSet(<<>>) = {}
  BY DEF ToSet
<1>5. Hand(p) = {b} /\ Hand(p)' = {} /\ \A q \in Proc \ {p} : Hand(q)' = Hand(q)
  BY SMTT(30), <1>1, <1>2, <1>3, <1>4 DEF IInv, TypeOK, Hand
<1>6. HandNow' = [HandNow EXCEPT ![p] = {}] /\ HandNow[p] = {b}
  BY <1>5 DEF HandNow
<1>7. FileNow' = [FileNow EXCEPT ![file[p]] = @ \cup {b}]
  <2>1. PICK f \in File : f = file[p]
    BY <1>2
  <2>2. ToSet(Append(addr[f], b)) = ToSet(addr[f]) \cup {b}
    <3>1. addr[f] \in Seq(Blk)
      BY DEF IInv, TypeOK
    <3> QED
      BY <3>1, AppendSet
  <2>3. ToSet(addr'[f]) = ToSet(addr[f]) \cup {b} /\ \A g \in File \ {f} : ToSet(addr'[g]) = ToSet(addr[g])
    BY <1>1, <1>3, <2>1, <2>2 DEF IInv, TypeOK
  <2> QED
    BY <2>1, <2>3 DEF FileNow
<1>8. FreeBlocks' = FreeBlocks
  <2>1. Dead(b) /\ cache'[b] = <<>> /\ \A d \in Blk \ {b} : cache'[d] = cache[d]
    BY <1>1, <1>3 DEF IInv, TypeOK, Dead, Data
  <2>2. \A d \in Blk \ {b} : Dead(d)' <=> Dead(d)
    <3>1. \A q \in Proc \ {p} : bno'[q] = bno[q]
      BY <1>1
    <3>2. pc'[p] \notin {"super", "swrite", "got"}
      BY <1>1
    <3> QED
      BY <1>1, <1>3, <3>1, <3>2 DEF Dead
  <2>3. \A x : InList(x)' <=> InList(x)
    BY <1>1, <1>4, <2>1, <2>2 DEF InList
  <2> QED
    BY <2>3, SameFree
<1> QED
  BY <1>1, <1>2, <1>6, <1>7, <1>8, SharesNext

(* The blocks of a file go to the hands of whoever truncates it. *)
LEMMA TruncShare ==
    ASSUME IInv, LInv, IInv', LInv', NEW p \in Proc, NEW f \in File, Trunc(p, f)
    PROVE  Shares!Next
<1>1. /\ UNCHANGED <<free, cache, bno>> /\ told' = {}
      /\ pc[p] = "user" /\ pc'[p] = "inode" /\ \A q \in Proc \ {p} : pc'[q] = pc[q]
  BY DEF IInv, TypeOK, Trunc, Runs, Yield, core, blocks
<1>2. Hand(p) = {} /\ bno[p] = Zero
  BY <1>1, EmptyHanded
<1>3. \A q \in Proc : pc'[q] \in Marking <=> pc[q] \in Marking
  BY <1>1 DEF Marking
<1>4. CASE size[f] = 0
  <2>1. UNCHANGED <<addr, rest>>
    BY <1>4 DEF Trunc
  <2> QED
    BY <1>1, <1>3, <2>1, StillShare
<1>5. CASE size[f] # 0
  <2>1. rest' = [rest EXCEPT ![p] = Reverse(addr[f])] /\ addr' = [addr EXCEPT ![f] = <<>>]
    BY <1>5 DEF Trunc
  <2>2. ToSet(Reverse(addr[f])) = ToSet(addr[f]) /\ ToSet(<<>>) = {}
    <3>1. Simple(addr[f], Blk)
      BY DEF IInv, Once
    <3>2. ToSet(<<>>) = {}
      BY DEF ToSet
    <3> QED
      BY <3>1, <3>2, ReverseSimple
  <2>3. Hand(p)' = ToSet(addr[f]) /\ \A q \in Proc \ {p} : Hand(q)' = Hand(q)
    BY <1>1, <1>2, <2>1, <2>2 DEF IInv, TypeOK, Hand
  <2>4. HandNow' = [HandNow EXCEPT ![p] = FileNow[f]] /\ HandNow[p] = {}
    BY <1>2, <2>3 DEF HandNow, FileNow
  <2>5. FileNow' = [FileNow EXCEPT ![f] = {}]
    <3>1. ToSet(addr'[f]) = {} /\ \A g \in File \ {f} : ToSet(addr'[g]) = ToSet(addr[g])
      BY <2>1, <2>2 DEF IInv, TypeOK
    <3> QED
      BY <3>1 DEF FileNow
  <2>6. FreeBlocks' = FreeBlocks
    <3>1. \A b \in Blk : Dead(b)' <=> Dead(b)
      BY <1>1, <1>3 DEF Dead, Marking
    <3>2. \A x : InList(x)' <=> InList(x)
      BY <1>1, <3>1 DEF InList
    <3> QED
      BY <3>2, SameFree
  <2> QED
    BY <1>1, <2>4, <2>5, <2>6, SharesNext
<1> QED
  BY <1>4, <1>5

(* alloc takes the last entry of the free list, or says that there is none. *)
LEMMA PopShare ==
    ASSUME IInv, LInv, IInv', LInv', NEW p \in Proc, Pop(p)
    PROVE  Shares!Next
<1>1. /\ UNCHANGED <<cache, addr, rest>> /\ pc \in [Proc -> Location] /\ pc[p] = "alloc" /\ flock = FALSE
      /\ \A q \in Proc \ {p} : pc'[q] = pc[q]
  BY DEF IInv, TypeOK, Pop, Runs, NoSpace, Yield, blocks, files
<1>2. \A q \in Proc : ~Holder(q)
  BY <1>1 DEF IInv, Local
<1>3. Hand(p) = {} /\ rest[p] = <<>>
  BY <1>1, EmptyHanded
<1>4. FileNow' = FileNow
  BY <1>1, SameShares
<1>5. ToSet(<<>>) = {} /\ ToSet(<<Zero>>) = {Zero}
  BY DEF ToSet
<1>6. CASE free = <<>> \/ Last(free) = Zero
  <2>1. free' = <<>> /\ bno' = bno /\ pc'[p] = "full" /\ told' = {p}
    BY <1>1, <1>6 DEF IInv, TypeOK, Pop, NoSpace, Yield
  <2>2. free \in {<<>>, <<Zero>>}
    <3>1. ASSUME free # <<>>, Last(free) = Zero PROVE free = <<Zero>>
      <4>1. free \in Seq(Entry) /\ Len(free) \in Nat
        BY DEF IInv, Once, Simple
      <4>2. Len(free) # 0
        BY <3>1, <4>1, EmptySeq
      <4>3. Last(free) = free[Len(free)]
        BY DEF Last
      <4>4. \A i \in 2..Len(free) : free[i] # Zero
        BY DEF LInv, Lists, Chained
      <4>5. PICK n \in Nat : n = Len(free)
        BY <4>1
      <4>6. n = 1
        <5>1. n = 0 \/ n = 1 \/ n \in 2..n
          BY <4>5
        <5> QED
          BY <3>1, <4>2, <4>3, <4>4, <4>5, <5>1
      <4>7. Len(free) = 1 /\ free[1] = Zero
        BY <3>1, <4>3, <4>5, <4>6
      <4>8. <<Zero>> \in Seq(Entry) /\ Len(<<Zero>>) = 1 /\ <<Zero>>[1] = Zero
        BY DEF Entry
      <4> QED
        BY <4>1, <4>7, <4>8, SeqEqual
    <3> QED
      BY <1>6, <3>1
  <2>3. \A l : l \in Heads => l = free
    BY <1>2, FreeFromHeads DEF Holder
  <2>4. FreeBlocks = {}
    <3>1. PICK c \in [Blk -> List] : c = cache
      BY DEF IInv, TypeOK
    <3>2. OnChain(free, c) = {}
      BY <2>2, EndOnly
    <3>3. \A x : x \notin FreeBlocks
      BY <2>3, <3>1, <3>2, FreeFromHeads
    <3> QED
      BY <3>3
  <2>5. FreeBlocks' = FreeBlocks
    <3>1. \A b \in Blk : Dead(b)' <=> Dead(b)
      BY <1>1, <2>1 DEF Dead
    <3>2. \A x : x # Zero => (InList(x)' <=> InList(x))
      BY <1>1, <1>5, <2>1, <2>2, <3>1 DEF InList
    <3> QED
      BY <3>2, SameFree
  <2>6. HandNow' = HandNow
    BY <1>1, <2>1, SameShares
  <2> QED
    BY <1>4, <2>1, <2>4, <2>5, <2>6, SharesNext
<1>7. CASE free # <<>> /\ Last(free) # Zero
  <2>1. PICK h \in Blk : /\ h = Last(free) /\ h # Zero /\ h \in ToSet(free)
                         /\ ToSet(Front(free)) = ToSet(free) \ {h}
    <3>1. Simple(free, Entry) /\ free # <<>>
      BY <1>7 DEF IInv, Once
    <3>2. /\ Last(free) \in Entry /\ Last(free) \in ToSet(free)
          /\ ToSet(Front(free)) = ToSet(free) \ {Last(free)}
      BY <3>1, FrontSimple
    <3> QED
      BY <1>7, <3>2 DEF Entry
  <2>2. /\ free' = Front(free) /\ bno' = [bno EXCEPT ![p] = h] /\ told' = {}
        /\ pc'[p] = IF Len(free) = 1 THEN "chain" ELSE "got"
    BY <1>1, <1>7, <2>1 DEF IInv, TypeOK, Pop, Yield
  <2>3. Hand(p)' = {h} /\ \A q \in Proc \ {p} : Hand(q)' = Hand(q)
    BY <1>1, <1>3, <1>5, <2>1, <2>2 DEF IInv, TypeOK, Hand
  <2>4. HandNow' = [HandNow EXCEPT ![p] = {h}] /\ HandNow[p] = {}
    BY <1>3, <2>3 DEF HandNow
  <2>5. \A d \in Blk : ~Dead(d) => h \notin ToSet(cache[d])
    BY <2>1, ListsApart
  <2>6. \A d \in Blk : ToSet(cache[d]) # {} => (Dead(d)' <=> Dead(d))
    <3>1. \A q \in Proc \ {p} : bno'[q] = bno[q]
      BY <2>2
    <3>2. CASE Len(free) = 1
      BY <1>1, <2>2, <3>1, <3>2 DEF Dead
    <3>3. CASE Len(free) # 1
      <4>1. cache[h] = <<>>
        <5>1. free \in Seq(Entry) /\ Len(free) \in Nat
          BY DEF IInv, Once, Simple
        <5>2. Len(free) # 0
          BY <1>7, <5>1, EmptySeq
        <5>3. Len(free) \in 2..Len(free)
          <6>1. PICK n \in Nat : n = Len(free) /\ n # 0 /\ n # 1
            BY <3>3, <5>1, <5>2
          <6>2. n \in 2..n
            BY <6>1
          <6> QED
            BY <6>1, <6>2
        <5>4. h = free[Len(free)]
          BY <2>1 DEF Last
        <5> QED
          BY <5>3, <5>4 DEF LInv, Lists, Chained
      <4>2. \A d \in Blk : Dead(d)' <=> Dead(d) \/ d = h
        <5>1. pc'[p] = "got" /\ bno'[p] = h
          BY <2>2, <3>3 DEF IInv, TypeOK
        <5> QED
          BY <1>1, <3>1, <5>1 DEF Dead
      <4> QED
        BY <1>5, <4>1, <4>2
    <3> QED
      BY <3>2, <3>3
  <2>7. \A x : x # Zero => (InList(x)' <=> InList(x) /\ x # h)
    <3>1. ASSUME NEW x, NEW d \in Blk, x \in ToSet(cache[d])
          PROVE  (~Dead(d)' <=> ~Dead(d)) /\ (~Dead(d) => x # h)
      <4>1. ToSet(cache[d]) # {}
        BY <3>1
      <4> QED
        BY <2>5, <2>6, <3>1, <4>1
    <3>2. ToSet(free') = ToSet(free) \ {h}
      BY <2>1, <2>2
    <3> QED
      BY <1>1, <3>1, <3>2 DEF InList
  <2>8. h \in FreeBlocks /\ FreeBlocks' = FreeBlocks \ {h}
    <3>1. \A x : x \in FreeBlocks <=> x # Zero /\ InList(x)
      BY FreeStep
    <3>2. \A x : x \in FreeBlocks' <=> x # Zero /\ InList(x)'
      BY FreeStep
    <3>3. \A x : x \in FreeBlocks' <=> x \in FreeBlocks /\ x # h
      BY <2>7, <3>1, <3>2
    <3>4. InList(h)
      BY <2>1 DEF InList
    <3> QED
      BY <2>1, <3>1, <3>3, <3>4
  <2> QED
    BY <1>4, <2>2, <2>4, <2>8, SharesNext
<1> QED
  BY <1>6, <1>7

LEMMA ShareInit == Init => Shares!Init
<1> SUFFICES ASSUME Init PROVE Shares!Init
  OBVIOUS
<1>1. /\ free = <<>> /\ told = {} /\ addr \in Start
      /\ \A b \in Blk : cache[b] = <<>>
      /\ \A p \in Proc : bno[p] = Zero /\ rest[p] = <<>>
  BY DEF Init, Data
<1>2. ToSet(<<>>) = {}
  BY DEF ToSet
<1>3. FreeBlocks = {}
  <2>1. \A x : x \in FreeBlocks <=> x # Zero /\ InList(x)
    BY IInvInit, LInvInit, FreeExact
  <2>2. \A x : ~InList(x)
    BY <1>1, <1>2 DEF InList
  <2> QED
    BY <2>1, <2>2
<1>4. HandNow = [p \in Proc |-> {}]
  BY <1>1, <1>2 DEF HandNow, Hand
<1>5. \A f, g \in File : f # g => ToSet(addr[f]) \cap ToSet(addr[g]) = {}
  BY <1>1, StartAssumption
<1>6. \A f \in File : ToSet(addr[f]) \subseteq Blk
  <2>1. addr \in [File -> Seq(Blk)]
    BY <1>1, StartAssumption
  <2> QED
    BY <2>1 DEF ToSet
<1>7. FileNow \in [File -> SUBSET (Blk \ {})] /\ \A f, g \in File : f # g => FileNow[f] \cap FileNow[g] = {}
  BY <1>5, <1>6 DEF FileNow
<1>8. /\ [q \in Proc |-> ToSet(rest[q]) \cup ({bno[q]} \ {Zero})] = HandNow
      /\ [f \in File |-> ToSet(addr[f])] = FileNow
  BY SharesAre
<1> QED
  BY <1>1, <1>3, <1>4, <1>7, <1>8 DEF Shares!Init

LEMMA ShareNext ==
    ASSUME IInv, LInv, IInv', LInv', [Next]_vars
    PROVE  [Shares!Next]_(Shares!vars)
<1>1. CASE UNCHANGED vars
  <2>1. UNCHANGED <<free, cache, addr, rest, bno, pc, told>>
    BY <1>1 DEF vars, core, blocks, files, calls
  <2>2. \A b \in Blk : Dead(b)' <=> Dead(b)
    BY <2>1 DEF Dead
  <2>3. \A x : InList(x)' <=> InList(x)
    BY <2>1, <2>2 DEF InList
  <2>4. FreeBlocks' = FreeBlocks
    BY <2>3, SameFree
  <2> QED
    BY <2>1, <2>4 DEF Shares!vars
<1>2. ASSUME NEW p \in Proc, Step(p) PROVE Shares!Next
  BY <1>2, StillSteps, PopShare, ChainShare, SuperWrittenShare, GotShare, FreeShare, ListCopyShare,
     ListWrittenShare DEF Step
<1>3. ASSUME NEW p \in Proc, NEW f \in File, Write(p, f) \/ Trunc(p, f) PROVE Shares!Next
  BY <1>3, StillSteps, TruncShare
<1>4. CASE \/ \E f \in File : SyncInode(f) \/ FlushInode(f)
           \/ \E b \in Blk : FlushBlock(b)
  <2>1. UNCHANGED <<free, cache, addr, rest, bno, pc>> /\ told' = {}
    BY <1>4 DEF SyncInode, FlushInode, FlushBlock, core, blocks, files, calls
  <2>2. \A b \in Blk : Dead(b)' <=> Dead(b)
    BY <2>1 DEF Dead
  <2>3. \A x : InList(x)' <=> InList(x)
    BY <2>1, <2>2 DEF InList
  <2>4. FreeBlocks' = FreeBlocks
    BY <2>3, SameFree
  <2> QED
    BY <2>1, <2>4 DEF Shares!Next, Shares!Quiet
<1> QED
  BY <1>1, <1>2, <1>3, <1>4 DEF Next

-----------------------------------------------------------------------------
(* The theorems *)

(* The variables keep their types: free never writes past fs_free[], and   *)
(* no i_size counts a block that the inode does not have.                  *)
THEOREM TypeCorrect == Spec => []TypeOK
<1>1. IInv => TypeOK
  BY DEF IInv
<1> QED
  BY <1>1, Invariant, PTL

(* Whoever sleeps for the free list has a wakeup to come: fs_flock is set, *)
(* and whoever clears it wakes all that wait.                              *)
THEOREM WakeupKept == Spec => []NoLostWakeup
<1>1. IInv => NoLostWakeup
  BY DEF IInv
<1> QED
  BY <1>1, Invariant, PTL

(* Whenever the machine stops, no block is in two files on the disk.       *)
THEOREM FilesApart == Spec => []DurableFiles
BY FilesApartNow, Invariant, PTL

(* Whenever the machine stops, the super block on the disk starts a free   *)
(* list that ends, in blocks that hold lists, and has no block twice:      *)
(* alloc writes the super block before it gives away a block that held a   *)
(* list, and free writes the list before the super block can name it.      *)
THEOREM ListDurable == Spec => []DurableList
<1>1. IInv /\ LInv => DurableList
  BY DurableNow DEF LInv, Copies
<1> QED
  BY <1>1, ListInvariant, PTL

(* When nobody is in alloc or free and fs_fmod is clear, the super block on *)
(* the disk has the free blocks of the one in core, so update may leave it. *)
THEOREM MarkAlways == Spec => []Marked
<1>1. IInv /\ LInv => Marked
  BY MarkedNow DEF LInv
<1> QED
  BY <1>1, ListInvariant, PTL

(* Blocks are shared out as Space says: a block is free, in one file or in *)
(* the hands of one process, it moves only between these, and nobody is    *)
(* told that the file system is full while a block is free.                *)
THEOREM SpaceKept == Spec => SpaceSpec
<1>1. IInv /\ LInv /\ (IInv /\ LInv)' /\ [Next]_vars => [Shares!Next]_(Shares!vars)
  BY ShareNext
<1> QED
  BY <1>1, ShareInit, ListInvariant, PTL DEF Spec, SpaceSpec, Shares!Spec

=============================================================================

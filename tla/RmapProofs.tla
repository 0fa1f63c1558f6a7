----------------------------- MODULE RmapProofs -----------------------------
(***************************************************************************)
(* Proofs about Rmap for any processes, size of core, length of the array  *)
(* and sizes asked for: the type invariant, that the map is kept sorted    *)
(* and joined, and that every click of core is in exactly one place.       *)
(*                                                                         *)
(* Two lemmas about the array carry the proof: what malloc and malloc3     *)
(* take off the map is what they hand out (CarveUnits, SqueezeAllOrdered), *)
(* and what mfree puts on it is what it was given (InsertTidy).  The rest  *)
(* is the account of the segments (Sound): a step takes some out of it and *)
(* puts others in that have the same units, and these are not free any     *)
(* more, or are free now (SoundStep).                                      *)
(*                                                                         *)
(* That the map implements Arena needs three counts more: what is handed   *)
(* out is as much as was asked for (PiecesCount), where nothing fits there *)
(* is no run of free units as long (NoRoomNoRun), and each entry of a tidy *)
(* map is one run (RunsAreEntries).                                        *)
(***************************************************************************)
EXTENDS Rmap, SeqFacts

-----------------------------------------------------------------------------
(* Segments and maps *)

LEMMA SumsNat == \A a, b, c \in Nat : a + b \in Nat /\ a + b + c \in Nat
OBVIOUS

LEMMA SegFacts ==
    ASSUME NEW n \in Nat, NEW a \in Nat
    PROVE  Seg(n, a) \in Segment /\ Seg(n, a).size = n /\ Seg(n, a).addr = a
BY DEF Seg, Segment

LEMMA UnitsFacts ==
    ASSUME NEW e \in Segment
    PROVE  /\ e.size \in Nat /\ e.addr \in Nat /\ e = Seg(e.size, e.addr)
           /\ Units(e) \subseteq Nat
           /\ \A u \in Nat : u \in Units(e) <=> e.addr <= u /\ u < e.addr + e.size
<1>1. e.size \in Nat /\ e.addr \in Nat /\ e = Seg(e.size, e.addr)
  BY DEF Segment, Seg
<1> QED
  BY <1>1 DEF Units

LEMMA FreeUnitsFacts ==
    ASSUME NEW m \in Seq(Segment)
    PROVE  /\ FreeUnits(m) \subseteq Nat
           /\ \A u \in Nat : u \in FreeUnits(m) <=>
                 \E i \in 1..Len(m) : m[i].addr <= u /\ u < m[i].addr + m[i].size
<1>1. DOMAIN m = 1..Len(m) /\ \A i \in 1..Len(m) : m[i] \in Segment
  BY LenProperties, ElementOfSeq
<1>2. \A i \in 1..Len(m) : Units(m[i]) \subseteq Nat /\
         \A u \in Nat : u \in Units(m[i]) <=> m[i].addr <= u /\ u < m[i].addr + m[i].size
  BY <1>1, UnitsFacts
<1> QED
  BY <1>1, <1>2 DEF FreeUnits

(* What ends before y ends before what is behind y.                        *)
LEMMA EndsBefore ==
    \A x, y, z \in Segment :
       /\ y.addr + y.size < z.addr =>
             (x.addr + x.size <= y.addr => x.addr + x.size < z.addr /\ x.addr + x.size <= z.addr)
       /\ x.addr + x.size < y.addr =>
             /\ y.addr + y.size < z.addr => x.addr + x.size < z.addr
             /\ y.addr + y.size <= z.addr => x.addr + x.size < z.addr
       /\ y.size > 0 =>
             (x.addr + x.size <= y.addr /\ y.addr + y.size <= z.addr => x.addr + x.size < z.addr)
<1> TAKE x, y, z \in Segment
<1>1. /\ x.addr \in Nat /\ x.size \in Nat /\ y.addr \in Nat
      /\ y.size \in Nat /\ z.addr \in Nat
  BY UnitsFacts
<1> DEFINE a == x.addr
           s == x.size
           b == y.addr
           t == y.size
           c == z.addr
<1>2. a \in Nat /\ s \in Nat /\ b \in Nat /\ t \in Nat /\ c \in Nat
  BY <1>1
<1>3. /\ b + t < c => (a + s <= b => a + s < c /\ a + s <= c)
      /\ a + s < b => (b + t < c => a + s < c) /\ (b + t <= c => a + s < c)
      /\ t > 0 => (a + s <= b /\ b + t <= c => a + s < c)
  <2> HIDE DEF a, s, b, t, c
  <2> QED
    BY <1>2
<1> QED
  BY <1>3

LEMMA Resized == \A x \in Segment, n \in Nat : [x EXCEPT !.size = n] \in Segment
BY DEF Segment

(* x and y joined, where y begins at the end of x.                         *)
LEMMA Joined ==
    \A x, y, r \in Segment :
       x.addr + x.size = y.addr /\ r.addr = x.addr /\ r.size = x.size + y.size =>
          /\ r.addr + r.size = y.addr + y.size
          /\ \A u \in Nat : (r.addr <= u /\ u < r.addr + r.size) <=>
                              \/ x.addr <= u /\ u < x.addr + x.size
                              \/ y.addr <= u /\ u < y.addr + y.size
<1> SUFFICES ASSUME NEW x \in Segment, NEW y \in Segment, NEW r \in Segment,
                    x.addr + x.size = y.addr, r.addr = x.addr, r.size = x.size + y.size
             PROVE  /\ r.addr + r.size = y.addr + y.size
                    /\ \A u \in Nat : (r.addr <= u /\ u < r.addr + r.size) <=>
                                        \/ x.addr <= u /\ u < x.addr + x.size
                                        \/ y.addr <= u /\ u < y.addr + y.size
  OBVIOUS
<1>1. /\ x.addr \in Nat /\ x.size \in Nat /\ y.addr \in Nat /\ y.size \in Nat
      /\ x.addr + x.size = y.addr /\ r.addr = x.addr /\ r.size = x.size + y.size
  BY UnitsFacts
<1> DEFINE a == x.addr
           s == x.size
           b == y.addr
           t == y.size
           c == r.addr
           n == r.size
<1>2. a \in Nat /\ s \in Nat /\ b \in Nat /\ t \in Nat /\ a + s = b /\ c = a /\ n = s + t
  BY <1>1
<1>3. /\ c + n = b + t
      /\ \A u \in Nat : (c <= u /\ u < c + n) <=> (a <= u /\ u < a + s) \/ (b <= u /\ u < b + t)
  <2> HIDE DEF a, s, b, t, c, n
  <2> QED
    BY <1>2
<1> QED
  BY <1>3

(* In order, with gaps; entries may be empty. *)
Ordered(m) ==
    /\ m \in Seq(Segment)
    /\ \A i \in 1..Len(m) : m[i].addr > 0
    /\ \A i, j \in 1..Len(m) : i < j => m[i].addr + m[i].size < m[j].addr

LEMMA TidyOrdered ==
    ASSUME NEW m \in Seq(Segment)
    PROVE  Tidy(m) <=> Ordered(m) /\ \A i \in 1..Len(m) : m[i].size > 0
BY LenProperties DEF Tidy, Ordered

(* The addresses of the empty entries. *)
Empties(m) == {m[i].addr : i \in {j \in 1..Len(m) : m[j].size = 0}}

(* No more of them than one call of malloc3 makes.                         *)
FewEmpty(m) == \E a, b, c : Empties(m) \subseteq {a, b, c}

-----------------------------------------------------------------------------
(* Squeeze *)

LEMMA RemoveOrdered ==
    ASSUME NEW m, Ordered(m), NEW i \in 1..Len(m)
    PROVE  /\ Ordered(RemoveAt(m, i)) /\ Len(RemoveAt(m, i)) = Len(m) - 1
           /\ \A j \in 1..(Len(m) - 1) : RemoveAt(m, i)[j] = m[IF j < i THEN j ELSE j + 1]
<1> DEFINE t == RemoveAt(m, i)
           f(j) == IF j < i THEN j ELSE j + 1
<1>1. m \in Seq(Segment) /\ Len(m) \in Nat /\ i \in Nat
  BY LenProperties DEF Ordered
<1>2. /\ t \in Seq(Segment) /\ Len(t) = Len(m) - 1
      /\ \A j \in 1..(i - 1) : t[j] = m[j]
      /\ \A j \in i..(Len(m) - 1) : t[j] = m[j + 1]
  BY <1>1, RemoveElements
<1> HIDE DEF t
<1>3. ASSUME NEW j \in 1..(Len(m) - 1) PROVE t[j] = m[f(j)] /\ f(j) \in 1..Len(m)
  <2>1. CASE j < i
    BY <1>1, <1>2, <2>1
  <2>2. CASE ~(j < i)
    <3>1. j \in i..(Len(m) - 1) /\ j + 1 \in 1..Len(m)
      BY <1>1, <2>2
    <3> QED
      BY <1>2, <2>2, <3>1
  <2> QED
    BY <2>1, <2>2
<1>4. \A j, k \in 1..(Len(m) - 1) : j < k => f(j) < f(k)
  BY <1>1
<1> HIDE DEF f
<1>5. Ordered(t)
  <2>1. \A j \in 1..Len(t) : t[j].addr > 0
    BY <1>2, <1>3 DEF Ordered
  <2>2. \A j, k \in 1..Len(t) : j < k => t[j].addr + t[j].size < t[k].addr
    BY <1>2, <1>3, <1>4 DEF Ordered
  <2> QED
    BY <1>2, <2>1, <2>2 DEF Ordered
<1> QED
  BY <1>2, <1>3, <1>5 DEF t, f

(* An empty entry goes, if there is one; the free units stay. *)
LEMMA SqueezeOrdered ==
    ASSUME NEW m, Ordered(m)
    PROVE  /\ Ordered(Squeeze(m)) /\ FreeUnits(Squeeze(m)) = FreeUnits(m)
           /\ Empties(m) = {} => Empties(Squeeze(m)) = {}
           /\ Empties(m) # {} => \E a \in Empties(m) : Empties(Squeeze(m)) = Empties(m) \ {a}
<1>1. m \in Seq(Segment) /\ Len(m) \in Nat /\ DOMAIN m = 1..Len(m)
  BY LenProperties DEF Ordered
<1>2. CASE ~\E i \in DOMAIN m : m[i].size = 0
  <2>1. Squeeze(m) = m /\ Empties(m) = {}
    BY <1>1, <1>2 DEF Squeeze, Empties
  <2> QED
    BY <2>1
<1>3. CASE \E i \in DOMAIN m : m[i].size = 0
  <2>1. PICK i \in 1..Len(m) : m[i].size = 0 /\ Squeeze(m) = RemoveAt(m, i)
    BY <1>1, <1>3 DEF Squeeze
  <2> DEFINE t == RemoveAt(m, i)
  <2>2. /\ Ordered(t) /\ Len(t) = Len(m) - 1
        /\ \A j \in 1..(Len(m) - 1) : t[j] = m[IF j < i THEN j ELSE j + 1]
    BY RemoveOrdered
  <2> HIDE DEF t
  <2>3. /\ \A j \in 1..Len(t) : \E k \in 1..Len(m) : k # i /\ t[j] = m[k]
        /\ \A k \in 1..Len(m) : k # i => \E j \in 1..Len(t) : t[j] = m[k]
    <3>1. ASSUME NEW j \in 1..Len(t) PROVE \E k \in 1..Len(m) : k # i /\ t[j] = m[k]
      <4>1. (IF j < i THEN j ELSE j + 1) \in 1..Len(m) \ {i}
        BY <1>1, <2>2
      <4> QED
        BY <2>2, <4>1
    <3>2. ASSUME NEW k \in 1..Len(m), k # i PROVE \E j \in 1..Len(t) : t[j] = m[k]
      <4>1. CASE k < i
        <5>1. k \in 1..Len(t) /\ t[k] = m[k]
          BY <1>1, <2>2, <4>1
        <5> QED
          BY <5>1
      <4>2. CASE k > i
        <5>1. k - 1 \in 1..Len(t) /\ ~(k - 1 < i) /\ k - 1 + 1 = k
          BY <1>1, <2>2, <4>2
        <5>2. t[k - 1] = m[k]
          BY <2>2, <5>1
        <5> QED
          BY <5>1, <5>2
      <4> QED
        BY <1>1, <3>2, <4>1, <4>2
    <3> QED
      BY <3>1, <3>2
  <2>4. FreeUnits(t) = FreeUnits(m)
    <3>1. t \in Seq(Segment) /\ \A k \in 1..Len(m) : m[k].addr \in Nat
      BY <1>1, <2>2, UnitsFacts, ElementOfSeq DEF Ordered
    <3>2. ASSUME NEW u \in Nat PROVE u \in FreeUnits(t) <=> u \in FreeUnits(m)
      <4>1. ASSUME u \in FreeUnits(t) PROVE u \in FreeUnits(m)
        <5>1. PICK j \in 1..Len(t) : t[j].addr <= u /\ u < t[j].addr + t[j].size
          BY <3>1, <4>1, FreeUnitsFacts
        <5>2. PICK k \in 1..Len(m) : t[j] = m[k]
          BY <2>3
        <5> QED
          BY <1>1, <5>1, <5>2, FreeUnitsFacts
      <4>2. ASSUME u \in FreeUnits(m) PROVE u \in FreeUnits(t)
        <5>1. PICK k \in 1..Len(m) : m[k].addr <= u /\ u < m[k].addr + m[k].size
          BY <1>1, <4>2, FreeUnitsFacts
        <5>2. k # i
          BY <2>1, <3>1, <5>1
        <5>3. PICK j \in 1..Len(t) : t[j] = m[k]
          BY <2>3, <5>2
        <5> QED
          BY <3>1, <5>1, <5>3, FreeUnitsFacts
      <4> QED
        BY <4>1, <4>2
    <3> QED
      BY <1>1, <3>1, <3>2, FreeUnitsFacts
  <2>5. m[i].addr \in Empties(m)
    BY <2>1 DEF Empties
  <2>6. \A k \in 1..Len(m) : k # i => m[k].addr # m[i].addr
    <3>1. \A k \in 1..Len(m) : m[k].addr \in Nat /\ m[k].size \in Nat
      BY <1>1, UnitsFacts, ElementOfSeq
    <3>2. ASSUME NEW k \in 1..Len(m), k # i PROVE m[k].addr # m[i].addr
      <4>1. CASE k < i
        BY <3>1, <4>1 DEF Ordered
      <4>2. CASE i < k
        BY <3>1, <4>2 DEF Ordered
      <4> QED
        BY <1>1, <3>2, <4>1, <4>2
    <3> QED
      BY <3>2
  <2>7. Empties(t) = Empties(m) \ {m[i].addr}
    <3>1. ASSUME NEW j \in 1..Len(t), t[j].size = 0 PROVE t[j].addr \in Empties(m) \ {m[i].addr}
      <4>1. PICK k \in 1..Len(m) : k # i /\ t[j] = m[k]
        BY <2>3
      <4>2. m[k].size = 0 /\ m[k].addr # m[i].addr
        BY <2>6, <3>1, <4>1
      <4> QED
        BY <4>1, <4>2 DEF Empties
    <3>2. ASSUME NEW k \in 1..Len(m), m[k].size = 0, m[k].addr # m[i].addr
          PROVE  m[k].addr \in Empties(t)
      <4>1. PICK j \in 1..Len(t) : t[j] = m[k]
        BY <2>3, <3>2
      <4> QED
        BY <3>2, <4>1 DEF Empties
    <3> QED
      BY <3>1, <3>2 DEF Empties
  <2> QED
    BY <2>1, <2>2, <2>4, <2>5, <2>7 DEF t
<1> QED
  BY <1>2, <1>3

LEMMA SqueezeAllOrdered ==
    ASSUME NEW m, Ordered(m), NEW a, NEW b, NEW c, Empties(m) \subseteq {a, b, c}
    PROVE  /\ SqueezeAll(m) \in Seq(Segment) /\ Tidy(SqueezeAll(m))
           /\ FreeUnits(SqueezeAll(m)) = FreeUnits(m)
<1> DEFINE m1 == Squeeze(m)
           m2 == Squeeze(m1)
           m3 == Squeeze(m2)
<1>1. /\ Ordered(m1) /\ FreeUnits(m1) = FreeUnits(m)
      /\ \E x, y \in {a, b, c} : Empties(m1) \subseteq {x, y}
  BY SqueezeOrdered
<1>2. /\ Ordered(m2) /\ FreeUnits(m2) = FreeUnits(m)
      /\ \E x \in {a, b, c} : Empties(m2) \subseteq {x}
  <2> HIDE DEF m1
  <2> QED
    BY <1>1, SqueezeOrdered
<1>3. Ordered(m3) /\ FreeUnits(m3) = FreeUnits(m) /\ Empties(m3) = {}
  <2> HIDE DEF m2
  <2> QED
    BY <1>2, SqueezeOrdered
<1>4. SqueezeAll(m) = m3
  BY DEF SqueezeAll
<1> HIDE DEF m3
<1>5. \A i \in 1..Len(m3) : m3[i].size > 0
  <2>1. \A i \in 1..Len(m3) : m3[i].size # 0
    BY <1>3 DEF Empties
  <2>2. \A i \in 1..Len(m3) : m3[i].size \in Nat
    BY <1>3, UnitsFacts, ElementOfSeq DEF Ordered
  <2> QED
    BY <2>1, <2>2
<1> QED
  BY <1>3, <1>4, <1>5, TidyOrdered DEF Ordered

-----------------------------------------------------------------------------
(* mfree *)

LEMMA PlaceForFacts ==
    ASSUME NEW m \in Seq(Segment), NEW a \in Nat
    PROVE  /\ PlaceFor(m, a) \in 1..(Len(m) + 1)
           /\ PlaceFor(m, a) # Len(m) + 1 => m[PlaceFor(m, a)].addr > a
           /\ \A j \in 1..(PlaceFor(m, a) - 1) : m[j].addr <= a
<1> DEFINE T == {i \in 1..(Len(m) + 1) : i = Len(m) + 1 \/ m[i].addr > a}
<1>1. Len(m) \in Nat /\ \A i \in 1..Len(m) : m[i].addr \in Nat
  BY LenProperties, UnitsFacts, ElementOfSeq
<1>2. PICK i \in T : \A j \in T : i <= j
  <2>1. T \subseteq Nat /\ Len(m) + 1 \in T
    BY <1>1
  <2> HIDE DEF T
  <2> QED
    BY <2>1, LeastNat
<1>3. ASSUME NEW j \in 1..(i - 1) PROVE m[j].addr <= a
  <2>1. j \in 1..Len(m) /\ j # Len(m) + 1 /\ ~(i <= j)
    BY <1>1, <1>2
  <2>2. j \notin T
    BY <1>2, <2>1
  <2> QED
    BY <1>1, <2>1, <2>2
<1> QED
  BY <1>2, <1>3 DEF PlaceFor

(* Where the free segment e lies in the array: nothing before its place    *)
(* reaches beyond its start, nothing from there on starts before its end.  *)
LEMMA PlaceInGap ==
    ASSUME NEW m \in Seq(Segment), Tidy(m), NEW e \in Segment, e.size > 0,
           Units(e) \cap FreeUnits(m) = {}, NEW i, i = PlaceFor(m, e.addr)
    PROVE  /\ i \in 1..(Len(m) + 1)
           /\ \A j \in 1..(i - 1) : m[j].addr + m[j].size <= e.addr
           /\ \A j \in i..Len(m) : e.addr + e.size <= m[j].addr
           /\ JoinsLeft(m, i, e) => i > 1 /\ m[i - 1].addr + m[i - 1].size = e.addr
           /\ JoinsRight(m, i, e) => i <= Len(m) /\ e.addr + e.size = m[i].addr
           /\ ~JoinsLeft(m, i, e) => \A j \in 1..(i - 1) : m[j].addr + m[j].size < e.addr
           /\ ~JoinsRight(m, i, e) => \A j \in i..Len(m) : e.addr + e.size < m[j].addr
<1>1. /\ Len(m) \in Nat /\ \A j \in 1..Len(m) : m[j].addr \in Nat /\ m[j].size \in Nat
      /\ e.addr \in Nat /\ e.size \in Nat
      /\ Ordered(m) /\ \A j \in 1..Len(m) : m[j].size > 0
  BY LenProperties, UnitsFacts, ElementOfSeq, TidyOrdered
<1>2. /\ i \in 1..(Len(m) + 1) /\ i \in Nat
      /\ i # Len(m) + 1 => m[i].addr > e.addr
      /\ \A j \in 1..(i - 1) : m[j].addr <= e.addr
  <2>1. /\ i \in 1..(Len(m) + 1) /\ (i # Len(m) + 1 => m[i].addr > e.addr)
        /\ \A j \in 1..(i - 1) : m[j].addr <= e.addr
    BY <1>1, PlaceForFacts
  <2>2. i \in Nat
    BY <1>1, <2>1
  <2> QED
    BY <2>1, <2>2
<1>3. \A u \in Nat : e.addr <= u /\ u < e.addr + e.size =>
         \A j \in 1..Len(m) : ~(m[j].addr <= u /\ u < m[j].addr + m[j].size)
  BY UnitsFacts, FreeUnitsFacts
<1>4. ASSUME NEW j \in 1..(i - 1)
      PROVE  m[j].addr + m[j].size <= e.addr /\ j \in 1..Len(m)
  <2>1. j \in 1..Len(m) /\ m[j].addr <= e.addr
    BY <1>1, <1>2
  <2>2. e.addr <= e.addr /\ e.addr < e.addr + e.size
    BY <1>1
  <2>3. ~(m[j].addr <= e.addr /\ e.addr < m[j].addr + m[j].size)
    BY <1>1, <1>3, <2>1, <2>2
  <2> QED
    BY <1>1, <2>1, <2>3
<1>5. i <= Len(m) => e.addr + e.size <= m[i].addr
  <2> SUFFICES ASSUME i <= Len(m), ~(e.addr + e.size <= m[i].addr) PROVE FALSE
    OBVIOUS
  <2>1. i \in 1..Len(m) /\ m[i].addr > e.addr
    BY <1>1, <1>2
  <2>2. e.addr <= m[i].addr /\ m[i].addr < e.addr + e.size /\ m[i].addr < m[i].addr + m[i].size
    BY <1>1, <2>1
  <2> QED
    BY <1>1, <1>3, <2>1, <2>2
<1>6. \A j \in i..Len(m) : j \in 1..Len(m) /\ i <= Len(m) /\ i \in 1..Len(m) /\ (j # i => i < j)
  BY <1>1, <1>2
<1>7. \A j \in i..Len(m) : j # i => m[i].addr + m[i].size < m[j].addr
  BY <1>1, <1>6 DEF Ordered
<1>8. ASSUME NEW j \in i..Len(m) PROVE e.addr + e.size <= m[j].addr
  <2>1. j \in 1..Len(m) /\ i <= Len(m) /\ i \in 1..Len(m)
    BY <1>6
  <2>2. e.addr + e.size <= m[i].addr
    BY <1>5, <2>1
  <2>3. CASE j = i
    BY <2>2, <2>3
  <2>4. CASE j # i
    <3>1. m[i].addr + m[i].size < m[j].addr
      BY <1>7, <2>4
    <3>2. m[i] \in Segment /\ m[j] \in Segment
      BY <2>1, ElementOfSeq
    <3> QED
      BY <2>2, <3>1, <3>2, EndsBefore, Zenon
  <2> QED
    BY <2>3, <2>4
<1>9. JoinsLeft(m, i, e) => i > 1 /\ m[i - 1].addr + m[i - 1].size = e.addr
  <2> SUFFICES ASSUME JoinsLeft(m, i, e) PROVE i > 1 /\ m[i - 1].addr + m[i - 1].size = e.addr
    OBVIOUS
  <2>1. i > 1 /\ m[i - 1].addr + m[i - 1].size >= e.addr
    BY DEF JoinsLeft
  <2>2. i - 1 \in 1..(i - 1)
    BY <1>2, <2>1
  <2>3. i - 1 \in 1..Len(m) /\ m[i - 1].addr + m[i - 1].size <= e.addr
    BY <1>4, <2>2
  <2>4. m[i - 1].addr \in Nat /\ m[i - 1].size \in Nat /\ e.addr \in Nat
    BY <1>1, <2>3
  <2> QED
    BY <2>1, <2>3, <2>4
<1>10. JoinsRight(m, i, e) => i <= Len(m) /\ e.addr + e.size = m[i].addr
  <2> SUFFICES ASSUME JoinsRight(m, i, e) PROVE i <= Len(m) /\ e.addr + e.size = m[i].addr
    OBVIOUS
  <2>1. i <= Len(m) /\ e.addr + e.size >= m[i].addr
    BY DEF JoinsRight
  <2>2. i \in 1..Len(m) /\ e.addr + e.size <= m[i].addr
    BY <1>1, <1>2, <1>5, <2>1
  <2>3. m[i].addr \in Nat /\ e.addr \in Nat /\ e.size \in Nat
    BY <1>1, <2>2
  <2> QED
    BY <2>1, <2>2, <2>3
<1>11. ASSUME ~JoinsLeft(m, i, e), NEW j \in 1..(i - 1) PROVE m[j].addr + m[j].size < e.addr
  <2>1. i > 1 /\ i - 1 \in 1..(i - 1) /\ i - 1 \in 1..Len(m) /\ j \in 1..Len(m) /\ (j = i - 1 \/ j < i - 1)
    BY <1>1, <1>2
  <2>2. m[i - 1].addr + m[i - 1].size < e.addr
    BY <1>1, <1>11, <2>1 DEF JoinsLeft
  <2>3. CASE j = i - 1
    BY <2>2, <2>3
  <2>4. CASE j < i - 1
    <3>1. m[j].addr + m[j].size < m[i - 1].addr
      BY <1>1, <2>1, <2>4 DEF Ordered
    <3>2. m[j] \in Segment /\ m[i - 1] \in Segment
      BY <2>1, ElementOfSeq
    <3> QED
      BY <2>2, <3>1, <3>2, EndsBefore, Zenon
  <2> QED
    BY <2>1, <2>3, <2>4
<1>12. ASSUME ~JoinsRight(m, i, e), NEW j \in i..Len(m) PROVE e.addr + e.size < m[j].addr
  <2>1. e.addr + e.size < m[i].addr
    BY <1>1, <1>6, <1>12 DEF JoinsRight
  <2>2. CASE j = i
    BY <2>1, <2>2
  <2>3. CASE j # i
    <3>1. m[i].addr + m[i].size < m[j].addr
      BY <1>7, <2>3
    <3>2. m[i] \in Segment /\ m[j] \in Segment
      BY <1>6, ElementOfSeq
    <3> QED
      BY <2>1, <3>1, <3>2, EndsBefore, Zenon
  <2> QED
    BY <2>2, <2>3
<1> QED
  BY <1>2, <1>4, <1>8, <1>9, <1>10, <1>11, <1>12

(* The map describes what it did and the new segment, and is tidy.         *)
LEMMA InsertTidy ==
    ASSUME NEW m \in Seq(Segment), Tidy(m), NEW e \in Segment, e.size > 0, e.addr > 0,
           Units(e) \cap FreeUnits(m) = {}
    PROVE  /\ Insert(m, e) \in Seq(Segment) /\ Tidy(Insert(m, e))
           /\ FreeUnits(Insert(m, e)) = FreeUnits(m) \cup Units(e)
<1> DEFINE i == PlaceFor(m, e.addr)
           left == JoinsLeft(m, i, e)
           right == JoinsRight(m, i, e)
           t == Insert(m, e)
           End(x) == x.addr + x.size
<1>1. /\ Len(m) \in Nat /\ DOMAIN m = 1..Len(m)
      /\ \A j \in 1..Len(m) : m[j] \in Segment /\ m[j].addr \in Nat /\ m[j].size \in Nat
      /\ e.addr \in Nat /\ e.size \in Nat
      /\ \A j \in 1..Len(m) : m[j].size > 0 /\ m[j].addr > 0
      /\ \A j, k \in 1..Len(m) : j < k => m[j].addr + m[j].size < m[k].addr
  BY LenProperties, UnitsFacts, ElementOfSeq, TidyOrdered DEF Ordered
<1>2. /\ i \in 1..(Len(m) + 1)
      /\ \A j \in 1..(i - 1) : m[j].addr + m[j].size <= e.addr
      /\ \A j \in i..Len(m) : e.addr + e.size <= m[j].addr
      /\ left => i > 1 /\ m[i - 1].addr + m[i - 1].size = e.addr
      /\ right => i <= Len(m) /\ e.addr + e.size = m[i].addr
      /\ ~left => \A j \in 1..(i - 1) : m[j].addr + m[j].size < e.addr
      /\ ~right => \A j \in i..Len(m) : e.addr + e.size < m[j].addr
  BY PlaceInGap
<1>3. t = CASE left /\ right -> RemoveAt([m EXCEPT ![i - 1].size = m[i - 1].size + e.size + m[i].size], i)
            [] left /\ ~right -> [m EXCEPT ![i - 1].size = m[i - 1].size + e.size]
            [] ~left /\ right -> [m EXCEPT ![i] = Seg(e.size + m[i].size, e.addr)]
            [] OTHER -> InsertAt(m, i, e)
  BY DEF Insert
<1>4. /\ FreeUnits(m) \subseteq Nat /\ Units(e) \subseteq Nat
      /\ \A u \in Nat : u \in FreeUnits(m) <=>
            \E j \in 1..Len(m) : m[j].addr <= u /\ u < m[j].addr + m[j].size
      /\ \A u \in Nat : u \in Units(e) <=> e.addr <= u /\ u < e.addr + e.size
  BY UnitsFacts, FreeUnitsFacts
<1> HIDE DEF i, left, right, t
<1>5. i \in Nat
  BY <1>1, <1>2
<1>6. SUFFICES ASSUME TRUE
      PROVE  /\ t \in Seq(Segment)
             /\ \A j \in 1..Len(t) : t[j].size > 0 /\ t[j].addr > 0
             /\ \A j, k \in 1..Len(t) : j < k => t[j].addr + t[j].size < t[k].addr
             /\ \A u \in Nat : (\E j \in 1..Len(t) : t[j].addr <= u /\ u < t[j].addr + t[j].size)
                   <=> u \in FreeUnits(m) \cup Units(e)
  <2>1. t \in Seq(Segment) /\ Tidy(t)
    BY <1>6, TidyOrdered DEF Ordered
  <2>2. FreeUnits(t) \subseteq Nat /\ \A u \in Nat : u \in FreeUnits(t) <=> u \in FreeUnits(m) \cup Units(e)
    BY <1>6, FreeUnitsFacts
  <2> QED
    BY <1>4, <2>1, <2>2 DEF t
<1>7. CASE ~left /\ ~right
  <2>1. t = InsertAt(m, i, e)
    BY <1>3, <1>7
  <2>2. /\ t \in Seq(Segment) /\ Len(t) = Len(m) + 1
        /\ \A j \in 1..(i - 1) : t[j] = m[j]
        /\ t[i] = e
        /\ \A j \in (i + 1)..(Len(m) + 1) : t[j] = m[j - 1]
    <3>1. i \in 1..(Len(m) + 1)
      BY <1>2
    <3> DEFINE s == InsertAt(m, i, e)
    <3>2. /\ s \in Seq(Segment) /\ Len(s) = Len(m) + 1
          /\ \A j \in 1..(i - 1) : s[j] = m[j]
          /\ s[i] = e
          /\ \A j \in (i + 1)..(Len(m) + 1) : s[j] = m[j - 1]
      BY <3>1, InsertElements
    <3>3. t = s
      BY <2>1
    <3> HIDE DEF s
    <3> QED
      BY <3>2, <3>3
  <2>3. ASSUME NEW j \in 1..Len(t)
        PROVE  \/ j < i /\ j \in 1..(i - 1) /\ j \in 1..Len(m) /\ t[j] = m[j]
               \/ j = i /\ t[j] = e
               \/ j > i /\ j - 1 \in i..Len(m) /\ j - 1 \in 1..Len(m) /\ t[j] = m[j - 1]
    <3>1. j < i => j \in 1..(i - 1) /\ j \in 1..Len(m)
      BY <1>1, <1>2, <1>5, <2>2
    <3>2. j > i => j - 1 \in i..Len(m) /\ j - 1 \in 1..Len(m) /\ j \in (i + 1)..(Len(m) + 1)
      BY <1>1, <1>2, <1>5, <2>2
    <3>3. j < i \/ j = i \/ j > i
      BY <1>5, <2>2, <1>1
    <3> QED
      BY <2>2, <3>1, <3>2, <3>3
  <2>4. \A j \in 1..Len(t) : t[j].size > 0 /\ t[j].addr > 0
    BY <1>1, <2>3
  <2>5. ASSUME NEW j \in 1..Len(t), NEW k \in 1..Len(t), j < k PROVE t[j].addr + t[j].size < t[k].addr
    <3>1. CASE k < i
      <4>1. t[j] = m[j] /\ t[k] = m[k] /\ j \in 1..Len(m) /\ k \in 1..Len(m)
        BY <1>5, <2>3, <2>5, <3>1
      <4> QED
        BY <1>1, <2>5, <4>1
    <3>2. CASE k = i
      BY <1>1, <1>2, <1>5, <1>7, <2>3, <2>5, <3>2
    <3>3. CASE k > i /\ j = i
      <4>1. t[j] = e /\ t[k] = m[k - 1] /\ k - 1 \in i..Len(m)
        BY <1>5, <2>3, <3>3
      <4>2. e.addr + e.size < m[k - 1].addr
        BY <1>2, <1>7, <4>1
      <4> QED
        BY <4>1, <4>2
    <3>4. CASE k > i /\ j < i
      <4>1. m[j].addr + m[j].size <= e.addr /\ e.addr + e.size <= m[k - 1].addr /\ t[j] = m[j] /\ t[k] = m[k - 1]
            /\ j \in 1..Len(m) /\ k - 1 \in 1..Len(m)
        BY <1>2, <1>5, <2>3, <2>5, <3>4
      <4>2. m[j] \in Segment /\ m[k - 1] \in Segment
        BY <1>1, <4>1
      <4>3. m[j].addr + m[j].size < m[k - 1].addr
        BY <4>1, <4>2, EndsBefore, Zenon
      <4> QED
        BY <4>1, <4>3
    <3>5. CASE k > i /\ j > i
      <4>1. t[j] = m[j - 1] /\ t[k] = m[k - 1] /\ j - 1 \in 1..Len(m) /\ k - 1 \in 1..Len(m) /\ j - 1 < k - 1
        BY <1>5, <2>3, <2>5, <3>5
      <4> QED
        BY <1>1, <4>1
    <3> QED
      BY <1>1, <1>5, <2>2, <3>1, <3>2, <3>3, <3>4, <3>5
  <2>6. ASSUME NEW u \in Nat
        PROVE  (\E j \in 1..Len(t) : t[j].addr <= u /\ u < t[j].addr + t[j].size)
                  <=> u \in FreeUnits(m) \cup Units(e)
    <3>1. \A j \in 1..Len(t) : t[j] = e \/ \E k \in 1..Len(m) : t[j] = m[k]
      BY <2>3
    <3>2. \A k \in 1..Len(m) : \E j \in 1..Len(t) : t[j] = m[k]
      <4> SUFFICES ASSUME NEW k \in 1..Len(m) PROVE \E j \in 1..Len(t) : t[j] = m[k]
        OBVIOUS
      <4>1. CASE k < i
        <5>1. k \in 1..(i - 1) /\ k \in 1..Len(t)
          BY <1>1, <1>5, <2>2, <4>1
        <5> QED
          BY <2>2, <5>1
      <4>2. CASE k >= i
        <5>1. k + 1 \in (i + 1)..(Len(m) + 1) /\ k + 1 \in 1..Len(t) /\ k + 1 - 1 = k
          BY <1>1, <1>5, <2>2, <4>2
        <5>2. t[k + 1] = m[k]
          BY <2>2, <5>1
        <5> QED
          BY <5>1, <5>2
      <4> QED
        BY <1>1, <1>5, <4>1, <4>2
    <3>3. i \in 1..Len(t) /\ t[i] = e
      BY <1>2, <2>2
    <3> DEFINE In(x) == x.addr <= u /\ u < x.addr + x.size
    <3>4. (u \in FreeUnits(m) <=> \E k \in 1..Len(m) : In(m[k])) /\ (u \in Units(e) <=> In(e))
      BY <1>4
    <3> HIDE DEF In
    <3>5. (\E j \in 1..Len(t) : In(t[j])) <=> (\E k \in 1..Len(m) : In(m[k])) \/ In(e)
      BY <3>1, <3>2, <3>3
    <3> QED
      BY <3>4, <3>5 DEF In
  <2> QED
    BY <2>2, <2>4, <2>5, <2>6
<1>8. CASE left /\ ~right
  <2> DEFINE h == i - 1
             r == Seg(m[h].size + e.size, m[h].addr)
  <2>1. h \in 1..Len(m) /\ h \in 1..(i - 1) /\ End(m[h]) = e.addr
    BY <1>1, <1>2, <1>5, <1>8
  <2>2. r \in Segment /\ r.size = m[h].size + e.size /\ r.addr = m[h].addr
    <3>1. m[h].size \in Nat /\ m[h].addr \in Nat
      BY <1>1, <2>1
    <3>2. e.size \in Nat
      BY <1>1
    <3>3. m[h].size + e.size \in Nat
      BY <3>1, <3>2, SumsNat, Zenon
    <3> QED
      BY <3>1, <3>3, SegFacts, ZenonT(60) DEF r
  <2>3. t = [m EXCEPT ![h] = r]
    <3>1. [m[h] EXCEPT !.size = m[h].size + e.size] = r
      BY <1>1, <2>1 DEF Seg, Segment
    <3>2. t = [m EXCEPT ![h].size = m[h].size + e.size]
      BY <1>3, <1>8
    <3> QED
      BY <3>1, <3>2
  <2>4. /\ t \in Seq(Segment) /\ Len(t) = Len(m) /\ t[h] = r
        /\ \A j \in 1..Len(m) : j # h => t[j] = m[j]
    BY <1>1, <2>1, <2>2, <2>3, ExceptSeq
  <2>5. i = h + 1 /\ h \in Nat
    BY <1>1, <1>5, <2>1
  <2> HIDE DEF r, h
  <2>9. /\ m[h] \in Segment /\ m[h].addr + m[h].size = e.addr
        /\ r \in Segment /\ r.addr = m[h].addr /\ r.size = m[h].size + e.size
    BY <1>1, <2>1, <2>2
  <2>6. \A j \in 1..Len(t) : t[j].size > 0 /\ t[j].addr > 0
    BY SMTT(30), <1>1, <2>1, <2>2, <2>4
  <2>7. ASSUME NEW j \in 1..Len(t), NEW k \in 1..Len(t), j < k PROVE t[j].addr + t[j].size < t[k].addr
    <3>1. CASE j = h
      <4>1. k \in i..Len(m) /\ k \in 1..Len(m) /\ k # h
        BY <1>1, <2>4, <2>5, <2>7, <3>1
      <4>2. e.addr + e.size < m[k].addr
        BY <1>2, <1>8, <4>1
      <4>4. t[k] = m[k]
        BY <2>4, <4>1
      <4>6. r.addr + r.size = e.addr + e.size
        BY <2>9, Joined, Zenon
      <4>7. t[j] = r
        BY <2>4, <3>1
      <4> QED
        BY <4>2, <4>4, <4>6, <4>7
    <3>2. CASE j # h
      <4>1. j \in 1..Len(m) /\ k \in 1..Len(m) /\ t[j] = m[j]
        BY <2>4, <3>2
      <4>2. m[j].addr + m[j].size < m[k].addr
        BY <1>1, <2>7, <4>1
      <4>3. t[k].addr = m[k].addr
        BY <2>2, <2>4, <4>1
      <4> QED
        BY <4>1, <4>2, <4>3
    <3> QED
      BY <3>1, <3>2
  <2>8. ASSUME NEW u \in Nat
        PROVE  (\E j \in 1..Len(t) : t[j].addr <= u /\ u < t[j].addr + t[j].size)
                  <=> u \in FreeUnits(m) \cup Units(e)
    <3>1. (r.addr <= u /\ u < r.addr + r.size) <=>
            \/ m[h].addr <= u /\ u < m[h].addr + m[h].size
            \/ e.addr <= u /\ u < e.addr + e.size
      BY <2>9, Joined, Zenon
    <3> QED
      BY <1>4, <2>1, <2>4, <3>1
  <2> QED
    BY <2>4, <2>6, <2>7, <2>8
<1>9. CASE ~left /\ right
  <2> DEFINE r == Seg(e.size + m[i].size, e.addr)
  <2>1. i \in 1..Len(m) /\ End(e) = m[i].addr
    BY <1>1, <1>2, <1>5, <1>9
  <2>2. r \in Segment /\ r.size = e.size + m[i].size /\ r.addr = e.addr
    <3>1. m[i].size \in Nat
      BY <1>1, <2>1
    <3>2. e.size \in Nat /\ e.addr \in Nat
      BY <1>1
    <3>3. e.size + m[i].size \in Nat
      BY <3>1, <3>2, SumsNat, Zenon
    <3> QED
      BY <3>2, <3>3, SegFacts, Zenon DEF r
  <2>3. t = [m EXCEPT ![i] = r]
    BY <1>3, <1>9
  <2>4. /\ t \in Seq(Segment) /\ Len(t) = Len(m) /\ t[i] = r
        /\ \A j \in 1..Len(m) : j # i => t[j] = m[j]
    BY <1>1, <2>1, <2>2, <2>3, ExceptSeq
  <2> HIDE DEF r
  <2>5. \A j \in 1..Len(t) : t[j].size > 0 /\ t[j].addr > 0
    <3>1. r.size > 0 /\ r.addr > 0
      BY <1>1, <2>1, <2>2
    <3> QED
      BY <1>1, <2>4, <3>1
  <2>6. ASSUME NEW j \in 1..Len(t), NEW k \in 1..Len(t), j < k PROVE t[j].addr + t[j].size < t[k].addr
    <3>1. CASE k = i
      <4>1. j \in 1..(i - 1) /\ j \in 1..Len(m) /\ j # i
        BY <1>1, <1>5, <2>4, <2>6, <3>1
      <4>2. m[j].addr + m[j].size < e.addr
        BY <1>2, <1>9, <4>1
      <4> QED
        BY <2>2, <2>4, <3>1, <4>1, <4>2
    <3>2. CASE k # i /\ j = i
      <4>1. k \in 1..Len(m) /\ i < k /\ t[k] = m[k] /\ t[j] = r
        BY <2>4, <2>6, <3>2
      <4>2. m[i] \in Segment /\ e.addr + e.size = m[i].addr
        BY <1>1, <2>1
      <4>3. r.addr + r.size = m[i].addr + m[i].size
        BY <2>2, <4>2, Joined, Zenon
      <4>4. m[i].addr + m[i].size < m[k].addr
        BY <1>1, <2>1, <4>1
      <4> QED
        BY <4>1, <4>3, <4>4
    <3>3. CASE k # i /\ j # i
      BY <1>1, <2>4, <2>6, <3>3
    <3> QED
      BY <3>1, <3>2, <3>3
  <2>7. ASSUME NEW u \in Nat
        PROVE  (\E j \in 1..Len(t) : t[j].addr <= u /\ u < t[j].addr + t[j].size)
                  <=> u \in FreeUnits(m) \cup Units(e)
    <3>1. (r.addr <= u /\ u < r.addr + r.size) <=>
            \/ e.addr <= u /\ u < e.addr + e.size
            \/ m[i].addr <= u /\ u < m[i].addr + m[i].size
      <4>1. m[i] \in Segment /\ e.addr + e.size = m[i].addr
        BY <1>1, <2>1
      <4> QED
        BY <2>2, <4>1, Joined, Zenon
    <3> QED
      BY <1>4, <2>1, <2>4, <3>1
  <2> QED
    BY <2>4, <2>5, <2>6, <2>7
<1>10. CASE left /\ right
  <2> DEFINE h == i - 1
             n == m[h].size + e.size + m[i].size
             r == Seg(n, m[h].addr)
             s == [m EXCEPT ![h] = r]
  <2>1. h \in 1..Len(m) /\ i \in 1..Len(m) /\ h < i /\ End(m[h]) = e.addr /\ End(e) = m[i].addr
        /\ i = h + 1 /\ h \in Nat
    BY <1>1, <1>2, <1>5, <1>10
  <2>2. r \in Segment /\ r.size = n /\ r.addr = m[h].addr
    <3>1. n \in Nat /\ m[h].addr \in Nat
      <4>1. m[h].size \in Nat /\ m[i].size \in Nat /\ m[h].addr \in Nat
        BY <1>1, <2>1
      <4>2. e.size \in Nat
        BY <1>1
      <4> QED
        BY <4>1, <4>2, SumsNat, Zenon DEF n
    <3> HIDE DEF n, h
    <3> QED
      BY <3>1, SegFacts
  <2>3. t = RemoveAt(s, i)
    <3>1. [m[h] EXCEPT !.size = n] = r
      BY <1>1, <2>1 DEF Seg, Segment
    <3>2. t = RemoveAt([m EXCEPT ![h].size = n], i)
      BY <1>3, <1>10
    <3> QED
      BY <3>1, <3>2
  <2>4. /\ s \in Seq(Segment) /\ Len(s) = Len(m) /\ s[h] = r
        /\ \A j \in 1..Len(m) : j # h => s[j] = m[j]
    BY <1>1, <2>1, <2>2, ExceptSeq
  <2>11. m[h].size + e.size + m[i].size = n
    OBVIOUS
  <2> HIDE DEF r, s, n, h
  <2>5. /\ t \in Seq(Segment) /\ Len(t) = Len(m) - 1
        /\ \A j \in 1..(i - 1) : t[j] = s[j]
        /\ \A j \in i..(Len(m) - 1) : t[j] = s[j + 1]
    <3>1. s \in Seq(Segment) /\ i \in 1..Len(s)
      BY <2>1, <2>4
    <3> QED
      BY ZenonT(60), <2>3, <2>4, <3>1, RemoveElements
  <2>6. ASSUME NEW j \in 1..Len(t)
        PROVE  \/ j < h /\ j \in 1..Len(m) /\ t[j] = m[j]
               \/ j = h /\ t[j] = r
               \/ j > h /\ j + 1 \in 1..Len(m) /\ j + 1 > i /\ t[j] = m[j + 1]
    <3>1. CASE j < h
      <4>1. j \in 1..(i - 1) /\ j \in 1..Len(m) /\ j # h
        BY <1>1, <2>1, <2>5, <3>1
      <4> QED
        BY <2>4, <2>5, <3>1, <4>1
    <3>2. CASE j = h
      <4>1. j \in 1..(i - 1)
        BY <2>1, <3>2
      <4> QED
        BY <2>4, <2>5, <3>2, <4>1
    <3>3. CASE j > h
      <4>1. j \in i..(Len(m) - 1) /\ j + 1 \in 1..Len(m) /\ j + 1 # h /\ j + 1 > i
        BY <1>1, <2>1, <2>5, <3>3
      <4> QED
        BY <2>4, <2>5, <3>3, <4>1
    <3> QED
      BY <1>1, <2>1, <2>5, <3>1, <3>2, <3>3
  <2>7. r.addr + r.size = m[i].addr + m[i].size /\ r.addr = m[h].addr /\ r.size > 0 /\ r.addr > 0
        /\ r.size \in Nat /\ r.addr \in Nat
    <3>1. /\ m[h].addr \in Nat /\ m[h].size \in Nat /\ m[i].addr \in Nat /\ m[i].size \in Nat
          /\ m[h].addr > 0 /\ m[h].size > 0
      BY <1>1, <2>1
    <3> DEFINE a == m[h].addr
               b == m[h].size
               c == m[i].addr
               d == m[i].size
               x == e.addr
               y == e.size
    <3>2. /\ a \in Nat /\ b \in Nat /\ c \in Nat /\ d \in Nat /\ a > 0 /\ b > 0
          /\ x \in Nat /\ y \in Nat
      BY <1>1, <3>1
    <3>3. a + b = x /\ x + y = c /\ b + y + d = n
      BY <2>1, <2>11
    <3> HIDE DEF a, b, c, d, x, y
    <3>4. n \in Nat /\ n > 0 /\ a + n = c + d
      BY <3>2, <3>3
    <3>5. r.addr = a /\ r.size = n
      BY <2>2 DEF a
    <3> QED
      BY <3>2, <3>4, <3>5 DEF a, c, d
  <2>8. \A j \in 1..Len(t) : t[j].size > 0 /\ t[j].addr > 0
    BY <1>1, <2>6, <2>7
  <2>9. ASSUME NEW j \in 1..Len(t), NEW k \in 1..Len(t), j < k PROVE t[j].addr + t[j].size < t[k].addr
    <3>1. CASE k < h
      <4>1. t[j] = m[j] /\ t[k] = m[k] /\ j \in 1..Len(m) /\ k \in 1..Len(m)
        BY <2>1, <2>6, <2>9, <3>1
      <4> QED
        BY <1>1, <2>9, <4>1
    <3>2. CASE k = h
      <4>0. t[k] = r
        BY <2>1, <2>6, <3>2
      <4>1. j \in 1..Len(m) /\ j < h /\ t[j] = m[j] /\ t[k] = r
        BY <2>1, <2>6, <2>9, <3>2, <4>0
      <4> QED
        BY <1>1, <2>1, <2>7, <4>1
    <3>3. CASE k > h /\ j = h
      <4>1. k + 1 \in 1..Len(m) /\ k + 1 > i /\ t[k] = m[k + 1] /\ t[j] = r
        BY SMTT(30), <2>1, <2>6, <2>9, <3>3
      <4> QED
        BY <1>1, <2>1, <2>7, <4>1
    <3>4. CASE k > h /\ j < h
      <4>1. k + 1 \in 1..Len(m) /\ t[k] = m[k + 1] /\ t[j] = m[j] /\ j \in 1..Len(m) /\ j < k + 1
        BY <2>1, <2>6, <2>9, <3>4
      <4> QED
        BY <1>1, <4>1
    <3>5. CASE k > h /\ j > h
      <4>1. k + 1 \in 1..Len(m) /\ t[k] = m[k + 1] /\ t[j] = m[j + 1] /\ j + 1 \in 1..Len(m) /\ j + 1 < k + 1
        BY <2>1, <2>6, <2>9, <3>5
      <4> QED
        BY <1>1, <4>1
    <3> QED
      BY <1>1, <2>1, <2>5, <3>1, <3>2, <3>3, <3>4, <3>5
  <2>10. ASSUME NEW u \in Nat
         PROVE  (\E j \in 1..Len(t) : t[j].addr <= u /\ u < t[j].addr + t[j].size)
                   <=> u \in FreeUnits(m) \cup Units(e)
    <3>1. (r.addr <= u /\ u < r.addr + r.size) <=>
            \/ m[h].addr <= u /\ u < m[h].addr + m[h].size
            \/ e.addr <= u /\ u < e.addr + e.size
            \/ m[i].addr <= u /\ u < m[i].addr + m[i].size
      <4>1. /\ m[h].addr \in Nat /\ m[h].size \in Nat /\ m[i].addr \in Nat /\ m[i].size \in Nat
            /\ e.addr \in Nat /\ e.size \in Nat /\ e.size > 0
        BY <1>1, <2>1
      <4>2. m[h].addr + m[h].size = e.addr /\ e.addr + e.size = m[i].addr
        BY <2>1
      <4> DEFINE a == m[h].addr
                 b == m[h].size
                 c == m[i].addr
                 d == m[i].size
                 x == e.addr
                 y == e.size
                 v == r.addr
                 w == r.size
      <4>3. /\ a \in Nat /\ b \in Nat /\ c \in Nat /\ d \in Nat /\ x \in Nat /\ y \in Nat
            /\ v \in Nat /\ w \in Nat /\ a + b = x /\ x + y = c /\ v + w = c + d /\ v = a
        BY <2>7, <4>1, <4>2
      <4>4. (v <= u /\ u < v + w) <=> (a <= u /\ u < a + b) \/ (x <= u /\ u < x + y) \/ (c <= u /\ u < c + d)
        <5> HIDE DEF a, b, c, d, x, y, v, w
        <5> QED
          BY <4>3
      <4> QED
        BY <4>4
    <3>2. \A k \in 1..Len(m) : k \in {h, i} \/ \E j \in 1..Len(t) : t[j] = m[k]
      <4> SUFFICES ASSUME NEW k \in 1..Len(m), k \notin {h, i} PROVE \E j \in 1..Len(t) : t[j] = m[k]
        OBVIOUS
      <4>1. CASE k < h
        <5>1. k \in 1..Len(t) /\ ~(k > h) /\ k # h
          BY <1>1, <2>1, <2>5, <4>1
        <5> QED
          BY <2>6, <5>1
      <4>2. CASE k > i
        <5>1. k - 1 \in 1..Len(t) /\ k - 1 > h /\ k - 1 + 1 = k /\ ~(k - 1 < h) /\ k - 1 # h
          BY <1>1, <2>1, <2>5, <4>2
        <5>2. t[k - 1] = m[k]
          BY <2>6, <5>1
        <5> QED
          BY <5>1, <5>2
      <4>3. k \in Nat /\ h \in Nat /\ i = h + 1 /\ k # h /\ k # i
        BY <1>1, <2>1
      <4> QED
        BY <4>1, <4>2, <4>3
    <3>3. h \in 1..Len(t) /\ t[h] = r
      <4>1. h \in 1..Len(t) /\ ~(h < h) /\ ~(h > h)
        BY <1>1, <2>1, <2>5
      <4> QED
        BY <2>6, <4>1
    <3>4. \A j \in 1..Len(t) : t[j] = r \/ \E k \in 1..Len(m) : t[j] = m[k]
      BY <2>6
    <3> DEFINE In(x) == x.addr <= u /\ u < x.addr + x.size
    <3>5. (u \in FreeUnits(m) <=> \E k \in 1..Len(m) : In(m[k])) /\ (u \in Units(e) <=> In(e))
      BY <1>4
    <3>6. In(r) <=> In(m[h]) \/ In(e) \/ In(m[i])
      BY <3>1
    <3> HIDE DEF In
    <3>7. h \in 1..Len(m) /\ i \in 1..Len(m)
      BY <2>1
    <3>8. (\E j \in 1..Len(t) : In(t[j])) => (\E k \in 1..Len(m) : In(m[k])) \/ In(e)
      BY <3>4, <3>6, <3>7
    <3>9. ASSUME NEW k \in 1..Len(m), In(m[k]) PROVE \E j \in 1..Len(t) : In(t[j])
      BY <3>2, <3>3, <3>6, <3>9
    <3>10. In(e) => \E j \in 1..Len(t) : In(t[j])
      BY <3>3, <3>6
    <3>11. (\E j \in 1..Len(t) : In(t[j])) <=> u \in FreeUnits(m) \cup Units(e)
      BY <3>5, <3>8, <3>9, <3>10
    <3> QED
      BY <3>11 DEF In
  <2> QED
    BY <2>5, <2>8, <2>9, <2>10
<1> QED
  BY <1>7, <1>8, <1>9, <1>10

-----------------------------------------------------------------------------
(* malloc and malloc3 *)

Sizes(sz) == sz \in Seq(Nat) /\ Len(sz) \in {1, 3}

LEMMA AskSizes == \A sz \in Asks : Sizes(sz)
BY AskAssumption DEF Sizes

(* What malloc3 takes from entry i altogether. *)
Taken(sz, at, i) == Before(sz, at, Len(sz) + 1, i)

(* The sizes taken from one entry follow each other from its start, and    *)
(* fit in it together.                                                     *)
LEMMA BeforeFacts ==
    ASSUME NEW m \in Seq(Segment), NEW sz, Sizes(sz), NEW at \in Placements(m, sz)
    PROVE  /\ \A k \in 1..Len(sz) : /\ at[k] \in 1..Len(m) /\ sz[k] \in Nat
                                    /\ Before(sz, at, k, at[k]) \in Nat
                                    /\ Before(sz, at, k, at[k]) + sz[k] <= m[at[k]].size
           /\ \A k, l \in 1..Len(sz) : k < l /\ at[k] = at[l] =>
                 Before(sz, at, k, at[k]) + sz[k] <= Before(sz, at, l, at[l])
           /\ \A i \in 1..Len(m) : Taken(sz, at, i) \in Nat /\ Taken(sz, at, i) <= m[i].size
           /\ \A i \in 1..Len(m) : Taken(sz, at, i) > 0 => \E k \in 1..Len(sz) : at[k] = i
           /\ \A i \in 1..Len(m), v \in Nat :
                 v < Taken(sz, at, i) <=>
                    \E k \in 1..Len(sz) : /\ at[k] = i /\ Before(sz, at, k, i) <= v
                                          /\ v < Before(sz, at, k, i) + sz[k]
<1>1. DOMAIN m = 1..Len(m) /\ DOMAIN sz = 1..Len(sz) /\ \A i \in 1..Len(m) : m[i].size \in Nat
  BY LenProperties, UnitsFacts, ElementOfSeq DEF Sizes
<1>2. \A k \in 1..Len(sz) : at[k] \in 1..Len(m) /\ sz[k] \in Nat
  BY <1>1, ElementOfSeq DEF Placements, Sizes
<1>3. \A k \in 1..Len(sz) : sz[k] <= m[at[k]].size - Before(sz, at, k, at[k])
  BY <1>1 DEF Placements, FirstFit, Fits
<1>4. CASE Len(sz) = 1
  <2>1. 1..Len(sz) = {1}
    BY <1>4
  <2>2. \A i : Before(sz, at, 1, i) = 0 /\ Before(sz, at, 2, i) = IF at[1] = i THEN sz[1] ELSE 0
    BY <1>2, <2>1 DEF Before
  <2>3. \A i : Taken(sz, at, i) = IF at[1] = i THEN sz[1] ELSE 0
    BY <1>4, <2>2 DEF Taken
  <2>4. sz[1] \in Nat /\ sz[1] <= m[at[1]].size /\ at[1] \in 1..Len(m) /\ m[at[1]].size \in Nat
    BY <1>1, <1>2, <1>3, <2>1, <2>2
  <2> DEFINE n == sz[1]
  <2>5. n \in Nat
    BY <2>4
  <2>6. Before(sz, at, 1, at[1]) \in Nat /\ Before(sz, at, 1, at[1]) + n <= m[at[1]].size
    BY <2>2, <2>4
  <2>7. ASSUME NEW i \in 1..Len(m) PROVE Taken(sz, at, i) \in Nat /\ Taken(sz, at, i) <= m[i].size
    <3>1. m[i].size \in Nat
      BY <1>1
    <3> QED
      BY <2>3, <2>4, <3>1
  <2> HIDE DEF n
  <2>8. \A i : Taken(sz, at, i) > 0 => at[1] = i
    BY <2>3
  <2>9. ASSUME NEW i, NEW v \in Nat
        PROVE  v < Taken(sz, at, i) <=>
                  at[1] = i /\ Before(sz, at, 1, i) <= v /\ v < Before(sz, at, 1, i) + n
    <3>1. Before(sz, at, 1, i) = 0 /\ Taken(sz, at, i) = IF at[1] = i THEN n ELSE 0
      BY <2>2, <2>3 DEF n
    <3> QED
      BY <2>5, <3>1
  <2>10. 1 \in 1..Len(sz) /\ \A k \in 1..Len(sz) : k = 1
    BY <2>1
  <2>11. \A k \in 1..Len(sz) : /\ Before(sz, at, k, at[k]) \in Nat
                               /\ Before(sz, at, k, at[k]) + sz[k] <= m[at[k]].size
    BY <2>6, <2>10 DEF n
  <2>12. \A k, l \in 1..Len(sz) : ~(k < l)
    BY <2>1
  <2>13. \A i \in 1..Len(m) : Taken(sz, at, i) > 0 => \E k \in 1..Len(sz) : at[k] = i
    BY <2>8, <2>10
  <2>14. ASSUME NEW i, NEW v \in Nat
         PROVE  v < Taken(sz, at, i) <=>
                   \E k \in 1..Len(sz) : /\ at[k] = i /\ Before(sz, at, k, i) <= v
                                         /\ v < Before(sz, at, k, i) + sz[k]
    BY <2>9, <2>10 DEF n
  <2> QED
    BY <1>2, <2>7, <2>11, <2>12, <2>13, <2>14
<1>5. CASE Len(sz) = 3
  <2>1. 1..Len(sz) = {1, 2, 3}
    BY <1>5
  <2> DEFINE x(i) == IF at[1] = i THEN sz[1] ELSE 0
             y(i) == IF at[2] = i THEN sz[2] ELSE 0
             z(i) == IF at[3] = i THEN sz[3] ELSE 0
  <2>2. sz[1] \in Nat /\ sz[2] \in Nat /\ sz[3] \in Nat
    BY <1>2, <2>1
  <2>3. \A i : x(i) \in Nat /\ y(i) \in Nat /\ z(i) \in Nat
    BY <2>2
  <2>4. \A i : /\ at[1] # i => x(i) = 0
               /\ at[2] # i => y(i) = 0
               /\ at[3] # i => z(i) = 0
               /\ at[1] = i => x(i) = sz[1]
               /\ at[2] = i => y(i) = sz[2]
               /\ at[3] = i => z(i) = sz[3]
    OBVIOUS
  <2>5. \A i : /\ Before(sz, at, 1, i) = 0 /\ Before(sz, at, 2, i) = x(i)
               /\ Before(sz, at, 3, i) = x(i) + y(i) /\ Taken(sz, at, i) = x(i) + y(i) + z(i)
    BY <1>5, <2>3 DEF Before, Taken
  <2> HIDE DEF x, y, z
  <2>6. /\ \A k \in {1, 2, 3} : at[k] \in 1..Len(m)
        /\ \A i \in 1..Len(m) : m[i].size \in Nat
    BY <1>1, <1>2, <2>1
  <2>7. /\ sz[1] <= m[at[1]].size
        /\ sz[2] <= m[at[2]].size - x(at[2])
        /\ sz[3] <= m[at[3]].size - (x(at[3]) + y(at[3]))
    <3>1. \A k \in {1, 2, 3} : sz[k] <= m[at[k]].size - Before(sz, at, k, at[k])
      BY <1>3, <2>1
    <3>2. sz[1] <= m[at[1]].size - 0
      BY <3>1, <2>5
    <3>3. m[at[1]].size - 0 = m[at[1]].size
      BY <2>6
    <3> QED
      BY <2>5, <3>1, <3>2, <3>3
  <2>8. \A k \in {1, 2, 3} : /\ Before(sz, at, k, at[k]) \in Nat
                             /\ Before(sz, at, k, at[k]) + sz[k] <= m[at[k]].size
    <3>1. x(at[2]) \in Nat /\ x(at[3]) \in Nat /\ y(at[3]) \in Nat
      BY <2>3
    <3>2. m[at[1]].size \in Nat /\ m[at[2]].size \in Nat /\ m[at[3]].size \in Nat
      BY <2>6
    <3>3. 0 + sz[1] <= m[at[1]].size
      BY <2>2, <2>7
    <3>4. x(at[2]) + sz[2] <= m[at[2]].size
      <4> DEFINE X == x(at[2])
                 W == m[at[2]].size
                 V == sz[2]
      <4>1. X \in Nat /\ W \in Nat /\ V \in Nat /\ V <= W - X
        BY <2>2, <2>7, <3>1, <3>2
      <4>2. X + V <= W
        <5> HIDE DEF X, W, V
        <5> QED
          BY <4>1
      <4> QED
        BY <4>2
    <3>5. (x(at[3]) + y(at[3])) + sz[3] <= m[at[3]].size /\ x(at[3]) + y(at[3]) \in Nat
      <4> DEFINE X == x(at[3])
                 Y == y(at[3])
                 W == m[at[3]].size
                 V == sz[3]
      <4>1. X \in Nat /\ Y \in Nat /\ W \in Nat /\ V \in Nat /\ V <= W - (X + Y)
        BY <2>2, <2>7, <3>1, <3>2
      <4>2. (X + Y) + V <= W /\ X + Y \in Nat
        <5> HIDE DEF X, Y, W, V
        <5> QED
          BY <4>1
      <4> QED
        BY <4>2
    <3> QED
      BY SMTT(30), <2>5, <3>1, <3>3, <3>4, <3>5
  <2>9. \A k, l \in {1, 2, 3} : k < l /\ at[k] = at[l] =>
           Before(sz, at, k, at[k]) + sz[k] <= Before(sz, at, l, at[l])
    <3>1. at[1] = at[2] => 0 + sz[1] <= x(at[2])
      BY <2>2, <2>4
    <3>2. at[1] = at[3] => 0 + sz[1] <= x(at[3]) + y(at[3])
      BY <2>2, <2>3, <2>4
    <3>3. at[2] = at[3] => x(at[2]) + sz[2] <= x(at[3]) + y(at[3])
      BY <2>2, <2>3, <2>4
    <3> QED
      BY <2>5, <3>1, <3>2, <3>3
  <2>10. ASSUME NEW i \in 1..Len(m)
         PROVE  /\ Taken(sz, at, i) \in Nat /\ Taken(sz, at, i) <= m[i].size
                /\ Taken(sz, at, i) > 0 => \E k \in {1, 2, 3} : at[k] = i
    <3>1. x(i) \in Nat /\ y(i) \in Nat /\ z(i) \in Nat /\ m[i].size \in Nat
      BY <2>3, <2>6
    <3>2. x(i) + y(i) + z(i) <= m[i].size
      <4>1. CASE at[3] = i
        <5>1. z(i) = sz[3] /\ sz[3] <= m[i].size - (x(i) + y(i))
          BY <2>4, <2>7, <4>1
        <5> QED
          BY <3>1, <5>1
      <4>2. CASE at[3] # i /\ at[2] = i
        <5>1. z(i) = 0 /\ y(i) = sz[2] /\ sz[2] <= m[i].size - x(i)
          BY <2>4, <2>7, <4>2
        <5> QED
          BY <3>1, <5>1
      <4>3. CASE at[3] # i /\ at[2] # i /\ at[1] = i
        <5>1. z(i) = 0 /\ y(i) = 0 /\ x(i) = sz[1] /\ sz[1] <= m[i].size
          BY <2>4, <2>7, <4>3
        <5> QED
          BY <3>1, <5>1
      <4>4. CASE at[3] # i /\ at[2] # i /\ at[1] # i
        <5>1. z(i) = 0 /\ y(i) = 0 /\ x(i) = 0
          BY <2>4, <4>4
        <5> QED
          BY <3>1, <5>1
      <4> QED
        BY <4>1, <4>2, <4>3, <4>4
    <3>3. (\A k \in {1, 2, 3} : at[k] # i) => x(i) = 0 /\ y(i) = 0 /\ z(i) = 0
      BY <2>4
    <3>4. x(i) + y(i) + z(i) \in Nat
      BY <3>1
    <3>5. (\A k \in {1, 2, 3} : at[k] # i) => x(i) + y(i) + z(i) = 0
      BY <3>3
    <3> QED
      BY <2>5, <3>2, <3>4, <3>5
  <2>11. ASSUME NEW i \in 1..Len(m), NEW v \in Nat
         PROVE  v < Taken(sz, at, i) <=>
                  \E k \in {1, 2, 3} : /\ at[k] = i /\ Before(sz, at, k, i) <= v
                                       /\ v < Before(sz, at, k, i) + sz[k]
    <3>1. x(i) \in Nat /\ y(i) \in Nat /\ z(i) \in Nat
      BY <2>3
    <3>2. v < x(i) + y(i) + z(i) <=> \/ 0 <= v /\ v < 0 + x(i)
                                     \/ x(i) <= v /\ v < x(i) + y(i)
                                     \/ x(i) + y(i) <= v /\ v < (x(i) + y(i)) + z(i)
      BY <3>1
    <3>3. (0 <= v /\ v < 0 + x(i)) <=> (at[1] = i /\ 0 <= v /\ v < 0 + sz[1])
      BY <2>4, <2>2
    <3> DEFINE p == x(i)
               q == y(i)
               d == z(i)
               n2 == sz[2]
               n3 == sz[3]
    <3>6. /\ p \in Nat /\ q \in Nat /\ d \in Nat /\ n2 \in Nat /\ n3 \in Nat
          /\ q = (IF at[2] = i THEN n2 ELSE 0) /\ d = (IF at[3] = i THEN n3 ELSE 0)
      BY <2>2, <2>4, <3>1
    <3> HIDE DEF p, q, d, n2, n3
    <3>7. (p <= v /\ v < p + q) <=> (at[2] = i /\ p <= v /\ v < p + n2)
      BY <3>6
    <3>8. (p + q <= v /\ v < (p + q) + d) <=> (at[3] = i /\ p + q <= v /\ v < (p + q) + n3)
      BY <3>6
    <3>4. (x(i) <= v /\ v < x(i) + y(i)) <=> (at[2] = i /\ x(i) <= v /\ v < x(i) + sz[2])
      BY <3>7 DEF p, q, n2
    <3>5. (x(i) + y(i) <= v /\ v < (x(i) + y(i)) + z(i))
             <=> (at[3] = i /\ x(i) + y(i) <= v /\ v < (x(i) + y(i)) + sz[3])
      BY <3>8 DEF p, q, d, n3
    <3> QED
      BY <2>5, <3>2, <3>3, <3>4, <3>5
  <2> DEFINE D == {1, 2, 3}
  <2>12. D = 1..Len(sz)
    BY <2>1
  <2>13. \A k \in D : at[k] \in 1..Len(m) /\ sz[k] \in Nat
    BY <1>2, <2>12
  <2>14. \A k \in D : /\ Before(sz, at, k, at[k]) \in Nat
                      /\ Before(sz, at, k, at[k]) + sz[k] <= m[at[k]].size
    BY <2>8
  <2>15. \A k, l \in D : k < l /\ at[k] = at[l] =>
            Before(sz, at, k, at[k]) + sz[k] <= Before(sz, at, l, at[l])
    BY <2>9
  <2>16. /\ \A i \in 1..Len(m) : Taken(sz, at, i) \in Nat /\ Taken(sz, at, i) <= m[i].size
         /\ \A i \in 1..Len(m) : Taken(sz, at, i) > 0 => \E k \in D : at[k] = i
    BY <2>10
  <2>17. \A i \in 1..Len(m), v \in Nat :
            v < Taken(sz, at, i) <=> \E k \in D : /\ at[k] = i /\ Before(sz, at, k, i) <= v
                                                 /\ v < Before(sz, at, k, i) + sz[k]
    BY <2>11
  <2> HIDE DEF D
  <2> QED
    BY <2>12, <2>13, <2>14, <2>15, <2>16, <2>17
<1> QED
  BY <1>4, <1>5 DEF Sizes

(* What is handed out is what the entries lose. *)
LEMMA CarveUnits ==
    ASSUME NEW m \in Seq(Segment), Tidy(m), NEW sz, Sizes(sz), NEW at \in Placements(m, sz)
    PROVE  /\ Ordered(Carve(m, sz, at))
           /\ FewEmpty(Carve(m, sz, at))
           /\ FreeUnits(Carve(m, sz, at)) = FreeUnits(m) \ UnitsOf(Pieces(m, sz, at))
           /\ UnitsOf(Pieces(m, sz, at)) \subseteq FreeUnits(m)
           /\ \A e \in Pieces(m, sz, at) : e \in Segment /\ e.size > 0 /\ e.addr > 0
           /\ \A e, f \in Pieces(m, sz, at) : e # f => Units(e) \cap Units(f) = {}
<1> DEFINE c == Carve(m, sz, at)
           P == Pieces(m, sz, at)
           n(i) == Taken(sz, at, i)
           o(k) == Before(sz, at, k, at[k])
           K == {k \in 1..Len(sz) : sz[k] > 0}
           piece(k) == Seg(sz[k], m[at[k]].addr + o(k))
<1>1. /\ Len(m) \in Nat /\ DOMAIN m = 1..Len(m) /\ DOMAIN sz = 1..Len(sz)
      /\ \A j \in 1..Len(m) : m[j].addr \in Nat /\ m[j].size \in Nat
      /\ \A j \in 1..Len(m) : m[j].size > 0 /\ m[j].addr > 0
      /\ \A j, k \in 1..Len(m) : j < k => m[j].addr + m[j].size < m[k].addr
  BY LenProperties, UnitsFacts, ElementOfSeq, TidyOrdered DEF Ordered, Sizes
<1>2. /\ \A k \in 1..Len(sz) : /\ at[k] \in 1..Len(m) /\ sz[k] \in Nat
                               /\ o(k) \in Nat /\ o(k) + sz[k] <= m[at[k]].size
      /\ \A k, l \in 1..Len(sz) : k < l /\ at[k] = at[l] => o(k) + sz[k] <= o(l)
      /\ \A i \in 1..Len(m) : n(i) \in Nat /\ n(i) <= m[i].size
      /\ \A i \in 1..Len(m) : n(i) > 0 => \E k \in 1..Len(sz) : at[k] = i
      /\ \A i \in 1..Len(m), v \in Nat :
            v < n(i) <=> \E k \in 1..Len(sz) : at[k] = i /\ o(k) <= v /\ v < o(k) + sz[k]
  <2>1. \A k \in 1..Len(sz) : /\ at[k] \in 1..Len(m) /\ sz[k] \in Nat
                              /\ o(k) \in Nat /\ o(k) + sz[k] <= m[at[k]].size
    BY BeforeFacts
  <2>2. \A k, l \in 1..Len(sz) : k < l /\ at[k] = at[l] => o(k) + sz[k] <= o(l)
    BY BeforeFacts
  <2>3. \A i \in 1..Len(m) : n(i) \in Nat /\ n(i) <= m[i].size
    BY BeforeFacts
  <2>4. \A i \in 1..Len(m) : n(i) > 0 => \E k \in 1..Len(sz) : at[k] = i
    BY BeforeFacts
  <2>5. ASSUME NEW i \in 1..Len(m), NEW v \in Nat
        PROVE  v < n(i) <=> \E k \in 1..Len(sz) : at[k] = i /\ o(k) <= v /\ v < o(k) + sz[k]
    <3>1. v < n(i) <=> \E k \in 1..Len(sz) : /\ at[k] = i /\ Before(sz, at, k, i) <= v
                                            /\ v < Before(sz, at, k, i) + sz[k]
      BY BeforeFacts
    <3> QED
      BY <3>1
  <2> HIDE DEF n, o
  <2> QED
    BY <2>1, <2>2, <2>3, <2>4, <2>5
<1>3. c = [i \in 1..Len(m) |-> Seg(m[i].size - n(i), m[i].addr + n(i))]
  BY <1>1 DEF Carve, Taken
<1>4. P = {piece(k) : k \in K}
  BY <1>1 DEF Pieces
<1> HIDE DEF c, P, n, o
<1>5. \A i \in 1..Len(m) : m[i].size - n(i) \in Nat /\ m[i].addr + n(i) \in Nat
  BY <1>1, <1>2
<1>6. /\ c \in Seq(Segment) /\ Len(c) = Len(m)
      /\ \A i \in 1..Len(m) : /\ c[i].size = m[i].size - n(i)
                              /\ c[i].addr = m[i].addr + n(i)
  <2>1. \A i \in 1..Len(m) : c[i] \in Segment /\ c[i].size = m[i].size - n(i) /\ c[i].addr = m[i].addr + n(i)
    BY <1>3, <1>5, SegFacts
  <2>2. c \in [1..Len(m) -> Segment]
    BY <1>3, <2>1
  <2>3. c \in Seq(Segment) /\ Len(c) = Len(m)
    BY <1>1, <2>2, SeqDef, LenProperties
  <2> QED
    BY <2>1, <2>3
<1>7. Ordered(c)
  <2>1. \A i \in 1..Len(c) : c[i].addr > 0
    BY <1>1, <1>2, <1>6
  <2>2. ASSUME NEW i \in 1..Len(c), NEW j \in 1..Len(c), i < j PROVE c[i].addr + c[i].size < c[j].addr
    <3>1. c[i].addr + c[i].size = m[i].addr + m[i].size
      BY <1>1, <1>2, <1>6
    <3>2. m[i].addr + m[i].size < m[j].addr /\ m[j].addr <= c[j].addr
      BY <1>1, <1>2, <1>6, <2>2
    <3>3. m[i].addr \in Nat /\ m[i].size \in Nat /\ m[j].addr \in Nat /\ c[j].addr \in Nat
      BY <1>1, <1>5, <1>6
    <3> QED
      BY SMTT(30), <3>1, <3>2, <3>3
  <2> QED
    BY <1>6, <2>1, <2>2 DEF Ordered
<1>8. FewEmpty(c)
  <2>1. \A i \in 1..Len(c) : c[i].size = 0 => \E k \in 1..Len(sz) : at[k] = i
    BY <1>1, <1>2, <1>6
  <2>2. \A a \in Empties(c) : \E k \in 1..Len(sz) : a = c[at[k]].addr
    BY <2>1 DEF Empties
  <2>3. 1..Len(sz) \subseteq {1, 2, 3}
    <3>1. CASE Len(sz) = 1
      BY <3>1
    <3>2. CASE Len(sz) = 3
      BY <3>2
    <3> QED
      BY <3>1, <3>2 DEF Sizes
  <2>4. Empties(c) \subseteq {c[at[1]].addr, c[at[2]].addr, c[at[3]].addr}
    BY <2>2, <2>3
  <2> QED
    BY <2>4 DEF FewEmpty
<1>9. \A k \in K : /\ piece(k) \in Segment /\ piece(k).size = sz[k]
                   /\ piece(k).addr = m[at[k]].addr + o(k) /\ piece(k).addr \in Nat
                   /\ sz[k] > 0 /\ piece(k).addr > 0
  <2>1. \A k \in K : m[at[k]].addr + o(k) \in Nat /\ sz[k] \in Nat /\ sz[k] > 0 /\ m[at[k]].addr + o(k) > 0
    BY SMTT(30), <1>1, <1>2
  <2> QED
    BY <2>1, SegFacts
<1>10. \A e \in P : e \in Segment /\ e.size > 0 /\ e.addr > 0
  BY <1>4, <1>9
<1> DEFINE In(k, u) == m[at[k]].addr + o(k) <= u /\ u < m[at[k]].addr + o(k) + sz[k]
<1>11. \A k \in K : Units(piece(k)) \subseteq Nat /\ \A u \in Nat : u \in Units(piece(k)) <=> In(k, u)
  BY <1>9, UnitsFacts
<1> HIDE DEF piece
<1>12. ASSUME NEW k \in K, NEW l \in K, k < l PROVE Units(piece(k)) \cap Units(piece(l)) = {}
  <2> SUFFICES ASSUME NEW u \in Nat, In(k, u), In(l, u) PROVE FALSE
    BY <1>11
  <2> DEFINE a == m[at[k]].addr
             b == m[at[l]].addr
             s == m[at[k]].size
             r == m[at[l]].size
             x == o(k)
             y == o(l)
             d == sz[k]
             w == sz[l]
  <2>1. /\ x \in Nat /\ y \in Nat /\ d \in Nat /\ w \in Nat
        /\ a \in Nat /\ b \in Nat /\ s \in Nat /\ r \in Nat
        /\ x + d <= s /\ y + w <= r
        /\ a + x <= u /\ u < a + x + d /\ b + y <= u /\ u < b + y + w
    BY <1>1, <1>2
  <2>2. at[k] \in Nat /\ at[l] \in Nat
    <3>1. at[k] \in 1..Len(m) /\ at[l] \in 1..Len(m)
      BY <1>2
    <3> QED
      BY <1>1, <3>1
  <2>3. at[k] = at[l] => a = b /\ x + d <= y
    BY <1>2, <1>12
  <2>4. at[k] < at[l] => a + s < b
    BY <1>1, <1>2
  <2>5. at[l] < at[k] => b + r < a
    BY <1>1, <1>2
  <2> HIDE DEF a, b, s, r, x, y, d, w
  <2>6. at[k] # at[l]
    BY <2>1, <2>3
  <2>7. ~(at[k] < at[l])
    BY <2>1, <2>4
  <2>8. ~(at[l] < at[k])
    BY <2>1, <2>5
  <2> QED
    BY <2>2, <2>6, <2>7, <2>8
<1>13. \A e, f \in P : e # f => Units(e) \cap Units(f) = {}
  <2> SUFFICES ASSUME NEW k \in K, NEW l \in K, piece(k) # piece(l)
               PROVE  Units(piece(k)) \cap Units(piece(l)) = {}
    BY <1>4
  <2>1. k \in Nat /\ l \in Nat /\ k # l
    OBVIOUS
  <2>2. k < l \/ l < k
    BY <2>1
  <2> QED
    BY <1>12, <2>2
<1>14. \A u \in Nat : u \in UnitsOf(P) <=> \E k \in K : In(k, u)
  BY <1>4, <1>11 DEF UnitsOf
<1>15. UnitsOf(P) \subseteq FreeUnits(m)
  <2> SUFFICES ASSUME NEW k \in K, NEW u \in Nat, In(k, u) PROVE u \in FreeUnits(m)
    BY <1>4, <1>11 DEF UnitsOf
  <2>1. /\ o(k) \in Nat /\ sz[k] \in Nat /\ at[k] \in 1..Len(m)
        /\ m[at[k]].addr \in Nat /\ m[at[k]].size \in Nat
        /\ o(k) + sz[k] <= m[at[k]].size
    BY <1>1, <1>2
  <2>2. m[at[k]].addr <= u /\ u < m[at[k]].addr + m[at[k]].size
    <3> DEFINE a == m[at[k]].addr
               s == m[at[k]].size
               x == o(k)
               d == sz[k]
    <3>1. /\ x \in Nat /\ d \in Nat /\ a \in Nat /\ s \in Nat /\ x + d <= s
          /\ a + x <= u /\ u < a + x + d
      BY <2>1
    <3>2. a <= u /\ u < a + s
      <4> HIDE DEF a, s, x, d
      <4> QED
        BY <3>1
    <3> QED
      BY <3>2
  <2> QED
    BY <2>1, <2>2, FreeUnitsFacts
<1>16. FreeUnits(c) = FreeUnits(m) \ UnitsOf(P)
  <2> SUFFICES ASSUME NEW u \in Nat PROVE u \in FreeUnits(c) <=> u \in FreeUnits(m) /\ u \notin UnitsOf(P)
    BY <1>6, FreeUnitsFacts
  <2>1. ASSUME u \in FreeUnits(c) PROVE u \in FreeUnits(m) /\ u \notin UnitsOf(P)
    <3>1. PICK i \in 1..Len(m) : c[i].addr <= u /\ u < c[i].addr + c[i].size
      BY <1>6, <2>1, FreeUnitsFacts
    <3>2. m[i].addr + n(i) <= u /\ u < m[i].addr + m[i].size
          /\ m[i].addr \in Nat /\ m[i].size \in Nat /\ n(i) \in Nat
      BY SMTT(30), <1>1, <1>2, <1>6, <3>1
    <3>3. u \in FreeUnits(m)
      <4>1. m[i].addr <= u
        BY <3>2
      <4> QED
        BY <3>2, <4>1, FreeUnitsFacts
    <3>4. ASSUME NEW k \in K, In(k, u) PROVE FALSE
      <4>1. /\ o(k) \in Nat /\ sz[k] \in Nat /\ at[k] \in 1..Len(m)
            /\ m[at[k]].addr \in Nat /\ m[at[k]].size \in Nat
            /\ o(k) + sz[k] <= m[at[k]].size
        BY <1>1, <1>2
      <4> DEFINE a == m[at[k]].addr
                 s == m[at[k]].size
                 x == o(k)
                 d == sz[k]
                 b == m[i].addr
                 r == m[i].size
                 y == n(i)
      <4>2. /\ x \in Nat /\ d \in Nat /\ a \in Nat /\ s \in Nat /\ x + d <= s
            /\ a + x <= u /\ u < a + x + d
            /\ b \in Nat /\ r \in Nat /\ y \in Nat /\ b + y <= u /\ u < b + r
        BY <3>2, <3>4, <4>1
      <4>3. at[k] = i => a = b /\ (u - b \in Nat /\ x <= u - b /\ u - b < x + d => u - b < y)
        BY <1>2, <4>1
      <4>4. at[k] < i => a + s < b
        BY <1>1, <4>1
      <4>5. i < at[k] => b + r < a
        BY <1>1, <4>1
      <4>6. at[k] \in Nat /\ i \in Nat
        BY <4>1
      <4> HIDE DEF a, s, x, d, b, r, y
      <4> QED
        BY <4>2, <4>3, <4>4, <4>5, <4>6
    <3> QED
      BY <1>14, <3>3, <3>4
  <2>2. ASSUME u \in FreeUnits(m), u \notin UnitsOf(P) PROVE u \in FreeUnits(c)
    <3>1. PICK i \in 1..Len(m) : m[i].addr <= u /\ u < m[i].addr + m[i].size
      BY <2>2, FreeUnitsFacts
    <3>2. /\ m[i].addr \in Nat /\ m[i].size \in Nat /\ n(i) \in Nat /\ n(i) <= m[i].size
          /\ u - m[i].addr \in Nat
      BY <1>1, <1>2, <3>1
    <3>3. ~(u - m[i].addr < n(i))
      <4> SUFFICES ASSUME u - m[i].addr < n(i) PROVE FALSE
        OBVIOUS
      <4>1. PICK k \in 1..Len(sz) : at[k] = i /\ o(k) <= u - m[i].addr /\ u - m[i].addr < o(k) + sz[k]
        BY <1>2, <3>2
      <4>2. o(k) \in Nat /\ sz[k] \in Nat
        BY <1>2
      <4> DEFINE a == m[i].addr
                 x == o(k)
                 d == sz[k]
      <4>4. /\ a \in Nat /\ x \in Nat /\ d \in Nat /\ u - a \in Nat
            /\ x <= u - a /\ u - a < x + d
        BY <3>2, <4>1, <4>2
      <4> HIDE DEF a, x, d
      <4>5. a + x <= u /\ u < a + x + d /\ d > 0
        BY <4>4
      <4>3. k \in K /\ In(k, u)
        BY <4>1, <4>5 DEF a, x, d
      <4> QED
        BY <1>14, <2>2, <4>3
    <3> DEFINE a == m[i].addr
               s == m[i].size
               y == n(i)
    <3>5. /\ a \in Nat /\ s \in Nat /\ y \in Nat /\ y <= s /\ ~(u - a < y)
          /\ a <= u /\ u < a + s
      BY <3>1, <3>2, <3>3
    <3>6. c[i].size = s - y /\ c[i].addr = a + y
      BY <1>6
    <3> HIDE DEF a, s, y
    <3>7. a + y <= u /\ u < (a + y) + (s - y)
      BY <3>5
    <3>4. c[i].addr <= u /\ u < c[i].addr + c[i].size
      BY <3>6, <3>7
    <3> QED
      BY <1>6, <3>4, FreeUnitsFacts
  <2> QED
    BY <2>1, <2>2
<1> QED
  BY <1>7, <1>8, <1>10, <1>13, <1>15, <1>16 DEF c, P

-----------------------------------------------------------------------------
(* The account *)

(* Every segment in use, by who uses it. *)
TokensOf(who, S) == {<<who[1], who[2], e>> : e \in S}

HeldTokens(h) == UNION {TokensOf(<<"held", p>>, h[p]) : p \in Proc}

AllTokens(h, c, l) == HeldTokens(h) \cup TokensOf(<<"cache", 0>>, c) \cup TokensOf(<<"lost", 0>>, l)

Tokens == AllTokens(held, cache, lost)

Used(T) == UNION {Units(t[3]) : t \in T}

Real(e) == e \in Segment /\ e.size > 0 /\ e.addr > 0

Separate(T) == \A s, t \in T : s # t => Units(s[3]) \cap Units(t[3]) = {}

(* T accounts for all that is not in the free units F, once. *)
Sound(T, F) ==
    /\ \A t \in T : Real(t[3])
    /\ Separate(T)
    /\ Used(T) \cap F = {}
    /\ Used(T) \cup F = 1..Size

IInv == TypeOK /\ MapTidy /\ Sound(Tokens, FreeUnits(map))

LEMMA TokenSets ==
    ASSUME NEW h, NEW c, NEW l, NEW t
    PROVE  t \in AllTokens(h, c, l) <=> \/ \E p \in Proc : \E e \in h[p] : t = <<"held", p, e>>
                                        \/ \E e \in c : t = <<"cache", 0, e>>
                                        \/ \E e \in l : t = <<"lost", 0, e>>
<1>1. \A p \in Proc : t \in TokensOf(<<"held", p>>, h[p]) <=> \E e \in h[p] : t = <<"held", p, e>>
  BY DEF TokensOf
<1>2. t \in TokensOf(<<"cache", 0>>, c) <=> \E e \in c : t = <<"cache", 0, e>>
  BY DEF TokensOf
<1>3. t \in TokensOf(<<"lost", 0>>, l) <=> \E e \in l : t = <<"lost", 0, e>>
  BY DEF TokensOf
<1>4. t \in HeldTokens(h) <=> \E p \in Proc : t \in TokensOf(<<"held", p>>, h[p])
  BY DEF HeldTokens
<1>5. t \in AllTokens(h, c, l) <=> \/ t \in HeldTokens(h)
                                   \/ t \in TokensOf(<<"cache", 0>>, c)
                                   \/ t \in TokensOf(<<"lost", 0>>, l)
  BY DEF AllTokens
<1>6. t \in HeldTokens(h) <=> \E p \in Proc : \E e \in h[p] : t = <<"held", p, e>>
  BY <1>1, <1>4
<1> QED
  BY <1>2, <1>3, <1>5, <1>6

(* What the tokens of this state and of the next one are. *)
LEMMA TokensNext ==
    /\ \A t : t \in Tokens' <=> \/ \E p \in Proc : \E e \in held'[p] : t = <<"held", p, e>>
                                \/ \E e \in cache' : t = <<"cache", 0, e>>
                                \/ \E e \in lost' : t = <<"lost", 0, e>>
    /\ \A t : t \in Tokens <=> \/ \E p \in Proc : \E e \in held[p] : t = <<"held", p, e>>
                               \/ \E e \in cache : t = <<"cache", 0, e>>
                               \/ \E e \in lost : t = <<"lost", 0, e>>
<1>1. Tokens = AllTokens(held, cache, lost) /\ Tokens' = AllTokens(held', cache', lost')
  BY DEF Tokens
<1> QED
  BY <1>1, TokenSets

LEMMA TokenKinds ==
    /\ \A p \in Proc : \A e \in held[p] : <<"held", p, e>> \in Tokens
    /\ \A e \in cache : <<"cache", 0, e>> \in Tokens
    /\ \A e \in lost : <<"lost", 0, e>> \in Tokens
    /\ \A t \in Tokens : \/ \E p \in Proc : \E e \in held[p] : t = <<"held", p, e>>
                         \/ \E e \in cache : t = <<"cache", 0, e>>
                         \/ \E e \in lost : t = <<"lost", 0, e>>
BY TokensNext

LEMMA RealUnits ==
    ASSUME NEW e, Real(e)
    PROVE  e.addr \in Units(e)
<1>1. e \in Segment /\ e.addr \in Nat /\ e.size \in Nat /\ e.size > 0
  BY UnitsFacts DEF Real
<1>2. e.addr <= e.addr /\ e.addr < e.addr + e.size
  BY <1>1
<1> QED
  BY <1>1, <1>2, UnitsFacts

(* Q goes out of the account and N comes in.                               *)
LEMMA SoundStep ==
    ASSUME NEW T, NEW F, NEW Q, NEW N, NEW G, Sound(T, F), Q \subseteq T,
           \A t \in N : Real(t[3]), Separate(N),
           Used(N) \cup G = Used(Q) \cup F, Used(N) \cap G = {}
    PROVE  Sound((T \ Q) \cup N, G)
<1> DEFINE R == T \ Q
<1>1. Used(R) \cap (Used(Q) \cup F) = {}
  BY DEF Sound, Separate, Used
<1>2. Used(R) \cup Used(Q) = Used(T)
  BY DEF Used
<1>3. Used(R \cup N) = Used(R) \cup Used(N)
  BY DEF Used
<1>4. Separate(R \cup N)
  <2> SUFFICES ASSUME NEW s \in R \cup N, NEW t \in R \cup N, s # t
               PROVE  Units(s[3]) \cap Units(t[3]) = {}
    BY DEF Separate
  <2>1. \A x \in R : Units(x[3]) \subseteq Used(R)
    BY DEF Used
  <2>2. \A x \in N : Units(x[3]) \subseteq Used(N)
    BY DEF Used
  <2>3. Used(R) \cap Used(N) = {}
    BY <1>1
  <2>4. CASE s \in R /\ t \in R
    BY <2>4 DEF Sound, Separate
  <2>5. CASE s \in N /\ t \in N
    BY <2>5 DEF Separate
  <2>6. CASE (s \in R /\ t \in N) \/ (s \in N /\ t \in R)
    BY <2>1, <2>2, <2>3, <2>6
  <2> QED
    BY <2>4, <2>5, <2>6
<1>5. \A t \in R \cup N : Real(t[3])
  BY DEF Sound
<1>6. Used(R \cup N) \cap G = {} /\ Used(R \cup N) \cup G = 1..Size
  BY <1>1, <1>2, <1>3 DEF Sound
<1> QED
  BY <1>4, <1>5, <1>6 DEF Sound

LEMMA SoundConserved == IInv => Conserved
<1> SUFFICES ASSUME IInv PROVE Conserved
  OBVIOUS
<1>1. \A e \in Segments : \E t \in Tokens : t[3] = e
  <2>1. \A e \in Segments : e \in cache \/ e \in lost \/ \E p \in Proc : e \in held[p]
    BY DEF Segments
  <2>2. \A e \in cache : \E t \in Tokens : t[3] = e
    <3>1. \A e : <<"cache", 0, e>>[3] = e
      OBVIOUS
    <3> QED
      BY <3>1, TokenKinds
  <2>3. \A e \in lost : \E t \in Tokens : t[3] = e
    <3>1. \A e : <<"lost", 0, e>>[3] = e
      OBVIOUS
    <3> QED
      BY <3>1, TokenKinds
  <2>4. \A p \in Proc : \A e \in held[p] : \E t \in Tokens : t[3] = e
    <3>1. \A p, e : <<"held", p, e>>[3] = e
      OBVIOUS
    <3> QED
      BY <3>1, TokenKinds
  <2> QED
    BY <2>1, <2>2, <2>3, <2>4
<1>2. \A t \in Tokens : t[3] \in Segments
  <2>1. \A p \in Proc : \A e \in held[p] : e \in Segments
    BY DEF Segments
  <2>2. \A e \in cache \cup lost : e \in Segments
    BY DEF Segments
  <2> QED
    BY <2>1, <2>2, TokenKinds
<1>3. UnitsOf(Segments) = Used(Tokens)
  BY <1>1, <1>2 DEF UnitsOf, Used
<1>4. \A s, t \in Tokens : s # t => s[3] # t[3]
  <2> SUFFICES ASSUME NEW s \in Tokens, NEW t \in Tokens, s # t, s[3] = t[3] PROVE FALSE
    OBVIOUS
  <2>1. Real(s[3]) /\ Units(s[3]) \cap Units(t[3]) = {}
    BY DEF IInv, Sound, Separate
  <2> QED
    BY <2>1, RealUnits
<1>5. FreeUnits(map) \cup UnitsOf(Segments) = 1..Size
  BY <1>3 DEF IInv, Sound
<1>6. \A e \in Segments : Units(e) \cap FreeUnits(map) = {}
  <2>1. \A e \in Segments : Units(e) \subseteq Used(Tokens)
    BY <1>3 DEF UnitsOf
  <2> QED
    BY <2>1 DEF IInv, Sound
<1>7. \A e, f \in Segments : e # f => Units(e) \cap Units(f) = {}
  <2> SUFFICES ASSUME NEW e \in Segments, NEW f \in Segments, e # f PROVE Units(e) \cap Units(f) = {}
    OBVIOUS
  <2>1. PICK s \in Tokens : s[3] = e
    BY <1>1
  <2>2. PICK t \in Tokens : t[3] = f
    BY <1>1
  <2> QED
    BY <2>1, <2>2 DEF IInv, Sound, Separate
<1>8. \A p, q \in Proc : p # q => held[p] \cap held[q] = {}
  <2> SUFFICES ASSUME NEW p \in Proc, NEW q \in Proc, p # q, NEW e \in held[p], e \in held[q] PROVE FALSE
    OBVIOUS
  <2>1. <<"held", p, e>> \in Tokens /\ <<"held", q, e>> \in Tokens /\ <<"held", p, e>> # <<"held", q, e>>
    BY TokenKinds
  <2> QED
    BY <1>4, <2>1
<1>9. \A p \in Proc : held[p] \cap (cache \cup lost) = {}
  <2>1. ASSUME NEW p \in Proc, NEW e \in held[p], e \in cache PROVE FALSE
    <3>1. <<"held", p, e>> \in Tokens /\ <<"cache", 0, e>> \in Tokens /\ <<"held", p, e>> # <<"cache", 0, e>>
      BY <2>1, TokenKinds
    <3> QED
      BY <1>4, <3>1
  <2>2. ASSUME NEW p \in Proc, NEW e \in held[p], e \in lost PROVE FALSE
    <3>1. <<"held", p, e>> \in Tokens /\ <<"lost", 0, e>> \in Tokens /\ <<"held", p, e>> # <<"lost", 0, e>>
      BY <2>2, TokenKinds
    <3> QED
      BY <1>4, <3>1
  <2> QED
    BY <2>1, <2>2
<1>10. cache \cap lost = {}
  <2> SUFFICES ASSUME NEW e \in cache, e \in lost PROVE FALSE
    OBVIOUS
  <2>1. <<"cache", 0, e>> \in Tokens /\ <<"lost", 0, e>> \in Tokens /\ <<"cache", 0, e>> # <<"lost", 0, e>>
    BY TokenKinds
  <2> QED
    BY <1>4, <2>1
<1> QED
  BY <1>5, <1>6, <1>7, <1>8, <1>9, <1>10 DEF Conserved

-----------------------------------------------------------------------------
(* The steps *)

LEMMA MfreeStep ==
    ASSUME IInv, NEW e, Real(e), Units(e) \cap FreeUnits(map) = {}, Mfree(e)
    PROVE  /\ map' \in Seq(Segment) /\ MapTidy'
           /\ \/ lost' = lost /\ FreeUnits(map') = FreeUnits(map) \cup Units(e)
              \/ lost' = lost \cup {e} /\ map' = map
<1>1. map \in Seq(Segment) /\ Tidy(map) /\ e \in Segment /\ e.size \in Nat /\ e.size > 0 /\ e.addr > 0
  BY UnitsFacts DEF IInv, TypeOK, MapTidy, Real
<1>2. (map' = Insert(map, e) /\ lost' = lost) \/ (lost' = lost \cup {e} /\ map' = map)
  BY <1>1 DEF Mfree
<1>3. CASE map' = Insert(map, e) /\ lost' = lost
  BY <1>1, <1>3, InsertTidy DEF MapTidy
<1>4. CASE lost' = lost \cup {e} /\ map' = map
  BY <1>1, <1>4 DEF MapTidy
<1> QED
  BY <1>2, <1>3, <1>4

(* e, which the tokens Q and only they stand for, is put back: all of it,  *)
(* or what is not in the tokens N.                                         *)
LEMMA PutBackStep ==
    ASSUME IInv, NEW Q, Q \subseteq Tokens, NEW N, \A t \in N : Real(t[3]), Separate(N),
           NEW e, Real(e), Used(Q) = Used(N) \cup Units(e), Used(N) \cap Units(e) = {},
           NEW l, l[3] = e, Mfree(e),
           lost' = lost => Tokens' = (Tokens \ Q) \cup N,
           lost' = lost \cup {e} => Tokens' = (Tokens \ Q) \cup (N \cup {l})
    PROVE  map' \in Seq(Segment) /\ MapTidy' /\ Sound(Tokens, FreeUnits(map))'
<1>1. Used(Q) \subseteq Used(Tokens)
  BY DEF Used
<1>2. Used(Tokens) \cap FreeUnits(map) = {}
  BY DEF IInv, Sound
<1>3. Units(e) \cap FreeUnits(map) = {} /\ Used(N) \cap FreeUnits(map) = {}
  BY <1>1, <1>2
<1>4. /\ map' \in Seq(Segment) /\ MapTidy'
      /\ \/ lost' = lost /\ FreeUnits(map') = FreeUnits(map) \cup Units(e)
         \/ lost' = lost \cup {e} /\ map' = map
  BY <1>3, MfreeStep
<1>5. CASE lost' = lost /\ FreeUnits(map') = FreeUnits(map) \cup Units(e)
  <2>1. Tokens' = (Tokens \ Q) \cup N
    BY <1>5
  <2>2. Used(N) \cup FreeUnits(map') = Used(Q) \cup FreeUnits(map) /\ Used(N) \cap FreeUnits(map') = {}
    BY <1>3, <1>5
  <2>3. Sound((Tokens \ Q) \cup N, FreeUnits(map'))
    BY <2>2, SoundStep DEF IInv
  <2> QED
    BY <1>4, <2>1, <2>3 DEF Sound, Separate, Used, Real
<1>6. CASE lost' = lost \cup {e} /\ map' = map
  <2>1. Tokens' = (Tokens \ Q) \cup (N \cup {l})
    BY <1>6
  <2>2. Used(N \cup {l}) = Used(N) \cup Units(e)
    BY DEF Used
  <2>3. Used(N \cup {l}) \cup FreeUnits(map') = Used(Q) \cup FreeUnits(map)
        /\ Used(N \cup {l}) \cap FreeUnits(map') = {}
    BY <1>3, <1>6, <2>2
  <2>4. Separate(N \cup {l}) /\ \A t \in N \cup {l} : Real(t[3])
    <3>1. \A t \in N : Units(t[3]) \cap Units(e) = {}
      BY DEF Used
    <3> QED
      BY <3>1 DEF Separate
  <2>5. Sound((Tokens \ Q) \cup (N \cup {l}), FreeUnits(map'))
    BY <2>3, <2>4, SoundStep DEF IInv
  <2> QED
    BY <1>4, <2>1, <2>5 DEF Sound, Separate, Used, Real
<1> QED
  BY <1>4, <1>5, <1>6

LEMMA RealSegments ==
    ASSUME IInv
    PROVE  /\ \A p \in Proc : \A e \in held[p] : Real(e)
           /\ \A e \in cache : Real(e)
<1>1. \A p, e : <<"held", p, e>>[3] = e
  OBVIOUS
<1>2. \A e : <<"cache", 0, e>>[3] = e
  OBVIOUS
<1> QED
  BY <1>1, <1>2, TokenKinds DEF IInv, Sound

LEMMA TakeInv ==
    ASSUME IInv, NEW p \in Proc, NEW sz, Sizes(sz), Take(p, sz), UNCHANGED <<cache, lost>>
    PROVE  /\ map' \in Seq(Segment) /\ held' \in [Proc -> SUBSET Segment] /\ MapTidy'
           /\ Sound(Tokens, FreeUnits(map))'
<1>1. PICK at \in Placements(map, sz) :
         /\ map' = SqueezeAll(Carve(map, sz, at))
         /\ held' = [held EXCEPT ![p] = held[p] \cup Pieces(map, sz, at)]
  BY DEF Take
<1>2. map \in Seq(Segment) /\ Tidy(map) /\ held \in [Proc -> SUBSET Segment]
  BY DEF IInv, TypeOK, MapTidy
<1> DEFINE c == Carve(map, sz, at)
           P == Pieces(map, sz, at)
           N == {<<"held", p, e>> : e \in P}
<1>3. /\ Ordered(c)
      /\ FewEmpty(c)
      /\ FreeUnits(c) = FreeUnits(map) \ UnitsOf(P)
      /\ UnitsOf(P) \subseteq FreeUnits(map)
      /\ \A e \in P : e \in Segment /\ e.size > 0 /\ e.addr > 0
      /\ \A e, f \in P : e # f => Units(e) \cap Units(f) = {}
  BY <1>2, CarveUnits
<1>4. held' = [held EXCEPT ![p] = held[p] \cup P] /\ map' = SqueezeAll(c)
  BY <1>1
<1> HIDE DEF c, P
<1>5. map' \in Seq(Segment) /\ Tidy(map') /\ FreeUnits(map') = FreeUnits(map) \ UnitsOf(P)
  BY <1>3, <1>4, SqueezeAllOrdered DEF FewEmpty
<1>6. held' \in [Proc -> SUBSET Segment]
  BY <1>2, <1>3, <1>4
<1>7. Tokens' = (Tokens \ {}) \cup N
  <2>1. held'[p] = held[p] \cup P /\ \A q \in Proc : q # p => held'[q] = held[q]
    BY <1>2, <1>4
  <2>2. \A t : t \in N <=> \E e \in P : t = <<"held", p, e>>
    OBVIOUS
  <2> HIDE DEF N
  <2>3. ASSUME NEW t PROVE t \in Tokens' <=> t \in Tokens \cup N
    BY <2>1, <2>2, TokensNext
  <2> QED
    BY <2>3
<1>8. Used(N) = UnitsOf(P)
  <2>1. \A e : <<"held", p, e>>[3] = e
    OBVIOUS
  <2> QED
    BY <2>1 DEF Used, UnitsOf
<1>9. Separate(N) /\ \A t \in N : Real(t[3])
  <2>1. \A e : <<"held", p, e>>[3] = e
    OBVIOUS
  <2>2. \A s, t \in N : s # t => s[3] # t[3] /\ s[3] \in P /\ t[3] \in P
    BY <2>1
  <2>3. \A t \in N : t[3] \in P
    BY <2>1
  <2> HIDE DEF N
  <2> QED
    BY <1>3, <2>2, <2>3 DEF Separate, Real
<1> HIDE DEF N
<1>10. Sound((Tokens \ {}) \cup N, FreeUnits(map'))
  <2>1. Used({}) = {}
    BY DEF Used
  <2>2. Used(N) \cup FreeUnits(map') = Used({}) \cup FreeUnits(map) /\ Used(N) \cap FreeUnits(map') = {}
    BY <1>3, <1>5, <1>8, <2>1
  <2> QED
    BY <1>9, <2>2, SoundStep DEF IInv
<1> QED
  BY <1>5, <1>6, <1>7, <1>10 DEF MapTidy, Sound, Separate, Used, Real

(* No segment moves. *)
LEMMA StillStep ==
    ASSUME IInv, TypeOK', UNCHANGED <<map, held, cache, lost>>
    PROVE  IInv'
BY DEF IInv, MapTidy, Sound, Separate, Used, Real, Tokens

LEMMA ReverseNat ==
    ASSUME NEW s \in Seq(Nat)
    PROVE  Reverse(s) \in Seq(Nat)
<1>1. Len(s) \in Nat /\ \A j \in 1..Len(s) : s[j] \in Nat
  BY LenProperties, ElementOfSeq
<1>2. \A j \in 1..Len(s) : (Len(s) - j) + 1 \in 1..Len(s)
  BY <1>1
<1> QED
  BY <1>1, <1>2 DEF Reverse

LEMMA TailNat ==
    ASSUME NEW s \in Seq(Nat), s # <<>>
    PROVE  Tail(s) \in Seq(Nat)
BY HeadTailProperties

LEMMA MallocInv ==
    ASSUME IInv, NEW p \in Proc, NEW sz \in Asks, Malloc(p, sz)
    PROVE  IInv'
<1>1. Sizes(sz) /\ sz \in Seq(Nat)
  BY AskSizes DEF Sizes
<1>2. CASE Take(p, sz) /\ UNCHANGED <<ask, todo>>
  <2>1. UNCHANGED <<cache, lost>>
    BY DEF Malloc
  <2> QED
    BY <1>1, <1>2, <2>1, TakeInv DEF IInv, TypeOK
<1>3. CASE /\ ask' = [ask EXCEPT ![p] = sz]
           /\ todo' = [todo EXCEPT ![p] = Reverse(sz)]
           /\ UNCHANGED <<map, held>>
  <2>1. UNCHANGED <<map, held, cache, lost>>
    BY <1>3 DEF Malloc
  <2>2. TypeOK'
    BY <1>1, <1>3, <2>1, ReverseNat DEF IInv, TypeOK
  <2> QED
    BY <2>1, <2>2, StillStep
<1> QED
  BY <1>2, <1>3 DEF Malloc

LEMMA AgainInv ==
    ASSUME IInv, NEW p \in Proc, Again(p)
    PROVE  IInv'
<1>1. ask[p] \in Asks /\ UNCHANGED <<cache, lost, todo>> /\ ask' = [ask EXCEPT ![p] = <<>>]
  BY DEF Again, IInv, TypeOK
<1>2. PICK sz \in Asks : sz = ask[p]
  BY <1>1
<1>3. Sizes(sz)
  BY AskSizes
<1>4. CASE Take(p, sz)
  BY <1>1, <1>3, <1>4, TakeInv DEF IInv, TypeOK
<1>5. CASE UNCHANGED <<map, held>>
  <2>1. TypeOK'
    BY <1>1, <1>5 DEF IInv, TypeOK
  <2> QED
    BY <1>1, <1>5, <2>1, StillStep
<1> QED
  BY <1>2, <1>4, <1>5 DEF Again

LEMMA XuncoreEndsInv ==
    ASSUME IInv, NEW p \in Proc, XuncoreEnds(p)
    PROVE  IInv'
<1>1. /\ todo[p] # <<>> /\ todo' = [todo EXCEPT ![p] = Tail(todo[p])]
      /\ UNCHANGED <<map, held, cache, lost, ask>>
  BY DEF XuncoreEnds
<1>2. TypeOK'
  <2>1. Tail(todo[p]) \in Seq(Nat)
    BY <1>1, TailNat DEF IInv, TypeOK
  <2> QED
    BY <1>1, <2>1 DEF IInv, TypeOK
<1> QED
  BY <1>1, <1>2, StillStep

LEMMA XuncoreInv ==
    ASSUME IInv, NEW p \in Proc, Xuncore(p)
    PROVE  IInv'
<1>1. PICK e \in cache : /\ cache' = cache \ {e} /\ Mfree(e)
                         /\ todo' = [todo EXCEPT ![p] = IF e.size >= Head(todo[p]) THEN Tail(todo[p])
                                                        ELSE todo[p]]
  BY DEF Xuncore
<1>2. todo[p] # <<>> /\ UNCHANGED <<held, ask>>
  BY DEF Xuncore
<1>3. Real(e)
  BY RealSegments
<1> DEFINE x == <<"cache", 0, e>>
           l == <<"lost", 0, e>>
<1>4. x \in Tokens /\ x[3] = e /\ l[3] = e
  BY TokenKinds
<1>5. \A t : t \in Tokens \ {x} <=> \/ \E q \in Proc : \E f \in held'[q] : t = <<"held", q, f>>
                                    \/ \E f \in cache' : t = <<"cache", 0, f>>
                                    \/ \E f \in lost : t = <<"lost", 0, f>>
  BY <1>1, <1>2, TokensNext
<1>6. lost' = lost => Tokens' = (Tokens \ {x}) \cup {}
  <2> SUFFICES ASSUME lost' = lost, NEW t PROVE t \in Tokens' <=> t \in Tokens \ {x}
    OBVIOUS
  <2> QED
    BY <1>5, TokensNext
<1>7. lost' = lost \cup {e} => Tokens' = (Tokens \ {x}) \cup ({} \cup {l})
  <2> SUFFICES ASSUME lost' = lost \cup {e}, NEW t PROVE t \in Tokens' <=> t \in Tokens \ {x} \/ t = l
    OBVIOUS
  <2> QED
    BY <1>5, TokensNext
<1> HIDE DEF x, l
<1>8. Used({x}) = Used({}) \cup Units(e) /\ Used({}) \cap Units(e) = {} /\ Separate({})
  BY <1>4 DEF Used, Separate
<1>9. map' \in Seq(Segment) /\ MapTidy' /\ Sound(Tokens, FreeUnits(map))'
  BY <1>1, <1>3, <1>4, <1>6, <1>7, <1>8, PutBackStep
<1>10. TypeOK'
  <2>1. Tail(todo[p]) \in Seq(Nat)
    BY <1>2, TailNat DEF IInv, TypeOK
  <2>2. lost' \in SUBSET Segment
    <3>1. lost' = lost \/ lost' = lost \cup {e}
      BY <1>1 DEF Mfree
    <3> QED
      BY <1>3, <3>1 DEF IInv, TypeOK, Real
  <2> QED
    BY <1>1, <1>2, <1>9, <2>1, <2>2 DEF IInv, TypeOK
<1> QED
  BY <1>9, <1>10 DEF IInv
(* A process keeps the parts K of a segment e it uses and frees the rest. *)
LEMMA KeepStep ==
    ASSUME IInv, NEW p \in Proc, NEW e \in held[p], NEW K,
           \A g \in K : Real(g), \A f, g \in K : f # g => Units(f) \cap Units(g) = {},
           NEW r, Real(r), Units(e) = UnitsOf(K) \cup Units(r), UnitsOf(K) \cap Units(r) = {},
           held' = [held EXCEPT ![p] = (held[p] \ {e}) \cup K], Mfree(r),
           UNCHANGED <<cache, ask, todo>>
    PROVE  IInv'
<1> DEFINE x == <<"held", p, e>>
           N == TokensOf(<<"held", p>>, K)
           l == <<"lost", 0, r>>
<1>1. x \in Tokens /\ x[3] = e /\ l[3] = r
  BY TokenKinds
<1>2. \A t : t \in N <=> \E g \in K : t = <<"held", p, g>>
  BY DEF TokensOf
<1>3. \A g : <<"held", p, g>>[3] = g
  OBVIOUS
<1>4. held \in [Proc -> SUBSET Segment]
  BY DEF IInv, TypeOK
<1>5. held'[p] = (held[p] \ {e}) \cup K /\ \A q \in Proc : q # p => held'[q] = held[q]
  BY <1>4
<1>6. \A t : t \in (Tokens \ {x}) \cup N
               <=> \/ \E q \in Proc : \E f \in held'[q] : t = <<"held", q, f>>
                   \/ \E f \in cache' : t = <<"cache", 0, f>>
                   \/ \E f \in lost : t = <<"lost", 0, f>>
  <2> HIDE DEF N
  <2>1. ASSUME NEW t, \E q \in Proc : \E f \in held'[q] : t = <<"held", q, f>>
        PROVE  t \in (Tokens \ {x}) \cup N
    <3>0. PICK q \in Proc : \E f \in held'[q] : t = <<"held", q, f>>
      BY <2>1
    <3>1. PICK f \in held'[q] : t = <<"held", q, f>>
      BY <3>0
    <3>2. CASE q = p
      BY <1>2, <1>5, <3>1, <3>2, TokensNext
    <3>3. CASE q # p
      BY <1>2, <1>5, <3>1, <3>3, TokensNext
    <3> QED
      BY <3>2, <3>3
  <2>2. ASSUME NEW t, \/ \E f \in cache' : t = <<"cache", 0, f>>
                      \/ \E f \in lost : t = <<"lost", 0, f>>
        PROVE  t \in Tokens \ {x}
    BY <2>2, TokensNext
  <2>3. ASSUME NEW t \in N
        PROVE  \E q \in Proc : \E f \in held'[q] : t = <<"held", q, f>>
    BY <1>2, <1>5
  <2>4. ASSUME NEW t \in Tokens \ {x}
        PROVE  \/ \E q \in Proc : \E f \in held'[q] : t = <<"held", q, f>>
               \/ \E f \in cache' : t = <<"cache", 0, f>>
               \/ \E f \in lost : t = <<"lost", 0, f>>
    <3>1. CASE \E q \in Proc : \E f \in held[q] : t = <<"held", q, f>>
      <4>0. PICK q \in Proc : \E f \in held[q] : t = <<"held", q, f>>
        BY <3>1
      <4>1. PICK f \in held[q] : t = <<"held", q, f>>
        BY <4>0
      <4>2. CASE q = p
        <5>1. f # e
          BY <4>1, <4>2
        <5> QED
          BY <1>5, <4>1, <4>2, <5>1
      <4>3. CASE q # p
        BY <1>5, <4>1, <4>3
      <4> QED
        BY <4>2, <4>3
    <3> QED
      BY <2>4, <3>1, TokensNext
  <2> HIDE DEF x
  <2> QED
    BY <2>1, <2>2, <2>3, <2>4
<1>7. lost' = lost => Tokens' = (Tokens \ {x}) \cup N
  <2> SUFFICES ASSUME lost' = lost, NEW t PROVE t \in Tokens' <=> t \in (Tokens \ {x}) \cup N
    OBVIOUS
  <2> HIDE DEF N, x
  <2> QED
    BY <1>6, TokensNext
<1>8. lost' = lost \cup {r} => Tokens' = (Tokens \ {x}) \cup (N \cup {l})
  <2> SUFFICES ASSUME lost' = lost \cup {r}, NEW t
               PROVE  t \in Tokens' <=> t \in (Tokens \ {x}) \cup N \/ t = l
    OBVIOUS
  <2> HIDE DEF N, x
  <2> QED
    BY <1>6, TokensNext
<1>9. Used(N) = UnitsOf(K) /\ Used({x}) = Units(e)
  <2> HIDE DEF N
  <2>1. \A g \in K : \E t \in N : t[3] = g
    BY <1>2, <1>3
  <2>2. \A t \in N : t[3] \in K
    BY <1>2, <1>3
  <2>3. Used({x}) = Units(e)
    BY <1>1 DEF Used
  <2> QED
    BY <2>1, <2>2, <2>3 DEF Used, UnitsOf
<1>10. Separate(N) /\ \A t \in N : Real(t[3])
  <2> HIDE DEF N
  <2>1. \A s, t \in N : s # t => s[3] # t[3]
    BY <1>2, <1>3
  <2>2. \A t \in N : t[3] \in K
    BY <1>2, <1>3
  <2> QED
    BY <2>1, <2>2 DEF Separate
<1> HIDE DEF x, N, l
<1>11. map' \in Seq(Segment) /\ MapTidy' /\ Sound(Tokens, FreeUnits(map))'
  <2>1. {x} \subseteq Tokens
    BY <1>1
  <2> QED
    BY <1>1, <1>7, <1>8, <1>9, <1>10, <2>1, PutBackStep
<1>12. TypeOK'
  <2>1. lost' \in SUBSET Segment
    <3>1. lost' = lost \/ lost' = lost \cup {r}
      BY DEF Mfree
    <3> QED
      BY <3>1 DEF IInv, TypeOK, Real
  <2>2. K \in SUBSET Segment
    BY DEF Real
  <2>3. held' \in [Proc -> SUBSET Segment]
    BY <1>4, <2>2
  <2> QED
    BY <1>11, <2>1, <2>3 DEF IInv, TypeOK
<1> QED
  BY <1>11, <1>12 DEF IInv

LEMMA FreeSegmentInv ==
    ASSUME IInv, NEW p \in Proc, FreeSegment(p)
    PROVE  IInv'
<1>1. PICK e \in held[p] : held' = [held EXCEPT ![p] = held[p] \ {e}] /\ Mfree(e)
  BY DEF FreeSegment
<1>2. UNCHANGED <<cache, ask, todo>>
  BY DEF FreeSegment
<1>3. Real(e)
  BY RealSegments
<1>4. UnitsOf({}) = {} /\ (held[p] \ {e}) \cup {} = held[p] \ {e}
  BY DEF UnitsOf
<1>5. Units(e) = UnitsOf({}) \cup Units(e) /\ UnitsOf({}) \cap Units(e) = {}
  BY <1>4
<1>6. held' = [held EXCEPT ![p] = (held[p] \ {e}) \cup {}]
  BY <1>1, <1>4
<1> DEFINE K == {}
           r == e
<1>7. /\ \A g \in K : Real(g)
      /\ \A f, g \in K : f # g => Units(f) \cap Units(g) = {}
      /\ Units(e) = UnitsOf(K) \cup Units(r) /\ UnitsOf(K) \cap Units(r) = {}
      /\ held' = [held EXCEPT ![p] = (held[p] \ {e}) \cup K]
      /\ Real(r) /\ Mfree(r)
  BY <1>1, <1>3, <1>5, <1>6
<1> HIDE DEF K, r
<1> QED
  BY <1>2, <1>7, KeepStep

(* A segment cut in two. *)
LEMMA CutUnits ==
    ASSUME NEW e, Real(e), NEW d \in Nat, d > 0, d < e.size
    PROVE  /\ Real(Seg(d, e.addr)) /\ Real(Seg(e.size - d, e.addr + d))
           /\ Units(e) = Units(Seg(d, e.addr)) \cup Units(Seg(e.size - d, e.addr + d))
           /\ Units(Seg(d, e.addr)) \cap Units(Seg(e.size - d, e.addr + d)) = {}
<1>1. e \in Segment /\ e.size \in Nat /\ e.addr \in Nat /\ e.addr > 0
  BY UnitsFacts DEF Real
<1>2. e.size - d \in Nat /\ e.size - d > 0 /\ e.addr + d \in Nat
  BY <1>1
<1> DEFINE f == Seg(d, e.addr)
           g == Seg(e.size - d, e.addr + d)
<1>3. f \in Segment /\ f.size = d /\ f.addr = e.addr
      /\ g \in Segment /\ g.size = e.size - d /\ g.addr = e.addr + d
  BY <1>1, <1>2, SegFacts
<1> HIDE DEF f, g
<1>4. Real(f) /\ Real(g)
  BY <1>1, <1>2, <1>3 DEF Real
<1>5. /\ Units(e) \subseteq Nat /\ Units(f) \subseteq Nat /\ Units(g) \subseteq Nat
      /\ \A u \in Nat : u \in Units(e) <=> e.addr <= u /\ u < e.addr + e.size
      /\ \A u \in Nat : u \in Units(f) <=> f.addr <= u /\ u < f.addr + f.size
      /\ \A u \in Nat : u \in Units(g) <=> g.addr <= u /\ u < g.addr + g.size
  BY <1>1, <1>3, UnitsFacts
<1>6. \A u \in Nat : /\ e.addr <= u /\ u < e.addr + e.size <=>
                           (f.addr <= u /\ u < f.addr + f.size) \/ (g.addr <= u /\ u < g.addr + g.size)
                     /\ ~((f.addr <= u /\ u < f.addr + f.size) /\ (g.addr <= u /\ u < g.addr + g.size))
  BY <1>1, <1>2, <1>3
<1>7. Units(e) = Units(f) \cup Units(g) /\ Units(f) \cap Units(g) = {}
  BY <1>5, <1>6
<1> QED
  BY <1>4, <1>7 DEF f, g

LEMMA ShrinkInv ==
    ASSUME IInv, NEW p \in Proc, Shrink(p)
    PROVE  IInv'
<1>1. PICK e \in held[p], n \in 1..Size :
         /\ n < e.size
         /\ \/ /\ held' = [held EXCEPT ![p] = (held[p] \ {e}) \cup {Seg(e.size - n, e.addr)}]
               /\ Mfree(Seg(n, e.addr + e.size - n))
            \/ /\ held' = [held EXCEPT ![p] = (held[p] \ {e}) \cup {Seg(e.size - n, e.addr + n)}]
               /\ Mfree(Seg(n, e.addr))
  BY DEF Shrink
<1>2. UNCHANGED <<cache, ask, todo>>
  BY DEF Shrink
<1>3. Real(e) /\ e.size \in Nat /\ e.addr \in Nat /\ n \in Nat
  BY RealSegments, UnitsFacts, SizeAssumption DEF Real
<1>4. \A g : UnitsOf({g}) = Units(g)
  BY DEF UnitsOf
<1>5. CASE /\ held' = [held EXCEPT ![p] = (held[p] \ {e}) \cup {Seg(e.size - n, e.addr)}]
           /\ Mfree(Seg(n, e.addr + e.size - n))
  <2> DEFINE g == Seg(e.size - n, e.addr)
             r == Seg(n, e.addr + e.size - n)
  <2>1. e.size - (e.size - n) = n /\ e.addr + (e.size - n) = e.addr + e.size - n
    BY <1>3
  <2> DEFINE d == e.size - n
  <2>7. /\ Real(Seg(d, e.addr)) /\ Real(Seg(e.size - d, e.addr + d))
        /\ Units(e) = Units(Seg(d, e.addr)) \cup Units(Seg(e.size - d, e.addr + d))
        /\ Units(Seg(d, e.addr)) \cap Units(Seg(e.size - d, e.addr + d)) = {}
    <3>1. d \in Nat /\ d > 0 /\ d < e.size
      BY <1>1, <1>3
    <3> HIDE DEF d
    <3> QED
      BY <1>3, <3>1, CutUnits
  <2>8. g = Seg(d, e.addr) /\ r = Seg(e.size - d, e.addr + d)
    BY <2>1
  <2>2. Real(g) /\ Real(r) /\ Units(e) = Units(g) \cup Units(r) /\ Units(g) \cap Units(r) = {}
    <3> HIDE DEF d, g, r
    <3> QED
      BY <2>7, <2>8
  <2>3. held' = [held EXCEPT ![p] = (held[p] \ {e}) \cup {g}] /\ Mfree(r)
    BY <1>5
  <2> HIDE DEF g, r
  <2>4. Units(e) = UnitsOf({g}) \cup Units(r) /\ UnitsOf({g}) \cap Units(r) = {}
    BY <1>4, <2>2
  <2>5. \A f \in {g} : Real(f)
    BY <2>2
  <2> QED
    BY <1>2, <2>2, <2>3, <2>4, <2>5, KeepStep
<1>6. CASE /\ held' = [held EXCEPT ![p] = (held[p] \ {e}) \cup {Seg(e.size - n, e.addr + n)}]
           /\ Mfree(Seg(n, e.addr))
  <2> DEFINE g == Seg(e.size - n, e.addr + n)
             r == Seg(n, e.addr)
  <2>2. Real(g) /\ Real(r) /\ Units(e) = Units(g) \cup Units(r) /\ Units(g) \cap Units(r) = {}
    <3>1. n \in Nat /\ n > 0 /\ n < e.size
      BY <1>1, <1>3
    <3>2. /\ Real(Seg(n, e.addr)) /\ Real(Seg(e.size - n, e.addr + n))
          /\ Units(e) = Units(Seg(n, e.addr)) \cup Units(Seg(e.size - n, e.addr + n))
          /\ Units(Seg(n, e.addr)) \cap Units(Seg(e.size - n, e.addr + n)) = {}
      BY <1>3, <3>1, CutUnits
    <3>3. g = Seg(e.size - n, e.addr + n) /\ r = Seg(n, e.addr)
      OBVIOUS
    <3> HIDE DEF g, r
    <3> QED
      BY <3>2, <3>3
  <2>3. held' = [held EXCEPT ![p] = (held[p] \ {e}) \cup {g}] /\ Mfree(r)
    BY <1>6
  <2> HIDE DEF g, r
  <2>4. Units(e) = UnitsOf({g}) \cup Units(r) /\ UnitsOf({g}) \cap Units(r) = {}
    BY <1>4, <2>2
  <2>5. \A f \in {g} : Real(f)
    BY <2>2
  <2> QED
    BY <1>2, <2>2, <2>3, <2>4, <2>5, KeepStep
<1> QED
  BY <1>1, <1>5, <1>6
LEMMA XfreeInv ==
    ASSUME IInv, NEW p \in Proc, Xfree(p)
    PROVE  IInv'
<1>1. PICK e \in held[p] : held' = [held EXCEPT ![p] = held[p] \ {e}] /\ cache' = cache \cup {e}
  BY DEF Xfree
<1>2. UNCHANGED <<map, lost, ask, todo>>
  BY DEF Xfree
<1>3. Real(e) /\ held \in [Proc -> SUBSET Segment]
  BY RealSegments DEF IInv, TypeOK
<1> DEFINE x == <<"held", p, e>>
           y == <<"cache", 0, e>>
<1>4. x \in Tokens /\ x[3] = e /\ y[3] = e
  BY TokenKinds
<1>5. held'[p] = held[p] \ {e} /\ \A q \in Proc : q # p => held'[q] = held[q]
  BY <1>1, <1>3
<1>6. Tokens' = (Tokens \ {x}) \cup {y}
  <2> SUFFICES ASSUME NEW t PROVE t \in Tokens' <=> t \in Tokens \ {x} \/ t = y
    OBVIOUS
  <2>1. ASSUME t \in Tokens' PROVE t \in Tokens \ {x} \/ t = y
    <3>1. CASE \E q \in Proc : \E f \in held'[q] : t = <<"held", q, f>>
      <4>1. PICK q \in Proc : \E f \in held'[q] : t = <<"held", q, f>>
        BY <3>1
      <4>2. PICK f \in held'[q] : t = <<"held", q, f>>
        BY <4>1
      <4>3. f \in held[q] /\ ~(q = p /\ f = e)
        BY <1>5, <4>2
      <4> QED
        BY <4>2, <4>3, TokensNext
    <3>2. CASE \E f \in cache' : t = <<"cache", 0, f>>
      BY <1>1, <3>2, TokensNext
    <3>3. CASE \E f \in lost' : t = <<"lost", 0, f>>
      BY <1>2, <3>3, TokensNext
    <3> QED
      BY <2>1, <3>1, <3>2, <3>3, TokensNext
  <2>2. ASSUME t \in Tokens \ {x} PROVE t \in Tokens'
    <3>1. CASE \E q \in Proc : \E f \in held[q] : t = <<"held", q, f>>
      <4>1. PICK q \in Proc : \E f \in held[q] : t = <<"held", q, f>>
        BY <3>1
      <4>2. PICK f \in held[q] : t = <<"held", q, f>>
        BY <4>1
      <4>3. f \in held'[q]
        BY <1>5, <2>2, <4>2
      <4> QED
        BY <4>2, <4>3, TokensNext
    <3>2. CASE \E f \in cache : t = <<"cache", 0, f>>
      BY <1>1, <3>2, TokensNext
    <3>3. CASE \E f \in lost : t = <<"lost", 0, f>>
      BY <1>2, <3>3, TokensNext
    <3> QED
      BY <2>2, <3>1, <3>2, <3>3, TokensNext
  <2>3. y \in Tokens'
    BY <1>1, TokensNext
  <2> QED
    BY <2>1, <2>2, <2>3
<1> HIDE DEF x, y
<1>7. Sound(Tokens, FreeUnits(map))'
  <2>1. Used({x}) = Units(e) /\ Used({y}) = Units(e)
    BY <1>4 DEF Used
  <2>2. Used({y}) \cup FreeUnits(map) = Used({x}) \cup FreeUnits(map)
        /\ Used({y}) \cap FreeUnits(map) = {}
    <3>1. Used({x}) \subseteq Used(Tokens)
      BY <1>4 DEF Used
    <3> QED
      BY <2>1, <3>1 DEF IInv, Sound
  <2>3. Separate({y}) /\ \A t \in {y} : Real(t[3])
    BY <1>3, <1>4 DEF Separate
  <2>4. Sound((Tokens \ {x}) \cup {y}, FreeUnits(map))
    <3> DEFINE Q == {x}
               N == {y}
               F == FreeUnits(map)
    <3>1. /\ Q \subseteq Tokens /\ Sound(Tokens, F) /\ Separate(N) /\ \A t \in N : Real(t[3])
          /\ Used(N) \cup F = Used(Q) \cup F /\ Used(N) \cap F = {}
      BY <1>4, <2>2, <2>3 DEF IInv
    <3>2. Sound((Tokens \ Q) \cup N, F)
      <4> HIDE DEF Q, N, F
      <4> QED
        BY <3>1, SoundStep
    <3> QED
      BY <3>2
  <2> QED
    BY <1>2, <1>6, <2>4 DEF Sound, Separate, Used, Real
<1>8. TypeOK'
  <2>1. held' \in [Proc -> SUBSET Segment] /\ cache' \in SUBSET Segment
    BY <1>1, <1>3 DEF IInv, TypeOK, Real
  <2> QED
    BY <1>2, <2>1 DEF IInv, TypeOK
<1>9. MapTidy'
  BY <1>2 DEF IInv, MapTidy
<1> QED
  BY <1>7, <1>8, <1>9 DEF IInv

LEMMA XallocInv ==
    ASSUME IInv, NEW p \in Proc, Xalloc(p)
    PROVE  IInv'
<1>1. PICK e \in cache : held' = [held EXCEPT ![p] = held[p] \cup {e}] /\ cache' = cache \ {e}
  BY DEF Xalloc
<1>2. UNCHANGED <<map, lost, ask, todo>>
  BY DEF Xalloc
<1>3. Real(e) /\ held \in [Proc -> SUBSET Segment]
  BY RealSegments DEF IInv, TypeOK
<1> DEFINE x == <<"cache", 0, e>>
           y == <<"held", p, e>>
<1>4. x \in Tokens /\ x[3] = e /\ y[3] = e
  BY TokenKinds
<1>5. held'[p] = held[p] \cup {e} /\ \A q \in Proc : q # p => held'[q] = held[q]
  BY <1>1, <1>3
<1>6. Tokens' = (Tokens \ {x}) \cup {y}
  <2> SUFFICES ASSUME NEW t PROVE t \in Tokens' <=> t \in Tokens \ {x} \/ t = y
    OBVIOUS
  <2>1. ASSUME t \in Tokens' PROVE t \in Tokens \ {x} \/ t = y
    <3>1. CASE \E q \in Proc : \E f \in held'[q] : t = <<"held", q, f>>
      <4>1. PICK q \in Proc : \E f \in held'[q] : t = <<"held", q, f>>
        BY <3>1
      <4>2. PICK f \in held'[q] : t = <<"held", q, f>>
        BY <4>1
      <4>3. f \in held[q] \/ (q = p /\ f = e)
        BY <1>5, <4>2
      <4> QED
        BY <4>2, <4>3, TokensNext
    <3>2. CASE \E f \in cache' : t = <<"cache", 0, f>>
      BY <1>1, <3>2, TokensNext
    <3>3. CASE \E f \in lost' : t = <<"lost", 0, f>>
      BY <1>2, <3>3, TokensNext
    <3> QED
      BY <2>1, <3>1, <3>2, <3>3, TokensNext
  <2>2. ASSUME t \in Tokens \ {x} PROVE t \in Tokens'
    <3>1. CASE \E q \in Proc : \E f \in held[q] : t = <<"held", q, f>>
      <4>1. PICK q \in Proc : \E f \in held[q] : t = <<"held", q, f>>
        BY <3>1
      <4>2. PICK f \in held[q] : t = <<"held", q, f>>
        BY <4>1
      <4>3. f \in held'[q]
        BY <1>5, <4>2
      <4> QED
        BY <4>2, <4>3, TokensNext
    <3>2. CASE \E f \in cache : t = <<"cache", 0, f>>
      BY <1>1, <2>2, <3>2, TokensNext
    <3>3. CASE \E f \in lost : t = <<"lost", 0, f>>
      BY <1>2, <3>3, TokensNext
    <3> QED
      BY <2>2, <3>1, <3>2, <3>3, TokensNext
  <2>3. y \in Tokens'
    BY <1>5, TokensNext
  <2> QED
    BY <2>1, <2>2, <2>3
<1> HIDE DEF x, y
<1>7. Sound(Tokens, FreeUnits(map))'
  <2>1. Used({x}) = Units(e) /\ Used({y}) = Units(e)
    BY <1>4 DEF Used
  <2>2. Used({y}) \cup FreeUnits(map) = Used({x}) \cup FreeUnits(map)
        /\ Used({y}) \cap FreeUnits(map) = {}
    <3>1. Used({x}) \subseteq Used(Tokens)
      BY <1>4 DEF Used
    <3> QED
      BY <2>1, <3>1 DEF IInv, Sound
  <2>3. Separate({y}) /\ \A t \in {y} : Real(t[3])
    BY <1>3, <1>4 DEF Separate
  <2>4. Sound((Tokens \ {x}) \cup {y}, FreeUnits(map))
    <3> DEFINE Q == {x}
               N == {y}
               F == FreeUnits(map)
    <3>1. /\ Q \subseteq Tokens /\ Sound(Tokens, F) /\ Separate(N) /\ \A t \in N : Real(t[3])
          /\ Used(N) \cup F = Used(Q) \cup F /\ Used(N) \cap F = {}
      BY <1>4, <2>2, <2>3 DEF IInv
    <3>2. Sound((Tokens \ Q) \cup N, F)
      <4> HIDE DEF Q, N, F
      <4> QED
        BY <3>1, SoundStep
    <3> QED
      BY <3>2
  <2> QED
    BY <1>2, <1>6, <2>4 DEF Sound, Separate, Used, Real
<1>8. TypeOK'
  <2>1. held' \in [Proc -> SUBSET Segment] /\ cache' \in SUBSET Segment
    BY <1>1, <1>3 DEF IInv, TypeOK, Real
  <2> QED
    BY <1>2, <2>1 DEF IInv, TypeOK
<1>9. MapTidy'
  BY <1>2 DEF IInv, MapTidy
<1> QED
  BY <1>7, <1>8, <1>9 DEF IInv

LEMMA IInvInit == Init => IInv
<1> SUFFICES ASSUME Init PROVE IInv
  OBVIOUS
<1> DEFINE e == Seg(Size, 1)
<1>1. map = <<e>> /\ e \in Segment /\ e.size = Size /\ e.addr = 1 /\ Size \in Nat /\ Size > 0
  BY SegFacts, SizeAssumption DEF Init
<1> HIDE DEF e
<1>2. map \in Seq(Segment) /\ Len(map) = 1 /\ map[1] = e
  BY <1>1
<1>3. TypeOK
  BY <1>2 DEF Init, TypeOK
<1>4. MapTidy
  BY <1>1, <1>2 DEF MapTidy, Tidy
<1>5. Tokens = {}
  BY TokensNext DEF Init
<1>6. FreeUnits(map) = 1..Size
  <2>1. \A u \in Nat : u \in FreeUnits(map) <=> 1 <= u /\ u < 1 + Size
    <3>1. 1..Len(map) = {1}
      BY <1>2
    <3> QED
      BY <1>1, <1>2, <3>1, FreeUnitsFacts
  <2>2. FreeUnits(map) \subseteq Nat
    BY <1>2, FreeUnitsFacts
  <2>3. ASSUME NEW u PROVE u \in FreeUnits(map) <=> u \in 1..Size
    BY <1>1, <2>1, <2>2
  <2> QED
    BY <2>3
<1>7. Used({}) = {}
  BY DEF Used
<1> QED
  BY <1>3, <1>4, <1>5, <1>6, <1>7 DEF IInv, Sound, Separate

LEMMA IInvNext == IInv /\ [Next]_vars => IInv'
<1> SUFFICES ASSUME IInv, [Next]_vars PROVE IInv'
  OBVIOUS
<1>1. ASSUME NEW p \in Proc, NEW sz \in Asks, Malloc(p, sz) PROVE IInv'
  BY <1>1, MallocInv
<1>2. ASSUME NEW p \in Proc, Xuncore(p) PROVE IInv'
  BY <1>2, XuncoreInv
<1>3. ASSUME NEW p \in Proc, XuncoreEnds(p) PROVE IInv'
  BY <1>3, XuncoreEndsInv
<1>4. ASSUME NEW p \in Proc, Again(p) PROVE IInv'
  BY <1>4, AgainInv
<1>5. ASSUME NEW p \in Proc, FreeSegment(p) PROVE IInv'
  BY <1>5, FreeSegmentInv
<1>6. ASSUME NEW p \in Proc, Shrink(p) PROVE IInv'
  BY <1>6, ShrinkInv
<1>7. ASSUME NEW p \in Proc, Xfree(p) PROVE IInv'
  BY <1>7, XfreeInv
<1>8. ASSUME NEW p \in Proc, Xalloc(p) PROVE IInv'
  BY <1>8, XallocInv
<1>9. CASE UNCHANGED vars
  <2>1. TypeOK'
    BY <1>9 DEF IInv, TypeOK, vars
  <2> QED
    BY <1>9, <2>1, StillStep DEF vars
<1> QED
  BY <1>1, <1>2, <1>3, <1>4, <1>5, <1>6, <1>7, <1>8, <1>9 DEF Next

LEMMA Invariant == Spec => []IInv
BY IInvInit, IInvNext, PTL DEF Spec

-----------------------------------------------------------------------------
(* The theorems *)

(* Every variable keeps its type: malloc and mfree (subr_rmap.c) leave an  *)
(* array of segments with sizes and addresses that are natural numbers.    *)
THEOREM TypeCorrect == Spec => []TypeOK
<1>1. IInv => TypeOK
  BY DEF IInv
<1> QED
  BY <1>1, Invariant, PTL

(* After any history of malloc, malloc3 and mfree the free segments are    *)
(* in the order of their addresses, none is empty and no two touch.        *)
THEOREM TidyKept == Spec => []MapTidy
<1>1. IInv => MapTidy
  BY DEF IInv
<1> QED
  BY <1>1, Invariant, PTL

(* Every unit of the resource is in one segment of one user, or free, or   *)
(* in one of the segments mfree reported lost: malloc gives nothing twice  *)
(* and mfree forgets nothing else.                                         *)
THEOREM AllAccounted == Spec => []Conserved
BY Invariant, SoundConserved, PTL


-----------------------------------------------------------------------------
(* The arena *)

(* Cardinality means the same in Arena.                                    *)
LEMMA SameCount == \A S : Arena!Cardinality(S) = Cardinality(S)
BY DEF Arena!Cardinality, Cardinality

LEMMA UnitsOfSets ==
    /\ UnitsOf({}) = {}
    /\ \A e : UnitsOf({e}) = Units(e)
    /\ \A S, T : UnitsOf(S \cup T) = UnitsOf(S) \cup UnitsOf(T)
BY DEF UnitsOf

LEMMA IntervalCount ==
    ASSUME NEW a \in Nat, NEW n \in Nat
    PROVE  IsFiniteSet(a..(a + n - 1)) /\ Cardinality(a..(a + n - 1)) = n
<1>1. a \in Int /\ a + n - 1 \in Int
  OBVIOUS
<1> QED
  BY <1>1, FS_Interval

LEMMA DisjointCount ==
    ASSUME NEW S, IsFiniteSet(S), NEW T, IsFiniteSet(T), S \cap T = {}
    PROVE  IsFiniteSet(S \cup T) /\ Cardinality(S \cup T) = Cardinality(S) + Cardinality(T)
<1>1. Cardinality(S) \in Nat /\ Cardinality(T) \in Nat /\ Cardinality(S \cap T) = 0
  BY FS_CardinalityType, FS_EmptySet
<1>2. IsFiniteSet(S \cup T)
  BY FS_Union
<1>3. Cardinality(S \cup T) = Cardinality(S) + Cardinality(T) - Cardinality(S \cap T)
  BY FS_Union
<1> QED
  BY <1>1, <1>2, <1>3

(* What is handed out is as much as was asked for.                         *)
LEMMA PiecesCount ==
    ASSUME NEW m \in Seq(Segment), Tidy(m), NEW sz, Sizes(sz), NEW at \in Placements(m, sz)
    PROVE  Cardinality(UnitsOf(Pieces(m, sz, at))) = Arena!Total(sz)
<1> DEFINE a == [k \in 1..Len(sz) |-> m[at[k]].addr + Before(sz, at, k, at[k])]
           U == [k \in 1..Len(sz) |-> a[k]..(a[k] + sz[k] - 1)]
           K == {k \in 1..Len(sz) : sz[k] > 0}
<1>1. /\ Len(m) \in Nat /\ DOMAIN sz = 1..Len(sz)
      /\ \A j \in 1..Len(m) : m[j].addr \in Nat /\ m[j].size \in Nat
      /\ \A j, k \in 1..Len(m) : j < k => m[j].addr + m[j].size < m[k].addr
  BY LenProperties, UnitsFacts, ElementOfSeq, TidyOrdered DEF Ordered, Sizes
<1>2. \A k \in 1..Len(sz) : /\ at[k] \in 1..Len(m) /\ sz[k] \in Nat
                            /\ Before(sz, at, k, at[k]) \in Nat
                            /\ Before(sz, at, k, at[k]) + sz[k] <= m[at[k]].size
  BY BeforeFacts
<1>3. \A k, l \in 1..Len(sz) : k < l /\ at[k] = at[l] =>
          Before(sz, at, k, at[k]) + sz[k] <= Before(sz, at, l, at[l])
  BY BeforeFacts
<1> DEFINE lo == [k \in 1..Len(sz) |-> m[at[k]].addr]
           hi == [k \in 1..Len(sz) |-> m[at[k]].addr + m[at[k]].size]
           o == [k \in 1..Len(sz) |-> Before(sz, at, k, at[k])]
<1>4. ASSUME NEW k \in 1..Len(sz)
      PROVE  /\ lo[k] \in Nat /\ hi[k] \in Nat /\ o[k] \in Nat /\ a[k] \in Nat /\ sz[k] \in Nat
             /\ a[k] = lo[k] + o[k] /\ a[k] + sz[k] <= hi[k]
  <2> DEFINE x == m[at[k]].addr
             y == m[at[k]].size
             z == Before(sz, at, k, at[k])
             n == sz[k]
  <2>1. x \in Nat /\ y \in Nat
    BY <1>1, <1>2
  <2>2. z \in Nat /\ n \in Nat /\ z + n <= y
    BY <1>2
  <2>3. lo[k] = x /\ hi[k] = x + y /\ o[k] = z /\ a[k] = x + z
    OBVIOUS
  <2> HIDE DEF x, y, z, n, lo, hi, o, a
  <2>4. x + y \in Nat /\ x + z \in Nat /\ (x + z) + n <= x + y
    BY <2>1, <2>2
  <2> QED
    BY <2>1, <2>2, <2>3, <2>4 DEF n
<1> HIDE DEF lo, hi, o, a, U, K
<1>5. ASSUME NEW k \in 1..Len(sz), NEW l \in 1..Len(sz), k < l
      PROVE  a[k] + sz[k] <= a[l] \/ a[l] + sz[l] <= a[k]
  <2> DEFINE x == a[k]
             s == sz[k]
             y == a[l]
             t == sz[l]
             b == lo[k]
             c == lo[l]
             d == o[k]
             e == o[l]
             g == hi[k]
             h == hi[l]
  <2>1. /\ x \in Nat /\ s \in Nat /\ b \in Nat /\ d \in Nat /\ g \in Nat
        /\ x = b + d /\ x + s <= g
    BY <1>4
  <2>2. /\ y \in Nat /\ t \in Nat /\ c \in Nat /\ e \in Nat /\ h \in Nat
        /\ y = c + e /\ y + t <= h
    BY <1>4
  <2>3. at[k] = at[l] => b = c /\ d + s <= e
    BY <1>3, <1>5 DEF lo, o
  <2>4. (at[k] < at[l] => g < c) /\ (at[l] < at[k] => h < b)
    BY <1>1, <1>2 DEF lo, hi
  <2>5. at[k] < at[l] \/ at[k] = at[l] \/ at[l] < at[k]
    BY <1>1, <1>2
  <2>6. (b = c /\ d + s <= e) \/ g < c \/ h < b
    BY <2>3, <2>4, <2>5
  <2> HIDE DEF x, s, y, t, b, c, d, e, g, h
  <2>7. x + s <= y \/ y + t <= x
    BY <2>1, <2>2, <2>6
  <2> QED
    BY <2>7 DEF x, s, y, t
<1>6. UnitsOf(Pieces(m, sz, at)) = UNION {U[k] : k \in 1..Len(sz)}
  <2>1. ASSUME NEW k \in 1..Len(sz) PROVE Units(Seg(sz[k], a[k])) = U[k]
    <3> DEFINE x == a[k]
               n == sz[k]
    <3>1. x \in Nat /\ n \in Nat
      BY <1>4
    <3> HIDE DEF x, n
    <3>2. Units(Seg(n, x)) = x..(x + n - 1)
      BY <3>1, SegFacts DEF Units
    <3> QED
      BY <3>2 DEF x, n, U
  <2>2. ASSUME NEW k \in 1..Len(sz), k \notin K PROVE U[k] = {}
    <3>1. a[k] \in Nat /\ sz[k] = 0
      BY <1>4, <2>2 DEF K
    <3> QED
      BY <3>1 DEF U
  <2>3. Pieces(m, sz, at) = {Seg(sz[k], a[k]) : k \in K}
    BY <1>1 DEF Pieces, K, a
  <2>4. UnitsOf(Pieces(m, sz, at)) = UNION {Units(Seg(sz[k], a[k])) : k \in K}
    BY <2>3 DEF UnitsOf
  <2>5. K \subseteq 1..Len(sz)
    BY DEF K
  <2>6. UNION {Units(Seg(sz[k], a[k])) : k \in K} = UNION {U[k] : k \in K}
    BY <2>1, <2>5
  <2>7. UNION {U[k] : k \in K} = UNION {U[k] : k \in 1..Len(sz)}
    BY <2>2, <2>5
  <2> QED
    BY <2>4, <2>6, <2>7
<1>7. ASSUME NEW k \in 1..Len(sz) PROVE IsFiniteSet(U[k]) /\ Cardinality(U[k]) = sz[k]
  <2>1. a[k] \in Nat /\ sz[k] \in Nat
    BY <1>4
  <2>2. U[k] = a[k]..(a[k] + sz[k] - 1)
    BY DEF U
  <2> QED
    BY <2>1, <2>2, IntervalCount
<1>8. ASSUME NEW k \in 1..Len(sz), NEW l \in 1..Len(sz), k < l PROVE U[k] \cap U[l] = {}
  <2> DEFINE x == a[k]
             s == sz[k]
             y == a[l]
             t == sz[l]
  <2>1. x \in Nat /\ y \in Nat /\ s \in Nat /\ t \in Nat
    BY <1>4
  <2>2. x + s <= y \/ y + t <= x
    BY <1>5, <1>8
  <2> HIDE DEF x, s, y, t
  <2>3. (x..(x + s - 1)) \cap (y..(y + t - 1)) = {}
    BY <2>1, <2>2
  <2> QED
    BY <2>3 DEF x, s, y, t, U
<1> HIDE DEF U, a
<1>9. CASE Len(sz) = 1
  <2>1. UNION {U[k] : k \in 1..Len(sz)} = U[1] /\ 1 \in 1..Len(sz)
    <3>1. 1..Len(sz) = {1}
      BY <1>9
    <3> QED
      BY <3>1
  <2> QED
    BY <1>6, <1>7, <1>9, <2>1 DEF Arena!Total
<1>10. CASE Len(sz) = 3
  <2>1. 1..Len(sz) = {1, 2, 3}
    BY <1>10
  <2>2. UNION {U[k] : k \in 1..Len(sz)} = (U[1] \cup U[2]) \cup U[3]
    BY <2>1
  <2>3. U[1] \cap U[2] = {} /\ U[1] \cap U[3] = {} /\ U[2] \cap U[3] = {}
    BY <1>8, <2>1
  <2>4. IsFiniteSet(U[1] \cup U[2]) /\ Cardinality(U[1] \cup U[2]) = sz[1] + sz[2]
    <3>1. IsFiniteSet(U[1]) /\ IsFiniteSet(U[2]) /\ Cardinality(U[1]) = sz[1] /\ Cardinality(U[2]) = sz[2]
      BY <1>7, <2>1
    <3>2. /\ IsFiniteSet(U[1] \cup U[2])
          /\ Cardinality(U[1] \cup U[2]) = Cardinality(U[1]) + Cardinality(U[2])
      BY <2>3, <3>1, DisjointCount
    <3> QED
      BY <3>1, <3>2
  <2>5. (U[1] \cup U[2]) \cap U[3] = {}
    BY <2>3
  <2>6. Cardinality((U[1] \cup U[2]) \cup U[3]) = (sz[1] + sz[2]) + sz[3]
    <3>1. IsFiniteSet(U[3]) /\ Cardinality(U[3]) = sz[3]
      BY <1>7, <2>1
    <3>2. Cardinality((U[1] \cup U[2]) \cup U[3]) = Cardinality(U[1] \cup U[2]) + Cardinality(U[3])
      BY <2>4, <2>5, <3>1, DisjointCount
    <3> QED
      BY <2>4, <3>1, <3>2
  <2> QED
    <3>1. Arena!Total(sz) = sz[1] + sz[2] + sz[3]
      BY <1>10 DEF Arena!Total
    <3> QED
      BY <1>6, <2>2, <2>6, <3>1
<1> QED
  BY <1>9, <1>10 DEF Sizes

(* A run of free units lies in one entry, since no two touch.              *)
LEMMA RunInEntry ==
    ASSUME NEW m \in Seq(Segment), Tidy(m), NEW n \in Nat \ {0}, NEW u \in FreeUnits(m),
           u..(u + n - 1) \subseteq FreeUnits(m)
    PROVE  \E i \in 1..Len(m) : n <= m[i].size
<1>1. /\ Len(m) \in Nat
      /\ \A j \in 1..Len(m) : m[j].addr \in Nat /\ m[j].size \in Nat
      /\ \A j, k \in 1..Len(m) : j < k => m[j].addr + m[j].size < m[k].addr
  BY LenProperties, UnitsFacts, ElementOfSeq, TidyOrdered DEF Ordered
<1>2. /\ FreeUnits(m) \subseteq Nat
      /\ \A v \in Nat : v \in FreeUnits(m) <=>
            \E i \in 1..Len(m) : m[i].addr <= v /\ v < m[i].addr + m[i].size
  BY FreeUnitsFacts
<1>3. PICK i \in 1..Len(m) : m[i].addr <= u /\ u < m[i].addr + m[i].size
  BY <1>2
<1> DEFINE e == m[i].addr + m[i].size
<1>4. u \in Nat /\ e \in Nat
  BY <1>1, <1>2
<1>5. e \notin FreeUnits(m)
  <2> SUFFICES ASSUME e \in FreeUnits(m) PROVE FALSE
    OBVIOUS
  <2>1. PICK j \in 1..Len(m) : m[j].addr <= e /\ e < m[j].addr + m[j].size
    BY <1>2, <1>4
  <2>2. j < i \/ j = i \/ i < j
    BY <1>1
  <2>3. CASE j < i
    <3>1. m[j].addr + m[j].size < m[i].addr
      BY <1>1, <2>3
    <3> QED
      BY SMTT(30), <1>1, <2>1, <3>1
  <2>4. CASE i < j
    <3>1. m[i].addr + m[i].size < m[j].addr
      BY <1>1, <2>4
    <3> QED
      BY <1>1, <2>1, <3>1
  <2> QED
    BY <1>1, <2>1, <2>2, <2>3, <2>4
<1>6. e \notin u..(u + n - 1)
  BY <1>5
<1>7. u + n - 1 < e
  BY <1>3, <1>4, <1>6
<1> DEFINE a == m[i].addr
           c == m[i].size
<1>8. a \in Nat /\ c \in Nat /\ a <= u /\ e = a + c
  BY <1>1, <1>3
<1> HIDE DEF a, c, e
<1>9. n <= c
  BY <1>4, <1>7, <1>8
<1> QED
  BY <1>9 DEF c

(* malloc and malloc3 fail only when no run is as long as all they ask for. *)
LEMMA NoRoomNoRun ==
    ASSUME NEW m \in Seq(Segment), Tidy(m), NEW sz \in Asks, Placements(m, sz) = {},
           NEW u \in FreeUnits(m)
    PROVE  ~(u..(u + Arena!Total(sz) - 1) \subseteq FreeUnits(m))
<1> SUFFICES ASSUME u..(u + Arena!Total(sz) - 1) \subseteq FreeUnits(m) PROVE FALSE
  OBVIOUS
<1>1. /\ Len(m) \in Nat /\ DOMAIN m = 1..Len(m)
      /\ \A j \in 1..Len(m) : m[j].addr \in Nat /\ m[j].size \in Nat
  BY LenProperties, UnitsFacts, ElementOfSeq
<1>2. Sizes(sz) /\ DOMAIN sz = 1..Len(sz) /\ \A k \in 1..Len(sz) : sz[k] \in Nat
  BY AskSizes, LenProperties, ElementOfSeq DEF Sizes
<1>3. CASE Len(sz) = 1
  <2>1. sz[1] \in Nat \ {0} /\ Arena!Total(sz) = sz[1] /\ DOMAIN sz = {1}
    BY <1>2, <1>3, AskAssumption DEF Arena!Total
  <2>2. \E i \in 1..Len(m) : sz[1] <= m[i].size
    BY <2>1, RunInEntry
  <2>3. PICK i \in {j \in 1..Len(m) : sz[1] <= m[j].size} :
           \A j \in {k \in 1..Len(m) : sz[1] <= m[k].size} : i <= j
    <3> DEFINE T == {j \in 1..Len(m) : sz[1] <= m[j].size}
    <3>1. T \subseteq Nat /\ T # {}
      BY <2>2
    <3> HIDE DEF T
    <3>2. \E x \in T : \A y \in T : x <= y
      BY <3>1, LeastNat
    <3> QED
      BY <3>2 DEF T
  <2> DEFINE at == [k \in {1} |-> i]
  <2>4. \A j : Before(sz, at, 1, j) = 0
    BY DEF Before
  <2>5. \A j \in 1..Len(m) : Fits(m, sz, at, 1, j) <=> sz[1] <= m[j].size
    BY <1>1, <2>1, <2>4 DEF Fits
  <2>6. FirstFit(m, sz, at)
    BY SMTT(30), <1>1, <2>1, <2>3, <2>5 DEF FirstFit
  <2>7. at \in Placements(m, sz)
    BY <1>1, <2>1, <2>6 DEF Placements
  <2> QED
    BY <2>7
<1>4. CASE Len(sz) = 3
  <2>1. /\ sz[1] \in Nat /\ sz[2] \in Nat /\ sz[3] \in Nat /\ DOMAIN sz = {1, 2, 3}
        /\ Arena!Total(sz) \in Nat \ {0} /\ Arena!Total(sz) = sz[1] + sz[2] + sz[3]
    BY <1>2, <1>4, AskAssumption DEF Arena!Total
  <2>2. PICK i \in 1..Len(m) : sz[1] + sz[2] + sz[3] <= m[i].size
    <3>1. \E i \in 1..Len(m) : Arena!Total(sz) <= m[i].size
      BY <2>1, RunInEntry
    <3> QED
      BY <2>1, <3>1
  <2>3. ASSUME NEW f \in [1..Len(m) -> Int], NEW n \in Nat, n <= f[i]
        PROVE  \E x \in 1..Len(m) : n <= f[x] /\ \A y \in 1..(x - 1) : ~(n <= f[y])
    <3> DEFINE T == {x \in 1..Len(m) : n <= f[x]}
    <3>1. T \subseteq Nat /\ i \in T
      BY <2>3
    <3> HIDE DEF T
    <3>2. PICK x \in T : \A y \in T : x <= y
      BY <3>1, LeastNat
    <3>3. x \in 1..Len(m) /\ n <= f[x]
      BY <3>2 DEF T
    <3>4. \A y \in 1..(x - 1) : y \notin T /\ y \in 1..Len(m)
      BY <1>1, <3>2, <3>3
    <3> QED
      BY <3>3, <3>4 DEF T
  <2> DEFINE f1 == [j \in 1..Len(m) |-> m[j].size]
  <2>4. PICK x1 \in 1..Len(m) : sz[1] <= f1[x1] /\ \A y \in 1..(x1 - 1) : ~(sz[1] <= f1[y])
    <3>1. f1 \in [1..Len(m) -> Int] /\ sz[1] <= f1[i]
      BY <1>1, <2>1, <2>2
    <3> HIDE DEF f1
    <3> QED
      BY <2>1, <2>3, <3>1
  <2> DEFINE f2 == [j \in 1..Len(m) |-> m[j].size - (IF x1 = j THEN sz[1] ELSE 0)]
  <2>5. PICK x2 \in 1..Len(m) : sz[2] <= f2[x2] /\ \A y \in 1..(x2 - 1) : ~(sz[2] <= f2[y])
    <3>1. f2 \in [1..Len(m) -> Int] /\ sz[2] <= f2[i]
      <4> DEFINE n1 == sz[1]
                 n2 == sz[2]
                 n3 == sz[3]
                 w == m[i].size
      <4>1. /\ n1 \in Nat /\ n2 \in Nat /\ n3 \in Nat /\ w \in Nat /\ n1 + n2 + n3 <= w
            /\ f2[i] = w - (IF x1 = i THEN n1 ELSE 0)
        BY <1>1, <2>1, <2>2
      <4>2. f2 \in [1..Len(m) -> Int]
        BY SMTT(30), <1>1, <2>1
      <4> HIDE DEF f2, n1, n2, n3, w
      <4>3. n2 <= f2[i]
        BY <4>1
      <4> QED
        BY <4>2, <4>3 DEF n2
    <3> HIDE DEF f2
    <3> QED
      BY <2>1, <2>3, <3>1
  <2> DEFINE f3 == [j \in 1..Len(m) |-> m[j].size - ((IF x1 = j THEN sz[1] ELSE 0)
                                                     + (IF x2 = j THEN sz[2] ELSE 0))]
  <2>6. PICK x3 \in 1..Len(m) : sz[3] <= f3[x3] /\ \A y \in 1..(x3 - 1) : ~(sz[3] <= f3[y])
    <3>1. f3 \in [1..Len(m) -> Int] /\ sz[3] <= f3[i]
      <4> DEFINE n1 == sz[1]
                 n2 == sz[2]
                 n3 == sz[3]
                 w == m[i].size
      <4>1. n1 \in Nat /\ n2 \in Nat /\ n3 \in Nat /\ w \in Nat /\ n1 + n2 + n3 <= w
        BY <1>1, <2>1, <2>2
      <4>2. f3[i] = w - ((IF x1 = i THEN n1 ELSE 0) + (IF x2 = i THEN n2 ELSE 0))
        OBVIOUS
      <4>3. f3 \in [1..Len(m) -> Int]
        <5> SUFFICES ASSUME NEW j \in 1..Len(m)
                     PROVE  m[j].size - ((IF x1 = j THEN n1 ELSE 0) + (IF x2 = j THEN n2 ELSE 0)) \in Int
          OBVIOUS
        <5> DEFINE v == m[j].size
        <5>1. v \in Nat
          BY <1>1
        <5> HIDE DEF v, n1, n2, n3, w
        <5>2. v - ((IF x1 = j THEN n1 ELSE 0) + (IF x2 = j THEN n2 ELSE 0)) \in Int
          BY <4>1, <5>1
        <5> QED
          BY <5>2 DEF v
      <4> HIDE DEF f3, n1, n2, n3, w
      <4>4. n3 <= f3[i]
        BY <4>1, <4>2
      <4> QED
        BY <4>3, <4>4 DEF n3
    <3> HIDE DEF f3
    <3> QED
      BY <2>1, <2>3, <3>1
  <2> DEFINE at == [k \in {1, 2, 3} |-> IF k = 1 THEN x1 ELSE IF k = 2 THEN x2 ELSE x3]
  <2>7. at[1] = x1 /\ at[2] = x2 /\ at[3] = x3 /\ at \in [{1, 2, 3} -> 1..Len(m)]
    OBVIOUS
  <2> HIDE DEF at
  <2>8. \A j : /\ Before(sz, at, 1, j) = 0
               /\ Before(sz, at, 2, j) = IF x1 = j THEN sz[1] ELSE 0
               /\ Before(sz, at, 3, j) = (IF x1 = j THEN sz[1] ELSE 0) + (IF x2 = j THEN sz[2] ELSE 0)
    BY <2>1, <2>7 DEF Before
  <2>9. \A j \in 1..Len(m) : /\ Fits(m, sz, at, 1, j) <=> sz[1] <= f1[j]
                             /\ Fits(m, sz, at, 2, j) <=> sz[2] <= f2[j]
                             /\ Fits(m, sz, at, 3, j) <=> sz[3] <= f3[j]
    <3> TAKE j \in 1..Len(m)
    <3>1. f1[j] = m[j].size - Before(sz, at, 1, j)
      BY <1>1, <2>8
    <3>2. f2[j] = m[j].size - Before(sz, at, 2, j) /\ f3[j] = m[j].size - Before(sz, at, 3, j)
      BY <2>8
    <3> QED
      BY <3>1, <3>2 DEF Fits
  <2> HIDE DEF f1, f2, f3
  <2>10. \A x \in 1..Len(m) : \A y \in 1..(x - 1) : y \in 1..Len(m)
    BY <1>1
  <2>11. FirstFit(m, sz, at)
    <3>1. Fits(m, sz, at, 1, at[1]) /\ \A y \in 1..(at[1] - 1) : ~Fits(m, sz, at, 1, y)
      BY <2>4, <2>7, <2>9, <2>10
    <3>2. Fits(m, sz, at, 2, at[2]) /\ \A y \in 1..(at[2] - 1) : ~Fits(m, sz, at, 2, y)
      BY <2>5, <2>7, <2>9, <2>10
    <3>3. Fits(m, sz, at, 3, at[3]) /\ \A y \in 1..(at[3] - 1) : ~Fits(m, sz, at, 3, y)
      BY <2>6, <2>7, <2>9, <2>10
    <3> QED
      BY <2>1, <3>1, <3>2, <3>3 DEF FirstFit
  <2>12. at \in Placements(m, sz)
    BY <1>1, <2>1, <2>7, <2>11 DEF Placements
  <2> QED
    BY <2>12
<1> QED
  BY <1>2, <1>3, <1>4 DEF Sizes

(* The runs of free units are the entries of the map.                      *)
LEMMA RunsAreEntries ==
    ASSUME NEW m \in Seq(Segment), Tidy(m)
    PROVE  Cardinality({u \in FreeUnits(m) : u - 1 \notin FreeUnits(m)}) = Len(m)
<1> DEFINE F == FreeUnits(m)
           R == {u \in F : u - 1 \notin F}
           f == [i \in 1..Len(m) |-> m[i].addr]
<1>1. /\ Len(m) \in Nat
      /\ \A j \in 1..Len(m) : m[j].addr \in Nat /\ m[j].size \in Nat /\ m[j].size > 0
                              /\ m[j].addr - 1 \in Nat
      /\ \A j, k \in 1..Len(m) : j < k => m[j].addr + m[j].size < m[k].addr
  <2>1. Len(m) \in Nat /\ \A j \in 1..Len(m) : m[j] \in Segment
    BY LenProperties, ElementOfSeq
  <2>2. Ordered(m) /\ \A j \in DOMAIN m : m[j].size > 0 /\ m[j].addr > 0
    BY TidyOrdered DEF Tidy
  <2>3. ASSUME NEW j \in 1..Len(m)
        PROVE  /\ m[j].addr \in Nat /\ m[j].size \in Nat /\ m[j].size > 0
               /\ m[j].addr - 1 \in Nat
    <3>1. m[j].addr \in Nat /\ m[j].size \in Nat
      BY <2>1, UnitsFacts
    <3>2. m[j].size > 0 /\ m[j].addr > 0
      BY <2>2, LenProperties
    <3> QED
      BY <3>1, <3>2
  <2> QED
    BY <2>1, <2>2, <2>3 DEF Ordered
<1>2. /\ F \subseteq Nat
      /\ \A v \in Nat : v \in F <=> \E i \in 1..Len(m) : m[i].addr <= v /\ v < m[i].addr + m[i].size
  BY FreeUnitsFacts
<1> HIDE DEF F
<1>3. ASSUME NEW i \in 1..Len(m) PROVE m[i].addr \in R
  <2>1. m[i].addr \in F
    <3>1. m[i].addr \in Nat /\ m[i].addr <= m[i].addr /\ m[i].addr < m[i].addr + m[i].size
      BY <1>1
    <3> QED
      BY <1>2, <3>1
  <2>2. m[i].addr - 1 \notin F
    <3> SUFFICES ASSUME NEW j \in 1..Len(m), m[j].addr <= m[i].addr - 1,
                        m[i].addr - 1 < m[j].addr + m[j].size
                 PROVE  FALSE
      BY <1>1, <1>2
    <3>1. j < i \/ j = i \/ i < j
      BY <1>1
    <3>2. CASE j < i
      <4>1. m[j].addr + m[j].size < m[i].addr
        BY <1>1, <3>2
      <4> QED
        BY <1>1, <4>1
    <3>3. CASE i < j
      <4>1. m[i].addr + m[i].size < m[j].addr
        BY <1>1, <3>3
      <4> QED
        BY SMTT(30), <1>1, <4>1
    <3> QED
      BY <1>1, <3>1, <3>2, <3>3
  <2> QED
    BY <2>1, <2>2
<1>4. ASSUME NEW u \in R PROVE \E i \in 1..Len(m) : u = m[i].addr
  <2>1. u \in F /\ u \in Nat /\ u - 1 \notin F
    BY <1>2
  <2>2. PICK i \in 1..Len(m) : m[i].addr <= u /\ u < m[i].addr + m[i].size
    BY <1>2, <2>1
  <2>3. CASE m[i].addr < u
    <3>1. u - 1 \in Nat /\ m[i].addr <= u - 1 /\ u - 1 < m[i].addr + m[i].size
      BY <1>1, <2>1, <2>2, <2>3
    <3> QED
      BY <1>2, <2>1, <3>1
  <2> QED
    BY <1>1, <2>1, <2>2, <2>3
<1>5. \A i, j \in 1..Len(m) : m[i].addr = m[j].addr => i = j
  <2> TAKE i, j \in 1..Len(m)
  <2>1. i < j \/ j = i \/ j < i
    BY <1>1
  <2>2. i < j => m[i].addr < m[j].addr
    <3> SUFFICES ASSUME i < j PROVE m[i].addr < m[j].addr
      OBVIOUS
    <3>1. m[i].addr + m[i].size < m[j].addr
      BY <1>1
    <3> QED
      BY SMTT(30), <1>1, <3>1
  <2>3. j < i => m[j].addr < m[i].addr
    <3> SUFFICES ASSUME j < i PROVE m[j].addr < m[i].addr
      OBVIOUS
    <3>1. m[j].addr + m[j].size < m[i].addr
      BY <1>1
    <3> QED
      BY SMTT(30), <1>1, <3>1
  <2> QED
    BY <1>1, <2>1, <2>2, <2>3
<1> HIDE DEF R
<1>6. f \in Bijection(1..Len(m), R)
  BY <1>3, <1>4, <1>5 DEF Bijection, Injection, IsInjective, Surjection
<1>7. IsFiniteSet(1..Len(m)) /\ Cardinality(1..Len(m)) = Len(m)
  BY SMTT(30), <1>1, FS_Interval
<1>8. Cardinality(R) = Cardinality(1..Len(m))
  BY <1>6, <1>7, FS_Bijection DEF ExistsBijection
<1> QED
  BY <1>7, <1>8 DEF R, F

(* No operation makes the map longer than the array, but mfree of a        *)
(* segment for which there is room.                                        *)
LEMMA InsertLength ==
    ASSUME NEW m \in Seq(Segment), NEW e \in Segment, ~Overflows(m, e), Len(m) <= Slots
    PROVE  Len(Insert(m, e)) <= Slots
<1> DEFINE i == PlaceFor(m, e.addr)
           left == JoinsLeft(m, i, e)
           right == JoinsRight(m, i, e)
<1>1. /\ i \in 1..(Len(m) + 1) /\ Len(m) \in Nat /\ Slots \in Nat /\ DOMAIN m = 1..Len(m)
      /\ e.size \in Nat /\ e.addr \in Nat
      /\ \A j \in 1..Len(m) : m[j] \in Segment /\ m[j].size \in Nat /\ m[j].addr \in Nat
  BY LenProperties, UnitsFacts, ElementOfSeq, PlaceForFacts, SizeAssumption
<1>2. (left => i > 1) /\ (right => i <= Len(m)) /\ (~left /\ ~right => Len(m) + 1 <= Slots)
  BY DEF JoinsLeft, JoinsRight, Overflows, RoomFor
<1>3. Insert(m, e) =
          CASE left /\ right -> RemoveAt([m EXCEPT ![i - 1].size = m[i - 1].size + e.size + m[i].size], i)
            [] left /\ ~right -> [m EXCEPT ![i - 1].size = m[i - 1].size + e.size]
            [] ~left /\ right -> [m EXCEPT ![i] = Seg(e.size + m[i].size, e.addr)]
            [] OTHER -> InsertAt(m, i, e)
  BY DEF Insert
<1> HIDE DEF i, left, right
<1>4. CASE left /\ right
  <2> DEFINE t == [m EXCEPT ![i - 1].size = m[i - 1].size + e.size + m[i].size]
  <2>1. t \in Seq(Segment) /\ Len(t) = Len(m)
    <3>1. i - 1 \in 1..Len(m) /\ i \in 1..Len(m)
      BY <1>1, <1>2, <1>4
    <3>2. [m[i - 1] EXCEPT !.size = m[i - 1].size + e.size + m[i].size] \in Segment
      <4>1. m[i - 1] \in Segment /\ m[i - 1].size \in Nat /\ m[i].size \in Nat
        BY <1>1, <3>1
      <4>2. e.size \in Nat
        BY <1>1
      <4>3. m[i - 1].size + e.size + m[i].size \in Nat
        BY <4>1, <4>2, SumsNat, Zenon
      <4> QED
        BY <4>1, <4>3, Resized, Zenon
    <3>3. t = [m EXCEPT ![i - 1] = [m[i - 1] EXCEPT !.size = m[i - 1].size + e.size + m[i].size]]
      BY <1>1, <3>1
    <3> QED
      BY <3>1, <3>2, <3>3, ExceptSeq
  <2> HIDE DEF t
  <2>2. Len(RemoveAt(t, i)) = Len(m) - 1
    <3>1. i \in 1..Len(t)
      BY <1>1, <1>2, <1>4, <2>1
    <3> QED
      BY <2>1, <3>1, RemoveElements
  <2>3. Insert(m, e) = RemoveAt(t, i)
    BY <1>3, <1>4 DEF t
  <2> QED
    BY <1>1, <2>2, <2>3
<1>5. CASE left /\ ~right
  <2>1. i - 1 \in 1..Len(m)
    BY <1>1, <1>2, <1>5
  <2>2. [m[i - 1] EXCEPT !.size = m[i - 1].size + e.size] \in Segment
    <3>1. m[i - 1] \in Segment /\ m[i - 1].size \in Nat
      BY <1>1, <2>1
    <3>2. e.size \in Nat
      BY <1>1
    <3>3. m[i - 1].size + e.size \in Nat
      BY <3>1, <3>2, SumsNat, Zenon
    <3> QED
      BY <3>1, <3>3, Resized, Zenon
  <2>3. Insert(m, e) = [m EXCEPT ![i - 1] = [m[i - 1] EXCEPT !.size = m[i - 1].size + e.size]]
    BY <1>1, <1>3, <1>5, <2>1
  <2> QED
    BY <1>1, <2>1, <2>2, <2>3, ExceptSeq
<1>6. CASE ~left /\ right
  <2>1. i \in 1..Len(m) /\ Seg(e.size + m[i].size, e.addr) \in Segment
    BY <1>1, <1>2, <1>6, SegFacts
  <2>2. Insert(m, e) = [m EXCEPT ![i] = Seg(e.size + m[i].size, e.addr)]
    BY <1>3, <1>6
  <2> QED
    BY <1>1, <2>1, <2>2, ExceptSeq
<1>7. CASE ~left /\ ~right
  BY <1>1, <1>2, <1>3, <1>7, InsertElements
<1> QED
  BY <1>4, <1>5, <1>6, <1>7

LEMMA SqueezeLength ==
    ASSUME NEW m \in Seq(Segment)
    PROVE  Squeeze(m) \in Seq(Segment) /\ Len(Squeeze(m)) <= Len(m)
<1>1. Len(m) \in Nat /\ DOMAIN m = 1..Len(m)
  BY LenProperties
<1>2. CASE \E i \in DOMAIN m : m[i].size = 0
  <2>1. PICK i \in 1..Len(m) : Squeeze(m) = RemoveAt(m, i)
    BY <1>1, <1>2 DEF Squeeze
  <2> QED
    BY <1>1, <2>1, RemoveElements
<1>3. CASE ~\E i \in DOMAIN m : m[i].size = 0
  BY <1>1, <1>3 DEF Squeeze
<1> QED
  BY <1>2, <1>3

LEMMA SqueezeAllLength ==
    ASSUME NEW m \in Seq(Segment)
    PROVE  Len(SqueezeAll(m)) <= Len(m)
<1> DEFINE m1 == Squeeze(m)
           m2 == Squeeze(m1)
           m3 == Squeeze(m2)
<1>1. m1 \in Seq(Segment) /\ Len(m1) <= Len(m)
  BY SqueezeLength
<1> HIDE DEF m1
<1>2. m2 \in Seq(Segment) /\ Len(m2) <= Len(m1)
  BY <1>1, SqueezeLength
<1> HIDE DEF m2
<1>3. m3 \in Seq(Segment) /\ Len(m3) <= Len(m2)
  BY <1>2, SqueezeLength
<1> HIDE DEF m3
<1>4. Len(m) \in Nat /\ Len(m1) \in Nat /\ Len(m2) \in Nat /\ Len(m3) \in Nat
  BY <1>1, <1>2, <1>3, LenProperties
<1>5. SqueezeAll(m) = m3
  BY DEF SqueezeAll, m1, m2, m3
<1> QED
  BY <1>1, <1>2, <1>3, <1>4, <1>5

(* The map does not outgrow the array.                                     *)
InArray == Len(map) <= Slots

(* mfree of a segment that is not free: its units become free, or the      *)
(* array is full of entries that do not touch it.                          *)
LEMMA MfreeIsFree ==
    ASSUME IInv, InArray, NEW e, Real(e), Units(e) \cap FreeUnits(map) = {}, Mfree(e)
    PROVE  InArray' /\ Arena!Free(Units(e))
<1>1. /\ map \in Seq(Segment) /\ Tidy(map) /\ e \in Segment /\ e.size \in Nat /\ e.size > 0
      /\ e.addr \in Nat /\ e.addr > 0 /\ Slots \in Nat
  BY UnitsFacts, SizeAssumption DEF IInv, TypeOK, MapTidy, Real
<1>2. CASE ~Overflows(map, e)
  <2>1. map' = Insert(map, e) /\ lost' = lost
    BY <1>1, <1>2 DEF Mfree
  <2>2. FreeUnits(map') = FreeUnits(map) \cup Units(e)
    BY <1>1, <2>1, InsertTidy
  <2>3. InArray'
    BY <1>1, <1>2, <2>1, InsertLength DEF InArray
  <2> QED
    BY <2>1, <2>2, <2>3 DEF Arena!Free
<1>3. CASE Overflows(map, e)
  <2>1. map' = map /\ lost' = lost \cup {e}
    BY <1>1, <1>3 DEF Mfree
  <2>2. UnitsOf(lost') = UnitsOf(lost) \cup Units(e)
    <3>1. UnitsOf({e}) = Units(e) /\ UnitsOf(lost \cup {e}) = UnitsOf(lost) \cup UnitsOf({e})
      BY UnitsOfSets
    <3> QED
      BY <2>1, <3>1
  <2> DEFINE i == PlaceFor(map, e.addr)
             F == FreeUnits(map)
  <2>3. ~JoinsLeft(map, i, e) /\ ~JoinsRight(map, i, e) /\ ~(Len(map) + 1 <= Slots)
    BY <1>3 DEF Overflows, RoomFor
  <2>4. /\ i \in 1..(Len(map) + 1)
        /\ \A j \in 1..(i - 1) : map[j].addr + map[j].size <= e.addr
        /\ \A j \in i..Len(map) : e.addr + e.size <= map[j].addr
    BY <1>1, PlaceInGap
  <2>5. /\ Len(map) \in Nat
        /\ \A j \in 1..Len(map) : map[j].addr \in Nat /\ map[j].size \in Nat /\ map[j].size > 0
        /\ \A j, k \in 1..Len(map) : j < k => map[j].addr + map[j].size < map[k].addr
    BY <1>1, LenProperties, UnitsFacts, ElementOfSeq, TidyOrdered DEF Ordered
  <2> HIDE DEF i
  <2>6. Len(map) = Slots
    BY <1>1, <2>3, <2>5 DEF InArray
  <2>7. Arena!Cardinality(Arena!RunStarts) = Slots
    BY <1>1, <2>6, RunsAreEntries, SameCount DEF Arena!RunStarts
  <2>8. \A j \in 1..(i - 1) : map[j].addr + map[j].size < e.addr
    <3> TAKE j \in 1..(i - 1)
    <3>1. j \in 1..Len(map) /\ i - 1 \in 1..Len(map) /\ i > 1
      BY <2>4, <2>5
    <3>2. ~(map[i - 1].addr + map[i - 1].size >= e.addr)
      BY <2>3, <3>1 DEF JoinsLeft
    <3>3. CASE j = i - 1
      BY <1>1, <2>5, <3>1, <3>2, <3>3
    <3>4. CASE j < i - 1
      <4>1. map[j].addr + map[j].size < map[i - 1].addr
        BY <2>5, <3>1, <3>4
      <4>2. map[i - 1].addr + map[i - 1].size <= e.addr
        BY <2>4, <2>5, <3>1
      <4>3. map[j] \in Segment /\ map[i - 1] \in Segment /\ e \in Segment
        BY <1>1, <3>1, ElementOfSeq
      <4> HIDE DEF F
      <4> QED
        BY <4>1, <4>2, <4>3, EndsBefore, Zenon
    <3> QED
      BY <2>4, <3>1, <3>3, <3>4
  <2>9. \A j \in i..Len(map) : e.addr + e.size < map[j].addr
    <3> TAKE j \in i..Len(map)
    <3>1. j \in 1..Len(map) /\ i \in 1..Len(map) /\ i <= Len(map)
      BY <2>4, <2>5
    <3>2. ~(e.addr + e.size >= map[i].addr)
      BY <2>3, <3>1 DEF JoinsRight
    <3>3. j = i \/ map[i].addr + map[i].size < map[j].addr
      BY <2>4, <2>5, <3>1
    <3> QED
      BY <1>1, <2>5, <3>1, <3>2, <3>3
  <2>10. /\ F \subseteq Nat
         /\ \A v \in Nat : v \in F <=>
               \E j \in 1..Len(map) : map[j].addr <= v /\ v < map[j].addr + map[j].size
    BY <1>1, FreeUnitsFacts
  <2> HIDE DEF F
  <2>11. ASSUME NEW v \in Nat, e.addr <= v + 1, v <= e.addr + e.size PROVE v \notin F
    <3> SUFFICES ASSUME NEW j \in 1..Len(map), map[j].addr <= v, v < map[j].addr + map[j].size
                 PROVE  FALSE
      BY <2>10
    <3>1. j \in 1..(i - 1) \/ j \in i..Len(map)
      BY <2>4, <2>5
    <3>2. CASE j \in 1..(i - 1)
      <4>1. map[j].addr + map[j].size < e.addr /\ map[j].addr \in Nat /\ map[j].size \in Nat
        BY <2>5, <2>8, <3>2
      <4> QED
        BY <1>1, <2>11, <4>1
    <3>3. CASE j \in i..Len(map)
      <4>1. e.addr + e.size < map[j].addr /\ map[j].addr \in Nat
        BY <2>5, <2>9, <3>3
      <4> QED
        BY <1>1, <2>11, <4>1
    <3> QED
      BY <3>1, <3>2, <3>3
  <2>12. \A u \in Units(e) : {u - 1, u + 1} \cap F = {}
    <3> TAKE u \in Units(e)
    <3>1. u \in Nat /\ e.addr <= u /\ u < e.addr + e.size
      BY <1>1, UnitsFacts
    <3>2. u - 1 \in Nat /\ u + 1 \in Nat
      BY <1>1, <3>1
    <3>3. u - 1 \notin F
      BY <1>1, <2>11, <3>1, <3>2
    <3>4. u + 1 \notin F
      BY <1>1, <2>11, <3>1, <3>2
    <3> QED
      BY <3>3, <3>4
  <2>13. InArray'
    BY <2>1 DEF InArray
  <2> QED
    BY <2>1, <2>2, <2>7, <2>12, <2>13 DEF Arena!Free, F
<1> QED
  BY <1>2, <1>3

LEMMA TakeIsGrant ==
    ASSUME IInv, InArray, NEW p \in Proc, NEW sz \in Asks, ask[p] \in {<<>>, sz}, Take(p, sz),
           UNCHANGED <<cache, lost>>, ask' = [ask EXCEPT ![p] = <<>>]
    PROVE  InArray' /\ Arena!Grant(p)
<1>1. PICK at \in Placements(map, sz) :
         /\ map' = SqueezeAll(Carve(map, sz, at))
         /\ held' = [held EXCEPT ![p] = held[p] \cup Pieces(map, sz, at)]
  BY DEF Take
<1>2. map \in Seq(Segment) /\ Tidy(map) /\ held \in [Proc -> SUBSET Segment] /\ Sizes(sz)
  BY AskSizes DEF IInv, TypeOK, MapTidy
<1> DEFINE c == Carve(map, sz, at)
           P == Pieces(map, sz, at)
           U == UnitsOf(P)
<1>3. /\ Ordered(c)
      /\ FewEmpty(c)
      /\ FreeUnits(c) = FreeUnits(map) \ U
      /\ U \subseteq FreeUnits(map)
  <2>1. Ordered(c)
    BY <1>2, CarveUnits
  <2>2. FewEmpty(c)
    BY <1>2, CarveUnits
  <2>3. FreeUnits(c) = FreeUnits(map) \ U /\ U \subseteq FreeUnits(map)
    BY <1>2, CarveUnits
  <2> HIDE DEF c, U
  <2> QED
    BY <2>1, <2>2, <2>3
<1>4. Cardinality(U) = Arena!Total(sz)
  BY <1>2, PiecesCount
<1>5. Len(c) = Len(map)
  BY <1>2, LenProperties DEF Carve
<1> HIDE DEF c, P
<1>6. FreeUnits(map') = FreeUnits(map) \ U
  BY <1>1, <1>3, SqueezeAllOrdered DEF FewEmpty, c
<1>7. InArray'
  <2>1. Len(map') <= Len(c) /\ c \in Seq(Segment)
    BY <1>1, <1>3, SqueezeAllLength DEF FewEmpty, Ordered, c
  <2>2. map' \in Seq(Segment)
    BY <1>1, <1>3, SqueezeAllOrdered DEF FewEmpty, c
  <2>3. Len(map') \in Nat /\ Len(c) \in Nat /\ Slots \in Nat
    BY <2>1, <2>2, LenProperties, SizeAssumption
  <2> QED
    BY <1>5, <2>1, <2>3 DEF InArray
<1>8. [q \in Proc |-> UnitsOf(held'[q])]
         = [[q \in Proc |-> UnitsOf(held[q])] EXCEPT ![p] = UnitsOf(held[p]) \cup U]
  <2>1. held'[p] = held[p] \cup P /\ \A q \in Proc : q # p => held'[q] = held[q]
    BY <1>1, <1>2 DEF P
  <2>2. UnitsOf(held[p] \cup P) = UnitsOf(held[p]) \cup UnitsOf(P)
    BY UnitsOfSets
  <2> QED
    BY <2>1, <2>2
<1>9. U \in Arena!kSubset(Arena!Total(sz), FreeUnits(map))
  BY <1>3, <1>4, SameCount DEF Arena!kSubset
<1> HIDE DEF U
<1>10. [q \in Proc |-> UnitsOf(held[q])][p] = UnitsOf(held[p])
  OBVIOUS
<1>11. UnitsOf(cache') = UnitsOf(cache) /\ UnitsOf(lost') = UnitsOf(lost)
  OBVIOUS
<1>12. Arena!Grant(p)
  BY <1>6, <1>8, <1>9, <1>10, <1>11 DEF Arena!Grant
<1> QED
  BY <1>7, <1>12

(* Without a segment a set has the units of the others. *)
LEMMA UnitsWithout ==
    ASSUME IInv
    PROVE  /\ \A p \in Proc : \A e \in held[p] : UnitsOf(held[p] \ {e}) = UnitsOf(held[p]) \ Units(e)
           /\ \A e \in cache : UnitsOf(cache \ {e}) = UnitsOf(cache) \ Units(e)
<1>1. ASSUME NEW S, \A e, f \in S : e # f => Units(e) \cap Units(f) = {}, NEW e \in S
      PROVE  UnitsOf(S \ {e}) = UnitsOf(S) \ Units(e)
  BY <1>1 DEF UnitsOf
<1>2. Separate(Tokens)
  BY DEF IInv, Sound
<1>3. \A p \in Proc : \A e, f \in held[p] : e # f => Units(e) \cap Units(f) = {}
  <2> SUFFICES ASSUME NEW p \in Proc, NEW e \in held[p], NEW f \in held[p], e # f
               PROVE  Units(e) \cap Units(f) = {}
    OBVIOUS
  <2> DEFINE s == <<"held", p, e>>
             t == <<"held", p, f>>
  <2>1. s \in Tokens /\ t \in Tokens /\ s[3] = e /\ t[3] = f
    BY TokenKinds
  <2> HIDE DEF s, t
  <2> QED
    BY <1>2, <2>1 DEF Separate
<1>4. \A e, f \in cache : e # f => Units(e) \cap Units(f) = {}
  <2> SUFFICES ASSUME NEW e \in cache, NEW f \in cache, e # f
               PROVE  Units(e) \cap Units(f) = {}
    OBVIOUS
  <2> DEFINE s == <<"cache", 0, e>>
             t == <<"cache", 0, f>>
  <2>1. s \in Tokens /\ t \in Tokens /\ s[3] = e /\ t[3] = f
    BY TokenKinds
  <2> HIDE DEF s, t
  <2> QED
    BY <1>2, <2>1 DEF Separate
<1> QED
  BY <1>1, <1>3, <1>4

(* No segment that somebody has is free. *)
LEMMA HeldNotFree ==
    ASSUME IInv
    PROVE  /\ \A p \in Proc : \A e \in held[p] : Units(e) \cap FreeUnits(map) = {}
           /\ \A e \in cache : Units(e) \cap FreeUnits(map) = {}
<1>1. ASSUME NEW t \in Tokens PROVE Units(t[3]) \cap FreeUnits(map) = {}
  BY DEF IInv, Sound, Used
<1>2. \A p, e : <<"held", p, e>>[3] = e
  OBVIOUS
<1>3. \A e : <<"cache", 0, e>>[3] = e
  OBVIOUS
<1> QED
  BY <1>1, <1>2, <1>3, TokenKinds

LEMMA MallocIsArena ==
    ASSUME IInv, InArray, NEW p \in Proc, NEW sz \in Asks, Malloc(p, sz)
    PROVE  InArray' /\ Arena!Next
<1>1. ask[p] = <<>> /\ ask \in [Proc -> Asks \cup {<<>>}] /\ UNCHANGED <<cache, lost>>
  BY DEF Malloc, IInv, TypeOK
<1>2. CASE Take(p, sz) /\ UNCHANGED ask
  <2>1. ask' = [ask EXCEPT ![p] = <<>>]
    BY <1>1, <1>2
  <2> QED
    BY <1>1, <1>2, <2>1, TakeIsGrant DEF Arena!Next
<1>3. CASE Placements(map, sz) = {} /\ ask' = [ask EXCEPT ![p] = sz] /\ UNCHANGED <<map, held>>
  <2>1. map \in Seq(Segment) /\ Tidy(map)
    BY DEF IInv, TypeOK, MapTidy
  <2>2. ~Arena!HasRun(Arena!Total(sz))
    BY <1>3, <2>1, NoRoomNoRun DEF Arena!HasRun
  <2>3. /\ FreeUnits(map') = FreeUnits(map) /\ UnitsOf(cache') = UnitsOf(cache)
        /\ UnitsOf(lost') = UnitsOf(lost)
        /\ [q \in Proc |-> UnitsOf(held'[q])] = [q \in Proc |-> UnitsOf(held[q])]
    BY <1>1, <1>3
  <2>4. Arena!Wait(p)
    BY <1>1, <1>3, <2>2, <2>3 DEF Arena!Wait
  <2>5. InArray'
    BY <1>3 DEF InArray
  <2> QED
    BY <2>4, <2>5 DEF Arena!Next
<1> QED
  BY <1>2, <1>3 DEF Malloc

LEMMA AgainIsArena ==
    ASSUME IInv, InArray, NEW p \in Proc, Again(p)
    PROVE  InArray' /\ Arena!Next
<1>1. ask[p] \in Asks /\ UNCHANGED <<cache, lost>> /\ ask' = [ask EXCEPT ![p] = <<>>] /\ ask[p] # <<>>
  BY DEF Again, IInv, TypeOK
<1>2. PICK sz \in Asks : sz = ask[p]
  BY <1>1
<1>3. CASE Take(p, sz)
  BY <1>1, <1>2, <1>3, TakeIsGrant DEF Arena!Next
<1>4. CASE Placements(map, sz) = {} /\ UNCHANGED <<map, held>>
  <2>1. map \in Seq(Segment) /\ Tidy(map)
    BY DEF IInv, TypeOK, MapTidy
  <2>2. ~Arena!HasRun(Arena!Total(ask[p]))
    BY <1>2, <1>4, <2>1, NoRoomNoRun DEF Arena!HasRun
  <2>3. /\ FreeUnits(map') = FreeUnits(map) /\ UnitsOf(cache') = UnitsOf(cache)
        /\ UnitsOf(lost') = UnitsOf(lost)
        /\ [q \in Proc |-> UnitsOf(held'[q])] = [q \in Proc |-> UnitsOf(held[q])]
    BY <1>1, <1>4
  <2>4. Arena!Refuse(p)
    BY <1>1, <2>2, <2>3 DEF Arena!Refuse
  <2>5. InArray'
    BY <1>4 DEF InArray
  <2> QED
    BY <2>4, <2>5 DEF Arena!Next
<1> QED
  BY <1>2, <1>3, <1>4 DEF Again

LEMMA XuncoreIsReclaim ==
    ASSUME IInv, InArray, NEW p \in Proc, Xuncore(p)
    PROVE  InArray' /\ Arena!Next
<1>1. PICK e \in cache : cache' = cache \ {e} /\ Mfree(e)
  BY DEF Xuncore
<1>2. UNCHANGED <<held, ask>>
  BY DEF Xuncore
<1>3. InArray' /\ Arena!Free(Units(e))
  BY <1>1, RealSegments, HeldNotFree, MfreeIsFree
<1>4. UnitsOf(cache') = UnitsOf(cache) \ Units(e)
  BY <1>1, UnitsWithout
<1>5. Units(e) \in SUBSET UnitsOf(cache)
  BY DEF UnitsOf
<1>6. [q \in Proc |-> UnitsOf(held'[q])] = [q \in Proc |-> UnitsOf(held[q])]
  BY <1>2
<1>7. Arena!Reclaim
  BY <1>2, <1>3, <1>4, <1>5, <1>6 DEF Arena!Reclaim
<1> QED
  BY <1>3, <1>7 DEF Arena!Next

(* The units of p's segments after a step that changes only these. *)
LEMMA UnitsOfHeld ==
    ASSUME NEW p \in Proc, held \in [Proc -> SUBSET Segment], NEW H, held' = [held EXCEPT ![p] = H]
    PROVE  [q \in Proc |-> UnitsOf(held'[q])] = [[q \in Proc |-> UnitsOf(held[q])] EXCEPT ![p] = UnitsOf(H)]
BY DEF UnitsOf

(* p gives back the part r of a segment e, and keeps the segments K of it. *)
LEMMA KeepIsRelease ==
    ASSUME IInv, InArray, NEW p \in Proc, NEW e \in held[p], NEW K, NEW r, Real(r),
           Units(e) = UnitsOf(K) \cup Units(r), UnitsOf(K) \cap Units(r) = {},
           held' = [held EXCEPT ![p] = (held[p] \ {e}) \cup K], Mfree(r), UNCHANGED <<cache, ask>>
    PROVE  InArray' /\ Arena!Next
<1>1. Units(r) \cap FreeUnits(map) = {}
  BY HeldNotFree
<1>2. InArray' /\ Arena!Free(Units(r))
  BY <1>1, MfreeIsFree
<1>3. UnitsOf((held[p] \ {e}) \cup K) = UnitsOf(held[p]) \ Units(r)
  <2>1. UnitsOf((held[p] \ {e}) \cup K) = UnitsOf(held[p] \ {e}) \cup UnitsOf(K)
    BY UnitsOfSets
  <2>2. UnitsOf(held[p] \ {e}) = UnitsOf(held[p]) \ Units(e) /\ Units(e) \subseteq UnitsOf(held[p])
    BY UnitsWithout DEF UnitsOf
  <2> QED
    BY <2>1, <2>2
<1>4. Units(r) \in SUBSET UnitsOf(held[p])
  BY DEF UnitsOf
<1>5. held \in [Proc -> SUBSET Segment]
  BY DEF IInv, TypeOK
<1>6. [q \in Proc |-> UnitsOf(held'[q])]
         = [[q \in Proc |-> UnitsOf(held[q])] EXCEPT ![p] = UnitsOf(held[p]) \ Units(r)]
  BY <1>3, <1>5, UnitsOfHeld
<1>7. [q \in Proc |-> UnitsOf(held[q])][p] = UnitsOf(held[p])
  OBVIOUS
<1>8. Arena!Release(p)
  BY <1>2, <1>4, <1>6, <1>7 DEF Arena!Release
<1> QED
  BY <1>2, <1>8 DEF Arena!Next

LEMMA FreeSegmentIsRelease ==
    ASSUME IInv, InArray, NEW p \in Proc, FreeSegment(p)
    PROVE  InArray' /\ Arena!Next
<1>1. PICK e \in held[p] : held' = [held EXCEPT ![p] = held[p] \ {e}] /\ Mfree(e)
  BY DEF FreeSegment
<1>2. UNCHANGED <<cache, ask>> /\ Real(e)
  BY RealSegments DEF FreeSegment
<1> DEFINE K == {}
           r == e
<1>3. UnitsOf(K) = {} /\ (held[p] \ {e}) \cup K = held[p] \ {e}
  BY UnitsOfSets
<1>4. /\ held' = [held EXCEPT ![p] = (held[p] \ {e}) \cup K]
      /\ Units(e) = UnitsOf(K) \cup Units(r) /\ UnitsOf(K) \cap Units(r) = {}
      /\ Real(r) /\ Mfree(r)
  BY <1>1, <1>2, <1>3
<1> HIDE DEF K, r
<1> QED
  BY <1>2, <1>4, KeepIsRelease

LEMMA ShrinkIsRelease ==
    ASSUME IInv, InArray, NEW p \in Proc, Shrink(p)
    PROVE  InArray' /\ Arena!Next
<1>1. PICK e \in held[p], n \in 1..Size :
         /\ n < e.size
         /\ \/ /\ held' = [held EXCEPT ![p] = (held[p] \ {e}) \cup {Seg(e.size - n, e.addr)}]
               /\ Mfree(Seg(n, e.addr + e.size - n))
            \/ /\ held' = [held EXCEPT ![p] = (held[p] \ {e}) \cup {Seg(e.size - n, e.addr + n)}]
               /\ Mfree(Seg(n, e.addr))
  BY DEF Shrink
<1>2. UNCHANGED <<cache, ask>>
  BY DEF Shrink
<1>3. Real(e) /\ e.size \in Nat /\ e.addr \in Nat /\ n \in Nat /\ n > 0 /\ n < e.size
  BY <1>1, RealSegments, UnitsFacts, SizeAssumption DEF Real
<1>4. \A g : UnitsOf({g}) = Units(g)
  BY DEF UnitsOf
<1> DEFINE d == e.size - n
           low == Seg(d, e.addr)
           high == Seg(n, e.addr + d)
           first == Seg(n, e.addr)
           rest == Seg(d, e.addr + n)
<1>5. d \in Nat /\ d > 0 /\ d < e.size /\ e.size - d = n /\ e.addr + d = e.addr + e.size - n
  BY <1>3
<1>6. /\ Real(low) /\ Real(high)
      /\ Units(e) = Units(low) \cup Units(high) /\ Units(low) \cap Units(high) = {}
  <2> HIDE DEF d
  <2>1. /\ Real(Seg(d, e.addr)) /\ Real(Seg(e.size - d, e.addr + d))
        /\ Units(e) = Units(Seg(d, e.addr)) \cup Units(Seg(e.size - d, e.addr + d))
        /\ Units(Seg(d, e.addr)) \cap Units(Seg(e.size - d, e.addr + d)) = {}
    BY <1>3, <1>5, CutUnits
  <2>2. high = Seg(e.size - d, e.addr + d)
    BY <1>5
  <2> HIDE DEF high
  <2> QED
    BY <2>1, <2>2
<1>7. /\ Real(first) /\ Real(rest)
      /\ Units(e) = Units(first) \cup Units(rest) /\ Units(first) \cap Units(rest) = {}
  BY <1>3, CutUnits
<1>8. CASE held' = [held EXCEPT ![p] = (held[p] \ {e}) \cup {low}] /\ Mfree(high)
  <2> HIDE DEF low, high
  <2>1. Units(e) = UnitsOf({low}) \cup Units(high) /\ UnitsOf({low}) \cap Units(high) = {}
    BY <1>4, <1>6
  <2> QED
    BY <1>2, <1>6, <1>8, <2>1, KeepIsRelease
<1>9. CASE held' = [held EXCEPT ![p] = (held[p] \ {e}) \cup {rest}] /\ Mfree(first)
  <2> HIDE DEF rest, first
  <2>1. Units(e) = UnitsOf({rest}) \cup Units(first) /\ UnitsOf({rest}) \cap Units(first) = {}
    BY <1>4, <1>7
  <2> QED
    BY <1>2, <1>7, <1>9, <2>1, KeepIsRelease
<1>10. high = Seg(n, e.addr + e.size - n)
  BY <1>5
<1> QED
  BY <1>1, <1>8, <1>9, <1>10

LEMMA XfreeIsPark ==
    ASSUME IInv, InArray, NEW p \in Proc, Xfree(p)
    PROVE  InArray' /\ Arena!Next
<1>1. PICK e \in held[p] : held' = [held EXCEPT ![p] = held[p] \ {e}] /\ cache' = cache \cup {e}
  BY DEF Xfree
<1>2. UNCHANGED <<map, lost, ask>>
  BY DEF Xfree
<1>3. /\ UnitsOf(held[p] \ {e}) = UnitsOf(held[p]) \ Units(e)
      /\ UnitsOf(cache') = UnitsOf(cache) \cup Units(e)
      /\ Units(e) \in SUBSET UnitsOf(held[p])
  BY <1>1, UnitsWithout DEF UnitsOf
<1>4. [q \in Proc |-> UnitsOf(held'[q])]
         = [[q \in Proc |-> UnitsOf(held[q])] EXCEPT ![p] = UnitsOf(held[p]) \ Units(e)]
  BY <1>1, <1>3, UnitsOfHeld DEF IInv, TypeOK
<1>5. [q \in Proc |-> UnitsOf(held[q])][p] = UnitsOf(held[p])
  OBVIOUS
<1>6. FreeUnits(map') = FreeUnits(map) /\ UnitsOf(lost') = UnitsOf(lost) /\ InArray'
  BY <1>2 DEF InArray
<1>7. Arena!Park(p)
  BY <1>2, <1>3, <1>4, <1>5, <1>6 DEF Arena!Park
<1> QED
  BY <1>6, <1>7 DEF Arena!Next

LEMMA XallocIsAdopt ==
    ASSUME IInv, InArray, NEW p \in Proc, Xalloc(p)
    PROVE  InArray' /\ Arena!Next
<1>1. PICK e \in cache : held' = [held EXCEPT ![p] = held[p] \cup {e}] /\ cache' = cache \ {e}
  BY DEF Xalloc
<1>2. UNCHANGED <<map, lost, ask>>
  BY DEF Xalloc
<1>3. /\ UnitsOf(held[p] \cup {e}) = UnitsOf(held[p]) \cup Units(e)
      /\ UnitsOf(cache') = UnitsOf(cache) \ Units(e)
      /\ Units(e) \in SUBSET UnitsOf(cache)
  BY <1>1, UnitsWithout DEF UnitsOf
<1>4. [q \in Proc |-> UnitsOf(held'[q])]
         = [[q \in Proc |-> UnitsOf(held[q])] EXCEPT ![p] = UnitsOf(held[p]) \cup Units(e)]
  BY <1>1, <1>3, UnitsOfHeld DEF IInv, TypeOK
<1>5. [q \in Proc |-> UnitsOf(held[q])][p] = UnitsOf(held[p])
  OBVIOUS
<1>6. FreeUnits(map') = FreeUnits(map) /\ UnitsOf(lost') = UnitsOf(lost) /\ InArray'
  BY <1>2 DEF InArray
<1>7. Arena!Adopt(p)
  BY <1>2, <1>3, <1>4, <1>5, <1>6 DEF Arena!Adopt
<1> QED
  BY <1>6, <1>7 DEF Arena!Next

(* A step that moves no unit and makes nobody wait. *)
LEMMA StillIsStutter ==
    ASSUME InArray, UNCHANGED <<map, held, cache, lost, ask>>
    PROVE  InArray' /\ UNCHANGED Arena!vars
BY DEF InArray, Arena!vars

(* startup frees all of core. *)
LEMMA FreeAtStart == Init => FreeUnits(map) = 1..Size
<1> SUFFICES ASSUME Init PROVE FreeUnits(map) = 1..Size
  OBVIOUS
<1> DEFINE e == Seg(Size, 1)
<1>1. map = <<e>> /\ e \in Segment /\ e.size = Size /\ e.addr = 1 /\ Size \in Nat
  BY SegFacts, SizeAssumption DEF Init
<1> HIDE DEF e
<1>2. DOMAIN map = {1} /\ map[1] = e
  BY <1>1
<1>3. FreeUnits(map) = Units(e)
  BY <1>2 DEF FreeUnits
<1> QED
  BY <1>1, <1>3 DEF Units

LEMMA ArenaInit == Init => InArray /\ Arena!Init
<1> SUFFICES ASSUME Init PROVE InArray /\ Arena!Init
  OBVIOUS
<1>1. Len(map) = 1 /\ InArray
  BY SizeAssumption DEF Init, InArray
<1>2. UnitsOf({}) = {}
  BY DEF UnitsOf
<1>3. [p \in Proc |-> UnitsOf(held[p])] = [p \in Proc |-> {}]
  BY <1>2 DEF Init
<1>4. FreeUnits(map) = 1..Size
  BY FreeAtStart
<1> QED
  BY <1>1, <1>2, <1>3, <1>4 DEF Init, Arena!Init

LEMMA ArenaNext == IInv /\ InArray /\ [Next]_vars => InArray' /\ [Arena!Next]_(Arena!vars)
<1> SUFFICES ASSUME IInv, InArray, [Next]_vars
             PROVE  InArray' /\ (Arena!Next \/ UNCHANGED Arena!vars)
  OBVIOUS
<1>1. ASSUME NEW p \in Proc, NEW sz \in Asks, Malloc(p, sz) PROVE InArray' /\ Arena!Next
  BY <1>1, MallocIsArena
<1>2. ASSUME NEW p \in Proc, Xuncore(p) \/ Again(p) PROVE InArray' /\ Arena!Next
  BY <1>2, XuncoreIsReclaim, AgainIsArena
<1>3. ASSUME NEW p \in Proc, FreeSegment(p) \/ Shrink(p) PROVE InArray' /\ Arena!Next
  BY <1>3, FreeSegmentIsRelease, ShrinkIsRelease
<1>4. ASSUME NEW p \in Proc, Xfree(p) \/ Xalloc(p) PROVE InArray' /\ Arena!Next
  BY <1>4, XfreeIsPark, XallocIsAdopt
<1>5. ASSUME NEW p \in Proc, XuncoreEnds(p) PROVE InArray' /\ UNCHANGED Arena!vars
  BY <1>5, StillIsStutter DEF XuncoreEnds
<1>6. CASE UNCHANGED vars
  BY <1>6, StillIsStutter DEF vars
<1> QED
  BY <1>1, <1>2, <1>3, <1>4, <1>5, <1>6 DEF Next

(* The map implements an arena of single units: malloc and malloc3         *)
(* (subr_rmap.c) hand out as many free units as were asked for, and no     *)
(* others; they fail only when no run of free units is as long as all that *)
(* was asked for; mfree loses a segment only when the array is full of     *)
(* runs that do not touch it.                                              *)
THEOREM ArenaImplemented == Spec => ArenaSpec
BY ArenaInit, ArenaNext, Invariant, PTL DEF Spec, ArenaSpec, Arena!Spec

=============================================================================

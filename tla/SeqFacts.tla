------------------------------ MODULE SeqFacts ------------------------------
(***************************************************************************)
(* What the list operations of the kernel's queues do to a sequence without *)
(* repetition: to its elements as a set, and to there being no repetition; *)
(* and what one element more or less does to the size of a finite set.     *)
(***************************************************************************)
EXTENDS SequencesExt, Integers, TLAPS, SequenceTheorems,
        FiniteSetTheorems, WellFoundedInduction

(* Every set of naturals that is not empty has a least element. *)
LEMMA LeastNat ==
    ASSUME NEW T, T \subseteq Nat, T # {}
    PROVE  \E x \in T : \A y \in T : x <= y
<1>1. PICK x \in T : \A y \in T : ~(<<y, x>> \in OpToRel(<, Nat))
  BY NatLessThanWellFounded, WFMin
<1>2. \A y \in T : ~(y < x)
  BY <1>1 DEF OpToRel
<1> QED BY <1>2

(* And every bounded one a largest. *)
LEMMA GreatestNat ==
    ASSUME NEW T, T \subseteq Nat, T # {}, NEW n \in Nat, \A x \in T : x <= n
    PROVE  \E x \in T : \A y \in T : y <= x
<1> DEFINE U == {n - x : x \in T}
<1>0. \A x \in T : n - x \in Nat
  OBVIOUS
<1>1. U \subseteq Nat /\ U # {}
  BY <1>0
<1>2. PICK u \in U : \A v \in U : u <= v
  BY <1>1, LeastNat
<1>3. PICK x \in T : u = n - x
  OBVIOUS
<1>4. ASSUME NEW y \in T PROVE y <= x
  <2>1. n - y \in U
    OBVIOUS
  <2> QED BY SMTT(30), <2>1, <1>2, <1>3
<1> QED BY <1>4

(* Induction, for sets. *)
LEMMA NatInduct ==
    ASSUME NEW T, 0 \in T, \A n \in Nat : n \in T => n + 1 \in T
    PROVE  Nat \subseteq T
<1> SUFFICES ASSUME Nat \ T # {} PROVE FALSE
  OBVIOUS
<1>1. PICK x \in Nat \ T : \A y \in Nat \ T : x <= y
  BY LeastNat
<1>2. x - 1 \in Nat /\ (x - 1) + 1 = x /\ ~(x <= x - 1)
  BY <1>1
<1> QED
  BY <1>1, <1>2

(* A function can be applied any number of times. *)
LEMMA Iterates ==
    ASSUME NEW S, NEW s \in S, NEW F \in [S -> S]
    PROVE  \E g \in [Nat -> S] : g[0] = s /\ \A n \in Nat : g[n + 1] = F[g[n]]
<1> DEFINE Part(n) == {f \in [0..n -> S] : f[0] = s /\ \A i \in 0..(n - 1) : f[i + 1] = F[f[i]]}
<1>1. \A n \in Nat : Part(n) # {}
  <2> DEFINE T == {n \in Nat : Part(n) # {}}
  <2>1. 0 \in T
    <3>1. [i \in 0..0 |-> s] \in Part(0)
      OBVIOUS
    <3> QED
      BY <3>1
  <2>2. ASSUME NEW n \in Nat, n \in T PROVE n + 1 \in T
    <3>1. PICK f \in [0..n -> S] : f[0] = s /\ \A i \in 0..(n - 1) : f[i + 1] = F[f[i]]
      BY <2>2
    <3> DEFINE h == [i \in 0..(n + 1) |-> IF i = n + 1 THEN F[f[n]] ELSE f[i]]
    <3>2. h \in [0..(n + 1) -> S]
      BY <3>1
    <3>3. h[0] = s
      BY <3>1
    <3>4. ASSUME NEW i \in 0..n PROVE h[i + 1] = F[h[i]]
      <4>1. CASE i = n
        BY <4>1
      <4>2. CASE i # n
        <5>1. i \in 0..(n - 1) /\ i + 1 \in 0..n /\ i + 1 # n + 1 /\ i # n + 1
          BY <4>2
        <5> QED
          BY <3>1, <5>1
      <4> QED
        BY <4>1, <4>2
    <3>5. (n + 1) - 1 = n /\ n + 1 \in Nat
      OBVIOUS
    <3> HIDE DEF h
    <3> QED
      BY <3>2, <3>3, <3>4, <3>5
  <2> HIDE DEF T
  <2>3. Nat \subseteq T
    BY <2>1, <2>2, NatInduct
  <2> QED
    BY <2>3 DEF T
<1>2. ASSUME NEW m \in Nat, NEW n \in Nat, NEW f \in Part(m), NEW h \in Part(n)
      PROVE  \A i \in Nat : i <= m /\ i <= n => f[i] = h[i]
  <2> DEFINE T == {i \in Nat : i <= m /\ i <= n => f[i] = h[i]}
  <2>1. 0 \in T
    OBVIOUS
  <2>2. ASSUME NEW i \in Nat, i \in T PROVE i + 1 \in T
    <3> SUFFICES ASSUME i + 1 <= m, i + 1 <= n PROVE f[i + 1] = h[i + 1]
      OBVIOUS
    <3>1. i \in 0..(m - 1) /\ i \in 0..(n - 1) /\ i <= m /\ i <= n
      OBVIOUS
    <3> QED
      BY <2>2, <3>1
  <2> HIDE DEF T
  <2>3. Nat \subseteq T
    BY <2>1, <2>2, NatInduct
  <2> QED
    BY <2>3 DEF T
<1> DEFINE a == [n \in Nat |-> CHOOSE f \in Part(n) : TRUE]
           g == [n \in Nat |-> a[n][n]]
<1>3. \A n \in Nat : a[n] \in Part(n)
  BY <1>1
<1> HIDE DEF a
<1>4. g \in [Nat -> S]
  <2>1. \A n \in Nat : n \in 0..n
    OBVIOUS
  <2> QED
    BY <1>3, <2>1
<1>5. g[0] = s
  BY <1>3
<1>6. ASSUME NEW n \in Nat PROVE g[n + 1] = F[g[n]]
  <2>1. n + 1 \in Nat /\ n \in 0..((n + 1) - 1) /\ n <= n /\ n <= n + 1
    OBVIOUS
  <2>2. a[n + 1][n + 1] = F[a[n + 1][n]]
    BY <1>3, <2>1
  <2>3. a[n + 1][n] = a[n][n]
    <3>1. a[n + 1] \in Part(n + 1) /\ a[n] \in Part(n)
      BY <1>3, <2>1
    <3> HIDE DEF Part, g
    <3> QED BY Zenon, <1>2, <2>1, <3>1
  <2>4. g[n + 1] = a[n + 1][n + 1] /\ g[n] = a[n][n]
    BY <2>1
  <2> HIDE DEF g
  <2> QED
    BY <2>2, <2>3, <2>4
<1> HIDE DEF g
<1> QED
  BY <1>4, <1>5, <1>6
(* Simple s: a sequence over S in which no element appears twice. *)
Simple(s, S) == s \in Seq(S) /\ IsInjective(s)

(* A longer list: e put in at place k. *)
LEMMA InsertElements ==
    ASSUME NEW S, NEW s \in Seq(S), NEW e \in S, NEW k \in 1..(Len(s) + 1)
    PROVE  /\ InsertAt(s, k, e) \in Seq(S)
           /\ Len(InsertAt(s, k, e)) = Len(s) + 1
           /\ \A j \in 1..(k - 1) : InsertAt(s, k, e)[j] = s[j]
           /\ InsertAt(s, k, e)[k] = e
           /\ \A j \in (k + 1)..(Len(s) + 1) : InsertAt(s, k, e)[j] = s[j - 1]
<1> DEFINE i == k - 1
           a == SubSeq(s, 1, i)
           c == SubSeq(s, k, Len(s))
           ae == a \o <<e>>
           u == ae \o c
<1>0. i \in Nat /\ i + 1 = k /\ i <= Len(s) /\ k \in Nat
  BY LenProperties
<1> HIDE DEF i
<1>1. Len(s) \in Nat /\ i \in Nat /\ <<e>> \in Seq(S) /\ Len(<<e>>) = 1 /\ <<e>>[1] = e
  BY <1>0, LenProperties
<1>2. a \in Seq(S) /\ Len(a) = i /\ \A j \in 1..i : a[j] = s[j]
  BY <1>0, <1>1, SubSeqProperties
<1>3. c \in Seq(S) /\ Len(c) = Len(s) - i /\ \A j \in 1..(Len(s) - i) : c[j] = s[i + j]
  BY <1>0, <1>1, SubSeqProperties
<1>4. /\ ae \in Seq(S) /\ Len(ae) = i + 1
      /\ \A j \in 1..(i + 1) : ae[j] = IF j <= i THEN s[j] ELSE e
  BY <1>1, <1>2, ConcatProperties
<1>6. InsertAt(s, k, e) = u
  BY DEF InsertAt, i
<1> HIDE DEF a, c, ae
<1>5. /\ u \in Seq(S) /\ Len(u) = Len(s) + 1
      /\ \A j \in 1..(Len(s) + 1) : u[j] = IF j <= i + 1 THEN ae[j] ELSE c[j - (i + 1)]
  <2>1. (i + 1) + (Len(s) - i) = Len(s) + 1
    BY <1>1
  <2>2. /\ ae \o c \in Seq(S) /\ Len(ae \o c) = Len(ae) + Len(c)
        /\ \A j \in 1..(Len(ae) + Len(c)) : (ae \o c)[j] = IF j <= Len(ae) THEN ae[j]
                                                            ELSE c[j - Len(ae)]
    BY <1>3, <1>4, ConcatProperties
  <2> QED BY <2>1, <2>2, <1>3, <1>4
<1> HIDE DEF u
<1>7. ASSUME NEW j \in 1..(k - 1) PROVE u[j] = s[j]
  <2>1. j \in 1..(Len(s) + 1) /\ j \in 1..(i + 1) /\ j <= i /\ j <= i + 1
    BY <1>0, <1>1
  <2>2. u[j] = ae[j] /\ ae[j] = s[j]
    BY <2>1, <1>4, <1>5
  <2> QED BY <2>2
<1>8. u[k] = e
  <2>1. k \in 1..(Len(s) + 1) /\ k \in 1..(i + 1) /\ k <= i + 1 /\ ~(k <= i)
    BY <1>0, <1>1
  <2>2. u[k] = ae[k] /\ ae[k] = e
    BY <2>1, <1>4, <1>5
  <2> QED BY <2>2
<1>9. ASSUME NEW j \in (k + 1)..(Len(s) + 1) PROVE u[j] = s[j - 1]
  <2>1. j - (i + 1) \in 1..(Len(s) - i) /\ i + (j - (i + 1)) = j - 1
    BY <1>0, <1>1
  <2>2. c[j - (i + 1)] = s[j - 1]
    BY <2>1, <1>3
  <2>3. j \in 1..(Len(s) + 1) /\ ~(j <= i + 1)
    BY <1>0, <1>1
  <2> QED BY <2>2, <2>3, <1>5
<1> QED BY <1>5, <1>6, <1>7, <1>8, <1>9

(* A shorter list: the i-th element taken out. *)
LEMMA RemoveElements ==
    ASSUME NEW S, NEW s \in Seq(S), NEW i \in 1..Len(s)
    PROVE  /\ RemoveAt(s, i) \in Seq(S)
           /\ Len(RemoveAt(s, i)) = Len(s) - 1
           /\ \A j \in 1..(i - 1) : RemoveAt(s, i)[j] = s[j]
           /\ \A j \in i..(Len(s) - 1) : RemoveAt(s, i)[j] = s[j + 1]
<1> DEFINE a == SubSeq(s, 1, i - 1)
           c == SubSeq(s, i + 1, Len(s))
           u == a \o c
<1>1. Len(s) \in Nat /\ i \in Nat
  BY LenProperties
<1>2. a \in Seq(S) /\ Len(a) = i - 1 /\ \A j \in 1..(i - 1) : a[j] = s[j]
  BY <1>1, SubSeqProperties
<1>3. c \in Seq(S) /\ Len(c) = Len(s) - i /\ \A j \in 1..(Len(s) - i) : c[j] = s[i + j]
  BY <1>1, SubSeqProperties
<1>4. RemoveAt(s, i) = u
  BY DEF RemoveAt
<1> HIDE DEF a, c
<1>5. /\ u \in Seq(S) /\ Len(u) = Len(s) - 1
      /\ \A j \in 1..(Len(s) - 1) : u[j] = IF j <= i - 1 THEN a[j] ELSE c[j - (i - 1)]
  <2>1. (i - 1) + (Len(s) - i) = Len(s) - 1
    BY <1>1
  <2>2. /\ a \o c \in Seq(S) /\ Len(a \o c) = Len(a) + Len(c)
        /\ \A j \in 1..(Len(a) + Len(c)) : (a \o c)[j] = IF j <= Len(a) THEN a[j]
                                                          ELSE c[j - Len(a)]
    BY <1>2, <1>3, ConcatProperties
  <2> QED BY <2>1, <2>2, <1>2, <1>3
<1> HIDE DEF u
<1>6. ASSUME NEW j \in 1..(i - 1) PROVE u[j] = s[j]
  <2>1. j \in 1..(Len(s) - 1) /\ j <= i - 1
    BY <1>1
  <2>2. u[j] = a[j]
    BY <2>1, <1>5
  <2> QED BY <2>2, <1>2
<1>7. ASSUME NEW j \in i..(Len(s) - 1) PROVE u[j] = s[j + 1]
  <2>1. j - (i - 1) \in 1..(Len(s) - i) /\ i + (j - (i - 1)) = j + 1
    BY <1>1
  <2>2. c[j - (i - 1)] = s[j + 1]
    BY <2>1, <1>3
  <2>3. j \in 1..(Len(s) - 1) /\ ~(j <= i - 1)
    BY <1>1
  <2> QED BY <2>2, <2>3, <1>5
<1> QED BY <1>4, <1>5, <1>6, <1>7

-----------------------------------------------------------------------------
(* The same operations on sequences without repetition. *)

LEMMA InsertSimple ==
    ASSUME NEW S, NEW s, Simple(s, S), NEW e \in S, e \notin ToSet(s), NEW k \in 1..(Len(s) + 1)
    PROVE  Simple(InsertAt(s, k, e), S) /\ ToSet(InsertAt(s, k, e)) = ToSet(s) \cup {e}
<1> DEFINE t == InsertAt(s, k, e)
<1>1. s \in Seq(S) /\ IsInjective(s) /\ Len(s) \in Nat /\ DOMAIN s = 1..Len(s) /\ k \in Nat
  BY LenProperties DEF Simple
<1>2. /\ t \in Seq(S) /\ Len(t) = Len(s) + 1
      /\ \A j \in 1..(k - 1) : t[j] = s[j]
      /\ t[k] = e
      /\ \A j \in (k + 1)..(Len(s) + 1) : t[j] = s[j - 1]
  <2>1. s \in Seq(S)
    BY DEF Simple
  <2> QED BY <2>1, InsertElements
<1>3. DOMAIN t = 1..(Len(s) + 1)
  BY <1>2, LenProperties
<1> HIDE DEF t
<1>4. \A j \in 1..Len(s) : s[j] # e
  BY <1>1 DEF ToSet
<1>5. IsInjective(t)
  <2> SUFFICES ASSUME NEW j \in 1..(Len(s) + 1), NEW h \in 1..(Len(s) + 1), t[j] = t[h]
               PROVE  j = h
    BY <1>3 DEF IsInjective
  <2>1. \A m, n \in 1..Len(s) : s[m] = s[n] => m = n
    BY <1>1 DEF IsInjective
  <2>2. ASSUME NEW i \in 1..(Len(s) + 1), i # k
        PROVE  \E m \in 1..Len(s) : /\ t[i] = s[m]
                                    /\ (m < k /\ i = m) \/ (m >= k /\ i = m + 1)
    <3>1. CASE i < k
      <4>1. i \in 1..Len(s) /\ i \in 1..(k - 1)
        BY <1>1, <3>1
      <4> QED BY <1>2, <3>1, <4>1
    <3>2. CASE i > k
      <4>1. i - 1 \in 1..Len(s) /\ i - 1 >= k /\ i = (i - 1) + 1 /\ i \in (k + 1)..(Len(s) + 1)
        BY <1>1, <3>2
      <4> QED BY <1>2, <4>1
    <3> QED BY <1>1, <2>2, <3>1, <3>2
  <2>3. CASE j = k
    <3>1. t[h] = e
      BY <1>2, <2>3
    <3>2. h = k
      BY <1>4, <2>2, <3>1
    <3> QED BY <2>3, <3>2
  <2>4. CASE h = k
    <3>1. t[j] = e
      BY <1>2, <2>4
    <3>2. j = k
      BY <1>4, <2>2, <3>1
    <3> QED BY <2>4, <3>2
  <2>5. CASE j # k /\ h # k
    <3>1. PICK m \in 1..Len(s) : t[j] = s[m] /\ ((m < k /\ j = m) \/ (m >= k /\ j = m + 1))
      BY <2>2, <2>5
    <3>2. PICK n \in 1..Len(s) : t[h] = s[n] /\ ((n < k /\ h = n) \/ (n >= k /\ h = n + 1))
      BY <2>2, <2>5
    <3>3. m = n
      BY <2>1, <3>1, <3>2
    <3>4. m \in Nat /\ k \in Nat /\ (m < k => ~(m >= k))
      BY <1>1
    <3> QED BY <3>1, <3>2, <3>3, <3>4
  <2> QED BY <2>3, <2>4, <2>5
<1>6. ToSet(t) = ToSet(s) \cup {e}
  <2>1. ASSUME NEW j \in 1..(Len(s) + 1) PROVE t[j] \in ToSet(s) \cup {e}
    <3>1. CASE j < k
      <4>1. j \in 1..(k - 1) /\ j \in 1..Len(s)
        BY <1>1, <3>1
      <4> QED BY <1>1, <1>2, <4>1 DEF ToSet
    <3>2. CASE j = k
      BY <1>2, <3>2
    <3>3. CASE j > k
      <4>1. j \in (k + 1)..(Len(s) + 1) /\ j - 1 \in 1..Len(s)
        BY <1>1, <3>3
      <4> QED BY <1>1, <1>2, <4>1 DEF ToSet
    <3> QED BY <1>1, <3>1, <3>2, <3>3
  <2>2. ASSUME NEW j \in 1..Len(s) PROVE s[j] \in ToSet(t)
    <3>1. CASE j < k
      <4>1. j \in 1..(Len(s) + 1) /\ t[j] = s[j]
        BY <1>1, <1>2, <3>1
      <4> QED BY <4>1, <1>3 DEF ToSet
    <3>2. CASE j >= k
      <4>1. j + 1 \in 1..(Len(s) + 1) /\ t[j + 1] = s[j]
        BY <1>1, <1>2, <3>2
      <4> QED BY <4>1, <1>3 DEF ToSet
    <3> QED BY <3>1, <3>2, <1>1
  <2>3. e \in ToSet(t)
    <3>1. k \in 1..(Len(s) + 1) /\ t[k] = e
      BY <1>1, <1>2
    <3> QED BY <3>1, <1>3 DEF ToSet
  <2> QED BY <2>1, <2>2, <2>3, <1>1, <1>3 DEF ToSet
<1> QED BY <1>2, <1>5, <1>6 DEF Simple, t

LEMMA RemoveSimple ==
    ASSUME NEW S, NEW s, Simple(s, S), NEW i \in 1..Len(s)
    PROVE  Simple(RemoveAt(s, i), S) /\ ToSet(RemoveAt(s, i)) = ToSet(s) \ {s[i]}
<1> DEFINE t == RemoveAt(s, i)
<1>1. s \in Seq(S) /\ IsInjective(s) /\ Len(s) \in Nat /\ DOMAIN s = 1..Len(s) /\ i \in Nat
  <2>1. s \in Seq(S) /\ IsInjective(s)
    BY DEF Simple
  <2> QED BY <2>1, LenProperties
<1>2. /\ t \in Seq(S) /\ Len(t) = Len(s) - 1
      /\ \A j \in 1..(i - 1) : t[j] = s[j]
      /\ \A j \in i..(Len(s) - 1) : t[j] = s[j + 1]
  BY ZenonT(30), <1>1, RemoveElements
<1>3. DOMAIN t = 1..(Len(s) - 1)
  BY <1>2, LenProperties
<1> HIDE DEF t
<1>4. \A m, n \in 1..Len(s) : s[m] = s[n] => m = n
  BY <1>1 DEF IsInjective
<1>5. IsInjective(t)
  <2> SUFFICES ASSUME NEW j \in 1..(Len(s) - 1), NEW k \in 1..(Len(s) - 1), t[j] = t[k]
               PROVE  j = k
    BY <1>3 DEF IsInjective
  <2>1. CASE j < i /\ k < i
    BY <2>1, <1>1, <1>2, <1>4
  <2>2. CASE j >= i /\ k >= i
    <3>1. s[j + 1] = s[k + 1] /\ j + 1 \in 1..Len(s) /\ k + 1 \in 1..Len(s)
      BY <2>2, <1>1, <1>2
    <3>2. j + 1 = k + 1
      BY <3>1, <1>4
    <3> QED BY <3>2
  <2>3. CASE j < i /\ k >= i
    <3>1. s[j] = s[k + 1] /\ j \in 1..Len(s) /\ k + 1 \in 1..Len(s)
      BY <2>3, <1>1, <1>2
    <3>2. j = k + 1
      BY <3>1, <1>4
    <3> QED BY <3>2, <2>3, <1>1
  <2>4. CASE j >= i /\ k < i
    <3>1. s[j + 1] = s[k] /\ j + 1 \in 1..Len(s) /\ k \in 1..Len(s)
      BY <2>4, <1>1, <1>2
    <3>2. j + 1 = k
      BY <3>1, <1>4
    <3> QED BY <3>2, <2>4, <1>1
  <2> QED BY <2>1, <2>2, <2>3, <2>4, <1>1
<1>6. ToSet(t) = ToSet(s) \ {s[i]}
  <2>1. ASSUME NEW j \in 1..(Len(s) - 1) PROVE t[j] \in ToSet(s) \ {s[i]}
    <3>1. \E k \in 1..Len(s) : t[j] = s[k] /\ k # i
      <4>1. CASE j < i BY <4>1, <1>1, <1>2
      <4>2. CASE j >= i
        <5>1. j + 1 \in 1..Len(s) /\ t[j] = s[j + 1] /\ j + 1 # i
          BY <4>2, <1>1, <1>2
        <5> QED BY <5>1
      <4> QED BY <4>1, <4>2, <1>1
    <3> QED BY <3>1, <1>1, <1>4 DEF ToSet
  <2>2. ASSUME NEW j \in 1..Len(s), j # i PROVE s[j] \in ToSet(t)
    <3>1. CASE j < i
      <4>1. j \in 1..(Len(s) - 1) /\ t[j] = s[j]
        BY <1>1, <1>2, <3>1
      <4> QED BY <4>1, <1>3 DEF ToSet
    <3>2. CASE j > i
      <4>1. j - 1 \in 1..(Len(s) - 1) /\ t[j - 1] = s[j]
        BY <1>1, <1>2, <3>2
      <4> QED BY <4>1, <1>3 DEF ToSet
    <3> QED BY <3>1, <3>2, <2>2, <1>1
  <2> QED BY <2>1, <2>2, <1>1, <1>3 DEF ToSet
<1> QED BY <1>2, <1>5, <1>6 DEF Simple, t

LEMMA AppendSimple ==
    ASSUME NEW S, NEW s, Simple(s, S), NEW e \in S, e \notin ToSet(s)
    PROVE  Simple(Append(s, e), S) /\ ToSet(Append(s, e)) = ToSet(s) \cup {e}
<1>1. s \in Seq(S) /\ Len(s) \in Nat /\ Len(s) + 1 \in 1..(Len(s) + 1) /\ DOMAIN s = 1..Len(s)
  BY LenProperties DEF Simple
<1>2. Append(s, e) = InsertAt(s, Len(s) + 1, e)
  <2> DEFINE t == InsertAt(s, Len(s) + 1, e)
             u == Append(s, e)
  <2>1. /\ t \in Seq(S) /\ Len(t) = Len(s) + 1 /\ \A j \in 1..Len(s) : t[j] = s[j]
        /\ t[Len(s) + 1] = e
    <3> HIDE DEF t, u
    <3>1. PICK k \in 1..(Len(s) + 1) : k = Len(s) + 1
      BY <1>1
    <3>2. /\ InsertAt(s, k, e) \in Seq(S) /\ Len(InsertAt(s, k, e)) = Len(s) + 1
          /\ \A j \in 1..(k - 1) : InsertAt(s, k, e)[j] = s[j]
          /\ InsertAt(s, k, e)[k] = e
      <4>1. s \in Seq(S)
        BY <1>1
      <4> QED BY <4>1, InsertElements
    <3>3. t = InsertAt(s, k, e) /\ 1..(k - 1) = 1..Len(s)
      BY <1>1, <3>1 DEF t
    <3>4. \A j \in 1..Len(s) : t[j] = s[j]
      BY <3>2, <3>3
    <3>5. t[k] = e /\ t \in Seq(S) /\ Len(t) = Len(s) + 1
      BY <3>2, <3>3
    <3>6. t[Len(s) + 1] = e
      BY Zenon, <3>1, <3>5
    <3> QED BY Zenon, <3>4, <3>5, <3>6
  <2>2. /\ u \in Seq(S) /\ Len(u) = Len(s) + 1 /\ \A j \in 1..Len(s) : u[j] = s[j]
        /\ u[Len(s) + 1] = e
    BY <1>1, AppendProperties
  <2> HIDE DEF t, u
  <2>3. \A j \in 1..Len(t) : t[j] = u[j]
    BY <2>1, <2>2, <1>1
  <2>4. t = u
    BY <2>1, <2>2, <2>3, SeqEqual
  <2> QED BY <2>4 DEF t, u
<1> QED BY <1>1, <1>2, InsertSimple

LEMMA ConsSimple ==
    ASSUME NEW S, NEW s, Simple(s, S), NEW e \in S, e \notin ToSet(s)
    PROVE  Simple(Cons(e, s), S) /\ ToSet(Cons(e, s)) = ToSet(s) \cup {e}
<1>1. s \in Seq(S) /\ Len(s) \in Nat /\ 1 \in 1..(Len(s) + 1) /\ <<e>> \in Seq(S) /\ Len(<<e>>) = 1
  BY LenProperties DEF Simple
<1>2. Cons(e, s) = InsertAt(s, 1, e)
  <2> DEFINE t == InsertAt(s, 1, e)
             u == Cons(e, s)
  <2>1. /\ t \in Seq(S) /\ Len(t) = Len(s) + 1
        /\ t[1] = e /\ \A j \in 2..(Len(s) + 1) : t[j] = s[j - 1]
    BY <1>1, InsertElements
  <2>2. /\ u \in Seq(S) /\ Len(u) = Len(s) + 1
        /\ u[1] = e /\ \A j \in 2..(Len(s) + 1) : u[j] = s[j - 1]
    <3>0. u = <<e>> \o s
      BY DEF Cons
    <3> HIDE DEF u
    <3>1. /\ u \in Seq(S) /\ Len(u) = Len(<<e>>) + Len(s)
          /\ \A j \in 1..(Len(<<e>>) + Len(s)) : u[j] = IF j <= Len(<<e>>) THEN <<e>>[j]
                                                        ELSE s[j - Len(<<e>>)]
      BY <3>0, <1>1, ConcatProperties
    <3> QED BY <3>1, <1>1
  <2> HIDE DEF t, u
  <2>3. ASSUME NEW j \in 1..Len(t) PROVE t[j] = u[j]
    <3>1. j = 1 \/ j \in 2..(Len(s) + 1)
      BY <2>1, <1>1
    <3> QED BY <3>1, <2>1, <2>2
  <2>4. t = u
    BY <2>1, <2>2, <2>3, SeqEqual
  <2> QED BY <2>4 DEF t, u
<1> QED BY <1>1, <1>2, InsertSimple

LEMMA TailSimple ==
    ASSUME NEW S, NEW s, Simple(s, S), s # <<>>
    PROVE  /\ Head(s) \in S /\ Head(s) \in ToSet(s)
           /\ Simple(Tail(s), S) /\ ToSet(Tail(s)) = ToSet(s) \ {Head(s)}
<1>1. s \in Seq(S) /\ Len(s) \in Nat /\ Len(s) # 0 /\ DOMAIN s = 1..Len(s)
  BY EmptySeq, LenProperties DEF Simple
<1>2. 1 \in 1..Len(s) /\ Head(s) = s[1]
  BY <1>1
<1>3. Tail(s) = RemoveAt(s, 1)
  <2> DEFINE t == RemoveAt(s, 1)
             u == Tail(s)
  <2>1. t \in Seq(S) /\ Len(t) = Len(s) - 1 /\ \A j \in 1..(Len(s) - 1) : t[j] = s[j + 1]
    BY ZenonT(30), <1>1, <1>2, RemoveElements
  <2>2. u \in Seq(S) /\ Len(u) = Len(s) - 1 /\ \A j \in 1..Len(u) : u[j] = s[j + 1]
    BY <1>1, HeadTailProperties
  <2> HIDE DEF t, u
  <2>3. \A j \in 1..Len(t) : t[j] = u[j]
    BY <2>1, <2>2, <1>1
  <2>4. t = u
    BY <2>1, <2>2, <2>3, SeqEqual
  <2> QED BY <2>4 DEF t, u
<1>4. Head(s) \in S /\ Head(s) \in ToSet(s)
  BY <1>1, <1>2, ElementOfSeq DEF ToSet
<1>5. Simple(RemoveAt(s, 1), S) /\ ToSet(RemoveAt(s, 1)) = ToSet(s) \ {s[1]}
  BY <1>2, RemoveSimple
<1> QED BY <1>2, <1>3, <1>4, <1>5

LEMMA ConcatSimple ==
    ASSUME NEW S, NEW s, NEW t, s \in Seq(S), t \in Seq(S)
    PROVE  IsInjective(s \o t) <=> /\ IsInjective(s) /\ IsInjective(t)
                                   /\ ToSet(s) \cap ToSet(t) = {}
<1>1. /\ Len(s) \in Nat /\ Len(t) \in Nat /\ DOMAIN s = 1..Len(s) /\ DOMAIN t = 1..Len(t)
      /\ s \o t \in Seq(S) /\ Len(s \o t) = Len(s) + Len(t)
      /\ DOMAIN (s \o t) = 1..(Len(s) + Len(t))
      /\ \A j \in 1..(Len(s) + Len(t)) : (s \o t)[j] = IF j <= Len(s) THEN s[j] ELSE t[j - Len(s)]
  BY LenProperties, ConcatProperties
<1> DEFINE u == s \o t
<1>a. \A j \in 1..(Len(s) + Len(t)) : u[j] = IF j <= Len(s) THEN s[j] ELSE t[j - Len(s)]
  BY <1>1
<1>b. DOMAIN u = 1..(Len(s) + Len(t))
  BY <1>1
<1> HIDE DEF u
<1>2. ASSUME IsInjective(u)
      PROVE  IsInjective(s) /\ IsInjective(t) /\ ToSet(s) \cap ToSet(t) = {}
  <2>1. \A j, k \in 1..(Len(s) + Len(t)) : u[j] = u[k] => j = k
    BY <1>2, <1>b DEF IsInjective
  <2>2. \A j \in 1..Len(s) : j \in 1..(Len(s) + Len(t)) /\ u[j] = s[j]
    BY <1>1, <1>a
  <2>3. \A j \in 1..Len(t) : j + Len(s) \in 1..(Len(s) + Len(t)) /\ u[j + Len(s)] = t[j]
    BY <1>1, <1>a
  <2>4. \A j, k \in 1..Len(s) : s[j] = s[k] => j = k
    BY <2>1, <2>2
  <2>5. ASSUME NEW j \in 1..Len(t), NEW k \in 1..Len(t), t[j] = t[k] PROVE j = k
    <3>1. u[j + Len(s)] = u[k + Len(s)]
      BY <2>3, <2>5
    <3>2. j + Len(s) = k + Len(s)
      BY <2>1, <2>3, <3>1
    <3> QED BY <1>1, <3>2
  <2>6. \A j \in 1..Len(s), k \in 1..Len(t) : s[j] # t[k]
    <3> SUFFICES ASSUME NEW j \in 1..Len(s), NEW k \in 1..Len(t), s[j] = t[k] PROVE FALSE
      OBVIOUS
    <3>1. u[j] = u[k + Len(s)]
      BY <2>2, <2>3
    <3>2. j = k + Len(s)
      BY <2>1, <2>2, <2>3, <3>1
    <3> QED BY <3>2, <1>1
  <2> QED BY <2>4, <2>5, <2>6, <1>1 DEF IsInjective, ToSet
<1>3. ASSUME IsInjective(s), IsInjective(t), ToSet(s) \cap ToSet(t) = {}
      PROVE  IsInjective(u)
  <2>1. \A j, k \in 1..Len(s) : s[j] = s[k] => j = k
    BY <1>1, <1>3 DEF IsInjective
  <2>2. \A j, k \in 1..Len(t) : t[j] = t[k] => j = k
    BY <1>1, <1>3 DEF IsInjective
  <2>3. \A j \in 1..Len(s), k \in 1..Len(t) : s[j] # t[k]
    BY <1>1, <1>3 DEF ToSet
  <2> SUFFICES ASSUME NEW j \in 1..(Len(s) + Len(t)), NEW k \in 1..(Len(s) + Len(t)), u[j] = u[k]
               PROVE  j = k
    BY <1>b DEF IsInjective
  <2>4. CASE j <= Len(s) /\ k <= Len(s)
    BY <2>4, <2>1, <1>1, <1>a
  <2>5. CASE j > Len(s) /\ k > Len(s)
    <3>1. j - Len(s) \in 1..Len(t) /\ k - Len(s) \in 1..Len(t)
      BY <2>5, <1>1
    <3>2. t[j - Len(s)] = t[k - Len(s)]
      BY <2>5, <1>1, <1>a
    <3> QED BY <3>1, <3>2, <2>2, <1>1
  <2>6. CASE j <= Len(s) /\ k > Len(s)
    <3>1. j \in 1..Len(s) /\ k - Len(s) \in 1..Len(t)
      BY <2>6, <1>1
    <3> QED BY <3>1, <2>6, <2>3, <1>1, <1>a
  <2>7. CASE j > Len(s) /\ k <= Len(s)
    <3>1. k \in 1..Len(s) /\ j - Len(s) \in 1..Len(t)
      BY <2>7, <1>1
    <3> QED BY <3>1, <2>7, <2>3, <1>1, <1>a
  <2> QED BY <2>4, <2>5, <2>6, <2>7, <1>1
<1> QED BY <1>2, <1>3 DEF u

LEMMA NoElements ==
    ASSUME NEW S, NEW s \in Seq(S)
    PROVE  s = <<>> <=> ToSet(s) = {}
<1>1. Len(s) \in Nat /\ DOMAIN s = 1..Len(s)
  BY LenProperties
<1>2. ASSUME s # <<>> PROVE ToSet(s) # {}
  <2>1. Len(s) # 0
    BY <1>2, EmptySeq
  <2>2. 1 \in DOMAIN s
    BY <2>1, <1>1
  <2> QED BY <2>2 DEF ToSet
<1>3. ASSUME s = <<>> PROVE ToSet(s) = {}
  <2>1. DOMAIN s = {}
    BY <1>3, <1>1
  <2> QED BY <2>1 DEF ToSet
<1> QED BY <1>2, <1>3

(* As many places as elements: a sequence of all of a finite set. *)
LEMMA FullSimple ==
    ASSUME NEW S, IsFiniteSet(S), NEW s \in [1..Cardinality(S) -> S], IsInjective(s)
    PROVE  Simple(s, S) /\ ToSet(s) = S
<1>1. Cardinality(S) \in Nat
  BY FS_CardinalityType
<1>2. IsFiniteSet(1..Cardinality(S)) /\ Cardinality(1..Cardinality(S)) = Cardinality(S)
  BY <1>1, FS_Interval
<1>3. s \in Seq(S)
  BY <1>1, SeqDef
<1>4. s \in Injection(1..Cardinality(S), S)
  BY DEF Injection, IsInjective
<1>5. s \in Surjection(1..Cardinality(S), S)
  BY <1>2, <1>4, FS_Injection
<1>6. ToSet(s) = S
  BY <1>5 DEF Surjection, ToSet
<1> QED BY <1>3, <1>6 DEF Simple

(* One element joins or leaves a finite set. *)
LEMMA CountOne ==
    ASSUME NEW U, IsFiniteSet(U), NEW S \in SUBSET U, NEW T \in SUBSET U, NEW x \in U,
           \A y \in U \ {x} : y \in S <=> y \in T
    PROVE  /\ Cardinality(S) \in Nat /\ Cardinality(T) \in Nat
           /\ Cardinality(T) = Cardinality(S) + (IF x \in T THEN 1 ELSE 0) - (IF x \in S THEN 1 ELSE 0)
<1>1. IsFiniteSet(S) /\ IsFiniteSet(T)
  BY FS_Subset
<1>2. T \ {x} = S \ {x}
  OBVIOUS
<1>3. Cardinality(S) \in Nat /\ Cardinality(T) \in Nat
  BY <1>1, FS_CardinalityType
<1>4. Cardinality(S \ {x}) = IF x \in S THEN Cardinality(S) - 1 ELSE Cardinality(S)
  BY <1>1, FS_RemoveElement
<1>5. Cardinality(T \ {x}) = IF x \in T THEN Cardinality(T) - 1 ELSE Cardinality(T)
  BY <1>1, FS_RemoveElement
<1>6. (IF x \in S THEN Cardinality(S) - 1 ELSE Cardinality(S))
      = (IF x \in T THEN Cardinality(T) - 1 ELSE Cardinality(T))
  BY <1>2, <1>4, <1>5
<1>7. CASE x \in S BY <1>3, <1>6, <1>7
<1>8. CASE x \notin S BY <1>3, <1>6, <1>8
<1> QED BY <1>7, <1>8

=============================================================================

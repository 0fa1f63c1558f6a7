-------------------------------- MODULE Rmap --------------------------------
(***************************************************************************)
(* The resource maps of the kernel (src/sys/sys/subr_rmap.c) at work as    *)
(* coremap: malloc and malloc3 carve core out of an array of free segments *)
(* sorted by address, mfree sorts segments back in and joins them with     *)
(* their neighbours, and an allocation that fails has xuncore (vm_text.c)  *)
(* free the core of unused texts before it tries once more.  xuncore       *)
(* sleeps, so other processes allocate and free in between.                *)
(*                                                                         *)
(* map is the array up to its terminator, the entry of size 0.  Segments   *)
(* a process uses are in held; those of the texts kept on the free list of *)
(* the text table are in cache; lost is what the printf of mfree reports.  *)
(***************************************************************************)
EXTENDS SequencesExt, Integers

CONSTANTS
    Proc,       \* processes
    Size,       \* the resource: addresses 1..Size
    Slots,      \* entries of the array m_map
    Asks        \* what is asked for: <<n>> of malloc, <<d, s, u>> of malloc3

(* Address 0 is not part of the resource, it terminates the map. *)
ASSUME SizeAssumption == Size \in Nat \ {0} /\ Slots \in Nat \ {0}
ASSUME AskAssumption ==
    \A sz \in Asks : \/ sz \in Seq(Nat) /\ Len(sz) = 1 /\ sz[1] > 0
                     \/ sz \in Seq(Nat) /\ Len(sz) = 3 /\ sz[3] > 0

VARIABLES
    map,        \* the free segments, in the order of the array
    held,       \* held[p]: the segments p uses
    cache,      \* the core of texts nobody uses
    lost,       \* segments mfree had no entry for
    ask,        \* ask[p]: the sizes p waits for in xuncore, <<>> if none
    todo        \* todo[p]: the sizes xuncore is still to be called with

vars == <<map, held, cache, lost, ask, todo>>

(* The entries of an array, and the pieces taken from one. *)
Segment == [size : Nat, addr : Nat]

Seg(n, a) == [size |-> n, addr |-> a]

Units(e) == e.addr .. (e.addr + e.size - 1)

-----------------------------------------------------------------------------
(* malloc and malloc3 *)

(* What the first k - 1 sizes took from entry i. *)
Before(sz, at, k, i) == (IF k > 1 /\ at[1] = i THEN sz[1] ELSE 0)
                        + (IF k > 2 /\ at[2] = i THEN sz[2] ELSE 0)
                        + (IF k > 3 /\ at[3] = i THEN sz[3] ELSE 0)

(* Mutant of Fits: malloc3 forgets what it took from the entry before. *)
Fits_Forgets(m, sz, at, k, i) == sz[k] <= m[i].size

(* Size k fits in what is left of entry i. *)
Fits(m, sz, at, k, i) == sz[k] <= m[i].size - Before(sz, at, k, i)

(* The loops of malloc and malloc3 place size k in entry at[k], the first  *)
(* that is large enough after what was taken from it for the sizes before. *)
FirstFit(m, sz, at) ==
    \A k \in DOMAIN sz :
        /\ Fits(m, sz, at, k, at[k])
        /\ \A i \in 1..(at[k] - 1) : ~Fits(m, sz, at, k, i)

Placements(m, sz) == {at \in [DOMAIN sz -> DOMAIN m] : FirstFit(m, sz, at)}

(* The segments handed out; a size of 0 is no segment. *)
Pieces(m, sz, at) ==
    {Seg(sz[k], m[at[k]].addr + Before(sz, at, k, at[k])) : k \in {l \in DOMAIN sz : sz[l] > 0}}

(* Take the sizes off the front of their entries. *)
Carve(m, sz, at) ==
    [i \in DOMAIN m |-> LET n == Before(sz, at, Len(sz) + 1, i)
                        IN  Seg(m[i].size - n, m[i].addr + n)]

(* Move the rest of the map left over an entry of size 0. *)
Squeeze(m) == IF \E i \in DOMAIN m : m[i].size = 0
              THEN RemoveAt(m, CHOOSE i \in DOMAIN m : m[i].size = 0)
              ELSE m

(* At most three entries were used up. *)
SqueezeAll(m) == Squeeze(Squeeze(Squeeze(m)))

-----------------------------------------------------------------------------
(* mfree *)

(* The first entry beyond address a, or the terminator. *)
PlaceFor(m, a) == CHOOSE i \in 1..(Len(m) + 1) :
                     /\ i = Len(m) + 1 \/ m[i].addr > a
                     /\ \A j \in 1..(i - 1) : m[j].addr <= a

(* The free segment e touches the entry before or at place i. *)
JoinsLeft(m, i, e) == i > 1 /\ m[i - 1].addr + m[i - 1].size >= e.addr
JoinsRight(m, i, e) == i <= Len(m) /\ e.addr + e.size >= m[i].addr

(* `++bp > mp->m_limit' is false for the new terminator, which may go to   *)
(* the slot m_limit points to.  (What is overwritten when that slot is not *)
(* in the array is not modelled.)                                          *)
RoomFor(m) == Len(m) + 1 <= Slots

(* Mutant of Insert: a segment that closes a gap is joined on one side. *)
Insert_NoMerge(m, e) ==
    LET i == PlaceFor(m, e.addr) IN
    CASE JoinsLeft(m, i, e) -> [m EXCEPT ![i - 1].size = @ + e.size]
      [] ~JoinsLeft(m, i, e) /\ JoinsRight(m, i, e) ->
             [m EXCEPT ![i] = Seg(e.size + @.size, e.addr)]
      [] OTHER -> InsertAt(m, i, e)

(* The map after mfree of e, when e can be described in it. *)
Insert(m, e) ==
    LET i == PlaceFor(m, e.addr)
        left == JoinsLeft(m, i, e)
        right == JoinsRight(m, i, e)
    IN  CASE left /\ right -> RemoveAt([m EXCEPT ![i - 1].size = @ + e.size + m[i].size], i)
          [] left /\ ~right -> [m EXCEPT ![i - 1].size = @ + e.size]
          [] ~left /\ right -> [m EXCEPT ![i] = Seg(e.size + @.size, e.addr)]
          [] OTHER -> InsertAt(m, i, e)

Overflows(m, e) == LET i == PlaceFor(m, e.addr)
                   IN  ~JoinsLeft(m, i, e) /\ ~JoinsRight(m, i, e) /\ ~RoomFor(m)

(* mfree(mp, size, addr): nothing to do for size 0. *)
Mfree(e) ==
    CASE e.size = 0 -> UNCHANGED <<map, lost>>
      [] e.size > 0 /\ ~Overflows(map, e) -> map' = Insert(map, e) /\ lost' = lost
      [] OTHER -> lost' = lost \cup {e} /\ map' = map

-----------------------------------------------------------------------------
(* The users of the map *)

(* startup: all of core is one free segment. *)
Init ==
    /\ map = <<Seg(Size, 1)>>
    /\ held = [p \in Proc |-> {}]
    /\ cache = {} /\ lost = {}
    /\ ask = [p \in Proc |-> <<>>]
    /\ todo = [p \in Proc |-> <<>>]

Take(p, sz) == \E at \in Placements(map, sz) :
                   /\ map' = SqueezeAll(Carve(map, sz, at))
                   /\ held' = [held EXCEPT ![p] = @ \cup Pieces(map, sz, at)]

(* Mutant of Malloc: malloc3 goes to xuncore with the sizes it placed      *)
(* still taken off the map.                                                *)
Malloc_NoRestore(p, sz) ==
    /\ ask[p] = <<>>
    /\ \/ Take(p, sz) /\ UNCHANGED <<ask, todo>>
       \/ /\ Placements(map, sz) = {}
          /\ ask' = [ask EXCEPT ![p] = sz]
          /\ todo' = [todo EXCEPT ![p] = Reverse(sz)]
          /\ IF Placements(map, <<sz[1]>>) # {}
             THEN map' = SqueezeAll(Carve(map, <<sz[1]>>,
                                          CHOOSE at \in Placements(map, <<sz[1]>>) : TRUE))
             ELSE map' = map
          /\ UNCHANGED held
    /\ UNCHANGED <<cache, lost>>

(* malloc(coremap, n) and malloc3(coremap, d, s, u): the first attempt.    *)
(* When it fails the sizes taken so far are put back, and the smallest is  *)
(* the first that xuncore makes room for.                                  *)
Malloc(p, sz) ==
    /\ ask[p] = <<>>
    /\ \/ Take(p, sz) /\ UNCHANGED <<ask, todo>>
       \/ /\ Placements(map, sz) = {}
          /\ ask' = [ask EXCEPT ![p] = sz]
          /\ todo' = [todo EXCEPT ![p] = Reverse(sz)]
          /\ UNCHANGED <<map, held>>
    /\ UNCHANGED <<cache, lost>>

(* xuncore(size): free the core of an unused text, after its swap copy has *)
(* been written, and return when it was large enough.                      *)
Xuncore(p) ==
    /\ ask[p] # <<>> /\ todo[p] # <<>>
    /\ \E e \in cache :
          /\ cache' = cache \ {e}
          /\ Mfree(e)
          /\ todo' = [todo EXCEPT ![p] = IF e.size >= Head(@) THEN Tail(@) ELSE @]
    /\ UNCHANGED <<held, ask>>

(* xuncore has come to the end of the free list, or to a text that was     *)
(* taken off it while xuncore slept for its lock.                          *)
XuncoreEnds(p) ==
    /\ ask[p] # <<>> /\ todo[p] # <<>>
    /\ todo' = [todo EXCEPT ![p] = Tail(@)]
    /\ UNCHANGED <<map, held, cache, lost, ask>>

(* The second and last attempt; the caller gets NULL when it fails too. *)
Again(p) ==
    /\ ask[p] # <<>> /\ todo[p] = <<>>
    /\ Take(p, ask[p]) \/ (Placements(map, ask[p]) = {} /\ UNCHANGED <<map, held>>)
    /\ ask' = [ask EXCEPT ![p] = <<>>]
    /\ UNCHANGED <<cache, lost, todo>>

(* exit, swapout: a segment is freed. *)
FreeSegment(p) ==
    /\ ask[p] = <<>>
    /\ \E e \in held[p] : held' = [held EXCEPT ![p] = @ \ {e}] /\ Mfree(e)
    /\ UNCHANGED <<cache, ask, todo>>

(* Mutant of Shrink: a stack gives back its top, where it is in use. *)
Shrink_Keeps(p) ==
    /\ ask[p] = <<>>
    /\ \E e \in held[p], n \in 1..Size :
          /\ n < e.size
          /\ held' = [held EXCEPT ![p] = (@ \ {e}) \cup {Seg(e.size - n, e.addr + n)}]
          /\ Mfree(Seg(n, e.addr + e.size - n))
    /\ UNCHANGED <<cache, ask, todo>>

(* expand(newsize): data gives back its top n clicks, a stack its bottom n. *)
Shrink(p) ==
    /\ ask[p] = <<>>
    /\ \E e \in held[p], n \in 1..Size :
          /\ n < e.size
          /\ \/ /\ held' = [held EXCEPT ![p] = (@ \ {e}) \cup {Seg(e.size - n, e.addr)}]
                /\ Mfree(Seg(n, e.addr + e.size - n))
             \/ /\ held' = [held EXCEPT ![p] = (@ \ {e}) \cup {Seg(e.size - n, e.addr + n)}]
                /\ Mfree(Seg(n, e.addr))
    /\ UNCHANGED <<cache, ask, todo>>

(* xfree: the last user of a text leaves its core for the next. *)
Xfree(p) ==
    /\ ask[p] = <<>>
    /\ \E e \in held[p] : held' = [held EXCEPT ![p] = @ \ {e}] /\ cache' = cache \cup {e}
    /\ UNCHANGED <<map, lost, ask, todo>>

(* xalloc: a process finds the text it executes still in core. *)
Xalloc(p) ==
    /\ ask[p] = <<>>
    /\ \E e \in cache : held' = [held EXCEPT ![p] = @ \cup {e}] /\ cache' = cache \ {e}
    /\ UNCHANGED <<map, lost, ask, todo>>

Next == \E p \in Proc :
            \/ \E sz \in Asks : Malloc(p, sz)
            \/ Xuncore(p) \/ XuncoreEnds(p) \/ Again(p)
            \/ FreeSegment(p) \/ Shrink(p) \/ Xfree(p) \/ Xalloc(p)

Spec == Init /\ [][Next]_vars

-----------------------------------------------------------------------------
(* Properties *)

Segments == (UNION {held[p] : p \in Proc}) \cup cache \cup lost

UnitsOf(S) == UNION {Units(e) : e \in S}

FreeUnits(m) == UNION {Units(m[i]) : i \in DOMAIN m}

(* The type of every variable. *)
TypeOK ==
    /\ map \in Seq(Segment)
    /\ held \in [Proc -> SUBSET Segment]
    /\ cache \in SUBSET Segment /\ lost \in SUBSET Segment
    /\ ask \in [Proc -> Asks \cup {<<>>}]
    /\ todo \in [Proc -> Seq(Nat)]

(* "The segments are described by their base address and length, and      *)
(* sorted in address order", no entry is empty, and no two touch: mfree    *)
(* has always joined what could be joined.                                 *)
Tidy(m) ==
    /\ \A i \in DOMAIN m : m[i].size > 0 /\ m[i].addr > 0
    /\ \A i, j \in DOMAIN m : i < j => m[i].addr + m[i].size < m[j].addr

MapTidy == Tidy(map)

(* Every click of core is in exactly one place: in one segment of one     *)
(* process, of the unused texts or of those mfree lost, or free.           *)
Conserved ==
    /\ FreeUnits(map) \cup UnitsOf(Segments) = 1..Size
    /\ \A e \in Segments : Units(e) \cap FreeUnits(map) = {}
    /\ \A e, f \in Segments : e # f => Units(e) \cap Units(f) = {}
    /\ \A p, q \in Proc : p # q => held[p] \cap held[q] = {}
    /\ \A p \in Proc : held[p] \cap (cache \cup lost) = {}
    /\ cache \cap lost = {}

(* The map implements an arena of single units, free of the segments they  *)
(* are kept in: no unit is forgotten or handed out twice, malloc fails     *)
(* only when no free run is long enough, malloc3 only when none could take *)
(* the three sizes together, and mfree loses a segment only when the array *)
(* is full of others that do not touch it.                                 *)
Arena == INSTANCE Arena WITH
             free <- FreeUnits(map), cached <- UnitsOf(cache), lost <- UnitsOf(lost),
             used <- [p \in Proc |-> UnitsOf(held[p])]

ArenaSpec == Arena!Spec

=============================================================================

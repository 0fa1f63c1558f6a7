-------------------------------- MODULE Arena --------------------------------
(***************************************************************************)
(* What a resource map promises: a set of numbered units, each free, used  *)
(* by one process, cached, or lost.  A process is given free units only,   *)
(* as many as it asked for.  It is turned away only when no run of free    *)
(* units is as long as all it asked for together, and units are lost only  *)
(* when the free ones are in so many runs that the map cannot describe one *)
(* more.                                                                   *)
(***************************************************************************)
EXTENDS SequencesExt, Integers

CONSTANTS Proc, Size, Slots, Asks

VARIABLES free, cached, lost,   \* units nobody uses, of unused texts, forgotten
          used,     \* used[p]: the units of process p
          ask       \* ask[p]: the sizes p waits for, <<>> if none

vars == <<free, cached, lost, used, ask>>

(* All that is asked for: one size, or three. *)
Total(sz) == IF Len(sz) = 1 THEN sz[1] ELSE sz[1] + sz[2] + sz[3]

(* The first units of the runs of free units. *)
RunStarts == {u \in free : u - 1 \notin free}

HasRun(n) == \E u \in free : u..(u + n - 1) \subseteq free

Init == /\ free = 1..Size /\ cached = {} /\ lost = {}
        /\ used = [p \in Proc |-> {}] /\ ask = [p \in Proc |-> <<>>]

(* p is given units for the sizes sz, which it asks for now or has waited  *)
(* for.                                                                    *)
Grant(p) ==
    /\ \E sz \in Asks : /\ ask[p] \in {<<>>, sz}
                        /\ \E U \in kSubset(Total(sz), free) :
                              free' = free \ U /\ used' = [used EXCEPT ![p] = @ \cup U]
    /\ ask' = [ask EXCEPT ![p] = <<>>]
    /\ UNCHANGED <<cached, lost>>

(* p must wait, or has waited in vain. *)
Wait(p) == /\ ask[p] = <<>>
           /\ \E sz \in Asks : ~HasRun(Total(sz)) /\ ask' = [ask EXCEPT ![p] = sz]
           /\ UNCHANGED <<free, cached, lost, used>>

Refuse(p) == /\ ask[p] # <<>> /\ ~HasRun(Total(ask[p]))
             /\ ask' = [ask EXCEPT ![p] = <<>>]
             /\ UNCHANGED <<free, cached, lost, used>>

(* The units U become free, unless the map is full of other runs. *)
Free(U) == \/ free' = free \cup U /\ lost' = lost
           \/ /\ Cardinality(RunStarts) = Slots
              /\ \A u \in U : {u - 1, u + 1} \cap free = {}
              /\ lost' = lost \cup U /\ free' = free

Release(p) == /\ \E U \in SUBSET used[p] : used' = [used EXCEPT ![p] = @ \ U] /\ Free(U)
              /\ UNCHANGED <<cached, ask>>

Reclaim == /\ \E U \in SUBSET cached : cached' = cached \ U /\ Free(U)
           /\ UNCHANGED <<used, ask>>

(* p leaves units for others to find, and others find them. *)
Park(p) == /\ \E U \in SUBSET used[p] :
                  used' = [used EXCEPT ![p] = @ \ U] /\ cached' = cached \cup U
           /\ UNCHANGED <<free, lost, ask>>

Adopt(p) == /\ \E U \in SUBSET cached :
                  used' = [used EXCEPT ![p] = @ \cup U] /\ cached' = cached \ U
            /\ UNCHANGED <<free, lost, ask>>

Next == \/ \E p \in Proc : Grant(p) \/ Wait(p) \/ Refuse(p) \/ Release(p) \/ Park(p) \/ Adopt(p)
        \/ Reclaim

Spec == Init /\ [][Next]_vars

=============================================================================

-------------------------------- MODULE Space --------------------------------
(***************************************************************************)
(* What block allocation promises: every block is free, part of one file,  *)
(* or in the hands of one process that moves it; and a process is told     *)
(* that the file system is full only when it is.                           *)
(***************************************************************************)
CONSTANTS Proc, File, Blk

VARIABLES free,     \* the free blocks
          has,      \* has[f]: the blocks of file f
          hand,     \* hand[p]: the blocks that p moves
          told      \* whoever was told in the last step that there is no space

vars == <<free, has, hand, told>>

Init == /\ free \in SUBSET Blk
        /\ has \in [File -> SUBSET (Blk \ free)]
        /\ \A f, g \in File : f # g => has[f] \cap has[g] = {}
        /\ hand = [p \in Proc |-> {}]
        /\ told = {}

Take(p) == /\ hand[p] = {}
           /\ \E b \in free : free' = free \ {b} /\ hand' = [hand EXCEPT ![p] = {b}]
           /\ told' = {} /\ UNCHANGED has

Attach(p, f) == /\ hand[p] # {}
                /\ has' = [has EXCEPT ![f] = @ \cup hand[p]]
                /\ hand' = [hand EXCEPT ![p] = {}]
                /\ told' = {} /\ UNCHANGED free

Detach(p, f) == /\ hand[p] = {}
                /\ hand' = [hand EXCEPT ![p] = has[f]]
                /\ has' = [has EXCEPT ![f] = {}]
                /\ told' = {} /\ UNCHANGED free

Put(p) == /\ \E b \in hand[p] : free' = free \cup {b} /\ hand' = [hand EXCEPT ![p] = @ \ {b}]
          /\ told' = {} /\ UNCHANGED has

Refuse(p) == /\ free = {}
             /\ told' = {p}
             /\ UNCHANGED <<free, has, hand>>

Quiet == told' = {} /\ UNCHANGED <<free, has, hand>>

Next == \/ \E p \in Proc : Take(p) \/ Put(p) \/ Refuse(p)
        \/ \E p \in Proc, f \in File : Attach(p, f) \/ Detach(p, f)
        \/ Quiet

Spec == Init /\ [][Next]_vars

=============================================================================

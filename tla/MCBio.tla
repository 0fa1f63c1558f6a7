------------------------------- MODULE MCBio -------------------------------
(***************************************************************************)
(* Small instances of Bio for TLC.                                         *)
(***************************************************************************)
EXTENDS Bio

CONSTANTS p1, p2, b1, b2, b3, v1, v2

(* Blocks 1 and 2 are on the same cylinder, block 3 further in. *)
MCCyl2 == [k \in {1, 2} |-> 0]
MCCyl3 == [k \in {1, 2, 3} |-> IF k = 3 THEN 1 ELSE 0]

Ask(op, k) == [op |-> op, blk |-> k, ra |-> NoBlk, how |-> "delay", val |-> v1]
Ahead(k, r) == [Ask("reada", k) EXCEPT !.ra = r]
Put(op, k, how, v) == [op |-> op, blk |-> k, ra |-> NoBlk, how |-> how, val |-> v]

(* Read-ahead both ways, a write of each kind, the last close, and fsync   *)
(* of the file of block 1, which flushes block 2.                          *)
PoolRequests ==
    {Ask("close", NoBlk), Ask("fsync", 1), Ahead(1, 2), Ahead(2, 1),
     Put("write", 2, "delay", v1), Put("update", 2, "sync", v1), Put("write", 2, "async", v1)}

(* Reads and writes of every kind, two values. *)
StoreRequests ==
    {Ask("read", 1), Ahead(3, 1), Ask("sync", NoBlk), Ask("scratch", NoBlk),
     Put("write", 3, "async", v1), Put("write", 1, "delay", v2), Put("update", 1, "async", v2), Put("update", 2, "sync", v2)}

(* Two processes after the same block while the pool is dry. *)
TwinRequests == {Ahead(1, 2), Ask("read", 3)}

(* Readers, a dirty block and sync, on one cylinder. *)
LiveRequests == {Ahead(1, 2), Ask("read", 2), Ask("sync", NoBlk),
                 Put("write", 3, "delay", v1), Put("write", 3, "fault", v1)}

MCCylFlat == [k \in {1, 2, 3} |-> 0]

Symmetry == Permutations(Buf) \cup Permutations(Proc)

=============================================================================

----------------------------- MODULE BlockStore -----------------------------
(***************************************************************************)
(* What the buffer cache promises to the rest of the kernel: one value per *)
(* block, as if there were no cache.  store is what a reader sees, durable *)
(* what is on the platter.  A read answers with the store's value, a write *)
(* that somebody asked for replaces it at one instant, what is durable     *)
(* only ever catches up with the store, and a synchronous write is         *)
(* answered once it is durable.  The store goes back to what is durable    *)
(* when a transfer fails and when the machine crashes, and never else: a   *)
(* delayed write is not forgotten.                                         *)
(***************************************************************************)
CONSTANTS Client, Blk, Val,
          Slot,         \* where a failed transfer is remembered
          NoReply

VARIABLES store, durable,
          asked,        \* asked[c]: what c is writing
          reply,        \* reply[c]: the answer c has got
          failed        \* the slots whose last transfer failed

vars == <<store, durable, asked, reply, failed>>

None == [c \in Client |-> NoReply]

Init == /\ durable \in [Blk -> Val]
        /\ store = durable
        /\ asked = None /\ reply = None
        /\ failed = {}

(* A client asks for a write. *)
Ask(c) == /\ asked[c] = NoReply /\ reply[c] = NoReply
          /\ \E b \in Blk, v \in Val : asked' = [asked EXCEPT ![c] = [blk |-> b, val |-> v]]
          /\ UNCHANGED <<store, durable, reply, failed>>

Tell(c, b, res) == /\ reply[c] = NoReply
                   /\ reply' = [reply EXCEPT ![c] = [blk |-> b, res |-> res]]
                   /\ UNCHANGED <<store, durable, asked, failed>>

(* Reading: the caller is told the block's one value. *)
Read(c, b) == asked[c] = NoReply /\ Tell(c, b, store[b])

(* A synchronous write is acknowledged: the block's value is durable. *)
Synced(c, b) == asked[c] # NoReply /\ asked[c].blk = b /\ durable[b] = store[b] /\ Tell(c, b, "synced")

(* The caller is told of a transfer that failed, or of its own bad address. *)
Failed(c, b) == Tell(c, b, "error")

(* The caller has its answer. *)
Collect(c) == /\ asked' = [asked EXCEPT ![c] = NoReply]
              /\ reply' = [reply EXCEPT ![c] = NoReply]
              /\ UNCHANGED <<store, durable, failed>>

(* The write c asked for takes effect. *)
Write(c) == /\ asked[c] # NoReply /\ reply[c] = NoReply
            /\ store' = [store EXCEPT ![asked[c].blk] = asked[c].val]
            /\ UNCHANGED <<durable, asked, reply, failed>>

(* Part of what c writes arrives and the address of the rest is bad. *)
WriteAndFail(c) == /\ asked[c] # NoReply /\ reply[c] = NoReply
                   /\ store' = [store EXCEPT ![asked[c].blk] = asked[c].val]
                   /\ reply' = [reply EXCEPT ![c] = [blk |-> asked[c].blk, res |-> "error"]]
                   /\ UNCHANGED <<durable, asked, failed>>

(* A block's value reaches the platter. *)
Flush(b) == /\ durable' = [durable EXCEPT ![b] = store[b]]
            /\ UNCHANGED <<store, asked, reply, failed>>

(* A transfer fails.  If it was a write, readers see the old value again. *)
Fail(s, b) == /\ s \notin failed /\ failed' = failed \cup {s}
              /\ store' \in {store, [store EXCEPT ![b] = durable[b]]}
              /\ UNCHANGED <<durable, asked, reply>>

(* The slot of a failed transfer is used for something else. *)
Reuse(s) == /\ s \in failed /\ failed' = failed \ {s}
            /\ UNCHANGED <<store, durable, asked, reply>>

(* A crash: one transfer may have just made it. *)
Crash == /\ durable' \in {durable} \cup {[durable EXCEPT ![b] = store[b]] : b \in Blk}
         /\ store' = durable'
         /\ asked' = None /\ reply' = None
         /\ failed' = {}

Next == \/ \E c \in Client, b \in Blk : Read(c, b) \/ Synced(c, b) \/ Failed(c, b)
        \/ \E c \in Client : Ask(c) \/ Write(c) \/ WriteAndFail(c) \/ Collect(c)
        \/ \E b \in Blk : Flush(b)
        \/ \E s \in Slot, b \in Blk : Fail(s, b)
        \/ \E s \in Slot : Reuse(s)
        \/ Crash

Spec == Init /\ [][Next]_vars

=============================================================================

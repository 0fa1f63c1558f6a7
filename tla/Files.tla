-------------------------------- MODULE Files --------------------------------
(***************************************************************************)
(* What inode allocation promises to the users of a file system: every     *)
(* inode is free or belongs to one file, and a file lives as long as it    *)
(* has a name, is open, or is being made.                                  *)
(***************************************************************************)
CONSTANTS Proc, Ino, NoIno

VARIABLES used,     \* the inodes that are allocated
          named,    \* those with a directory entry
          open,     \* open[p]: the files p has open
          making    \* making[p]: the file p is making

vars == <<used, named, open, making>>

Init == /\ named \in SUBSET Ino /\ used = named
        /\ open = [p \in Proc |-> {}]
        /\ making = [p \in Proc |-> NoIno]

Make(p) == /\ making[p] = NoIno
           /\ \E i \in Ino \ used : used' = used \cup {i} /\ making' = [making EXCEPT ![p] = i]
           /\ UNCHANGED <<named, open>>

(* The new file gets its name, or none when the directory has no room. *)
Made(p) == /\ making[p] # NoIno
           /\ making' = [making EXCEPT ![p] = NoIno]
           /\ named' \in {named, named \cup {making[p]}}
           /\ UNCHANGED <<used, open>>

Open(p, i) == /\ i \in named /\ open' = [open EXCEPT ![p] = @ \cup {i}]
              /\ UNCHANGED <<used, named, making>>

Close(p, i) == /\ i \in open[p] /\ open' = [open EXCEPT ![p] = @ \ {i}]
               /\ UNCHANGED <<used, named, making>>

Remove(i) == /\ i \in named /\ named' = named \ {i}
             /\ UNCHANGED <<used, open, making>>

(* The file is gone, and its inode is free. *)
Free(i) == /\ i \in used \ named
           /\ \A p \in Proc : i \notin open[p] /\ making[p] # i
           /\ used' = used \ {i}
           /\ UNCHANGED <<named, open, making>>

Next == \/ \E p \in Proc : Make(p) \/ Made(p)
        \/ \E p \in Proc, i \in Ino : Open(p, i) \/ Close(p, i)
        \/ \E i \in Ino : Remove(i) \/ Free(i)

Spec == Init /\ [][Next]_vars

=============================================================================

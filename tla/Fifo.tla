-------------------------------- MODULE Fifo --------------------------------
(***************************************************************************)
(* What a pipe promises: bytes come out in the order in which they went    *)
(* in, a write of up to MaxPip bytes goes in as a whole, a reader is told  *)
(* of the end of the file only when the pipe is empty and nobody has its   *)
(* write end, and a writer that it is broken only when nobody can read.    *)
(***************************************************************************)
EXTENDS Sequences, Integers

CONSTANTS Proc, Val, MaxPip

VARIABLES queue,    \* what was written and not read yet
          holds,    \* holds[p]: the ends of the pipe p has open
          todo,     \* todo[p]: what p's write has still to put in
          out       \* what a process was told in the last step

vars == <<queue, holds, todo, out>>

None == <<"none">>

Closed(e) == \A p \in Proc : e \notin holds[p]

Init == /\ queue = <<>> /\ out = None
        /\ holds = [p \in Proc |-> {}]
        /\ todo = [p \in Proc |-> <<>>]

(* A new pipe; the last one is gone, and what nobody read from it. *)
Create(p) == /\ Closed("r") /\ Closed("w") /\ queue = <<>>
             /\ holds' = [holds EXCEPT ![p] = {"r", "w"}]
             /\ out' = None
             /\ UNCHANGED <<queue, todo>>

Discard == /\ Closed("r") /\ Closed("w") /\ queue' = <<>>
           /\ out' = None
           /\ UNCHANGED <<holds, todo>>

Fork(p, q) == /\ holds[q] = {} /\ holds' = [holds EXCEPT ![q] = holds[p]]
              /\ out' = None
              /\ UNCHANGED <<queue, todo>>

Close(p, e) == /\ e \in holds[p] /\ holds' = [holds EXCEPT ![p] = @ \ {e}]
               /\ out' = None
               /\ UNCHANGED <<queue, todo>>

Write(p) == /\ "w" \in holds[p] /\ todo[p] = <<>>
            /\ todo'[p] \in Seq(Val) /\ todo'[p] # <<>>
            /\ todo' = [todo EXCEPT ![p] = todo'[p]]
            /\ out' = None
            /\ UNCHANGED <<queue, holds>>

Put(p) == /\ todo[p] # <<>> /\ ~Closed("r")
          /\ \E n \in 1..Len(todo[p]) :
                /\ Len(todo[p]) <= MaxPip => n = Len(todo[p])
                /\ queue' = queue \o SubSeq(todo[p], 1, n)
                /\ todo' = [todo EXCEPT ![p] = SubSeq(@, n + 1, Len(@))]
          /\ out' = None
          /\ UNCHANGED holds

(* All is written, or a signal ended the call. *)
Written(p) == /\ todo' = [todo EXCEPT ![p] = <<>>]
              /\ out' = <<"wrote", p>>
              /\ UNCHANGED <<queue, holds>>

Broken(p) == /\ todo[p] # <<>> /\ Closed("r")
             /\ todo' = [todo EXCEPT ![p] = <<>>]
             /\ out' = <<"EPIPE", p>>
             /\ UNCHANGED <<queue, holds>>

Get(p) == /\ "r" \in holds[p]
          /\ \E n \in 1..Len(queue) :
                /\ out' = <<"read", p, SubSeq(queue, 1, n)>>
                /\ queue' = SubSeq(queue, n + 1, Len(queue))
          /\ UNCHANGED <<holds, todo>>

EndOfFile(p) == /\ queue = <<>> /\ Closed("w")
                /\ out' = <<"eof", p>>
                /\ UNCHANGED <<queue, holds, todo>>

(* Nothing a user sees, but the last answer is over. *)
Quiet == out' = None /\ UNCHANGED <<queue, holds, todo>>

Next == \/ Quiet \/ Discard
        \/ \E p \in Proc : \/ Create(p) \/ Write(p) \/ Put(p) \/ Written(p) \/ Broken(p)
                           \/ Get(p) \/ EndOfFile(p)
        \/ \E p, q \in Proc : Fork(p, q)
        \/ \E p \in Proc, e \in {"r", "w"} : Close(p, e)

Spec == Init /\ [][Next]_vars

=============================================================================

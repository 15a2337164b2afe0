----------------------------- MODULE RlcSduFifo -----------------------------
(***************************************************************************)
(* What the SDU queue promises: the queue whose operations are atomic, as  *)
(* RlcAmTx uses it.  SDUs leave in the order they came; one that was       *)
(* discarded in time is dropped at the head and never taken.               *)
(***************************************************************************)
EXTENDS Naturals, Sequences

CONSTANTS Capacity, MaxSdus

VARIABLES fifo,     \* sequence of [id, discarded]
          taken     \* ids handed to the lower layer, in order

vars == <<fifo, taken>>

Init == fifo = <<>> /\ taken = <<>>

\* An SDU joins; the lower layer may hold one more while it decides its fate.
Accept == /\ Len(fifo) <= Capacity
          /\ \E id \in 1 .. MaxSdus :
               /\ \A i \in DOMAIN fifo : fifo[i].id < id
               /\ \A i \in DOMAIN taken : taken[i] < id
               /\ fifo' = Append(fifo, [id |-> id, discarded |-> FALSE])
          /\ UNCHANGED taken

Discarded(entry) == [id |-> entry.id, discarded |-> TRUE]

Discard == /\ \E i \in DOMAIN fifo : /\ ~fifo[i].discarded
                                     /\ fifo' = [fifo EXCEPT ![i] = Discarded(@)]
           /\ UNCHANGED taken

Drop == /\ fifo # <<>> /\ Head(fifo).discarded
        /\ fifo' = Tail(fifo)
        /\ UNCHANGED taken

Take == /\ fifo # <<>> /\ ~Head(fifo).discarded
        /\ fifo' = Tail(fifo)
        /\ taken' = Append(taken, Head(fifo).id)

Next == Accept \/ Discard \/ Drop \/ Take

Spec == Init /\ [][Next]_vars
=============================================================================

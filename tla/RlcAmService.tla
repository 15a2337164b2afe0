---------------------------- MODULE RlcAmService ----------------------------
(***************************************************************************)
(* What an acknowledged-mode bearer promises its users, without windows,   *)
(* PDUs or timers: an SDU that was submitted reaches the peer's upper      *)
(* layer at most once and unmixed, and the sender's upper layer is told    *)
(* "delivered" only for SDUs that have reached it.                         *)
(***************************************************************************)
EXTENDS Naturals

CONSTANT MaxSdus

VARIABLES submitted, delivered, confirmed

vars == <<submitted, delivered, confirmed>>

Init == /\ submitted = 0
        /\ delivered = [s \in 0 .. MaxSdus |-> 0]
        /\ confirmed = {}

Submit == /\ submitted < MaxSdus
          /\ submitted' = submitted + 1
          /\ UNCHANGED <<delivered, confirmed>>

Deliver == /\ \E s \in 1 .. submitted :
                /\ delivered[s] = 0
                /\ delivered' = [delivered EXCEPT ![s] = 1]
           /\ UNCHANGED <<submitted, confirmed>>

Confirm == /\ \E more \in SUBSET {s \in 1 .. submitted : delivered[s] = 1} :
                confirmed' = confirmed \cup more
           /\ UNCHANGED <<submitted, delivered>>

Next == Submit \/ Deliver \/ Confirm

Spec == Init /\ [][Next]_vars
=============================================================================

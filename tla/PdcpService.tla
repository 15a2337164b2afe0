----------------------------- MODULE PdcpService -----------------------------
(***************************************************************************)
(* What the receiving side of a bearer promises SDAP: of the SDUs the peer *)
(* has sent, some are delivered, in the order in which they were sent and  *)
(* each at most once, across re-keying, re-establishment and suspension.   *)
(* SDUs are numbered by the peer.                                          *)
(***************************************************************************)
EXTENDS Integers, Sequences

VARIABLES
  sent,       \* number of SDUs sent
  delivered   \* SDUs delivered, in order

serviceVars == <<sent, delivered>>

Ascending(seq) == \A i, j \in DOMAIN seq : i < j => seq[i] < seq[j]

Init == sent = 0 /\ delivered = <<>>

Send == sent' = sent + 1 /\ UNCHANGED delivered

\* One task of the entity may deliver several SDUs.
Deliver ==
  /\ Len(delivered') > Len(delivered)
  /\ SubSeq(delivered', 1, Len(delivered)) = delivered
  /\ Ascending(delivered')
  /\ \A i \in DOMAIN delivered' : delivered'[i] \in 1 .. sent
  /\ UNCHANGED sent

Next == Send \/ Deliver

Spec == Init /\ [][Next]_serviceVars
=============================================================================

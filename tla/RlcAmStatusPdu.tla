--------------------------- MODULE RlcAmStatusPdu ---------------------------
(***************************************************************************)
(* One status report as the receiver builds it, pull_pdu trims it and the  *)
(* peer reads it: rlc_am_status_pdu, with refresh_status_report of         *)
(* rlc_rx_am_entity and the NACK loop of handle_status_pdu.                *)
(*                                                                         *)
(* refresh_status_report walks over the RX window and pushes one NACK per  *)
(* missing byte range, in increasing order; push_nack merges a NACK with   *)
(* the one before it where they are neighbours, so that a NACK may cover   *)
(* several SNs.  A grant that is too small makes pull_pdu trim the report. *)
(* The peer expands the ranges again.                                      *)
(***************************************************************************)
EXTENDS Integers, Sequences, FiniteSets, FiniteSetsExt

CONSTANTS
  SnModulus,      \* mod_nr
  Span,           \* SNs between RX_Next and the ACK_SN of the report
  SduLen,         \* bytes of an SDU
  MaxNackRange,   \* SNs a NACK range may cover (255), the largest value of its field
  SizeofHeader, SizeofNackSn, SizeofNackSo, SizeofNackRange

EndOfSdu == 65535                        \* so_end_of_sdu

ASSUME RlcAmStatusPduAssumption ==
  /\ Span \in Nat \ {0} /\ SnModulus \in Nat /\ 2 * Span <= SnModulus
  /\ SduLen \in 1 .. EndOfSdu /\ MaxNackRange \in Nat \ {0}
  /\ {SizeofHeader, SizeofNackSn, SizeofNackSo, SizeofNackRange} \subseteq Nat \ {0}

VARIABLES
  rx_next,        \* lower edge of the RX window
  missing,        \* the missing byte ranges, [sn, first, last] with sn from RX_Next on
  pending,        \* those refresh_status_report has not visited yet
  nacks, ack_sn, packed_size,   \* the report
  stage           \* "build", "built" and "sent", once pull_pdu has trimmed it

vars == <<rx_next, missing, pending, nacks, ack_sn, packed_size, stage>>

Sn == 0 .. SnModulus - 1
Bytes == 0 .. SduLen - 1
Base(sn) == (sn - rx_next) % SnModulus   \* rx_mod_base; the peer's window starts here too

\* The missing byte ranges of an RX window that holds the bytes received[d] of
\* the SDU with SN = base + d.
GapsOf(base, received) ==
  UNION {LET lost == Bytes \ received[d]
         IN  {[sn |-> (base + d) % SnModulus, first |-> g[1], last |-> g[2]] :
                g \in {g \in lost \X lost : /\ g[1] <= g[2] /\ g[1] .. g[2] \subseteq lost
                                            /\ g[1] - 1 \notin lost /\ g[2] + 1 \notin lost}} :
         d \in 0 .. Span - 1}

\* Any RX window whose first SDU is incomplete, as RX_Next says it is.
Init ==
  /\ rx_next \in Sn
  /\ \E received \in [0 .. Span - 1 -> SUBSET Bytes] :
       /\ received[0] # Bytes
       /\ missing = GapsOf(rx_next, received)
  /\ pending = missing
  /\ nacks = <<>> /\ ack_sn = rx_next /\ packed_size = SizeofHeader
  /\ stage = "build"

-----------------------------------------------------------------------------
(* push_nack.                                                              *)

NackSize(nack) ==
  SizeofNackSn + (IF nack.has_so THEN SizeofNackSo ELSE 0)
               + (IF nack.has_nack_range THEN SizeofNackRange ELSE 0)

\* The NACK of a gap: the whole SDU, or a byte range whose end is left open when
\* the last segment is missing.
NackOf(gap) ==
  [nack_sn |-> gap.sn, has_so |-> gap.first # 0 \/ gap.last # SduLen - 1,
   so_start |-> gap.first, so_end |-> IF gap.last = SduLen - 1 THEN EndOfSdu ELSE gap.last,
   has_nack_range |-> FALSE, nack_range |-> 0]

NackRange(nack) == IF nack.has_nack_range THEN nack.nack_range ELSE 1

\* Mutant: the range may grow past what its field holds.
CanBeMergedAnyway(left, right) ==
  /\ right.nack_sn = (left.nack_sn + NackRange(left)) % SnModulus
  /\ left.has_so => left.so_end = EndOfSdu
  /\ right.has_so => right.so_start = 0

CanBeMerged(left, right) ==
  /\ right.nack_sn = (left.nack_sn + NackRange(left)) % SnModulus
  /\ left.has_so => left.so_end = EndOfSdu
  /\ right.has_so => right.so_start = 0
  /\ NackRange(left) + NackRange(right) <= MaxNackRange

\* The previous NACK grows by one SDU, or a part of it; pushed NACKs have no range.
\* The field of the range is unsigned and wraps.
Merged(prev, nack) ==
  [prev EXCEPT !.has_nack_range = TRUE,
               !.nack_range = (NackRange(prev) + NackRange(nack)) % (MaxNackRange + 1),
               !.has_so     = @ \/ nack.has_so,
               !.so_start   = IF nack.has_so /\ ~prev.has_so THEN 0 ELSE @,
               !.so_end     = IF nack.has_so THEN nack.so_end
                              ELSE IF prev.has_so THEN EndOfSdu ELSE @]

Last == nacks[Len(nacks)]

SizeOnMerge(prev, nack) == packed_size - NackSize(prev) + NackSize(Merged(prev, nack))

\* One round of the NACK loop of refresh_status_report.
PushNack ==
  /\ stage = "build"
  /\ \E gap \in pending :
       /\ \A other \in pending \ {gap} :
            \/ Base(gap.sn) < Base(other.sn)
            \/ gap.sn = other.sn /\ gap.first < other.first
       /\ pending' = pending \ {gap}
       /\ LET nack == NackOf(gap)
          IN  IF nacks # <<>> /\ CanBeMerged(Last, nack)
              THEN /\ nacks' = [nacks EXCEPT ![Len(nacks)] = Merged(Last, nack)]
                   /\ packed_size' = SizeOnMerge(Last, nack)
              ELSE /\ nacks' = Append(nacks, nack)
                   /\ packed_size' = packed_size + NackSize(nack)
  /\ UNCHANGED <<rx_next, missing, ack_sn, stage>>

SetAckSn ==
  /\ stage = "build" /\ pending = {}
  /\ ack_sn' = (rx_next + Span) % SnModulus
  /\ stage' = "built"
  /\ UNCHANGED <<rx_next, missing, pending, nacks, packed_size>>

-----------------------------------------------------------------------------
(* trim, with any size that has room for the header.                       *)

\* Mutant: ACK_SN does not follow the NACKs that are removed.
AckUnchanged(k) == ack_sn

\* ACK_SN once the NACKs behind the k-th have been removed.
AckAfter(k) == IF k = Len(nacks) THEN ack_sn ELSE nacks[k + 1].nack_sn

SizeAfter(k) == packed_size - MapThenSumSet(LAMBDA i : NackSize(nacks[i]), k + 1 .. Len(nacks))

\* NACKs are removed from the back, all those of one SN together.
Kept(max_size) ==
  Max({k \in 0 .. Len(nacks) :
         \/ k = 0
         \/ SizeAfter(k) <= max_size /\ nacks[k].nack_sn # AckAfter(k)})

Trim ==
  /\ stage = "built"
  /\ \E max_size \in SizeofHeader .. packed_size :
       LET k == IF max_size >= packed_size THEN Len(nacks) ELSE Kept(max_size)
       IN  /\ nacks' = SubSeq(nacks, 1, k)
           /\ ack_sn' = AckAfter(k)
           /\ packed_size' = SizeAfter(k)
  /\ stage' = "sent"
  /\ UNCHANGED <<rx_next, missing, pending>>

Next == PushNack \/ SetAckSn \/ Trim

Spec == Init /\ [][Next]_vars

-----------------------------------------------------------------------------
(* What the peer makes of the report.                                      *)

\* The byte ranges a NACK stands for: handle_status_pdu gives the first SN of a
\* range its so_start and the last one its so_end, and stops at ACK_SN.
Expanded(nack, ack) ==
  LET range == NackRange(nack)
  IN  {[sn    |-> (nack.nack_sn + d) % SnModulus,
        first |-> IF nack.has_so /\ d = 0 THEN nack.so_start ELSE 0,
        last  |-> IF nack.has_so /\ d = range - 1 /\ nack.so_end # EndOfSdu
                  THEN nack.so_end ELSE SduLen - 1] :
        d \in {d \in 0 .. range - 1 :
                 nack.has_nack_range => Base(nack.nack_sn + d) < Base(ack)}}

ExpandedNacks(ack) == UNION {Expanded(nacks[i], ack) : i \in DOMAIN nacks}

\* Merging neighbours (push_nack) and expanding ranges (handle_status_pdu) undo
\* each other: the peer reads exactly the byte ranges that were pushed.  After
\* trim it may read fewer, but nothing that is missing is acknowledged: every
\* missing range of an SN below ACK_SN is still named.
ReportIsTrue ==
  IF stage = "sent"
  THEN {gap \in missing : Base(gap.sn) < Base(ack_sn)} \subseteq ExpandedNacks(ack_sn)
  ELSE ExpandedNacks(rx_next + Span) = missing \ pending
=============================================================================

------------------------------- MODULE RlcAmRx -------------------------------
(***************************************************************************)
(* The receiving side of an RLC AM entity (rlc_rx_am_entity): reassembly   *)
(* in the RX window, detection of losses by t-Reassembly, and the status   *)
(* report cached for the transmitting side of the same entity, which sends *)
(* it (the status branch of rlc_tx_am_entity::pull_pdu).                   *)
(*                                                                         *)
(* The window keeps, for every SN it knows, the bytes received so far and  *)
(* the SDU each one came from.  The std::set of non-overlapping segments   *)
(* of the code holds the same bytes; the last segment has been received    *)
(* when byte SduLen - 1 has.                                               *)
(***************************************************************************)
EXTENDS RlcAmPdu

CONSTANTS
  MaxSnPerStatus,     \* cfg.max_sn_per_status: SNs a report may cover
  StatusProhibit      \* cfg.t_status_prohibit > 0

ASSUME RlcAmRxAssumption ==
  /\ MaxSnPerStatus \in 1 .. AmWindowSize
  /\ StatusProhibit \in BOOLEAN

VARIABLES
  rx_next, rx_next_status_trigger, rx_highest_status, rx_next_highest,   \* st
  rx_window,          \* SN -> (byte -> SDU it belongs to)
  reassembly_timer,   \* t-Reassembly is running
  prohibit_timer,     \* t-StatusProhibit is running
  do_status,          \* a status report is requested
  status_report,      \* the cached report
  delivered           \* SDU -> number of times on_new_sdu handed it up;
                      \* 0 stands for a mixture of SDUs

rxSt == <<rx_next, rx_next_status_trigger, rx_highest_status, rx_next_highest>>
rxVars == <<rxSt, rx_window, reassembly_timer, prohibit_timer, do_status, status_report, delivered>>

RxTypeOK ==
  /\ rx_next \in Sn /\ rx_next_status_trigger \in Sn
  /\ rx_highest_status \in Sn /\ rx_next_highest \in Sn
  /\ DOMAIN rx_window \subseteq Sn
  /\ \A sn \in DOMAIN rx_window : /\ DOMAIN rx_window[sn] \subseteq Bytes
                                  /\ \A b \in DOMAIN rx_window[sn] : rx_window[sn][b] \in Sdu
  /\ reassembly_timer \in BOOLEAN /\ prohibit_timer \in BOOLEAN /\ do_status \in BOOLEAN
  /\ status_report.ack_sn \in Sn /\ status_report.nacks \subseteq Nack
  /\ delivered \in [0 .. MaxSdus -> Nat]

RxInit ==
  /\ rx_next = 0 /\ rx_next_status_trigger = 0
  /\ rx_highest_status = 0 /\ rx_next_highest = 0
  /\ rx_window = <<>>
  /\ reassembly_timer = FALSE /\ prohibit_timer = FALSE /\ do_status = FALSE
  /\ status_report = [ack_sn |-> 0, nacks |-> {}]
  /\ delivered = [s \in 0 .. MaxSdus |-> 0]

-----------------------------------------------------------------------------
\* Mutant: the last byte stands for all of them.
LastReceived(window, sn) == sn \in DOMAIN window /\ SduLen - 1 \in DOMAIN window[sn]

FullyReceived(window, sn) == sn \in DOMAIN window /\ DOMAIN window[sn] = Bytes

\* update_segment_inventory: a byte is missing before the last one received.
\* The code must not ask for an SN it does not know (TriggerLooksUpKnownSn of
\* RlcAm shows that it does not); the answer here is then TRUE.
HasGap(window, sn) ==
  sn \in DOMAIN window =>
    \E b \in Bytes \ DOMAIN window[sn] : \E c \in DOMAIN window[sn] : b < c

\* Mutant: every SN is inside the window.
InsideAnyWindow(sn, next) == ModBase(sn, next) < SnModulus

InsideRxWindow(sn, next) == ModBase(sn, next) < AmWindowSize

\* Mutant: no look at the SDUs that follow.
FollowingSn(start, end, window) == SnAdd(start, 1)

\* The first SN from start on that is not fully received, or else end.
FirstIncomplete(start, end, window) ==
  LET stops == {d \in 0 .. SnModulus :
                  \/ ModBase(SnAdd(start, d), rx_next) >= ModBase(end, rx_next)
                  \/ ~FullyReceived(window, SnAdd(start, d))}
  IN  SnAdd(start, Min(stops))

\* Mutant: an SN of which nothing has arrived is not reported.
NacksOfKnown(sn, window) == {}

\* The missing byte ranges of SN sn, as refresh_status_report lists them.
NacksOf(sn, window) ==
  IF sn \notin DOMAIN window
  THEN {[sn |-> sn, has_so |-> FALSE, so_start |-> 0, so_end |-> EndOfSdu]}
  ELSE LET missing == Bytes \ DOMAIN window[sn]
           gaps == {g \in missing \X missing :
                      /\ g[1] <= g[2] /\ g[1] .. g[2] \subseteq missing
                      /\ g[1] - 1 \notin missing /\ g[2] + 1 \notin missing}
       IN  {[sn |-> sn, has_so |-> TRUE, so_start |-> g[1],
             so_end |-> IF g[2] = SduLen - 1 THEN EndOfSdu ELSE g[2]] : g \in gaps}

\* refresh_status_report over RX_Next = next and RX_Highest_Status = highest.
RefreshedReport(next, highest, window) ==
  LET stop == Min({ModBase(highest, next), MaxSnPerStatus})
  IN  [ack_sn |-> SnAdd(next, stop),
       nacks  |-> UNION {NacksOf(SnAdd(next, d), window) :
                           d \in {d \in 0 .. stop - 1 : ~FullyReceived(window, SnAdd(next, d))}}]

Segment(pdu) == pdu.so .. pdu.so + pdu.len - 1

Held(window, sn) == IF sn \in DOMAIN window THEN DOMAIN window[sn] ELSE {}

\* store_segment: bytes already held are kept; handle_full_data_sdu: they are not.
Stored(pdu) ==
  LET held  == Held(rx_window, pdu.sn)
      bytes == [b \in held \cup Segment(pdu) |->
                  IF b \in held /\ pdu.len # SduLen THEN rx_window[pdu.sn][b] ELSE pdu.sdu]
  IN  [sn \in DOMAIN rx_window \cup {pdu.sn} |->
         IF sn = pdu.sn THEN bytes ELSE rx_window[sn]]

\* Whether the PDU brings a byte that is not held yet.
BringsNewBytes(pdu) ==
  pdu.sn \notin DOMAIN rx_window \/ ~(Segment(pdu) \subseteq DOMAIN rx_window[pdu.sn])

\* The SDU reassembled from bytes: 0 if they are not all of one SDU.
Reassembled(bytes) ==
  IF DOMAIN bytes = Bytes /\ \A b \in Bytes : bytes[b] = bytes[0] THEN bytes[0] ELSE 0

\* t-Reassembly is stopped (conditions of handle_data_pdu, on the new state).
StopReassembly(next, window) ==
  \/ rx_next_status_trigger = next
  \/ rx_next_status_trigger = SnAdd(next, 1) /\ ~HasGap(window, next)
  \/ ~InsideRxWindow(rx_next_status_trigger, next)

\* ... and (re)started, counting from SN base.
StartReassembly(base, highest, next, window) ==
  \/ ModBase(highest, next) > ModBase(base + 1, next)
  \/ /\ highest = SnAdd(base, 1)
     /\ base \in DOMAIN window /\ HasGap(window, base)

-----------------------------------------------------------------------------
\* handle_data_pdu for a PDU outside the window or of a complete SDU: only its
\* poll bit counts.
DiscardDataPdu ==
  \E pdu \in data :
    /\ \/ ~InsideRxWindow(pdu.sn, rx_next)
       \/ FullyReceived(rx_window, pdu.sn)
    /\ data' \in Take(data, pdu)
    /\ IF pdu.p
       THEN /\ do_status' = TRUE
            /\ status_report' = RefreshedReport(rx_next, rx_highest_status, rx_window)
       ELSE UNCHANGED <<do_status, status_report>>
    /\ UNCHANGED <<rxSt, rx_window, reassembly_timer, prohibit_timer, delivered, stat>>

\* Mutant: one SN too far.
RaisedPast(sn) ==
  IF ModBase(sn, rx_next) >= ModBase(rx_next_highest, rx_next) THEN SnAdd(sn, 2) ELSE rx_next_highest

\* RX_Next_Highest is one past the highest SN received.
RaisedHighest(sn) ==
  IF ModBase(sn, rx_next) >= ModBase(rx_next_highest, rx_next) THEN SnAdd(sn, 1) ELSE rx_next_highest

\* handle_data_pdu for a PDU that is stored.
HandleDataPdu ==
  \E pdu \in data :
    /\ InsideRxWindow(pdu.sn, rx_next) /\ ~FullyReceived(rx_window, pdu.sn)
    /\ data' \in Take(data, pdu)
    /\ LET window  == Stored(pdu)
           done    == FullyReceived(window, pdu.sn)
           highest == RaisedHighest(pdu.sn)
           status  == IF done /\ pdu.sn = rx_highest_status
                      THEN FirstIncomplete(SnAdd(pdu.sn, 1), highest, window)
                      ELSE rx_highest_status
           next    == IF done /\ pdu.sn = rx_next
                      THEN FirstIncomplete(rx_next, highest, window)
                      ELSE rx_next
           kept    == [sn \in {s \in DOMAIN window :
                                 ModBase(s, rx_next) >= ModBase(next, rx_next)} |-> window[sn]]
           running == reassembly_timer /\ ~StopReassembly(next, kept)
           start   == ~running /\ StartReassembly(next, highest, next, kept)
       IN  /\ rx_window' = kept
           /\ rx_next' = next /\ rx_next_highest' = highest /\ rx_highest_status' = status
           /\ delivered' = IF done THEN [delivered EXCEPT ![Reassembled(window[pdu.sn])] = @ + 1]
                                   ELSE delivered
           /\ reassembly_timer' = (running \/ start)
           /\ rx_next_status_trigger' = IF start THEN highest ELSE rx_next_status_trigger
           /\ status_report' = IF pdu.p \/ BringsNewBytes(pdu)
                               THEN RefreshedReport(next, status, kept) ELSE status_report
           /\ do_status' = (do_status \/ pdu.p)
    /\ UNCHANGED <<prohibit_timer, stat>>

\* on_expired_reassembly_timer: what is missing below the trigger is reported.
ExpireReassemblyTimer ==
  /\ reassembly_timer
  /\ IF ModBase(rx_next_status_trigger, rx_next) \in 1 .. AmWindowSize
     THEN LET status  == FirstIncomplete(rx_next_status_trigger, rx_next_highest, rx_window)
              restart == StartReassembly(status, rx_next_highest, rx_next, rx_window)
          IN  /\ rx_highest_status' = status
              /\ reassembly_timer' = restart
              /\ rx_next_status_trigger' = IF restart THEN rx_next_highest
                                                      ELSE rx_next_status_trigger
              /\ status_report' = RefreshedReport(rx_next, status, rx_window)
              /\ do_status' = TRUE
     ELSE /\ reassembly_timer' = FALSE
          /\ UNCHANGED <<rx_highest_status, rx_next_status_trigger, status_report, do_status>>
  /\ UNCHANGED <<rx_next, rx_next_highest, rx_window, prohibit_timer, delivered, channels>>

-----------------------------------------------------------------------------
\* trim drops NACKs from the back: the report then ends at an SN it no longer
\* names.  (A merged range that still reaches that SN makes the peer ignore the
\* report, see RlcAmStatusPdu; to this module it is a report that is lost.)
Trimmed(report) ==
  {report} \cup
  {[ack_sn |-> n.sn,
    nacks  |-> {m \in report.nacks : ModBase(m.sn, rx_next) < ModBase(n.sn, rx_next)}] :
     n \in report.nacks}

\* The status branch of pull_pdu with get_status_pdu: the request is cleared,
\* t-StatusProhibit starts.
PullStatusPdu ==
  /\ do_status /\ ~prohibit_timer
  /\ Cardinality(stat) < ChanCap
  /\ do_status' = FALSE
  /\ prohibit_timer' = StatusProhibit
  /\ \E report \in Trimmed(status_report) : stat' = stat \cup {report}
  /\ UNCHANGED <<rxSt, rx_window, reassembly_timer, status_report, delivered, data>>

ExpireStatusProhibitTimer ==
  /\ prohibit_timer /\ prohibit_timer' = FALSE
  /\ UNCHANGED <<rxSt, rx_window, reassembly_timer, do_status, status_report, delivered, channels>>
=============================================================================

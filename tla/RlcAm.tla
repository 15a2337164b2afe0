-------------------------------- MODULE RlcAm --------------------------------
(***************************************************************************)
(* One direction of an RLC AM bearer: the transmitting side of one entity, *)
(* the receiving side of its peer and the lossy, reordering, duplicating   *)
(* lower layer between them.                                               *)
(***************************************************************************)
EXTENDS RlcAmTx, RlcAmRx

vars == <<txVars, rxVars, channels>>

Init == InitChannels /\ TxInit /\ RxInit

TxStep ==
  /\ \/ HandleSdu \/ DiscardSdu
     \/ PullPdu
     \/ HandleStatusPdu \/ IgnoreStatusPdu
     \/ ExpirePollRetransmitTimer
     \/ UpdateMacBufferState
  /\ UNCHANGED rxVars

RxStep ==
  /\ \/ DiscardDataPdu \/ HandleDataPdu
     \/ ExpireReassemblyTimer
     \/ PullStatusPdu
     \/ ExpireStatusProhibitTimer
  /\ UNCHANGED txVars

LowerLayerStep == (LoseData \/ LoseStatus) /\ UNCHANGED <<txVars, rxVars>>

Next == TxStep \/ RxStep \/ LowerLayerStep

Spec == Init /\ [][Next]_vars

TypeOK == ChannelTypeOK /\ TxTypeOK /\ RxTypeOK

-----------------------------------------------------------------------------
(* Safety.                                                                 *)

\* The bearer implements the service: at-most-once, unmixed delivery
\* (on_new_sdu), and on_delivered_sdu only for SDUs the peer has handed up.
Service == INSTANCE RlcAmService
ImplementsService == Service!Spec

\* The TX window holds exactly the SNs from TX_Next_Ack up to TX_Next, TX_Next
\* itself included while its SDU is being segmented: add_sn and remove_sn never
\* meet an SN that is, or is not, there.
TxWindowContiguous ==
  /\ sn_under_segmentation \in {NoSn, tx_next}
  /\ DOMAIN tx_window =
       {sn \in Sn : TxBase(sn) < TxBase(tx_next)}
         \cup IF sn_under_segmentation = NoSn THEN {} ELSE {tx_next}

\* handle_nack, build_retx_pdu: a retransmission lies in the window and never
\* overtakes the original transmission of a segmented SDU.
RetxOnlyWhatWasSent ==
  \A i \in DOMAIN retx_queue :
    LET retx == retx_queue[i]
    IN  /\ retx.sn \in DOMAIN tx_window
        /\ retx.so + retx.length <=
             IF retx.sn = sn_under_segmentation THEN tx_window[retx.sn].next_so ELSE SduLen

\* The order of the RX state variables of TS 38.322 Sec. 7.1, and what they
\* stand for: neither RX_Next nor RX_Highest_Status names a complete SDU.
RxStateOrder ==
  LET Base(sn) == ModBase(sn, rx_next)
  IN  /\ Base(rx_highest_status) <= Base(rx_next_highest)
      /\ Base(rx_next_highest) <= AmWindowSize
      /\ ~FullyReceived(rx_window, rx_next)
      /\ ~FullyReceived(rx_window, rx_highest_status)
      /\ \A sn \in DOMAIN rx_window : Base(sn) < Base(rx_next_highest)

\* handle_data_pdu looks up rx_window[rx_next] without asking has_sn: when
\* RX_Next_Status_Trigger = RX_Next + 1 and t-Reassembly runs, it is there.
TriggerLooksUpKnownSn ==
  reassembly_timer /\ rx_next_status_trigger = SnAdd(rx_next, 1)
    => rx_next \in DOMAIN rx_window

\* The two windows never drift apart: the receiver is at or ahead of the last
\* acknowledgement and never ahead of what has been sent.
WindowsAligned ==
  /\ TxBase(rx_next) <= Cardinality(DOMAIN tx_window)
  /\ TxBase(rx_next) + ModBase(rx_next_highest, rx_next) <= Cardinality(DOMAIN tx_window)

\* Every report in flight that handle_status_pdu accepts tells the truth: the
\* SNs it negatively acknowledges are in the TX window, and those it covers
\* without a NACK are complete at the receiver.
AcceptedReportIsTrue ==
  \A status \in stat :
    Accepts(status) =>
      /\ \A nack \in status.nacks : nack.sn \in DOMAIN tx_window
      /\ \A sn \in DOMAIN tx_window :
           TxBase(sn) < TxBase(status.ack_sn) /\ (\A nack \in status.nacks : nack.sn # sn)
             => delivered[tx_window[sn].sdu] = 1

\* A peer that follows the protocol is never taken for one that does not
\* (on_protocol_failure releases the UE).
NoProtocolFailure == "protocol_failure" \notin upper_cn

\* get_polling_bit: a PDU after which nothing is left to transmit, or after
\* which no new SDU can be transmitted, carries a poll.
LiveSdus == {i \in DOMAIN sdu_queue : ~sdu_queue[i].discarded}
NothingLeft == LiveSdus = {} /\ retx_queue = <<>> /\ sn_under_segmentation = NoSn
PollOnLastPdu ==
  [][\A pdu \in data' \ data : (NothingLeft \/ IsTxWindowFull(tx_window))' => pdu.p]_vars

-----------------------------------------------------------------------------
(* Liveness.  The MAC keeps offering grants that fit a whole SDU, timers   *)
(* expire, and a PDU in flight eventually arrives or is lost; it is not    *)
(* duplicated for ever.  Nothing makes a PDU arrive.                       *)

Removes(channel) == channel' \subseteq channel /\ channel' # channel

DrainData == (DiscardDataPdu \/ HandleDataPdu) /\ Removes(data) /\ UNCHANGED txVars
DrainStatus == (HandleStatusPdu \/ IgnoreStatusPdu) /\ Removes(stat) /\ UNCHANGED rxVars
DataLost == LoseData /\ UNCHANGED <<txVars, rxVars>>
StatusLost == LoseStatus /\ UNCHANGED <<txVars, rxVars>>

PullWholeSdu ==
  LET grant == Max(Grants)
  IN  /\ BuildNewPdu(grant) \/ BuildContinuedSduSegment(grant) \/ BuildRetxPdu(grant)
      /\ UNCHANGED rxVars
PollExpires == ExpirePollRetransmitTimer /\ UNCHANGED rxVars

LinkFairness ==
  /\ WF_vars(PullWholeSdu)
  /\ WF_vars(DrainData \/ DataLost) /\ WF_vars(DrainStatus \/ StatusLost)
  /\ WF_vars(ExpireReassemblyTimer /\ UNCHANGED txVars)
  /\ WF_vars(ExpireStatusProhibitTimer /\ UNCHANGED txVars)
  /\ WF_vars(PullStatusPdu /\ UNCHANGED txVars)

FairSpec == Spec /\ LinkFairness /\ WF_vars(PollExpires)

\* t-PollRetransmit is longer than t-Reassembly and a round trip together: it
\* does not expire while a PDU or an answer is on its way or still to come.
RoundTripDone == data = {} /\ stat = {} /\ ~do_status /\ ~reassembly_timer
TimelyNext == Next /\ (ExpirePollRetransmitTimer => RoundTripDone)
TimelySpec == /\ Init /\ [][TimelyNext]_vars
              /\ LinkFairness /\ WF_vars(PollExpires /\ RoundTripDone)

\* Every SDU that handle_sdu has queued is eventually confirmed
\* (on_delivered_sdu), unless the upper layer is told that the bearer has failed
\* (on_max_retx, on_protocol_failure).
Queued(s) == \E i \in DOMAIN sdu_queue : sdu_queue[i] = [sdu |-> s, discarded |-> FALSE]
EventuallyResolved ==
  \A s \in Sdu \ Discardable : Queued(s) ~> s \in confirmed \/ upper_cn # {}

\* on_expired_poll_retransmit_timer includes "a poll in an AMD PDU": while an SDU
\* waits for its acknowledgement and t-PollRetransmit does not run, a poll goes
\* out and starts it, unless the acknowledgement comes first or the upper layer is
\* told that the bearer has failed.
PollFollowsExpiry ==
  tx_next_ack \in DOMAIN tx_window /\ ~poll_timer
    ~> poll_timer \/ DOMAIN tx_window = {} \/ upper_cn # {}

=============================================================================

------------------------------- MODULE RlcAmTx -------------------------------
(***************************************************************************)
(* The transmitting side of an RLC AM entity (rlc_tx_am_entity).  The      *)
(* upper layer submits and discards SDUs; the lower layer pulls PDUs,      *)
(* hands over status reports of the peer and lets t-PollRetransmit expire. *)
(* The handlers of the lower layer run one after the other on the          *)
(* pcell_executor, so each is one action.  The SDU queue is shared with    *)
(* the ue_executor; its operations are atomic here, RlcSduQueue looks      *)
(* inside them.                                                            *)
(***************************************************************************)
EXTENDS RlcAmPdu, OrderedSets

CONSTANTS
  QueueSize,      \* capacity of the SDU queue
  MaxRetxThresh,  \* cfg.max_retx_thresh
  PollPdu,        \* cfg.poll_pdu, 0 stands for infinity
  PollByte,       \* cfg.poll_byte, 0 stands for infinity
  MaxWindow,      \* cfg.max_window, 0 means no limit
  Discardable,    \* SDUs whose PDCP discard timer may expire
  RetxCountBound  \* bound: retx_count is not followed beyond this value

ASSUME RlcAmTxAssumption ==
  /\ QueueSize \in Nat \ {0} /\ MaxRetxThresh \in Nat \ {0}
  /\ PollPdu \in Nat /\ PollByte \in Nat /\ MaxWindow \in Nat
  /\ Discardable \subseteq Sdu
  /\ RetxCountBound \in Nat /\ RetxCountBound >= MaxRetxThresh

VARIABLES
  submitted,          \* number of calls of handle_sdu so far
  sdu_queue,          \* sequence of [sdu, discarded]
  tx_window,          \* SN -> [sdu, next_so, retx_count] of the SNs in the window
  tx_next_ack, tx_next, poll_sn, pdu_without_poll, byte_without_poll,  \* st
  sn_under_segmentation,
  retx_queue,         \* sequence of [sn, so, length]
  retx_sn,            \* SN of the most recent ReTx since last status report
  max_retx_reached,
  poll_timer,         \* t-PollRetransmit is running
  pending_buffer_state, \* a deferred update_mac_buffer_state is on its way; followed
                      \* only where SDUs can be discarded, since what it changes
                      \* here is that discarded SDUs leave the queue
  upper_cn,           \* control notifications: max_retx, protocol_failure
  confirmed           \* SDUs that on_delivered_sdu has reported up to

txSt == <<tx_next_ack, tx_next>>
pollSt == <<poll_sn, pdu_without_poll, byte_without_poll, poll_timer>>
retxSt == <<retx_queue, retx_sn, max_retx_reached>>
upperSt == <<upper_cn, confirmed>>
txVars == <<submitted, sdu_queue, tx_window, txSt, pollSt, retxSt,
            sn_under_segmentation, pending_buffer_state, upperSt>>

NotStarted == -1                         \* RETX_COUNT_NOT_STARTED
Retx == [sn : Sn, so : Bytes, length : 1 .. SduLen]

TxTypeOK ==
  /\ submitted \in 0 .. MaxSdus
  /\ sdu_queue \in Seq([sdu : Sdu, discarded : BOOLEAN])
  /\ DOMAIN tx_window \subseteq Sn
  /\ \A sn \in DOMAIN tx_window :
        tx_window[sn] \in [sdu : Sdu, next_so : 0 .. SduLen,
                           retx_count : NotStarted .. RetxCountBound]
  /\ tx_next_ack \in Sn /\ tx_next \in Sn /\ poll_sn \in Sn
  /\ pdu_without_poll \in Nat /\ byte_without_poll \in Nat
  /\ sn_under_segmentation \in Sn \cup {NoSn}
  /\ retx_queue \in Seq(Retx) /\ retx_sn \in Sn \cup {NoSn}
  /\ max_retx_reached \in BOOLEAN /\ poll_timer \in BOOLEAN
  /\ pending_buffer_state \in BOOLEAN
  /\ upper_cn \subseteq {"max_retx", "protocol_failure"}
  /\ confirmed \subseteq Sdu

TxInit ==
  /\ submitted = 0 /\ sdu_queue = <<>> /\ tx_window = <<>>
  /\ tx_next_ack = 0 /\ tx_next = 0 /\ poll_sn = 0
  /\ pdu_without_poll = 0 /\ byte_without_poll = 0 /\ poll_timer = FALSE
  /\ sn_under_segmentation = NoSn
  /\ retx_queue = <<>> /\ retx_sn = NoSn /\ max_retx_reached = FALSE
  /\ pending_buffer_state = FALSE
  /\ upper_cn = {} /\ confirmed = {}

-----------------------------------------------------------------------------
(* The upper layer, on the ue_executor.                                    *)

\* handle_sdu: a full queue drops the SDU.
HandleSdu ==
  /\ submitted < MaxSdus
  /\ submitted' = submitted + 1
  /\ IF Len(sdu_queue) < QueueSize
     THEN /\ sdu_queue' = Append(sdu_queue, [sdu |-> submitted', discarded |-> FALSE])
          /\ pending_buffer_state' = (Discardable # {})
     ELSE UNCHANGED <<sdu_queue, pending_buffer_state>>
  /\ UNCHANGED <<tx_window, txSt, pollSt, retxSt, sn_under_segmentation, upperSt, channels>>

\* discard_sdu: the SDU is marked; it keeps its place until it is popped.
DiscardSdu ==
  /\ \E i \in DOMAIN sdu_queue :
       /\ sdu_queue[i].sdu \in Discardable /\ ~sdu_queue[i].discarded
       /\ sdu_queue' = [sdu_queue EXCEPT ![i].discarded = TRUE]
  /\ pending_buffer_state' = TRUE
  /\ UNCHANGED <<submitted, tx_window, txSt, pollSt, retxSt, sn_under_segmentation, upperSt, channels>>

-----------------------------------------------------------------------------
(* Operators of the lower-layer side.                                      *)

\* What remains of the queue q once read() or front() has popped the
\* discarded SDUs at its head.
PopDiscarded(q) ==
  LET live == {i \in DOMAIN q : ~q[i].discarded}
  IN  IF live = {} THEN <<>> ELSE SubSeq(q, Min(live), Len(q))

\* Entries whose SN has left the window are dropped from the head of the queue.
DropStaleRetx(q, window) ==
  LET live == {i \in DOMAIN q : q[i].sn \in DOMAIN window}
  IN  IF live = {} THEN <<>> ELSE SubSeq(q, Min(live), Len(q))

\* update_mac_buffer_state: get_buffer_state looks at the front of the SDU queue
\* for the age of its head, which pops the discarded SDUs there.
NotifyBufferState ==
  /\ pending_buffer_state' = FALSE
  /\ sdu_queue' = IF sn_under_segmentation = NoSn THEN PopDiscarded(sdu_queue) ELSE sdu_queue

\* max_window counts from TX_Next as it is now, not as it will be.
IsTxWindowFull(window) ==
  \/ Cardinality(DOMAIN window) >= AmWindowSize
  \/ MaxWindow # 0 /\ ModBase(tx_next, tx_next_ack) > MaxWindow

\* Mutant: empty buffers do not call for a poll.
WindowStalls(queue, retx, segmented, window) == IsTxWindowFull(window)

NothingToSend(queue, retx, segmented, window) ==
  \/ queue = <<>> /\ retx = <<>> /\ segmented = NoSn
  \/ IsTxWindowFull(window)

\* get_polling_bit for a new PDU: payload_size bytes are added to the count.
NewPduPolls(payload_size, queue, retx, segmented, window) ==
  \/ PollPdu > 0 /\ pdu_without_poll + 1 >= PollPdu
  \/ PollByte > 0 /\ byte_without_poll + payload_size >= PollByte
  \/ NothingToSend(queue, retx, segmented, window)

\* ... and its effect: a poll resets the counters, moves POLL_SN, starts the timer.
SetNewPduPoll(poll, payload_size) ==
  /\ poll_sn' = IF poll THEN tx_next ELSE poll_sn
  /\ pdu_without_poll' = IF poll THEN 0 ELSE pdu_without_poll + 1
  /\ byte_without_poll' = IF poll THEN 0 ELSE byte_without_poll + payload_size
  /\ poll_timer' = (poll \/ poll_timer)

\* Mutant: a poll in a retransmission does not start t-PollRetransmit.
SetRetxPollNoTimer(poll) ==
  /\ pdu_without_poll' = IF poll THEN 0 ELSE pdu_without_poll
  /\ byte_without_poll' = IF poll THEN 0 ELSE byte_without_poll
  /\ UNCHANGED <<poll_timer, poll_sn>>

\* ... and for a retransmission, which leaves POLL_SN alone.
SetRetxPoll(poll) ==
  /\ pdu_without_poll' = IF poll THEN 0 ELSE pdu_without_poll
  /\ byte_without_poll' = IF poll THEN 0 ELSE byte_without_poll
  /\ poll_timer' = (poll \/ poll_timer)
  /\ UNCHANGED poll_sn

\* tx_window.add_sn(TX_Next), of which next_so bytes have been segmented off.
AddSn(sdu, next_so) ==
  [sn \in DOMAIN tx_window \cup {tx_next} |->
     IF sn = tx_next THEN [sdu |-> sdu, next_so |-> next_so, retx_count |-> NotStarted]
     ELSE tx_window[sn]]

SendData(inFlight, pdu) ==
  /\ Cardinality(inFlight) < ChanCap
  /\ data' = inFlight \cup {pdu}
  /\ UNCHANGED stat

-----------------------------------------------------------------------------
(* pull_pdu, branch by branch.  Branches that return 0 and change nothing  *)
(* are not actions.                                                        *)

\* Mutant: a full TX window does not stop new SDUs.
WantsNewSduAlways(grant) ==
  /\ ~max_retx_reached /\ retx_queue = <<>>
  /\ sn_under_segmentation \notin DOMAIN tx_window
  /\ sdu_queue # <<>> /\ grant > HeadMin

\* The branch that looks at the SDU queue is reached.
WantsNewSdu(grant) ==
  /\ ~max_retx_reached /\ retx_queue = <<>>
  /\ sn_under_segmentation \notin DOMAIN tx_window
  /\ sdu_queue # <<>>
  /\ grant > HeadMin /\ ~IsTxWindowFull(tx_window)

\* read() finds discarded SDUs only: it pops them all and fails.
PullDiscarded(grant) ==
  /\ WantsNewSdu(grant)
  /\ PopDiscarded(sdu_queue) = <<>>
  /\ sdu_queue' = <<>>
  /\ sn_under_segmentation' = NoSn
  /\ UNCHANGED <<submitted, tx_window, txSt, pollSt, retxSt, pending_buffer_state, upperSt, channels>>

\* build_new_pdu with an SDU that fits.  sdu.buf has been moved into the window
\* when get_polling_bit is handed sdu.buf.length(): the bytes count as 0.
BuildNewPdu(grant) ==
  /\ WantsNewSdu(grant) /\ SduLen + HeadMin <= grant
  /\ PopDiscarded(sdu_queue) # <<>>
  /\ LET live   == PopDiscarded(sdu_queue)
         queue  == Tail(live)
         window == AddSn(Head(live).sdu, 0)
         poll   == NewPduPolls(0, queue, <<>>, NoSn, window)
     IN  /\ sdu_queue' = queue /\ tx_window' = window
         /\ SetNewPduPoll(poll, 0)
         /\ SendData(YoungData(tx_next),
              [sn |-> tx_next, so |-> 0, len |-> SduLen, p |-> poll, sdu |-> Head(live).sdu])
  /\ tx_next' = SnAdd(tx_next, 1)
  /\ sn_under_segmentation' = NoSn
  /\ UNCHANGED <<submitted, tx_next_ack, retxSt, pending_buffer_state, upperSt>>

\* build_new_pdu with an SDU that does not fit: build_first_sdu_segment.
BuildFirstSduSegment(grant) ==
  /\ WantsNewSdu(grant) /\ SduLen + HeadMin > grant
  /\ PopDiscarded(sdu_queue) # <<>>
  /\ LET live   == PopDiscarded(sdu_queue)
         queue  == Tail(live)
         len    == grant - HeadMin
         window == AddSn(Head(live).sdu, len)
         poll   == NewPduPolls(len, queue, <<>>, tx_next, window)
     IN  /\ sdu_queue' = queue /\ tx_window' = window
         /\ SetNewPduPoll(poll, len)
         /\ SendData(YoungData(tx_next),
              [sn |-> tx_next, so |-> 0, len |-> len, p |-> poll, sdu |-> Head(live).sdu])
  /\ sn_under_segmentation' = tx_next
  /\ UNCHANGED <<submitted, txSt, retxSt, pending_buffer_state, upperSt>>

\* build_continued_sdu_segment: a middle segment, or the last one, with which
\* TX_Next advances.
BuildContinuedSduSegment(grant) ==
  /\ ~max_retx_reached /\ retx_queue = <<>>
  /\ sn_under_segmentation \in DOMAIN tx_window
  /\ grant > HeadMax
  /\ LET info == tx_window[sn_under_segmentation]
         rest == SduLen - info.next_so
         last == rest + HeadMax <= grant
         len  == IF last THEN rest ELSE grant - HeadMax
         sus  == IF last THEN NoSn ELSE sn_under_segmentation
         poll == NewPduPolls(len, sdu_queue, <<>>, sus, tx_window)
     IN  /\ info.next_so \in 1 .. SduLen - 1
         /\ sn_under_segmentation' = sus
         /\ SetNewPduPoll(poll, len)
         /\ tx_window' = [tx_window EXCEPT ![sn_under_segmentation].next_so = @ + len]
         /\ tx_next' = IF last THEN SnAdd(tx_next, 1) ELSE tx_next
         /\ SendData(data, [sn |-> tx_next, so |-> info.next_so, len |-> len,
                            p |-> poll, sdu |-> info.sdu])
  /\ UNCHANGED <<submitted, sdu_queue, tx_next_ack, retxSt, pending_buffer_state, upperSt>>

RetxHeader(retx) == IF retx.so = 0 THEN HeadMin ELSE HeadMax

\* build_retx_pdu: the front of the queue, as much of it as fits.  The poll bit
\* is computed after the queue has been updated.  The early returns for a queue
\* of stale entries only, and for one that exceeds its SDU, are not actions: by
\* RetxOnlyWhatWasSent of RlcAm no such entry is ever queued.
BuildRetxPdu(grant) ==
  /\ ~max_retx_reached /\ retx_queue # <<>>
  /\ LET fresh == DropStaleRetx(retx_queue, tx_window)
         retx  == Head(fresh)
         info  == tx_window[retx.sn]
         room  == grant - RetxHeader(retx)
         len   == IF retx.length <= room THEN retx.length ELSE room
         done  == len = retx.length
         queue == IF done THEN Tail(fresh)
                  ELSE <<[retx EXCEPT !.so = @ + len, !.length = @ - len]>> \o Tail(fresh)
         poll  == NothingToSend(sdu_queue, queue, sn_under_segmentation, tx_window)
     IN  /\ fresh # <<>> /\ retx.so + retx.length <= SduLen
         /\ grant > RetxHeader(retx)
         /\ retx_sn' = retx.sn
         /\ retx_queue' = queue
         /\ max_retx_reached' = (done /\ info.retx_count = MaxRetxThresh)
         /\ SetRetxPoll(poll)
         /\ SendData(data, [sn |-> retx.sn, so |-> retx.so, len |-> len,
                            p |-> poll, sdu |-> info.sdu])
  /\ UNCHANGED <<submitted, sdu_queue, tx_window, txSt, sn_under_segmentation, pending_buffer_state, upperSt>>

\* build_retx_pdu with a grant the header does not fit in: nothing is sent,
\* but retx_sn has been set.
RetxGrantTooSmall(grant) ==
  /\ ~max_retx_reached /\ retx_queue # <<>>
  /\ LET fresh == DropStaleRetx(retx_queue, tx_window)
     IN  /\ fresh # <<>>
         /\ grant <= RetxHeader(Head(fresh))
         /\ retx_sn' = Head(fresh).sn
         /\ retx_queue' = fresh
  /\ UNCHANGED <<submitted, sdu_queue, tx_window, txSt, pollSt, max_retx_reached,
                 sn_under_segmentation, pending_buffer_state, upperSt, channels>>

PullPdu ==
  \E grant \in Grants :
     \/ PullDiscarded(grant)
     \/ BuildNewPdu(grant)
     \/ BuildFirstSduSegment(grant)
     \/ BuildContinuedSduSegment(grant)
     \/ BuildRetxPdu(grant)
     \/ RetxGrantTooSmall(grant)

-----------------------------------------------------------------------------
(* handle_status_pdu.                                                      *)

TxBase(sn) == ModBase(sn, tx_next_ack)

\* Mutant: outdated reports are not told from new ones.
AnyAckSn(ack_sn) == TxBase(ack_sn) \in 0 .. SnModulus

\* valid_ack_sn: TX_Next_Ack < ack_sn <= TX_Next_Ack + AM_Window_Size.
ValidAckSn(ack_sn) == TxBase(ack_sn) \in 1 .. AmWindowSize

\* Mutant: the SDU under segmentation does not count as sent.
AckBeyondTxNext(ack_sn) == TxBase(ack_sn) > TxBase(tx_next)

\* TX_Next + 1 is possible while the SDU with SN = TX_Next is segmented.
AckBeyondSent(ack_sn) == TxBase(ack_sn) > TxBase(tx_next + 1)

\* valid_nack, without the check that fails with a protocol failure.
NackBelowAck(ack_sn, nack) ==
  TxBase(nack.sn) < TxBase(ack_sn) /\ TxBase(nack.sn) < AmWindowSize

NackBeyondSent(nack) == TxBase(nack.sn) > TxBase(tx_next)

Accepts(status) ==
  /\ ValidAckSn(status.ack_sn) /\ ~AckBeyondSent(status.ack_sn)
  /\ \A nack \in status.nacks :
        NackBelowAck(status.ack_sn, nack) /\ ~NackBeyondSent(nack)

\* ACKs are processed up to the first NACK, and no further than the first SN
\* that is not in the window.
AckedUpTo(status) ==
  LET stop    == Min({TxBase(status.ack_sn)} \cup {TxBase(n.sn) : n \in status.nacks})
      missing == {d \in 0 .. stop - 1 : SnAdd(tx_next_ack, d) \notin DOMAIN tx_window}
  IN  SnAdd(tx_next_ack, Min(missing \cup {stop}))

\* Mutant: an open end always means the end of the SDU.
NackEndOfSdu(nack, info) ==
  IF nack.has_so /\ nack.so_end # EndOfSdu THEN nack.so_end ELSE SduLen - 1

\* handle_nack: the byte range to retransmit.  While the SDU is segmented an
\* open end means "what has been sent so far".
NackEnd(nack, info) ==
  IF ~nack.has_so THEN SduLen - 1
  ELSE IF nack.so_end # EndOfSdu THEN nack.so_end
  ELSE IF nack.sn = sn_under_segmentation THEN info.next_so - 1
  ELSE SduLen - 1

NackStart(nack) == IF nack.has_so THEN nack.so_start ELSE 0

\* A NACK for the rest of a segmented SDU that has not been sent is ignored.
NackOfUnsent(nack, info) ==
  /\ nack.has_so /\ nack.so_end = EndOfSdu /\ nack.sn = sn_under_segmentation
  /\ nack.so_start >= info.next_so

NackOutOfSdu(nack, info) ==
  \/ NackStart(nack) > NackEnd(nack, info)
  \/ NackStart(nack) >= SduLen
  \/ NackEnd(nack, info) >= SduLen

\* Offsets out of range are clamped to the SDU.
RetxOf(nack, info) ==
  LET last  == IF NackEnd(nack, info) >= SduLen THEN SduLen - 1 ELSE NackEnd(nack, info)
      first == IF NackStart(nack) > NackEnd(nack, info) \/ NackStart(nack) >= SduLen
               THEN 0 ELSE NackStart(nack)
  IN  [sn |-> nack.sn, so |-> first, length |-> last - first + 1]

\* NACKs come in increasing SN order and increasing byte order within an SN.
NackPlace(nack) == TxBase(nack.sn) * (SduLen + 1) + NackStart(nack)

\* The rebuilt queue: one entry per NACK, until the queue is full.
RebuiltRetx(nacks, window) ==
  LET handled == {n \in nacks : ~NackOfUnsent(n, window[n.sn])}
      places  == InOrder({NackPlace(n) : n \in handled})
      At(i)   == CHOOSE n \in handled : NackPlace(n) = places[i]
  IN  [i \in 1 .. Min({Len(places), AmWindowSize}) |-> RetxOf(At(i), window[At(i).sn])]

\* How often clearing the queue rewinds the counter of sn: once per group of
\* entries, unless the group is the one already being retransmitted.
Rewinds(sn) ==
  Cardinality({i \in DOMAIN retx_queue :
     /\ retx_queue[i].sn = sn
     /\ (IF i = 1 THEN retx_sn ELSE retx_queue[i - 1].sn) # sn})

\* decrement_retx_count and increment_retx_count, with NotStarted as -1.
Recount(count, rewinds, retransmitted) ==
  Max({NotStarted, count - rewinds}) + IF retransmitted THEN 1 ELSE 0

WithinRetxBound == \A sn \in DOMAIN tx_window : tx_window[sn].retx_count < RetxCountBound

\* handle_status_pdu for a report that passes the checks.
HandleStatusPdu ==
  \E status \in stat :
    LET ackTo == AckedUpTo(status)
        acked == {sn \in DOMAIN tx_window : TxBase(sn) < TxBase(ackTo)}
        left  == [sn \in DOMAIN tx_window \ acked |-> tx_window[sn]]
        queue == RebuiltRetx(status.nacks, left)
        again == {queue[i].sn : i \in DOMAIN queue}
        count == [sn \in DOMAIN left |->
                    Recount(left[sn].retx_count, Rewinds(sn), sn \in again)]
    IN
    /\ Accepts(status) /\ WithinRetxBound
    /\ stat' \in {YoungStatus(c, tx_next_ack, ackTo) : c \in Take(stat, status)}
    /\ poll_timer' = (poll_timer /\ TxBase(poll_sn) >= TxBase(status.ack_sn))
    /\ tx_next_ack' = ackTo
    /\ confirmed' = confirmed \cup {tx_window[sn].sdu : sn \in acked}
    /\ retx_queue' = queue /\ retx_sn' = NoSn
    /\ tx_window' = [sn \in DOMAIN left |-> [left[sn] EXCEPT !.retx_count = count[sn]]]
    /\ upper_cn' = upper_cn
         \cup (IF \E sn \in again : count[sn] = MaxRetxThresh THEN {"max_retx"} ELSE {})
         \cup (IF \E n \in status.nacks : ~NackOfUnsent(n, left[n.sn]) /\ NackOutOfSdu(n, left[n.sn])
               THEN {"protocol_failure"} ELSE {})
    /\ NotifyBufferState
    /\ UNCHANGED <<submitted, tx_next, poll_sn, pdu_without_poll, byte_without_poll,
                   sn_under_segmentation, max_retx_reached, data>>

\* handle_status_pdu for a report that does not: an outdated one is ignored,
\* one that acknowledges what was never sent is a protocol failure.
IgnoreStatusPdu ==
  \E status \in stat :
    /\ ~Accepts(status)
    /\ stat' \in Take(stat, status) \ {stat}
    /\ upper_cn' = upper_cn \cup
         (IF ValidAckSn(status.ack_sn)
             /\ (AckBeyondSent(status.ack_sn) \/ \E n \in status.nacks :
                    NackBelowAck(status.ack_sn, n) /\ NackBeyondSent(n))
          THEN {"protocol_failure"} ELSE {})
    /\ UNCHANGED <<submitted, sdu_queue, tx_window, txSt, pollSt, retxSt,
                   sn_under_segmentation, pending_buffer_state, confirmed, data>>

-----------------------------------------------------------------------------
\* on_expired_poll_retransmit_timer: the oldest SDU that is not acknowledged is
\* retransmitted, unless something else can still be sent.
ExpirePollRetransmitTimer ==
  /\ WithinRetxBound
  /\ poll_timer /\ poll_timer' = FALSE
  /\ IF /\ NothingToSend(sdu_queue, retx_queue, sn_under_segmentation, tx_window)
        /\ tx_next_ack \in DOMAIN tx_window
     THEN /\ IF Len(retx_queue) < AmWindowSize
             THEN LET count == tx_window[tx_next_ack].retx_count + 1
                  IN  /\ retx_queue' = DropStaleRetx(Append(retx_queue,
                            [sn |-> tx_next_ack, so |-> 0, length |-> SduLen]), tx_window)
                      /\ tx_window' = [tx_window EXCEPT ![tx_next_ack].retx_count = count]
                      /\ upper_cn' = IF count = MaxRetxThresh
                                     THEN upper_cn \cup {"max_retx"} ELSE upper_cn
             ELSE /\ retx_queue' = DropStaleRetx(retx_queue, tx_window)
                  /\ UNCHANGED <<tx_window, upper_cn>>
          /\ NotifyBufferState
     ELSE UNCHANGED <<retx_queue, tx_window, upper_cn, pending_buffer_state, sdu_queue>>
  /\ UNCHANGED <<submitted, txSt, poll_sn, pdu_without_poll, byte_without_poll, retx_sn,
                 max_retx_reached, sn_under_segmentation, confirmed, channels>>

\* The update_mac_buffer_state that handle_changed_buffer_state has deferred.
UpdateMacBufferState ==
  /\ pending_buffer_state /\ NotifyBufferState
  /\ retx_queue' = DropStaleRetx(retx_queue, tx_window)
  /\ UNCHANGED <<submitted, tx_window, txSt, pollSt, retx_sn, max_retx_reached,
                 sn_under_segmentation, upperSt, channels>>
=============================================================================

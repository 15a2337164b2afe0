------------------------------- MODULE PdcpTx -------------------------------
(***************************************************************************)
(* The transmitting PDCP entity of a DRB in the CU-UP                      *)
(* (lib/pdcp/pdcp_entity_tx.cpp), its crypto tokens and the part of the    *)
(* bearer context modification routine that suspends it, re-keys it,       *)
(* re-establishes it and applies the SN status of a handover.              *)
(*                                                                         *)
(* SDUs get a COUNT on the strand of the UE, are ciphered by a pool of     *)
(* workers in any order, and come back to the strand, which puts them back *)
(* into COUNT order before RLC gets them.  A task of the strand is one     *)
(* action; so is the ciphering of one SDU.  Time passes in ticks of the    *)
(* discard timer; the crypto reordering timer (40 ms) may expire whenever  *)
(* it runs.  The strand runs a control task that is due before the next    *)
(* tick (ue_ctrl_executor has the highest priority).  All PDUs have one    *)
(* size, so buffer sizes are numbers of PDUs.  Left out: SRBs, header      *)
(* compression, exhausted buffer pools, the notifications to the upper     *)
(* layer, data_recovery, which nothing in the CU-UP calls, and collisions  *)
(* of COUNTs in the circular buffer of the window with SDUs that a late    *)
(* status transfer has left there.                                         *)
(***************************************************************************)
EXTENDS PdcpBase, FiniteSets, FiniteSetsExt, SequencesExt

CONSTANTS
  Modes,               \* RLC modes of the bearer: "am", "um"
  Starts,              \* how a bearer begins, by RLC mode: "active", "handover"
  DiscardTimers,       \* values of discardTimer in ticks; 0 is infinity
  TickModulus,         \* 2^32: ticks are unsigned
  MaxCount,            \* max_count.hard
  InitCount,           \* the COUNT of set_count, at the setup of the bearer or later
  BufferSizes,         \* desired buffer sizes RLC may ask for, in PDUs
  SduBufferSize,       \* capacity of sdu_buffer
  MaxSdus,             \* bound: SDUs from the upper layer, by RLC mode
  MaxKeys,             \* bound: security keys, the initial one included
  MaxFaults            \* bound: status reports, and tasks lost to a full queue or
                       \* a failing engine, together

ASSUME PdcpTxAssumption ==
  /\ Modes \subseteq {"am", "um"} /\ TickModulus \in Nat
  /\ Starts \in [{"am", "um"} -> SUBSET {"active", "handover"}]
  /\ DiscardTimers \subseteq 0 .. (TickModulus - 1)
  /\ MaxCount \in Nat /\ MaxCount < CountModulus - 1
  /\ InitCount \in 0..MaxCount
  /\ BufferSizes \subseteq Nat /\ BufferSizes # {} /\ SduBufferSize \in Nat
  /\ MaxSdus \in [{"am", "um"} -> Nat] /\ MaxKeys \in Nat \ {0} /\ MaxFaults \in Nat

VARIABLES
  cfg,       \* rlc_mode and discard_timer of the bearer
  e,         \* the entity
  queue,     \* ue_dl_executor: results of apply_security, in order
  notified,  \* external: how far RLC has reported PDUs as transmitted and delivered
  routine,   \* the bearer context modification in progress
  bearer,    \* ue_context::st: "active" or "suspended"; an active bearer set up for
             \* a handover that awaits the SN status is "handover"
  sdus, faults  \* used parts of the bounds

vars == <<cfg, e, queue, notified, routine, bearer, sdus, faults>>
bounds == <<sdus, faults>>

Off == -1
NoPdu == [key |-> 0, retx_id |-> 0, sdu |-> 0]
Idle == [step |-> "idle"]

(***************************************************************************)
(* The window, the timers and the path to RLC                              *)
(***************************************************************************)
Has(s, count) == count \in DOMAIN s.tx_window

RemoveSdus(s, counts) ==
  [s EXCEPT !.tx_window = [c \in DOMAIN @ \ counts |-> @[c]]]

\* The SDUs between TX_NEXT_ACK and TX_NEXT.
Outstanding(s) == {c \in DOMAIN s.tx_window : s.tx_next_ack <= c /\ c < s.tx_next}

\* The oldest of them, or TX_NEXT.
Oldest(s) == Min(Outstanding(s) \cup {s.tx_next})

Larger(a, b) == IF a > b THEN a ELSE b

\* unique_timer::set and run: a duration of 0 lasts a tick as well.
RunFor(ticks) == Larger(ticks, 1)

Ready(s, count) == Has(s, count) /\ s.tx_window[count].pdu # NoPdu

\* write_data_pdu_to_lower_layers for the PDUs of these COUNTs, in this order.
Write(s, counts) ==
  [s EXCEPT
    !.lower = @ \o [i \in DOMAIN counts |->
        [count |-> counts[i], key |-> s.tx_window[counts[i]].pdu.key,
         sdu |-> s.tx_window[counts[i]].pdu.sdu,
         made |-> s.tx_window[counts[i]].pdu.retx_id, retx_id |-> s.retransmit_id]],
    !.tx_window = [c \in DOMAIN @ |->
        IF c \in Range(counts) THEN [@[c] EXCEPT !.pdu = NoPdu] ELSE @[c]]]

ReadyFrom(s, first, end) == InOrder({c \in first .. (end - 1) : Ready(s, c)})

\* Mutant: PDUs are written as they come back.
DeliverReady(s) == Write(s, ReadyFrom(s, s.tx_trans_crypto, s.tx_next))

\* The loop "Deliver in order PDUs".  Its condition may look up a COUNT that
\* has left the window; there the assertion of circular_map fails.
DeliverInOrder(s) ==
  LET end == Min({c \in s.tx_trans_crypto .. s.tx_next : c = s.tx_next \/ ~Ready(s, c)})
  IN [Write(s, CountsFrom(s.tx_trans_crypto, end)) EXCEPT
        !.tx_trans_crypto = end,
        !.failed = @ \/ (end < s.tx_next /\ ~Has(s, end))]

(***************************************************************************)
(* Transmission                                                            *)
(***************************************************************************)
\* check_early_drop, when this many more SDUs have got a COUNT
EarlyDrop(s, more) ==
  \/ s.desired_buffer_size = 0
  \/ Cardinality(DOMAIN s.tx_window) + more + 1 > s.desired_buffer_size
  \/ s.tx_next + more - s.tx_next_ack >= WindowSize - 1

\* Mutant: max_count is not checked.
DroppedEarly(s, more) == EarlyDrop(s, more)

Dropped(s, more) == EarlyDrop(s, more) \/ s.tx_next + more >= MaxCount

Task(s, count, sdu) == [count |-> count, sdu |-> sdu, retx_id |-> s.retransmit_id]

\* crypto_executor.execute.  A task that is refused gives its token back at once and
\* leaves nothing behind.
Encrypt(s, tasks) == [s EXCEPT !.crypto = @ \cup tasks, !.tokens = @ + Cardinality(tasks)]

\* These SDUs get the next COUNTs; lost are those crypto_executor does not take.
\* add_sn fails on a COUNT that the window holds already.
Accept(s, batch, lost) ==
  LET next   == s.tx_next
      counts == next .. (next + Len(batch) - 1)
      Sdu(c) == batch[c - next + 1]
      first  == batch # <<>> /\ s.discard_timer = Off
  IN Encrypt([s EXCEPT
                !.tx_next = next + Len(batch),
                !.tx_window = [c \in DOMAIN @ \cup counts |->
                   IF c \in counts
                   THEN [sdu |-> Sdu(c), pdu |-> NoPdu, left |-> cfg.discard_timer] ELSE @[c]],
                !.discard_timer =
                   IF first /\ cfg.discard_timer # 0 THEN RunFor(cfg.discard_timer) ELSE @,
                !.overdue = @ /\ ~first,
                !.failed = @ \/ counts \cap DOMAIN s.tx_window # {}],
             {Task(s, c, Sdu(c)) : c \in {d \in counts : Sdu(d) \notin lost}})

HandleSdu(s, sdu, refused) ==
  LET awake == [s EXCEPT !.resume_requested = @ \/ s.suspended]
  IN CASE s.stopped -> s
       [] ~s.stopped /\ s.buffering ->
            IF Len(s.sdu_buffer) < SduBufferSize
            THEN [awake EXCEPT !.sdu_buffer = Append(@, sdu)] ELSE awake
       [] ~s.stopped /\ ~s.buffering /\ Dropped(s, 0) -> awake
       [] OTHER -> Accept(awake, <<sdu>>, IF refused THEN {sdu} ELSE {})

\* Mutant: the gap is looked for below TX_REORD_CRYPTO.
ReorderingTimerBelow(s) ==
  LET running == s.crypto_reordering_timer /\ s.tx_trans_crypto < s.tx_reord_crypto
      start   == ~running /\ s.tx_trans_crypto < s.tx_reord_crypto
  IN [s EXCEPT !.crypto_reordering_timer = running \/ start,
               !.tx_reord_crypto = IF start THEN s.tx_next ELSE @]

\* The two conditionals "Handle reordering timers".
ReorderingTimer(s) ==
  LET running == s.crypto_reordering_timer /\ s.tx_trans_crypto < s.tx_reord_crypto
      start   == ~running /\ s.tx_trans_crypto < s.tx_next
  IN [s EXCEPT !.crypto_reordering_timer = running \/ start,
               !.tx_reord_crypto = IF start THEN s.tx_next ELSE @]

\* The early returns of apply_reordering.
OutOfDate(s, buf) ==
  \/ s.stopped
  \/ buf.retx_id # s.retransmit_id
  \/ buf.count < s.tx_next_ack
  \/ buf.count < s.tx_trans
  \/ ~Has(s, buf.count)

ApplyReordering(s, buf) ==
  IF OutOfDate(s, buf) THEN s
  ELSE ReorderingTimer(DeliverInOrder(
         [s EXCEPT !.tx_window[buf.count].pdu =
                     [key |-> buf.key, retx_id |-> buf.retx_id, sdu |-> buf.sdu]]))

\* The PDUs the loop "Advance the TX_TRANS_CRYPTO to TX_REORD_CRYPTO" finds; it ends
\* at equality, so past TX_REORD_CRYPTO it goes around.
ReadyUpTo(s, end) ==
  IF s.tx_trans_crypto <= end THEN ReadyFrom(s, s.tx_trans_crypto, end)
  ELSE ReadyFrom(s, s.tx_trans_crypto, MaxCount) \o ReadyFrom(s, 0, end)

CryptoReorderingTimeout(s) ==
  LET sent == DeliverInOrder([Write(s, ReadyUpTo(s, s.tx_reord_crypto)) EXCEPT
                                !.tx_trans_crypto = s.tx_reord_crypto])
      gap  == sent.tx_trans_crypto < sent.tx_next
  IN [sent EXCEPT !.crypto_reordering_timer = gap,
                  !.tx_reord_crypto = IF gap THEN sent.tx_next ELSE @]

\* retransmit_all_pdus; refused holds the COUNTs crypto_executor does not take.
RetransmitAllPdus(s, refused) ==
  LET rewound == [s EXCEPT !.tx_trans = s.tx_next_ack, !.tx_trans_crypto = s.tx_next_ack,
                           !.retransmit_id = @ + 1]
      again   == {c \in s.tx_next_ack .. (s.tx_next - 1) : Has(s, c) /\ c \notin refused}
  IN Encrypt(rewound, {Task(rewound, c, s.tx_window[c].sdu) : c \in again})

(***************************************************************************)
(* Notifications, status reports and discarding                            *)
(***************************************************************************)
NotificationCountEstimation(s, sn) == CountEstimation(s.tx_next_ack, sn)

\* The time left is an unsigned difference: for an SDU that is overdue it wraps, and
\* is more than unique_timer::set allows (Checked).
StopDiscardTimer(s, highest) ==
  LET acked == [RemoveSdus(s, s.tx_next_ack .. highest) EXCEPT
                  !.tx_next_ack = highest + 1,
                  !.tx_trans = Larger(@, highest + 1),
                  !.discard_timer = Off, !.overdue = FALSE]
      ack   == acked.tx_next_ack
      late  == Has(acked, ack) /\ acked.tx_window[ack].left < 0
  IN IF highest < s.tx_next_ack \/ highest >= s.tx_next \/ ~Has(s, s.tx_next_ack) THEN s
     ELSE IF cfg.discard_timer = 0 \/ ack = s.tx_next THEN acked
     ELSE IF ~Has(acked, ack) THEN [acked EXCEPT !.failed = TRUE]
     ELSE [acked EXCEPT
             !.discard_timer = RunFor(acked.tx_window[ack].left % TickModulus), !.overdue = late]

HandleTransmitNotification(s, sn) ==
  LET count == NotificationCountEstimation(s, sn)
      moved == [s EXCEPT !.tx_trans = count + 1]
  IN IF s.stopped \/ count >= s.tx_trans_crypto \/ count < s.tx_trans \/ count >= s.tx_next
     THEN s
     ELSE IF cfg.rlc_mode = "um" THEN StopDiscardTimer(moved, count) ELSE moved

HandleDeliveryNotification(s, sn) ==
  LET count == NotificationCountEstimation(s, sn)
  IN IF s.stopped \/ count >= s.tx_next THEN s ELSE StopDiscardTimer(s, count)

\* Mutant: TX_TRANS stays behind.
DiscardPdusOnly(s, counts) ==
  LET known == {c \in counts \cap DOMAIN s.tx_window : c >= s.tx_next_ack}
      left  == RemoveSdus(s, known)
  IN IF known = {} THEN s ELSE [left EXCEPT !.tx_next_ack = Oldest(left)]

\* discard_pdu for a set of COUNTs.
DiscardPdus(s, counts) ==
  LET known == {c \in counts \cap DOMAIN s.tx_window : c >= s.tx_next_ack}
      left  == RemoveSdus(s, known)
  IN IF known = {} THEN s
     ELSE [left EXCEPT !.tx_next_ack = Oldest(left), !.tx_trans = Larger(@, Oldest(left))]

\* A report whose bitmap has a wrong length or wrong padding is refused as well; the
\* peer sends none.
HandleStatusReport(s, fmc, bitmap) ==
  IF fmc > s.tx_next THEN s ELSE DiscardPdus(s, (s.tx_next_ack .. (fmc - 1)) \cup bitmap)

\* Mutant: the timer is not started for the SDUs that stay.
DiscardCallbackOnce(s) ==
  LET expired == [s EXCEPT !.discard_timer = Off]
      same    == {c \in Outstanding(s) :
                    s.tx_window[c].left = s.tx_window[s.tx_next_ack].left}
  IN IF s.stopped \/ ~Has(s, s.tx_next_ack) THEN expired ELSE DiscardPdus(expired, same)

\* discard_callback: the oldest SDU goes, and those of the same tick behind it.
DiscardCallback(s) ==
  LET expired == [s EXCEPT !.discard_timer = Off]
      left(c) == s.tx_window[c].left
      oldest  == left(s.tx_next_ack)
      same    == {c \in Outstanding(s) :
                    \A d \in Outstanding(s) : d <= c => left(d) = oldest}
      gone    == DiscardPdus(expired, same)
      ack     == gone.tx_next_ack
  IN IF s.stopped \/ ~Has(s, s.tx_next_ack) THEN expired
     ELSE IF Has(gone, ack)
          THEN [gone EXCEPT !.discard_timer = RunFor(left(ack) - oldest)]
          ELSE gone

(***************************************************************************)
(* Control by the upper layer                                              *)
(***************************************************************************)
ResetState(s) ==
  [s EXCEPT !.tx_next = 0, !.tx_trans = 0, !.tx_next_ack = 0, !.tx_trans_crypto = 0,
            !.tx_reord_crypto = 0, !.tx_window = <<>>]

\* handle_sdu for all SDUs in the buffer: once one is dropped, so are those behind it.
EndBuffering(s, lost) ==
  LET open  == [s EXCEPT !.buffering = FALSE, !.sdu_buffer = <<>>]
      all   == Len(s.sdu_buffer)
      count == Min({k \in 0 .. all : k = all \/ Dropped(s, k)})
  IN IF s.stopped THEN open
     ELSE Accept([open EXCEPT !.resume_requested = @ \/ (s.suspended /\ all > 0)],
                 SubSeq(s.sdu_buffer, 1, count), lost)

Suspend(s) ==
  IF s.suspended \/ ~s.buffering THEN s
  ELSE [ResetState(s) EXCEPT !.discard_timer = Off, !.suspended = TRUE]

Resume(s) ==
  IF ~s.suspended \/ ~s.buffering THEN s
  ELSE [s EXCEPT !.suspended = FALSE, !.resume_requested = FALSE]

\* Mutant: the engines keep the old key.
KeepSecurity(s) == s

ConfigureSecurity(s) == [s EXCEPT !.key = @ + 1]

\* The status transfer; the window and the timers stay.
SetCount(s, count) ==
  [s EXCEPT !.tx_next = count, !.tx_trans_crypto = count, !.tx_reord_crypto = count,
            !.tx_trans = count, !.tx_next_ack = count]

\* With the keys of the bearer: those of this modification, which set_security_config
\* has applied, or those it had before.
Reestablish(s, refused) ==
  IF cfg.rlc_mode = "um" THEN ResetState(s) ELSE RetransmitAllPdus(s, refused)

Stop(s) ==
  ReturnToken([s EXCEPT !.stopped = TRUE, !.tx_window = <<>>, !.discard_timer = Off,
                        !.crypto_reordering_timer = FALSE])

(***************************************************************************)
(* Actions.  A failed assertion ends the process.                          *)
(***************************************************************************)
Init ==
  /\ cfg \in [rlc_mode : Modes, discard_timer : DiscardTimers]
  /\ bearer \in Starts[cfg.rlc_mode]
  /\ LET count == IF bearer = "handover" THEN 0 ELSE InitCount
     IN e = [tx_next |-> count, tx_trans |-> count, tx_next_ack |-> count,
             tx_trans_crypto |-> count, tx_reord_crypto |-> count,
             tx_window |-> <<>>, retransmit_id |-> 0, key |-> 1,
             discard_timer |-> Off, overdue |-> FALSE, crypto_reordering_timer |-> FALSE,
             tokens |-> 0, pending_crypto |-> FALSE,
             buffering |-> FALSE, sdu_buffer |-> <<>>, suspended |-> FALSE,
             resume_requested |-> FALSE, stopped |-> FALSE, desired_buffer_size |-> 0,
             crypto |-> {}, lower |-> <<>>, failed |-> FALSE]
  /\ queue = <<>> /\ notified = [trans |-> 0, deliv |-> 0, old |-> 0]
  /\ routine = Idle
  /\ sdus = 0 /\ faults = 0

Running == ~e.failed /\ bearer # "released"

\* Tasks lost in this step.
Refuse(n) == faults + n <= MaxFaults /\ faults' = faults + n

NewSdu ==
  /\ Running /\ sdus < MaxSdus[cfg.rlc_mode]
  /\ sdus' = sdus + 1
  /\ \E refused \in BOOLEAN :
       /\ e' = HandleSdu(e, sdus', refused)
       /\ refused => e'.tx_next > e.tx_next
       /\ Refuse(IF refused THEN 1 ELSE 0)
  /\ UNCHANGED <<cfg, queue, notified, routine, bearer>>

\* A worker of the pool: apply_security.  A failed one has key 0.
ApplySecurity ==
  /\ Running
  /\ \E task \in e.crypto :
     \E outcome \in {"protected", "failed", "queue_full"} :
       LET done == [e EXCEPT !.crypto = @ \ {task}]
           buf  == [count |-> task.count, retx_id |-> task.retx_id, sdu |-> task.sdu,
                    key |-> IF outcome = "protected" THEN e.key ELSE 0]
       IN /\ e' = IF outcome = "queue_full" THEN ReturnToken(done) ELSE done
          /\ queue' = IF outcome = "queue_full" THEN queue ELSE Append(queue, buf)
          /\ Refuse(IF outcome = "protected" THEN 0 ELSE 1)
  /\ UNCHANGED <<cfg, notified, routine, bearer, sdus>>

\* The task of ue_dl_executor that apply_security has posted; it holds the token.
ProcessProtected ==
  /\ Running /\ queue # <<>>
  /\ queue' = Tail(queue)
  /\ e' = ReturnToken(IF Head(queue).key = 0 THEN e ELSE ApplyReordering(e, Head(queue)))
  /\ UNCHANGED <<cfg, notified, routine, bearer, bounds>>

CryptoReorderingExpiry ==
  /\ Running /\ e.crypto_reordering_timer
  /\ e' = CryptoReorderingTimeout(e)
  /\ UNCHANGED <<cfg, queue, notified, routine, bearer, bounds>>

Tick ==
  /\ Running /\ e.discard_timer > 0
  /\ e' = [e EXCEPT !.discard_timer = @ - 1,
             !.tx_window = [c \in DOMAIN @ |-> [e.tx_window[c] EXCEPT !.left = @ - 1]]]
  /\ UNCHANGED <<cfg, queue, notified, routine, bearer, bounds>>

DiscardTimerExpiry ==
  /\ Running /\ e.discard_timer = 0
  /\ e' = DiscardCallback(e)
  /\ UNCHANGED <<cfg, queue, notified, routine, bearer, bounds>>

\* A timer set for an SDU that is overdue fails an assertion; builds without
\* assertions go on.
Checked(s) ==
  {s} \cup IF s.overdue /\ ~e.overdue THEN {[s EXCEPT !.failed = TRUE]} ELSE {}

\* External: RLC reports PDUs in the order in which it was given them.
TransmitNotification ==
  /\ Running
  /\ \E i \in (notified.trans + 1) .. Len(e.lower) :
       /\ e' \in Checked(HandleTransmitNotification(e, SN(e.lower[i].count)))
       /\ notified' = [notified EXCEPT !.trans = i]
  /\ UNCHANGED <<cfg, queue, routine, bearer, bounds>>

DeliveryNotification ==
  /\ Running /\ cfg.rlc_mode = "am"
  /\ \E i \in (notified.deliv + 1) .. notified.trans :
       /\ e' \in Checked(HandleDeliveryNotification(e, SN(e.lower[i].count)))
       /\ notified' = [notified EXCEPT !.deliv = i]
  /\ UNCHANGED <<cfg, queue, routine, bearer, bounds>>

DesiredBufferSize ==
  /\ Running /\ ~e.stopped
  /\ \E size \in BufferSizes :
       /\ e.desired_buffer_size # size
       /\ e' = [e EXCEPT !.desired_buffer_size = size]
  /\ UNCHANGED <<cfg, queue, notified, routine, bearer, bounds>>

\* External: notified.old PDUs went to an RLC entity that is gone.
\* The peer has given up or received all below fmc, which is 0 if the very first
\* PDU is missing, and has some of the PDUs above it.
StatusReport ==
  /\ Running /\ cfg.rlc_mode = "am" /\ faults < MaxFaults
  /\ LET sent == {e.lower[i].count : i \in (notified.old + 1) .. Len(e.lower)}
     IN \E fmc \in {c + 1 : c \in sent} \cup {0} :
        \E bitmap \in SUBSET {c \in sent : c > fmc} :
          e' = HandleStatusReport(e, fmc, bitmap)
  /\ faults' = faults + 1
  /\ UNCHANGED <<cfg, queue, notified, routine, bearer, sdus>>

(***************************************************************************)
(* cu_up_bearer_context_modification_routine and ue_context::stop          *)
(***************************************************************************)
RequestSuspend ==
  /\ Running /\ routine = Idle /\ bearer = "active"
  /\ e.key < MaxKeys
  /\ e' = Await(e) /\ routine' = [step |-> "suspend"]
  /\ UNCHANGED <<cfg, queue, notified, bearer, bounds>>

\* A modification with the SN status and pdcp_reest, but without security information,
\* as the CU-CP sends it once in the target of a handover: nothing is buffered or
\* awaited, and the key stays.  The engines of busy workers are replaced under them,
\* which is undefined.
StatusTransfer ==
  /\ Running /\ routine = Idle /\ bearer = "handover"
  /\ LET done == Reestablish(SetCount(e, InitCount), {})
     IN e' \in {done} \cup IF e.crypto = {} THEN {} ELSE {[done EXCEPT !.failed = TRUE]}
  /\ bearer' = "active"
  /\ UNCHANGED <<cfg, queue, notified, routine, bounds>>

\* Security information, with the resumption of a suspended bearer.
RequestRekey ==
  /\ Running /\ routine = Idle /\ bearer \in {"active", "suspended"}
  /\ e.key < MaxKeys
  /\ \E reest \in BOOLEAN :
       routine' = [step |-> "rekey", reest |-> reest]
  /\ e' = Await(IF bearer = "suspended" THEN Resume(e) ELSE e)
  /\ bearer' = "active"
  /\ UNCHANGED <<cfg, queue, notified, bounds>>

RequestRelease ==
  /\ Running /\ routine = Idle
  /\ e' = Stop(e) /\ routine' = [step |-> "release"]
  /\ UNCHANGED <<cfg, queue, notified, bearer, bounds>>

FinishSuspend ==
  /\ Running /\ routine.step = "suspend" /\ e.pending_crypto
  /\ e' = StartTokens(Suspend(e))
  /\ routine' = Idle /\ bearer' = "suspended"
  /\ LET all == Len(e.lower) IN notified' = [trans |-> all, deliv |-> all, old |-> all]
  /\ UNCHANGED <<cfg, queue, bounds>>

FinishRekey ==
  /\ Running /\ routine.step = "rekey" /\ e.pending_crypto
  /\ LET ready == StartTokens(ConfigureSecurity(e))
     IN \E refused \in SUBSET (IF routine.reest THEN DOMAIN e.tx_window ELSE {}),
           lost \in SUBSET Range(e.sdu_buffer) :
          /\ e' = EndBuffering(IF routine.reest THEN Reestablish(ready, refused) ELSE ready, lost)
          /\ Refuse(Cardinality(refused) + Cardinality(lost))
  /\ routine' = Idle
  /\ UNCHANGED <<cfg, queue, notified, bearer, sdus>>

FinishRelease ==
  /\ Running /\ routine.step = "release" /\ e.pending_crypto
  /\ bearer' = "released"
  /\ UNCHANGED <<cfg, e, queue, notified, routine, bounds>>

OtherStep ==
  \/ ApplySecurity \/ ProcessProtected \/ CryptoReorderingExpiry
  \/ Tick \/ DiscardTimerExpiry
  \/ TransmitNotification \/ DeliveryNotification \/ DesiredBufferSize \/ StatusReport
  \/ StatusTransfer \/ RequestSuspend \/ RequestRekey \/ RequestRelease
  \/ FinishSuspend \/ FinishRekey \/ FinishRelease

Next == NewSdu \/ OtherStep

Spec == Init /\ [][Next]_vars

\* What the entity needs of its environment: the SN status of a handover comes before
\* the first SDU.  Nothing in the CU-UP enforces it.
TimelySdu == bearer # "handover" /\ NewSdu

TimelySpec == Init /\ [][TimelySdu \/ OtherStep]_vars

(***************************************************************************)
(* Properties                                                              *)
(***************************************************************************)
Counts == 0 .. MaxCount

\* Types, and the order of the state variables that handle_sdu, the
\* notifications and discard_pdu keep: TX_NEXT_ACK <= TX_TRANS <= TX_NEXT, the
\* window between the first and the last, no token returned twice.
TypeOK ==
  /\ cfg \in [rlc_mode : Modes, discard_timer : DiscardTimers]
  /\ {e.tx_next, e.tx_trans, e.tx_next_ack, e.tx_trans_crypto, e.tx_reord_crypto} \subseteq Counts
  /\ DOMAIN e.tx_window \subseteq e.tx_next_ack .. (e.tx_next - 1)
  /\ e.tx_next_ack <= e.tx_trans /\ e.tx_trans <= e.tx_next
  /\ e.tx_trans_crypto <= e.tx_next
  /\ e.key \in 1 .. MaxKeys /\ e.tokens \in Nat \cup {-1}
  /\ \A task \in e.crypto : task.count \in Counts /\ task.sdu \in 1 .. MaxSdus[cfg.rlc_mode]
  /\ e.discard_timer \in {Off} \cup Nat
  /\ routine.step \in {"idle", "suspend", "rekey", "release"}
  /\ bearer \in {"active", "handover", "suspended", "released"}

\* No COUNT protects two SDUs under one key: neither a task lost on the way
\* through the pool, nor a discarded SDU, nor the reset of TX_NEXT by suspend
\* and by the re-establishment of an UM bearer leads to one (the comment in
\* handle_sdu quotes TS 38.331, 5.3.1.2).  It holds if the SN status of a
\* handover comes in time (TimelySpec), and only then: without new keys the
\* re-establishment starts COUNT again under the same key.
KeyAndCountOnce ==
  \A i, j \in DOMAIN e.lower :
    e.lower[i].key = e.lower[j].key /\ e.lower[i].count = e.lower[j].count
      => e.lower[i].sdu = e.lower[j].sdu

\* However the workers finish, RLC gets the PDUs between two retransmissions in
\* ascending order of COUNT and each once (apply_reordering,
\* crypto_reordering_timeout).
SubmittedInOrder ==
  \A i, j \in DOMAIN e.lower :
    i < j /\ e.lower[i].retx_id = e.lower[j].retx_id /\ e.lower[i].key = e.lower[j].key
      => e.lower[i].count < e.lower[j].count

\* A PDU that waits in the window for one with a smaller COUNT does not wait
\* for ever: the crypto reordering timer runs.
WaitingPduHasTimer ==
  \A c \in DOMAIN e.tx_window :
    Ready(e, c) /\ c >= e.tx_trans_crypto /\ e.tx_window[c].pdu.retx_id = e.retransmit_id
      => e.crypto_reordering_timer \/ e.failed

\* While there are SDUs the discard timer runs, and it expires at most one tick
\* after any of them is due, however it was restarted by notifications, by its
\* own expiry and by new SDUs; the tick is that of a notification which comes
\* just before the expiry.  Excepted is a timer that a notification restarts
\* for an SDU already overdue, which stop_discard_timer sets to almost 2^32.
DiscardNotLate ==
  cfg.discard_timer # 0 /\ ~e.failed =>
    \A c \in DOMAIN e.tx_window :
      /\ e.discard_timer # Off
      /\ e.overdue \/ e.discard_timer <= e.tx_window[c].left + 1

\* The routine that awaits the tokens is woken exactly when no SDU is with a
\* worker or on its way back, also after tasks were refused: earlier, keys and
\* state would change under a worker ("safely update the keys now"), later never.
DrainWakesRoutine ==
  routine # Idle => (e.pending_crypto <=> e.crypto = {} /\ queue = <<>>)

(***************************************************************************)
(* What a comment of the code says, and the code does not do               *)
(***************************************************************************)
\* pdcp_entity_tx.cpp:973: "Any PDUs pending transmission will be dropped, as
\* the retransmit ID will no longer match."
PendingDroppedOnRetransmit ==
  \A i \in DOMAIN e.lower : e.lower[i].made = e.lower[i].retx_id
=============================================================================

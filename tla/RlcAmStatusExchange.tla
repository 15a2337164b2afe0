------------------------ MODULE RlcAmStatusExchange ------------------------
(***************************************************************************)
(* How a status report gets from the receiving half of an RLC AM entity,   *)
(* on the ue_executor, to the transmitting half, on the pcell_executor,    *)
(* and how the MAC learns that there is one to send: the three report      *)
(* buffers, do_status, t-StatusProhibit, pending_buffer_state and the      *)
(* barring of notifications while the backlog is large.  Every access to   *)
(* a shared atomic is a step.  RlcAmRx has all of this in one variable     *)
(* and two atomic actions.                                                 *)
(*                                                                         *)
(* A report is the number of the refresh that built it; what it says is    *)
(* the business of RlcAmRx.  Sizes are in units of a report; data waiting  *)
(* in the SDU queue, under segmentation or for retransmission is one       *)
(* number.  Left out: grants too small for a report and max_retx_reached.  *)
(***************************************************************************)
EXTENDS Integers, Sequences

CONSTANTS
  MaxReports,     \* bound: calls of refresh_status_report
  MaxDlPduLength, \* MAX_DL_PDU_LENGTH
  MaxBacklog,     \* bound: data waiting for transmission
  Prohibit,       \* cfg.t_status_prohibit > 0
  DeferMayFail    \* the task queues of the executors may be full

ASSUME RlcAmStatusExchangeAssumption ==
  /\ MaxReports \in Nat /\ MaxDlPduLength \in Nat \ {0} /\ MaxBacklog \in Nat
  /\ Prohibit \in BOOLEAN /\ DeferMayFail \in BOOLEAN

VARIABLES
  buf,                    \* status_buf: buffer -> number of the report in it
  writer_buf, exchange_buf, reader_buf,  \* status_owned_by_writer, ...
  do_status,
  prohibit_flag,          \* status_prohibit_timer_is_running
  prohibit_timer,         \* status_prohibit_timer: the timer itself
  prohibit_task,          \* its run() is queued on the ue_executor
  pending_buffer_state,   \* the atomic_flag
  update_task,            \* update_mac_buffer_state is queued on the pcell_executor
  backlog,                \* data waiting for transmission
  prev_large,             \* prev_buffer_state.pending_bytes > MAX_DL_PDU_LENGTH
  suspend_bs_notif_barring,
  mac_bytes,              \* external: pending bytes of the bearer, as the MAC knows them
  up_pc, up_request,      \* the ue_executor
  low_pc, low_call, low_data, low_required,   \* the pcell_executor
  built,                  \* history: number of the latest report
  requested,              \* history: latest report do_status has been set for
  sent                    \* history: newest report handed to pull_pdu

reportVars == <<buf, writer_buf, exchange_buf, reader_buf>>
prohibitVars == <<prohibit_flag, prohibit_timer, prohibit_task>>
notifyVars == <<pending_buffer_state, update_task>>
macVars == <<prev_large, suspend_bs_notif_barring, mac_bytes>>
upVars == <<up_pc, up_request>>
lowVars == <<low_pc, low_call, low_data, low_required>>
history == <<built, requested, sent>>
vars == <<reportVars, do_status, prohibitVars, notifyVars, backlog, macVars, upVars, lowVars,
          history>>

Buffers == 0 .. 2
NoReport == -1                           \* a buffer never written: ack_sn is invalid

Init ==
  /\ buf = [b \in Buffers |-> IF b = 1 THEN 0 ELSE NoReport]
  /\ writer_buf = 0 /\ exchange_buf = 1 /\ reader_buf = 2
  /\ do_status = FALSE
  /\ prohibit_flag = FALSE /\ prohibit_timer = FALSE /\ prohibit_task = FALSE
  /\ pending_buffer_state = FALSE /\ update_task = FALSE
  /\ backlog = 0 /\ prev_large = FALSE /\ suspend_bs_notif_barring = TRUE /\ mac_bytes = 0
  /\ up_pc = "idle" /\ up_request = FALSE
  /\ low_pc = "idle" /\ low_call = "update" /\ low_data = 0 /\ low_required = FALSE
  /\ built = 0 /\ requested = 0 /\ sent = NoReport

\* The step after pc in a program order.
After(order, pc) ==
  LET i == CHOOSE i \in DOMAIN order : order[i] = pc
  IN  IF i = Len(order) THEN "idle" ELSE order[i + 1]

-----------------------------------------------------------------------------
(* The ue_executor: handle_data_pdu or on_expired_reassembly_timer, from   *)
(* refresh_status_report on; handle_sdu and discard_sdu.                   *)

\* The report is rebuilt in the writer's buffer; it may have been requested by a
\* poll or by t-Reassembly.
RefreshStatusReport ==
  /\ up_pc = "idle" /\ built < MaxReports
  /\ built' = built + 1
  /\ buf' = [buf EXCEPT ![writer_buf] = built']
  /\ up_request' \in BOOLEAN
  /\ up_pc' = "exchange"
  /\ UNCHANGED <<writer_buf, exchange_buf, reader_buf, do_status, prohibitVars, notifyVars,
                 backlog, macVars, lowVars, requested, sent>>

StoreStatusReport ==
  /\ up_pc = "exchange"
  /\ exchange_buf' = writer_buf /\ writer_buf' = exchange_buf
  /\ up_pc' = IF up_request THEN "request" ELSE "check_request"
  /\ UNCHANGED <<buf, reader_buf, do_status, prohibitVars, notifyVars, backlog, macVars,
                 up_request, lowVars, history>>

RequestStatus ==
  /\ up_pc = "request" /\ up_pc' = "check_request"
  /\ do_status' = TRUE /\ requested' = built
  /\ UNCHANGED <<reportVars, prohibitVars, notifyVars, backlog, macVars, up_request, lowVars,
                 built, sent>>

\* notify_status_report_changed: two loads ...
CheckRequest ==
  /\ up_pc = "check_request"
  /\ up_pc' = IF do_status THEN "check_prohibit" ELSE "idle"
  /\ UNCHANGED <<reportVars, do_status, prohibitVars, notifyVars, backlog, macVars, up_request,
                 lowVars, history>>

CheckProhibit ==
  /\ up_pc = "check_prohibit"
  /\ up_pc' = IF prohibit_flag THEN "idle" ELSE "test_and_set"
  /\ UNCHANGED <<reportVars, do_status, prohibitVars, notifyVars, backlog, macVars, up_request,
                 lowVars, history>>

\* ... and handle_changed_buffer_state of the transmitting half.
TestAndSet ==
  /\ up_pc = "test_and_set"
  /\ pending_buffer_state' = TRUE
  /\ up_pc' = IF pending_buffer_state THEN "idle" ELSE "defer_update"
  /\ UNCHANGED <<reportVars, do_status, prohibitVars, update_task, backlog, macVars, up_request,
                 lowVars, history>>

\* A failure is logged.
DeferUpdate ==
  /\ up_pc = "defer_update" /\ up_pc' = "idle"
  /\ update_task' \in {TRUE} \cup IF DeferMayFail THEN {update_task} ELSE {}
  /\ UNCHANGED <<reportVars, do_status, prohibitVars, pending_buffer_state, backlog, macVars,
                 up_request, lowVars, history>>

\* The queue has taken an SDU, or has discarded one.
HandleSdu ==
  /\ up_pc = "idle" /\ up_pc' = "test_and_set"
  /\ backlog' \in {backlog - 1, backlog + 1} \cap 0 .. MaxBacklog
  /\ UNCHANGED <<reportVars, do_status, prohibitVars, notifyVars, macVars, up_request, lowVars,
                 history>>

RunProhibitTimer ==
  /\ up_pc = "idle" /\ prohibit_task
  /\ prohibit_task' = FALSE /\ prohibit_timer' = TRUE
  /\ UNCHANGED <<reportVars, do_status, prohibit_flag, notifyVars, backlog, macVars, upVars,
                 lowVars, history>>

\* on_expired_status_prohibit_timer.  The timer lasts at least 5 ms, get_status_pdu
\* some instructions: it does not expire between two of them.
ExpireStatusProhibitTimer ==
  /\ up_pc = "idle" /\ prohibit_timer /\ low_pc # "prohibit"
  /\ prohibit_timer' = FALSE /\ prohibit_flag' = FALSE
  /\ up_pc' = "check_request"
  /\ UNCHANGED <<reportVars, do_status, prohibit_task, notifyVars, backlog, macVars, up_request,
                 lowVars, history>>

-----------------------------------------------------------------------------
(* The pcell_executor: update_mac_buffer_state, which may be forced, and   *)
(* get_buffer_state, which the MAC calls as well.                          *)

\* Mutant: the flag is cleared when the buffer state has been computed.
UpdateOrderFlagLast == <<"bs_data", "bs_request", "bs_prohibit", "bs_notify", "bs_flag">>

UpdateOrder == <<"bs_flag", "bs_data", "bs_request", "bs_prohibit", "bs_notify">>

StartUpdate ==
  /\ low_pc = "idle" /\ update_task
  /\ update_task' = FALSE /\ low_pc' = UpdateOrder[1] /\ low_call' = "update"
  /\ UNCHANGED <<reportVars, do_status, prohibitVars, pending_buffer_state, backlog, macVars,
                 upVars, low_data, low_required, history>>

\* handle_status_pdu and on_expired_poll_retransmit_timer may queue data for
\* retransmission and inform the MAC at once.
ForceUpdate ==
  /\ low_pc = "idle" /\ low_pc' = UpdateOrder[1] /\ low_call' = "forced"
  /\ backlog' \in backlog .. MaxBacklog
  /\ UNCHANGED <<reportVars, do_status, prohibitVars, notifyVars, macVars, upVars, low_data,
                 low_required, history>>

ClearPendingBufferState ==
  /\ low_pc = "bs_flag" /\ low_pc' = After(UpdateOrder, low_pc)
  /\ pending_buffer_state' = FALSE
  /\ UNCHANGED <<reportVars, do_status, prohibitVars, update_task, backlog, macVars, upVars,
                 low_call, low_data, low_required, history>>

\* get_buffer_state: the data ...
LoadData ==
  /\ low_pc = "bs_data" /\ low_pc' = After(UpdateOrder, low_pc)
  /\ low_data' = backlog
  /\ UNCHANGED <<reportVars, do_status, prohibitVars, notifyVars, backlog, macVars, upVars,
                 low_call, low_required, history>>

\* ... and the report, which counts if status_report_required.
LoadRequest ==
  /\ low_pc = "bs_request" /\ low_pc' = After(UpdateOrder, low_pc)
  /\ low_required' = do_status
  /\ UNCHANGED <<reportVars, do_status, prohibitVars, notifyVars, backlog, macVars, upVars,
                 low_call, low_data, history>>

LoadProhibit ==
  /\ low_pc = "bs_prohibit" /\ low_pc' = After(UpdateOrder, low_pc)
  /\ low_required' = (low_required /\ ~prohibit_flag)
  /\ UNCHANGED <<reportVars, do_status, prohibitVars, notifyVars, backlog, macVars, upVars,
                 low_call, low_data, history>>

PendingBytes == low_data + IF low_required THEN 1 ELSE 0

\* Mutant: a small buffer state does not suspend the barring.
BarringInForce == suspend_bs_notif_barring

\* The flag as get_buffer_state leaves it.
BarringSuspended == suspend_bs_notif_barring \/ PendingBytes <= MaxDlPduLength

\* Whether the update is sent; older says that the head of line is older than that
\* of the previous update, which the arrival times of the data decide.
Notify(older) ==
  \/ low_call = "forced" \/ PendingBytes <= MaxDlPduLength
  \/ ~prev_large \/ BarringSuspended \/ older

\* The locals of the call are gone.
EndCall == low_call' = "update" /\ low_data' = 0 /\ low_required' = FALSE

NotifyMac ==
  /\ low_pc = "bs_notify" /\ low_call # "mac"
  /\ low_pc' = After(UpdateOrder, low_pc)
  /\ \E older \in BOOLEAN :
       IF Notify(older)
       THEN mac_bytes' = PendingBytes /\ suspend_bs_notif_barring' = FALSE
       ELSE UNCHANGED mac_bytes /\ suspend_bs_notif_barring' = BarringSuspended
  /\ prev_large' = (PendingBytes > MaxDlPduLength)
  /\ EndCall
  /\ UNCHANGED <<reportVars, do_status, prohibitVars, notifyVars, backlog, upVars, history>>

\* External: after a grant the MAC asks for the buffer state.
MacRefresh ==
  /\ low_pc = "bs_notify" /\ low_call = "mac"
  /\ low_pc' = "idle"
  /\ mac_bytes' = PendingBytes /\ suspend_bs_notif_barring' = BarringSuspended
  /\ EndCall
  /\ UNCHANGED <<reportVars, do_status, prohibitVars, notifyVars, backlog, prev_large, upVars,
                 history>>

-----------------------------------------------------------------------------
(* The pcell_executor: a grant, which takes a report if one is required    *)
(* and data for the rest.                                                  *)

\* Mutant: the report is taken before the request is cleared.
PullOrderTakeFirst ==
  IF Prohibit THEN <<"take", "clear", "defer_prohibit", "prohibit", "data">>
  ELSE <<"take", "clear", "data">>

\* The order of get_status_pdu.
PullOrder ==
  IF Prohibit THEN <<"clear", "defer_prohibit", "prohibit", "take", "data">>
  ELSE <<"clear", "take", "data">>

\* The MAC gives grants while it knows of something to send.  The first load of
\* status_report_required ...
PullPdu ==
  /\ low_pc = "idle" /\ mac_bytes > 0
  /\ low_pc' = IF do_status THEN "pull_prohibit" ELSE "data"
  /\ UNCHANGED <<reportVars, do_status, prohibitVars, notifyVars, backlog, macVars, upVars,
                 low_call, low_data, low_required, history>>

\* ... and the second.
PullCheckProhibit ==
  /\ low_pc = "pull_prohibit"
  /\ low_pc' = IF prohibit_flag THEN "data" ELSE PullOrder[1]
  /\ UNCHANGED <<reportVars, do_status, prohibitVars, notifyVars, backlog, macVars, upVars,
                 low_call, low_data, low_required, history>>

ClearRequest ==
  /\ low_pc = "clear" /\ low_pc' = After(PullOrder, low_pc)
  /\ do_status' = FALSE
  /\ UNCHANGED <<reportVars, prohibitVars, notifyVars, backlog, macVars, upVars, low_call,
                 low_data, low_required, history>>

\* A failure is logged; the flag is set all the same.
DeferProhibit ==
  /\ low_pc = "defer_prohibit" /\ low_pc' = After(PullOrder, low_pc)
  /\ prohibit_task' \in {TRUE} \cup IF DeferMayFail THEN {prohibit_task} ELSE {}
  /\ UNCHANGED <<reportVars, do_status, prohibit_flag, prohibit_timer, notifyVars, backlog,
                 macVars, upVars, low_call, low_data, low_required, history>>

SetProhibit ==
  /\ low_pc = "prohibit" /\ low_pc' = After(PullOrder, low_pc)
  /\ prohibit_flag' = TRUE
  /\ UNCHANGED <<reportVars, do_status, prohibit_timer, prohibit_task, notifyVars, backlog,
                 macVars, upVars, low_call, low_data, low_required, history>>

\* Mutant: the reader looks at the buffer without taking it.
PeekReport == reader_buf' = exchange_buf /\ UNCHANGED exchange_buf

SwapReport == reader_buf' = exchange_buf /\ exchange_buf' = reader_buf

TakeReport ==
  /\ low_pc = "take" /\ low_pc' = After(PullOrder, low_pc)
  /\ SwapReport
  /\ sent' = IF buf[exchange_buf] > sent THEN buf[exchange_buf] ELSE sent
  /\ UNCHANGED <<buf, writer_buf, do_status, prohibitVars, notifyVars, backlog, macVars, upVars,
                 low_call, low_data, low_required, built, requested>>

\* The rest of the grant: as many PDUs as fit, then the MAC wants to know what is left.
PullData ==
  /\ low_pc = "data" /\ low_pc' = "bs_data" /\ low_call' = "mac"
  /\ backlog' \in 0 .. backlog
  /\ UNCHANGED <<reportVars, do_status, prohibitVars, notifyVars, macVars, upVars, low_data,
                 low_required, history>>

-----------------------------------------------------------------------------
UpStep == \/ StoreStatusReport \/ RequestStatus
          \/ CheckRequest \/ CheckProhibit \/ TestAndSet \/ DeferUpdate
          \/ RunProhibitTimer

LowStep == \/ StartUpdate \/ ClearPendingBufferState \/ LoadData \/ LoadRequest \/ LoadProhibit
           \/ NotifyMac \/ MacRefresh
           \/ PullCheckProhibit \/ ClearRequest \/ DeferProhibit \/ SetProhibit \/ TakeReport
           \/ PullData

Next == \/ RefreshStatusReport \/ HandleSdu \/ UpStep \/ ExpireStatusProhibitTimer
        \/ ForceUpdate \/ LowStep \/ PullPdu

\* Executors run what they are in or have queued, timers expire, and the MAC gives
\* grants while it knows of something to send; none of it is kept from running by
\* new data or by what the peer sends for ever.
Spec == /\ Init /\ [][Next]_vars
        /\ WF_vars(UpStep) /\ WF_vars(LowStep) /\ SF_vars(ExpireStatusProhibitTimer)
        /\ SF_vars(RunProhibitTimer) /\ SF_vars(StartUpdate) /\ SF_vars(PullPdu)

-----------------------------------------------------------------------------
(* Properties.                                                             *)

\* The report pull_pdu is packing is never the one refresh_status_report is
\* writing: the buffers the two halves own differ, whatever they are doing.
NoSharedBuffer == writer_buf # reader_buf /\ exchange_buf \notin {writer_buf, reader_buf}

\* A request that t-StatusProhibit does not hold back makes the MAC give a grant, or
\* is served before: a notification skipped because pending_buffer_state was set is
\* not lost, since the queued update clears the flag before it looks, and one that
\* is barred is not needed, since the MAC has something to send anyway.
MacLearnsOfRequest ==
  do_status /\ ~prohibit_flag ~> mac_bytes > 0 \/ ~do_status \/ prohibit_flag

\* Every requested report, or a newer one, is sent: no request is cleared by a
\* get_status_pdu that hands out an older report.
RequestIsAnswered ==
  \A n \in 1 .. MaxReports : requested = n ~> sent >= n
=============================================================================

------------------------------- MODULE PdcpRx -------------------------------
(***************************************************************************)
(* The receiving PDCP entity of a DRB in the CU-UP                         *)
(* (lib/pdcp/pdcp_entity_rx.cpp) and the part of the bearer context        *)
(* modification routine that suspends, re-keys and re-establishes it and   *)
(* applies the SN status of a handover.                                    *)
(*                                                                         *)
(* PDUs arrive on the strand of the UE, get the COUNT that RX_DELIV        *)
(* suggests, are deciphered and verified by a pool of workers in any       *)
(* order, and come back to the strand, which delivers them in COUNT order  *)
(* and gives up a missing one when t-Reordering expires.  A task of the    *)
(* strand is one action; so is the work on one PDU.  t-Reordering may      *)
(* expire whenever it runs.  Integrity protection is on: a PDU passes if   *)
(* the key and the COUNT are those it was protected with.                  *)
(*                                                                         *)
(* The UE and the link are external.  The link loses, repeats and reorders *)
(* PDUs.  The UE changes its key after the CU-UP has (the RRC message      *)
(* follows the response of the routine), and stays within a window of      *)
(* RX_DELIV.  Left out: SRBs, header decompression, control PDUs (PdcpTx   *)
(* has the status report), the notifications to the upper layer, and       *)
(* collisions of COUNTs in the circular buffer of the window with SDUs     *)
(* that a late status transfer has left there.                             *)
(***************************************************************************)
EXTENDS PdcpBase, FiniteSets, FiniteSetsExt, SequencesExt

CONSTANTS
  Configs,             \* RLC modes and values of t-Reordering of the bearers
  Starts,              \* how each of them may begin: "active", "handover"
  MaxCount,            \* max_count.hard
  InitCount,           \* the COUNT of set_count, at the setup of the bearer or later
  PduBufferSize,       \* capacity of pdu_buffer
  MaxKeys,             \* bound: security keys, the initial one included
  MaxFaults,           \* bound: PDUs repeated and tasks lost, for each of the bearers
  MaxEvents            \* bound: SDUs of the UE and faults together, for each of the bearers

ASSUME PdcpRxAssumption ==
  /\ Configs \subseteq [rlc_mode : {"am", "um"}, t_reordering : {"ms0", "finite", "infinity"}]
  /\ Starts \in [Configs -> SUBSET {"active", "handover"}]
  /\ {MaxFaults, MaxEvents} \subseteq [Configs -> Nat]
  /\ MaxCount \in Nat /\ MaxCount < CountModulus - 1
  /\ InitCount \in 0 .. MaxCount
  /\ PduBufferSize \in Nat /\ MaxKeys \in Nat \ {0}

VARIABLES
  cfg,       \* rlc_mode and t_reordering of the bearer
  e,         \* the entity
  queue,     \* ue_ul_executor: results of apply_security, in order
  air,       \* external: PDUs on their way
  ue,        \* external: next COUNT, key and SDUs of the UE, and the change it awaits
  routine,   \* the bearer context modification in progress
  bearer,    \* ue_context::st: "active" or "suspended"; an active bearer set up for
             \* a handover that awaits the SN status is "handover"
  faults     \* used part of MaxFaults

vars == <<cfg, e, queue, air, ue, routine, bearer, faults>>

Idle == [step |-> "idle"]

(***************************************************************************)
(* Reception                                                               *)
(***************************************************************************)
\* Mutant: the token of a task that is refused is lost.
DecryptLosingToken(s, task, refused) ==
  [IncrementToken(s) EXCEPT !.crypto = IF refused THEN @ ELSE @ \cup {task}]

\* crypto_executor.execute; a task that is refused gives its token back.
Decrypt(s, task, refused) ==
  IF refused THEN ReturnToken(IncrementToken(s))
  ELSE [IncrementToken(s) EXCEPT !.crypto = @ \cup {task}]

\* What a worker gets.  Of pdu.count only the SN is in the header.
DataPduTask(s, pdu) ==
  [count |-> CountEstimation(s.rx_deliv, SN(pdu.count)), pdu |-> pdu]

\* handle_pdu and handle_data_pdu
HandlePdu(s, pdu, refused) ==
  LET awake == [s EXCEPT !.resume_requested = @ \/ s.suspended]
      task  == DataPduTask(s, pdu)
  IN CASE s.stopped -> s
       [] ~s.stopped /\ s.buffering ->
            IF Len(s.pdu_buffer) < PduBufferSize
            THEN [awake EXCEPT !.pdu_buffer = Append(@, pdu)] ELSE awake
       [] ~s.stopped /\ ~s.buffering /\ task.count >= MaxCount -> awake
       [] OTHER -> Decrypt(awake, task, refused)

\* decrypt_and_verify_integrity with the engine of the present key
Verifies(s, task) == task.pdu.key = s.key /\ task.pdu.count = task.count

(***************************************************************************)
(* Reordering and delivery                                                 *)
(***************************************************************************)
Has(s, count) == count \in DOMAIN s.rx_window

\* Mutant: the latest first.
DeliverDescending(s, counts) ==
  LET held == SetToSortSeq(counts \cap DOMAIN s.rx_window, >)
  IN [s EXCEPT !.delivered = @ \o [i \in DOMAIN held |-> s.rx_window[held[i]]],
               !.rx_window = [c \in DOMAIN @ \ counts |-> @[c]]]

\* deliver_sdu and remove_sn for these COUNTs in ascending order
Deliver(s, counts) ==
  LET held == InOrder(counts \cap DOMAIN s.rx_window)
  IN [s EXCEPT !.delivered = @ \o [i \in DOMAIN held |-> s.rx_window[held[i]]],
               !.rx_window = [c \in DOMAIN @ \ counts |-> @[c]]]

\* Mutant: one SDU at a time.
DeliverOneCount(s) == [Deliver(s, {s.rx_deliv}) EXCEPT !.rx_deliv = @ + 1]

DeliverAllConsecutiveCounts(s) ==
  LET end == Min({c \in s.rx_deliv .. s.rx_next : c = s.rx_next \/ ~Has(s, c)})
  IN [Deliver(s, s.rx_deliv .. (end - 1)) EXCEPT !.rx_deliv = end]

DeliverAllSdus(s) == Deliver(s, s.rx_deliv .. (s.rx_next - 1))

\* Mutant: the timer is not started for the next gap.
ExpireOnce(s) ==
  DeliverAllConsecutiveCounts(
    [Deliver([s EXCEPT !.reordering_timer = FALSE], s.rx_deliv .. (s.rx_reord - 1)) EXCEPT
       !.rx_deliv = s.rx_reord])

\* handle_t_reordering_expire.  The loop ends at equality: past RX_REORD it
\* would visit every COUNT.
HandleTReorderingExpire(s) ==
  LET visited == IF s.rx_deliv <= s.rx_reord THEN s.rx_deliv .. (s.rx_reord - 1)
                 ELSE DOMAIN s.rx_window
      given   == DeliverAllConsecutiveCounts(
                   [Deliver([s EXCEPT !.reordering_timer = FALSE], visited) EXCEPT
                      !.rx_deliv = s.rx_reord])
  IN IF given.rx_deliv < given.rx_next /\ cfg.t_reordering # "ms0"
     THEN [given EXCEPT !.rx_reord = given.rx_next, !.reordering_timer = TRUE]
     ELSE given

\* Mutant: the timer is stopped only when nothing is missing.
ReorderingTimersKept(s) ==
  LET running == s.reordering_timer /\ s.rx_deliv < s.rx_next
      start   == cfg.t_reordering = "finite" /\ ~running /\ s.rx_deliv < s.rx_next
  IN [s EXCEPT !.reordering_timer = running \/ start,
               !.rx_reord = IF start THEN s.rx_next ELSE @]

\* "Handle reordering timers"
ReorderingTimers(s) ==
  LET running == s.reordering_timer /\ s.rx_deliv < s.rx_reord
      start   == cfg.t_reordering = "finite" /\ ~running /\ s.rx_deliv < s.rx_next
  IN IF cfg.t_reordering = "ms0"
     THEN HandleTReorderingExpire([s EXCEPT !.rx_reord = s.rx_next])
     ELSE [s EXCEPT !.reordering_timer = running \/ start,
                    !.rx_reord = IF start THEN s.rx_next ELSE @]

ReceivedBefore(s, count) == count < s.rx_deliv \/ Has(s, count)

ApplyReordering(s, task) ==
  LET count  == task.count
      window == [c \in DOMAIN s.rx_window \cup {count} |->
                   IF c = count THEN task.pdu.sdu ELSE s.rx_window[c]]
      stored == [s EXCEPT !.rx_window = window,
                          !.rx_next = IF count >= @ THEN count + 1 ELSE @]
  IN IF ReceivedBefore(s, count) THEN s
     ELSE ReorderingTimers(IF count = s.rx_deliv THEN DeliverAllConsecutiveCounts(stored)
                           ELSE stored)

(***************************************************************************)
(* Control by the upper layer                                              *)
(***************************************************************************)
ResetState(s) == [s EXCEPT !.rx_next = 0, !.rx_deliv = 0, !.rx_reord = 0]

\* handle_pdu for all PDUs in the buffer: RX_DELIV does not move meanwhile, and a
\* task that is refused leaves nothing behind.
EndBuffering(s, refused) ==
  LET open  == [s EXCEPT !.buffering = FALSE, !.pdu_buffer = <<>>]
      found == {DataPduTask(s, pdu) : pdu \in Range(s.pdu_buffer) \ refused}
      tasks == {task \in found : task.count < MaxCount}
  IN IF s.stopped THEN open
     ELSE [open EXCEPT !.crypto = @ \cup tasks, !.tokens = @ + Cardinality(tasks),
             !.resume_requested = @ \/ (s.suspended /\ s.pdu_buffer # <<>>)]

Suspend(s) ==
  IF s.suspended \/ ~s.buffering THEN s
  ELSE [ResetState(DeliverAllSdus([s EXCEPT !.reordering_timer = FALSE])) EXCEPT
          !.suspended = TRUE]

Resume(s) ==
  IF ~s.suspended \/ ~s.buffering THEN s
  ELSE [s EXCEPT !.suspended = FALSE, !.resume_requested = FALSE]

ConfigureSecurity(s) == [s EXCEPT !.key = @ + 1]

\* The status transfer; the window and the timer stay.
SetCount(s, count) == [s EXCEPT !.rx_next = count, !.rx_deliv = count, !.rx_reord = count]

\* With the keys of the bearer: those of this modification, which set_security_config
\* has applied, or those it had before.
Reestablish(s) ==
  IF cfg.rlc_mode = "um"
  THEN ResetState(DeliverAllSdus([s EXCEPT !.reordering_timer = FALSE])) ELSE s

Stop(s) == ReturnToken([s EXCEPT !.stopped = TRUE, !.reordering_timer = FALSE])

(***************************************************************************)
(* Actions.  Undefined behaviour ends the process.                         *)
(***************************************************************************)
\* The next COUNT of the UE in the target of a handover: an UM bearer starts again.
HandedOver == IF cfg.rlc_mode = "um" THEN 0 ELSE InitCount

Init ==
  /\ cfg \in Configs /\ bearer \in Starts[cfg]
  /\ LET count == IF bearer = "handover" THEN 0 ELSE InitCount
     IN e = [rx_next |-> count, rx_deliv |-> count, rx_reord |-> count,
             rx_window |-> <<>>, reordering_timer |-> FALSE, key |-> 1,
             tokens |-> 0, pending_crypto |-> FALSE, buffering |-> FALSE,
             pdu_buffer |-> <<>>, suspended |-> FALSE, resume_requested |-> FALSE,
             stopped |-> FALSE, crypto |-> {}, delivered |-> <<>>, failed |-> FALSE]
  /\ queue = <<>> /\ air = {}
  /\ ue = [next |-> IF bearer = "handover" THEN HandedOver ELSE InitCount,
           key |-> 1, sent |-> <<>>, sdus |-> 0, change |-> "none"]
  /\ routine = Idle
  /\ faults = 0

Running == ~e.failed /\ bearer # "released"

\* Tasks lost and PDUs repeated in this step.
Fault(n) ==
  /\ n > 0 => faults + n <= MaxFaults[cfg] /\ ue.sdus + faults + n <= MaxEvents[cfg]
  /\ faults' = faults + n

\* External: the UE protects a new SDU.  It is not a window ahead of RX_DELIV, which
\* the target of a handover may not know yet, and its COUNT does not wrap around.  A
\* PDU that has not arrived while a window of others was sent is lost.
UeSend ==
  /\ Running /\ ue.sdus + faults < MaxEvents[cfg]
  /\ LET low == IF bearer = "handover" THEN HandedOver ELSE e.rx_deliv
     IN ue.change = "reset" \/ ue.next < low + WindowSize
  /\ ue.next < CountModulus
  /\ LET sdu  == ue.sdus + 1
         lost == {pdu \in air : pdu.key = ue.key /\ pdu.count <= ue.next - WindowSize}
     IN /\ air' = (air \ lost) \cup
                    {[count |-> ue.next, key |-> ue.key, sdu |-> sdu, copy |-> 0]}
        /\ ue' = [ue EXCEPT !.next = @ + 1, !.sdus = sdu,
                            !.sent = Append(@, [count |-> ue.next, sdu |-> sdu])]
  /\ UNCHANGED <<cfg, e, queue, routine, bearer, faults>>

\* External: the UE takes the new key.  With "resend" it repeats the PDUs that
\* RLC has not confirmed: all from the first that has not arrived, or more.
UeSwitch ==
  /\ Running /\ ue.change # "none"
  /\ \E keep \in 0 .. Len(ue.sent) :
       LET again == {ue.sent[i] : i \in (keep + 1) .. Len(ue.sent)}
       IN /\ ue.change # "resend" => keep = Len(ue.sent)
          /\ ue.change = "resend" => \A i \in 1 .. keep : \A pdu \in air : pdu.sdu # ue.sent[i].sdu
          /\ \A m \in again : m.count > ue.next - WindowSize
          /\ air' = air \cup {[count |-> m.count, key |-> ue.key + 1, sdu |-> m.sdu,
                               copy |-> 0] : m \in again}
  /\ ue' = [ue EXCEPT !.key = @ + 1, !.change = "none",
                      !.next = IF ue.change = "reset" THEN 0 ELSE @,
                      !.sent = IF ue.change = "reset" THEN <<>> ELSE @]
  /\ UNCHANGED <<cfg, e, queue, routine, bearer, faults>>

\* The link may bring the same PDU again.
PduArrives ==
  /\ Running
  /\ \E pdu \in air, refused, again \in BOOLEAN :
       /\ e' = HandlePdu(e, pdu, refused)
       /\ refused => ~e.buffering /\ ~e.stopped
       /\ Fault((IF refused THEN 1 ELSE 0) + (IF again THEN 1 ELSE 0))
       /\ air' = (air \ {pdu}) \cup (IF again THEN {[pdu EXCEPT !.copy = faults']} ELSE {})
  /\ UNCHANGED <<cfg, queue, ue, routine, bearer>>

\* A worker of the pool: apply_security.
ApplySecurity ==
  /\ Running
  /\ \E task \in e.crypto, full \in BOOLEAN :
       LET done == [e EXCEPT !.crypto = @ \ {task}]
       IN /\ e' = IF full THEN ReturnToken(done) ELSE done
          /\ queue' = IF full THEN queue
                      ELSE Append(queue, [task |-> task, ok |-> Verifies(e, task)])
          /\ Fault(IF full THEN 1 ELSE 0)
  /\ UNCHANGED <<cfg, air, ue, routine, bearer>>

\* The strand runs the first task of its queue.
TakeResult == Running /\ queue # <<>> /\ queue' = Tail(queue)

\* The task of ue_ul_executor that apply_security has posted; it holds the
\* token.  It runs in a stopped entity as well.
ProcessVerified ==
  /\ TakeResult
  /\ e' = ReturnToken(IF Head(queue).ok THEN ApplyReordering(e, Head(queue).task) ELSE e)
  /\ UNCHANGED <<cfg, air, ue, routine, bearer, faults>>

TReorderingExpiry ==
  /\ Running /\ e.reordering_timer
  /\ e' = IF e.stopped THEN [e EXCEPT !.reordering_timer = FALSE]
          ELSE HandleTReorderingExpire(e)
  /\ UNCHANGED <<cfg, queue, air, ue, routine, bearer, faults>>

(***************************************************************************)
(* cu_up_bearer_context_modification_routine and ue_context::stop          *)
(***************************************************************************)
RequestSuspend ==
  /\ Running /\ routine = Idle /\ bearer = "active"
  /\ e.key < MaxKeys
  /\ e' = Await(e) /\ routine' = [step |-> "suspend"]
  /\ UNCHANGED <<cfg, queue, air, ue, bearer, faults>>

\* A modification with the SN status and pdcp_reest, but without security information,
\* as the CU-CP sends it once in the target of a handover: nothing is buffered or
\* awaited, and the key stays.  The engines of busy workers are replaced under them,
\* which is undefined.
StatusTransfer ==
  /\ Running /\ routine = Idle /\ bearer = "handover"
  /\ LET done == Reestablish(SetCount(e, InitCount))
     IN e' \in {done} \cup IF e.crypto = {} THEN {} ELSE {[done EXCEPT !.failed = TRUE]}
  /\ bearer' = "active"
  /\ UNCHANGED <<cfg, queue, air, ue, routine, faults>>

\* Security information, with the resumption of a suspended bearer.
RequestRekey ==
  /\ Running /\ routine = Idle /\ bearer \in {"active", "suspended"}
  /\ e.key < MaxKeys /\ ue.change = "none"
  /\ \E reest \in BOOLEAN :
       routine' = [step |-> "rekey", reest |-> reest, resumed |-> bearer = "suspended"]
  /\ e' = Await(IF bearer = "suspended" THEN Resume(e) ELSE e)
  /\ bearer' = "active"
  /\ UNCHANGED <<cfg, queue, air, ue, faults>>

RequestRelease ==
  /\ Running /\ routine = Idle
  /\ e' = Stop(e) /\ routine' = [step |-> "release"]
  /\ UNCHANGED <<cfg, queue, air, ue, bearer, faults>>

FinishSuspend ==
  /\ Running /\ routine.step = "suspend" /\ e.pending_crypto
  /\ e' = StartTokens(Suspend(e))
  /\ routine' = Idle /\ bearer' = "suspended"
  /\ UNCHANGED <<cfg, queue, air, ue, faults>>

\* The change of the UE follows from the RRC message; external.
FinishRekey ==
  /\ Running /\ routine.step = "rekey" /\ e.pending_crypto
  /\ LET ready == StartTokens(ConfigureSecurity(e))
     IN \E refused \in SUBSET Range(e.pdu_buffer) :
          /\ e' = EndBuffering(IF routine.reest THEN Reestablish(ready) ELSE ready, refused)
          /\ Fault(Cardinality(refused))
  /\ ue' = [ue EXCEPT !.change =
              CASE routine.resumed \/ (routine.reest /\ cfg.rlc_mode = "um") -> "reset"
                [] ~routine.resumed /\ routine.reest /\ cfg.rlc_mode = "am"  -> "resend"
                [] OTHER                                                     -> "keep"]
  /\ routine' = Idle
  /\ UNCHANGED <<cfg, queue, air, bearer>>

FinishRelease ==
  /\ Running /\ routine.step = "release" /\ e.pending_crypto
  /\ bearer' = "released"
  /\ UNCHANGED <<cfg, e, queue, air, ue, routine, faults>>

OtherStep ==
  \/ UeSwitch \/ PduArrives
  \/ ApplySecurity \/ ProcessVerified \/ TReorderingExpiry
  \/ StatusTransfer \/ RequestSuspend \/ RequestRekey \/ RequestRelease
  \/ FinishSuspend \/ FinishRekey \/ FinishRelease

Next == UeSend \/ OtherStep

\* The workers, the strand, the timer and the coroutine go on; nothing is
\* assumed of the UE, the link and the CU-CP.
Fairness ==
  /\ WF_vars(ApplySecurity) /\ WF_queue(TakeResult) /\ WF_vars(TReorderingExpiry)
  /\ WF_vars(FinishSuspend \/ FinishRekey \/ FinishRelease)

Spec == Init /\ [][Next]_vars /\ Fairness

\* What the entity needs of its environment: the SN status of a handover comes before
\* the first PDU.  Nothing in the CU-UP enforces it.
TimelySend == bearer # "handover" /\ UeSend

TimelySpec == Init /\ [][TimelySend \/ OtherStep]_vars /\ Fairness

(***************************************************************************)
(* Properties                                                              *)
(***************************************************************************)
\* Types, and the order of the state variables that apply_reordering keeps.
TypeOK ==
  /\ cfg \in Configs
  /\ {e.rx_next, e.rx_deliv, e.rx_reord} \subseteq 0 .. MaxCount
  /\ DOMAIN e.rx_window \subseteq (e.rx_deliv + 1) .. (e.rx_next - 1)
  /\ e.rx_next - e.rx_deliv <= WindowSize
  /\ e.key \in 1 .. MaxKeys /\ e.tokens \in Nat \cup {-1}
  /\ \A task \in e.crypto : task.count \in 0 .. MaxCount
  /\ routine.step \in {"idle", "suspend", "rekey", "release"}
  /\ bearer \in {"active", "handover", "suspended", "released"}

\* While something is missing below RX_NEXT t-Reordering runs, and it runs for
\* a RX_REORD that is still ahead: handle_t_reordering_expire counts up to
\* RX_REORD and would not stop if RX_DELIV had passed it.
TimerGuardsGap ==
  ~e.stopped =>
    /\ cfg.t_reordering = "finite" => (e.reordering_timer <=> e.rx_deliv < e.rx_next)
    /\ e.reordering_timer => e.rx_deliv < e.rx_reord /\ e.rx_reord <= e.rx_next

\* handle_data_pdu finds the COUNT of every PDU of the present key from its SN,
\* although RX_DELIV lags behind by what the workers and the queue hold and
\* HFN changes meanwhile.
CountRecovered ==
  LET found == e.crypto \cup {queue[i].task : i \in DOMAIN queue}
  IN \A task \in found : task.pdu.key = e.key => task.count = task.pdu.count

\* SDAP gets the SDUs in the order in which the UE sent them and each once,
\* across expiries, re-keying, re-establishment and suspension.  It holds if the
\* SN status of a handover comes in time (TimelySpec), and only then: the
\* re-establishment of an UM bearer without new keys forgets what was received.
Service == INSTANCE PdcpService WITH sent <- ue.sdus, delivered <- e.delivered
ImplementsPdcpService == Service!Spec

\* SDUs do not wait for a missing one for ever: unless the bearer is released,
\* all that are held have been delivered in the end.
HeldIsDelivered ==
  []<>(cfg.t_reordering = "infinity" \/ DOMAIN e.rx_window = {} \/ e.stopped)

\* A modification or release that waits for the crypto tasks goes on in the
\* end: no token is lost, also when tasks are refused.
RoutineCompletes == routine # Idle ~> routine = Idle \/ bearer = "released"
=============================================================================

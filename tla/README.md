# A verification project for the oran-testbed

The repository is an O-RAN 5G testbed: an Open5GS core, the near-real-time RIC of the
O-RAN SC, the OCUDU gNB (`src/ocudu`, a fork of srsRAN) and the Python around them (xApps,
a Kafka consumer, dashboards). This directory holds TLA+ models of its core protocol code,
the TLC runs that check them and proofs checked by TLAPS. It covers what a data bearer's
guarantees rest on, and where executors share memory or hand work to each other: **RLC
acknowledged mode** (`src/ocudu/lib/rlc`), **PDCP** (`src/ocudu/lib/pdcp`) with the routine
of the CU-UP that re-keys it, and the **timer service** (`src/ocudu/lib/support/timers.cpp`)
both depend on; and the subscriptions of the testbed's **xApps**. Files are named without
their directory where that is one of these.

    tlc -workers 2 -config RlcAmWrap.cfg MCRlcAm       # a run: <name>.cfg with its MC module
    tlapm RlcSduQueueProofs.tla                        # the proofs of a module

`PROJECT.json` lists components, runs, mutants, hazards, findings, theorems and, under
`map`, the source lines each definition stands for.

## 1. Inventory

### The gNB (`src/ocudu/lib`)

| Part | State | Operations | Interaction | What makes it correct |
|---|---|---|---|---|
| RLC AM transmitter (`rlc_tx_am_entity`) | SDU queue, TX window, TX_Next, TX_Next_Ack, POLL_SN, counters, retransmission queue, t-PollRetransmit | `handle_sdu`, `discard_sdu`, `pull_pdu`, `handle_status_pdu`, timer expiry, buffer-state update and its barring | called by PDCP on the ue_executor, by MAC on the pcell_executor; notifies both | window contiguous, nothing confirmed that the peer lacks, every SDU resolved |
| RLC AM receiver (`rlc_rx_am_entity`) | RX window, RX_Next, RX_Next_Highest, RX_Highest_Status, trigger, t-Reassembly, t-StatusProhibit, three report buffers | `handle_data_pdu`, `handle_control_pdu`, timer expiries, `get_status_pdu` | MAC hands PDUs in; SDUs go to PDCP; reports go to the transmitter of the same entity | at-most-once, unmixed delivery; true reports |
| Status PDU (`rlc_am_status_pdu`) | NACK list, ACK_SN, packed size | `push_nack`, `trim`, `pack`, `unpack` | built by the receiver, trimmed and packed by the transmitter, expanded by the peer | merging and trimming never acknowledge what is missing |
| SDU queue (`rlc_sdu_queue_lockfree`) | SPSC queue, slot states and sizes, packed counter | `write`, `try_discard` / `read`, `front` | shared by two threads, no lock | linearisable FIFO, no slot leak, exact counter |
| RLC UM, TM | reassembly window and timer (UM) | as AM, without reports | as AM | order, no mixing |
| PDCP transmitter (`pdcp_entity_tx`) | TX_NEXT, TX_TRANS, TX_NEXT_ACK, TX_TRANS_CRYPTO, TX_REORD_CRYPTO, TX window with SDUs and protected PDUs, discard and crypto reordering timers, keys, SDU buffer | `handle_sdu`, `apply_security`, `apply_reordering`, notifications, status reports, timer expiries, `suspend`, `resume`, `reestablish`, `stop` | SDAP above, RLC below (over F1-U); a pool of crypto workers, a strand per UE | COUNT and key never reused, RLC gets PDUs in order, SDUs discarded in time |
| PDCP receiver (`pdcp_entity_rx`) | RX_NEXT, RX_DELIV, RX_REORD, RX window, t-Reordering, keys, PDU buffer | `handle_pdu`, `apply_security`, `apply_reordering`, expiry, control as above | as above | delivery in order and at most once, nothing held for ever |
| Bearer context modification (`lib/cu_up`) | progress of the coroutine, crypto tokens, state of the bearer | suspend, resume, new keys, re-establishment, SN status of a handover, release | E1AP; drives both PDCP halves | new keys come only when no worker is busy (a re-establishment without new keys does not wait for the workers); it always ends |
| Timer service (`timers.cpp`) | front-end and back-end state of each timer, triple buffer, update queue, wheel, postponed expiries, pool | `create`, `set`, `run`, `stop`, `reset`, `tick`, deferred expiry | every component; owner's executor against the tick thread | the owner sees an atomic timer: no expiry after stop or restart, each run expires |
| Executors, strands | task queues | `execute`, `defer` | every component | order on a strand (used as external) |
| MAC, scheduler, HARQ | HARQ processes, buffer states | slot indications, feedback | RLC below, FAPI above | no HARQ process used twice |
| CU-CP, CU-UP, DU managers; F1AP, E1AP, NGAP, XnAP, RRC | UE contexts, transactions | procedures with timeouts | SCTP associations | every procedure ends, contexts released |
| E2 agent | subscriptions, RAN functions | setup, subscription, indication, control | RIC | indications only for live subscriptions |
| PHY, OFH, RU, FAPI, ASN.1 | | | | not candidates: signal processing, I/O, generated code |

### The testbed's own code

`ric/xApps/python/lib/xAppBase.py` keeps a dictionary of subscriptions that the main thread
(the RMR loop and the signal handler), the thread of the start function and the HTTP server
share without a lock. `pubsub/consumer` reads Kafka
with automatic commits and writes to InfluxDB. Scripts, Open5GS and monitoring are
configuration.

### What is hard here

Sequence numbers wrap; PDUs and reports are lost, repeated and reordered; a report crosses a
timer expiry or the segmentation of an SDU; PDCP discards an SDU that is being read; two
executors exchange reports and flags through relaxed atomics; deferring a task can fail; grants
are too small; crypto workers finish in any order and keys change when the last one is done,
but a re-establishment without new keys waits for none; an expiry is a task that its owner may
have overtaken; a thread subscribes while another one unsubscribes all. `hazards` in
`PROJECT.json` lists each at its line.

## 2. Plan

Done: the RLC AM protocol with its service; the SDU queue with its FIFO and the proofs; the
status PDU and the exchange of reports; the timer service as an abstract timer and the
detailed manager; both PDCP halves with the modification routine, and the service towards
SDAP; the xApp's subscriptions. Composition: `RlcAm` composes the two RLC halves; `PdcpTx`
and `PdcpRx` each compose an entity with the routine; `RlcSduFifo` and `TimerService` are
the interfaces the RLC and PDCP models assume, and the detailed modules implement them.

Proofs done: every invariant that a run checks, and the refinements of the SDU FIFO, of the
timer service (its safety), of the PDCP service and of the RLC service. What is left of the
properties is liveness, which stays with TLC.

Models to come: sizes in the buffer state towards the MAC and `stop()` of RLC; RLC UM;
status reports sent by PDCP; the E2 agent's subscriptions; the HARQ manager.

## 3. Modules

| Module | Models | Composes / used by |
|---|---|---|
| `RlcAmPdu` | configuration, SN arithmetic, PDUs, the lower layer (external) | extended by both halves |
| `RlcAmTx` | `rlc_tx_am_entity` | `RlcAm` |
| `RlcAmRx` | `rlc_rx_am_entity`, status branch of `pull_pdu` | `RlcAm` |
| `RlcAm` | one direction of a bearer: `RlcAmTx`, `RlcAmRx`, channels; its properties | `MCRlcAm` |
| `RlcAmService` | what the bearer promises | `RlcAm` refines it |
| `RlcAmProofs` | proofs, the refinement included | |
| `RlcSduQueue` | `rlc_sdu_queue_lockfree.h`, one step per atomic access | `MCRlcSduQueue` |
| `RlcSduFifo` | the queue with atomic operations, as `RlcAmTx` uses it | `RlcSduQueue` refines it |
| `RlcSduQueueProofs` | proofs, the refinement included | |
| `RlcAmStatusPdu` | one report: built, merged, trimmed, read by the peer | `MCRlcAmStatusPdu` |
| `RlcAmStatusPduProofs` | proof | |
| `RlcAmStatusExchange` | report buffers, `do_status`, prohibit flag, buffer-state notification between the executors | `MCRlcAmStatusExchange` |
| `RlcAmStatusExchangeProofs` | proof | |
| `TimerManager` | `timers.cpp`, one step per access to shared memory | `MCTimerManager` |
| `TimerService` | the atomic timer an owner sees, as RLC and PDCP use it | `TimerManager` refines it |
| `TimerManagerProofs` | proofs, the refinement included | |
| `PdcpBase` | COUNT arithmetic, crypto tokens | extended by both halves |
| `PdcpTx` | `pdcp_entity_tx`, crypto pool, modification and release | `MCPdcpTx` |
| `PdcpRx` | `pdcp_entity_rx`, the same, the UE and the link (external) | `MCPdcpRx` |
| `PdcpService` | what SDAP is promised | `PdcpRx` refines it |
| `OrderedSets` | `InOrder`: the order in which a loop over a window visits its numbers | `PdcpBase`, `RlcAmTx` |
| `OrderedSetsProofs` | lemmas: division, least elements, sorting | `PdcpRxProofs`, `PdcpTxProofs`, `RlcAmProofs`, `RlcAmStatusPduProofs` |
| `PdcpTxProofs`, `PdcpRxProofs` | proofs, the refinement of `PdcpService` included | |
| `XApp` | subscriptions of `xAppBase.py` and its three threads | `MCXApp` |

**RlcAm.** State variables carry the source's names. A handler that runs on one executor is
one action: `HandleSdu`, `DiscardSdu`, the branches of `PullPdu` (`BuildNewPdu`,
`BuildFirstSduSegment`, `BuildContinuedSduSegment`, `BuildRetxPdu`, `RetxGrantTooSmall`,
`PullDiscarded`), `HandleStatusPdu`/`IgnoreStatusPdu`, `ExpirePollRetransmitTimer`,
`UpdateMacBufferState`; `HandleDataPdu`/`DiscardDataPdu`, `ExpireReassemblyTimer`,
`PullStatusPdu`, `ExpireStatusProhibitTimer`. An SDU is a number and its bytes are offsets;
the RX window maps bytes to the SDU they came from, so mixing would be seen. Reports list
single SNs; that merging into ranges is invisible is shown by `RlcAmStatusPdu`. Timers are
Booleans; an expiry and its handler are one step, which is what `TimerManager` is shown to
give (`ImplementsTimerService`). The SDU queue is atomic; that
is what `RlcSduQueue` refines. Both halves of one entity run on different executors; here
the receiver belongs to the peer, and the exchange inside an entity is
`RlcAmStatusExchange`. The channels are sets: loss, reordering and duplication are free, but
a PDU does not outlive half of the SN space, the assumption TS 38.322 itself needs.

**RlcSduQueue.** `up_pc` and `low_pc` are the places of the two threads. Steps interleave as
in sequentially consistent memory; the module's header says which release/acquire pairs pay
for it. `holder`, `discarded`, `taken` are history variables.

**RlcAmStatusPdu.** `Init` ranges over every RX window of `Span` SDUs; the run is a check of
`push_nack`, `trim` and the peer's expansion over all bounded inputs. The field of a NACK range
is unsigned and wraps behind `MaxNackRange`, as `uint8_t` does behind 255.

**RlcAmStatusExchange.** `UpdateOrder` and `PullOrder` are the program orders of
`update_mac_buffer_state` and `get_status_pdu`. A report is the number of its refresh. Data
that waits for transmission is one number, `backlog`, in units of a report: SDUs come and are
discarded (`HandleSdu`), retransmissions are queued (`ForceUpdate`, a forced notification), and
grants drain them (`PullData`). `Notify` is the condition of `update_mac_buffer_state`: a large
buffer state after a large one is not sent unless the barring was suspended, which
`get_buffer_state` does when it finds little to send, or the head of line has become older;
arrival times are not modelled, so that comparison may go either way. `mac_bytes` is what the
MAC knows, by a notification or because it asks after each grant (`MacRefresh`,
`mac_cell_processor.cpp:528`). Grants too small for a
report, and bearers that have reached `max_retx`, are left to `RlcAm`.

**TimerManager.** Per timer: what its `unique_timer` sees (`state`, `duration`), where its
owner is in `backend_channel::push` (`push_pc`), the contents of the three command buffers,
and the back-end context. A tick goes through the phases of `tick()`: commands of the ids
dequeued at its start, postponed expiries, the clock, the wheel list. `owner` counts the
`unique_timer`s that have held a timer, so that an expiry meant for a former owner would be
seen; `left` is the time the run still has to last. Under the refinement an owner's call is
one step of `TimerService`, `AdvanceTime` is `Elapse`, the deferred task is `Expire`.

**PdcpTx, PdcpRx.** The entity is a record `e` with the source's field names; an operator per
function maps it to the next one (`HandleSdu`, `ApplyReordering`, `DiscardCallback`, ...), so
that a handler that calls others is their composition, as in the code. A task of the UE's
strand is one action. `crypto` holds the tasks with the workers, `queue` the results on their
way back; either queue may be full (`refused`, `queue_full`). The token of a task is held in
`crypto` and `queue` and given back on every path; `pending_crypto` is the event the coroutine
awaits. Protection is the pair of key and COUNT. `lower` and `delivered` record what RLC and
SDAP got. `failed` is a failed assertion or undefined behaviour. In `PdcpTx` time passes in
ticks of the discard timer and `left` is what an SDU has left, below zero if it is overdue; in
`PdcpRx` and for the crypto reordering timer (40 ms) an expiry may come at any time. RLC's
notifications and status reports are external in `PdcpTx`, the UE and the link in `PdcpRx`.

The routine re-establishes in two ways. With security information it buffers, waits for the
tokens, changes the keys and then re-establishes (`RequestRekey`, `FinishRekey`). Without, it
applies the SN status (`SetCount`) and re-establishes at once, under the same key and with the
workers running; that is `StatusTransfer`, which the CU-CP sends once to the target of an
inter-CU handover (`inter_cu_handover_execution_target_routine.cpp:174`). A bearer that awaits
it is in the state "handover" (`Starts`); it begins with COUNT 0, and the UE of an UM bearer
does too, while that of an AM bearer goes on at `InitCount`. The engines of workers that are
busy are replaced under them, which is undefined: the process may end (`failed`). Once the
transfer was late, two COUNTs can fall into one place of the circular buffer of the window;
the models keep COUNTs apart there.

`Spec` lets SDUs and PDUs come before the SN status, since nothing in the CU-UP prevents it:
uplink PDUs follow the UE's reconfiguration, which the CU-CP awaits in parallel; downlink SDUs
normally come after the path switch. `TimelySpec` assumes that neither comes before, and
the runs and the proofs are about it. Section 4 says what happens otherwise: with
`SPECIFICATION Spec` in their configurations, the runs `PdcpTx` and `PdcpRx` end in
counterexamples.

What else is assumed of the surroundings: the CU-CP sends the SN status once and starts no
other modification of the bearer before it, a release excepted; the strand runs an expiry of
the discard timer before the next tick (the control executor has the highest priority), though
a notification may come between; integrity protection is on (without it a PDU of the old key
would pass); the UE stays within a window of RX_DELIV, does not let its COUNT wrap around (its
RRC gets new keys first) and takes the new key after the CU-UP has; a resumption brings new
keys (otherwise PDCP would go on buffering); a DRB has a discardTimer, which may be infinity.

**XApp.** A step is what a thread does between two REST calls or accesses to the dictionary.
`size` and `visited` are the iterator of `unsubscribe_all`, which raises when the dictionary
has changed its size.

## 4. Runs

Passing runs:

| Run | Shows | Bounds |
|---|---|---|
| `RlcAmWrap` | windows, RX state order, truth of accepted reports and the service while SNs wrap, PDCP discards at any time and grants are too small for any header | 5 SDUs (2 discardable) in an SN space of 4, window 2, 2 PDUs in flight each way, pollPDU 2 |
| `RlcAmSegment` | the same service with segmentation and trimmed reports; a retransmission never overtakes the original; no false protocol failure; poll on the last PDU; `rx_window[rx_next]` is there | 2 SDUs of 3 bytes, up to 3 segments, grants that fit 1 or 2 bytes, a queue of 1 |
| `RlcAmTimely` | liveness: every queued SDU confirmed, or the bearer reported failed | 3 SDUs, t-StatusProhibit on |
| `RlcSduQueue` | atomic FIFO, slots, exact counter | capacity 2, 3 PDCP SNs (two share a slot), 4 writes, 2 sizes |
| `RlcAmStatusPdu` | a merged and trimmed report, expanded by the peer, says what is missing | 4 SDUs of 3 bytes, ranges up to 3 so that the limit of their field is met |
| `RlcAmStatusExchange` | buffers apart, MAC informed of requests or granting anyway, although notifications are barred, requests answered | 2 reports, up to 2 units of data where more than 1 is large, prohibit timer on |
| `TimerManager` | one signal per command, no update without timer or command, expiries find a running timer, the atomic timer is implemented, timers return to the pool | a timer that is created, set, run, stopped, reset and created again, 5 commands; durations 0 and 3 with a wheel of 2 and a clock modulo 4; 2 refused expiries |
| `PdcpTx` | no COUNT reused under a key, PDUs to RLC in order, no PDU waits without a timer, discards in time, the routine is woken exactly when the workers are idle | AM: 3 SDUs, UM: 4; SN space 8 starting at 6, so that HFN changes, and the COUNT limit at 9, so that SDUs are refused; AM handed over, UM both handed over and set up; discardTimer 2 ticks or infinity, ticks modulo 4; 2 keys; 1 refused task or status report; an SDU buffer of 1 |
| `PdcpRx` | t-Reordering guards each gap, COUNT recovered, SDAP's service, everything held is delivered, the routine ends | UM with t-Reordering 0, finite and infinite: 4 SDUs and faults together, AM: 3; SN space 8 starting at 6, AM and UM handed over, UM with a finite t-Reordering also set up there; 2 keys; a PDU buffer of 1 |

The bounds are the smallest at which each case happens: a window of 2 is the smallest with a
gap behind RX_Next, five SDUs pass every SN once and reuse one, two sizes and two SNs per slot
are needed to confuse slots, a duration longer than the wheel has to pass it twice, two gaps,
of which a reordering timer guards one after the other, take four SDUs, and a backlog of two
units is large before and after an update, which is when notifications are barred. One timer is
what fits in a run with every access a step; timers meet only in the list of postponed
expiries, where one that is refused again delays those behind it to the next tick
(`HandlePostponedTimeout` is written for several). `RetxCountBound` stops runs that retransmit
for ever. `CHECK_DEADLOCK FALSE` is set because a bearer whose SDUs are all confirmed, or that
reached `max_retx`, does stop, and so do a PDCP entity that is released and an xApp that has
exited. The timer service never stops: its run checks deadlock.

Runs that refute what a comment or document says (`findings` quotes it):

| Run | The code |
|---|---|
| `RlcAmCrossing` | a report that crosses the expiry of t-PollRetransmit removes the retransmission that was to carry the poll: the bearer stalls |
| `PdcpTxStaleKey` | `retransmit_all_pdus` leaves protected PDUs in the window and the crypto reordering timer running: a PDU made before a re-establishment is sent after it, under the old key |
| `XAppExit` | a subscription requested when the exit signal comes is stored after `unsubscribe_all` and stays active |

Further deviations the models have as the code has them, without a run of their own:

- `rlc_tx_am_entity.cpp:1201`: the comparison admits one SDU more than `max_window`, and
  since it is made before TX_Next moves on, the PDU that stalls there carries no poll;
- `rlc_tx_am_entity.cpp:507`: `retx_sn` is set before the grant is found too small, so it
  can name an SN that was not retransmitted;
- `rlc_tx_am_entity.cpp:565`: `max_retx_thresh` is compared for equality with a counter that
  can have been raised past it;
- `rlc_rx_am_entity.cpp:285`: t-Reassembly is stopped for a trigger equal to RX_Next +
  AM_Window_Size, which the comment at 272 exempts;
- `rlc_sdu_queue_lockfree.h:99`: a read between the push (88) and `state_add` makes
  `get_state` report a number of SDUs below zero, wrapped, until the write goes on;
- `rlc_tx_am_entity.cpp:1089`: a discarded SDU that keeps its place in the queue suppresses
  the poll on the last PDU;
- `rlc_tx_am_entity.cpp:283`: the length of an unsegmented SDU is read after its buffer was
  moved away, so that it does not count for pollByte;
- `rlc_am_pdu.cpp:127`: a trimmed report may keep a NACK range that reaches its ACK_SN; the
  peer ignores such a report (`valid_nack`);
- `rlc_rx_am_entity.cpp:639`: the prohibit flag is set although the deferral of the timer's
  start failed, and stays set. `RlcAmStatusExchange` has the step under `DeferMayFail`; its
  run has `DeferMayFail = FALSE`;
- `rlc_rx_am_entity.cpp:641`: two requests for one refresh make `get_status_pdu` hand out an
  older report;
- `pdcp_entity_tx.cpp:1346`: the time left of the new oldest SDU is an unsigned difference; if
  the SDU is overdue already (a notification came just before the expiry, twice), an
  assertion of `timers.cpp:217` fails, and in builds without assertions the timer is set to
  almost 2^32 ticks and discarding stops until the next notification. The model has both
  (`Checked`, `overdue`), and `DiscardNotLate` excepts them;
- `pdu_session_manager_impl.cpp:533-558`: an SN status that comes after the first SDUs or PDUs
  of an UM bearer starts TX_NEXT at 0 again under the same key, so that a COUNT protects two
  SDUs, contrary to the comment at `pdcp_entity_tx.cpp:272` (`KeyAndCountOnce` fails under
  `Spec`); it takes RX_DELIV back, so that a PDU which the transport repeats is delivered
  again (`ImplementsPdcpService` fails); and `set_count` puts RX_DELIV and RX_NEXT together,
  so that `deliver_all_sdus` finds none of the SDUs that wait for a missing one, contrary to
  the comment at `pdcp_entity_rx.cpp:262`: they stay in the window;
- `pdcp_entity_rx.cpp:793` and its counterpart: a re-establishment without new keys replaces
  the security engines while workers may use them (`StatusTransfer`);
- `pdcp_entity_tx.cpp:416` and `:1341`: the window is indexed with a COUNT that a status
  report may have removed out of order; only an assertion guards the lookup (`failed`);
- `pdcp_entity_tx.cpp:954`: `reset()` leaves the discard timer running, so that the first SDU
  after the re-establishment of a UM bearer may be discarded too early;
- `pdcp_entity_rx.cpp:452`: unlike its counterpart, `apply_reordering` does not ask whether
  the entity is stopped, and may deliver and start t-Reordering afterwards;
- `xAppBase.py:88`: a response that is handled before `subscribe` has stored the subscription
  is ignored; all its indications are then dropped;
- `xAppBase.py:134`: when the dictionary changes under `unsubscribe_all` the exception ends
  the handler, and the xApp runs on or ends without unsubscribing.

**Fairness.** `RlcAm!TimelySpec`: the MAC keeps granting PDUs that fit an SDU (its buffer state is
not empty), timers expire, a PDU in flight arrives or is lost. Nothing makes a PDU arrive.
`TimelyNext` adds the configuration rule that t-PollRetransmit is longer than t-Reassembly and
a round trip; `RlcAmCrossing` is what happens without it. `FairSpec` has no such rule.
`RlcAmStatusExchange!Spec`: executors run what they are in (weak) and what is queued, timers
expire, the MAC gives grants while it knows of data (strong: new SDUs and reports of the peer
come in between, but task queues, timers and the scheduler do not starve). `TimerManager`: the
clock ticks (the tick thread goes through its phases), an owner that has begun a push ends it,
executors run what they have accepted; that they accept an expiry in the end follows from the
bound on refusals. `PdcpRx`: workers, the strand, t-Reordering and the coroutine go on; nothing
is assumed of the UE, the link and the CU-CP, which may never send another PDU or request. The
strand's fairness is stated as `WF_queue(TakeResult)`: the task at the head of its queue is
taken, and the only step that takes one is `ProcessVerified`.

Each property has a mutant: a plausible bug in one mapped definition (written before the
definition, marked "Mutant") that makes the property fail.

## 5. Proofs

`RlcSduQueueProofs` proves, for every capacity, byte limit, set of PDCP SNs, sizes and number
of writes, that the queue keeps its types (`TypeCorrect`), never releases a slot that is not
its SDU's (`ReleaseIsValid`), leaks no slot (`SlotsAreReturned`) and never returns a discarded
SDU (`DiscardIsFinal`). None of these is inductive. `IInv` adds: a thread in the middle of a
slot operation has an SDU with an SN (`SlotNamed`); ids are ordered from taken SDUs over the
one in hand and the queue to the one being written (`Order`, `TakenOrder`), so that they are
distinct; every SDU with an SN holds its slot, hence no two share one (`SlotsHeld`); what
`front` pops has been discarded (`FrontPopsDiscarded`). There is one lemma per action that
changes slots or the queue, and one for the local steps of each thread.

It also proves `QueueRefinesFifo`: with `fifo` as the SDU in hand followed by
the queue, each marked by whether it has been discarded, a push is `Accept`, the
compare-exchange of `try_discard` is `Discard`, the exchange of `check_and_release` is `Take`
or `Drop`, and every other step leaves the FIFO alone.

And it proves `CounterIsExact`: the packed counter is the sum over the SDUs that are queued and
not discarded, but for the updates to come. `SizesInv` says that the size a thread finds in a
slot is that of the SDU it holds it for, `CountInv` is the sum. The sum over a set is written as
the number of elements of a disjoint union (`UnitsOf`), so that adding or removing an SDU is a
matter of cardinalities and needs no induction. A step either leaves the live SDUs and the
updates to come alone, exchanges one for the other (`CountAdds`, `CountRemoves`) or makes one of
the updates (`CountUpdates`).

`RlcAmStatusPduProofs` proves `ReportsAreTrue`, for every RX window, SN space, SDU length, limit
of ranges and grant: the peer reads what was pushed, and no missing byte below ACK_SN is cut
off. Merging a NACK adds its byte range to what the previous one stands for and changes none of
the others (`MergedIs`); NACKs are in the order of their SNs (`Sorted`), so that those behind the
new ACK_SN of `trim` name nothing below it. That SDUs are shorter than the value of
`so_end_of_sdu` is an assumption of the proof; the SO field has 16 bits.

`RlcAmStatusExchangeProofs` proves `BuffersApart`: the three report buffers stay a permutation
through both swaps, with or without failing deferrals.

`TimerManagerProofs` proves, for every set of timers and durations, every width of the clock
and any number of commands, that the service keeps its types (`TimerTypes`), that the ticking
thread gets one signal per command it has to take (`SignalsMatchCommands`) and finds timer and
command behind every signal (`UpdatesAreFound`), and that an expiry always finds the run it is
for (`ExpiriesFindTheirRun`). The last is the hard one. Its `IInv` says, timer by timer, where
the last command is (`ChannelInv`) and what it means for the front-end while the back-end has
not processed it (`CommandInv`), that a run has only one of wheel entry, postponed expiry and
dispatched task (`ExpiryInv`, `PostponedInv`), and that a wheel entry is met when n more ticks
have passed, n being no less than what the owner still expects and at most one turn of the
clock (`WheelInv`). `TickPhases` says what is left over between the phases of a tick.

It also proves `ServiceImplemented`: with `duration` as the owner sees it,
every step of either thread is a step of `TimerService` or leaves its variables alone. An
expiry maps to `Expire` because of `left = 0` in `ExpiryInv`, which `WheelInv` pays for.

`PdcpRxProofs` proves, for every even SN space, COUNT limit, buffer size and number of keys,
PDUs and faults, that the COUNT of every PDU of the present key is recovered from its SN
(`CountsAreRecovered`), that RX_DELIV, what is held and RX_NEXT stay in order within a window
(`WindowAndTypes`), that t-Reordering guards every gap and never runs for an RX_REORD that has
been passed (`GapsAreGuarded`), and that keys change and RX_DELIV goes back only when no PDU
is with a worker or in the strand's queue (`RestartsAreDrained`). All of it is under
`TimelySpec`: the SN status of a handover comes before the first PDU. Under the first is a lemma of
arithmetic, `CountFromSn`: the HFN of a COUNT less than a window above, or at most a window
below RX_DELIV is that of RX_DELIV or its neighbour, and the three cases of `handle_data_pdu`
tell which. That PDUs of the present key are that near is the invariant: `CountInv` ties the
UE's next COUNT to RX_DELIV and to everything on its way, unless the entity waits for a UE
that starts again (`ControlInv`); `KeyInv` says that the UE lags by one key at most, so that
nothing buffered during a re-keying has the new key; and `TokenInv`, that a token is held for
every task, makes the event of the token manager mean that nothing is under way. The proof
needed the assumption that the UE's COUNT does not wrap around, which the model then stated.
`HandoverInv` is where `TimelySpec` comes in: while the SN status is awaited the entity is as
new and the UE has sent nothing, so that the re-establishment under the same key has nothing
to lose. Without it `StatusTransfer` breaks `CountInv` and the order of what is delivered.

It also proves `DeliversInOrder`: the entity implements `PdcpService`, whatever the
workers, the link and the routine do. `OrderInv` adds to the invariant that the COUNTs and the
numbers of the SDUs of the UE have the same order since it last started (`SentOrder`), that
what is held, on the air or with a worker under the present key was sent with the COUNT it has
(`HeldWasSent`), and that everything delivered is earlier than any SDU with a COUNT from
RX_DELIV on (`LaterThan`). Each operation that delivers has a lemma which says that `Orderly`
is kept and that `delivered` only grows; they rest on `AppendHeld`, for the held SDUs between
two COUNTs, and that on `InOrderSorts`. `InOrder` puts in place i the COUNT with i - 1 others
below it, so that sorting is a matter of cardinalities and needs no induction. While the
entity is parked or waits for a UE that starts again, only the order of what has been
delivered is kept; `FreshOrderly` brings the rest back.

`PdcpTxProofs` proves every invariant the run `PdcpTx` checks, for every SN length, COUNT
limit, buffer size, set of discardTimers and number of SDUs, keys and faults, if the SN status
of a handover comes before the first SDU (`TimelySpec`): the order of the
state variables (`StateVariablesInOrder`), that no COUNT protects two SDUs under one key
(`NoCountTwiceUnderOneKey`), the order in which RLC gets PDUs (`RlcGetsPdusInOrder`), a timer
for every PDU that waits (`WaitingIsTimed`), discards in time (`DiscardIsTimely`) and the
wake-up of the routine (`RoutineIsWoken`). The parts of `IInv`, and why each is there:

- `WindowInv`: TX_NEXT_ACK, TX_TRANS, TX_NEXT in order, the window between them, both crypto
  variables at most TX_NEXT; `TaskInv`: tasks have COUNTs below TX_NEXT and the present key;
- `TokenInv`: tokens held, with the one the manager keeps, are as many as tasks and results
  under way. With it the event means that nothing is under way, and a result that comes back
  after a re-keying cannot exist;
- `LowerInv`, for the order and the keys. What RLC has got under the present key has a COUNT
  below TX_NEXT, and since the last retransmission one below TX_TRANS_CRYPTO (`KeyLow`),
  unless the entity has started its COUNTs again and buffers until it has a new key
  (`Parked`); a PDU ready in the window carries the SDU that RLC may have got with its COUNT
  already, and is above what RLC got since the retransmission (`ReadyInv`). The PDUs that
  `PdcpTxStaleKey` is about are covered: they break neither the order nor the use of keys;
- `TimerInv`: the crypto reordering timer runs for a TX_REORD_CRYPTO that TX_TRANS_CRYPTO has
  not passed, or for one that lies below the window;
- `DiscardInv`: the oldest SDU is at TX_NEXT_ACK, the SDUs expire in the order of their
  COUNTs, and the timer expires at most a tick after the first is due;
- `ControlInv`, `SduInv`: the routine, the bearer and the flags agree; SDUs are those sent;
- `HandoverInv`, beside `IInv`: a bearer that awaits the SN status has seen no SDU. Only so
  does the re-establishment under the same key keep `KeyLow`: nothing has been protected yet.

An assertion that fails (`failed`) ends the process; of that last state only the order, the
keys and the tokens are claimed. Each operator on the entity has a lemma (`Accepts`,
`Unbuffers` and the like name their conclusions), each action a lemma that combines them. The
loops over the window are least elements (`MinIn`) and `InOrder`, as in the receiver. One case
the proof had to deal with is a status report with FMC 0, which the model then admitted.

`RlcAmProofs` proves, for every window size from 2 on, length of SDUs and headers, set of
grants, configuration and number of SDUs, on a link that loses, repeats and reorders (within
half of the SN space), every invariant the runs of `RlcAm` check: types (`BearerTypeOK`), the
contiguous TX window (`TxWindowIsContiguous`), only what was sent is retransmitted
(`RetxWasSent`), the order of the RX state variables (`RxStateIsOrdered`), the lookup in the
reassembly timer's trigger (`TriggerIsKnown`), the two windows within reach of each other
(`WindowsStayAligned`), the truth of every report the transmitter would accept
(`AcceptedReportsAreTrue`) and that an honest peer never causes a protocol failure
(`HonestPeerIsTrusted`). It also proves `BearerImplementsService`: nothing is delivered twice,
mixed or confirmed before it is delivered. `LastPduPolls` proves the action property
`PollOnLastPdu` where no SDU is discarded and `max_window` is off, the two cases in which the
code does not poll (section 4). The parts of the inductive invariant `BearerInv`:

- `TxInv`: the TX window has exactly the SNs from TX_Next_Ack to those sent (`Sent`), at most a
  window of them; the SDU under segmentation has SN TX_Next and some, not all, of it was sent;
- `DataInv`: a data PDU in flight is of the window and carries its SDU, or it is so old that
  seen from TX_Next_Ack it lies a window beyond `Sent`, where the receiver ignores it. This is
  where the lifetime of PDUs enters;
- `SduInv`, `UpperInv`: SDUs keep their order in queue and window; an SDU of the window has been
  delivered (once) exactly if the receiver has all of it; what is confirmed was delivered;
- `RetxInv`: a retransmission lies inside what was sent of an SDU of the window;
- `RxInv`: RX_Next, RX_Highest_Status and RX_Next_Highest lie in this order, seen from the
  transmitter, up to `Sent`; what the receiver holds are bytes that were sent of the right SDU;
  t-Reassembly runs for an SN behind one that is there;
- `StatInv`: what a report says that is not outdated: its ACK_SN is not beyond what was sent,
  everything below it that it does not name is complete, and its NACKs name bytes that were
  sent; `CachedInv`: the cached report is always the one a refresh would give now;
- `RxNotAhead`: RX_Next never passes the SN under segmentation. The proof could not do without
  it: an ACK that removed the SDU being segmented would leave `sn_under_segmentation` behind.

The steps that extend the window or the RX state are arithmetic modulo the SN space: `Rebase`
and `AddBase` say how the distance of two SNs changes when the point of view does.
`handle_status_pdu` is the hard one. It moves TX_Next_Ack by some m (`AckPoint`), of which one
shows that RX_Next has got as far; all distances then shrink by m (`Shifted`), what falls out
of the window is more than a window beyond `Sent`, and each part of the invariant is carried
over in a lemma of its own. The retransmission queue is rebuilt from the NACKs in the order of
their SNs and starts; that every entry lies in an SDU of the new window (`RebuiltIs`) needs
`InOrder` only, no induction. The model writes the sorting of NACKs, the new window entry and
the received bytes as functions (`NackPlace`, `AddSn`, `Segment`) for this proof.

The only assumptions are the named ones on the constants (`RlcAmPduAssumption`,
`RlcAmTxAssumption`, `RlcAmRxAssumption`, `RlcAmStatusPduAssumption`, `RlcSduQueueAssumption`,
`RlcAmStatusExchangeAssumption`, `TimerManagerAssumption`, `PdcpBaseAssumption`,
`PdcpTxAssumption`, `PdcpRxAssumption`), which TLC evaluates in the runs.

Only model-checked: all liveness (`EventuallyResolved`, `MacLearnsOfRequest`, `RequestIsAnswered`,
`HeldIsDelivered`, `RoutineCompletes`, `ResetReturnsTimer`), including the
fairness of `TimerService` in its refinement, which is out of the prover's reach; and the three
runs that refute a claim.

## 6. Not modelled

Most of the repository's lines cannot carry a property of this kind: ASN.1 codecs are
generated, PHY, fronthaul and radio are signal processing and device access, Open5GS and the
RIC are configuration here. Of the parts that are modelled, the following is left out: bit
layouts of PDUs, logging, metrics and PCAP; `stop()` of the RLC entities; allocation failures;
malformed input; memory orders weaker than sequential consistency; the number of bytes in
buffer-state reports; SRBs, header compression and the status reports PDCP sends; a signal
that interrupts the signal handler of an xApp. The metrics consumer is a loop around a Kafka
client whose automatic commits decide what is lost. RLC UM, MAC and HARQ, the managers, the
application protocols and the E2 agent are not modelled yet.

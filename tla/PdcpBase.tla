------------------------------ MODULE PdcpBase ------------------------------
(***************************************************************************)
(* What both halves of a PDCP entity use: COUNT arithmetic                 *)
(* (pdcp_entity_tx_rx_base.h) and the crypto tokens by which the           *)
(* bearer context modification routine learns that no SDU or PDU is with   *)
(* a crypto worker (pdcp_crypto_token.h).  An entity is a record s with    *)
(* the fields tokens and pending_crypto among others.                      *)
(***************************************************************************)
EXTENDS Integers, Sequences, FiniteSets, OrderedSets

CONSTANTS
  SnCardinality,       \* 2^12 or 2^18
  CountModulus         \* 2^32

ASSUME PdcpBaseAssumption ==
  /\ SnCardinality \in Nat /\ SnCardinality > 3 /\ SnCardinality % 2 = 0
  /\ CountModulus \in Nat \ {0} /\ CountModulus % SnCardinality = 0

WindowSize == SnCardinality \div 2

HFN(count) == count \div SnCardinality
SN(count) == count % SnCardinality
COUNT(hfn, sn) == (hfn * SnCardinality + sn) % CountModulus

\* Mutant: the upper half of the SN space starts one later.
CountEstimationLate(low, sn) ==
  LET hfn == CASE sn < SN(low) - WindowSize  -> HFN(low) + 1
               [] sn > SN(low) + WindowSize  -> HFN(low) - 1
               [] OTHER                      -> HFN(low)
  IN COUNT(hfn, sn)

\* The COUNT of an SN near low, which is RX_DELIV or TX_NEXT_ACK.
CountEstimation(low, sn) ==
  LET hfn == CASE sn < SN(low) - WindowSize  -> HFN(low) + 1
               [] sn >= SN(low) + WindowSize -> HFN(low) - 1
               [] OTHER                      -> HFN(low)
  IN COUNT(hfn, sn)

CountsFrom(first, end) == [i \in 1 .. (end - first) |-> first + i - 1]

(***************************************************************************)
(* Crypto tokens.  tokens = -1 stands for UINT32_MAX: the manager itself   *)
(* holds one token until it is stopped.                                    *)
(***************************************************************************)
IncrementToken(s) == [s EXCEPT !.tokens = @ + 1]

\* Mutant: the event is set by the last task but one.
ReturnTokenEarly(s) == [s EXCEPT !.tokens = @ - 1, !.pending_crypto = @ \/ s.tokens <= 1]

ReturnToken(s) == [s EXCEPT !.tokens = @ - 1, !.pending_crypto = @ \/ s.tokens = 0]

StartTokens(s) == IncrementToken([s EXCEPT !.pending_crypto = FALSE])

\* begin_buffering and notify_pdu_processing_stopped, before the routine awaits.
Await(s) == ReturnToken([s EXCEPT !.buffering = TRUE])
=============================================================================

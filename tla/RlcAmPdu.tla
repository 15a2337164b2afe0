------------------------------ MODULE RlcAmPdu ------------------------------
(***************************************************************************)
(* What the two halves of an RLC AM bearer share: the configuration, the   *)
(* sequence-number arithmetic, the PDUs and the two channels of the lower  *)
(* layer (lib/rlc/rlc_am_pdu.h, include/ocudu/rlc/rlc_config.h).           *)
(*                                                                         *)
(* Data is abstracted to what the protocol tells apart.  An SDU is a       *)
(* number, in order of submission, all SDUs have SduLen bytes, and a byte  *)
(* is an offset 0 .. SduLen - 1.  The SI field of a data PDU is what so    *)
(* and len say: full_sdu, first, middle or last segment.  NACKs of a       *)
(* status report form a set of byte ranges of single SNs: push_nack merges *)
(* neighbours into ranges of SNs and handle_status_pdu expands them again. *)
(***************************************************************************)
EXTENDS Integers, FiniteSets, FiniteSetsExt, Sequences, SequencesExt, TLC

CONSTANTS
  SnModulus,      \* 2^sn_field_length ("mod" in both entities)
  AmWindowSize,   \* window_size(sn_field_length)
  SduLen,         \* bytes of an SDU
  HeadMin,        \* head_min_size: header without SO field
  HeadMax,        \* head_max_size: header with SO field
  Grants,         \* grant sizes the MAC offers to pull_pdu
  MaxSdus,        \* bound: SDUs the upper layer submits
  ChanCap         \* bound: PDUs in flight in each direction

ASSUME RlcAmPduAssumption ==
  /\ AmWindowSize \in Nat \ {0, 1} /\ SnModulus = 2 * AmWindowSize
  /\ SduLen \in Nat \ {0} /\ HeadMin \in Nat \ {0} /\ HeadMax \in Nat
  /\ HeadMin < HeadMax /\ Grants \subseteq Nat
  /\ MaxSdus \in Nat /\ ChanCap \in Nat \ {0}

VARIABLES
  data,           \* data PDUs in flight: the lower layer may lose, repeat and
                  \* reorder them
  stat            \* status PDUs in flight in the other direction

channels == <<data, stat>>

Sn == 0 .. SnModulus - 1
NoSn == -1                               \* INVALID_RLC_SN
EndOfSdu == 65535                        \* rlc_am_status_nack::so_end_of_sdu
Sdu == 1 .. MaxSdus
Bytes == 0 .. SduLen - 1

\* Distance from base to sn, modulo 2^sn_field_length (tx_mod_base, rx_mod_base).
ModBase(sn, base) == (sn - base) % SnModulus

\* Mutant: SNs that do not wrap around.
SnAddNoWrap(sn, n) == sn + n

SnAdd(sn, n) == (sn + n) % SnModulus

DataPdu == [sn : Sn, so : Bytes, len : 1 .. SduLen, p : BOOLEAN, sdu : Sdu]

\* has_so = FALSE names the whole SDU.
Nack == [sn : Sn, has_so : BOOLEAN, so_start : 0 .. SduLen,
         so_end : 0 .. SduLen \cup {EndOfSdu}]
StatusPdu == [ack_sn : Sn, nacks : SUBSET Nack]

ChannelTypeOK ==
  /\ data \subseteq DataPdu
  /\ \A s \in stat : s.ack_sn \in Sn /\ s.nacks \subseteq Nack

InitChannels == data = {} /\ stat = {}

(***************************************************************************)
(* The lower layer (MAC and HARQ, external).  A PDU may be lost, may       *)
(* arrive in any order and may arrive twice.  It does not outlive half of  *)
(* the SN space: no data PDU is in flight that AmWindowSize SDUs or more   *)
(* have overtaken, and no status report whose ack_sn TX_Next_Ack has left  *)
(* AmWindowSize or more behind.  This is the assumption under which the    *)
(* windows of 3GPP TS 38.322 work at all.                                  *)
(***************************************************************************)
LoseData == /\ \E pdu \in data : data' = data \ {pdu}
            /\ UNCHANGED stat

LoseStatus == /\ \E s \in stat : stat' = stat \ {s}
              /\ UNCHANGED data

\* Data PDUs that are still in flight once SN newest has been assigned.
YoungData(newest) ==
  {pdu \in data : ModBase(newest, pdu.sn) < AmWindowSize}

\* Status reports still in flight once TX_Next_Ack moved from old to new.
YoungStatus(reports, old, new) ==
  {s \in reports :
     LET behind == ModBase(old, s.ack_sn)
     IN  \/ behind >= AmWindowSize       \* ack_sn is ahead of old
         \/ behind + ModBase(new, old) < AmWindowSize}

\* A PDU taken from a channel is gone or, duplicated by HARQ, still there.
Take(channel, msg) == {channel, channel \ {msg}}
=============================================================================

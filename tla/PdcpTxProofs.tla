---------------------------- MODULE PdcpTxProofs ----------------------------
(***************************************************************************)
(* The transmitting PDCP entity for every SN length, COUNT limit, buffer   *)
(* size and number of SDUs, keys and faults: no COUNT protects two SDUs    *)
(* under one key, PDUs go to RLC in order, the timers guard what waits,    *)
(* and keys and state change only when no SDU is with a worker.  All this  *)
(* if the SN status of a handover comes before the first SDU (TimelySpec); *)
(* TLC shows that it fails otherwise.                                      *)
(***************************************************************************)
EXTENDS PdcpTx, OrderedSetsProofs

\* A COUNT is never negative, whatever HFN was guessed.
LEMMA CountIsNat ==
  ASSUME NEW low \in Nat, NEW c \in Nat
  PROVE  CountEstimation(low, SN(c)) \in Nat
  <1> DEFINE sn == SN(c)
             C == SnCardinality
  <1>1. C \in Nat \ {0} /\ CountModulus \in Nat \ {0}
    BY PdcpBaseAssumption
  <1>2. sn \in Nat /\ SN(low) \in Nat /\ HFN(low) \in Nat
    BY <1>1, DivMod DEF SN, HFN
  <1>3. ASSUME NEW h \in Int
        PROVE  COUNT(h, sn) \in Nat
    <2>1. h * C \in Int
      BY <1>1, <1>3
    <2>2. PICK x \in Int : x = h * C + sn
      BY <1>2, <2>1
    <2>3. x % CountModulus \in Nat
      BY <1>1
    <2> QED
      BY <2>2, <2>3 DEF COUNT
  <1> QED
    BY <1>1, <1>2, <1>3 DEF WindowSize, CountEstimation

-----------------------------------------------------------------------------
(* The inductive invariant.                                                *)

Fields ==
  {"tx_next", "tx_trans", "tx_next_ack", "tx_trans_crypto", "tx_reord_crypto", "tx_window",
   "retransmit_id", "key", "discard_timer", "overdue", "crypto_reordering_timer", "tokens",
   "pending_crypto", "buffering", "sdu_buffer", "suspended", "resume_requested", "stopped",
   "desired_buffer_size", "crypto", "lower", "failed"}

Pdus == [key : Nat, retx_id : Nat, sdu : Nat]
Records == [sdu : Nat, pdu : Pdus, left : Int]
Entries == {r \in Records : r.pdu = NoPdu \/ r.pdu.sdu = r.sdu}
Tasks == [count : Nat, sdu : Nat, retx_id : Nat]
Results == [count : Nat, retx_id : Nat, sdu : Nat, key : Nat]
Submitted == [count : Nat, key : Nat, sdu : Nat, made : Nat, retx_id : Nat]

EntityType(s) ==
  /\ DOMAIN s = Fields
  /\ s.tx_next \in Nat /\ s.tx_trans \in Nat /\ s.tx_next_ack \in Nat
  /\ s.tx_trans_crypto \in Nat /\ s.tx_reord_crypto \in Nat
  /\ \A c \in DOMAIN s.tx_window : s.tx_window[c] \in Entries
  /\ s.retransmit_id \in Nat /\ s.key \in Nat /\ s.tokens \in Int
  /\ s.discard_timer \in Nat \cup {Off} /\ s.desired_buffer_size \in Nat
  /\ s.overdue \in BOOLEAN /\ s.crypto_reordering_timer \in BOOLEAN
  /\ s.pending_crypto \in BOOLEAN /\ s.buffering \in BOOLEAN /\ s.suspended \in BOOLEAN
  /\ s.resume_requested \in BOOLEAN /\ s.stopped \in BOOLEAN /\ s.failed \in BOOLEAN
  /\ s.sdu_buffer \in Seq(Nat) /\ s.lower \in Seq(Submitted)
  /\ s.crypto \in SUBSET Tasks /\ IsFiniteSet(s.crypto)

\* The order of the state variables, and the window between the first and the last.
WindowInv(s) ==
  /\ s.tx_next_ack <= s.tx_trans /\ s.tx_trans <= s.tx_next /\ s.tx_next <= MaxCount
  /\ s.tx_trans_crypto <= s.tx_next /\ s.tx_reord_crypto <= s.tx_next
  /\ DOMAIN s.tx_window \subseteq s.tx_next_ack .. (s.tx_next - 1)
  /\ s.stopped => DOMAIN s.tx_window = {}

\* What has been ciphered, and when.
PduInv(s) ==
  /\ s.key >= 1
  /\ \A c \in DOMAIN s.tx_window :
       /\ s.tx_window[c].pdu.key <= s.key
       /\ s.tx_window[c].pdu.retx_id <= s.retransmit_id
       /\ s.tx_window[c].pdu.key = 0 => s.tx_window[c].pdu = NoPdu
  /\ \A i \in DOMAIN s.lower :
       /\ s.lower[i].key \in 1 .. s.key
       /\ s.lower[i].retx_id <= s.retransmit_id

\* No COUNT is given out under a key that has protected it.
KeyLow(s) ==
  \A i \in DOMAIN s.lower :
    s.lower[i].key = s.key =>
      /\ s.lower[i].count < s.tx_next
      /\ s.lower[i].retx_id = s.retransmit_id => s.lower[i].count < s.tx_trans_crypto

\* An entity that has started its COUNTs again gives none out before it has a new key.
Parked(s) == s.buffering /\ s.tx_next = 0 /\ DOMAIN s.tx_window = {}

\* What is ready in the window, or may get ready, repeats no COUNT that RLC has got
\* under the same key for another SDU or since the last retransmission.
ReadyInv(s) ==
  \A i \in DOMAIN s.lower, c \in DOMAIN s.tx_window :
    LET key == s.tx_window[c].pdu.key
    IN /\ s.lower[i].count = c /\ s.lower[i].key \in {s.key, key}
            => s.lower[i].sdu = s.tx_window[c].sdu
       /\ c >= s.tx_trans_crypto /\ s.lower[i].retx_id = s.retransmit_id /\ s.lower[i].key = key
            => s.lower[i].count < s.tx_trans_crypto

KeyOnce(s) ==
  \A i, j \in DOMAIN s.lower :
    s.lower[i].key = s.lower[j].key /\ s.lower[i].count = s.lower[j].count
      => s.lower[i].sdu = s.lower[j].sdu

InOrderInv(s) ==
  \A i, j \in DOMAIN s.lower :
    i < j /\ s.lower[i].retx_id = s.lower[j].retx_id /\ s.lower[i].key = s.lower[j].key
      => s.lower[i].count < s.lower[j].count

\* What RLC has got, and what it may get.
LowerInv(s) ==
  /\ PduInv(s) /\ (Parked(s) \/ KeyLow(s)) /\ ReadyInv(s) /\ KeyOnce(s) /\ InOrderInv(s)

\* The crypto reordering timer runs while a PDU waits.
TimerInv(s) ==
  /\ s.crypto_reordering_timer =>
       s.tx_trans_crypto <= s.tx_reord_crypto \/ s.tx_reord_crypto < s.tx_next_ack
  /\ \A c \in DOMAIN s.tx_window :
       Ready(s, c) /\ c >= s.tx_trans_crypto /\ s.tx_window[c].pdu.retx_id = s.retransmit_id
         => s.crypto_reordering_timer

\* The discard timer runs for the oldest SDU, which is at TX_NEXT_ACK.
DiscardInv(s) ==
  cfg.discard_timer # 0 /\ ~s.stopped =>
    /\ DOMAIN s.tx_window = {} => s.tx_next_ack = s.tx_next
    /\ DOMAIN s.tx_window # {} => s.tx_next_ack \in DOMAIN s.tx_window /\ s.discard_timer # Off
    /\ \A c \in DOMAIN s.tx_window :
         /\ s.tx_window[c].left <= cfg.discard_timer
         /\ s.overdue \/ s.discard_timer <= s.tx_window[c].left + 1
    /\ \A c, d \in DOMAIN s.tx_window : c <= d => s.tx_window[c].left <= s.tx_window[d].left
    /\ s.overdue \/ s.discard_timer <= cfg.discard_timer + 1

\* No SDU is with a worker or on its way back.
Drained == e.crypto = {} /\ queue = <<>>

\* What the manager itself holds while no routine waits.
OwnToken == IF routine = Idle THEN 0 ELSE 1

\* A token for every SDU under way; the event is set by the last one.
TokenInv ==
  /\ e.tokens + OwnToken = Cardinality(e.crypto) + Len(queue)
  /\ routine = Idle => ~e.pending_crypto
  /\ routine # Idle => (e.pending_crypto <=> Drained)

\* A task, or its result, is about the SDU that has its COUNT.
Matches(s, x) ==
  x.count < s.tx_next /\ (Has(s, x.count) => x.sdu = s.tx_window[x.count].sdu)

\* Tasks have COUNTs that are given out, and are ciphered with the present key.
TaskInv ==
  /\ \A task \in e.crypto : Matches(e, task)
  /\ \A i \in DOMAIN queue : queue[i].key \in {0, e.key} /\ Matches(e, queue[i])

\* The routine, the bearer and the flags of the entity agree.
ControlInv ==
  /\ e.stopped <=> routine.step = "release"
  /\ routine.step \in {"suspend", "rekey"} => e.buffering /\ bearer = "active"
  /\ routine.step = "rekey" => e.key < MaxKeys
  /\ 1 <= e.key /\ e.key <= MaxKeys
  /\ bearer = "active" => ~e.suspended
  /\ bearer = "suspended" => e.suspended /\ e.buffering

\* SDUs are those the upper layer has sent.
SduInv ==
  /\ sdus <= MaxSdus[cfg.rlc_mode]
  /\ \A i \in DOMAIN e.sdu_buffer : e.sdu_buffer[i] \in 1 .. sdus
  /\ \A c \in DOMAIN e.tx_window : e.tx_window[c].sdu \in 1 .. sdus
  /\ \A task \in e.crypto : task.sdu \in 1 .. sdus

Types ==
  /\ cfg \in [rlc_mode : Modes, discard_timer : DiscardTimers]
  /\ EntityType(e) /\ queue \in Seq(Results)
  /\ DOMAIN notified = {"trans", "deliv", "old"}
  /\ notified.trans \in 0 .. Len(e.lower) /\ notified.deliv \in Nat /\ notified.old \in Nat
  /\ routine \in [step : {"idle", "suspend", "release"}] \cup [step : {"rekey"}, reest : BOOLEAN]
  /\ bearer \in {"active", "handover", "suspended", "released"} /\ sdus \in Nat /\ faults \in Nat

IInv ==
  /\ Types /\ WindowInv(e) /\ TaskInv /\ TokenInv /\ ControlInv /\ SduInv
  /\ KeyOnce(e) /\ InOrderInv(e)
  /\ ~e.failed => LowerInv(e) /\ TimerInv(e) /\ DiscardInv(e)

\* A bearer that awaits the SN status of a handover has seen no SDU yet: this is where
\* TimelySpec comes in.
HandoverInv ==
  bearer = "handover" =>
    /\ queue = <<>> /\ e.crypto = {} /\ Len(e.lower) = 0
    /\ DOMAIN e.tx_window = {} /\ e.sdu_buffer = <<>> /\ e.discard_timer = Off
    /\ ~e.crypto_reordering_timer /\ ~e.suspended

TimelyNext == TimelySdu \/ OtherStep

-----------------------------------------------------------------------------
(* PDUs on the way to RLC.                                                 *)

\* What the data path leaves alone.
SameControl(s, t) ==
  /\ DOMAIN t = Fields
  /\ t.key = s.key /\ t.tokens = s.tokens /\ t.pending_crypto = s.pending_crypto
  /\ t.buffering = s.buffering /\ t.sdu_buffer = s.sdu_buffer /\ t.suspended = s.suspended
  /\ t.resume_requested = s.resume_requested /\ t.stopped = s.stopped
  /\ t.desired_buffer_size = s.desired_buffer_size /\ t.crypto = s.crypto
  /\ t.retransmit_id = s.retransmit_id

\* What the path to RLC leaves alone besides.
SameCounts(s, t) ==
  /\ t.tx_next = s.tx_next /\ t.tx_trans = s.tx_trans /\ t.tx_next_ack = s.tx_next_ack
  /\ t.discard_timer = s.discard_timer /\ t.overdue = s.overdue

\* From s to t, RLC has got PDUs that were ready, with COUNTs from low to high - 1 in
\* ascending order; they are no longer ready.
Sends(s, t, low, high) ==
  LET new == (Len(s.lower) + 1) .. Len(t.lower)
  IN /\ Len(s.lower) <= Len(t.lower)
     /\ \A i \in DOMAIN s.lower : t.lower[i] = s.lower[i]
     /\ \A i \in new :
          LET c == t.lower[i].count
          IN /\ c \in DOMAIN s.tx_window /\ Ready(s, c) /\ low <= c /\ c < high
             /\ t.lower[i].key = s.tx_window[c].pdu.key /\ t.lower[i].sdu = s.tx_window[c].sdu
             /\ t.lower[i].retx_id = s.retransmit_id
     /\ \A i, j \in new : i < j => t.lower[i].count < t.lower[j].count
     /\ DOMAIN t.tx_window = DOMAIN s.tx_window
     /\ \A c \in DOMAIN s.tx_window :
          /\ t.tx_window[c].sdu = s.tx_window[c].sdu /\ t.tx_window[c].left = s.tx_window[c].left
          /\ t.tx_window[c].pdu \in {s.tx_window[c].pdu, NoPdu}

\* write_data_pdu_to_lower_layers.
LEMMA WriteFields ==
  ASSUME NEW s, EntityType(s), NEW counts \in Seq(Nat), NEW low \in Nat, NEW high \in Nat,
         \A i \in DOMAIN counts : Ready(s, counts[i]) /\ low <= counts[i] /\ counts[i] < high,
         \A i, j \in DOMAIN counts : i < j => counts[i] < counts[j]
  PROVE  LET t == Write(s, counts)
         IN /\ EntityType(t) /\ SameControl(s, t) /\ SameCounts(s, t) /\ Sends(s, t, low, high)
            /\ t.tx_trans_crypto = s.tx_trans_crypto /\ t.tx_reord_crypto = s.tx_reord_crypto
            /\ t.crypto_reordering_timer = s.crypto_reordering_timer /\ t.failed = s.failed
  <1> DEFINE w == s.tx_window
             Pdu(c) == [count |-> c, key |-> w[c].pdu.key, sdu |-> w[c].pdu.sdu,
                        made |-> w[c].pdu.retx_id, retx_id |-> s.retransmit_id]
             new == [i \in DOMAIN counts |-> Pdu(counts[i])]
             window == [c \in DOMAIN w |->
                          IF c \in Range(counts) THEN [w[c] EXCEPT !.pdu = NoPdu] ELSE w[c]]
             t == Write(s, counts)
  <1>1. DOMAIN s = Fields /\ s.lower \in Seq(Submitted) /\ s.retransmit_id \in Nat
    BY DEF EntityType
  <1>2. t = [s EXCEPT !.lower = s.lower \o new, !.tx_window = window]
    BY <1>1 DEF Write, Fields
  <1> HIDE DEF t
  <1>3. /\ SameControl(s, t) /\ SameCounts(s, t) /\ t.lower = s.lower \o new /\ t.tx_window = window
        /\ t.tx_trans_crypto = s.tx_trans_crypto /\ t.tx_reord_crypto = s.tx_reord_crypto
        /\ t.crypto_reordering_timer = s.crypto_reordering_timer /\ t.failed = s.failed
    BY <1>1, <1>2 DEF SameControl, SameCounts, Fields
  <1>4. \A c \in DOMAIN w : w[c] \in Entries
    BY DEF EntityType
  <1>5. \A i \in DOMAIN counts :
          /\ counts[i] \in DOMAIN w /\ counts[i] \in Nat /\ Pdu(counts[i]) \in Submitted
          /\ w[counts[i]].pdu.sdu = w[counts[i]].sdu
    <2> SUFFICES ASSUME NEW i \in DOMAIN counts
                 PROVE  /\ counts[i] \in DOMAIN w /\ counts[i] \in Nat
                        /\ Pdu(counts[i]) \in Submitted
                        /\ w[counts[i]].pdu.sdu = w[counts[i]].sdu
      OBVIOUS
    <2>1. counts[i] \in DOMAIN w /\ counts[i] \in Nat /\ w[counts[i]].pdu # NoPdu
      BY DEF Ready, Has
    <2>2. w[counts[i]] \in Entries
      BY <1>4, <2>1
    <2> QED
      BY <1>1, <2>1, <2>2 DEF Entries, Records, Pdus, Submitted
  <1>6. new \in Seq(Submitted) /\ Len(new) = Len(counts)
    <2>1. DOMAIN counts = 1 .. Len(counts) /\ Len(counts) \in Nat
      OBVIOUS
    <2>2. new = [i \in 1 .. Len(counts) |-> Pdu(counts[i])]
      BY <2>1
    <2> QED
      BY <1>5, <2>1, <2>2
  <1>7. /\ t.lower \in Seq(Submitted) /\ Len(t.lower) = Len(s.lower) + Len(counts)
        /\ \A i \in DOMAIN s.lower : t.lower[i] = s.lower[i]
        /\ \A i \in (Len(s.lower) + 1) .. Len(t.lower) :
              i - Len(s.lower) \in DOMAIN counts /\ t.lower[i] = Pdu(counts[i - Len(s.lower)])
    <2> DEFINE all == s.lower \o new
    <2> HIDE DEF Pdu
    <2>1. \A i \in DOMAIN counts : new[i] = Pdu(counts[i])
      OBVIOUS
    <2> HIDE DEF new
    <2>2. /\ all \in Seq(Submitted) /\ Len(all) = Len(s.lower) + Len(new)
          /\ \A i \in 1 .. Len(s.lower) + Len(new) :
               all[i] = IF i <= Len(s.lower) THEN s.lower[i] ELSE new[i - Len(s.lower)]
      BY <1>1, <1>6, ConcatProperties
    <2>3. /\ Len(s.lower) \in Nat /\ DOMAIN s.lower = 1 .. Len(s.lower)
          /\ Len(counts) \in Nat /\ DOMAIN counts = 1 .. Len(counts)
      BY <1>1
    <2>4. t.lower = all
      BY <1>3
    <2> HIDE DEF all
    <2>5. \A i \in DOMAIN s.lower : t.lower[i] = s.lower[i]
      BY <1>6, <2>2, <2>3, <2>4
    <2>6. \A i \in (Len(s.lower) + 1) .. Len(t.lower) :
              i - Len(s.lower) \in DOMAIN counts /\ t.lower[i] = new[i - Len(s.lower)]
      BY <1>6, <2>2, <2>3, <2>4
    <2> QED
      BY <1>6, <2>2, <2>4, <2>1, <2>5, <2>6
  <1>8. /\ DOMAIN t.tx_window = DOMAIN w
        /\ \A c \in DOMAIN w :
             /\ t.tx_window[c] \in Entries
             /\ t.tx_window[c].sdu = w[c].sdu /\ t.tx_window[c].left = w[c].left
             /\ t.tx_window[c].pdu \in {w[c].pdu, NoPdu}
    <2> DEFINE Blank(r) == [r EXCEPT !.pdu = NoPdu]
    <2>1. NoPdu \in Pdus
      BY DEF NoPdu, Pdus
    <2>2. \A r \in Entries : /\ Blank(r) \in Entries /\ Blank(r).sdu = r.sdu
                            /\ Blank(r).left = r.left /\ Blank(r).pdu = NoPdu
      BY <2>1 DEF Entries, Records
    <2>3. DOMAIN window = DOMAIN w /\ \A c \in DOMAIN w : window[c] \in {Blank(w[c]), w[c]}
      OBVIOUS
    <2>4. t.tx_window = window
      BY <1>3
    <2> HIDE DEF window, Blank
    <2> QED
      BY <1>4, <2>2, <2>3, <2>4
  <1>9. EntityType(t)
    BY <1>3, <1>7, <1>8 DEF EntityType, SameControl, SameCounts
  <1>10. Sends(s, t, low, high)
    <2> DEFINE n == Len(s.lower)
               last == (n + 1) .. Len(t.lower)
    <2>1. n \in Nat /\ Len(counts) \in Nat
      BY <1>1
    <2>2. Len(s.lower) <= Len(t.lower)
      BY <1>7, <2>1
    <2>3. ASSUME NEW i \in last
          PROVE  LET c == t.lower[i].count
                 IN /\ c \in DOMAIN s.tx_window /\ Ready(s, c) /\ low <= c /\ c < high
                    /\ t.lower[i].key = w[c].pdu.key /\ t.lower[i].sdu = w[c].sdu
                    /\ t.lower[i].retx_id = s.retransmit_id
      <3>1. i - n \in DOMAIN counts /\ t.lower[i] = Pdu(counts[i - n])
        BY <1>7
      <3> DEFINE k == counts[i - n]
      <3>2. /\ t.lower[i].count = k /\ t.lower[i].key = w[k].pdu.key
            /\ t.lower[i].sdu = w[k].pdu.sdu /\ t.lower[i].retx_id = s.retransmit_id
        BY <3>1
      <3>3. /\ k \in DOMAIN w /\ Ready(s, k) /\ low <= k /\ k < high
            /\ w[k].pdu.sdu = w[k].sdu
        BY <1>5, <3>1
      <3> HIDE DEF k, Pdu
      <3> QED
        BY <3>2, <3>3
    <2>4. ASSUME NEW i \in last, NEW j \in last, i < j
          PROVE  t.lower[i].count < t.lower[j].count
      <3>1. /\ i - n \in DOMAIN counts /\ t.lower[i].count = counts[i - n]
            /\ j - n \in DOMAIN counts /\ t.lower[j].count = counts[j - n]
        <4>1. /\ i - n \in DOMAIN counts /\ t.lower[i] = Pdu(counts[i - n])
              /\ j - n \in DOMAIN counts /\ t.lower[j] = Pdu(counts[j - n])
          BY <1>7
        <4> QED
          BY <4>1
      <3>2. i - n < j - n
        BY <2>1, <2>4
      <3> QED
        BY <3>1, <3>2
    <2> HIDE DEF window
    <2> QED
      BY <1>7, <1>8, <2>2, <2>3, <2>4 DEF Sends
  <1> QED
    BY <1>3, <1>9, <1>10 DEF t

\* CountsFrom lists an interval in ascending order.
LEMMA CountsFromSorts ==
  ASSUME NEW first \in Nat, NEW end \in Nat, first <= end
  PROVE  LET q == CountsFrom(first, end)
         IN /\ q \in Seq(Nat) /\ Len(q) = end - first
            /\ \A i \in DOMAIN q : q[i] \in first .. (end - 1)
            /\ \A i, j \in DOMAIN q : i < j => q[i] < q[j]
  <1> DEFINE n == end - first
             q == CountsFrom(first, end)
  <1>1. n \in Nat /\ q = [i \in 1 .. n |-> first + i - 1]
    BY DEF CountsFrom
  <1>2. \A i \in 1 .. n : first + i - 1 \in Nat
    OBVIOUS
  <1>3. q \in Seq(Nat) /\ Len(q) = n /\ DOMAIN q = 1 .. n
    BY <1>1, <1>2
  <1>4. \A i \in 1 .. n : q[i] = first + i - 1
    BY <1>1
  <1> HIDE DEF q
  <1>5. \A i \in 1 .. n : q[i] \in first .. (end - 1)
    BY <1>4
  <1>6. \A i, j \in 1 .. n : i < j => q[i] < q[j]
    BY <1>4
  <1> QED
    BY <1>3, <1>5, <1>6 DEF q

\* "Deliver in order PDUs" stops at TX_NEXT or at a PDU that is not ready.
LEMMA DeliverFields ==
  ASSUME NEW s, EntityType(s), WindowInv(s)
  PROVE  LET t == DeliverInOrder(s)
         IN /\ EntityType(t) /\ SameControl(s, t) /\ SameCounts(s, t)
            /\ Sends(s, t, s.tx_trans_crypto, t.tx_trans_crypto)
            /\ s.tx_trans_crypto <= t.tx_trans_crypto /\ t.tx_trans_crypto <= s.tx_next
            /\ t.tx_reord_crypto = s.tx_reord_crypto
            /\ t.crypto_reordering_timer = s.crypto_reordering_timer
            /\ ~t.failed => ~s.failed
            /\ s.tx_trans_crypto < s.tx_next /\ ~Has(s, s.tx_trans_crypto)
                 => t.failed /\ t.lower = s.lower
  <1> DEFINE S == {c \in s.tx_trans_crypto .. s.tx_next : c = s.tx_next \/ ~Ready(s, c)}
             end == Min(S)
             q == CountsFrom(s.tx_trans_crypto, end)
             w == Write(s, q)
             t == DeliverInOrder(s)
  <1>1. /\ DOMAIN s = Fields /\ s.tx_next \in Nat /\ s.tx_trans_crypto \in Nat
        /\ s.tx_trans_crypto <= s.tx_next /\ s.failed \in BOOLEAN /\ s.lower \in Seq(Submitted)
    BY DEF EntityType, WindowInv
  <1>2. S \in SUBSET Nat /\ s.tx_next \in S
    BY <1>1
  <1>3. end \in S /\ \A c \in S : end <= c
    BY <1>2, MinIn
  <1>4. t = [w EXCEPT !.tx_trans_crypto = end, !.failed = @ \/ (end < s.tx_next /\ ~Has(s, end))]
    BY DEF DeliverInOrder
  <1> HIDE DEF end, t
  <1>5. /\ end \in Nat /\ s.tx_trans_crypto <= end /\ end <= s.tx_next
        /\ \A c \in s.tx_trans_crypto .. (end - 1) : Ready(s, c)
    <2>1. end \in Nat /\ s.tx_trans_crypto <= end /\ end <= s.tx_next
      BY <1>1, <1>3
    <2>2. ASSUME NEW c \in s.tx_trans_crypto .. (end - 1)
          PROVE  Ready(s, c)
      <3>1. c \in Nat /\ c \in s.tx_trans_crypto .. s.tx_next /\ ~(end <= c)
        BY <1>1, <2>1
      <3>2. c \notin S
        BY <1>3, <3>1
      <3> QED
        BY <3>1, <3>2
    <2> QED
      BY <2>1, <2>2
  <1>6. s.tx_trans_crypto < s.tx_next /\ ~Has(s, s.tx_trans_crypto) => end = s.tx_trans_crypto
    <2> SUFFICES ASSUME s.tx_trans_crypto < s.tx_next, ~Has(s, s.tx_trans_crypto)
                 PROVE  end = s.tx_trans_crypto
      OBVIOUS
    <2>1. s.tx_trans_crypto \in S
      BY <1>1 DEF Ready
    <2>2. end <= s.tx_trans_crypto
      BY <1>3, <2>1
    <2> QED
      BY <1>1, <1>5, <2>2
  <1> HIDE DEF S
  <1>7. /\ q \in Seq(Nat) /\ Len(q) = end - s.tx_trans_crypto
        /\ \A i \in DOMAIN q : q[i] \in s.tx_trans_crypto .. (end - 1)
        /\ \A i, j \in DOMAIN q : i < j => q[i] < q[j]
    BY <1>1, <1>5, CountsFromSorts
  <1> HIDE DEF q
  <1>8. \A i \in DOMAIN q : Ready(s, q[i]) /\ s.tx_trans_crypto <= q[i] /\ q[i] < end
    BY <1>1, <1>5, <1>7
  <1>9. /\ EntityType(w) /\ SameControl(s, w) /\ SameCounts(s, w)
        /\ Sends(s, w, s.tx_trans_crypto, end)
        /\ w.tx_reord_crypto = s.tx_reord_crypto
        /\ w.crypto_reordering_timer = s.crypto_reordering_timer /\ w.failed = s.failed
    BY <1>1, <1>5, <1>7, <1>8, WriteFields
  <1>10. end = s.tx_trans_crypto => w.lower = s.lower
    <2> SUFFICES ASSUME end = s.tx_trans_crypto
                 PROVE  w.lower = s.lower
      OBVIOUS
    <2>1. Len(w.lower) = Len(s.lower) /\ w.lower \in Seq(Submitted)
          /\ \A i \in DOMAIN s.lower : w.lower[i] = s.lower[i]
      <3>1. w.lower \in Seq(Submitted) /\ \A i \in DOMAIN s.lower : w.lower[i] = s.lower[i]
        BY <1>9 DEF EntityType, Sends
      <3>2. Len(s.lower) \in Nat /\ Len(w.lower) \in Nat /\ Len(s.lower) <= Len(w.lower)
        BY <1>1, <1>9, <3>1 DEF Sends
      <3>3. ~(Len(s.lower) < Len(w.lower))
        <4> SUFFICES ASSUME Len(s.lower) < Len(w.lower)
                     PROVE  FALSE
          OBVIOUS
        <4> DEFINE c == w.lower[Len(w.lower)].count
        <4>1. Len(w.lower) \in (Len(s.lower) + 1) .. Len(w.lower)
          BY <3>2
        <4>2. s.tx_trans_crypto <= c /\ c < s.tx_trans_crypto
          BY <1>9, <4>1 DEF Sends
        <4>3. w.lower[Len(w.lower)] \in Submitted
          BY <3>1, <3>2, <4>1
        <4>4. c \in Nat
          BY <4>3 DEF Submitted
        <4> QED
          BY <1>1, <4>2, <4>4
      <3> QED
        BY <3>1, <3>2, <3>3
    <2> QED
      BY <1>1, <2>1
  <1> HIDE DEF w
  <1>11. /\ SameControl(s, t) /\ SameCounts(s, t) /\ t.tx_trans_crypto = end
         /\ t.tx_reord_crypto = s.tx_reord_crypto
         /\ t.crypto_reordering_timer = s.crypto_reordering_timer
         /\ t.lower = w.lower /\ t.tx_window = w.tx_window
         /\ t.failed = (s.failed \/ (end < s.tx_next /\ ~Has(s, end)))
    BY <1>4, <1>9 DEF SameControl, SameCounts, Fields
  <1>12. t.failed \in BOOLEAN /\ (~t.failed => ~s.failed)
         /\ (end < s.tx_next /\ ~Has(s, end) => t.failed)
    BY <1>1, <1>11
  <1>13. EntityType(t)
    BY <1>5, <1>9, <1>11, <1>12 DEF EntityType, SameControl, SameCounts
  <1>14. Sends(s, t, s.tx_trans_crypto, end)
    BY <1>9, <1>11 DEF Sends
  <1> QED
    BY <1>5, <1>6, <1>10, <1>11, <1>12, <1>13, <1>14 DEF t

\* Ready PDUs of an interval, in ascending order.
LEMMA ReadyFromSorts ==
  ASSUME NEW s, NEW first \in Nat, NEW end \in Nat
  PROVE  LET q == ReadyFrom(s, first, end)
         IN /\ q \in Seq(Nat)
            /\ \A i \in DOMAIN q : Ready(s, q[i]) /\ first <= q[i] /\ q[i] < end
            /\ \A i, j \in DOMAIN q : i < j => q[i] < q[j]
  <1> DEFINE S == {c \in first .. (end - 1) : Ready(s, c)}
             q == ReadyFrom(s, first, end)
  <1>1. S \in SUBSET Nat /\ S \subseteq first .. (end - 1)
    OBVIOUS
  <1>2. IsFiniteSet(S)
    <2>1. IsFiniteSet(first .. (end - 1))
      BY FS_Interval
    <2> QED
      BY <1>1, <2>1, FS_Subset
  <1>3. q = InOrder(S)
    BY DEF ReadyFrom
  <1>4. \A c \in S : Ready(s, c) /\ c \in Nat /\ first <= c /\ c < end
    OBVIOUS
  <1> HIDE DEF S, q
  <1>5. q \in Seq(S) /\ \A i, j \in DOMAIN q : i < j => q[i] < q[j]
    BY <1>1, <1>2, <1>3, InOrderSorts
  <1>6. DOMAIN q = 1 .. Len(q) /\ Len(q) \in Nat /\ \A i \in DOMAIN q : q[i] \in S
    BY <1>5
  <1>7. q \in Seq(Nat)
    <2>1. \A i \in 1 .. Len(q) : q[i] \in Nat
      BY <1>4, <1>6
    <2>2. q = [i \in 1 .. Len(q) |-> q[i]]
      BY <1>5
    <2> QED
      BY <1>6, <2>1, <2>2
  <1> QED
    BY <1>4, <1>5, <1>6, <1>7 DEF q

\* PDUs sent in order from TX_TRANS_CRYPTO on repeat neither a COUNT under a key nor the order.
LEMMA SendsInOrder ==
  ASSUME NEW s, NEW t, NEW high \in Nat, EntityType(s), EntityType(t), SameControl(s, t),
         Sends(s, t, s.tx_trans_crypto, high), LowerInv(s)
  PROVE  KeyOnce(t) /\ InOrderInv(t)
  <1> DEFINE n == Len(s.lower)
             Old(i) == i \in DOMAIN s.lower
             New(i) == i \in (n + 1) .. Len(t.lower)
  <1>1. /\ n \in Nat /\ Len(t.lower) \in Nat /\ DOMAIN s.lower = 1 .. n
        /\ DOMAIN t.lower = 1 .. Len(t.lower) /\ s.tx_trans_crypto \in Nat
        /\ \A i \in DOMAIN t.lower : t.lower[i] \in Submitted
    <2>1. s.lower \in Seq(Submitted) /\ t.lower \in Seq(Submitted) /\ s.tx_trans_crypto \in Nat
      BY DEF EntityType
    <2> QED
      BY <2>1
  <1>2. /\ \A i \in DOMAIN t.lower : Old(i) \/ New(i)
        /\ \A i, j \in DOMAIN t.lower : New(i) /\ Old(j) => j < i
        /\ \A i : Old(i) => i \in Nat
    BY <1>1
  <1>3. \A i : Old(i) => t.lower[i] = s.lower[i]
    BY DEF Sends
  <1>4. ASSUME NEW i, New(i)
        PROVE  LET c == t.lower[i].count
               IN /\ c \in DOMAIN s.tx_window /\ s.tx_trans_crypto <= c /\ c \in Nat
                  /\ t.lower[i].key = s.tx_window[c].pdu.key
                  /\ t.lower[i].sdu = s.tx_window[c].sdu
                  /\ t.lower[i].retx_id = s.retransmit_id
    <2>1. i \in DOMAIN t.lower
      BY <1>1, <1>4
    <2>2. t.lower[i].count \in Nat
      BY <1>1, <2>1 DEF Submitted
    <2> QED
      BY <1>4, <2>2 DEF Sends
  <1>5. \A i, j : New(i) /\ New(j) /\ i < j => t.lower[i].count < t.lower[j].count
    BY DEF Sends
  <1>6. \A i, j : New(i) /\ New(j) => (i < j \/ i = j \/ j < i)
    BY <1>1
  <1>7. \A i \in DOMAIN t.lower : t.lower[i].count \in Nat
    BY <1>1 DEF Submitted
  \* An old PDU with the COUNT and key of a new one was for the same SDU.
  <1>8. ASSUME NEW i, NEW j, Old(i), New(j), t.lower[i].key = t.lower[j].key,
               t.lower[i].count = t.lower[j].count
        PROVE  t.lower[i].sdu = t.lower[j].sdu
    <2> DEFINE c == t.lower[j].count
    <2>1. /\ c \in DOMAIN s.tx_window /\ t.lower[j].key = s.tx_window[c].pdu.key
          /\ t.lower[j].sdu = s.tx_window[c].sdu
      BY <1>4, <1>8
    <2>2. s.lower[i].count = c /\ s.lower[i].key = s.tx_window[c].pdu.key
      BY <1>3, <1>8, <2>1
    <2>3. s.lower[i].sdu = s.tx_window[c].sdu
      BY <1>8, <2>1, <2>2 DEF LowerInv, ReadyInv
    <2> QED
      BY <1>3, <1>8, <2>1, <2>3
  \* An old PDU of the same retransmission and key is below TX_TRANS_CRYPTO.
  <1>9. ASSUME NEW i, NEW j, Old(i), New(j), t.lower[i].key = t.lower[j].key,
               t.lower[i].retx_id = t.lower[j].retx_id
        PROVE  t.lower[i].count < t.lower[j].count
    <2> DEFINE c == t.lower[j].count
    <2>1. /\ c \in DOMAIN s.tx_window /\ t.lower[j].key = s.tx_window[c].pdu.key
          /\ s.tx_trans_crypto <= c /\ c \in Nat /\ t.lower[j].retx_id = s.retransmit_id
      BY <1>4, <1>9
    <2>2. s.lower[i].retx_id = s.retransmit_id /\ s.lower[i].key = s.tx_window[c].pdu.key
      BY <1>3, <1>9, <2>1
    <2>3. s.lower[i].count < s.tx_trans_crypto
      BY <1>1, <1>9, <2>1, <2>2 DEF LowerInv, ReadyInv
    <2>4. s.lower[i].count \in Nat
      <3>1. i \in DOMAIN t.lower
        BY <1>1, <1>9 DEF Sends
      <3> QED
        BY <1>3, <1>7, <1>9, <3>1
    <2>5. t.lower[i].count = s.lower[i].count
      BY <1>3, <1>9
    <2> QED
      BY <1>1, <2>1, <2>3, <2>4, <2>5
  <1>10. KeyOnce(t)
    <2> SUFFICES ASSUME NEW i \in DOMAIN t.lower, NEW j \in DOMAIN t.lower,
                        t.lower[i].key = t.lower[j].key, t.lower[i].count = t.lower[j].count
                 PROVE  t.lower[i].sdu = t.lower[j].sdu
      BY DEF KeyOnce
    <2>1. CASE Old(i) /\ Old(j)
      BY <1>3, <2>1 DEF LowerInv, KeyOnce
    <2>2. CASE Old(i) /\ New(j)
      BY <1>8, <2>2
    <2>3. CASE New(i) /\ Old(j)
      BY <1>8, <2>3
    <2>4. CASE New(i) /\ New(j)
      <3>1. ~(t.lower[i].count < t.lower[j].count) /\ ~(t.lower[j].count < t.lower[i].count)
        BY <1>7
      <3>2. i = j
        BY <1>5, <1>6, <2>4, <3>1
      <3> QED
        BY <3>2
    <2> QED
      BY <1>2, <2>1, <2>2, <2>3, <2>4
  <1>11. InOrderInv(t)
    <2> SUFFICES ASSUME NEW i \in DOMAIN t.lower, NEW j \in DOMAIN t.lower, i < j,
                        t.lower[i].key = t.lower[j].key, t.lower[i].retx_id = t.lower[j].retx_id
                 PROVE  t.lower[i].count < t.lower[j].count
      BY DEF InOrderInv
    <2>1. CASE Old(i) /\ Old(j)
      BY <1>3, <2>1 DEF LowerInv, InOrderInv
    <2>2. CASE Old(i) /\ New(j)
      BY <1>9, <2>2
    <2>3. CASE New(i) /\ Old(j)
      <3>1. j < i
        BY <1>2, <2>3
      <3>2. i \in Int /\ j \in Int
        BY <1>1
      <3> QED
        BY <3>1, <3>2
    <2>4. CASE New(i) /\ New(j)
      BY <1>5, <2>4
    <2> QED
      BY <1>2, <2>1, <2>2, <2>3, <2>4
  <1> QED
    BY <1>10, <1>11

\* Sending up to TX_TRANS_CRYPTO keeps what RLC relies on.
LEMMA SendsKeepsLower ==
  ASSUME NEW s, NEW t, EntityType(s), WindowInv(s), EntityType(t), SameControl(s, t),
         SameCounts(s, t), Sends(s, t, s.tx_trans_crypto, t.tx_trans_crypto), LowerInv(s),
         s.tx_trans_crypto <= t.tx_trans_crypto, t.tx_trans_crypto <= s.tx_next
  PROVE  LowerInv(t)
  <1> DEFINE n == Len(s.lower)
             Old(i) == i \in DOMAIN s.lower
             New(i) == i \in (n + 1) .. Len(t.lower)
             low == s.tx_trans_crypto
             high == t.tx_trans_crypto
  <1>1. /\ n \in Nat /\ Len(t.lower) \in Nat /\ DOMAIN s.lower = 1 .. n
        /\ DOMAIN t.lower = 1 .. Len(t.lower) /\ low \in Nat /\ high \in Nat /\ s.tx_next \in Nat
        /\ \A i \in DOMAIN t.lower : t.lower[i] \in Submitted
        /\ s.key \in Nat /\ s.retransmit_id \in Nat /\ s.tx_next_ack \in Nat
    <2>1. s.lower \in Seq(Submitted) /\ t.lower \in Seq(Submitted)
      BY DEF EntityType
    <2>2. /\ low \in Nat /\ high \in Nat /\ s.tx_next \in Nat /\ s.key \in Nat
          /\ s.retransmit_id \in Nat /\ s.tx_next_ack \in Nat
      BY DEF EntityType
    <2> QED
      BY <2>1, <2>2
  <1>2. KeyOnce(t) /\ InOrderInv(t)
    BY <1>1, SendsInOrder
  <1>3. \A i \in DOMAIN t.lower :
          Old(i) \/ New(i)
    BY <1>1
  <1>4. \A i \in DOMAIN t.lower : t.lower[i].count \in Nat /\ t.lower[i].key \in Nat
    BY <1>1 DEF Submitted
  <1>5. \A i : Old(i) => t.lower[i] = s.lower[i] /\ i \in DOMAIN t.lower
    BY <1>1 DEF Sends
  <1>6. ASSUME NEW i \in DOMAIN t.lower, New(i)
        PROVE  LET c == t.lower[i].count
               IN /\ c \in DOMAIN s.tx_window /\ Ready(s, c) /\ low <= c /\ c < high
                  /\ t.lower[i].key = s.tx_window[c].pdu.key
                  /\ t.lower[i].sdu = s.tx_window[c].sdu
                  /\ t.lower[i].retx_id = s.retransmit_id
    BY <1>6 DEF Sends
  <1>7. /\ t.key = s.key /\ t.retransmit_id = s.retransmit_id /\ t.buffering = s.buffering
        /\ t.tx_next = s.tx_next /\ DOMAIN t.tx_window = DOMAIN s.tx_window
        /\ \A c \in DOMAIN s.tx_window :
             /\ t.tx_window[c].sdu = s.tx_window[c].sdu
             /\ t.tx_window[c].pdu \in {s.tx_window[c].pdu, NoPdu}
    BY DEF SameControl, SameCounts, Sends
  <1>8. NoPdu.key = 0 /\ NoPdu.retx_id = 0
    BY DEF NoPdu
  <1>9. /\ s.key >= 1
        /\ \A c \in DOMAIN s.tx_window :
             /\ s.tx_window[c].pdu.key <= s.key
             /\ s.tx_window[c].pdu.retx_id <= s.retransmit_id
             /\ s.tx_window[c].pdu.key = 0 => s.tx_window[c].pdu = NoPdu
        /\ \A i \in DOMAIN s.lower :
             s.lower[i].key \in 1 .. s.key /\ s.lower[i].retx_id <= s.retransmit_id
    BY DEF LowerInv, PduInv
  <1>10. \A i \in DOMAIN t.lower :
            t.lower[i].key \in 1 .. s.key /\ t.lower[i].retx_id <= s.retransmit_id
    <2> SUFFICES ASSUME NEW i \in DOMAIN t.lower
                 PROVE  t.lower[i].key \in 1 .. s.key /\ t.lower[i].retx_id <= s.retransmit_id
      OBVIOUS
    <2>1. CASE Old(i)
      BY <1>5, <1>9, <2>1
    <2>2. CASE New(i)
      <3>1. PICK c \in DOMAIN s.tx_window : /\ Ready(s, c) /\ t.lower[i].key = s.tx_window[c].pdu.key
                                            /\ t.lower[i].retx_id = s.retransmit_id
        BY <1>6, <2>2
      <3>2. t.lower[i].key <= s.key /\ t.lower[i].key # 0
        BY <1>9, <3>1 DEF Ready
      <3> QED
        BY <1>1, <1>4, <3>1, <3>2
    <2> QED
      BY <1>3, <2>1, <2>2
  <1>11. PduInv(t)
    <2>1. \A c \in DOMAIN t.tx_window :
             /\ t.tx_window[c].pdu.key <= s.key
             /\ t.tx_window[c].pdu.retx_id <= s.retransmit_id
             /\ t.tx_window[c].pdu.key = 0 => t.tx_window[c].pdu = NoPdu
      BY <1>1, <1>7, <1>8, <1>9
    <2> QED
      BY <1>7, <1>9, <1>10, <2>1 DEF PduInv
  <1>12. Parked(t) \/ KeyLow(t)
    <2>1. Parked(s) => Parked(t)
      BY <1>7 DEF Parked
    <2>2. ASSUME KeyLow(s)
          PROVE  KeyLow(t)
      <3> SUFFICES ASSUME NEW i \in DOMAIN t.lower, t.lower[i].key = t.key
                   PROVE  /\ t.lower[i].count < t.tx_next
                          /\ t.lower[i].retx_id = t.retransmit_id
                               => t.lower[i].count < t.tx_trans_crypto
        BY DEF KeyLow
      <3>1. CASE Old(i)
        <4>1. t.lower[i] = s.lower[i] /\ t.lower[i].count \in Nat
          BY <1>4, <1>5, <3>1
        <4>2. /\ s.lower[i].count < s.tx_next
              /\ s.lower[i].retx_id = s.retransmit_id => s.lower[i].count < low
          BY <1>7, <2>2, <3>1, <4>1 DEF KeyLow
        <4>3. s.lower[i].count < low => s.lower[i].count < high
          BY <1>1, <4>1
        <4> QED
          BY <1>7, <4>1, <4>2, <4>3
      <3>2. CASE New(i)
        BY <1>1, <1>4, <1>6, <1>7, <3>2
      <3> QED
        BY <1>3, <3>1, <3>2
    <2> QED
      BY <2>1, <2>2 DEF LowerInv
  <1>13. ReadyInv(t)
    <2> SUFFICES ASSUME NEW i \in DOMAIN t.lower, NEW c \in DOMAIN t.tx_window
                 PROVE  LET key == t.tx_window[c].pdu.key
                        IN /\ t.lower[i].count = c /\ t.lower[i].key \in {t.key, key}
                                => t.lower[i].sdu = t.tx_window[c].sdu
                           /\ (c >= high /\ t.lower[i].retx_id = t.retransmit_id
                               /\ t.lower[i].key = key) => t.lower[i].count < high
      BY DEF ReadyInv
    <2>1. t.lower[i].key # 0 /\ t.lower[i].key \in Nat
      BY <1>1, <1>10
    <2>2. CASE New(i)
      <3>1. t.lower[i].count < high
        BY <1>6, <2>2
      <3>2. t.lower[i].count = c => t.lower[i].sdu = t.tx_window[c].sdu
        BY <1>6, <1>7, <2>2
      <3> QED
        BY <3>1, <3>2
    <2>3. CASE Old(i)
      <3>1. /\ s.lower[i].count = c /\ s.lower[i].key \in {s.key, s.tx_window[c].pdu.key}
                 => s.lower[i].sdu = s.tx_window[c].sdu
            /\ (c >= low /\ s.lower[i].retx_id = s.retransmit_id
                /\ s.lower[i].key = s.tx_window[c].pdu.key) => s.lower[i].count < low
        BY <1>7, <2>3 DEF LowerInv, ReadyInv
      <3>2. t.lower[i] = s.lower[i]
        BY <1>5, <2>3
      <3>3. t.lower[i].key = t.tx_window[c].pdu.key => t.tx_window[c].pdu = s.tx_window[c].pdu
        BY <1>7, <1>8, <2>1
      <3>4. t.lower[i].count = c /\ t.lower[i].key \in {t.key, t.tx_window[c].pdu.key}
              => t.lower[i].sdu = t.tx_window[c].sdu
        BY <1>7, <3>1, <3>2, <3>3
      <3>5. ASSUME c >= high, t.lower[i].retx_id = t.retransmit_id,
                   t.lower[i].key = t.tx_window[c].pdu.key
            PROVE  t.lower[i].count < high
        <4>1. c >= low
          <5>1. c \in Nat
            BY <1>1, <1>7 DEF WindowInv
          <5> QED
            BY <1>1, <3>5, <5>1
        <4>2. t.lower[i].count < low
          BY <1>7, <3>1, <3>2, <3>3, <3>5, <4>1
        <4> QED
          BY <1>1, <1>4, <4>2
      <3> QED
        BY <3>4, <3>5
    <2> QED
      BY <1>3, <2>2, <2>3
  <1> QED
    BY <1>2, <1>11, <1>12, <1>13 DEF LowerInv

\* A PDU ciphered with the present key is put into the window.
Stored(s, c, p) == [s EXCEPT !.tx_window[c].pdu = p]

LEMMA StoreFields ==
  ASSUME NEW s, EntityType(s), WindowInv(s), LowerInv(s), NEW c \in DOMAIN s.tx_window,
         NEW p \in Pdus, p.key = s.key, p.retx_id <= s.retransmit_id,
         p.sdu = s.tx_window[c].sdu
  PROVE  LET t == Stored(s, c, p)
         IN /\ EntityType(t) /\ WindowInv(t) /\ LowerInv(t) /\ SameControl(s, t) /\ SameCounts(s, t)
            /\ t.tx_trans_crypto = s.tx_trans_crypto /\ t.tx_reord_crypto = s.tx_reord_crypto
            /\ t.crypto_reordering_timer = s.crypto_reordering_timer /\ t.failed = s.failed
            /\ t.lower = s.lower /\ DOMAIN t.tx_window = DOMAIN s.tx_window
            /\ \A d \in DOMAIN s.tx_window :
                 t.tx_window[d].sdu = s.tx_window[d].sdu /\ t.tx_window[d].left = s.tx_window[d].left
  <1> DEFINE w == s.tx_window
             entry == [w[c] EXCEPT !.pdu = p]
             t == Stored(s, c, p)
  <1>1. DOMAIN s = Fields
    BY DEF EntityType
  <1>2. t = [s EXCEPT !.tx_window = [w EXCEPT ![c] = entry]]
    BY <1>1 DEF Stored, Fields
  <1>3. \A d \in DOMAIN w : w[d] \in Entries
    BY DEF EntityType
  <1>4. entry \in Entries /\ entry.sdu = w[c].sdu /\ entry.left = w[c].left /\ entry.pdu = p
    <2>1. w[c] \in Entries
      BY <1>3
    <2> QED
      BY <2>1 DEF Entries, Records
  <1> HIDE DEF t, entry
  <1>5. /\ SameControl(s, t) /\ SameCounts(s, t) /\ t.tx_window = [w EXCEPT ![c] = entry]
        /\ t.tx_trans_crypto = s.tx_trans_crypto /\ t.tx_reord_crypto = s.tx_reord_crypto
        /\ t.crypto_reordering_timer = s.crypto_reordering_timer /\ t.failed = s.failed
        /\ t.lower = s.lower
    BY <1>1, <1>2 DEF SameControl, SameCounts, Fields
  <1>6. /\ DOMAIN t.tx_window = DOMAIN w /\ t.tx_window[c] = entry
        /\ \A d \in DOMAIN w : d # c => t.tx_window[d] = w[d]
    BY <1>5
  <1>7. \A d \in DOMAIN w :
          /\ t.tx_window[d] \in Entries
          /\ t.tx_window[d].sdu = w[d].sdu /\ t.tx_window[d].left = w[d].left
    BY <1>3, <1>4, <1>6
  <1>8. EntityType(t)
    BY <1>5, <1>6, <1>7 DEF EntityType, SameControl, SameCounts
  <1>9. WindowInv(t)
    BY <1>5, <1>6 DEF WindowInv, SameControl, SameCounts
  <1>10. /\ t.key = s.key /\ t.retransmit_id = s.retransmit_id /\ t.buffering = s.buffering
         /\ t.tx_next = s.tx_next
    BY <1>5 DEF SameControl, SameCounts
  <1>11. s.key \in Nat /\ s.key >= 1
    BY DEF EntityType, LowerInv, PduInv
  <1>12. PduInv(t)
    <2>1. /\ t.tx_window[c].pdu.key <= s.key /\ t.tx_window[c].pdu.retx_id <= s.retransmit_id
          /\ t.tx_window[c].pdu.key # 0
      BY <1>4, <1>6, <1>11
    <2>2. \A d \in DOMAIN w :
             /\ t.tx_window[d].pdu.key <= s.key
             /\ t.tx_window[d].pdu.retx_id <= s.retransmit_id
             /\ t.tx_window[d].pdu.key = 0 => t.tx_window[d].pdu = NoPdu
      BY <1>6, <2>1 DEF LowerInv, PduInv
    <2> QED
      BY <1>5, <1>6, <1>10, <2>2 DEF LowerInv, PduInv
  <1>13. KeyLow(s)
    BY DEF LowerInv, Parked
  <1>14. KeyLow(t)
    BY <1>5, <1>10, <1>13 DEF KeyLow
  <1>15. ReadyInv(t)
    <2> SUFFICES ASSUME NEW i \in DOMAIN s.lower, NEW d \in DOMAIN w
                 PROVE  LET key == t.tx_window[d].pdu.key
                        IN /\ s.lower[i].count = d /\ s.lower[i].key \in {s.key, key}
                                => s.lower[i].sdu = w[d].sdu
                           /\ (d >= s.tx_trans_crypto /\ s.lower[i].retx_id = s.retransmit_id
                               /\ s.lower[i].key = key) => s.lower[i].count < s.tx_trans_crypto
      BY <1>5, <1>6, <1>7, <1>10 DEF ReadyInv
    <2>1. /\ s.lower[i].count = d /\ s.lower[i].key \in {s.key, w[d].pdu.key}
               => s.lower[i].sdu = w[d].sdu
          /\ (d >= s.tx_trans_crypto /\ s.lower[i].retx_id = s.retransmit_id
              /\ s.lower[i].key = w[d].pdu.key) => s.lower[i].count < s.tx_trans_crypto
      BY DEF LowerInv, ReadyInv
    <2>2. CASE d = c
      <3>1. t.tx_window[d].pdu.key = s.key
        BY <1>4, <1>6, <2>2
      <3>2. s.lower[i].key = s.key /\ s.lower[i].retx_id = s.retransmit_id
              => s.lower[i].count < s.tx_trans_crypto
        BY <1>13 DEF KeyLow
      <3> QED
        BY <2>1, <3>1, <3>2
    <2>3. CASE d # c
      BY <1>6, <2>1, <2>3
    <2> QED
      BY <2>2, <2>3
  <1>16. KeyOnce(t) /\ InOrderInv(t)
    BY <1>5 DEF LowerInv, KeyOnce, InOrderInv
  <1>17. LowerInv(t)
    BY <1>12, <1>14, <1>15, <1>16 DEF LowerInv
  <1> QED
    BY <1>5, <1>6, <1>7, <1>8, <1>9, <1>17 DEF t

-----------------------------------------------------------------------------
(* Tasks of the strand.                                                    *)

\* The entity between two tasks of the strand.
EntityInv(s) ==
  EntityType(s) /\ WindowInv(s) /\ LowerInv(s) /\ TimerInv(s) /\ DiscardInv(s)

\* A task of the data path: from s to t.
DataStep(s, t) ==
  /\ EntityType(t) /\ WindowInv(t) /\ KeyOnce(t) /\ InOrderInv(t)
  /\ ~t.failed => EntityInv(t)
  /\ SameControl(s, t) /\ t.tx_next = s.tx_next /\ Len(s.lower) <= Len(t.lower)
  /\ DOMAIN t.tx_window \subseteq DOMAIN s.tx_window
  /\ \A c \in DOMAIN t.tx_window : t.tx_window[c].sdu = s.tx_window[c].sdu

\* What RLC has got and may get depends on the COUNTs, the window, the key and the buffer.
LEMMA SameLower ==
  ASSUME NEW s, NEW t, LowerInv(s), t.key = s.key, t.retransmit_id = s.retransmit_id,
         t.tx_next = s.tx_next, t.tx_trans_crypto = s.tx_trans_crypto,
         t.tx_window = s.tx_window, t.lower = s.lower, t.buffering = s.buffering
  PROVE  LowerInv(t)
  <1>1. PduInv(t)
    BY DEF LowerInv, PduInv
  <1>2. Parked(t) \/ KeyLow(t)
    BY DEF LowerInv, Parked, KeyLow
  <1>3. ReadyInv(t)
    BY DEF LowerInv, ReadyInv
  <1>4. KeyOnce(t) /\ InOrderInv(t)
    BY DEF LowerInv, KeyOnce, InOrderInv
  <1> QED
    BY <1>1, <1>2, <1>3, <1>4 DEF LowerInv

\* The discard timer does not depend on what is sent.
LEMMA SameDiscard ==
  ASSUME NEW s, NEW t, DiscardInv(s), SameCounts(s, t), t.stopped = s.stopped,
         DOMAIN t.tx_window = DOMAIN s.tx_window,
         \A c \in DOMAIN s.tx_window : t.tx_window[c].left = s.tx_window[c].left
  PROVE  DiscardInv(t)
  BY DEF DiscardInv, SameCounts

\* "Handle reordering timers" leaves the timer running if a PDU waits.
LEMMA ReorderingTimerFields ==
  ASSUME NEW s, EntityType(s), WindowInv(s)
  PROVE  LET t == ReorderingTimer(s)
         IN /\ EntityType(t) /\ WindowInv(t) /\ TimerInv(t) /\ SameControl(s, t) /\ SameCounts(s, t)
            /\ t.tx_trans_crypto = s.tx_trans_crypto /\ t.lower = s.lower
            /\ t.tx_window = s.tx_window /\ t.failed = s.failed
  <1> DEFINE running == s.crypto_reordering_timer /\ s.tx_trans_crypto < s.tx_reord_crypto
             start == ~running /\ s.tx_trans_crypto < s.tx_next
             t == ReorderingTimer(s)
  <1>1. /\ DOMAIN s = Fields /\ s.tx_next \in Nat /\ s.tx_trans_crypto \in Nat
        /\ s.tx_reord_crypto \in Nat /\ s.tx_next_ack \in Nat
        /\ s.tx_trans_crypto <= s.tx_next /\ s.tx_reord_crypto <= s.tx_next
        /\ DOMAIN s.tx_window \subseteq s.tx_next_ack .. (s.tx_next - 1)
    BY DEF EntityType, WindowInv
  <1>2. t = [s EXCEPT !.crypto_reordering_timer = running \/ start,
                      !.tx_reord_crypto = IF start THEN s.tx_next ELSE @]
    BY DEF ReorderingTimer
  <1>3. running => s.tx_trans_crypto < s.tx_reord_crypto /\ ~start
    OBVIOUS
  <1>4. start => s.tx_trans_crypto < s.tx_next
    OBVIOUS
  <1>5. ~running /\ ~start => s.tx_trans_crypto = s.tx_next
    BY <1>1
  <1> HIDE DEF t, running, start
  <1>6. /\ SameControl(s, t) /\ SameCounts(s, t) /\ t.tx_trans_crypto = s.tx_trans_crypto
        /\ t.lower = s.lower /\ t.tx_window = s.tx_window /\ t.failed = s.failed
        /\ t.crypto_reordering_timer = (running \/ start)
        /\ t.tx_reord_crypto = IF start THEN s.tx_next ELSE s.tx_reord_crypto
    BY <1>1, <1>2 DEF SameControl, SameCounts, Fields
  <1>7. /\ t.crypto_reordering_timer \in BOOLEAN
        /\ t.crypto_reordering_timer <=> running \/ start
        /\ t.tx_reord_crypto \in Nat /\ t.tx_reord_crypto <= s.tx_next
        /\ running \/ start => s.tx_trans_crypto <= t.tx_reord_crypto
    <2>1. t.crypto_reordering_timer \in BOOLEAN /\ (t.crypto_reordering_timer <=> running \/ start)
      BY <1>6
    <2>2. CASE start
      <3>1. t.tx_reord_crypto = s.tx_next
        BY <1>6, <2>2
      <3> QED
        BY <1>1, <2>1, <3>1
    <2>3. CASE ~start
      <3>1. t.tx_reord_crypto = s.tx_reord_crypto
        BY <1>6, <2>3
      <3>2. running => s.tx_trans_crypto <= s.tx_reord_crypto
        BY <1>1, <1>3
      <3> QED
        BY <1>1, <2>1, <2>3, <3>1, <3>2
    <2> QED
      BY <2>2, <2>3
  <1>8. EntityType(t)
    BY <1>6, <1>7 DEF EntityType, SameControl, SameCounts
  <1>9. WindowInv(t)
    BY <1>6, <1>7 DEF WindowInv, SameControl, SameCounts
  <1>10. TimerInv(t)
    <2>1. ASSUME NEW c \in DOMAIN s.tx_window, c >= s.tx_trans_crypto
          PROVE  running \/ start
      <3>1. c \in Nat /\ c < s.tx_next
        BY <1>1
      <3> QED
        BY <1>1, <1>5, <2>1, <3>1
    <2> QED
      BY <1>6, <1>7, <2>1 DEF TimerInv
  <1> QED
    BY <1>6, <1>8, <1>9, <1>10 DEF t

\* apply_reordering.
LEMMA ReorderingKeeps ==
  ASSUME NEW s, EntityInv(s), NEW buf \in Results, buf.key = s.key,
         Has(s, buf.count) => buf.sdu = s.tx_window[buf.count].sdu
  PROVE  DataStep(s, ApplyReordering(s, buf))
  <1> DEFINE p == [key |-> buf.key, retx_id |-> buf.retx_id, sdu |-> buf.sdu]
             u == Stored(s, buf.count, p)
             d == DeliverInOrder(u)
             t == ReorderingTimer(d)
  <1>1. /\ EntityType(s) /\ WindowInv(s) /\ LowerInv(s) /\ DiscardInv(s)
        /\ KeyOnce(s) /\ InOrderInv(s)
    BY DEF EntityInv, LowerInv
  <1>2. CASE OutOfDate(s, buf)
    <2>1. ApplyReordering(s, buf) = s
      BY <1>2 DEF ApplyReordering
    <2>2. SameControl(s, s) /\ Len(s.lower) <= Len(s.lower)
      <3>1. s.lower \in Seq(Submitted) /\ DOMAIN s = Fields
        BY <1>1 DEF EntityType
      <3> QED
        BY <3>1 DEF SameControl
    <2> QED
      BY <1>1, <2>1, <2>2 DEF DataStep
  <1>3. CASE ~OutOfDate(s, buf)
    <2>1. ApplyReordering(s, buf) = t
      BY <1>3 DEF ApplyReordering, Stored
    <2>2. buf.count \in DOMAIN s.tx_window /\ buf.retx_id = s.retransmit_id
      BY <1>3 DEF OutOfDate, Has
    <2>3. /\ p \in Pdus /\ p.key = s.key /\ p.retx_id <= s.retransmit_id
          /\ p.sdu = s.tx_window[buf.count].sdu
      <3>1. /\ s.retransmit_id \in Nat /\ buf.key \in Nat /\ buf.retx_id \in Nat
            /\ buf.sdu \in Nat
        BY <1>1 DEF EntityType, Results
      <3> QED
        BY <2>2, <3>1 DEF Pdus, Has
    <2> HIDE DEF p
    <2>4. /\ EntityType(u) /\ WindowInv(u) /\ LowerInv(u) /\ SameControl(s, u) /\ SameCounts(s, u)
          /\ u.lower = s.lower /\ DOMAIN u.tx_window = DOMAIN s.tx_window
          /\ \A c \in DOMAIN s.tx_window :
               u.tx_window[c].sdu = s.tx_window[c].sdu /\ u.tx_window[c].left = s.tx_window[c].left
      BY <1>1, <2>2, <2>3, StoreFields
    <2> HIDE DEF u
    <2>5. /\ EntityType(d) /\ SameControl(u, d) /\ SameCounts(u, d)
          /\ Sends(u, d, u.tx_trans_crypto, d.tx_trans_crypto)
          /\ u.tx_trans_crypto <= d.tx_trans_crypto /\ d.tx_trans_crypto <= u.tx_next
          /\ d.tx_reord_crypto = u.tx_reord_crypto
      BY <2>4, DeliverFields
    <2> HIDE DEF d
    <2>6. LowerInv(d)
      BY <2>4, <2>5, SendsKeepsLower
    <2>7. /\ DOMAIN d.tx_window = DOMAIN s.tx_window
          /\ \A c \in DOMAIN s.tx_window :
               d.tx_window[c].sdu = s.tx_window[c].sdu /\ d.tx_window[c].left = s.tx_window[c].left
          /\ Len(s.lower) <= Len(d.lower)
      BY <2>4, <2>5 DEF Sends
    <2>8. WindowInv(d)
      BY <2>4, <2>5, <2>7 DEF WindowInv, SameControl, SameCounts
    <2>9. SameControl(s, d) /\ SameCounts(s, d)
      BY <2>4, <2>5 DEF SameControl, SameCounts
    <2>10. /\ EntityType(t) /\ WindowInv(t) /\ TimerInv(t) /\ SameControl(d, t) /\ SameCounts(d, t)
           /\ t.tx_trans_crypto = d.tx_trans_crypto /\ t.lower = d.lower
           /\ t.tx_window = d.tx_window
      BY <2>5, <2>8, ReorderingTimerFields
    <2> HIDE DEF t
    <2>11. LowerInv(t)
      BY <2>6, <2>10, SameLower DEF SameControl, SameCounts
    <2>12. SameControl(s, t) /\ SameCounts(s, t)
      BY <2>9, <2>10 DEF SameControl, SameCounts
    <2>13. DiscardInv(t)
      BY <1>1, <2>7, <2>10, <2>12, SameDiscard DEF SameControl
    <2> QED
      BY <2>1, <2>7, <2>10, <2>11, <2>12, <2>13 DEF DataStep, EntityInv, LowerInv, SameCounts
  <1> QED
    BY <1>2, <1>3

\* The state variables as numbers.
LEMMA CountFacts ==
  ASSUME NEW s, EntityType(s), WindowInv(s)
  PROVE  /\ DOMAIN s = Fields /\ MaxCount \in Nat
         /\ s.tx_next \in Nat /\ s.tx_trans \in Nat /\ s.tx_next_ack \in Nat
         /\ s.tx_trans_crypto \in Nat /\ s.tx_reord_crypto \in Nat
         /\ s.tx_next_ack <= s.tx_trans /\ s.tx_trans <= s.tx_next /\ s.tx_next_ack <= s.tx_next
         /\ s.tx_next <= MaxCount /\ s.tx_trans_crypto <= s.tx_next /\ s.tx_reord_crypto <= s.tx_next
         /\ DOMAIN s.tx_window \subseteq s.tx_next_ack .. (s.tx_next - 1)
         /\ \A c \in DOMAIN s.tx_window : c \in Nat /\ s.tx_next_ack <= c /\ c < s.tx_next
  <1>1. /\ DOMAIN s = Fields /\ s.tx_next \in Nat /\ s.tx_trans \in Nat /\ s.tx_next_ack \in Nat
        /\ s.tx_trans_crypto \in Nat /\ s.tx_reord_crypto \in Nat
    BY DEF EntityType
  <1>2. /\ s.tx_next_ack <= s.tx_trans /\ s.tx_trans <= s.tx_next
        /\ s.tx_next <= MaxCount /\ s.tx_trans_crypto <= s.tx_next /\ s.tx_reord_crypto <= s.tx_next
        /\ DOMAIN s.tx_window \subseteq s.tx_next_ack .. (s.tx_next - 1)
    BY DEF WindowInv
  <1>3. MaxCount \in Nat
    BY PdcpTxAssumption
  <1>4. s.tx_next_ack <= s.tx_next
    BY <1>1, <1>2
  <1>5. \A c \in DOMAIN s.tx_window : c \in Nat /\ s.tx_next_ack <= c /\ c < s.tx_next
    BY <1>1, <1>2
  <1> QED
    BY <1>1, <1>2, <1>3, <1>4, <1>5

\* What RLC has got as a sequence.
LEMMA SubmittedFacts ==
  ASSUME NEW s, EntityType(s)
  PROVE  /\ s.lower \in Seq(Submitted) /\ Len(s.lower) \in Nat /\ DOMAIN s.lower = 1 .. Len(s.lower)
         /\ \A i \in DOMAIN s.lower : /\ s.lower[i].count \in Nat /\ s.lower[i].key \in Nat
                                      /\ s.lower[i].sdu \in Nat /\ s.lower[i].retx_id \in Nat
  <1>1. s.lower \in Seq(Submitted)
    BY DEF EntityType
  <1>2. \A i \in DOMAIN s.lower : s.lower[i] \in Submitted
    BY <1>1
  <1>3. \A x \in Submitted : x.count \in Nat /\ x.key \in Nat /\ x.sdu \in Nat /\ x.retx_id \in Nat
    BY DEF Submitted
  <1> QED
    BY <1>1, <1>2, <1>3

\* crypto_reordering_timeout leaves the timer running if it has left a gap.
LEMMA TimerRestartFields ==
  ASSUME NEW s, EntityType(s), WindowInv(s)
  PROVE  LET gap == s.tx_trans_crypto < s.tx_next
             t   == [s EXCEPT !.crypto_reordering_timer = gap,
                              !.tx_reord_crypto = IF gap THEN s.tx_next ELSE @]
         IN /\ EntityType(t) /\ WindowInv(t) /\ TimerInv(t) /\ SameControl(s, t) /\ SameCounts(s, t)
            /\ t.tx_trans_crypto = s.tx_trans_crypto /\ t.lower = s.lower
            /\ t.tx_window = s.tx_window /\ t.failed = s.failed
  <1> DEFINE gap == s.tx_trans_crypto < s.tx_next
             t == [s EXCEPT !.crypto_reordering_timer = gap,
                            !.tx_reord_crypto = IF gap THEN s.tx_next ELSE @]
  <1>1. /\ DOMAIN s = Fields /\ s.tx_next \in Nat /\ s.tx_trans_crypto \in Nat
        /\ s.tx_reord_crypto \in Nat /\ s.tx_next_ack \in Nat
        /\ s.tx_trans_crypto <= s.tx_next /\ s.tx_reord_crypto <= s.tx_next
        /\ DOMAIN s.tx_window \subseteq s.tx_next_ack .. (s.tx_next - 1)
    BY DEF EntityType, WindowInv
  <1>2. /\ SameControl(s, t) /\ SameCounts(s, t) /\ t.tx_trans_crypto = s.tx_trans_crypto
        /\ t.lower = s.lower /\ t.tx_window = s.tx_window /\ t.failed = s.failed
        /\ t.crypto_reordering_timer = gap
        /\ t.tx_reord_crypto = IF gap THEN s.tx_next ELSE s.tx_reord_crypto
    BY <1>1 DEF SameControl, SameCounts, Fields
  <1> HIDE DEF t
  <1>3. /\ t.crypto_reordering_timer \in BOOLEAN /\ (t.crypto_reordering_timer <=> gap)
        /\ t.tx_reord_crypto \in Nat /\ t.tx_reord_crypto <= s.tx_next
        /\ gap => s.tx_trans_crypto <= t.tx_reord_crypto
    <2>1. t.crypto_reordering_timer \in BOOLEAN /\ (t.crypto_reordering_timer <=> gap)
      <3>1. gap \in BOOLEAN
        BY <1>1
      <3>2. t.crypto_reordering_timer = gap
        BY <1>2
      <3> HIDE DEF gap
      <3> QED
        BY <3>1, <3>2
    <2>2. CASE gap
      <3>1. t.tx_reord_crypto = s.tx_next
        BY <1>2, <2>2
      <3> QED
        BY <1>1, <2>1, <3>1
    <2>3. CASE ~gap
      <3>1. t.tx_reord_crypto = s.tx_reord_crypto
        BY <1>2, <2>3
      <3> QED
        BY <1>1, <2>1, <2>3, <3>1
    <2> QED
      BY <2>2, <2>3
  <1>4. EntityType(t)
    BY <1>2, <1>3 DEF EntityType, SameControl, SameCounts
  <1>5. WindowInv(t)
    BY <1>2, <1>3 DEF WindowInv, SameControl, SameCounts
  <1>6. TimerInv(t)
    <2>1. ASSUME NEW c \in DOMAIN s.tx_window, c >= s.tx_trans_crypto
          PROVE  gap
      <3>1. c \in Nat /\ c < s.tx_next
        BY <1>1
      <3> QED
        BY <1>1, <2>1, <3>1
    <2> HIDE DEF gap
    <2> QED
      BY <1>2, <1>3, <2>1 DEF TimerInv
  <1> QED
    BY <1>2, <1>4, <1>5, <1>6 DEF t

\* What changes only TX_TRANS_CRYPTO.
LEMMA AdvanceFields ==
  ASSUME NEW s, EntityType(s), NEW end \in Nat
  PROVE  LET t == [s EXCEPT !.tx_trans_crypto = end]
         IN /\ EntityType(t) /\ SameControl(s, t) /\ SameCounts(s, t) /\ t.tx_trans_crypto = end
            /\ t.tx_window = s.tx_window /\ t.lower = s.lower /\ t.failed = s.failed
            /\ t.tx_reord_crypto = s.tx_reord_crypto
  <1> DEFINE t == [s EXCEPT !.tx_trans_crypto = end]
  <1>1. DOMAIN s = Fields
    BY DEF EntityType
  <1>2. /\ SameControl(s, t) /\ SameCounts(s, t) /\ t.tx_trans_crypto = end
        /\ t.tx_window = s.tx_window /\ t.lower = s.lower /\ t.failed = s.failed
        /\ t.tx_reord_crypto = s.tx_reord_crypto
        /\ t.crypto_reordering_timer = s.crypto_reordering_timer
    BY <1>1 DEF SameControl, SameCounts, Fields
  <1> HIDE DEF t
  <1>3. EntityType(t)
    BY <1>2 DEF EntityType, SameControl, SameCounts
  <1> QED
    BY <1>2, <1>3 DEF t

\* crypto_reordering_timeout.
LEMMA TimeoutKeeps ==
  ASSUME NEW s, EntityInv(s), s.crypto_reordering_timer
  PROVE  DataStep(s, CryptoReorderingTimeout(s))
  <1> DEFINE q == ReadyUpTo(s, s.tx_reord_crypto)
             w == Write(s, q)
             u == [w EXCEPT !.tx_trans_crypto = s.tx_reord_crypto]
             d == DeliverInOrder(u)
             gap == d.tx_trans_crypto < d.tx_next
             t == [d EXCEPT !.crypto_reordering_timer = gap,
                            !.tx_reord_crypto = IF gap THEN d.tx_next ELSE @]
  <1>1. /\ EntityType(s) /\ WindowInv(s) /\ LowerInv(s) /\ TimerInv(s) /\ DiscardInv(s)
    BY DEF EntityInv
  <1>2. CryptoReorderingTimeout(s) = t
    BY DEF CryptoReorderingTimeout
  <1>3. /\ s.tx_next \in Nat /\ s.tx_trans_crypto \in Nat /\ s.tx_reord_crypto \in Nat
        /\ s.tx_next_ack \in Nat /\ MaxCount \in Nat /\ s.tx_next <= MaxCount
        /\ s.tx_trans_crypto <= s.tx_next /\ s.tx_reord_crypto <= s.tx_next
        /\ s.tx_next_ack <= s.tx_next
        /\ DOMAIN s.tx_window \subseteq s.tx_next_ack .. (s.tx_next - 1)
        /\ s.tx_trans_crypto <= s.tx_reord_crypto \/ s.tx_reord_crypto < s.tx_next_ack
    <2>1. s.tx_trans_crypto <= s.tx_reord_crypto \/ s.tx_reord_crypto < s.tx_next_ack
      BY <1>1 DEF TimerInv
    <2> QED
      BY <1>1, <2>1, CountFacts
  <1> DEFINE high == IF s.tx_trans_crypto <= s.tx_reord_crypto THEN s.tx_reord_crypto ELSE MaxCount
  <1>4. /\ q \in Seq(Nat) /\ high \in Nat
        /\ \A i \in DOMAIN q : Ready(s, q[i]) /\ s.tx_trans_crypto <= q[i] /\ q[i] < high
        /\ \A i, j \in DOMAIN q : i < j => q[i] < q[j]
    <2>1. CASE s.tx_trans_crypto <= s.tx_reord_crypto
      <3>1. q = ReadyFrom(s, s.tx_trans_crypto, s.tx_reord_crypto) /\ high = s.tx_reord_crypto
        BY <2>1 DEF ReadyUpTo
      <3> HIDE DEF q, high
      <3> QED
        BY <1>3, <3>1, ReadyFromSorts
    <2>2. CASE ~(s.tx_trans_crypto <= s.tx_reord_crypto)
      <3> DEFINE a == ReadyFrom(s, s.tx_trans_crypto, MaxCount)
                 b == ReadyFrom(s, 0, s.tx_reord_crypto)
      <3>1. q = a \o b /\ high = MaxCount
        BY <2>2 DEF ReadyUpTo
      <3>2. /\ a \in Seq(Nat)
            /\ \A i \in DOMAIN a : Ready(s, a[i]) /\ s.tx_trans_crypto <= a[i] /\ a[i] < MaxCount
            /\ \A i, j \in DOMAIN a : i < j => a[i] < a[j]
        BY <1>3, ReadyFromSorts
      <3>3. b \in Seq(Nat) /\ \A i \in DOMAIN b : Ready(s, b[i]) /\ b[i] < s.tx_reord_crypto
        BY <1>3, ReadyFromSorts
      <3> HIDE DEF a, b, q, high
      <3>4. Len(b) \in Nat /\ DOMAIN b = 1 .. Len(b)
        BY <3>3
      <3>5. Len(b) = 0
        <4> SUFFICES ASSUME Len(b) # 0
                     PROVE  FALSE
          OBVIOUS
        <4>1. 1 \in DOMAIN b
          BY <3>4
        <4>2. b[1] \in DOMAIN s.tx_window /\ b[1] < s.tx_reord_crypto
          BY <3>3, <4>1 DEF Ready, Has
        <4>3. b[1] \in Nat /\ s.tx_next_ack <= b[1]
          BY <1>3, <4>2
        <4> QED
          BY <1>3, <2>2, <4>2, <4>3
      <3>6. b = <<>>
        BY <3>3, <3>5, EmptySeq
      <3>7. q = a
        BY <3>1, <3>2, <3>6, ConcatEmptySeq
      <3> QED
        BY <1>3, <3>1, <3>2, <3>7
    <2> QED
      BY <2>1, <2>2
  <1> HIDE DEF q, t
  <1>5. /\ EntityType(w) /\ SameControl(s, w) /\ SameCounts(s, w)
        /\ Sends(s, w, s.tx_trans_crypto, high)
        /\ w.tx_reord_crypto = s.tx_reord_crypto
    BY <1>1, <1>3, <1>4, WriteFields
  <1> HIDE DEF w
  <1>6. /\ EntityType(u) /\ SameControl(w, u) /\ SameCounts(w, u)
        /\ u.tx_trans_crypto = s.tx_reord_crypto
        /\ u.tx_window = w.tx_window /\ u.lower = w.lower
        /\ u.tx_reord_crypto = s.tx_reord_crypto
    BY <1>3, <1>5, AdvanceFields
  <1> HIDE DEF u
  <1>7. SameControl(s, u) /\ SameCounts(s, u) /\ Sends(s, u, s.tx_trans_crypto, high)
    <2>1. SameControl(s, u) /\ SameCounts(s, u)
      BY <1>5, <1>6 DEF SameControl, SameCounts
    <2>2. Sends(s, u, s.tx_trans_crypto, high)
      BY <1>5, <1>6 DEF Sends
    <2> QED
      BY <2>1, <2>2
  <1>8. /\ DOMAIN u.tx_window = DOMAIN s.tx_window /\ Len(s.lower) <= Len(u.lower)
        /\ \A c \in DOMAIN s.tx_window :
             u.tx_window[c].sdu = s.tx_window[c].sdu /\ u.tx_window[c].left = s.tx_window[c].left
    BY <1>7 DEF Sends
  <1>9. WindowInv(u)
    BY <1>1, <1>3, <1>6, <1>7, <1>8 DEF WindowInv, SameControl, SameCounts
  <1>10. KeyOnce(u) /\ InOrderInv(u)
    BY <1>1, <1>4, <1>6, <1>7, SendsInOrder
  <1>11. /\ EntityType(d) /\ SameControl(u, d) /\ SameCounts(u, d)
         /\ Sends(u, d, u.tx_trans_crypto, d.tx_trans_crypto)
         /\ u.tx_trans_crypto <= d.tx_trans_crypto /\ d.tx_trans_crypto <= u.tx_next
         /\ d.tx_reord_crypto = u.tx_reord_crypto
         /\ u.tx_trans_crypto < u.tx_next /\ ~Has(u, u.tx_trans_crypto)
              => d.failed /\ d.lower = u.lower
    BY <1>6, <1>9, DeliverFields
  <1> HIDE DEF d
  <1>12. /\ DOMAIN d.tx_window = DOMAIN s.tx_window
         /\ \A c \in DOMAIN s.tx_window :
              d.tx_window[c].sdu = s.tx_window[c].sdu /\ d.tx_window[c].left = s.tx_window[c].left
         /\ Len(s.lower) <= Len(d.lower)
    <2>1. /\ DOMAIN d.tx_window = DOMAIN u.tx_window /\ Len(u.lower) <= Len(d.lower)
          /\ \A c \in DOMAIN u.tx_window :
               d.tx_window[c].sdu = u.tx_window[c].sdu /\ d.tx_window[c].left = u.tx_window[c].left
      BY <1>11 DEF Sends
    <2>2. Len(s.lower) \in Nat /\ Len(u.lower) \in Nat /\ Len(d.lower) \in Nat
      BY <1>1, <1>6, <1>11, SubmittedFacts
    <2>3. Len(s.lower) <= Len(d.lower)
      BY <1>8, <2>1, <2>2
    <2> QED
      BY <1>8, <2>1, <2>3
  <1>13. WindowInv(d)
    BY <1>9, <1>8, <1>11, <1>12 DEF WindowInv, SameControl, SameCounts
  <1>14. SameControl(s, d) /\ SameCounts(s, d)
    BY <1>7, <1>11 DEF SameControl, SameCounts
  <1>15. /\ EntityType(t) /\ WindowInv(t) /\ TimerInv(t) /\ SameControl(d, t) /\ SameCounts(d, t)
         /\ t.tx_trans_crypto = d.tx_trans_crypto /\ t.lower = d.lower
         /\ t.tx_window = d.tx_window /\ t.failed = d.failed
    BY <1>11, <1>13, TimerRestartFields DEF t
  <1>16. SameControl(s, t) /\ SameCounts(s, t)
    BY <1>14, <1>15 DEF SameControl, SameCounts
  <1>17. DiscardInv(t)
    BY <1>1, <1>12, <1>15, <1>16, SameDiscard DEF SameControl
  <1>18. KeyOnce(t) /\ InOrderInv(t) /\ (~t.failed => LowerInv(t))
    <2>1. CASE s.tx_trans_crypto <= s.tx_reord_crypto
      <3>1. LowerInv(u)
        BY <1>1, <1>3, <1>6, <1>7, <2>1, SendsKeepsLower
      <3>2. LowerInv(d)
        BY <1>6, <1>9, <1>11, <3>1, SendsKeepsLower
      <3>3. LowerInv(t)
        BY <1>15, <3>2, SameLower DEF SameControl, SameCounts
      <3> QED
        BY <3>3 DEF LowerInv
    <2>2. CASE ~(s.tx_trans_crypto <= s.tx_reord_crypto)
      <3>1. u.tx_trans_crypto < u.tx_next /\ ~Has(u, u.tx_trans_crypto)
        <4>1. u.tx_next = s.tx_next
          BY <1>7 DEF SameCounts
        <4>2. s.tx_reord_crypto \notin DOMAIN s.tx_window /\ s.tx_reord_crypto < s.tx_next
          BY <1>3, <2>2
        <4> QED
          BY <1>6, <1>8, <4>1, <4>2 DEF Has
      <3>2. t.failed /\ t.lower = u.lower
        BY <1>11, <1>15, <3>1
      <3> QED
        BY <1>10, <3>2 DEF KeyOnce, InOrderInv
    <2> QED
      BY <2>1, <2>2
  <1>19. /\ t.tx_next = s.tx_next /\ Len(s.lower) <= Len(t.lower)
         /\ DOMAIN t.tx_window = DOMAIN s.tx_window
         /\ \A c \in DOMAIN t.tx_window : t.tx_window[c].sdu = s.tx_window[c].sdu
    BY <1>12, <1>15, <1>16 DEF SameCounts
  <1> QED
    BY <1>2, <1>15, <1>16, <1>17, <1>18, <1>19 DEF DataStep, EntityInv

-----------------------------------------------------------------------------
(* Notifications, status reports and discarding.                           *)

\* From s to t, SDUs have left the window.
Removes(s, t) ==
  /\ SameControl(s, t) /\ t.tx_next = s.tx_next /\ s.tx_next_ack <= t.tx_next_ack
  /\ t.tx_trans_crypto = s.tx_trans_crypto /\ t.tx_reord_crypto = s.tx_reord_crypto
  /\ t.crypto_reordering_timer = s.crypto_reordering_timer /\ t.lower = s.lower
  /\ DOMAIN t.tx_window \subseteq DOMAIN s.tx_window
  /\ \A c \in DOMAIN t.tx_window : t.tx_window[c] = s.tx_window[c]

\* What leaves the window neither goes to RLC nor waits.
LEMMA RemovesKeeps ==
  ASSUME NEW s, NEW t, EntityInv(s), EntityType(t), WindowInv(t), Removes(s, t),
         ~t.failed => DiscardInv(t)
  PROVE  DataStep(s, t)
  <1>1. /\ EntityType(s) /\ WindowInv(s) /\ LowerInv(s) /\ TimerInv(s)
    BY DEF EntityInv
  <1>2. /\ t.key = s.key /\ t.retransmit_id = s.retransmit_id /\ t.buffering = s.buffering
        /\ t.tx_next = s.tx_next /\ t.lower = s.lower /\ t.tx_trans_crypto = s.tx_trans_crypto
        /\ DOMAIN t.tx_window \subseteq DOMAIN s.tx_window
        /\ \A c \in DOMAIN t.tx_window : t.tx_window[c] = s.tx_window[c]
    BY DEF Removes, SameControl
  <1>3. PduInv(t)
    BY <1>1, <1>2 DEF LowerInv, PduInv
  <1>4. Parked(t) \/ KeyLow(t)
    BY <1>1, <1>2 DEF LowerInv, Parked, KeyLow
  <1>5. ReadyInv(t)
    BY <1>1, <1>2 DEF LowerInv, ReadyInv
  <1>6. KeyOnce(t) /\ InOrderInv(t)
    BY <1>1, <1>2 DEF LowerInv, KeyOnce, InOrderInv
  <1>7. TimerInv(t)
    <2>1. s.tx_next_ack \in Nat /\ t.tx_next_ack \in Nat /\ s.tx_reord_crypto \in Nat
      BY <1>1 DEF EntityType
    <2>2. s.tx_reord_crypto < s.tx_next_ack => s.tx_reord_crypto < t.tx_next_ack
      BY <2>1 DEF Removes
    <2> QED
      BY <1>1, <1>2, <2>2 DEF TimerInv, Removes, Ready, Has
  <1>8. Len(s.lower) <= Len(t.lower)
    BY <1>1, <1>2, SubmittedFacts
  <1>9. \A c \in DOMAIN t.tx_window : t.tx_window[c].sdu = s.tx_window[c].sdu
    BY <1>2
  <1> QED
    BY <1>2, <1>3, <1>4, <1>5, <1>6, <1>7, <1>8, <1>9 DEF DataStep, EntityInv, LowerInv, Removes

\* The larger of two numbers.
LEMMA LargerFacts ==
  ASSUME NEW a \in Int, NEW b \in Int
  PROVE  Larger(a, b) \in {a, b} /\ a <= Larger(a, b) /\ b <= Larger(a, b)
  BY DEF Larger

\* A timer runs for a tick at least.
LEMMA RunForFacts ==
  ASSUME NEW n \in Int
  PROVE  /\ RunFor(n) \in Nat /\ RunFor(n) # Off
         /\ \A m \in Int : n <= m /\ 1 <= m => RunFor(n) <= m
  BY DEF RunFor, Larger, Off

\* discard_pdu.
LEMMA DiscardPdusFields ==
  ASSUME NEW s, EntityType(s), WindowInv(s), NEW counts
  PROVE  LET t == DiscardPdus(s, counts)
         IN /\ EntityType(t) /\ WindowInv(t) /\ Removes(s, t) /\ t.failed = s.failed
            /\ t.discard_timer = s.discard_timer /\ t.overdue = s.overdue
            /\ DOMAIN t.tx_window = DOMAIN s.tx_window \ counts
            /\ DOMAIN t.tx_window = DOMAIN s.tx_window => t = s
            /\ DOMAIN t.tx_window # DOMAIN s.tx_window =>
                 \/ t.tx_next_ack \in DOMAIN t.tx_window
                 \/ DOMAIN t.tx_window = {} /\ t.tx_next_ack = s.tx_next
  <1> DEFINE w == s.tx_window
             known == {c \in counts \cap DOMAIN w : c >= s.tx_next_ack}
             rest == [c \in DOMAIN w \ known |-> w[c]]
             left == RemoveSdus(s, known)
             oldest == Min((DOMAIN w \ known) \cup {s.tx_next})
             t == DiscardPdus(s, counts)
  <1>1. /\ DOMAIN s = Fields /\ MaxCount \in Nat
        /\ s.tx_next \in Nat /\ s.tx_trans \in Nat /\ s.tx_next_ack \in Nat
        /\ s.tx_trans_crypto \in Nat /\ s.tx_reord_crypto \in Nat
        /\ s.tx_next_ack <= s.tx_trans /\ s.tx_trans <= s.tx_next /\ s.tx_next_ack <= s.tx_next
        /\ s.tx_next <= MaxCount /\ s.tx_trans_crypto <= s.tx_next /\ s.tx_reord_crypto <= s.tx_next
        /\ \A c \in DOMAIN w : c \in Nat /\ s.tx_next_ack <= c /\ c < s.tx_next
    BY CountFacts
  <1>2. known = counts \cap DOMAIN w
    BY <1>1
  <1>3. left = [s EXCEPT !.tx_window = rest] /\ DOMAIN left = Fields
        /\ left.tx_window = rest /\ left.tx_next = s.tx_next
    BY <1>1 DEF RemoveSdus, Fields
  <1>4. Oldest(left) = oldest
    <2>1. left.tx_next_ack = s.tx_next_ack /\ DOMAIN rest = DOMAIN w \ known
      BY <1>1, <1>3 DEF Fields
    <2>2. Outstanding(left) = DOMAIN w \ known
      BY <1>1, <1>3, <2>1 DEF Outstanding
    <2> QED
      BY <1>3, <2>2 DEF Oldest
  <1>5. t = IF known = {} THEN s
            ELSE [left EXCEPT !.tx_next_ack = oldest, !.tx_trans = Larger(@, oldest)]
    BY <1>4 DEF DiscardPdus
  <1> HIDE DEF t, known, left
  <1>6. CASE known = {}
    <2>1. t = s
      BY <1>5, <1>6
    <2>2. SameControl(s, s)
      BY <1>1 DEF SameControl
    <2>3. DOMAIN w = DOMAIN w \ counts
      BY <1>2, <1>6
    <2> QED
      BY <1>1, <2>1, <2>2, <2>3 DEF Removes, t
  <1>7. CASE known # {}
    <2> DEFINE D == DOMAIN w \ known
    <2>1. D = DOMAIN w \ counts /\ D # DOMAIN w
      BY <1>2, <1>7
    <2>2. /\ oldest \in D \cup {s.tx_next} /\ \A c \in D \cup {s.tx_next} : oldest <= c
      <3>1. D \cup {s.tx_next} \in SUBSET Nat /\ D \cup {s.tx_next} # {}
        BY <1>1
      <3> QED
        BY <3>1, MinIn
    <2> HIDE DEF oldest
    <2>3. /\ oldest \in Nat /\ oldest <= s.tx_next /\ s.tx_next_ack <= oldest
          /\ \A c \in D : oldest <= c
          /\ oldest \in D \/ (D = {} /\ oldest = s.tx_next)
      <3>1. oldest \in Nat /\ oldest <= s.tx_next /\ s.tx_next_ack <= oldest
        BY <1>1, <2>2
      <3>2. oldest = s.tx_next => D = {}
        <4>1. ASSUME oldest = s.tx_next, NEW c \in D
              PROVE  FALSE
          <5>1. s.tx_next <= c /\ c < s.tx_next /\ c \in Nat
            BY <1>1, <2>2, <4>1
          <5> QED
            BY <1>1, <5>1
        <4> QED
          BY <4>1
      <3> QED
        BY <2>2, <3>1, <3>2
    <2>4. /\ t = [left EXCEPT !.tx_next_ack = oldest, !.tx_trans = Larger(left.tx_trans, oldest)]
          /\ left.tx_trans = s.tx_trans
      BY <1>1, <1>3, <1>5, <1>7 DEF Fields
    <2>5. /\ SameControl(s, t) /\ t.tx_next = s.tx_next /\ t.tx_next_ack = oldest
          /\ t.tx_trans = Larger(s.tx_trans, oldest)
          /\ t.tx_trans_crypto = s.tx_trans_crypto /\ t.tx_reord_crypto = s.tx_reord_crypto
          /\ t.crypto_reordering_timer = s.crypto_reordering_timer /\ t.lower = s.lower
          /\ t.tx_window = rest /\ t.failed = s.failed
          /\ t.discard_timer = s.discard_timer /\ t.overdue = s.overdue
      BY <1>1, <1>3, <2>4 DEF SameControl, Fields
    <2>6. DOMAIN t.tx_window = D /\ \A c \in D : t.tx_window[c] = w[c]
      BY <2>5
    <2> HIDE DEF D
    <2>7. /\ t.tx_trans \in Nat /\ oldest <= t.tx_trans /\ t.tx_trans <= s.tx_next
      BY <1>1, <2>3, <2>5, LargerFacts
    <2>8. D \subseteq DOMAIN w
      BY DEF D
    <2>9. EntityType(t)
      BY <2>3, <2>5, <2>6, <2>7, <2>8 DEF EntityType, SameControl
    <2>10. WindowInv(t)
      <3>1. D \subseteq oldest .. (s.tx_next - 1)
        BY <1>1, <2>3, <2>8
      <3>2. s.stopped => D = {}
        BY <2>8 DEF WindowInv
      <3>3. t.stopped = s.stopped
        BY <2>5 DEF SameControl
      <3> QED
        BY <1>1, <2>5, <2>6, <2>7, <3>1, <3>2, <3>3 DEF WindowInv
    <2>11. Removes(s, t)
      BY <2>3, <2>5, <2>6, <2>8 DEF Removes
    <2> QED
      BY <2>1, <2>3, <2>5, <2>6, <2>9, <2>10, <2>11 DEF t, D
  <1> QED
    BY <1>6, <1>7

\* The discard timer goes on for the SDUs that stay.
LEMMA DiscardPdusKeeps ==
  ASSUME NEW s, EntityInv(s), NEW counts
  PROVE  DataStep(s, DiscardPdus(s, counts))
  <1> DEFINE t == DiscardPdus(s, counts)
  <1>1. EntityType(s) /\ WindowInv(s) /\ DiscardInv(s)
    BY DEF EntityInv
  <1>2. /\ EntityType(t) /\ WindowInv(t) /\ Removes(s, t) /\ t.failed = s.failed
        /\ t.discard_timer = s.discard_timer /\ t.overdue = s.overdue
        /\ DOMAIN t.tx_window = DOMAIN s.tx_window => t = s
        /\ DOMAIN t.tx_window # DOMAIN s.tx_window =>
             \/ t.tx_next_ack \in DOMAIN t.tx_window
             \/ DOMAIN t.tx_window = {} /\ t.tx_next_ack = s.tx_next
    BY <1>1, DiscardPdusFields
  <1> HIDE DEF t
  <1>3. DiscardInv(t)
    <2>1. CASE DOMAIN t.tx_window = DOMAIN s.tx_window
      BY <1>1, <1>2, <2>1
    <2>2. CASE DOMAIN t.tx_window # DOMAIN s.tx_window
      BY <1>1, <1>2, <2>2 DEF DiscardInv, Removes, SameControl
    <2> QED
      BY <2>1, <2>2
  <1> QED
    BY <1>2, <1>3, RemovesKeeps DEF t

\* A task that changes nothing.
LEMMA DataStutter ==
  ASSUME NEW s, EntityInv(s)
  PROVE  DataStep(s, s)
  <1>1. EntityType(s) /\ WindowInv(s) /\ LowerInv(s)
    BY DEF EntityInv
  <1>2. SameControl(s, s) /\ Len(s.lower) <= Len(s.lower)
    BY <1>1, CountFacts, SubmittedFacts DEF SameControl
  <1> QED
    BY <1>1, <1>2 DEF DataStep, LowerInv

\* handle_status_report.
LEMMA StatusReportKeeps ==
  ASSUME NEW s, EntityInv(s), NEW fmc, NEW bitmap
  PROVE  DataStep(s, HandleStatusReport(s, fmc, bitmap))
  BY DataStutter, DiscardPdusKeeps DEF HandleStatusReport

\* The ticks a discard timer may have.
LEMMA TickFacts ==
  ASSUME cfg \in [rlc_mode : Modes, discard_timer : DiscardTimers]
  PROVE  /\ TickModulus \in Nat \ {0} /\ cfg.discard_timer \in Nat
         /\ cfg.discard_timer < TickModulus
  <1>1. cfg.discard_timer \in DiscardTimers
    OBVIOUS
  <1>2. cfg.discard_timer \in 0 .. (TickModulus - 1) /\ TickModulus \in Nat
    BY <1>1, PdcpTxAssumption
  <1> QED
    BY <1>2

\* What an unsigned difference makes of a number of ticks.
LEMMA WrapFacts ==
  ASSUME NEW n \in Int, NEW m \in Nat \ {0}
  PROVE  n % m \in Nat /\ (0 <= n /\ n < m => n % m = n)
  BY SMT

\* stop_discard_timer: the timer is started for the oldest SDU that stays.
LEMMA StopDiscardTimerKeeps ==
  ASSUME NEW s, EntityInv(s), NEW highest \in Nat,
         cfg \in [rlc_mode : Modes, discard_timer : DiscardTimers]
  PROVE  DataStep(s, StopDiscardTimer(s, highest))
  <1> DEFINE w == s.tx_window
             ack == highest + 1
             rest == [c \in DOMAIN w \ (s.tx_next_ack .. highest) |-> w[c]]
             acked == [RemoveSdus(s, s.tx_next_ack .. highest) EXCEPT
                         !.tx_next_ack = ack, !.tx_trans = Larger(@, ack),
                         !.discard_timer = Off, !.overdue = FALSE]
             t == StopDiscardTimer(s, highest)
  <1>1. EntityType(s) /\ WindowInv(s) /\ DiscardInv(s)
    BY DEF EntityInv
  <1>2. /\ DOMAIN s = Fields /\ MaxCount \in Nat
        /\ s.tx_next \in Nat /\ s.tx_trans \in Nat /\ s.tx_next_ack \in Nat
        /\ s.tx_trans_crypto \in Nat /\ s.tx_reord_crypto \in Nat
        /\ s.tx_next_ack <= s.tx_trans /\ s.tx_trans <= s.tx_next /\ s.tx_next_ack <= s.tx_next
        /\ s.tx_next <= MaxCount /\ s.tx_trans_crypto <= s.tx_next /\ s.tx_reord_crypto <= s.tx_next
        /\ \A c \in DOMAIN w : c \in Nat /\ s.tx_next_ack <= c /\ c < s.tx_next
    BY <1>1, CountFacts
  <1>3. CASE highest < s.tx_next_ack \/ highest >= s.tx_next \/ ~Has(s, s.tx_next_ack)
    <2>1. t = s
      BY <1>3 DEF StopDiscardTimer
    <2> QED
      BY <2>1, DataStutter
  <1>4. CASE ~(highest < s.tx_next_ack \/ highest >= s.tx_next \/ ~Has(s, s.tx_next_ack))
    <2>1. s.tx_next_ack < ack /\ ack <= s.tx_next /\ ack \in Nat
      BY <1>2, <1>4
    <2>2. RemoveSdus(s, s.tx_next_ack .. highest) = [s EXCEPT !.tx_window = rest]
      BY <1>2 DEF RemoveSdus, Fields
    <2>3. acked = [s EXCEPT !.tx_window = rest, !.tx_next_ack = ack,
                            !.tx_trans = Larger(s.tx_trans, ack),
                            !.discard_timer = Off, !.overdue = FALSE]
      BY <1>2, <2>2 DEF Fields
    <2>4. /\ SameControl(s, acked) /\ acked.tx_next = s.tx_next /\ acked.tx_next_ack = ack
          /\ acked.tx_trans = Larger(s.tx_trans, ack)
          /\ acked.tx_trans_crypto = s.tx_trans_crypto /\ acked.tx_reord_crypto = s.tx_reord_crypto
          /\ acked.crypto_reordering_timer = s.crypto_reordering_timer /\ acked.lower = s.lower
          /\ acked.tx_window = rest /\ acked.failed = s.failed
          /\ acked.discard_timer = Off /\ acked.overdue = FALSE
      <3> HIDE DEF acked, rest, ack
      <3> QED
        BY <1>2, <2>3 DEF SameControl, Fields
    <2>5. t = IF cfg.discard_timer = 0 \/ ack = s.tx_next THEN acked
              ELSE IF ~Has(acked, ack) THEN [acked EXCEPT !.failed = TRUE]
              ELSE [acked EXCEPT !.discard_timer = RunFor(acked.tx_window[ack].left % TickModulus),
                                 !.overdue = Has(acked, ack) /\ acked.tx_window[ack].left < 0]
      <3>1. acked.tx_next_ack = ack
        BY <2>4
      <3> HIDE DEF acked
      <3>2. acked = [RemoveSdus(s, s.tx_next_ack .. highest) EXCEPT
                         !.tx_next_ack = highest + 1, !.tx_trans = Larger(@, highest + 1),
                         !.discard_timer = Off, !.overdue = FALSE]
        BY DEF acked
      <3> QED
        BY <1>4, <3>1, <3>2 DEF StopDiscardTimer
    <2> HIDE DEF acked, t
    <2>6. /\ DOMAIN acked.tx_window \subseteq DOMAIN w
          /\ \A c \in DOMAIN acked.tx_window : acked.tx_window[c] = w[c] /\ ack <= c
      <3>1. \A c \in DOMAIN rest : c \in DOMAIN w /\ rest[c] = w[c] /\ c \notin s.tx_next_ack .. highest
        OBVIOUS
      <3>2. \A c \in DOMAIN rest : ack <= c
        BY <1>2, <2>1, <3>1
      <3> HIDE DEF rest
      <3> QED
        BY <2>4, <3>1, <3>2
    <2>7. acked.tx_trans \in Nat /\ ack <= acked.tx_trans /\ acked.tx_trans <= s.tx_next
      BY <1>2, <2>1, <2>4, LargerFacts
    \* Whatever becomes of the timer.
    <2>8. ASSUME NEW u, SameControl(acked, u), u.tx_next = s.tx_next, u.tx_next_ack = ack,
                 u.tx_trans = acked.tx_trans, u.tx_window = acked.tx_window,
                 u.tx_trans_crypto = s.tx_trans_crypto, u.tx_reord_crypto = s.tx_reord_crypto,
                 u.crypto_reordering_timer = s.crypto_reordering_timer, u.lower = s.lower,
                 u.failed \in BOOLEAN, u.overdue \in BOOLEAN, u.discard_timer \in Nat \cup {Off},
                 ~u.failed => DiscardInv(u)
          PROVE  DataStep(s, u)
      <3>1. SameControl(s, u)
        BY <2>4, <2>8 DEF SameControl
      <3>2. EntityType(u)
        BY <1>1, <2>1, <2>6, <2>7, <2>8, <3>1 DEF EntityType, SameControl
      <3>3. WindowInv(u)
        <4>1. DOMAIN u.tx_window \subseteq ack .. (s.tx_next - 1)
          BY <1>2, <2>1, <2>6, <2>8
        <4>2. u.stopped => DOMAIN u.tx_window = {}
          BY <1>1, <2>6, <2>8, <3>1 DEF WindowInv, SameControl
        <4> QED
          BY <1>2, <2>7, <2>8, <4>1, <4>2 DEF WindowInv
      <3>4. Removes(s, u)
        BY <1>2, <2>1, <2>6, <2>8, <3>1 DEF Removes
      <3> QED
        BY <2>8, <3>2, <3>3, <3>4, RemovesKeeps
    <2>9. DOMAIN acked = Fields /\ SameControl(acked, acked)
      BY <2>4 DEF SameControl
    <2>10. s.failed \in BOOLEAN /\ s.stopped \in BOOLEAN
      BY <1>1 DEF EntityType
    <2>11. TickModulus \in Nat \ {0} /\ cfg.discard_timer \in Nat /\ cfg.discard_timer < TickModulus
      BY TickFacts
    <2>12. CASE cfg.discard_timer = 0 \/ ack = s.tx_next
      <3>1. t = acked
        BY <2>5, <2>12
      <3>2. DiscardInv(acked)
        <4>1. CASE cfg.discard_timer = 0
          BY <4>1 DEF DiscardInv
        <4>2. CASE ack = s.tx_next
          <5>1. DOMAIN acked.tx_window = {}
            <6>1. ASSUME NEW c \in DOMAIN acked.tx_window
                  PROVE  FALSE
              <7>1. c \in Nat /\ c < s.tx_next /\ s.tx_next <= c
                BY <1>2, <2>6, <4>2
              <7> QED
                BY <1>2, <7>1
            <6> QED
              BY <6>1
          <5>2. Off <= cfg.discard_timer + 1
            BY <2>11 DEF Off
          <5> QED
            BY <2>4, <4>2, <5>1, <5>2 DEF DiscardInv
        <4> QED
          BY <2>12, <4>1, <4>2
      <3> QED
        BY <2>4, <2>8, <2>9, <2>10, <3>1, <3>2 DEF t
    <2>13. CASE ~(cfg.discard_timer = 0 \/ ack = s.tx_next) /\ ~Has(acked, ack)
      <3>1. t = [acked EXCEPT !.failed = TRUE]
        BY <2>5, <2>13
      <3>2. /\ SameControl(acked, t) /\ t.tx_next = s.tx_next /\ t.tx_next_ack = ack
            /\ t.tx_trans = acked.tx_trans /\ t.tx_window = acked.tx_window
            /\ t.tx_trans_crypto = s.tx_trans_crypto /\ t.tx_reord_crypto = s.tx_reord_crypto
            /\ t.crypto_reordering_timer = s.crypto_reordering_timer /\ t.lower = s.lower
            /\ t.failed = TRUE /\ t.overdue = FALSE /\ t.discard_timer = Off
        BY <2>4, <2>9, <3>1 DEF SameControl, Fields
      <3> QED
        BY <2>8, <3>2 DEF t
    <2>14. CASE ~(cfg.discard_timer = 0 \/ ack = s.tx_next) /\ Has(acked, ack)
      <3> DEFINE left == acked.tx_window[ack].left
                 timer == RunFor(left % TickModulus)
                 late == Has(acked, ack) /\ left < 0
      <3>1. t = [acked EXCEPT !.discard_timer = timer, !.overdue = late]
        BY <2>5, <2>14
      <3>2. ack \in DOMAIN acked.tx_window /\ ack \in DOMAIN w /\ left = w[ack].left
        BY <2>6, <2>14 DEF Has
      <3>3. left \in Int
        <4>1. w[ack] \in Entries
          BY <1>1, <3>2 DEF EntityType
        <4> QED
          BY <3>2, <4>1 DEF Entries, Records
      <3>4. (late <=> left < 0) /\ late \in BOOLEAN
        BY <2>14, <3>3
      <3> HIDE DEF left
      <3>5. left % TickModulus \in Nat /\ (0 <= left /\ left < TickModulus => left % TickModulus = left)
        BY <2>11, <3>3, WrapFacts
      <3>6. timer \in Nat /\ timer # Off
        BY <3>5, RunForFacts
      <3>7. 0 <= left /\ left < TickModulus => timer <= left + 1
        <4> SUFFICES ASSUME 0 <= left, left < TickModulus
                     PROVE  timer <= left + 1
          OBVIOUS
        <4>1. left % TickModulus = left
          BY <3>5
        <4> QED
          BY <3>3, <4>1, RunForFacts
      <3> HIDE DEF timer, late
      <3>8. /\ SameControl(acked, t) /\ t.tx_next = s.tx_next /\ t.tx_next_ack = ack
            /\ t.tx_trans = acked.tx_trans /\ t.tx_window = acked.tx_window
            /\ t.tx_trans_crypto = s.tx_trans_crypto /\ t.tx_reord_crypto = s.tx_reord_crypto
            /\ t.crypto_reordering_timer = s.crypto_reordering_timer /\ t.lower = s.lower
            /\ t.failed = s.failed /\ t.overdue = late /\ t.discard_timer = timer
        BY <2>4, <2>9, <3>1 DEF SameControl, Fields
      <3>9. DiscardInv(t)
        <4> SUFFICES ASSUME cfg.discard_timer # 0, ~t.stopped
                     PROVE  DiscardInv(t)
          BY DEF DiscardInv
        <4>1. /\ \A c \in DOMAIN w : w[c].left <= cfg.discard_timer
              /\ \A c, d \in DOMAIN w : c <= d => w[c].left <= w[d].left
          BY <1>1, <2>4, <3>8 DEF DiscardInv, SameControl
        <4>2. \A c \in DOMAIN w : w[c].left \in Int
          <5>1. \A c \in DOMAIN w : w[c] \in Entries
            BY <1>1 DEF EntityType
          <5> QED
            BY <5>1 DEF Entries, Records
        <4>3. left <= cfg.discard_timer /\ left < TickModulus
          BY <2>11, <3>2, <3>3, <4>1
        <4>4. late \/ timer <= left + 1
          BY <3>3, <3>4, <3>7, <4>3
        <4>5. \A c \in DOMAIN t.tx_window : /\ t.tx_window[c].left <= cfg.discard_timer
                                            /\ late \/ timer <= t.tx_window[c].left + 1
          <5> SUFFICES ASSUME NEW c \in DOMAIN t.tx_window
                       PROVE  /\ t.tx_window[c].left <= cfg.discard_timer
                              /\ late \/ timer <= t.tx_window[c].left + 1
            OBVIOUS
          <5>1. c \in DOMAIN w /\ t.tx_window[c].left = w[c].left /\ ack <= c
            BY <2>6, <3>8
          <5>2. left <= w[c].left
            BY <3>2, <4>1, <5>1
          <5>3. w[c].left \in Int
            BY <4>2, <5>1
          <5> QED
            BY <3>3, <3>6, <4>1, <4>4, <5>1, <5>2, <5>3
        <4>6. \A c, d \in DOMAIN t.tx_window :
                c <= d => t.tx_window[c].left <= t.tx_window[d].left
          BY <2>6, <3>8, <4>1
        <4>7. late \/ timer <= cfg.discard_timer + 1
          BY <2>11, <3>3, <3>6, <4>3, <4>4
        <4>8. ack \in DOMAIN t.tx_window
          BY <3>2, <3>8
        <4> QED
          BY <3>6, <3>8, <4>5, <4>6, <4>7, <4>8 DEF DiscardInv
      <3> QED
        BY <2>8, <2>10, <3>4, <3>6, <3>8, <3>9 DEF t
    <2> QED
      BY <2>12, <2>13, <2>14
  <1> QED
    BY <1>3, <1>4

\* handle_delivery_notification.
LEMMA DeliveryKeeps ==
  ASSUME NEW s, EntityInv(s), NEW c \in Nat,
         cfg \in [rlc_mode : Modes, discard_timer : DiscardTimers]
  PROVE  DataStep(s, HandleDeliveryNotification(s, SN(c)))
  <1> DEFINE count == NotificationCountEstimation(s, SN(c))
  <1>1. count \in Nat
    <2>1. s.tx_next_ack \in Nat
      BY DEF EntityInv, EntityType
    <2> QED
      BY <2>1, CountIsNat DEF NotificationCountEstimation
  <1>2. HandleDeliveryNotification(s, SN(c)) \in {s, StopDiscardTimer(s, count)}
    BY DEF HandleDeliveryNotification
  <1> HIDE DEF count
  <1> QED
    BY <1>1, <1>2, DataStutter, StopDiscardTimerKeeps

\* handle_transmit_notification.
LEMMA TransmitKeeps ==
  ASSUME NEW s, EntityInv(s), NEW c \in Nat,
         cfg \in [rlc_mode : Modes, discard_timer : DiscardTimers]
  PROVE  DataStep(s, HandleTransmitNotification(s, SN(c)))
  <1> DEFINE count == NotificationCountEstimation(s, SN(c))
             moved == [s EXCEPT !.tx_trans = count + 1]
             t == HandleTransmitNotification(s, SN(c))
  <1>1. EntityType(s) /\ WindowInv(s) /\ LowerInv(s) /\ TimerInv(s) /\ DiscardInv(s)
    BY DEF EntityInv
  <1>2. /\ DOMAIN s = Fields /\ s.tx_next \in Nat /\ s.tx_trans \in Nat /\ s.tx_next_ack \in Nat
        /\ s.tx_next_ack <= s.tx_trans /\ s.tx_trans <= s.tx_next
    BY <1>1, CountFacts
  <1>3. count \in Nat
    BY <1>2, CountIsNat DEF NotificationCountEstimation
  <1>4. \/ t = s
        \/ count >= s.tx_trans /\ count < s.tx_next /\ t \in {moved, StopDiscardTimer(moved, count)}
    <2>1. t = IF s.stopped \/ count >= s.tx_trans_crypto \/ count < s.tx_trans \/ count >= s.tx_next
              THEN s
              ELSE IF cfg.rlc_mode = "um" THEN StopDiscardTimer(moved, count) ELSE moved
      BY DEF HandleTransmitNotification
    <2> HIDE DEF count, moved, t
    <2> QED
      BY <1>2, <1>3, <2>1
  <1> HIDE DEF count, t
  <1>5. CASE t = s
    BY <1>5, DataStutter DEF t
  <1>6. CASE count >= s.tx_trans /\ count < s.tx_next /\ t \in {moved, StopDiscardTimer(moved, count)}
    <2>1. /\ SameControl(s, moved) /\ moved.tx_next = s.tx_next
          /\ moved.tx_next_ack = s.tx_next_ack /\ moved.tx_trans = count + 1
          /\ moved.tx_trans_crypto = s.tx_trans_crypto /\ moved.tx_reord_crypto = s.tx_reord_crypto
          /\ moved.crypto_reordering_timer = s.crypto_reordering_timer /\ moved.lower = s.lower
          /\ moved.tx_window = s.tx_window /\ moved.failed = s.failed
          /\ moved.discard_timer = s.discard_timer /\ moved.overdue = s.overdue
      BY <1>2 DEF SameControl, Fields
    <2> HIDE DEF moved
    <2>2. count + 1 \in Nat /\ s.tx_next_ack <= count + 1 /\ count + 1 <= s.tx_next
      BY <1>2, <1>3, <1>6
    <2>3. EntityType(moved)
      BY <1>1, <2>1, <2>2 DEF EntityType, SameControl
    <2>4. WindowInv(moved)
      BY <1>1, <2>1, <2>2 DEF WindowInv, SameControl
    <2>5. DiscardInv(moved)
      BY <1>1, <2>1 DEF DiscardInv, SameControl
    <2>6. DataStep(s, moved)
      <3>1. Removes(s, moved)
        BY <1>2, <2>1 DEF Removes
      <3> QED
        BY <2>3, <2>4, <2>5, <3>1, RemovesKeeps
    <2>7. EntityInv(moved)
      <3>1. LowerInv(moved)
        BY <1>1, <2>1, SameLower DEF SameControl
      <3>2. TimerInv(moved)
        BY <1>1, <2>1 DEF TimerInv, Ready, Has, SameControl
      <3> QED
        BY <2>3, <2>4, <2>5, <3>1, <3>2 DEF EntityInv
    <2>8. ASSUME DataStep(moved, t)
          PROVE  DataStep(s, t)
      <3>1. SameControl(s, t)
        BY <2>1, <2>8 DEF DataStep, SameControl
      <3> QED
        BY <2>1, <2>8, <3>1 DEF DataStep
    <2>9. CASE t = moved
      BY <2>6, <2>9 DEF t
    <2>10. CASE t = StopDiscardTimer(moved, count)
      <3>1. DataStep(moved, t)
        BY <1>3, <2>7, <2>10, StopDiscardTimerKeeps
      <3> QED
        BY <2>8, <3>1 DEF t
    <2> QED
      BY <1>6, <2>9, <2>10
  <1> QED
    BY <1>4, <1>5, <1>6

\* discard_callback: the timer is started for the next SDU that is due.
LEMMA DiscardCallbackKeeps ==
  ASSUME NEW s, EntityInv(s), s.discard_timer = 0,
         cfg \in [rlc_mode : Modes, discard_timer : DiscardTimers]
  PROVE  DataStep(s, DiscardCallback(s))
  <1> DEFINE w == s.tx_window
             oldest == w[s.tx_next_ack].left
             same == {c \in DOMAIN w : \A d \in DOMAIN w : d <= c => w[d].left = oldest}
             expired == [s EXCEPT !.discard_timer = Off]
             gone == DiscardPdus(expired, same)
             ack == gone.tx_next_ack
             t == DiscardCallback(s)
  <1>1. EntityType(s) /\ WindowInv(s) /\ LowerInv(s) /\ TimerInv(s) /\ DiscardInv(s)
    BY DEF EntityInv
  <1>2. /\ DOMAIN s = Fields /\ s.tx_next \in Nat /\ s.tx_next_ack \in Nat
        /\ \A c \in DOMAIN w : c \in Nat /\ s.tx_next_ack <= c /\ c < s.tx_next
    BY <1>1, CountFacts
  <1>3. t = IF s.stopped \/ ~Has(s, s.tx_next_ack) THEN expired
            ELSE IF Has(gone, ack) THEN [gone EXCEPT !.discard_timer = RunFor(w[ack].left - oldest)]
            ELSE gone
    <2>1. Outstanding(s) = DOMAIN w
      BY <1>2 DEF Outstanding
    <2> QED
      BY <2>1 DEF DiscardCallback
  <1>4. /\ SameControl(s, expired) /\ expired.tx_next = s.tx_next
        /\ expired.tx_next_ack = s.tx_next_ack /\ expired.tx_trans = s.tx_trans
        /\ expired.tx_trans_crypto = s.tx_trans_crypto /\ expired.tx_reord_crypto = s.tx_reord_crypto
        /\ expired.crypto_reordering_timer = s.crypto_reordering_timer /\ expired.lower = s.lower
        /\ expired.tx_window = w /\ expired.failed = s.failed
        /\ expired.discard_timer = Off /\ expired.overdue = s.overdue
    BY <1>2 DEF SameControl, Fields
  <1> HIDE DEF t, expired, same
  <1>5. EntityType(expired) /\ WindowInv(expired)
    <2>1. EntityType(expired)
      BY <1>1, <1>4 DEF EntityType, SameControl
    <2>2. WindowInv(expired)
      BY <1>1, <1>4 DEF WindowInv, SameControl
    <2> QED
      BY <2>1, <2>2
  <1>6. cfg.discard_timer \in Nat
    BY TickFacts
  <1>7. CASE s.stopped \/ ~Has(s, s.tx_next_ack)
    <2>1. t = expired
      BY <1>3, <1>7
    <2>2. DiscardInv(expired)
      <3>1. Off <= cfg.discard_timer + 1
        BY <1>6 DEF Off
      <3>2. cfg.discard_timer # 0 /\ ~s.stopped => DOMAIN w = {} /\ s.tx_next_ack = s.tx_next
        BY <1>1, <1>7 DEF DiscardInv, Has
      <3>3. expired.stopped = s.stopped
        BY <1>4 DEF SameControl
      <3> QED
        BY <1>4, <3>1, <3>2, <3>3 DEF DiscardInv
    <2>3. Removes(s, expired)
      BY <1>2, <1>4 DEF Removes
    <2> QED
      BY <1>5, <2>1, <2>2, <2>3, RemovesKeeps DEF t
  <1>8. CASE ~(s.stopped \/ ~Has(s, s.tx_next_ack))
    <2>1. s.tx_next_ack \in DOMAIN w
      BY <1>8 DEF Has
    <2>2. \A c \in DOMAIN w : w[c] \in Entries /\ w[c].left \in Int
      <3>1. \A c \in DOMAIN w : w[c] \in Entries
        BY <1>1 DEF EntityType
      <3> QED
        BY <3>1 DEF Entries, Records
    <2>3. s.tx_next_ack \in same
      <3>1. ASSUME NEW d \in DOMAIN w, d <= s.tx_next_ack
            PROVE  w[d].left = oldest
        <4>1. d = s.tx_next_ack
          BY <1>2, <3>1
        <4> QED
          BY <4>1
      <3> QED
        BY <2>1, <3>1 DEF same
    <2>4. /\ EntityType(gone) /\ WindowInv(gone) /\ Removes(expired, gone)
          /\ gone.failed = expired.failed
          /\ gone.discard_timer = expired.discard_timer /\ gone.overdue = expired.overdue
          /\ DOMAIN gone.tx_window = DOMAIN expired.tx_window \ same
          /\ DOMAIN gone.tx_window # DOMAIN expired.tx_window =>
               \/ gone.tx_next_ack \in DOMAIN gone.tx_window
               \/ DOMAIN gone.tx_window = {} /\ gone.tx_next_ack = expired.tx_next
      BY <1>5, DiscardPdusFields
    <2> HIDE DEF gone
    <2>5. /\ Removes(s, gone) /\ gone.failed = s.failed /\ gone.discard_timer = Off
          /\ gone.overdue = s.overdue /\ DOMAIN gone.tx_window = DOMAIN w \ same
          /\ ack \in DOMAIN gone.tx_window \/ (DOMAIN gone.tx_window = {} /\ ack = s.tx_next)
      <3>1. Removes(s, gone)
        BY <1>4, <2>4 DEF Removes, SameControl
      <3>2. DOMAIN gone.tx_window # DOMAIN expired.tx_window
        BY <1>4, <2>1, <2>3, <2>4
      <3> QED
        BY <1>4, <2>4, <3>1, <3>2
    <2>6. CASE ~Has(gone, ack)
      <3>1. t = gone
        BY <1>3, <1>8, <2>6
      <3>2. DiscardInv(gone)
        <4>1. Off <= cfg.discard_timer + 1
          BY <1>6 DEF Off
        <4>2. DOMAIN gone.tx_window = {} /\ ack = gone.tx_next
          BY <2>5, <2>6 DEF Has, Removes
        <4> QED
          BY <2>5, <4>1, <4>2 DEF DiscardInv
      <3> QED
        BY <2>4, <2>5, <3>1, <3>2, RemovesKeeps DEF t
    <2>7. CASE Has(gone, ack)
      <3> DEFINE next == w[ack].left
                 timer == RunFor(next - oldest)
      <3>1. t = [gone EXCEPT !.discard_timer = timer]
        BY <1>3, <1>8, <2>7
      <3>2. ack \in DOMAIN w /\ ack \notin same /\ oldest \in Int /\ next \in Int
        BY <2>1, <2>2, <2>5, <2>7 DEF Has
      <3> HIDE DEF oldest, next
      <3>3. timer \in Nat /\ timer # Off /\ \A m \in Int : next - oldest <= m /\ 1 <= m => timer <= m
        BY <3>2, RunForFacts
      <3> HIDE DEF timer
      <3>4. DOMAIN gone = Fields
        BY <2>5 DEF Removes, SameControl
      <3>5. /\ SameControl(gone, t) /\ t.tx_next = gone.tx_next /\ t.tx_next_ack = ack
            /\ t.tx_trans = gone.tx_trans
            /\ t.tx_trans_crypto = gone.tx_trans_crypto /\ t.tx_reord_crypto = gone.tx_reord_crypto
            /\ t.crypto_reordering_timer = gone.crypto_reordering_timer /\ t.lower = gone.lower
            /\ t.tx_window = gone.tx_window /\ t.failed = gone.failed
            /\ t.discard_timer = timer /\ t.overdue = gone.overdue
        BY <3>1, <3>4 DEF SameControl, Fields
      <3>6. EntityType(t)
        BY <2>4, <3>3, <3>5 DEF EntityType, SameControl
      <3>7. WindowInv(t)
        BY <2>4, <3>5 DEF WindowInv, SameControl
      <3>8. Removes(s, t)
        BY <2>5, <3>5 DEF Removes, SameControl
      <3>9. DiscardInv(t)
        <4> SUFFICES ASSUME cfg.discard_timer # 0, ~t.stopped
                     PROVE  DiscardInv(t)
          BY DEF DiscardInv
        <4>1. /\ \A c \in DOMAIN w : /\ w[c].left <= cfg.discard_timer
                                     /\ s.overdue \/ 0 <= w[c].left + 1
              /\ \A c, d \in DOMAIN w : c <= d => w[c].left <= w[d].left
          <5>1. ~s.stopped
            BY <1>8
          <5> QED
            BY <1>1, <5>1 DEF DiscardInv
        <4>2. oldest < next
          <5>1. PICK d \in DOMAIN w : d <= ack /\ w[d].left # oldest
            BY <3>2 DEF same
          <5>2. oldest <= w[d].left /\ w[d].left <= next
            BY <1>2, <2>1, <3>2, <4>1, <5>1 DEF oldest, next
          <5> QED
            BY <2>2, <3>2, <5>1, <5>2
        <4>3. s.overdue \/ (0 <= oldest + 1 /\ timer <= next + 1)
          <5>1. ASSUME ~s.overdue
                PROVE  0 <= oldest + 1 /\ timer <= next + 1
            <6>1. 0 <= oldest + 1
              BY <2>1, <4>1, <5>1 DEF oldest
            <6>2. next - oldest <= next + 1 /\ 1 <= next + 1 /\ next + 1 \in Int
              BY <3>2, <4>2, <6>1
            <6> QED
              BY <3>3, <6>1, <6>2
          <5> QED
            BY <5>1
        <4>4. \A c \in DOMAIN t.tx_window :
                /\ t.tx_window[c].left <= cfg.discard_timer
                /\ t.overdue \/ timer <= t.tx_window[c].left + 1
          <5> SUFFICES ASSUME NEW c \in DOMAIN t.tx_window
                       PROVE  /\ t.tx_window[c].left <= cfg.discard_timer
                              /\ t.overdue \/ timer <= t.tx_window[c].left + 1
            OBVIOUS
          <5>1. c \in DOMAIN w /\ t.tx_window[c] = w[c] /\ ack <= c
            <6>1. c \in DOMAIN gone.tx_window /\ t.tx_window[c] = w[c]
              BY <3>5, <3>8 DEF Removes
            <6>2. c \in DOMAIN w
              BY <2>5, <6>1
            <6>3. ack <= c
              BY <2>4, <6>1, CountFacts
            <6> QED
              BY <6>1, <6>2, <6>3
          <5>2. next <= w[c].left
            BY <3>2, <4>1, <5>1 DEF next
          <5>3. t.overdue = s.overdue
            BY <2>5, <3>5
          <5>4. w[c].left \in Int
            BY <2>2, <5>1
          <5> QED
            BY <3>2, <3>3, <4>1, <4>3, <5>1, <5>2, <5>3, <5>4
        <4>5. \A c, d \in DOMAIN t.tx_window :
                c <= d => t.tx_window[c].left <= t.tx_window[d].left
          BY <3>8, <4>1 DEF Removes
        <4>6. t.overdue \/ timer <= cfg.discard_timer + 1
          <5>1. next <= cfg.discard_timer
            BY <3>2, <4>1 DEF next
          <5>2. t.overdue = s.overdue
            BY <2>5, <3>5
          <5> QED
            BY <1>6, <3>2, <3>3, <4>3, <5>1, <5>2
        <4>7. ack \in DOMAIN t.tx_window
          BY <2>7, <3>5 DEF Has
        <4> QED
          BY <3>3, <3>5, <4>4, <4>5, <4>6, <4>7 DEF DiscardInv
      <3> QED
        BY <3>6, <3>7, <3>8, <3>9, RemovesKeeps DEF t
    <2> QED
      BY <2>6, <2>7
  <1> QED
    BY <1>7, <1>8

\* A tick brings the timer and the SDUs nearer to their end alike.
LEMMA TickKeeps ==
  ASSUME NEW s, EntityInv(s), s.discard_timer > 0,
         cfg \in [rlc_mode : Modes, discard_timer : DiscardTimers]
  PROVE  DataStep(s, [s EXCEPT !.discard_timer = @ - 1,
                        !.tx_window = [c \in DOMAIN @ |-> [s.tx_window[c] EXCEPT !.left = @ - 1]]])
  <1> DEFINE w == s.tx_window
             Aged(r) == [r EXCEPT !.left = @ - 1]
             aged == [c \in DOMAIN w |-> [w[c] EXCEPT !.left = @ - 1]]
             t == [s EXCEPT !.discard_timer = @ - 1,
                            !.tx_window = [c \in DOMAIN @ |-> [s.tx_window[c] EXCEPT !.left = @ - 1]]]
  <1>1. EntityType(s) /\ WindowInv(s) /\ LowerInv(s) /\ TimerInv(s) /\ DiscardInv(s)
    BY DEF EntityInv
  <1>2. DOMAIN s = Fields /\ s.discard_timer \in Nat \ {0}
    BY <1>1 DEF EntityType, Off
  <1>3. \A c \in DOMAIN w : w[c] \in Entries /\ w[c].left \in Int
    <2>1. \A c \in DOMAIN w : w[c] \in Entries
      BY <1>1 DEF EntityType
    <2> QED
      BY <2>1 DEF Entries, Records
  <1>4. \A r \in Entries : /\ Aged(r) \in Entries /\ Aged(r).sdu = r.sdu /\ Aged(r).pdu = r.pdu
                           /\ Aged(r).left = r.left - 1
    BY DEF Entries, Records
  <1>5. DOMAIN aged = DOMAIN w /\ \A c \in DOMAIN w : aged[c] = Aged(w[c])
    OBVIOUS
  <1>6. t = [s EXCEPT !.discard_timer = s.discard_timer - 1, !.tx_window = aged]
    OBVIOUS
  <1> HIDE DEF aged, Aged, t
  <1>7. /\ SameControl(s, t) /\ t.tx_next = s.tx_next /\ t.tx_next_ack = s.tx_next_ack
        /\ t.tx_trans = s.tx_trans
        /\ t.tx_trans_crypto = s.tx_trans_crypto /\ t.tx_reord_crypto = s.tx_reord_crypto
        /\ t.crypto_reordering_timer = s.crypto_reordering_timer /\ t.lower = s.lower
        /\ t.tx_window = aged /\ t.failed = s.failed
        /\ t.discard_timer = s.discard_timer - 1 /\ t.overdue = s.overdue
    BY <1>2, <1>6 DEF SameControl, Fields
  <1>8. /\ DOMAIN t.tx_window = DOMAIN w
        /\ \A c \in DOMAIN w : /\ t.tx_window[c] \in Entries /\ t.tx_window[c].sdu = w[c].sdu
                               /\ t.tx_window[c].pdu = w[c].pdu
                               /\ t.tx_window[c].left = w[c].left - 1
    BY <1>3, <1>4, <1>5, <1>7
  <1>9. EntityType(t)
    <2>1. s.discard_timer - 1 \in Nat
      BY <1>2
    <2> QED
      BY <1>1, <1>7, <1>8, <2>1 DEF EntityType, SameControl
  <1>10. WindowInv(t)
    BY <1>1, <1>7, <1>8 DEF WindowInv, SameControl
  <1>11. LowerInv(t)
    <2>1. /\ t.key = s.key /\ t.retransmit_id = s.retransmit_id /\ t.buffering = s.buffering
      BY <1>7 DEF SameControl
    <2>2. PduInv(t)
      BY <1>1, <1>7, <1>8, <2>1 DEF LowerInv, PduInv
    <2>3. Parked(t) \/ KeyLow(t)
      BY <1>1, <1>7, <1>8, <2>1 DEF LowerInv, Parked, KeyLow
    <2>4. ReadyInv(t)
      BY <1>1, <1>7, <1>8, <2>1 DEF LowerInv, ReadyInv
    <2>5. KeyOnce(t) /\ InOrderInv(t)
      BY <1>1, <1>7 DEF LowerInv, KeyOnce, InOrderInv
    <2> QED
      BY <2>2, <2>3, <2>4, <2>5 DEF LowerInv
  <1>12. TimerInv(t)
    BY <1>1, <1>7, <1>8 DEF TimerInv, Ready, Has, SameControl
  <1>13. DiscardInv(t)
    <2> SUFFICES ASSUME cfg.discard_timer # 0, ~t.stopped
                 PROVE  DiscardInv(t)
      BY DEF DiscardInv
    <2>1. /\ DOMAIN w = {} => s.tx_next_ack = s.tx_next
          /\ DOMAIN w # {} => s.tx_next_ack \in DOMAIN w
          /\ \A c \in DOMAIN w : /\ w[c].left <= cfg.discard_timer
                                 /\ s.overdue \/ s.discard_timer <= w[c].left + 1
          /\ \A c, d \in DOMAIN w : c <= d => w[c].left <= w[d].left
          /\ s.overdue \/ s.discard_timer <= cfg.discard_timer + 1
      BY <1>1, <1>7 DEF DiscardInv, SameControl
    <2>2. cfg.discard_timer \in Nat
      BY TickFacts
    <2>3. \A c \in DOMAIN w : /\ w[c].left - 1 <= cfg.discard_timer
                              /\ s.overdue \/ s.discard_timer - 1 <= (w[c].left - 1) + 1
      BY <1>2, <1>3, <2>1, <2>2
    <2>4. \A c, d \in DOMAIN w : c <= d => w[c].left - 1 <= w[d].left - 1
      BY <1>3, <2>1
    <2>5. s.overdue \/ s.discard_timer - 1 <= cfg.discard_timer + 1
      BY <1>2, <2>1, <2>2
    <2>6. t.discard_timer # Off
      BY <1>2, <1>7 DEF Off
    <2>7. \A c \in DOMAIN t.tx_window : /\ t.tx_window[c].left <= cfg.discard_timer
                                        /\ t.overdue \/ t.discard_timer <= t.tx_window[c].left + 1
      BY <1>7, <1>8, <2>3
    <2>8. \A c, d \in DOMAIN t.tx_window : c <= d => t.tx_window[c].left <= t.tx_window[d].left
      BY <1>8, <2>4
    <2>9. /\ DOMAIN t.tx_window = {} => t.tx_next_ack = t.tx_next
          /\ DOMAIN t.tx_window # {} => t.tx_next_ack \in DOMAIN t.tx_window
          /\ t.overdue \/ t.discard_timer <= cfg.discard_timer + 1
      BY <1>7, <1>8, <2>1, <2>5
    <2> QED
      BY <2>6, <2>7, <2>8, <2>9 DEF DiscardInv
  <1>14. Len(s.lower) <= Len(t.lower)
    BY <1>1, <1>7, SubmittedFacts
  <1> QED
    <2>1. DataStep(s, t)
      BY <1>7, <1>8, <1>9, <1>10, <1>11, <1>12, <1>13, <1>14 DEF DataStep, EntityInv, LowerInv
    <2> QED
      BY <2>1 DEF t

-----------------------------------------------------------------------------
(* Transmission and retransmission.                                        *)

\* The image of a finite set under a function.
LEMMA FiniteImage ==
  ASSUME NEW S, IsFiniteSet(S), NEW f, DOMAIN f = S
  PROVE  IsFiniteSet({f[x] : x \in S})
  <1> DEFINE T == {f[x] : x \in S}
             g == [x \in S |-> f[x]]
  <1>1. g \in Surjection(S, T)
    BY DEF Surjection
  <1> QED
    BY <1>1, FS_Surjection

\* What ciphering leaves alone.
SameButTasks(s, t) ==
  /\ DOMAIN t = Fields /\ SameCounts(s, t)
  /\ t.key = s.key /\ t.pending_crypto = s.pending_crypto
  /\ t.buffering = s.buffering /\ t.sdu_buffer = s.sdu_buffer /\ t.suspended = s.suspended
  /\ t.resume_requested = s.resume_requested /\ t.stopped = s.stopped
  /\ t.desired_buffer_size = s.desired_buffer_size /\ t.retransmit_id = s.retransmit_id
  /\ t.tx_trans_crypto = s.tx_trans_crypto /\ t.tx_reord_crypto = s.tx_reord_crypto
  /\ t.crypto_reordering_timer = s.crypto_reordering_timer
  /\ t.tx_window = s.tx_window /\ t.lower = s.lower /\ t.failed = s.failed

\* The tokens in excess of the tasks with the workers.
Balance(s) == s.tokens - Cardinality(s.crypto)

\* What the tasks and tokens are does not matter between two tasks of the strand.
LEMMA SameButTasksKeeps ==
  ASSUME NEW s, NEW t, EntityInv(s), SameButTasks(s, t),
         t.tokens \in Int, t.crypto \in SUBSET Tasks, IsFiniteSet(t.crypto)
  PROVE  EntityInv(t)
  <1>1. EntityType(t)
    BY DEF EntityInv, EntityType, SameButTasks, SameCounts
  <1>2. WindowInv(t)
    BY DEF EntityInv, WindowInv, SameButTasks, SameCounts
  <1>3. LowerInv(t)
    BY SameLower DEF EntityInv, SameButTasks, SameCounts
  <1>4. TimerInv(t)
    BY DEF EntityInv, TimerInv, Ready, Has, SameButTasks, SameCounts
  <1>5. DiscardInv(t)
    BY DEF EntityInv, DiscardInv, SameButTasks, SameCounts
  <1> QED
    BY <1>1, <1>2, <1>3, <1>4, <1>5 DEF EntityInv

\* crypto_executor.execute takes a token for every task.
LEMMA EncryptFields ==
  ASSUME NEW s, EntityInv(s), NEW tasks \in SUBSET Tasks, IsFiniteSet(tasks),
         tasks \cap s.crypto = {}
  PROVE  LET t == Encrypt(s, tasks)
         IN EntityInv(t) /\ SameButTasks(s, t) /\ t.crypto = s.crypto \cup tasks
            /\ Balance(t) = Balance(s)
  <1> DEFINE t == Encrypt(s, tasks)
  <1>1. /\ DOMAIN s = Fields /\ s.tokens \in Int /\ s.crypto \in SUBSET Tasks
        /\ IsFiniteSet(s.crypto)
    BY DEF EntityInv, EntityType
  <1>2. /\ SameButTasks(s, t) /\ t.crypto = s.crypto \cup tasks
        /\ t.tokens = s.tokens + Cardinality(tasks)
    BY <1>1 DEF Encrypt, SameButTasks, SameCounts, Fields
  <1> HIDE DEF t
  <1>3. /\ IsFiniteSet(t.crypto)
        /\ Cardinality(t.crypto) = Cardinality(s.crypto) + Cardinality(tasks) - Cardinality({})
    BY <1>1, <1>2, FS_Union
  <1>4. /\ Cardinality({}) = 0 /\ Cardinality(tasks) \in Nat /\ Cardinality(s.crypto) \in Nat
    BY <1>1, FS_EmptySet, FS_CardinalityType
  <1>5. t.tokens \in Int /\ Balance(t) = Balance(s)
    BY <1>1, <1>2, <1>3, <1>4 DEF Balance
  <1>6. t.crypto \in SUBSET Tasks
    BY <1>1, <1>2
  <1>7. EntityInv(t)
    BY <1>2, <1>3, <1>5, <1>6, SameButTasksKeeps
  <1> QED
    BY <1>2, <1>5, <1>7 DEF t

\* What giving out COUNTs leaves alone, and what it adds to the window and to the tasks.
Accepts(s, t, batch) ==
  /\ DOMAIN t = Fields
  /\ t.key = s.key /\ t.pending_crypto = s.pending_crypto
  /\ t.buffering = s.buffering /\ t.sdu_buffer = s.sdu_buffer /\ t.suspended = s.suspended
  /\ t.stopped = s.stopped /\ t.retransmit_id = s.retransmit_id
  /\ t.lower = s.lower /\ t.failed = s.failed
  /\ t.tx_next = s.tx_next + Len(batch) /\ Balance(t) = Balance(s)
  /\ \A c \in DOMAIN t.tx_window :
       \/ c \in DOMAIN s.tx_window /\ t.tx_window[c].sdu = s.tx_window[c].sdu
       \/ \E i \in DOMAIN batch : t.tx_window[c].sdu = batch[i]
  /\ \A task \in t.crypto :
       /\ Matches(t, task)
       /\ task \in s.crypto \/ \E i \in DOMAIN batch : task.sdu = batch[i]
  /\ \A x \in Results : Matches(s, x) => Matches(t, x)

\* handle_sdu, for SDUs that are not dropped.
LEMMA AcceptKeeps ==
  ASSUME NEW s, EntityInv(s), KeyLow(s), ~s.stopped,
         \A task \in s.crypto : Matches(s, task),
         NEW batch \in Seq(Nat), s.tx_next + Len(batch) <= MaxCount, NEW lost,
         cfg \in [rlc_mode : Modes, discard_timer : DiscardTimers]
  PROVE  EntityInv(Accept(s, batch, lost)) /\ Accepts(s, Accept(s, batch, lost), batch)
  <1> DEFINE next == s.tx_next
             w == s.tx_window
             counts == next .. (next + Len(batch) - 1)
             Sdu(c) == batch[c - next + 1]
             Entry(c) == [sdu |-> Sdu(c), pdu |-> NoPdu, left |-> cfg.discard_timer]
             first == batch # <<>> /\ s.discard_timer = Off
             window == [c \in DOMAIN w \cup counts |-> IF c \in counts THEN Entry(c) ELSE w[c]]
             timer == IF first /\ cfg.discard_timer # 0 THEN RunFor(cfg.discard_timer)
                      ELSE s.discard_timer
             u == [s EXCEPT !.tx_next = next + Len(batch), !.tx_window = window,
                            !.discard_timer = timer, !.overdue = @ /\ ~first,
                            !.failed = @ \/ counts \cap DOMAIN w # {}]
             taken == {c \in counts : Sdu(c) \notin lost}
             task == [c \in taken |-> Task(s, c, Sdu(c))]
             tasks == {task[c] : c \in taken}
             t == Accept(s, batch, lost)
  <1>1. EntityType(s) /\ WindowInv(s) /\ LowerInv(s) /\ TimerInv(s) /\ DiscardInv(s)
    BY DEF EntityInv
  <1>2. /\ DOMAIN s = Fields /\ MaxCount \in Nat /\ next \in Nat /\ s.tx_trans \in Nat
        /\ s.tx_next_ack \in Nat /\ s.tx_trans_crypto \in Nat /\ s.tx_reord_crypto \in Nat
        /\ s.tx_next_ack <= s.tx_trans /\ s.tx_trans <= next /\ s.tx_next_ack <= next
        /\ s.tx_trans_crypto <= next /\ s.tx_reord_crypto <= next
        /\ \A c \in DOMAIN w : c \in Nat /\ s.tx_next_ack <= c /\ c < next
    BY <1>1, CountFacts
  <1>3. Len(batch) \in Nat /\ DOMAIN batch = 1 .. Len(batch) /\ \A i \in DOMAIN batch : batch[i] \in Nat
    OBVIOUS
  <1>4. t = Encrypt(u, tasks)
    <2>1. tasks = {Task(s, c, Sdu(c)) : c \in {d \in counts : Sdu(d) \notin lost}}
      OBVIOUS
    <2> QED
      BY <2>1 DEF Accept
  <1>5. \A c \in counts : /\ c \in Nat /\ next <= c /\ c < next + Len(batch)
                          /\ c - next + 1 \in DOMAIN batch /\ Sdu(c) \in Nat
    <2> SUFFICES ASSUME NEW c \in next .. (next + Len(batch) - 1)
                 PROVE  /\ c \in Nat /\ next <= c /\ c < next + Len(batch)
                        /\ c - next + 1 \in DOMAIN batch /\ batch[c - next + 1] \in Nat
      OBVIOUS
    <2>1. next \in Nat /\ Len(batch) \in Nat
      BY <1>2, <1>3
    <2> HIDE DEF next
    <2>2. /\ c \in Nat /\ next <= c /\ c < next + Len(batch)
          /\ c - next + 1 \in 1 .. Len(batch)
      BY <2>1
    <2> QED
      BY <1>3, <2>2
  <1>6. \A c \in counts : c \notin DOMAIN w
    <2> SUFFICES ASSUME NEW c \in counts, c \in DOMAIN w
                 PROVE  FALSE
      OBVIOUS
    <2>1. next <= c /\ c < next /\ c \in Nat /\ next \in Nat
      BY <1>2, <1>5
    <2> QED
      BY <2>1
  <1>7. cfg.discard_timer \in Nat
    BY TickFacts
  <1>8. /\ DOMAIN u = Fields /\ u.tx_next = next + Len(batch) /\ u.tx_trans = s.tx_trans
        /\ u.tx_next_ack = s.tx_next_ack /\ u.discard_timer = timer /\ u.tx_window = window
        /\ u.overdue = (s.overdue /\ ~first) /\ u.tokens = s.tokens /\ u.crypto = s.crypto
        /\ u.key = s.key /\ u.pending_crypto = s.pending_crypto
        /\ u.buffering = s.buffering /\ u.sdu_buffer = s.sdu_buffer /\ u.suspended = s.suspended
        /\ u.resume_requested = s.resume_requested /\ u.stopped = s.stopped
        /\ u.desired_buffer_size = s.desired_buffer_size /\ u.retransmit_id = s.retransmit_id
        /\ u.tx_trans_crypto = s.tx_trans_crypto /\ u.tx_reord_crypto = s.tx_reord_crypto
        /\ u.crypto_reordering_timer = s.crypto_reordering_timer
        /\ u.lower = s.lower /\ u.failed = s.failed
    <2> DEFINE fails == s.failed \/ counts \cap DOMAIN w # {}
    <2>1. u = [s EXCEPT !.tx_next = next + Len(batch), !.tx_window = window,
                        !.discard_timer = timer, !.overdue = @ /\ ~first, !.failed = fails]
      BY <1>2 DEF Fields
    <2>2. fails = s.failed
      <3>1. s.failed \in BOOLEAN
        BY <1>1 DEF EntityType
      <3>2. counts \cap DOMAIN w = {}
        BY <1>6
      <3> HIDE DEF counts
      <3> QED
        BY <3>1, <3>2
    <2> HIDE DEF window, timer, first, fails, u
    <2> QED
      BY <1>2, <2>1, <2>2 DEF Fields
  <1>9. /\ DOMAIN u.tx_window = DOMAIN w \cup counts
        /\ \A c \in counts : u.tx_window[c] = Entry(c)
        /\ \A c \in DOMAIN w : u.tx_window[c] = w[c]
    BY <1>6, <1>8
  <1>10. \A c \in counts : /\ Entry(c) \in Entries /\ Entry(c).sdu = Sdu(c)
                           /\ Entry(c).pdu = NoPdu /\ Entry(c).left = cfg.discard_timer
    BY <1>5, <1>7 DEF Entries, Records, Pdus, NoPdu
  <1> HIDE DEF t, u, window, Entry
  <1>11. s.discard_timer \in Nat \cup {Off} /\ s.overdue \in BOOLEAN
    BY <1>1 DEF EntityType
  <1>12. /\ timer \in Nat \cup {Off} /\ u.overdue \in BOOLEAN /\ (u.overdue <=> s.overdue /\ ~first)
         /\ timer = s.discard_timer \/ timer = RunFor(cfg.discard_timer)
    <2>1. RunFor(cfg.discard_timer) \in Nat
      BY <1>7, RunForFacts
    <2> QED
      BY <1>8, <1>11, <2>1
  <1>13. EntityType(u)
    <2>1. next + Len(batch) \in Nat
      BY <1>2, <1>3
    <2>2. \A c \in DOMAIN u.tx_window : u.tx_window[c] \in Entries
      BY <1>1, <1>9, <1>10 DEF EntityType
    <2> HIDE DEF timer, first
    <2> QED
      BY <1>1, <1>8, <1>12, <2>1, <2>2 DEF EntityType
  <1>14. WindowInv(u)
    <2>1. DOMAIN u.tx_window \subseteq s.tx_next_ack .. (next + Len(batch) - 1)
      <3> SUFFICES ASSUME NEW c \in DOMAIN u.tx_window
                   PROVE  c \in s.tx_next_ack .. (next + Len(batch) - 1)
        OBVIOUS
      <3>1. CASE c \in counts
        <4>1. c \in Nat /\ next <= c /\ c < next + Len(batch)
          BY <1>5, <3>1
        <4> QED
          BY <1>2, <1>3, <4>1
      <3>2. CASE c \in DOMAIN w
        <4>1. c \in Nat /\ s.tx_next_ack <= c /\ c < next
          BY <1>2, <3>2
        <4> QED
          BY <1>2, <1>3, <4>1
      <3> QED
        BY <1>9, <3>1, <3>2
    <2> QED
      BY <1>2, <1>3, <1>8, <2>1 DEF WindowInv
  <1>15. NoPdu.key = 0 /\ NoPdu.retx_id = 0
    BY DEF NoPdu
  <1>16. s.key \in Nat /\ s.retransmit_id \in Nat /\ s.key >= 1
    BY <1>1 DEF EntityType, LowerInv, PduInv
  <1>17. \A i \in DOMAIN s.lower : s.lower[i].key # 0 /\ s.lower[i].count \in Nat
    <2>1. \A i \in DOMAIN s.lower : s.lower[i].key \in 1 .. s.key
      BY <1>1 DEF LowerInv, PduInv
    <2> QED
      BY <1>1, <1>16, <2>1, SubmittedFacts
  <1>18. LowerInv(u)
    <2>1. PduInv(u)
      <3>1. \A c \in DOMAIN u.tx_window :
             /\ u.tx_window[c].pdu.key <= s.key
             /\ u.tx_window[c].pdu.retx_id <= s.retransmit_id
             /\ u.tx_window[c].pdu.key = 0 => u.tx_window[c].pdu = NoPdu
        <4> SUFFICES ASSUME NEW c \in DOMAIN u.tx_window
                     PROVE  /\ u.tx_window[c].pdu.key <= s.key
                            /\ u.tx_window[c].pdu.retx_id <= s.retransmit_id
                            /\ u.tx_window[c].pdu.key = 0 => u.tx_window[c].pdu = NoPdu
          OBVIOUS
        <4>1. CASE c \in counts
          <5>1. u.tx_window[c].pdu = NoPdu
            BY <1>9, <1>10, <4>1
          <5> QED
            BY <1>15, <1>16, <5>1
        <4>2. CASE c \in DOMAIN w
          BY <1>1, <1>9, <4>2 DEF LowerInv, PduInv
        <4> QED
          BY <1>9, <4>1, <4>2
      <3> QED
        BY <1>1, <1>8, <3>1 DEF LowerInv, PduInv
    <2>2. KeyLow(u)
      <3>1. \A i \in DOMAIN s.lower : s.lower[i].count < next => s.lower[i].count < next + Len(batch)
        BY <1>2, <1>3, <1>17
      <3> QED
        BY <1>8, <3>1 DEF KeyLow
    <2>3. ReadyInv(u)
      <3> SUFFICES ASSUME NEW i \in DOMAIN s.lower, NEW c \in DOMAIN u.tx_window
                   PROVE  LET key == u.tx_window[c].pdu.key
                          IN /\ s.lower[i].count = c /\ s.lower[i].key \in {s.key, key}
                                  => s.lower[i].sdu = u.tx_window[c].sdu
                             /\ (c >= s.tx_trans_crypto /\ s.lower[i].retx_id = s.retransmit_id
                                 /\ s.lower[i].key = key) => s.lower[i].count < s.tx_trans_crypto
        BY <1>8 DEF ReadyInv
      <3>1. CASE c \in counts
        <4>1. u.tx_window[c].pdu.key = 0
          BY <1>9, <1>10, <1>15, <3>1
        <4>2. ~(s.lower[i].count = c /\ s.lower[i].key = s.key)
          <5>1. s.lower[i].key = s.key => s.lower[i].count < next
            BY DEF KeyLow
          <5>2. next <= c /\ c \in Nat /\ next \in Nat
            BY <1>2, <1>5, <3>1
          <5> QED
            BY <5>1, <5>2
        <4> QED
          BY <1>17, <4>1, <4>2
      <3>2. CASE c \in DOMAIN w
        BY <1>1, <1>9, <3>2 DEF LowerInv, ReadyInv
      <3> QED
        BY <1>9, <3>1, <3>2
    <2>4. KeyOnce(u) /\ InOrderInv(u)
      BY <1>1, <1>8 DEF LowerInv, KeyOnce, InOrderInv
    <2> QED
      BY <2>1, <2>2, <2>3, <2>4 DEF LowerInv
  <1>19. TimerInv(u)
    <2>1. \A c \in DOMAIN u.tx_window : Ready(u, c) => c \in DOMAIN w
      BY <1>9, <1>10 DEF Ready
    <2>2. \A c \in DOMAIN w : Ready(u, c) => Ready(s, c)
      BY <1>9 DEF Ready, Has
    <2> QED
      BY <1>1, <1>8, <1>9, <2>1, <2>2 DEF TimerInv
  <1>20. DiscardInv(u)
    <2> SUFFICES ASSUME cfg.discard_timer # 0
                 PROVE  DiscardInv(u)
      BY DEF DiscardInv
    <2>1. /\ DOMAIN w = {} => s.tx_next_ack = next
          /\ DOMAIN w # {} => s.tx_next_ack \in DOMAIN w /\ s.discard_timer # Off
          /\ \A c \in DOMAIN w : /\ w[c].left <= cfg.discard_timer
                                 /\ s.overdue \/ s.discard_timer <= w[c].left + 1
          /\ \A c, d \in DOMAIN w : c <= d => w[c].left <= w[d].left
          /\ s.overdue \/ s.discard_timer <= cfg.discard_timer + 1
      BY <1>1 DEF DiscardInv
    <2>2. CASE batch = <<>>
      <3>1. counts = {} /\ Len(batch) = 0 /\ ~first
        <4>1. Len(batch) = 0
          BY <2>2
        <4> QED
          BY <1>2, <2>2, <4>1
      <3>2. timer = s.discard_timer /\ (u.overdue <=> s.overdue)
        BY <1>12, <3>1
      <3>3. DOMAIN u.tx_window = DOMAIN w /\ u.tx_next = next
        BY <1>2, <1>8, <1>9, <3>1
      <3> HIDE DEF timer, first, counts
      <3> QED
        BY <1>8, <1>9, <2>1, <3>2, <3>3 DEF DiscardInv
    <2>3. CASE batch # <<>>
      <3>1. next \in counts
        <4>1. Len(batch) # 0
          BY <2>3, EmptySeq
        <4> QED
          BY <1>2, <1>3, <4>1
      <3>2. s.tx_next_ack \in DOMAIN u.tx_window
        BY <1>9, <2>1, <3>1
      <3>3. timer # Off
        <4>1. RunFor(cfg.discard_timer) # Off
          BY <1>7, RunForFacts
        <4> QED
          BY <2>3, <4>1
      <3>4. first => DOMAIN w = {} /\ timer <= cfg.discard_timer + 1 /\ timer \in Int
        <4> SUFFICES ASSUME first
                     PROVE  DOMAIN w = {} /\ timer <= cfg.discard_timer + 1 /\ timer \in Int
          OBVIOUS
        <4>1. timer = RunFor(cfg.discard_timer)
          OBVIOUS
        <4>2. RunFor(cfg.discard_timer) <= cfg.discard_timer + 1 /\ RunFor(cfg.discard_timer) \in Int
          BY <1>7, RunForFacts
        <4> QED
          BY <2>1, <4>1, <4>2
      <3>5. ~first => timer = s.discard_timer
        OBVIOUS
      <3> HIDE DEF first, timer, counts
      <3>6. u.overdue \/ timer <= cfg.discard_timer + 1
        BY <1>12, <2>1, <3>4, <3>5
      <3>7. \A c \in DOMAIN u.tx_window :
              /\ u.tx_window[c].left <= cfg.discard_timer
              /\ u.overdue \/ timer <= u.tx_window[c].left + 1
        <4> SUFFICES ASSUME NEW c \in DOMAIN u.tx_window
                     PROVE  /\ u.tx_window[c].left <= cfg.discard_timer
                            /\ u.overdue \/ timer <= u.tx_window[c].left + 1
          OBVIOUS
        <4>1. CASE c \in counts
          <5>1. u.tx_window[c].left = cfg.discard_timer
            BY <1>9, <1>10, <4>1
          <5> QED
            BY <1>7, <3>6, <5>1
        <4>2. CASE c \in DOMAIN w
          <5>1. u.tx_window[c] = w[c] /\ ~first
            BY <1>9, <3>4, <4>2
          <5> QED
            BY <1>12, <2>1, <3>5, <4>2, <5>1
        <4> QED
          BY <1>9, <4>1, <4>2
      <3>8. \A c, d \in DOMAIN u.tx_window : c <= d => u.tx_window[c].left <= u.tx_window[d].left
        <4> SUFFICES ASSUME NEW c \in DOMAIN u.tx_window, NEW d \in DOMAIN u.tx_window, c <= d
                     PROVE  u.tx_window[c].left <= u.tx_window[d].left
          OBVIOUS
        <4>1. CASE d \in counts
          <5>1. u.tx_window[d].left = cfg.discard_timer
            BY <1>9, <1>10, <4>1
          <5> QED
            BY <3>7, <5>1
        <4>2. CASE d \in DOMAIN w /\ c \in DOMAIN w
          BY <1>9, <2>1, <4>2
        <4>3. CASE d \in DOMAIN w /\ c \in counts
          <5>1. c \in Nat /\ next <= c /\ d \in Nat /\ d < next
            BY <1>2, <1>5, <4>3
          <5> QED
            BY <1>2, <5>1
        <4> QED
          BY <1>9, <4>1, <4>2, <4>3
      <3> QED
        BY <1>8, <3>2, <3>3, <3>6, <3>7, <3>8 DEF DiscardInv
    <2> QED
      BY <2>2, <2>3
  <1>21. EntityInv(u)
    BY <1>13, <1>14, <1>18, <1>19, <1>20 DEF EntityInv
  <1>22. \A c \in taken : /\ task[c] \in Tasks /\ task[c].count = c /\ task[c].sdu = Sdu(c)
    <2> SUFFICES ASSUME NEW c \in taken
                 PROVE  task[c] \in Tasks /\ task[c].count = c /\ task[c].sdu = Sdu(c)
      OBVIOUS
    <2>1. c \in counts /\ c \in Nat /\ Sdu(c) \in Nat
      BY <1>5
    <2>2. task[c] = Task(s, c, Sdu(c))
      OBVIOUS
    <2> HIDE DEF Sdu, task
    <2> QED
      BY <1>16, <2>1, <2>2 DEF Task, Tasks
  <1>23. IsFiniteSet(tasks)
    <2>1. IsFiniteSet(counts)
      <3>1. next \in Int /\ next + Len(batch) - 1 \in Int
        BY <1>2, <1>3
      <3> QED
        BY <3>1, FS_Interval
    <2>2. taken \subseteq counts
      OBVIOUS
    <2>3. DOMAIN task = taken
      OBVIOUS
    <2> HIDE DEF taken, counts, task
    <2>4. IsFiniteSet(taken)
      BY <2>1, <2>2, FS_Subset
    <2> QED
      BY <2>3, <2>4, FiniteImage
  <1>24. \A x \in tasks : /\ x \in Tasks /\ next <= x.count /\ x.count < next + Len(batch)
                          /\ \E i \in DOMAIN batch : x.sdu = batch[i]
                          /\ x.sdu = u.tx_window[x.count].sdu
    <2> HIDE DEF task, taken, counts
    <2> SUFFICES ASSUME NEW c \in taken
                 PROVE  /\ task[c] \in Tasks /\ next <= task[c].count
                        /\ task[c].count < next + Len(batch)
                        /\ \E i \in DOMAIN batch : task[c].sdu = batch[i]
                        /\ task[c].sdu = u.tx_window[task[c].count].sdu
      OBVIOUS
    <2>1. task[c] \in Tasks /\ task[c].count = c /\ task[c].sdu = batch[c - next + 1]
      BY <1>22
    <2>2. c \in counts
      BY DEF taken
    <2>3. u.tx_window[c].sdu = batch[c - next + 1]
      BY <1>9, <1>10, <2>2
    <2> QED
      BY <1>5, <2>1, <2>2, <2>3
  <1> HIDE DEF tasks
  <1>25. \A x \in s.crypto : x.count \in Nat /\ x.count < next
    <2>1. \A x \in s.crypto : x \in Tasks
      BY <1>1 DEF EntityType
    <2> QED
      BY <2>1 DEF Tasks, Matches
  <1>26. tasks \cap u.crypto = {}
    <2> SUFFICES ASSUME NEW x \in tasks, x \in s.crypto
                 PROVE  FALSE
      BY <1>8
    <2>1. next <= x.count
      BY <1>24
    <2>2. x.count \in Nat /\ x.count < next
      BY <1>25
    <2> QED
      BY <1>2, <2>1, <2>2
  <1>27. /\ EntityInv(t) /\ SameButTasks(u, t) /\ t.crypto = u.crypto \cup tasks
         /\ Balance(t) = Balance(u)
    <2>1. tasks \in SUBSET Tasks
      BY <1>24
    <2> QED
      BY <1>4, <1>21, <1>23, <1>26, <2>1, EncryptFields
  <1>28. Accepts(s, t, batch)
    <2>1. /\ DOMAIN t = Fields /\ t.key = s.key /\ t.pending_crypto = s.pending_crypto
          /\ t.buffering = s.buffering /\ t.sdu_buffer = s.sdu_buffer /\ t.suspended = s.suspended
          /\ t.stopped = s.stopped /\ t.retransmit_id = s.retransmit_id
          /\ t.lower = s.lower /\ t.failed = s.failed /\ t.tx_next = next + Len(batch)
          /\ t.tx_window = u.tx_window
      BY <1>8, <1>27 DEF SameButTasks, SameCounts
    <2>2. Balance(t) = Balance(s)
      BY <1>8, <1>27 DEF Balance
    <2>3. \A c \in DOMAIN t.tx_window :
            \/ c \in DOMAIN w /\ t.tx_window[c].sdu = w[c].sdu
            \/ \E i \in DOMAIN batch : t.tx_window[c].sdu = batch[i]
      <3> SUFFICES ASSUME NEW c \in DOMAIN u.tx_window, c \notin DOMAIN w
                   PROVE  \E i \in DOMAIN batch : u.tx_window[c].sdu = batch[i]
        BY <1>9, <2>1
      <3>1. c \in counts
        BY <1>9
      <3>2. u.tx_window[c].sdu = batch[c - next + 1]
        BY <1>9, <1>10, <3>1
      <3> QED
        BY <1>5, <3>1, <3>2
    \* The COUNTs given out before keep their SDUs.
    <2>4. ASSUME NEW x, x.count \in Nat, Matches(s, x)
          PROVE  Matches(t, x)
      <3>1. x.count < next /\ (x.count \in DOMAIN w => x.sdu = w[x.count].sdu)
        BY <2>4 DEF Matches, Has
      <3>2. x.count \notin counts /\ x.count < next + Len(batch)
        BY <1>2, <1>3, <2>4, <3>1
      <3> HIDE DEF counts
      <3>3. x.count \in DOMAIN u.tx_window => x.sdu = u.tx_window[x.count].sdu
        BY <1>9, <3>1, <3>2
      <3> QED
        BY <2>1, <3>2, <3>3 DEF Matches, Has
    <2>5. \A x \in t.crypto : /\ Matches(t, x)
                              /\ x \in s.crypto \/ \E i \in DOMAIN batch : x.sdu = batch[i]
      <3> SUFFICES ASSUME NEW x \in t.crypto
                   PROVE  /\ Matches(t, x)
                          /\ x \in s.crypto \/ \E i \in DOMAIN batch : x.sdu = batch[i]
        OBVIOUS
      <3>1. x \in s.crypto \/ x \in tasks
        BY <1>8, <1>27
      <3>2. CASE x \in tasks
        BY <1>24, <2>1, <3>2 DEF Matches
      <3>3. CASE x \in s.crypto
        BY <1>25, <2>4, <3>3
      <3> QED
        BY <3>1, <3>2, <3>3
    <2>6. \A x \in Results : Matches(s, x) => Matches(t, x)
      BY <2>4 DEF Results
    <2> HIDE DEF counts, taken, task, first, timer, Sdu
    <2> QED
      BY <2>1, <2>2, <2>3, <2>5, <2>6 DEF Accepts
  <1> QED
    BY <1>27, <1>28 DEF t

-----------------------------------------------------------------------------
(* Control by the upper layer.                                             *)

\* What the control of an entity leaves alone.
SameData(s, t) ==
  /\ SameCounts(s, t) /\ t.tx_trans_crypto = s.tx_trans_crypto
  /\ t.tx_reord_crypto = s.tx_reord_crypto /\ t.retransmit_id = s.retransmit_id
  /\ t.crypto_reordering_timer = s.crypto_reordering_timer /\ t.stopped = s.stopped
  /\ t.tx_window = s.tx_window /\ t.lower = s.lower /\ t.failed = s.failed

\* Control that changes neither the key nor ends buffering too early.
LEMMA SameDataKeeps ==
  ASSUME NEW s, NEW t, EntityInv(s), SameData(s, t), t.key = s.key, EntityType(t),
         KeyLow(t) \/ (s.buffering => t.buffering)
  PROVE  EntityInv(t)
  <1>1. WindowInv(t)
    BY DEF EntityInv, WindowInv, SameData, SameCounts
  <1>2. PduInv(t) /\ KeyOnce(t) /\ InOrderInv(t)
    BY DEF EntityInv, LowerInv, PduInv, KeyOnce, InOrderInv, SameData
  <1>3. ReadyInv(t)
    BY DEF EntityInv, LowerInv, ReadyInv, SameData
  <1>4. Parked(t) \/ KeyLow(t)
    BY DEF EntityInv, LowerInv, Parked, KeyLow, SameData, SameCounts
  <1>5. TimerInv(t)
    BY DEF EntityInv, TimerInv, Ready, Has, SameData, SameCounts
  <1>6. DiscardInv(t)
    BY DEF EntityInv, DiscardInv, SameData, SameCounts
  <1> QED
    BY <1>1, <1>2, <1>3, <1>4, <1>5, <1>6 DEF EntityInv, LowerInv

\* No PDU has been protected with the present key.
Fresh(s) == \A i \in DOMAIN s.lower : s.lower[i].key # s.key

\* configure_security, and the tokens that are started with it.
LEMMA RekeyKeeps ==
  ASSUME NEW s, EntityInv(s)
  PROVE  LET t == StartTokens(ConfigureSecurity(s))
         IN /\ EntityInv(t) /\ Fresh(t) /\ SameData(s, t) /\ DOMAIN t = Fields
            /\ t.key = s.key + 1 /\ t.crypto = s.crypto /\ t.sdu_buffer = s.sdu_buffer
            /\ t.buffering = s.buffering /\ t.suspended = s.suspended
            /\ t.tokens = s.tokens + 1 /\ t.pending_crypto = FALSE
  <1> DEFINE k == ConfigureSecurity(s)
             p == [k EXCEPT !.pending_crypto = FALSE]
             t == StartTokens(k)
  <1>1. /\ DOMAIN s = Fields /\ s.key \in Nat /\ s.tokens \in Int
    BY DEF EntityInv, EntityType
  <1>2. /\ DOMAIN k = Fields /\ SameData(s, k) /\ k.key = s.key + 1 /\ k.crypto = s.crypto
        /\ k.sdu_buffer = s.sdu_buffer /\ k.buffering = s.buffering /\ k.suspended = s.suspended
        /\ k.resume_requested = s.resume_requested /\ k.tokens = s.tokens
        /\ k.desired_buffer_size = s.desired_buffer_size
    BY <1>1 DEF ConfigureSecurity, SameData, SameCounts, Fields
  <1> HIDE DEF k
  <1>3. /\ DOMAIN t = Fields /\ SameData(k, t) /\ t.key = k.key /\ t.crypto = k.crypto
        /\ t.sdu_buffer = k.sdu_buffer /\ t.buffering = k.buffering /\ t.suspended = k.suspended
        /\ t.resume_requested = k.resume_requested /\ t.tokens = k.tokens + 1
        /\ t.desired_buffer_size = k.desired_buffer_size /\ t.pending_crypto = FALSE
    <2>1. t = [p EXCEPT !.tokens = @ + 1]
      BY DEF StartTokens, IncrementToken
    <2>2. /\ DOMAIN p = Fields /\ SameData(k, p) /\ p.key = k.key /\ p.crypto = k.crypto
          /\ p.sdu_buffer = k.sdu_buffer /\ p.buffering = k.buffering /\ p.suspended = k.suspended
          /\ p.resume_requested = k.resume_requested /\ p.tokens = k.tokens
          /\ p.desired_buffer_size = k.desired_buffer_size /\ p.pending_crypto = FALSE
      BY <1>2 DEF SameData, SameCounts, Fields
    <2> HIDE DEF p, t
    <2> QED
      BY <2>1, <2>2 DEF SameData, SameCounts, Fields
  <1> HIDE DEF t
  <1>4. /\ DOMAIN t = Fields /\ SameData(s, t) /\ t.key = s.key + 1 /\ t.crypto = s.crypto
        /\ t.sdu_buffer = s.sdu_buffer /\ t.buffering = s.buffering /\ t.suspended = s.suspended
        /\ t.resume_requested = s.resume_requested /\ t.tokens = s.tokens + 1
        /\ t.desired_buffer_size = s.desired_buffer_size /\ t.pending_crypto = FALSE
    BY <1>2, <1>3 DEF SameData, SameCounts
  <1>5. EntityType(t)
    <2>1. s.key + 1 \in Nat /\ s.tokens + 1 \in Int
      BY <1>1
    <2> QED
      BY <1>4, <2>1 DEF EntityInv, EntityType, SameData, SameCounts
  <1>6. WindowInv(t)
    BY <1>4 DEF EntityInv, WindowInv, SameData, SameCounts
  <1>7. /\ s.key >= 1 /\ \A i \in DOMAIN s.lower : s.lower[i].key \in 1 .. s.key
        /\ \A i \in DOMAIN s.lower : s.lower[i].retx_id <= s.retransmit_id
        /\ \A c \in DOMAIN s.tx_window :
             /\ s.tx_window[c].pdu.key <= s.key
             /\ s.tx_window[c].pdu.retx_id <= s.retransmit_id
             /\ s.tx_window[c].pdu.key = 0 => s.tx_window[c].pdu = NoPdu
    BY DEF EntityInv, LowerInv, PduInv
  <1>8. \A c \in DOMAIN s.tx_window : s.tx_window[c].pdu.key \in Nat
    <2>1. \A c \in DOMAIN s.tx_window : s.tx_window[c] \in Entries
      BY DEF EntityInv, EntityType
    <2> QED
      BY <2>1 DEF Entries, Records, Pdus
  <1>9. /\ t.lower = s.lower /\ t.tx_window = s.tx_window /\ t.retransmit_id = s.retransmit_id
        /\ t.tx_trans_crypto = s.tx_trans_crypto
    BY <1>4 DEF SameData
  <1>10. Fresh(t)
    BY <1>1, <1>4, <1>7, <1>9 DEF Fresh
  <1>11. KeyLow(t)
    BY <1>10 DEF Fresh, KeyLow
  <1>12. PduInv(t)
    <2>1. \A c \in DOMAIN s.tx_window : s.tx_window[c].pdu.key <= s.key + 1
      BY <1>1, <1>7, <1>8
    <2>2. s.key + 1 >= 1 /\ \A i \in DOMAIN s.lower : s.lower[i].key \in 1 .. (s.key + 1)
      BY <1>1, <1>7
    <2> QED
      BY <1>4, <1>7, <1>9, <2>1, <2>2 DEF PduInv
  <1>13. ReadyInv(t)
    BY <1>9, <1>10 DEF EntityInv, LowerInv, ReadyInv, Fresh
  <1>14. KeyOnce(t) /\ InOrderInv(t)
    BY <1>9 DEF EntityInv, LowerInv, KeyOnce, InOrderInv
  <1>15. TimerInv(t)
    BY <1>4 DEF EntityInv, TimerInv, Ready, Has, SameData, SameCounts
  <1>16. DiscardInv(t)
    BY <1>4 DEF EntityInv, DiscardInv, SameData, SameCounts
  <1>17. EntityInv(t)
    BY <1>5, <1>6, <1>11, <1>12, <1>13, <1>14, <1>15, <1>16 DEF EntityInv, LowerInv
  <1> QED
    BY <1>4, <1>10, <1>17 DEF t, k

\* What a reset leaves alone.
Resets(s, t) ==
  /\ SameControl(s, t) /\ t.overdue = s.overdue /\ t.failed = s.failed
  /\ t.crypto_reordering_timer = s.crypto_reordering_timer /\ t.lower = s.lower
  /\ t.tx_next = 0 /\ t.tx_trans = 0 /\ t.tx_next_ack = 0 /\ t.tx_trans_crypto = 0
  /\ t.tx_reord_crypto = 0 /\ DOMAIN t.tx_window = {}

\* The COUNTs may start again behind a buffer or with a new key.
LEMMA ResetsKeeps ==
  ASSUME NEW s, NEW t, EntityInv(s), s.buffering \/ Fresh(s), Resets(s, t),
         t.discard_timer \in {s.discard_timer, Off},
         cfg \in [rlc_mode : Modes, discard_timer : DiscardTimers]
  PROVE  EntityInv(t)
  <1>1. EntityType(t)
    BY DEF EntityInv, EntityType, Resets, SameControl
  <1>2. WindowInv(t)
    BY PdcpTxAssumption DEF WindowInv, Resets
  <1>3. /\ t.key = s.key /\ t.retransmit_id = s.retransmit_id /\ t.lower = s.lower
        /\ t.buffering = s.buffering /\ DOMAIN t.tx_window = {} /\ t.tx_next = 0
    BY DEF Resets, SameControl
  <1>4. PduInv(t) /\ KeyOnce(t) /\ InOrderInv(t) /\ ReadyInv(t)
    BY <1>3 DEF EntityInv, LowerInv, PduInv, KeyOnce, InOrderInv, ReadyInv
  <1>5. Parked(t) \/ KeyLow(t)
    BY <1>3 DEF Parked, KeyLow, Fresh
  <1>6. TimerInv(t)
    BY <1>3 DEF TimerInv, Resets
  <1>7. DiscardInv(t)
    <2>1. Off <= cfg.discard_timer + 1
      BY TickFacts DEF Off
    <2>2. cfg.discard_timer # 0 /\ ~s.stopped => s.overdue \/ s.discard_timer <= cfg.discard_timer + 1
      BY DEF EntityInv, DiscardInv
    <2> QED
      BY <2>1, <2>2 DEF DiscardInv, Resets, SameControl
  <1> QED
    BY <1>1, <1>2, <1>4, <1>5, <1>6, <1>7 DEF EntityInv, LowerInv

\* reset_state.
LEMMA ResetFields ==
  ASSUME NEW s, DOMAIN s = Fields
  PROVE  Resets(s, ResetState(s)) /\ ResetState(s).discard_timer = s.discard_timer
  BY DEF ResetState, Resets, SameControl, Fields

\* retransmit_all_pdus, when nothing is with the workers.
LEMMA RetransmitKeeps ==
  ASSUME NEW s, EntityInv(s), KeyLow(s), s.crypto = {}, NEW refused
  PROVE  LET t == RetransmitAllPdus(s, refused)
         IN /\ EntityInv(t) /\ KeyLow(t) /\ Balance(t) = Balance(s) /\ DOMAIN t = Fields
            /\ t.key = s.key /\ t.pending_crypto = s.pending_crypto /\ t.buffering = s.buffering
            /\ t.sdu_buffer = s.sdu_buffer /\ t.suspended = s.suspended /\ t.stopped = s.stopped
            /\ t.lower = s.lower /\ t.failed = s.failed /\ t.tx_next = s.tx_next
            /\ t.tx_window = s.tx_window
            /\ \A task \in t.crypto :
                 /\ task.count \in DOMAIN s.tx_window
                 /\ task.sdu = s.tx_window[task.count].sdu
  <1> DEFINE w == s.tx_window
             r == [s EXCEPT !.tx_trans = s.tx_next_ack, !.tx_trans_crypto = s.tx_next_ack,
                            !.retransmit_id = @ + 1]
             again == {c \in s.tx_next_ack .. (s.tx_next - 1) : Has(s, c) /\ c \notin refused}
             task == [c \in again |-> Task(r, c, w[c].sdu)]
             tasks == {task[c] : c \in again}
             t == RetransmitAllPdus(s, refused)
  <1>1. EntityType(s) /\ WindowInv(s) /\ LowerInv(s) /\ TimerInv(s) /\ DiscardInv(s)
    BY DEF EntityInv
  <1>2. /\ DOMAIN s = Fields /\ s.tx_next \in Nat /\ s.tx_next_ack \in Nat /\ s.tx_trans \in Nat
        /\ s.tx_next_ack <= s.tx_next /\ s.tx_reord_crypto \in Nat
        /\ s.retransmit_id \in Nat
    BY <1>1, CountFacts DEF EntityType
  <1>3. t = Encrypt(r, tasks)
    <2>1. tasks = {Task(r, c, w[c].sdu) : c \in again}
      OBVIOUS
    <2> QED
      BY <2>1 DEF RetransmitAllPdus
  <1>4. /\ DOMAIN r = Fields /\ r.tx_trans = s.tx_next_ack /\ r.tx_trans_crypto = s.tx_next_ack
        /\ r.retransmit_id = s.retransmit_id + 1
        /\ r.tx_next = s.tx_next /\ r.tx_next_ack = s.tx_next_ack
        /\ r.discard_timer = s.discard_timer /\ r.overdue = s.overdue
        /\ r.tokens = s.tokens /\ r.crypto = s.crypto
        /\ r.key = s.key /\ r.pending_crypto = s.pending_crypto
        /\ r.buffering = s.buffering /\ r.sdu_buffer = s.sdu_buffer /\ r.suspended = s.suspended
        /\ r.resume_requested = s.resume_requested /\ r.stopped = s.stopped
        /\ r.desired_buffer_size = s.desired_buffer_size /\ r.tx_reord_crypto = s.tx_reord_crypto
        /\ r.crypto_reordering_timer = s.crypto_reordering_timer
        /\ r.tx_window = w /\ r.lower = s.lower /\ r.failed = s.failed
    BY <1>2 DEF Fields
  <1> HIDE DEF r, t
  <1>5. EntityType(r)
    <2>1. s.retransmit_id + 1 \in Nat
      BY <1>2
    <2> QED
      BY <1>1, <1>2, <1>4, <2>1 DEF EntityType
  <1>6. WindowInv(r)
    BY <1>1, <1>2, <1>4 DEF WindowInv
  <1>7. \A i \in DOMAIN s.lower :
          s.lower[i].retx_id <= s.retransmit_id + 1 /\ s.lower[i].retx_id # s.retransmit_id + 1
    <2>1. \A i \in DOMAIN s.lower : s.lower[i].retx_id <= s.retransmit_id /\ s.lower[i].retx_id \in Nat
      BY <1>1, SubmittedFacts DEF LowerInv, PduInv
    <2> QED
      BY <1>2, <2>1
  <1>8. \A c \in DOMAIN w :
          w[c].pdu.retx_id <= s.retransmit_id + 1 /\ w[c].pdu.retx_id # s.retransmit_id + 1
    <2>1. \A c \in DOMAIN w : w[c] \in Entries /\ w[c].pdu.retx_id <= s.retransmit_id
      BY <1>1 DEF EntityType, LowerInv, PduInv
    <2>2. \A c \in DOMAIN w : w[c].pdu.retx_id \in Nat
      BY <2>1 DEF Entries, Records, Pdus
    <2> QED
      BY <1>2, <2>1, <2>2
  <1>9. KeyLow(r)
    BY <1>4, <1>7 DEF KeyLow
  <1>10. LowerInv(r)
    <2>1. PduInv(r)
      BY <1>1, <1>4, <1>7, <1>8 DEF LowerInv, PduInv
    <2>2. ReadyInv(r)
      BY <1>1, <1>4, <1>7 DEF LowerInv, ReadyInv
    <2>3. KeyOnce(r) /\ InOrderInv(r)
      BY <1>1, <1>4 DEF LowerInv, KeyOnce, InOrderInv
    <2> QED
      BY <1>9, <2>1, <2>2, <2>3 DEF LowerInv
  <1>11. TimerInv(r)
    BY <1>2, <1>4, <1>8 DEF TimerInv
  <1>12. DiscardInv(r)
    BY <1>1, <1>4 DEF DiscardInv
  <1>13. EntityInv(r)
    BY <1>5, <1>6, <1>10, <1>11, <1>12 DEF EntityInv
  <1>14. \A c \in again : /\ c \in DOMAIN w /\ task[c] \in Tasks /\ task[c].count = c
                          /\ task[c].sdu = w[c].sdu
    <2> SUFFICES ASSUME NEW c \in again
                 PROVE  /\ c \in DOMAIN w /\ task[c] \in Tasks /\ task[c].count = c
                        /\ task[c].sdu = w[c].sdu
      OBVIOUS
    <2>1. c \in DOMAIN w /\ c \in Nat
      BY <1>2 DEF Has
    <2>2. w[c].sdu \in Nat
      <3>1. w[c] \in Entries
        BY <1>1, <2>1 DEF EntityType
      <3> QED
        BY <3>1 DEF Entries, Records
    <2>3. task[c] = Task(r, c, w[c].sdu)
      OBVIOUS
    <2>4. r.retransmit_id \in Nat
      BY <1>2, <1>4
    <2> HIDE DEF task, again
    <2> QED
      BY <2>1, <2>2, <2>3, <2>4 DEF Task, Tasks
  <1>15. IsFiniteSet(tasks)
    <2>1. IsFiniteSet(s.tx_next_ack .. (s.tx_next - 1))
      <3>1. s.tx_next_ack \in Int /\ s.tx_next - 1 \in Int
        BY <1>2
      <3> QED
        BY <3>1, FS_Interval
    <2>2. again \subseteq s.tx_next_ack .. (s.tx_next - 1)
      OBVIOUS
    <2>3. DOMAIN task = again
      OBVIOUS
    <2> HIDE DEF again, task
    <2>4. IsFiniteSet(again)
      BY <2>1, <2>2, FS_Subset
    <2> QED
      BY <2>3, <2>4, FiniteImage
  <1>16. \A x \in tasks : x \in Tasks /\ x.count \in DOMAIN w /\ x.sdu = w[x.count].sdu
    <2> SUFFICES ASSUME NEW c \in again
                 PROVE  /\ task[c] \in Tasks /\ task[c].count \in DOMAIN w
                        /\ task[c].sdu = w[task[c].count].sdu
      OBVIOUS
    <2> HIDE DEF again, task
    <2> QED
      BY <1>14
  <1> HIDE DEF tasks
  <1>17. /\ EntityInv(t) /\ SameButTasks(r, t) /\ t.crypto = r.crypto \cup tasks
         /\ Balance(t) = Balance(r)
    <2>1. tasks \in SUBSET Tasks /\ tasks \cap r.crypto = {}
      BY <1>4, <1>16
    <2> QED
      BY <1>3, <1>13, <1>15, <2>1, EncryptFields
  <1>18. /\ DOMAIN t = Fields /\ t.key = s.key /\ t.pending_crypto = s.pending_crypto
         /\ t.buffering = s.buffering /\ t.sdu_buffer = s.sdu_buffer /\ t.suspended = s.suspended
         /\ t.stopped = s.stopped /\ t.lower = s.lower /\ t.failed = s.failed
         /\ t.tx_next = s.tx_next /\ t.tx_window = w
    BY <1>4, <1>17 DEF SameButTasks, SameCounts
  <1>19. KeyLow(t)
    BY <1>9, <1>17 DEF KeyLow, SameButTasks, SameCounts
  <1>20. Balance(t) = Balance(s)
    BY <1>4, <1>17 DEF Balance
  <1>21. t.crypto = tasks
    BY <1>4, <1>17
  <1> HIDE DEF again, task
  <1> QED
    BY <1>16, <1>17, <1>18, <1>19, <1>20, <1>21 DEF t

\* From s to t, the SDUs in the buffer have left it for the window and the workers.
Unbuffers(s, t) ==
  /\ t.key = s.key /\ t.pending_crypto = s.pending_crypto
  /\ t.buffering = FALSE /\ t.sdu_buffer = <<>> /\ t.suspended = s.suspended
  /\ t.stopped = s.stopped /\ t.lower = s.lower /\ t.failed = s.failed
  /\ Balance(t) = Balance(s)
  /\ \A c \in DOMAIN t.tx_window :
       \/ c \in DOMAIN s.tx_window /\ t.tx_window[c].sdu = s.tx_window[c].sdu
       \/ \E i \in DOMAIN s.sdu_buffer : t.tx_window[c].sdu = s.sdu_buffer[i]
  /\ \A task \in t.crypto :
       /\ Matches(t, task)
       /\ task \in s.crypto \/ \E i \in DOMAIN s.sdu_buffer : task.sdu = s.sdu_buffer[i]

\* end_buffering: the SDUs in the buffer get COUNTs as long as there are any.
LEMMA EndBufferingKeeps ==
  ASSUME NEW s, EntityInv(s), KeyLow(s), ~s.stopped,
         \A task \in s.crypto : Matches(s, task), NEW lost,
         cfg \in [rlc_mode : Modes, discard_timer : DiscardTimers]
  PROVE  EntityInv(EndBuffering(s, lost)) /\ Unbuffers(s, EndBuffering(s, lost))
  <1> DEFINE open == [s EXCEPT !.buffering = FALSE, !.sdu_buffer = <<>>]
             all == Len(s.sdu_buffer)
             ends == {k \in 0 .. all : k = all \/ Dropped(s, k)}
             count == Min(ends)
             resumes == s.resume_requested \/ (s.suspended /\ all > 0)
             u == [open EXCEPT !.resume_requested = @ \/ (s.suspended /\ all > 0)]
             batch == SubSeq(s.sdu_buffer, 1, count)
             t == EndBuffering(s, lost)
  <1>1. EntityType(s) /\ WindowInv(s)
    BY DEF EntityInv
  <1>2. /\ DOMAIN s = Fields /\ MaxCount \in Nat /\ s.tx_next \in Nat /\ s.tx_next <= MaxCount
    BY <1>1, CountFacts
  <1>3. s.sdu_buffer \in Seq(Nat)
    BY <1>1 DEF EntityType
  <1>4. all \in Nat /\ DOMAIN s.sdu_buffer = 1 .. all
    BY <1>3
  <1>5. t = Accept(u, batch, lost)
    BY DEF EndBuffering
  <1>6. /\ DOMAIN open = Fields /\ SameData(s, open) /\ open.key = s.key
        /\ open.tokens = s.tokens /\ open.crypto = s.crypto
        /\ open.pending_crypto = s.pending_crypto /\ open.buffering = FALSE
        /\ open.sdu_buffer = <<>> /\ open.suspended = s.suspended
        /\ open.resume_requested = s.resume_requested
        /\ open.desired_buffer_size = s.desired_buffer_size
    BY <1>2 DEF SameData, SameCounts, Fields
  <1>7. u = [open EXCEPT !.resume_requested = resumes]
    BY <1>6 DEF Fields
  <1>8. resumes \in BOOLEAN
    <2>1. s.resume_requested \in BOOLEAN
      BY <1>1 DEF EntityType
    <2> QED
      BY <2>1
  <1> HIDE DEF open, u, resumes, t
  <1>9. /\ DOMAIN u = Fields /\ SameData(s, u) /\ u.key = s.key
        /\ u.tokens = s.tokens /\ u.crypto = s.crypto
        /\ u.pending_crypto = s.pending_crypto /\ u.buffering = FALSE
        /\ u.sdu_buffer = <<>> /\ u.suspended = s.suspended
        /\ u.resume_requested = resumes
        /\ u.desired_buffer_size = s.desired_buffer_size
    BY <1>6, <1>7 DEF SameData, SameCounts, Fields
  <1>10. EntityType(u)
    <2>1. <<>> \in Seq(Nat)
      OBVIOUS
    <2> QED
      BY <1>1, <1>8, <1>9, <2>1 DEF EntityType, SameData, SameCounts
  <1>11. KeyLow(u)
    BY <1>9 DEF KeyLow, SameData, SameCounts
  <1>12. EntityInv(u)
    BY <1>9, <1>10, <1>11, SameDataKeeps
  <1>13. /\ u.tx_next = s.tx_next /\ u.stopped = s.stopped /\ u.tx_window = s.tx_window
         /\ u.lower = s.lower /\ u.failed = s.failed
    BY <1>9 DEF SameData, SameCounts
  <1>14. count \in ends /\ \A k \in ends : count <= k
    <2>1. ends \in SUBSET Nat /\ all \in ends
      BY <1>4
    <2> HIDE DEF ends
    <2> QED
      BY <2>1, MinIn
  <1>15. count \in 0 .. all
    BY <1>14
  <1>16. s.tx_next + count <= MaxCount
    <2> SUFFICES ASSUME s.tx_next + count > MaxCount
                 PROVE  FALSE
      BY <1>2, <1>4, <1>15
    <2>1. count - 1 \in 0 .. all /\ s.tx_next + (count - 1) >= MaxCount
      BY <1>2, <1>4, <1>15
    <2>2. Dropped(s, count - 1)
      BY <2>1 DEF Dropped
    <2>3. count - 1 \in ends
      BY <2>1, <2>2
    <2>4. count <= count - 1
      BY <1>14, <2>3
    <2> QED
      BY <1>4, <1>15, <2>4
  <1> HIDE DEF count
  <1>17. /\ batch \in Seq(Nat) /\ Len(batch) = count
         /\ \A i \in DOMAIN batch : i \in DOMAIN s.sdu_buffer /\ batch[i] = s.sdu_buffer[i]
    <2>1. /\ Len(batch) = count /\ \A i \in 1 .. count : batch[i] = s.sdu_buffer[i]
          /\ batch \in Seq(Nat)
      BY <1>3, <1>4, <1>15
    <2>2. DOMAIN batch = 1 .. count
      BY <2>1
    <2>3. \A i \in 1 .. count : i \in 1 .. all
      BY <1>4, <1>15
    <2> HIDE DEF batch
    <2> QED
      BY <1>4, <2>1, <2>2, <2>3
  <1> HIDE DEF batch
  <1>18. EntityInv(t) /\ Accepts(u, t, batch)
    <2>1. /\ \A task \in u.crypto : Matches(u, task)
          /\ u.tx_next + Len(batch) <= MaxCount /\ ~u.stopped
      BY <1>9, <1>13, <1>16, <1>17 DEF Matches, Has
    <2> QED
      BY <1>5, <1>11, <1>12, <1>17, <2>1, AcceptKeeps
  <1>19. Balance(t) = Balance(s)
    BY <1>9, <1>18 DEF Accepts, Balance
  <1>20. /\ t.key = s.key /\ t.pending_crypto = s.pending_crypto
         /\ t.buffering = FALSE /\ t.sdu_buffer = <<>> /\ t.suspended = s.suspended
         /\ t.stopped = s.stopped /\ t.lower = s.lower /\ t.failed = s.failed
    BY <1>9, <1>13, <1>18 DEF Accepts
  <1>21. \A c \in DOMAIN t.tx_window :
           \/ c \in DOMAIN s.tx_window /\ t.tx_window[c].sdu = s.tx_window[c].sdu
           \/ \E i \in DOMAIN s.sdu_buffer : t.tx_window[c].sdu = s.sdu_buffer[i]
    <2>1. \A c \in DOMAIN t.tx_window :
            \/ c \in DOMAIN s.tx_window /\ t.tx_window[c].sdu = s.tx_window[c].sdu
            \/ \E i \in DOMAIN batch : t.tx_window[c].sdu = batch[i]
      BY <1>13, <1>18 DEF Accepts
    <2> QED
      BY <1>17, <2>1
  <1>22. \A task \in t.crypto :
           /\ Matches(t, task)
           /\ task \in s.crypto \/ \E i \in DOMAIN s.sdu_buffer : task.sdu = s.sdu_buffer[i]
    <2>1. \A task \in t.crypto :
            /\ Matches(t, task)
            /\ task \in s.crypto \/ \E i \in DOMAIN batch : task.sdu = batch[i]
      BY <1>9, <1>18 DEF Accepts
    <2> QED
      BY <1>17, <2>1
  <1>23. Unbuffers(s, t)
    BY <1>19, <1>20, <1>21, <1>22 DEF Unbuffers
  <1> QED
    BY <1>18, <1>23 DEF t

\* What a change of the tokens leaves alone.
SameButTokens(s, t) ==
  /\ DOMAIN t = Fields /\ SameData(s, t) /\ t.key = s.key /\ t.crypto = s.crypto
  /\ t.sdu_buffer = s.sdu_buffer /\ t.desired_buffer_size = s.desired_buffer_size

\* notify_pdu_processing_stopped, and the return of a token by a task.
LEMMA ReturnTokenFields ==
  ASSUME NEW s, DOMAIN s = Fields
  PROVE  LET t == ReturnToken(s)
         IN /\ SameButTokens(s, t) /\ t.buffering = s.buffering /\ t.suspended = s.suspended
            /\ t.resume_requested = s.resume_requested
            /\ t.tokens = s.tokens - 1 /\ t.pending_crypto \in BOOLEAN
            /\ t.pending_crypto <=> s.pending_crypto \/ s.tokens = 0
  <1> DEFINE last == s.pending_crypto \/ s.tokens = 0
             t == ReturnToken(s)
  <1>1. t = [s EXCEPT !.tokens = s.tokens - 1, !.pending_crypto = last]
    BY DEF ReturnToken, Fields
  <1>2. last \in BOOLEAN /\ (last <=> s.pending_crypto \/ s.tokens = 0)
    OBVIOUS
  <1> HIDE DEF t, last
  <1>3. /\ SameButTokens(s, t) /\ t.buffering = s.buffering /\ t.suspended = s.suspended
        /\ t.resume_requested = s.resume_requested
        /\ t.tokens = s.tokens - 1 /\ t.pending_crypto = last
    BY <1>1 DEF SameButTokens, SameData, SameCounts, Fields
  <1> QED
    BY <1>2, <1>3 DEF t

LEMMA StartTokensFields ==
  ASSUME NEW s, DOMAIN s = Fields
  PROVE  LET t == StartTokens(s)
         IN /\ SameButTokens(s, t) /\ t.buffering = s.buffering /\ t.suspended = s.suspended
            /\ t.resume_requested = s.resume_requested
            /\ t.tokens = s.tokens + 1 /\ t.pending_crypto = FALSE
  <1> DEFINE p == [s EXCEPT !.pending_crypto = FALSE]
             t == StartTokens(s)
  <1>1. t = [p EXCEPT !.tokens = @ + 1]
    BY DEF StartTokens, IncrementToken
  <1>2. /\ SameButTokens(s, p) /\ p.buffering = s.buffering /\ p.suspended = s.suspended
        /\ p.resume_requested = s.resume_requested
        /\ p.tokens = s.tokens /\ p.pending_crypto = FALSE
    BY DEF SameButTokens, SameData, SameCounts, Fields
  <1> HIDE DEF p, t
  <1>3. /\ SameButTokens(p, t) /\ t.buffering = p.buffering /\ t.suspended = p.suspended
        /\ t.resume_requested = p.resume_requested
        /\ t.tokens = p.tokens + 1 /\ t.pending_crypto = p.pending_crypto
    BY <1>1, <1>2 DEF SameButTokens, SameData, SameCounts, Fields
  <1> QED
    BY <1>2, <1>3 DEF t, SameButTokens, SameData, SameCounts

\* begin_buffering, before the routine awaits the tokens.
LEMMA AwaitFields ==
  ASSUME NEW s, DOMAIN s = Fields
  PROVE  LET t == Await(s)
         IN /\ SameButTokens(s, t) /\ t.buffering = TRUE /\ t.suspended = s.suspended
            /\ t.resume_requested = s.resume_requested
            /\ t.tokens = s.tokens - 1 /\ t.pending_crypto \in BOOLEAN
            /\ t.pending_crypto <=> s.pending_crypto \/ s.tokens = 0
  <1> DEFINE b == [s EXCEPT !.buffering = TRUE]
             t == Await(s)
  <1>1. t = ReturnToken(b)
    BY DEF Await
  <1>2. /\ SameButTokens(s, b) /\ b.buffering = TRUE /\ b.suspended = s.suspended
        /\ b.resume_requested = s.resume_requested
        /\ b.tokens = s.tokens /\ b.pending_crypto = s.pending_crypto /\ DOMAIN b = Fields
    BY DEF SameButTokens, SameData, SameCounts, Fields
  <1> HIDE DEF b, t
  <1>3. /\ SameButTokens(b, t) /\ t.buffering = b.buffering /\ t.suspended = b.suspended
        /\ t.resume_requested = b.resume_requested
        /\ t.tokens = b.tokens - 1 /\ t.pending_crypto \in BOOLEAN
        /\ t.pending_crypto <=> b.pending_crypto \/ b.tokens = 0
    BY <1>1, <1>2, ReturnTokenFields
  <1> QED
    BY <1>2, <1>3 DEF t, SameButTokens, SameData, SameCounts

\* resume.
LEMMA ResumeFields ==
  ASSUME NEW s, DOMAIN s = Fields, s.suspended, s.buffering
  PROVE  LET t == Resume(s)
         IN /\ SameButTokens(s, t) /\ t.buffering = s.buffering /\ t.suspended = FALSE
            /\ t.resume_requested = FALSE
            /\ t.tokens = s.tokens /\ t.pending_crypto = s.pending_crypto
  <1> DEFINE t == Resume(s)
  <1>1. t = [s EXCEPT !.suspended = FALSE, !.resume_requested = FALSE]
    BY DEF Resume
  <1> QED
    BY <1>1 DEF SameButTokens, SameData, SameCounts, Fields

\* Neither tokens nor buffering disturb the invariant.
LEMMA SameButTokensKeeps ==
  ASSUME NEW s, NEW t, EntityInv(s), SameButTokens(s, t), t.tokens \in Int,
         t.pending_crypto \in BOOLEAN, t.buffering \in BOOLEAN, t.suspended \in BOOLEAN,
         t.resume_requested \in BOOLEAN, s.buffering => t.buffering
  PROVE  EntityInv(t)
  <1>1. EntityType(t)
    BY DEF EntityInv, EntityType, SameButTokens, SameData, SameCounts
  <1> QED
    BY <1>1, SameDataKeeps DEF SameButTokens

\* suspend, when the routine has been woken.
LEMMA SuspendKeeps ==
  ASSUME NEW s, EntityInv(s), s.buffering, ~s.suspended,
         cfg \in [rlc_mode : Modes, discard_timer : DiscardTimers]
  PROVE  LET t == StartTokens(Suspend(s))
         IN /\ EntityInv(t) /\ t.key = s.key /\ t.crypto = s.crypto
            /\ t.sdu_buffer = s.sdu_buffer /\ t.buffering = s.buffering /\ t.suspended = TRUE
            /\ t.stopped = s.stopped /\ t.lower = s.lower /\ t.failed = s.failed
            /\ t.tokens = s.tokens + 1 /\ t.pending_crypto = FALSE
            /\ DOMAIN t.tx_window = {}
  <1> DEFINE r == ResetState(s)
             u == [r EXCEPT !.discard_timer = Off]
             v == [u EXCEPT !.suspended = TRUE]
             t == StartTokens(Suspend(s))
  <1>1. DOMAIN s = Fields /\ s.tokens \in Int /\ s.resume_requested \in BOOLEAN
    BY DEF EntityInv, EntityType
  <1>2. Resets(s, r) /\ r.discard_timer = s.discard_timer
    BY <1>1, ResetFields
  <1> HIDE DEF r
  <1>3. Resets(s, u) /\ u.discard_timer = Off
    BY <1>2 DEF Resets, SameControl, Fields
  <1>4. Suspend(s) = [r EXCEPT !.discard_timer = Off, !.suspended = TRUE]
    BY DEF Suspend, r
  <1>5. v = [r EXCEPT !.discard_timer = Off, !.suspended = TRUE]
    OBVIOUS
  <1> HIDE DEF u
  <1>6. EntityInv(u)
    BY <1>3, ResetsKeeps
  <1>7. DOMAIN u = Fields /\ u.key = s.key /\ u.crypto = s.crypto /\ u.sdu_buffer = s.sdu_buffer
        /\ u.buffering = s.buffering /\ u.stopped = s.stopped /\ u.lower = s.lower
        /\ u.failed = s.failed /\ u.tokens = s.tokens /\ DOMAIN u.tx_window = {}
        /\ u.resume_requested = s.resume_requested
    BY <1>3 DEF Resets, SameControl
  <1>8. /\ SameButTokens(u, v) /\ v.buffering = u.buffering /\ v.suspended = TRUE
        /\ v.resume_requested = u.resume_requested /\ v.tokens = u.tokens
    BY <1>7 DEF SameButTokens, SameData, SameCounts, Fields
  <1>9. Suspend(s) = v /\ DOMAIN v = Fields
    BY <1>4, <1>5, <1>8 DEF SameButTokens
  <1> HIDE DEF v
  <1>10. /\ SameButTokens(v, t) /\ t.buffering = v.buffering /\ t.suspended = v.suspended
         /\ t.resume_requested = v.resume_requested
         /\ t.tokens = v.tokens + 1 /\ t.pending_crypto = FALSE
    BY <1>9, StartTokensFields
  <1> HIDE DEF t
  <1>11. SameButTokens(u, t)
    BY <1>8, <1>10 DEF SameButTokens, SameData, SameCounts
  <1>12. /\ t.tokens = s.tokens + 1 /\ t.tokens \in Int /\ t.suspended = TRUE
         /\ t.buffering = s.buffering /\ t.resume_requested = s.resume_requested
    BY <1>1, <1>7, <1>8, <1>10
  <1>13. EntityInv(t)
    <2>1. s.buffering \in BOOLEAN
      BY DEF EntityInv, EntityType
    <2> QED
      BY <1>1, <1>6, <1>7, <1>10, <1>11, <1>12, <2>1, SameButTokensKeeps
  <1>14. /\ t.key = s.key /\ t.crypto = s.crypto /\ t.sdu_buffer = s.sdu_buffer
         /\ t.stopped = s.stopped /\ t.lower = s.lower /\ t.failed = s.failed
         /\ DOMAIN t.tx_window = {}
    BY <1>7, <1>11 DEF SameButTokens, SameData
  <1> QED
    BY <1>10, <1>12, <1>13, <1>14 DEF t

\* stop.
LEMMA StopKeeps ==
  ASSUME NEW s, EntityInv(s)
  PROVE  LET t == Stop(s)
         IN /\ EntityInv(t) /\ t.key = s.key /\ t.crypto = s.crypto
            /\ t.sdu_buffer = s.sdu_buffer /\ t.buffering = s.buffering
            /\ t.suspended = s.suspended /\ t.stopped = TRUE
            /\ t.lower = s.lower /\ t.failed = s.failed /\ t.tx_next = s.tx_next
            /\ t.tokens = s.tokens - 1 /\ (t.pending_crypto <=> s.pending_crypto \/ s.tokens = 0)
            /\ DOMAIN t.tx_window = {}
  <1> DEFINE u == [s EXCEPT !.stopped = TRUE, !.tx_window = <<>>, !.discard_timer = Off,
                            !.crypto_reordering_timer = FALSE]
             t == Stop(s)
  <1>1. EntityType(s) /\ WindowInv(s) /\ LowerInv(s)
    BY DEF EntityInv
  <1>2. DOMAIN s = Fields
    BY <1>1 DEF EntityType
  <1>3. t = ReturnToken(u)
    BY DEF Stop
  <1>4. /\ DOMAIN u = Fields /\ u.stopped = TRUE /\ DOMAIN u.tx_window = {}
        /\ u.discard_timer = Off /\ u.crypto_reordering_timer = FALSE /\ u.tx_next = s.tx_next
        /\ u.tx_trans = s.tx_trans /\ u.tx_next_ack = s.tx_next_ack /\ u.overdue = s.overdue
        /\ u.tx_trans_crypto = s.tx_trans_crypto /\ u.tx_reord_crypto = s.tx_reord_crypto
        /\ u.retransmit_id = s.retransmit_id /\ u.key = s.key /\ u.tokens = s.tokens
        /\ u.pending_crypto = s.pending_crypto /\ u.buffering = s.buffering
        /\ u.sdu_buffer = s.sdu_buffer /\ u.suspended = s.suspended
        /\ u.resume_requested = s.resume_requested
        /\ u.desired_buffer_size = s.desired_buffer_size /\ u.crypto = s.crypto
        /\ u.lower = s.lower /\ u.failed = s.failed
    BY <1>2 DEF Fields
  <1> HIDE DEF u, t
  <1>5. EntityType(u)
    BY <1>1, <1>4 DEF EntityType
  <1>6. WindowInv(u)
    BY <1>1, <1>4 DEF WindowInv
  <1>7. LowerInv(u)
    <2>1. PduInv(u) /\ ReadyInv(u) /\ KeyOnce(u) /\ InOrderInv(u)
      BY <1>1, <1>4 DEF LowerInv, PduInv, ReadyInv, KeyOnce, InOrderInv
    <2>2. Parked(u) \/ KeyLow(u)
      BY <1>1, <1>4 DEF LowerInv, Parked, KeyLow
    <2> QED
      BY <2>1, <2>2 DEF LowerInv
  <1>8. TimerInv(u) /\ DiscardInv(u)
    BY <1>4 DEF TimerInv, DiscardInv
  <1>9. EntityInv(u)
    BY <1>5, <1>6, <1>7, <1>8 DEF EntityInv
  <1>10. /\ SameButTokens(u, t) /\ t.buffering = u.buffering /\ t.suspended = u.suspended
         /\ t.resume_requested = u.resume_requested
         /\ t.tokens = u.tokens - 1 /\ t.pending_crypto \in BOOLEAN
         /\ t.pending_crypto <=> u.pending_crypto \/ u.tokens = 0
    BY <1>3, <1>4, ReturnTokenFields
  <1>11. EntityInv(t)
    <2>1. /\ u.tokens \in Int /\ u.buffering \in BOOLEAN /\ u.suspended \in BOOLEAN
          /\ u.resume_requested \in BOOLEAN
      BY <1>5 DEF EntityType
    <2>2. /\ t.tokens \in Int /\ t.buffering \in BOOLEAN /\ t.suspended \in BOOLEAN
          /\ t.resume_requested \in BOOLEAN
      BY <1>10, <2>1
    <2> QED
      BY <1>9, <1>10, <2>2, SameButTokensKeeps
  <1>12. /\ t.key = s.key /\ t.crypto = s.crypto /\ t.sdu_buffer = s.sdu_buffer
         /\ t.stopped = TRUE /\ t.lower = s.lower /\ t.failed = s.failed
         /\ t.tx_next = s.tx_next /\ DOMAIN t.tx_window = {}
    BY <1>4, <1>10 DEF SameButTokens, SameData, SameCounts
  <1> QED
    BY <1>4, <1>10, <1>11, <1>12 DEF t

-----------------------------------------------------------------------------
(* The steps of the specification.                                         *)

\* What the invariant says of the entity alone, after a failed assertion too.
Sound(s) ==
  /\ EntityType(s) /\ WindowInv(s) /\ KeyOnce(s) /\ InOrderInv(s)
  /\ ~s.failed => EntityInv(s)

LEMMA EntityIsSound ==
  ASSUME NEW s, EntityInv(s)
  PROVE  Sound(s)
  BY DEF EntityInv, LowerInv, Sound

LEMMA StepIsSound ==
  ASSUME NEW s, NEW t, DataStep(s, t)
  PROVE  Sound(t)
  BY DEF DataStep, Sound

\* The tokens do not matter to it.
LEMMA SameButTokensSound ==
  ASSUME NEW s, NEW t, Sound(s), SameButTokens(s, t), t.tokens \in Int,
         t.pending_crypto \in BOOLEAN, t.buffering = s.buffering, t.suspended = s.suspended,
         t.resume_requested = s.resume_requested
  PROVE  Sound(t)
  <1>1. EntityType(s) /\ WindowInv(s) /\ KeyOnce(s) /\ InOrderInv(s)
    BY DEF Sound
  <1>2. EntityType(t)
    BY <1>1 DEF EntityType, SameButTokens, SameData, SameCounts
  <1>3. WindowInv(t)
    BY <1>1 DEF WindowInv, SameButTokens, SameData, SameCounts
  <1>4. KeyOnce(t) /\ InOrderInv(t)
    BY <1>1 DEF KeyOnce, InOrderInv, SameButTokens, SameData
  <1>5. ~t.failed => EntityInv(t)
    <2>1. t.failed = s.failed
      BY DEF SameButTokens, SameData
    <2>2. t.buffering \in BOOLEAN /\ t.suspended \in BOOLEAN /\ t.resume_requested \in BOOLEAN
      BY <1>2 DEF EntityType
    <2> QED
      BY <2>1, <2>2, SameButTokensKeeps DEF Sound
  <1> QED
    BY <1>2, <1>3, <1>4, <1>5 DEF Sound

\* The types of everything but the entity.
OtherTypes ==
  /\ cfg \in [rlc_mode : Modes, discard_timer : DiscardTimers] /\ queue \in Seq(Results)
  /\ DOMAIN notified = {"trans", "deliv", "old"}
  /\ notified.trans \in 0 .. Len(e.lower) /\ notified.deliv \in Nat /\ notified.old \in Nat
  /\ routine \in [step : {"idle", "suspend", "release"}] \cup [step : {"rekey"}, reest : BOOLEAN]
  /\ bearer \in {"active", "handover", "suspended", "released"} /\ sdus \in Nat /\ faults \in Nat

LEMMA FromParts ==
  IInv <=> OtherTypes /\ Sound(e) /\ TaskInv /\ TokenInv /\ ControlInv /\ SduInv
  <1>1. IInv => OtherTypes /\ Sound(e) /\ TaskInv /\ TokenInv /\ ControlInv /\ SduInv
    <2> SUFFICES ASSUME IInv
                 PROVE  OtherTypes /\ Sound(e) /\ TaskInv /\ TokenInv /\ ControlInv /\ SduInv
      OBVIOUS
    <2>1. OtherTypes
      BY DEF IInv, Types, OtherTypes
    <2> QED
      BY <2>1 DEF IInv, Types, Sound, EntityInv
  <1>2. OtherTypes /\ Sound(e) /\ TaskInv /\ TokenInv /\ ControlInv /\ SduInv => IInv
    <2> SUFFICES ASSUME OtherTypes, Sound(e), TaskInv, TokenInv, ControlInv, SduInv
                 PROVE  IInv
      OBVIOUS
    <2>1. Types
      BY DEF Sound, Types, OtherTypes
    <2> QED
      BY <2>1 DEF IInv, Sound, EntityInv
  <1> QED
    BY <1>1, <1>2

\* The entity after a step.
LEMMA SoundAfter ==
  ASSUME cfg' = cfg, Sound(e')
  PROVE  Sound(e)'
  <1>1. EntityType(e)'
    BY DEF Sound, EntityType
  <1>2. WindowInv(e)'
    BY DEF Sound, WindowInv
  <1>3. KeyOnce(e)' /\ InOrderInv(e)'
    BY DEF Sound, KeyOnce, InOrderInv
  <1>4. (~e.failed)' => EntityInv(e)'
    <2> SUFFICES ASSUME ~e'.failed
                 PROVE  EntityInv(e)'
      OBVIOUS
    <2>1. LowerInv(e') /\ TimerInv(e') /\ DiscardInv(e')
      BY DEF Sound, EntityInv
    <2>2. LowerInv(e)'
      BY <2>1 DEF LowerInv
    <2>3. TimerInv(e)'
      BY <2>1 DEF TimerInv
    <2>4. DiscardInv(e)'
      BY <2>1 DEF DiscardInv
    <2> QED
      BY <1>1, <1>2, <2>2, <2>3, <2>4 DEF EntityInv
  <1> QED
    BY <1>1, <1>2, <1>3, <1>4 DEF Sound

LEMMA FromPartsAfter ==
  ASSUME cfg' = cfg, Sound(e'), OtherTypes', TaskInv', TokenInv', ControlInv', SduInv'
  PROVE  IInv'
  <1>1. Sound(e)'
    BY SoundAfter
  <1>2. Types'
    BY <1>1 DEF Sound, Types, OtherTypes
  <1> QED
    BY <1>1, <1>2 DEF IInv, Sound, EntityInv

\* What the steps start from.
LEMMA FromRunning ==
  ASSUME IInv, ~e.failed
  PROVE  /\ EntityInv(e) /\ DOMAIN e = Fields
         /\ cfg \in [rlc_mode : Modes, discard_timer : DiscardTimers]
  BY FromParts DEF Sound, OtherTypes, EntityInv, EntityType

\* Tasks and results stay right while SDUs only leave the window.
LEMMA TasksMatch ==
  ASSUME TaskInv, queue' = queue, e'.key = e.key, e'.crypto \subseteq e.crypto,
         e'.tx_next = e.tx_next, DOMAIN e'.tx_window \subseteq DOMAIN e.tx_window,
         \A c \in DOMAIN e'.tx_window : e'.tx_window[c].sdu = e.tx_window[c].sdu
  PROVE  TaskInv'
  <1>1. ASSUME NEW x, Matches(e, x)
        PROVE  Matches(e', x)
    BY <1>1 DEF Matches, Has
  <1>2. \A task \in e'.crypto : Matches(e', task)
    BY <1>1 DEF TaskInv
  <1>3. \A i \in DOMAIN queue : queue[i].key \in {0, e.key} /\ Matches(e', queue[i])
    BY <1>1 DEF TaskInv
  <1> QED
    BY <1>2, <1>3 DEF TaskInv, Matches, Has

\* A task of the data path, when the rest of the system stays.
LEMMA DataKeeps ==
  ASSUME IInv, DataStep(e, e'), UNCHANGED <<cfg, queue, routine, bearer, sdus>>, OtherTypes'
  PROVE  IInv'
  <1>1. /\ e'.key = e.key /\ e'.tokens = e.tokens /\ e'.pending_crypto = e.pending_crypto
        /\ e'.buffering = e.buffering /\ e'.sdu_buffer = e.sdu_buffer
        /\ e'.suspended = e.suspended /\ e'.stopped = e.stopped /\ e'.crypto = e.crypto
        /\ e'.tx_next = e.tx_next /\ DOMAIN e'.tx_window \subseteq DOMAIN e.tx_window
        /\ \A c \in DOMAIN e'.tx_window : e'.tx_window[c].sdu = e.tx_window[c].sdu
    BY DEF DataStep, SameControl
  <1>2. Sound(e')
    BY StepIsSound
  <1>3. TaskInv /\ TokenInv /\ ControlInv /\ SduInv
    BY FromParts
  <1>4. TaskInv'
    BY <1>1, <1>3, TasksMatch
  <1>5. TokenInv'
    BY <1>1, <1>3 DEF TokenInv, OwnToken, Drained
  <1>6. ControlInv'
    BY <1>1, <1>3 DEF ControlInv
  <1>7. SduInv'
    BY <1>1, <1>3 DEF SduInv
  <1> QED
    BY <1>2, <1>4, <1>5, <1>6, <1>7, FromPartsAfter

\* The types of the rest, when RLC has got no fewer PDUs.
LEMMA OtherTypesKeep ==
  ASSUME IInv, UNCHANGED <<cfg, queue, notified, routine, bearer, sdus>>, faults' \in Nat,
         Sound(e'), Len(e.lower) <= Len(e'.lower)
  PROVE  OtherTypes'
  <1>1. OtherTypes /\ Len(e.lower) \in Nat /\ Len(e'.lower) \in Nat
    BY FromParts, SubmittedFacts DEF Sound
  <1>2. notified.trans \in 0 .. Len(e'.lower)
    BY <1>1 DEF OtherTypes
  <1> QED
    BY <1>1, <1>2 DEF OtherTypes

LEMMA CryptoReorderingExpiryKeeps ==
  ASSUME IInv, CryptoReorderingExpiry
  PROVE  IInv'
  <1>1. ~e.failed /\ e.crypto_reordering_timer /\ e' = CryptoReorderingTimeout(e)
        /\ UNCHANGED <<cfg, queue, notified, routine, bearer, bounds>>
    BY DEF CryptoReorderingExpiry, Running
  <1>2. DataStep(e, e')
    BY <1>1, FromRunning, TimeoutKeeps
  <1>3. Sound(e') /\ Len(e.lower) <= Len(e'.lower)
    BY <1>2, StepIsSound DEF DataStep
  <1>4. OtherTypes'
    BY <1>1, <1>3, FromParts, OtherTypesKeep DEF bounds, OtherTypes
  <1> QED
    BY <1>1, <1>2, <1>4, DataKeeps DEF bounds

LEMMA TickStepKeeps ==
  ASSUME IInv, Tick
  PROVE  IInv'
  <1>1. /\ ~e.failed /\ e.discard_timer > 0
        /\ e' = [e EXCEPT !.discard_timer = @ - 1,
                   !.tx_window = [c \in DOMAIN @ |-> [e.tx_window[c] EXCEPT !.left = @ - 1]]]
        /\ UNCHANGED <<cfg, queue, notified, routine, bearer, bounds>>
    BY DEF Tick, Running
  <1>2. DataStep(e, e')
    <2>1. EntityInv(e) /\ cfg \in [rlc_mode : Modes, discard_timer : DiscardTimers]
      BY <1>1, FromRunning
    <2>2. DataStep(e, [e EXCEPT !.discard_timer = @ - 1,
                   !.tx_window = [c \in DOMAIN @ |-> [e.tx_window[c] EXCEPT !.left = @ - 1]]])
      BY <1>1, <2>1, TickKeeps
    <2> QED
      BY <1>1, <2>2, Zenon
  <1>3. Sound(e') /\ Len(e.lower) <= Len(e'.lower)
    BY <1>2, StepIsSound DEF DataStep
  <1>4. OtherTypes'
    BY <1>1, <1>3, FromParts, OtherTypesKeep DEF bounds, OtherTypes
  <1> QED
    BY <1>1, <1>2, <1>4, DataKeeps DEF bounds

LEMMA DiscardTimerExpiryKeeps ==
  ASSUME IInv, DiscardTimerExpiry
  PROVE  IInv'
  <1>1. ~e.failed /\ e.discard_timer = 0 /\ e' = DiscardCallback(e)
        /\ UNCHANGED <<cfg, queue, notified, routine, bearer, bounds>>
    BY DEF DiscardTimerExpiry, Running
  <1>2. DataStep(e, e')
    BY <1>1, FromRunning, DiscardCallbackKeeps
  <1>3. Sound(e') /\ Len(e.lower) <= Len(e'.lower)
    BY <1>2, StepIsSound DEF DataStep
  <1>4. OtherTypes'
    BY <1>1, <1>3, FromParts, OtherTypesKeep DEF bounds, OtherTypes
  <1> QED
    BY <1>1, <1>2, <1>4, DataKeeps DEF bounds

LEMMA StatusReportStepKeeps ==
  ASSUME IInv, StatusReport
  PROVE  IInv'
  <1>1. PICK fmc, bitmap : e' = HandleStatusReport(e, fmc, bitmap)
    BY DEF StatusReport
  <1>2. /\ ~e.failed /\ faults' = faults + 1
        /\ UNCHANGED <<cfg, queue, notified, routine, bearer, sdus>>
    BY DEF StatusReport, Running
  <1>3. DataStep(e, e')
    BY <1>1, <1>2, FromRunning, StatusReportKeeps
  <1>4. Sound(e') /\ Len(e.lower) <= Len(e'.lower)
    BY <1>3, StepIsSound DEF DataStep
  <1>5. faults' \in Nat
    BY <1>2, FromParts DEF OtherTypes
  <1>6. OtherTypes'
    BY <1>2, <1>4, <1>5, OtherTypesKeep
  <1> QED
    BY <1>2, <1>3, <1>6, DataKeeps

\* A timer set for an SDU that is overdue may fail an assertion.
LEMMA CheckedKeeps ==
  ASSUME NEW s, DataStep(e, s), NEW t \in Checked(s)
  PROVE  DataStep(e, t)
  <1>1. CASE t = s
    BY <1>1
  <1>2. CASE t = [s EXCEPT !.failed = TRUE]
    <2>1. EntityType(s) /\ WindowInv(s) /\ KeyOnce(s) /\ InOrderInv(s) /\ SameControl(e, s)
      BY DEF DataStep
    <2>2. /\ SameControl(s, t) /\ SameCounts(s, t) /\ t.failed = TRUE
          /\ t.tx_trans_crypto = s.tx_trans_crypto /\ t.tx_reord_crypto = s.tx_reord_crypto
          /\ t.crypto_reordering_timer = s.crypto_reordering_timer
          /\ t.tx_window = s.tx_window /\ t.lower = s.lower
      BY <1>2, <2>1 DEF EntityType, SameControl, SameCounts, Fields
    <2>3. EntityType(t)
      BY <2>1, <2>2 DEF EntityType, SameControl, SameCounts
    <2>4. WindowInv(t)
      BY <2>1, <2>2 DEF WindowInv, SameControl, SameCounts
    <2>5. KeyOnce(t) /\ InOrderInv(t)
      BY <2>1, <2>2 DEF KeyOnce, InOrderInv
    <2>6. SameControl(e, t)
      BY <2>1, <2>2 DEF SameControl
    <2> QED
      BY <2>2, <2>3, <2>4, <2>5, <2>6 DEF DataStep, SameCounts
  <1> QED
    BY <1>1, <1>2 DEF Checked

LEMMA TransmitNotificationKeeps ==
  ASSUME IInv, TransmitNotification
  PROVE  IInv'
  <1>1. PICK i \in (notified.trans + 1) .. Len(e.lower) :
          /\ e' \in Checked(HandleTransmitNotification(e, SN(e.lower[i].count)))
          /\ notified' = [notified EXCEPT !.trans = i]
    BY DEF TransmitNotification
  <1>2. ~e.failed /\ UNCHANGED <<cfg, queue, routine, bearer, bounds>>
    BY DEF TransmitNotification, Running
  <1>3. EntityInv(e) /\ EntityType(e) /\ OtherTypes
        /\ cfg \in [rlc_mode : Modes, discard_timer : DiscardTimers]
    BY <1>2, FromRunning, FromParts DEF EntityInv
  <1>4. notified.trans \in Nat /\ Len(e.lower) \in Nat /\ DOMAIN e.lower = 1 .. Len(e.lower)
    BY <1>3, SubmittedFacts DEF OtherTypes
  <1>5. i \in DOMAIN e.lower /\ i \in Nat /\ i <= Len(e.lower)
    BY <1>4
  <1>6. e.lower[i].count \in Nat
    BY <1>3, <1>5, SubmittedFacts
  <1>7. DataStep(e, e')
    BY <1>1, <1>3, <1>6, TransmitKeeps, CheckedKeeps
  <1>8. Len(e.lower) <= Len(e'.lower) /\ Len(e'.lower) \in Nat
    BY <1>7, SubmittedFacts DEF DataStep
  <1>9. i \in 0 .. Len(e'.lower)
    BY <1>4, <1>5, <1>8
  <1>10. OtherTypes'
    BY <1>1, <1>2, <1>3, <1>9 DEF OtherTypes, bounds
  <1> QED
    BY <1>2, <1>7, <1>10, DataKeeps DEF bounds

LEMMA DeliveryNotificationKeeps ==
  ASSUME IInv, DeliveryNotification
  PROVE  IInv'
  <1>1. PICK i \in (notified.deliv + 1) .. notified.trans :
          /\ e' \in Checked(HandleDeliveryNotification(e, SN(e.lower[i].count)))
          /\ notified' = [notified EXCEPT !.deliv = i]
    BY DEF DeliveryNotification
  <1>2. ~e.failed /\ UNCHANGED <<cfg, queue, routine, bearer, bounds>>
    BY DEF DeliveryNotification, Running
  <1>3. EntityInv(e) /\ EntityType(e) /\ OtherTypes
        /\ cfg \in [rlc_mode : Modes, discard_timer : DiscardTimers]
    BY <1>2, FromRunning, FromParts DEF EntityInv
  <1>4. /\ notified.trans \in Nat /\ notified.trans <= Len(e.lower) /\ notified.deliv \in Nat
        /\ Len(e.lower) \in Nat /\ DOMAIN e.lower = 1 .. Len(e.lower)
    BY <1>3, SubmittedFacts DEF OtherTypes
  <1>5. i \in DOMAIN e.lower /\ i \in Nat
    BY <1>4
  <1>6. e.lower[i].count \in Nat
    BY <1>3, <1>5, SubmittedFacts
  <1>7. DataStep(e, e')
    BY <1>1, <1>3, <1>6, DeliveryKeeps, CheckedKeeps
  <1>8. Len(e.lower) <= Len(e'.lower) /\ Len(e'.lower) \in Nat
    BY <1>7, SubmittedFacts DEF DataStep
  <1>9. notified.trans \in 0 .. Len(e'.lower)
    BY <1>4, <1>8
  <1>10. OtherTypes'
    BY <1>1, <1>2, <1>3, <1>5, <1>9 DEF OtherTypes, bounds
  <1> QED
    BY <1>2, <1>7, <1>10, DataKeeps DEF bounds

LEMMA DesiredBufferSizeKeeps ==
  ASSUME IInv, DesiredBufferSize
  PROVE  IInv'
  <1>1. PICK size \in BufferSizes : e' = [e EXCEPT !.desired_buffer_size = size]
    BY DEF DesiredBufferSize
  <1>2. ~e.failed /\ UNCHANGED <<cfg, queue, notified, routine, bearer, sdus, faults>>
    BY DEF DesiredBufferSize, Running, bounds
  <1>3. EntityInv(e) /\ DOMAIN e = Fields
    BY <1>2, FromRunning
  <1>4. /\ DOMAIN e' = Fields /\ SameData(e, e') /\ e'.desired_buffer_size = size
        /\ e'.key = e.key /\ e'.tokens = e.tokens /\ e'.pending_crypto = e.pending_crypto
        /\ e'.buffering = e.buffering /\ e'.sdu_buffer = e.sdu_buffer
        /\ e'.suspended = e.suspended /\ e'.crypto = e.crypto
        /\ e'.resume_requested = e.resume_requested
    BY <1>1, <1>3 DEF SameData, SameCounts, Fields
  <1>5. EntityType(e')
    <2>1. size \in Nat
      BY PdcpTxAssumption
    <2> QED
      BY <1>3, <1>4, <2>1 DEF EntityInv, EntityType, SameData, SameCounts
  <1>6. EntityInv(e')
    BY <1>3, <1>4, <1>5, SameDataKeeps
  <1>7. /\ e'.tx_next = e.tx_next /\ e'.tx_window = e.tx_window /\ e'.stopped = e.stopped
        /\ e'.lower = e.lower
    BY <1>4 DEF SameData, SameCounts
  <1>8. Sound(e') /\ OtherTypes /\ TaskInv /\ TokenInv /\ ControlInv /\ SduInv
    BY <1>6, EntityIsSound, FromParts
  <1>9. OtherTypes'
    BY <1>2, <1>7, <1>8 DEF OtherTypes
  <1>10. TaskInv'
    BY <1>2, <1>4, <1>7, <1>8, TasksMatch
  <1>11. TokenInv'
    BY <1>2, <1>4, <1>8 DEF TokenInv, OwnToken, Drained
  <1>12. ControlInv'
    BY <1>2, <1>4, <1>7, <1>8 DEF ControlInv
  <1>13. SduInv'
    BY <1>2, <1>4, <1>7, <1>8 DEF SduInv
  <1> QED
    BY <1>2, <1>8, <1>9, <1>10, <1>11, <1>12, <1>13, FromPartsAfter

\* The number of SDUs under way.
LEMMA DrainedFacts ==
  ASSUME NEW C, IsFiniteSet(C), NEW S, NEW q \in Seq(S)
  PROVE  /\ Cardinality(C) + Len(q) \in Nat
         /\ (C = {} /\ q = <<>>) <=> Cardinality(C) + Len(q) = 0
  <1>1. Cardinality(C) \in Nat /\ (Cardinality(C) = 0 <=> C = {})
    BY FS_CardinalityType, FS_EmptySet
  <1>2. Len(q) \in Nat
    OBVIOUS
  <1>3. Len(q) = 0 <=> q = <<>>
    BY EmptySeq
  <1> QED
    BY <1>1, <1>2, <1>3

\* The task that ends returns its token.
LEMMA TokenReturns ==
  ASSUME IInv, EntityType(e'), queue' \in Seq(Results), routine' = routine,
         Cardinality(e'.crypto) + Len(queue') = Cardinality(e.crypto) + Len(queue) - 1,
         e'.tokens = e.tokens - 1, e'.pending_crypto <=> e.pending_crypto \/ e.tokens = 0
  PROVE  TokenInv'
  <1> DEFINE before == Cardinality(e.crypto) + Len(queue)
             after == Cardinality(e'.crypto) + Len(queue')
  <1>1. TokenInv /\ EntityType(e) /\ queue \in Seq(Results)
    BY FromParts DEF Sound, OtherTypes
  <1>2. IsFiniteSet(e.crypto) /\ IsFiniteSet(e'.crypto) /\ e.tokens \in Int
    BY <1>1 DEF EntityType
  <1>3. /\ before \in Nat /\ after \in Nat
        /\ (e.crypto = {} /\ queue = <<>>) <=> before = 0
        /\ (e'.crypto = {} /\ queue' = <<>>) <=> after = 0
    BY <1>1, <1>2, DrainedFacts
  <1>4. after = before - 1
    <2>1. Cardinality(e.crypto) \in Nat /\ Len(queue) \in Nat
      BY <1>1, <1>2, FS_CardinalityType
    <2> QED
      BY <2>1
  <1>5. /\ e.tokens + OwnToken = before
        /\ routine = Idle => ~e.pending_crypto
        /\ routine # Idle => (e.pending_crypto <=> (e.crypto = {} /\ queue = <<>>))
    BY <1>1 DEF TokenInv, Drained
  <1> HIDE DEF before, after
  <1>6. CASE routine = Idle
    <2>1. OwnToken = 0 /\ OwnToken' = 0
      BY <1>6 DEF OwnToken
    <2>2. ~e'.pending_crypto /\ e'.tokens + 0 = after
      BY <1>2, <1>3, <1>4, <1>5, <1>6, <2>1
    <2> QED
      BY <1>6, <2>1, <2>2 DEF TokenInv, after
  <1>7. CASE routine # Idle
    <2>1. OwnToken = 1 /\ OwnToken' = 1
      BY <1>7 DEF OwnToken
    <2>2. e'.tokens + 1 = after
      BY <1>2, <1>3, <1>4, <1>5, <2>1
    <2>3. e'.pending_crypto <=> (e'.crypto = {} /\ queue' = <<>>)
      BY <1>2, <1>3, <1>4, <1>5, <1>7, <2>1
    <2> QED
      BY <1>7, <2>1, <2>2, <2>3 DEF TokenInv, Drained, after
  <1> QED
    BY <1>6, <1>7

LEMMA ApplySecurityKeeps ==
  ASSUME IInv, ApplySecurity
  PROVE  IInv'
  <1>1. PICK task \in e.crypto, outcome \in {"protected", "failed", "queue_full"} :
          LET done == [e EXCEPT !.crypto = @ \ {task}]
              buf  == [count |-> task.count, retx_id |-> task.retx_id, sdu |-> task.sdu,
                       key |-> IF outcome = "protected" THEN e.key ELSE 0]
          IN /\ e' = IF outcome = "queue_full" THEN ReturnToken(done) ELSE done
             /\ queue' = IF outcome = "queue_full" THEN queue ELSE Append(queue, buf)
             /\ Refuse(IF outcome = "protected" THEN 0 ELSE 1)
    BY DEF ApplySecurity
  <1> DEFINE done == [e EXCEPT !.crypto = @ \ {task}]
             key == IF outcome = "protected" THEN e.key ELSE 0
             buf == [count |-> task.count, retx_id |-> task.retx_id, sdu |-> task.sdu,
                     key |-> key]
  <1>2. ~e.failed /\ UNCHANGED <<cfg, notified, routine, bearer, sdus>>
    BY DEF ApplySecurity, Running
  <1>3. EntityInv(e) /\ DOMAIN e = Fields /\ EntityType(e)
    BY <1>2, FromRunning DEF EntityInv
  <1>4. OtherTypes /\ TaskInv /\ TokenInv /\ ControlInv /\ SduInv
    BY FromParts
  <1>5. faults' \in Nat
    BY <1>1, <1>4 DEF Refuse, OtherTypes
  <1>6. /\ e.crypto \in SUBSET Tasks /\ IsFiniteSet(e.crypto) /\ e.tokens \in Int /\ e.key \in Nat
        /\ e.pending_crypto \in BOOLEAN
    BY <1>3 DEF EntityType
  <1>7. /\ IsFiniteSet(e.crypto \ {task}) /\ e.crypto \ {task} \in SUBSET Tasks
        /\ Cardinality(e.crypto \ {task}) = Cardinality(e.crypto) - 1
        /\ Cardinality(e.crypto) \in Nat
    BY <1>6, FS_RemoveElement, FS_CardinalityType
  <1>8. buf \in Results /\ buf.key \in {0, e.key} /\ Matches(e, buf)
    <2>1. task.count \in Nat /\ task.retx_id \in Nat /\ task.sdu \in Nat
      BY <1>6 DEF Tasks
    <2>2. key \in {0, e.key} /\ key \in Nat
      BY <1>6
    <2>3. buf.count = task.count /\ buf.sdu = task.sdu
      OBVIOUS
    <2>4. Matches(e, task)
      BY <1>4 DEF TaskInv
    <2>5. Matches(e, buf)
      BY <2>3, <2>4 DEF Matches
    <2> HIDE DEF key
    <2> QED
      BY <2>1, <2>2, <2>5 DEF Results
  <1>9. /\ SameButTasks(e, done) /\ done.crypto = e.crypto \ {task} /\ done.tokens = e.tokens
    BY <1>3 DEF SameButTasks, SameCounts, Fields
  <1>10. /\ outcome = "queue_full" => e' = ReturnToken(done) /\ queue' = queue
         /\ outcome # "queue_full" => e' = done /\ queue' = Append(queue, buf)
    BY <1>1
  <1> HIDE DEF done, buf
  <1>11. EntityInv(done)
    BY <1>3, <1>6, <1>7, <1>9, SameButTasksKeeps
  <1>12. /\ DOMAIN done = Fields /\ done.key = e.key /\ done.pending_crypto = e.pending_crypto
         /\ done.buffering = e.buffering /\ done.sdu_buffer = e.sdu_buffer
         /\ done.suspended = e.suspended /\ done.stopped = e.stopped
         /\ done.tx_next = e.tx_next /\ done.tx_window = e.tx_window /\ done.lower = e.lower
    BY <1>9 DEF SameButTasks, SameCounts
  <1>13. /\ Sound(e') /\ e'.key = e.key
         /\ e'.buffering = e.buffering /\ e'.sdu_buffer = e.sdu_buffer
         /\ e'.suspended = e.suspended /\ e'.stopped = e.stopped /\ e'.tx_next = e.tx_next
         /\ e'.tx_window = e.tx_window /\ e'.lower = e.lower /\ e'.crypto = e.crypto \ {task}
         /\ queue' \in Seq(Results) /\ TokenInv'
         /\ \A i \in DOMAIN queue' : queue'[i].key \in {0, e.key} /\ Matches(e, queue'[i])
    <2>1. CASE outcome = "queue_full"
      <3>1. e' = ReturnToken(done) /\ queue' = queue
        BY <1>10, <2>1
      <3>2. /\ SameButTokens(done, e') /\ e'.buffering = done.buffering
            /\ e'.suspended = done.suspended /\ e'.resume_requested = done.resume_requested
            /\ e'.tokens = done.tokens - 1 /\ e'.pending_crypto \in BOOLEAN
            /\ e'.pending_crypto <=> done.pending_crypto \/ done.tokens = 0
        BY <1>12, <3>1, ReturnTokenFields
      <3>3. Sound(e')
        <4>1. Sound(done) /\ e'.tokens \in Int
          BY <1>6, <1>9, <1>11, <3>2, EntityIsSound
        <4> QED
          BY <3>2, <4>1, SameButTokensSound
      <3>4. /\ e'.key = e.key /\ e'.sdu_buffer = e.sdu_buffer /\ e'.stopped = e.stopped
            /\ e'.tx_next = e.tx_next /\ e'.tx_window = e.tx_window /\ e'.lower = e.lower
            /\ e'.crypto = e.crypto \ {task}
        BY <1>9, <1>12, <3>2 DEF SameButTokens, SameData, SameCounts
      <3>5. /\ queue' \in Seq(Results)
            /\ \A i \in DOMAIN queue' : queue'[i].key \in {0, e.key} /\ Matches(e, queue'[i])
        BY <1>4, <3>1 DEF OtherTypes, TaskInv
      <3>6. TokenInv'
        <4>1. Len(queue) \in Nat
          BY <1>4 DEF OtherTypes
        <4>2. Cardinality(e'.crypto) + Len(queue') = Cardinality(e.crypto) + Len(queue) - 1
          BY <1>7, <3>1, <3>4, <4>1
        <4>3. e'.tokens = e.tokens - 1 /\ (e'.pending_crypto <=> e.pending_crypto \/ e.tokens = 0)
          BY <1>9, <1>12, <3>2
        <4> QED
          BY <1>2, <3>3, <3>5, <4>2, <4>3, TokenReturns DEF Sound
      <3> QED
        BY <1>12, <3>2, <3>3, <3>4, <3>5, <3>6
    <2>2. CASE outcome # "queue_full"
      <3>1. e' = done /\ queue' = Append(queue, buf)
        BY <1>10, <2>2
      <3>2. Sound(e')
        BY <1>11, <3>1, EntityIsSound
      <3>3. /\ queue' \in Seq(Results) /\ Len(queue') = Len(queue) + 1 /\ Len(queue) \in Nat
            /\ \A i \in 1 .. Len(queue) : queue'[i] = queue[i]
            /\ queue'[Len(queue) + 1] = buf
        BY <1>4, <1>8, <3>1, AppendProperties DEF OtherTypes
      <3>4. \A i \in DOMAIN queue' : queue'[i].key \in {0, e.key} /\ Matches(e, queue'[i])
        <4> SUFFICES ASSUME NEW i \in DOMAIN queue'
                     PROVE  queue'[i].key \in {0, e.key} /\ Matches(e, queue'[i])
          OBVIOUS
        <4>1. i \in 1 .. Len(queue) \/ i = Len(queue) + 1
          BY <3>3
        <4>2. i \in 1 .. Len(queue) => i \in DOMAIN queue
          BY <1>4 DEF OtherTypes
        <4> QED
          BY <1>4, <1>8, <3>3, <4>1, <4>2 DEF TaskInv
      <3>5. TokenInv'
        <4>1. /\ e'.tokens = e.tokens /\ e'.pending_crypto = e.pending_crypto
              /\ e'.crypto = e.crypto \ {task}
          BY <1>9, <1>12, <3>1
        <4>2. Cardinality(e'.crypto) + Len(queue') = Cardinality(e.crypto) + Len(queue)
          BY <1>7, <3>3, <4>1
        <4>3. queue' # <<>> /\ e.crypto # {}
          <5>1. Len(queue') # 0
            BY <3>3
          <5> QED
            BY <5>1
        <4>4. ~e.pending_crypto
          BY <1>4, <4>3 DEF TokenInv, Drained
        <4>5. OwnToken' = OwnToken
          BY <1>2 DEF OwnToken
        <4> QED
          BY <1>2, <1>4, <4>1, <4>2, <4>3, <4>4, <4>5 DEF TokenInv, Drained
      <3> QED
        BY <1>9, <1>12, <3>1, <3>2, <3>3, <3>4, <3>5
    <2> QED
      BY <2>1, <2>2
  <1>14. OtherTypes'
    BY <1>2, <1>4, <1>5, <1>13 DEF OtherTypes
  <1>15. TaskInv'
    <2>1. \A x : Matches(e, x) => Matches(e', x)
      BY <1>13 DEF Matches, Has
    <2>2. \A x \in e'.crypto : Matches(e', x)
      BY <1>4, <1>13, <2>1 DEF TaskInv
    <2>3. \A i \in DOMAIN queue' : queue'[i].key \in {0, e.key} /\ Matches(e', queue'[i])
      BY <1>13, <2>1
    <2> QED
      BY <1>13, <2>2, <2>3 DEF TaskInv, Matches, Has
  <1>16. ControlInv'
    BY <1>2, <1>4, <1>13 DEF ControlInv
  <1>17. SduInv'
    BY <1>2, <1>4, <1>13 DEF SduInv
  <1> QED
    BY <1>2, <1>13, <1>14, <1>15, <1>16, <1>17, FromPartsAfter

LEMMA ProcessProtectedKeeps ==
  ASSUME IInv, ProcessProtected
  PROVE  IInv'
  <1> DEFINE buf == Head(queue)
             s == IF buf.key = 0 THEN e ELSE ApplyReordering(e, buf)
  <1>1. /\ ~e.failed /\ queue # <<>> /\ queue' = Tail(queue) /\ e' = ReturnToken(s)
        /\ UNCHANGED <<cfg, notified, routine, bearer, sdus, faults>>
    BY DEF ProcessProtected, Running, bounds
  <1>2. EntityInv(e)
    BY <1>1, FromRunning
  <1>3. OtherTypes /\ TaskInv /\ TokenInv /\ ControlInv /\ SduInv
    BY FromParts
  <1>4. queue \in Seq(Results)
    BY <1>3 DEF OtherTypes
  <1>5. /\ buf \in Results /\ buf = queue[1] /\ 1 \in DOMAIN queue
        /\ Tail(queue) \in Seq(Results) /\ Len(Tail(queue)) = Len(queue) - 1 /\ Len(queue) \in Nat
        /\ \A i \in DOMAIN Tail(queue) : i + 1 \in DOMAIN queue /\ Tail(queue)[i] = queue[i + 1]
    <2>1. Len(queue) \in Nat /\ Len(queue) # 0 /\ DOMAIN queue = 1 .. Len(queue)
      BY <1>1, <1>4, EmptySeq
    <2>2. buf = queue[1] /\ 1 \in DOMAIN queue
      BY <1>1, <1>4, <2>1
    <2>3. /\ Tail(queue) \in Seq(Results) /\ Len(Tail(queue)) = Len(queue) - 1
          /\ \A i \in 1 .. (Len(queue) - 1) : Tail(queue)[i] = queue[i + 1]
      BY <1>1, <1>4, <2>1, HeadTailProperties
    <2>4. DOMAIN Tail(queue) = 1 .. (Len(queue) - 1)
      BY <2>3
    <2> QED
      BY <1>4, <2>1, <2>2, <2>3, <2>4
  <1>6. /\ buf.key \in {0, e.key}
        /\ Has(e, buf.count) => buf.sdu = e.tx_window[buf.count].sdu
    BY <1>3, <1>5 DEF TaskInv, Matches
  <1>7. DataStep(e, s)
    <2>1. CASE buf.key = 0
      BY <1>2, <2>1, DataStutter
    <2>2. CASE buf.key # 0
      <3>1. buf.key = e.key
        BY <1>6, <2>2
      <3> QED
        BY <1>2, <1>5, <1>6, <2>2, <3>1, ReorderingKeeps
    <2> QED
      BY <2>1, <2>2
  <1> HIDE DEF buf, s
  <1>8. /\ DOMAIN s = Fields /\ s.key = e.key /\ s.tokens = e.tokens
        /\ s.pending_crypto = e.pending_crypto /\ s.buffering = e.buffering
        /\ s.sdu_buffer = e.sdu_buffer /\ s.suspended = e.suspended /\ s.stopped = e.stopped
        /\ s.crypto = e.crypto /\ s.tx_next = e.tx_next /\ Len(e.lower) <= Len(s.lower)
        /\ DOMAIN s.tx_window \subseteq DOMAIN e.tx_window
        /\ \A c \in DOMAIN s.tx_window : s.tx_window[c].sdu = e.tx_window[c].sdu
    BY <1>7 DEF DataStep, SameControl
  <1>9. /\ SameButTokens(s, e') /\ e'.buffering = s.buffering
        /\ e'.suspended = s.suspended /\ e'.resume_requested = s.resume_requested
        /\ e'.tokens = s.tokens - 1 /\ e'.pending_crypto \in BOOLEAN
        /\ e'.pending_crypto <=> s.pending_crypto \/ s.tokens = 0
    BY <1>1, <1>8, ReturnTokenFields
  <1>10. Sound(e')
    <2>1. Sound(s) /\ s.tokens \in Int
      BY <1>7, StepIsSound DEF Sound, EntityType
    <2>2. e'.tokens \in Int
      BY <1>9, <2>1
    <2> QED
      BY <1>9, <2>1, <2>2, SameButTokensSound
  <1>11. /\ e'.key = e.key /\ e'.sdu_buffer = e.sdu_buffer /\ e'.stopped = e.stopped
         /\ e'.tx_next = e.tx_next /\ e'.tx_window = s.tx_window /\ e'.lower = s.lower
         /\ e'.crypto = e.crypto /\ e'.buffering = e.buffering /\ e'.suspended = e.suspended
    BY <1>8, <1>9 DEF SameButTokens, SameData, SameCounts
  <1>12. OtherTypes'
    <2>1. Len(e.lower) \in Nat /\ Len(e'.lower) \in Nat
      BY <1>2, <1>10, SubmittedFacts DEF EntityInv, Sound
    <2>2. notified.trans \in 0 .. Len(e'.lower)
      BY <1>3, <1>8, <1>11, <2>1 DEF OtherTypes
    <2> QED
      BY <1>1, <1>3, <1>5, <2>2 DEF OtherTypes
  <1>13. TaskInv'
    <2>1. \A i \in DOMAIN Tail(queue) :
            Tail(queue)[i].key \in {0, e.key} /\ Matches(e, Tail(queue)[i])
      BY <1>3, <1>5 DEF TaskInv
    <2>2. \A x : Matches(e, x) => Matches(e', x)
      BY <1>8, <1>11 DEF Matches, Has
    <2>3. \A x \in e'.crypto : Matches(e', x)
      BY <1>3, <1>11, <2>2 DEF TaskInv
    <2>4. \A i \in DOMAIN queue' : queue'[i].key \in {0, e.key} /\ Matches(e', queue'[i])
      BY <1>1, <2>1, <2>2
    <2> QED
      BY <1>11, <2>3, <2>4 DEF TaskInv, Matches, Has
  <1>14. TokenInv'
    <2>1. Cardinality(e.crypto) \in Nat
      BY <1>2, FS_CardinalityType DEF EntityInv, EntityType
    <2>2. Cardinality(e'.crypto) + Len(queue') = Cardinality(e.crypto) + Len(queue) - 1
      BY <1>1, <1>5, <1>11, <2>1
    <2>3. e'.tokens = e.tokens - 1 /\ (e'.pending_crypto <=> e.pending_crypto \/ e.tokens = 0)
      BY <1>8, <1>9
    <2> QED
      BY <1>1, <1>5, <1>10, <2>2, <2>3, TokenReturns DEF Sound
  <1>15. ControlInv'
    BY <1>1, <1>3, <1>11 DEF ControlInv
  <1>16. SduInv'
    BY <1>1, <1>3, <1>8, <1>11 DEF SduInv
  <1> QED
    BY <1>1, <1>10, <1>12, <1>13, <1>14, <1>15, <1>16, FromPartsAfter

\* handle_sdu: one more SDU, in the buffer, in the window or dropped.
LEMMA HandleSduKeeps ==
  ASSUME NEW s, EntityInv(s), NEW sdu \in Nat, NEW refused \in BOOLEAN,
         \A task \in s.crypto : Matches(s, task),
         cfg \in [rlc_mode : Modes, discard_timer : DiscardTimers]
  PROVE  LET t == HandleSdu(s, sdu, refused)
         IN /\ EntityInv(t) /\ t.key = s.key /\ t.pending_crypto = s.pending_crypto
            /\ t.buffering = s.buffering /\ t.suspended = s.suspended /\ t.stopped = s.stopped
            /\ t.lower = s.lower /\ Balance(t) = Balance(s)
            /\ s.buffering \/ s.stopped => t.crypto = s.crypto
            /\ \A i \in DOMAIN t.sdu_buffer :
                 \/ i \in DOMAIN s.sdu_buffer /\ t.sdu_buffer[i] = s.sdu_buffer[i]
                 \/ t.sdu_buffer[i] = sdu
            /\ \A c \in DOMAIN t.tx_window :
                 \/ c \in DOMAIN s.tx_window /\ t.tx_window[c].sdu = s.tx_window[c].sdu
                 \/ t.tx_window[c].sdu = sdu
            /\ \A task \in t.crypto :
                 Matches(t, task) /\ (task \in s.crypto \/ task.sdu = sdu)
            /\ \A x \in Results : Matches(s, x) => Matches(t, x)
  <1> DEFINE resumes == s.resume_requested \/ s.suspended
             a == [s EXCEPT !.resume_requested = @ \/ s.suspended]
             lost == IF refused THEN {sdu} ELSE {}
             b == [a EXCEPT !.sdu_buffer = Append(@, sdu)]
             t == HandleSdu(s, sdu, refused)
  <1>1. EntityType(s) /\ WindowInv(s) /\ LowerInv(s)
    BY DEF EntityInv
  <1>2. /\ DOMAIN s = Fields /\ s.sdu_buffer \in Seq(Nat) /\ s.stopped \in BOOLEAN
        /\ s.buffering \in BOOLEAN /\ s.resume_requested \in BOOLEAN
    BY <1>1 DEF EntityType
  <1>3. \/ t = s
        \/ ~s.stopped /\ s.buffering /\ t = b
        \/ t = a
        \/ ~s.stopped /\ ~s.buffering /\ ~Dropped(s, 0) /\ t = Accept(a, <<sdu>>, lost)
    <2> HIDE DEF a
    <2>1. CASE s.stopped
      BY <2>1 DEF HandleSdu, a
    <2>2. CASE ~s.stopped /\ s.buffering
      BY <2>2 DEF HandleSdu, a
    <2>3. CASE ~s.stopped /\ ~s.buffering /\ Dropped(s, 0)
      BY <2>3 DEF HandleSdu, a
    <2>4. CASE ~s.stopped /\ ~s.buffering /\ ~Dropped(s, 0)
      BY <2>4 DEF HandleSdu, a
    <2> QED
      BY <2>1, <2>2, <2>3, <2>4
  <1>4. /\ DOMAIN a = Fields /\ SameData(s, a) /\ a.key = s.key /\ a.tokens = s.tokens
        /\ a.crypto = s.crypto /\ a.pending_crypto = s.pending_crypto
        /\ a.buffering = s.buffering /\ a.sdu_buffer = s.sdu_buffer /\ a.suspended = s.suspended
        /\ a.desired_buffer_size = s.desired_buffer_size /\ a.resume_requested = resumes
    <2> HIDE DEF resumes
    <2>1. a = [s EXCEPT !.resume_requested = resumes]
      BY <1>2 DEF resumes, Fields
    <2> HIDE DEF a
    <2> QED
      BY <1>2, <2>1 DEF SameData, SameCounts, Fields
  <1>5. resumes \in BOOLEAN
    BY <1>2
  <1> HIDE DEF a, resumes, t
  <1>6. EntityInv(a)
    <2>1. EntityType(a)
      BY <1>1, <1>4, <1>5 DEF EntityType, SameData, SameCounts
    <2> QED
      BY <1>4, <2>1, SameDataKeeps
  <1>7. /\ a.tx_next = s.tx_next /\ a.stopped = s.stopped /\ a.tx_window = s.tx_window
        /\ a.lower = s.lower
    BY <1>4 DEF SameData, SameCounts
  <1>8. CASE t = s
    BY <1>8 DEF t
  <1>9. CASE t = a
    <2>1. Balance(a) = Balance(s)
      BY <1>4 DEF Balance
    <2>2. \A x : Matches(s, x) => Matches(a, x)
      BY <1>7 DEF Matches, Has
    <2> QED
      BY <1>4, <1>6, <1>7, <1>9, <2>1, <2>2 DEF t
  <1>10. CASE ~s.stopped /\ s.buffering /\ t = b
    <2> DEFINE longer == Append(s.sdu_buffer, sdu)
    <2>1. /\ longer \in Seq(Nat) /\ DOMAIN longer = 1 .. (Len(s.sdu_buffer) + 1)
          /\ \A i \in 1 .. Len(s.sdu_buffer) : i \in DOMAIN s.sdu_buffer /\ longer[i] = s.sdu_buffer[i]
          /\ longer[Len(s.sdu_buffer) + 1] = sdu /\ Len(s.sdu_buffer) \in Nat
      BY <1>2, AppendProperties
    <2>2. t = [a EXCEPT !.sdu_buffer = longer]
      BY <1>4, <1>10 DEF Fields
    <2> HIDE DEF longer, b
    <2>3. /\ DOMAIN t = Fields /\ SameData(a, t) /\ t.key = a.key /\ t.tokens = a.tokens
          /\ t.crypto = a.crypto /\ t.pending_crypto = a.pending_crypto
          /\ t.buffering = a.buffering /\ t.sdu_buffer = longer /\ t.suspended = a.suspended
          /\ t.desired_buffer_size = a.desired_buffer_size
          /\ t.resume_requested = a.resume_requested
      BY <1>4, <2>2 DEF SameData, SameCounts, Fields
    <2>4. EntityInv(t)
      <3>1. EntityType(t)
        BY <1>6, <2>1, <2>3 DEF EntityInv, EntityType, SameData, SameCounts
      <3> QED
        BY <1>6, <2>3, <3>1, SameDataKeeps
    <2>5. \A i \in DOMAIN t.sdu_buffer :
            \/ i \in DOMAIN s.sdu_buffer /\ t.sdu_buffer[i] = s.sdu_buffer[i]
            \/ t.sdu_buffer[i] = sdu
      <3>1. \A i \in DOMAIN longer : i \in 1 .. Len(s.sdu_buffer) \/ i = Len(s.sdu_buffer) + 1
        BY <2>1
      <3> QED
        BY <2>1, <2>3, <3>1
    <2>6. /\ t.tx_window = s.tx_window /\ t.lower = s.lower /\ t.stopped = s.stopped
          /\ t.tx_next = s.tx_next /\ t.crypto = s.crypto
      BY <1>4, <1>7, <2>3 DEF SameData, SameCounts
    <2>7. Balance(t) = Balance(s)
      BY <1>4, <2>3 DEF Balance
    <2>8. \A x : Matches(s, x) => Matches(t, x)
      BY <2>6 DEF Matches, Has
    <2> QED
      BY <1>4, <2>3, <2>4, <2>5, <2>6, <2>7, <2>8 DEF t
  <1>11. CASE ~s.stopped /\ ~s.buffering /\ ~Dropped(s, 0) /\ t = Accept(a, <<sdu>>, lost)
    <2> DEFINE batch == <<sdu>>
    <2>1. /\ batch \in Seq(Nat) /\ Len(batch) = 1 /\ DOMAIN batch = {1} /\ batch[1] = sdu
      OBVIOUS
    <2>2. t = Accept(a, batch, lost)
      BY <1>11
    <2> HIDE DEF batch, lost
    <2>3. a.tx_next + Len(batch) <= MaxCount
      <3>1. s.tx_next \in Nat /\ MaxCount \in Nat
        BY <1>1, CountFacts
      <3>2. ~(s.tx_next + 0 >= MaxCount)
        BY <1>11 DEF Dropped
      <3> QED
        BY <1>7, <2>1, <3>1, <3>2
    <2>4. KeyLow(a)
      BY <1>4, <1>6, <1>11 DEF EntityInv, LowerInv, Parked
    <2>5. ~a.stopped /\ \A task \in a.crypto : Matches(a, task)
      BY <1>4, <1>7, <1>11 DEF Matches, Has
    <2>6. EntityInv(t) /\ Accepts(a, t, batch)
      BY <1>6, <2>1, <2>2, <2>3, <2>4, <2>5, AcceptKeeps
    <2>7. /\ t.key = s.key /\ t.pending_crypto = s.pending_crypto
          /\ t.buffering = s.buffering /\ t.suspended = s.suspended /\ t.stopped = s.stopped
          /\ t.lower = s.lower /\ t.sdu_buffer = s.sdu_buffer
      BY <1>4, <1>7, <2>6 DEF Accepts
    <2>8. Balance(t) = Balance(s)
      BY <1>4, <2>6 DEF Accepts, Balance
    <2>9. \A c \in DOMAIN t.tx_window :
            \/ c \in DOMAIN s.tx_window /\ t.tx_window[c].sdu = s.tx_window[c].sdu
            \/ t.tx_window[c].sdu = sdu
      BY <1>7, <2>1, <2>6 DEF Accepts
    <2>10. \A task \in t.crypto :
             Matches(t, task) /\ (task \in s.crypto \/ task.sdu = sdu)
      BY <1>4, <2>1, <2>6 DEF Accepts
    <2>11. \A x \in Results : Matches(s, x) => Matches(t, x)
      <3>1. \A x : Matches(s, x) => Matches(a, x)
        BY <1>7 DEF Matches, Has
      <3> QED
        BY <2>6, <3>1 DEF Accepts
    <2> QED
      BY <1>11, <2>6, <2>7, <2>8, <2>9, <2>10, <2>11 DEF t
  <1> QED
    BY <1>3, <1>8, <1>9, <1>10, <1>11

LEMMA NewSduKeeps ==
  ASSUME IInv, NewSdu
  PROVE  IInv'
  <1>1. PICK refused \in BOOLEAN :
          /\ e' = HandleSdu(e, sdus', refused) /\ Refuse(IF refused THEN 1 ELSE 0)
    BY DEF NewSdu
  <1>2. /\ ~e.failed /\ sdus < MaxSdus[cfg.rlc_mode] /\ sdus' = sdus + 1
        /\ UNCHANGED <<cfg, queue, notified, routine, bearer>>
    BY DEF NewSdu, Running
  <1>3. /\ EntityInv(e) /\ EntityType(e)
        /\ cfg \in [rlc_mode : Modes, discard_timer : DiscardTimers]
    BY <1>2, FromRunning DEF EntityInv
  <1>4. OtherTypes /\ TaskInv /\ TokenInv /\ ControlInv /\ SduInv
    BY FromParts
  <1>5. faults' \in Nat /\ sdus \in Nat /\ sdus' \in Nat
    BY <1>1, <1>2, <1>4 DEF Refuse, OtherTypes
  <1>6. /\ EntityInv(e') /\ e'.key = e.key /\ e'.pending_crypto = e.pending_crypto
        /\ e'.buffering = e.buffering /\ e'.suspended = e.suspended /\ e'.stopped = e.stopped
        /\ e'.lower = e.lower /\ Balance(e') = Balance(e)
        /\ e.buffering \/ e.stopped => e'.crypto = e.crypto
        /\ \A i \in DOMAIN e'.sdu_buffer :
             \/ i \in DOMAIN e.sdu_buffer /\ e'.sdu_buffer[i] = e.sdu_buffer[i]
             \/ e'.sdu_buffer[i] = sdus'
        /\ \A c \in DOMAIN e'.tx_window :
             \/ c \in DOMAIN e.tx_window /\ e'.tx_window[c].sdu = e.tx_window[c].sdu
             \/ e'.tx_window[c].sdu = sdus'
        /\ \A task \in e'.crypto :
             Matches(e', task) /\ (task \in e.crypto \/ task.sdu = sdus')
        /\ \A x \in Results : Matches(e, x) => Matches(e', x)
    <2>1. \A task \in e.crypto : Matches(e, task)
      BY <1>4 DEF TaskInv
    <2> QED
      BY <1>1, <1>3, <1>5, <2>1, HandleSduKeeps
  <1>7. Sound(e')
    BY <1>6, EntityIsSound
  <1>8. OtherTypes'
    BY <1>2, <1>4, <1>5, <1>6 DEF OtherTypes
  <1>9. TaskInv'
    <2>1. \A i \in DOMAIN queue : queue[i] \in Results
      BY <1>4 DEF OtherTypes
    <2>2. \A i \in DOMAIN queue : queue[i].key \in {0, e.key} /\ Matches(e', queue[i])
      BY <1>4, <1>6, <2>1 DEF TaskInv
    <2> QED
      BY <1>2, <1>6, <2>2 DEF TaskInv, Matches, Has
  <1>10. TokenInv'
    <2>1. /\ e.tokens \in Int /\ IsFiniteSet(e.crypto)
          /\ e'.tokens \in Int /\ IsFiniteSet(e'.crypto)
      BY <1>3, <1>6 DEF EntityInv, EntityType
    <2>2. Cardinality(e.crypto) \in Nat /\ Cardinality(e'.crypto) \in Nat /\ Len(queue) \in Nat
      BY <1>4, <2>1, FS_CardinalityType DEF OtherTypes
    <2>3. e'.tokens - Cardinality(e'.crypto) = e.tokens - Cardinality(e.crypto)
      BY <1>6 DEF Balance
    <2>4. OwnToken \in Nat /\ OwnToken' = OwnToken
      BY <1>2 DEF OwnToken
    <2>5. e.tokens + OwnToken = Cardinality(e.crypto) + Len(queue)
      BY <1>4 DEF TokenInv
    <2>6. e'.tokens + OwnToken = Cardinality(e'.crypto) + Len(queue)
      <3> DEFINE a == e.tokens
                 b == e'.tokens
                 c == Cardinality(e.crypto)
                 d == Cardinality(e'.crypto)
                 n == Len(queue)
      <3>1. /\ a \in Int /\ b \in Int /\ c \in Nat /\ d \in Nat /\ n \in Nat /\ OwnToken \in Nat
            /\ b - d = a - c /\ a + OwnToken = c + n
        BY <2>1, <2>2, <2>3, <2>4, <2>5
      <3> HIDE DEF a, b, c, d, n
      <3>2. b + OwnToken = d + n
        BY <3>1
      <3> QED
        BY <3>2 DEF b, d, n
    <2>7. routine # Idle => e.buffering \/ e.stopped
      BY <1>4 DEF ControlInv, OtherTypes, Idle
    <2>8. routine # Idle => e'.crypto = e.crypto
      BY <1>6, <2>7
    <2> QED
      BY <1>2, <1>4, <1>6, <2>4, <2>6, <2>8 DEF TokenInv, Drained
  <1>11. ControlInv'
    BY <1>2, <1>4, <1>6 DEF ControlInv
  <1>12. SduInv'
    <2>1. MaxSdus[cfg.rlc_mode] \in Nat
      <3>1. cfg.rlc_mode \in {"am", "um"}
        BY <1>3, PdcpTxAssumption
      <3> QED
        BY <3>1, PdcpTxAssumption
    <2>2. sdus' <= MaxSdus[cfg.rlc_mode]
      BY <1>2, <1>5, <2>1
    <2>3. \A n \in 1 .. sdus : n \in 1 .. sdus'
      BY <1>2, <1>5
    <2>4. sdus' \in 1 .. sdus'
      BY <1>2, <1>5
    <2>5. \A i \in DOMAIN e'.sdu_buffer : e'.sdu_buffer[i] \in 1 .. sdus'
      BY <1>4, <1>6, <2>3, <2>4 DEF SduInv
    <2>6. \A c \in DOMAIN e'.tx_window : e'.tx_window[c].sdu \in 1 .. sdus'
      BY <1>4, <1>6, <2>3, <2>4 DEF SduInv
    <2>7. \A task \in e'.crypto : task.sdu \in 1 .. sdus'
      BY <1>4, <1>6, <2>3, <2>4 DEF SduInv
    <2> QED
      BY <1>2, <2>2, <2>5, <2>6, <2>7 DEF SduInv
  <1> QED
    BY <1>2, <1>7, <1>8, <1>9, <1>10, <1>11, <1>12, FromPartsAfter

\* The routine gives the token of the manager back, and waits.
LEMMA TokenAwaits ==
  ASSUME IInv, EntityType(e'), routine = Idle, routine' # Idle, queue' = queue,
         e'.crypto = e.crypto, e'.tokens = e.tokens - 1,
         e'.pending_crypto <=> e.pending_crypto \/ e.tokens = 0
  PROVE  TokenInv'
  <1> DEFINE under_way == Cardinality(e.crypto) + Len(queue)
  <1>1. TokenInv /\ EntityType(e) /\ queue \in Seq(Results)
    BY FromParts DEF Sound, OtherTypes
  <1>2. IsFiniteSet(e.crypto) /\ e.tokens \in Int
    BY <1>1 DEF EntityType
  <1>3. under_way \in Nat /\ ((e.crypto = {} /\ queue = <<>>) <=> under_way = 0)
    BY <1>1, <1>2, DrainedFacts
  <1>4. e.tokens + OwnToken = under_way /\ ~e.pending_crypto
    BY <1>1 DEF TokenInv
  <1>5. OwnToken = 0 /\ OwnToken' = 1
    BY DEF OwnToken
  <1>6. e'.tokens + 1 = Cardinality(e'.crypto) + Len(queue')
    <2>1. e.tokens = under_way
      BY <1>2, <1>4, <1>5
    <2> HIDE DEF under_way
    <2>2. e'.tokens + 1 = under_way
      BY <1>3, <2>1
    <2> QED
      BY <2>2 DEF under_way
  <1>7. e'.pending_crypto <=> (e'.crypto = {} /\ queue' = <<>>)
    <2> HIDE DEF under_way
    <2>1. e.tokens = under_way
      BY <1>2, <1>4, <1>5
    <2> QED
      BY <1>3, <1>4, <2>1
  <1> QED
    BY <1>5, <1>6, <1>7 DEF TokenInv, Drained

\* The routine takes it again when it has been woken.
LEMMA TokenTakenAgain ==
  ASSUME IInv, EntityType(e'), routine # Idle, e.pending_crypto, routine' = Idle, queue' = queue,
         Balance(e') = e.tokens + 1, e'.pending_crypto = FALSE
  PROVE  TokenInv'
  <1>1. TokenInv /\ EntityType(e)
    BY FromParts DEF Sound
  <1>2. e.crypto = {} /\ queue = <<>>
    BY <1>1 DEF TokenInv, Drained
  <1>3. OwnToken = 1 /\ OwnToken' = 0
    BY DEF OwnToken
  <1>4. e.tokens + 1 = 0
    <2>1. e.tokens + OwnToken = Cardinality(e.crypto) + Len(queue)
      BY <1>1 DEF TokenInv
    <2>2. Cardinality(e.crypto) = 0 /\ Len(queue) = 0
      BY <1>2, FS_EmptySet
    <2> QED
      BY <1>3, <2>1, <2>2
  <1>5. e'.tokens \in Int /\ Cardinality(e'.crypto) \in Nat
    BY FS_CardinalityType DEF EntityType
  <1>6. e'.tokens + 0 = Cardinality(e'.crypto) + Len(queue')
    <2>1. e'.tokens - Cardinality(e'.crypto) = 0
      BY <1>4 DEF Balance
    <2>2. Len(queue') = 0
      BY <1>2
    <2> QED
      BY <1>5, <2>1, <2>2
  <1> QED
    BY <1>3, <1>6 DEF TokenInv

LEMMA RequestSuspendKeeps ==
  ASSUME IInv, RequestSuspend
  PROVE  IInv'
  <1>1. /\ ~e.failed /\ routine = Idle /\ bearer = "active" /\ e.key < MaxKeys
        /\ e' = Await(e) /\ routine' = [step |-> "suspend"]
        /\ UNCHANGED <<cfg, queue, notified, bearer, sdus, faults>>
    BY DEF RequestSuspend, Running, bounds
  <1>2. EntityInv(e) /\ DOMAIN e = Fields /\ EntityType(e)
    BY <1>1, FromRunning DEF EntityInv
  <1>3. OtherTypes /\ TaskInv /\ TokenInv /\ ControlInv /\ SduInv
    BY FromParts
  <1>4. /\ SameButTokens(e, e') /\ e'.buffering = TRUE /\ e'.suspended = e.suspended
        /\ e'.resume_requested = e.resume_requested
        /\ e'.tokens = e.tokens - 1 /\ e'.pending_crypto \in BOOLEAN
        /\ e'.pending_crypto <=> e.pending_crypto \/ e.tokens = 0
    BY <1>1, <1>2, AwaitFields
  <1>5. EntityInv(e')
    <2>1. e.tokens \in Int /\ e.suspended \in BOOLEAN /\ e.resume_requested \in BOOLEAN
      BY <1>2 DEF EntityType
    <2>2. e'.tokens \in Int /\ e'.suspended \in BOOLEAN /\ e'.resume_requested \in BOOLEAN
      BY <1>4, <2>1
    <2> QED
      BY <1>2, <1>4, <2>2, SameButTokensKeeps
  <1>6. /\ e'.key = e.key /\ e'.crypto = e.crypto /\ e'.sdu_buffer = e.sdu_buffer
        /\ e'.stopped = e.stopped /\ e'.tx_next = e.tx_next /\ e'.tx_window = e.tx_window
        /\ e'.lower = e.lower
    BY <1>4 DEF SameButTokens, SameData, SameCounts
  <1>7. routine' # Idle /\ Idle.step = "idle"
    BY <1>1 DEF Idle
  <1>8. Sound(e')
    BY <1>5, EntityIsSound
  <1>9. OtherTypes'
    BY <1>1, <1>3, <1>6 DEF OtherTypes
  <1>10. TaskInv'
    BY <1>1, <1>3, <1>6, TasksMatch
  <1>11. TokenInv'
    BY <1>1, <1>4, <1>5, <1>6, <1>7, TokenAwaits DEF EntityInv
  <1>12. ControlInv'
    BY <1>1, <1>3, <1>4, <1>6, <1>7 DEF ControlInv
  <1>13. SduInv'
    BY <1>1, <1>3, <1>6 DEF SduInv
  <1> QED
    BY <1>1, <1>8, <1>9, <1>10, <1>11, <1>12, <1>13, FromPartsAfter

LEMMA RequestRekeyKeeps ==
  ASSUME IInv, RequestRekey
  PROVE  IInv'
  <1> DEFINE s == IF bearer = "suspended" THEN Resume(e) ELSE e
  <1>1. /\ ~e.failed /\ routine = Idle /\ bearer \in {"active", "suspended"} /\ e.key < MaxKeys
        /\ e' = Await(s) /\ bearer' = "active"
        /\ UNCHANGED <<cfg, queue, notified, sdus, faults>>
    BY DEF RequestRekey, Running, bounds
  <1>2. PICK reest \in BOOLEAN : routine' = [step |-> "rekey", reest |-> reest]
    BY DEF RequestRekey
  <1>3. EntityInv(e) /\ DOMAIN e = Fields /\ EntityType(e)
    BY <1>1, FromRunning DEF EntityInv
  <1>4. OtherTypes /\ TaskInv /\ TokenInv /\ ControlInv /\ SduInv
    BY FromParts
  <1>5. /\ e.tokens \in Int /\ e.suspended \in BOOLEAN /\ e.resume_requested \in BOOLEAN
        /\ e.buffering \in BOOLEAN /\ e.pending_crypto \in BOOLEAN
    BY <1>3 DEF EntityType
  <1>6. /\ SameButTokens(e, s) /\ s.buffering = e.buffering /\ ~s.suspended
        /\ s.suspended \in BOOLEAN /\ s.resume_requested \in BOOLEAN
        /\ s.tokens = e.tokens /\ s.pending_crypto = e.pending_crypto
    <2>1. CASE bearer = "suspended"
      <3>1. e.suspended /\ e.buffering
        BY <1>4, <2>1 DEF ControlInv
      <3> QED
        BY <1>3, <2>1, <3>1, ResumeFields
    <2>2. CASE bearer # "suspended"
      <3>1. s = e /\ ~e.suspended
        BY <1>1, <1>4, <2>2 DEF ControlInv
      <3>2. SameButTokens(e, e)
        BY <1>3 DEF SameButTokens, SameData, SameCounts
      <3> HIDE DEF s
      <3> QED
        BY <1>5, <3>1, <3>2
    <2> QED
      BY <2>1, <2>2
  <1> HIDE DEF s
  <1>7. EntityInv(s) /\ DOMAIN s = Fields
    <2>1. s.tokens \in Int /\ s.pending_crypto \in BOOLEAN /\ s.buffering \in BOOLEAN
      BY <1>5, <1>6
    <2> QED
      BY <1>3, <1>6, <2>1, SameButTokensKeeps DEF SameButTokens
  <1>8. /\ SameButTokens(s, e') /\ e'.buffering = TRUE /\ e'.suspended = s.suspended
        /\ e'.resume_requested = s.resume_requested
        /\ e'.tokens = s.tokens - 1 /\ e'.pending_crypto \in BOOLEAN
        /\ e'.pending_crypto <=> s.pending_crypto \/ s.tokens = 0
    BY <1>1, <1>7, AwaitFields
  <1>9. EntityInv(e')
    <2>1. e'.tokens \in Int /\ e'.suspended \in BOOLEAN /\ e'.resume_requested \in BOOLEAN
      BY <1>5, <1>6, <1>8
    <2> QED
      BY <1>7, <1>8, <2>1, SameButTokensKeeps
  <1>10. /\ e'.key = e.key /\ e'.crypto = e.crypto /\ e'.sdu_buffer = e.sdu_buffer
         /\ e'.stopped = e.stopped /\ e'.tx_next = e.tx_next /\ e'.tx_window = e.tx_window
         /\ e'.lower = e.lower
    BY <1>6, <1>8 DEF SameButTokens, SameData, SameCounts
  <1>11. routine' # Idle /\ Idle.step = "idle" /\ routine'.step = "rekey"
    BY <1>2 DEF Idle
  <1>12. Sound(e')
    BY <1>9, EntityIsSound
  <1>13. OtherTypes'
    BY <1>1, <1>2, <1>4, <1>10 DEF OtherTypes
  <1>14. TaskInv'
    BY <1>1, <1>4, <1>10, TasksMatch
  <1>15. TokenInv'
    <2>1. e'.tokens = e.tokens - 1 /\ (e'.pending_crypto <=> e.pending_crypto \/ e.tokens = 0)
      BY <1>6, <1>8
    <2> QED
      BY <1>1, <1>9, <1>10, <1>11, <2>1, TokenAwaits DEF EntityInv
  <1>16. ControlInv'
    <2>1. ~e.stopped
      BY <1>1, <1>4, <1>11 DEF ControlInv
    <2>2. ~e'.suspended /\ e'.buffering /\ ~e'.stopped
      BY <1>6, <1>8, <1>10, <2>1
    <2> QED
      BY <1>1, <1>4, <1>10, <1>11, <2>2 DEF ControlInv
  <1>17. SduInv'
    BY <1>1, <1>4, <1>10 DEF SduInv
  <1> QED
    BY <1>1, <1>12, <1>13, <1>14, <1>15, <1>16, <1>17, FromPartsAfter

LEMMA RequestReleaseKeeps ==
  ASSUME IInv, RequestRelease
  PROVE  IInv'
  <1>1. /\ ~e.failed /\ routine = Idle /\ e' = Stop(e) /\ routine' = [step |-> "release"]
        /\ UNCHANGED <<cfg, queue, notified, bearer, sdus, faults>>
    BY DEF RequestRelease, Running, bounds
  <1>2. EntityInv(e)
    BY <1>1, FromRunning
  <1>3. OtherTypes /\ TaskInv /\ TokenInv /\ ControlInv /\ SduInv
    BY FromParts
  <1>4. /\ EntityInv(e') /\ e'.key = e.key /\ e'.crypto = e.crypto
        /\ e'.sdu_buffer = e.sdu_buffer /\ e'.buffering = e.buffering
        /\ e'.suspended = e.suspended /\ e'.stopped = TRUE
        /\ e'.lower = e.lower /\ e'.tx_next = e.tx_next
        /\ e'.tokens = e.tokens - 1 /\ (e'.pending_crypto <=> e.pending_crypto \/ e.tokens = 0)
        /\ DOMAIN e'.tx_window = {}
    BY <1>1, <1>2, StopKeeps
  <1>5. routine' # Idle /\ routine'.step = "release"
    BY <1>1 DEF Idle
  <1>6. Sound(e')
    BY <1>4, EntityIsSound
  <1>7. OtherTypes'
    BY <1>1, <1>3, <1>4 DEF OtherTypes
  <1>8. TaskInv'
    BY <1>1, <1>3, <1>4, TasksMatch
  <1>9. TokenInv'
    BY <1>1, <1>4, <1>5, TokenAwaits DEF EntityInv
  <1>10. ControlInv'
    BY <1>1, <1>3, <1>4, <1>5 DEF ControlInv
  <1>11. SduInv'
    BY <1>1, <1>3, <1>4 DEF SduInv
  <1> QED
    BY <1>1, <1>6, <1>7, <1>8, <1>9, <1>10, <1>11, FromPartsAfter

LEMMA FinishReleaseKeeps ==
  ASSUME IInv, FinishRelease
  PROVE  IInv'
  <1>1. /\ routine.step = "release" /\ bearer' = "released" /\ e' = e
        /\ UNCHANGED <<cfg, queue, notified, routine, sdus, faults>>
    BY DEF FinishRelease, bounds
  <1>2. OtherTypes /\ Sound(e) /\ TaskInv /\ TokenInv /\ ControlInv /\ SduInv
    BY FromParts
  <1>3. Sound(e')
    BY <1>1, <1>2
  <1>4. OtherTypes'
    BY <1>1, <1>2 DEF OtherTypes
  <1>5. TaskInv'
    BY <1>1, <1>2, TasksMatch
  <1>6. TokenInv'
    BY <1>1, <1>2 DEF TokenInv, OwnToken, Drained
  <1>7. ControlInv'
    BY <1>1, <1>2 DEF ControlInv
  <1>8. SduInv'
    BY <1>1, <1>2 DEF SduInv
  <1> QED
    BY <1>1, <1>3, <1>4, <1>5, <1>6, <1>7, <1>8, FromPartsAfter

LEMMA FinishSuspendKeeps ==
  ASSUME IInv, FinishSuspend
  PROVE  IInv'
  <1>1. /\ ~e.failed /\ routine.step = "suspend" /\ e.pending_crypto
        /\ e' = StartTokens(Suspend(e)) /\ routine' = Idle /\ bearer' = "suspended"
        /\ notified' = [trans |-> Len(e.lower), deliv |-> Len(e.lower), old |-> Len(e.lower)]
        /\ UNCHANGED <<cfg, queue, sdus, faults>>
    BY DEF FinishSuspend, Running, bounds
  <1>2. /\ EntityInv(e) /\ EntityType(e)
        /\ cfg \in [rlc_mode : Modes, discard_timer : DiscardTimers]
    BY <1>1, FromRunning DEF EntityInv
  <1>3. OtherTypes /\ TaskInv /\ TokenInv /\ ControlInv /\ SduInv
    BY FromParts
  <1>4. e.buffering /\ ~e.suspended /\ ~e.stopped
    BY <1>1, <1>3 DEF ControlInv
  <1>5. /\ EntityInv(e') /\ e'.key = e.key /\ e'.crypto = e.crypto
        /\ e'.sdu_buffer = e.sdu_buffer /\ e'.buffering = e.buffering /\ e'.suspended = TRUE
        /\ e'.stopped = e.stopped /\ e'.lower = e.lower
        /\ e'.tokens = e.tokens + 1 /\ e'.pending_crypto = FALSE /\ DOMAIN e'.tx_window = {}
    BY <1>1, <1>2, <1>4, SuspendKeeps
  <1>6. routine # Idle /\ Idle.step = "idle"
    BY <1>1 DEF Idle
  <1>7. e.crypto = {} /\ queue = <<>>
    BY <1>1, <1>3, <1>6 DEF TokenInv, Drained
  <1>8. Sound(e')
    BY <1>5, EntityIsSound
  <1>9. OtherTypes'
    <2>1. Len(e.lower) \in Nat
      BY <1>2, SubmittedFacts
    <2>2. Len(e.lower) \in 0 .. Len(e'.lower)
      BY <1>5, <2>1
    <2>3. Idle \in [step : {"idle", "suspend", "release"}]
      BY DEF Idle
    <2> QED
      BY <1>1, <1>3, <2>1, <2>2, <2>3 DEF OtherTypes
  <1>10. TaskInv'
    BY <1>1, <1>3, <1>5, <1>7 DEF TaskInv
  <1>11. TokenInv'
    <2>1. Balance(e') = e.tokens + 1
      <3>1. Cardinality(e'.crypto) = 0 /\ e.tokens \in Int
        BY <1>2, <1>5, <1>7, FS_EmptySet DEF EntityType
      <3> QED
        BY <1>5, <3>1 DEF Balance
    <2> QED
      BY <1>1, <1>5, <1>6, <2>1, TokenTakenAgain DEF EntityInv
  <1>12. ControlInv'
    BY <1>1, <1>3, <1>4, <1>5, <1>6 DEF ControlInv
  <1>13. SduInv'
    BY <1>1, <1>3, <1>5 DEF SduInv
  <1> QED
    BY <1>1, <1>8, <1>9, <1>10, <1>11, <1>12, <1>13, FromPartsAfter

\* reestablish, with a key that has protected nothing and nothing with the workers.
LEMMA ReestablishKeeps ==
  ASSUME NEW s, EntityInv(s), Fresh(s), s.crypto = {}, NEW refused,
         cfg \in [rlc_mode : Modes, discard_timer : DiscardTimers]
  PROVE  LET t == Reestablish(s, refused)
         IN /\ EntityInv(t) /\ KeyLow(t) /\ Balance(t) = Balance(s)
            /\ t.key = s.key /\ t.pending_crypto = s.pending_crypto
            /\ t.sdu_buffer = s.sdu_buffer /\ t.suspended = s.suspended /\ t.stopped = s.stopped
            /\ t.lower = s.lower /\ t.failed = s.failed
            /\ \A c \in DOMAIN t.tx_window :
                 c \in DOMAIN s.tx_window /\ t.tx_window[c].sdu = s.tx_window[c].sdu
            /\ \A task \in t.crypto :
                 /\ Matches(t, task) /\ task.count \in DOMAIN s.tx_window
                 /\ task.sdu = s.tx_window[task.count].sdu
  <1> DEFINE t == Reestablish(s, refused)
  <1>1. EntityType(s) /\ WindowInv(s) /\ DOMAIN s = Fields
    BY DEF EntityInv, EntityType
  <1>2. CASE cfg.rlc_mode = "um"
    <2>1. t = ResetState(s)
      BY <1>2 DEF Reestablish
    <2> HIDE DEF t
    <2>2. Resets(s, t) /\ t.discard_timer = s.discard_timer
      BY <1>1, <2>1, ResetFields
    <2>3. EntityInv(t)
      BY <2>2, ResetsKeeps
    <2>4. /\ t.key = s.key /\ t.pending_crypto = s.pending_crypto /\ t.tokens = s.tokens
          /\ t.sdu_buffer = s.sdu_buffer /\ t.suspended = s.suspended /\ t.stopped = s.stopped
          /\ t.lower = s.lower /\ t.failed = s.failed /\ t.crypto = s.crypto
          /\ DOMAIN t.tx_window = {}
      BY <2>2 DEF Resets, SameControl
    <2>5. KeyLow(t) /\ Balance(t) = Balance(s)
      BY <2>4 DEF KeyLow, Fresh, Balance
    <2> QED
      BY <2>3, <2>4, <2>5 DEF t
  <1>3. CASE cfg.rlc_mode # "um"
    <2>1. t = RetransmitAllPdus(s, refused)
      BY <1>3 DEF Reestablish
    <2> HIDE DEF t
    <2>2. KeyLow(s)
      BY DEF KeyLow, Fresh
    <2>3. /\ EntityInv(t) /\ KeyLow(t) /\ Balance(t) = Balance(s)
          /\ t.key = s.key /\ t.pending_crypto = s.pending_crypto
          /\ t.sdu_buffer = s.sdu_buffer /\ t.suspended = s.suspended /\ t.stopped = s.stopped
          /\ t.lower = s.lower /\ t.failed = s.failed /\ t.tx_next = s.tx_next
          /\ t.tx_window = s.tx_window
          /\ \A task \in t.crypto :
               task.count \in DOMAIN s.tx_window /\ task.sdu = s.tx_window[task.count].sdu
      BY <2>1, <2>2, RetransmitKeeps
    <2>4. \A c \in DOMAIN s.tx_window : c < s.tx_next
      BY <1>1, CountFacts
    <2>5. \A task \in t.crypto : Matches(t, task)
      BY <2>3, <2>4 DEF Matches, Has
    <2> QED
      BY <2>3, <2>5 DEF t
  <1> QED
    BY <1>2, <1>3

LEMMA FinishRekeyKeeps ==
  ASSUME IInv, FinishRekey
  PROVE  IInv'
  <1> DEFINE ready == StartTokens(ConfigureSecurity(e))
  <1>1. /\ ~e.failed /\ routine.step = "rekey" /\ e.pending_crypto /\ routine' = Idle
        /\ UNCHANGED <<cfg, queue, notified, bearer, sdus>>
    BY DEF FinishRekey, Running
  <1>2. PICK refused \in SUBSET (IF routine.reest THEN DOMAIN e.tx_window ELSE {}),
             lost \in SUBSET Range(e.sdu_buffer) :
          /\ e' = EndBuffering(IF routine.reest THEN Reestablish(ready, refused) ELSE ready, lost)
          /\ Refuse(Cardinality(refused) + Cardinality(lost))
    BY DEF FinishRekey
  <1> DEFINE mid == IF routine.reest THEN Reestablish(ready, refused) ELSE ready
  <1>3. /\ EntityInv(e) /\ EntityType(e) /\ WindowInv(e)
        /\ cfg \in [rlc_mode : Modes, discard_timer : DiscardTimers]
    BY <1>1, FromRunning DEF EntityInv
  <1>4. OtherTypes /\ TaskInv /\ TokenInv /\ ControlInv /\ SduInv
    BY FromParts
  <1>5. routine # Idle /\ Idle.step = "idle"
    BY <1>1 DEF Idle
  <1>6. e.crypto = {} /\ queue = <<>>
    BY <1>1, <1>4, <1>5 DEF TokenInv, Drained
  <1>7. /\ e.key < MaxKeys /\ ~e.stopped /\ ~e.suspended /\ bearer = "active" /\ e.key >= 1
        /\ e.key \in Nat /\ MaxKeys \in Nat /\ e.tokens \in Int
    BY <1>1, <1>3, <1>4, PdcpTxAssumption DEF ControlInv, EntityType
  <1>8. /\ EntityInv(ready) /\ Fresh(ready) /\ SameData(e, ready) /\ ready.key = e.key + 1
        /\ ready.crypto = e.crypto /\ ready.sdu_buffer = e.sdu_buffer
        /\ ready.suspended = e.suspended
        /\ ready.tokens = e.tokens + 1 /\ ready.pending_crypto = FALSE
    BY <1>3, RekeyKeeps
  <1> HIDE DEF ready
  <1>9. /\ ready.tx_next = e.tx_next /\ ready.tx_window = e.tx_window
        /\ ready.stopped = e.stopped /\ ready.lower = e.lower /\ ready.failed = e.failed
    BY <1>8 DEF SameData, SameCounts
  <1>10. Balance(ready) = e.tokens + 1
    <2>1. Cardinality(ready.crypto) = 0
      BY <1>6, <1>8, FS_EmptySet
    <2> QED
      BY <1>7, <1>8, <2>1 DEF Balance
  <1>11. /\ EntityInv(mid) /\ KeyLow(mid) /\ Balance(mid) = Balance(ready)
         /\ mid.key = ready.key /\ mid.pending_crypto = ready.pending_crypto
         /\ mid.sdu_buffer = ready.sdu_buffer /\ mid.suspended = ready.suspended
         /\ mid.stopped = ready.stopped /\ mid.lower = ready.lower
         /\ \A c \in DOMAIN mid.tx_window :
              c \in DOMAIN e.tx_window /\ mid.tx_window[c].sdu = e.tx_window[c].sdu
         /\ \A task \in mid.crypto :
              /\ Matches(mid, task) /\ task.count \in DOMAIN e.tx_window
              /\ task.sdu = e.tx_window[task.count].sdu
    <2>1. CASE routine.reest
      <3>1. mid = Reestablish(ready, refused)
        BY <2>1
      <3>2. ready.crypto = {}
        BY <1>6, <1>8
      <3> HIDE DEF mid
      <3> QED
        BY <1>3, <1>8, <1>9, <3>1, <3>2, ReestablishKeeps
    <2>2. CASE ~routine.reest
      <3>1. mid = ready
        BY <2>2
      <3>2. ready.crypto = {}
        BY <1>6, <1>8
      <3>3. KeyLow(ready)
        BY <1>8 DEF KeyLow, Fresh
      <3> HIDE DEF mid
      <3> QED
        BY <1>8, <1>9, <3>1, <3>2, <3>3
    <2> QED
      BY <2>1, <2>2
  <1>12. e' = EndBuffering(mid, lost)
    BY <1>2
  <1> HIDE DEF mid
  <1>13. /\ EntityInv(e') /\ e'.key = mid.key /\ e'.pending_crypto = mid.pending_crypto
         /\ e'.buffering = FALSE /\ e'.sdu_buffer = <<>> /\ e'.suspended = mid.suspended
         /\ e'.stopped = mid.stopped /\ e'.lower = mid.lower
         /\ Balance(e') = Balance(mid)
         /\ \A c \in DOMAIN e'.tx_window :
              \/ c \in DOMAIN mid.tx_window /\ e'.tx_window[c].sdu = mid.tx_window[c].sdu
              \/ \E i \in DOMAIN mid.sdu_buffer : e'.tx_window[c].sdu = mid.sdu_buffer[i]
         /\ \A task \in e'.crypto :
              /\ Matches(e', task)
              /\ task \in mid.crypto \/ \E i \in DOMAIN mid.sdu_buffer : task.sdu = mid.sdu_buffer[i]
    <2>1. ~mid.stopped /\ \A task \in mid.crypto : Matches(mid, task)
      BY <1>7, <1>9, <1>11
    <2>2. EntityInv(e') /\ Unbuffers(mid, e')
      BY <1>3, <1>11, <1>12, <2>1, EndBufferingKeeps
    <2> QED
      BY <2>2 DEF Unbuffers
  <1>14. Sound(e')
    BY <1>13, EntityIsSound
  <1>15. e'.lower = e.lower /\ e'.key = e.key + 1
    BY <1>8, <1>9, <1>11, <1>13
  <1>16. OtherTypes'
    <2>1. faults' \in Nat
      <3>1. Range(e.sdu_buffer) = {e.sdu_buffer[i] : i \in DOMAIN e.sdu_buffer}
        BY DEF Range
      <3>2. e.sdu_buffer \in Seq(Nat)
        BY <1>3 DEF EntityType
      <3>3. IsFiniteSet(DOMAIN e.sdu_buffer)
        <4>1. DOMAIN e.sdu_buffer = 1 .. Len(e.sdu_buffer) /\ 1 \in Int /\ Len(e.sdu_buffer) \in Int
          BY <3>2
        <4> QED
          BY <4>1, FS_Interval
      <3>4. IsFiniteSet(Range(e.sdu_buffer))
        BY <3>1, <3>3, FiniteImage
      <3>5. IsFiniteSet(DOMAIN e.tx_window)
        <4>1. /\ e.tx_next_ack \in Int /\ e.tx_next - 1 \in Int
              /\ DOMAIN e.tx_window \subseteq e.tx_next_ack .. (e.tx_next - 1)
          BY <1>3, CountFacts
        <4>2. IsFiniteSet(e.tx_next_ack .. (e.tx_next - 1))
          BY <4>1, FS_Interval
        <4> QED
          BY <4>1, <4>2, FS_Subset
      <3>6. IsFiniteSet(refused) /\ IsFiniteSet(lost)
        <4>1. refused \subseteq DOMAIN e.tx_window /\ lost \subseteq Range(e.sdu_buffer)
          OBVIOUS
        <4> QED
          BY <3>4, <3>5, <4>1, FS_Subset
      <3>7. Cardinality(refused) \in Nat /\ Cardinality(lost) \in Nat
        BY <3>6, FS_CardinalityType
      <3> QED
        BY <1>2, <1>4, <3>7 DEF Refuse, OtherTypes
    <2>2. Idle \in [step : {"idle", "suspend", "release"}]
      BY DEF Idle
    <2> QED
      BY <1>1, <1>4, <1>15, <2>1, <2>2 DEF OtherTypes
  <1>17. TaskInv'
    BY <1>1, <1>6, <1>13 DEF TaskInv, Matches, Has
  <1>18. TokenInv'
    BY <1>1, <1>5, <1>8, <1>10, <1>11, <1>13, TokenTakenAgain DEF EntityInv
  <1>19. ControlInv'
    <2>1. 1 <= e'.key /\ e'.key <= MaxKeys
      BY <1>7, <1>15
    <2>2. ~e'.stopped /\ ~e'.suspended
      BY <1>7, <1>8, <1>9, <1>11, <1>13
    <2> QED
      BY <1>1, <1>5, <1>7, <2>1, <2>2 DEF ControlInv
  <1>20. SduInv'
    <2>1. \A i \in DOMAIN mid.sdu_buffer : mid.sdu_buffer[i] \in 1 .. sdus
      BY <1>4, <1>8, <1>11 DEF SduInv
    <2>2. \A c \in DOMAIN e'.tx_window : e'.tx_window[c].sdu \in 1 .. sdus
      BY <1>4, <1>11, <1>13, <2>1 DEF SduInv
    <2>3. \A task \in e'.crypto : task.sdu \in 1 .. sdus
      BY <1>4, <1>11, <1>13, <2>1 DEF SduInv
    <2>4. \A i \in DOMAIN e'.sdu_buffer : e'.sdu_buffer[i] \in 1 .. sdus
      BY <1>13
    <2> QED
      BY <1>1, <1>4, <2>2, <2>3, <2>4 DEF SduInv
  <1> QED
    BY <1>1, <1>14, <1>16, <1>17, <1>18, <1>19, <1>20, FromPartsAfter

\* set_count and reestablish without new keys, before the bearer is used.
LEMMA StatusTransferKeeps ==
  ASSUME IInv, HandoverInv, StatusTransfer
  PROVE  IInv'
  <1> DEFINE s == SetCount(e, InitCount)
             done == Reestablish(s, {})
  <1>1. /\ ~e.failed /\ routine = Idle /\ bearer = "handover" /\ bearer' = "active"
        /\ e' \in {done} \cup IF e.crypto = {} THEN {} ELSE {[done EXCEPT !.failed = TRUE]}
        /\ UNCHANGED <<cfg, queue, notified, routine, sdus, faults>>
    BY DEF StatusTransfer, Running, bounds
  <1>2. /\ EntityInv(e) /\ EntityType(e) /\ WindowInv(e) /\ DOMAIN e = Fields
        /\ cfg \in [rlc_mode : Modes, discard_timer : DiscardTimers]
    BY <1>1, FromRunning DEF EntityInv
  <1>3. OtherTypes /\ TaskInv /\ TokenInv /\ ControlInv /\ SduInv
    BY FromParts
  <1>4. /\ queue = <<>> /\ e.crypto = {} /\ Len(e.lower) = 0
        /\ DOMAIN e.tx_window = {} /\ e.sdu_buffer = <<>> /\ e.discard_timer = Off
        /\ ~e.crypto_reordering_timer /\ ~e.suspended
    BY <1>1 DEF HandoverInv
  <1>5. e' = done
    BY <1>1, <1>4
  <1>6. InitCount \in Nat /\ MaxCount \in Nat /\ InitCount <= MaxCount
    BY PdcpTxAssumption
  <1>7. /\ DOMAIN s = Fields /\ s.tx_next = InitCount /\ s.tx_trans = InitCount
        /\ s.tx_next_ack = InitCount /\ s.tx_trans_crypto = InitCount
        /\ s.tx_reord_crypto = InitCount /\ s.tx_window = e.tx_window
        /\ s.retransmit_id = e.retransmit_id /\ s.key = e.key
        /\ s.discard_timer = e.discard_timer /\ s.overdue = e.overdue
        /\ s.crypto_reordering_timer = e.crypto_reordering_timer /\ s.tokens = e.tokens
        /\ s.pending_crypto = e.pending_crypto /\ s.buffering = e.buffering
        /\ s.sdu_buffer = e.sdu_buffer /\ s.suspended = e.suspended
        /\ s.resume_requested = e.resume_requested /\ s.stopped = e.stopped
        /\ s.desired_buffer_size = e.desired_buffer_size /\ s.crypto = e.crypto
        /\ s.lower = e.lower /\ s.failed = e.failed
    BY <1>2 DEF SetCount, Fields
  <1> HIDE DEF s
  <1>8. DOMAIN s.lower = {}
    <2>1. DOMAIN e.lower = 1 .. Len(e.lower)
      BY <1>2, SubmittedFacts
    <2> QED
      BY <1>4, <1>7, <2>1
  <1>9. EntityInv(s) /\ Fresh(s)
    <2>1. EntityType(s)
      BY <1>2, <1>6, <1>7 DEF EntityType
    <2>2. WindowInv(s)
      BY <1>4, <1>6, <1>7 DEF WindowInv
    <2>3. LowerInv(s)
      <3>1. s.key >= 1
        BY <1>2, <1>7 DEF EntityInv, LowerInv, PduInv
      <3> QED
        BY <1>4, <1>7, <1>8, <3>1 DEF LowerInv, PduInv, KeyLow, ReadyInv, KeyOnce, InOrderInv
    <2>4. TimerInv(s)
      BY <1>4, <1>7 DEF TimerInv
    <2>5. DiscardInv(s)
      <3>1. Off <= cfg.discard_timer + 1
        BY <1>2, TickFacts DEF Off
      <3> QED
        BY <1>4, <1>7, <3>1 DEF DiscardInv
    <2> QED
      BY <1>8, <2>1, <2>2, <2>3, <2>4, <2>5 DEF EntityInv, Fresh
  <1>10. /\ EntityInv(e') /\ Balance(e') = Balance(s)
         /\ e'.key = s.key /\ e'.pending_crypto = s.pending_crypto
         /\ e'.sdu_buffer = s.sdu_buffer /\ e'.suspended = s.suspended
         /\ e'.stopped = s.stopped /\ e'.lower = s.lower
         /\ DOMAIN e'.tx_window = {} /\ e'.crypto = {}
    <2>1. s.crypto = {} /\ DOMAIN s.tx_window = {}
      BY <1>4, <1>7
    <2> QED
      BY <1>2, <1>5, <1>9, <2>1, ReestablishKeeps
  <1>11. Sound(e')
    BY <1>10, EntityIsSound
  <1>12. OtherTypes'
    BY <1>1, <1>3, <1>7, <1>10 DEF OtherTypes
  <1>13. TaskInv'
    BY <1>1, <1>4, <1>10 DEF TaskInv
  <1>14. TokenInv'
    <2>1. /\ e'.tokens \in Int /\ e.tokens \in Int /\ Cardinality(e.crypto) = 0
          /\ Cardinality(e'.crypto) = 0
      BY <1>2, <1>4, <1>10, FS_EmptySet DEF EntityInv, EntityType
    <2>2. e'.tokens = e.tokens
      BY <1>4, <1>7, <1>10, <2>1 DEF Balance
    <2>3. e'.pending_crypto = e.pending_crypto
      BY <1>7, <1>10
    <2>4. OwnToken' = OwnToken
      BY <1>1 DEF OwnToken
    <2> QED
      BY <1>1, <1>3, <2>1, <2>2, <2>3, <2>4 DEF TokenInv
  <1>15. ControlInv'
    <2>1. /\ e'.key = e.key /\ e'.stopped = e.stopped /\ ~e'.suspended
      BY <1>4, <1>7, <1>10
    <2>2. routine.step = "idle"
      BY <1>1 DEF Idle
    <2> QED
      BY <1>1, <1>3, <2>1, <2>2 DEF ControlInv
  <1>16. SduInv'
    BY <1>1, <1>3, <1>4, <1>7, <1>10 DEF SduInv
  <1> QED
    BY <1>1, <1>11, <1>12, <1>13, <1>14, <1>15, <1>16, FromPartsAfter

\* Nothing happens to a bearer that awaits the SN status, but that it is released.
LEMMA HandoverStepKeeps ==
  ASSUME IInv, HandoverInv, TimelyNext
  PROVE  HandoverInv'
  <1> SUFFICES ASSUME bearer' = "handover"
               PROVE  HandoverInv'
    BY DEF HandoverInv
  <1>1. bearer = "handover"
    BY DEF TimelyNext, TimelySdu, NewSdu, OtherStep, ApplySecurity, ProcessProtected,
           CryptoReorderingExpiry, Tick, DiscardTimerExpiry, TransmitNotification,
           DeliveryNotification, DesiredBufferSize, StatusReport, StatusTransfer,
           RequestSuspend, RequestRekey, RequestRelease, FinishSuspend, FinishRekey,
           FinishRelease
  <1>2. /\ queue = <<>> /\ e.crypto = {} /\ Len(e.lower) = 0
        /\ DOMAIN e.tx_window = {} /\ e.sdu_buffer = <<>> /\ e.discard_timer = Off
        /\ ~e.crypto_reordering_timer /\ ~e.suspended
    BY <1>1 DEF HandoverInv
  <1>3. OtherTypes /\ ControlInv /\ DOMAIN e = Fields
    BY FromParts DEF Sound, EntityType
  <1>4. ~TimelySdu /\ ~ApplySecurity /\ ~ProcessProtected /\ ~CryptoReorderingExpiry
    BY <1>1, <1>2 DEF TimelySdu, ApplySecurity, ProcessProtected, CryptoReorderingExpiry
  <1>5. ~Tick /\ ~DiscardTimerExpiry
    BY <1>2 DEF Tick, DiscardTimerExpiry, Off
  <1>6. ~TransmitNotification /\ ~DeliveryNotification
    <2>1. notified.trans = 0 /\ notified.deliv \in Nat
      BY <1>2, <1>3 DEF OtherTypes
    <2>2. (notified.trans + 1) .. Len(e.lower) = {} /\ (notified.deliv + 1) .. notified.trans = {}
      BY <1>2, <2>1
    <2> QED
      BY <2>2 DEF TransmitNotification, DeliveryNotification
  <1>7. /\ ~StatusTransfer /\ ~RequestSuspend /\ ~RequestRekey
        /\ ~FinishSuspend /\ ~FinishRekey /\ ~FinishRelease
    BY <1>1, <1>3 DEF StatusTransfer, RequestSuspend, RequestRekey, FinishSuspend, FinishRekey,
                      FinishRelease, ControlInv
  <1>8. CASE DesiredBufferSize
    <2>1. PICK size \in BufferSizes : e' = [e EXCEPT !.desired_buffer_size = size]
      BY <1>8 DEF DesiredBufferSize
    <2>2. queue' = queue
      BY <1>8 DEF DesiredBufferSize
    <2>3. /\ e'.crypto = e.crypto /\ e'.lower = e.lower /\ e'.tx_window = e.tx_window
          /\ e'.sdu_buffer = e.sdu_buffer /\ e'.discard_timer = e.discard_timer
          /\ e'.crypto_reordering_timer = e.crypto_reordering_timer
          /\ e'.suspended = e.suspended
      BY <1>3, <2>1 DEF Fields
    <2> QED
      BY <1>2, <2>2, <2>3 DEF HandoverInv
  <1>9. CASE StatusReport
    <2>1. PICK fmc, bitmap : e' = HandleStatusReport(e, fmc, bitmap)
      BY <1>9 DEF StatusReport
    <2>2. queue' = queue
      BY <1>9 DEF StatusReport
    <2>3. e' = e
      BY <1>2, <2>1 DEF HandleStatusReport, DiscardPdus
    <2> QED
      BY <1>2, <2>2, <2>3 DEF HandoverInv
  <1>10. CASE RequestRelease
    <2>1. e' = Stop(e) /\ queue' = queue
      BY <1>10 DEF RequestRelease
    <2>2. /\ e'.crypto = e.crypto /\ e'.lower = e.lower /\ DOMAIN e'.tx_window = {}
          /\ e'.sdu_buffer = e.sdu_buffer /\ e'.discard_timer = Off
          /\ ~e'.crypto_reordering_timer /\ e'.suspended = e.suspended
      BY <1>3, <2>1 DEF Stop, ReturnToken, Fields
    <2> QED
      BY <1>2, <2>1, <2>2 DEF HandoverInv
  <1> QED
    BY <1>4, <1>5, <1>6, <1>7, <1>8, <1>9, <1>10 DEF TimelyNext, OtherStep

LEMMA InitHolds ==
  ASSUME Init
  PROVE  IInv
  <1> DEFINE count == IF bearer = "handover" THEN 0 ELSE InitCount
  <1>1. /\ DOMAIN e = Fields /\ e.tx_next = count /\ e.tx_trans = count
        /\ e.tx_next_ack = count /\ e.tx_trans_crypto = count
        /\ e.tx_reord_crypto = count /\ DOMAIN e.tx_window = {} /\ e.retransmit_id = 0
        /\ e.key = 1 /\ e.discard_timer = Off /\ e.overdue = FALSE
        /\ e.crypto_reordering_timer = FALSE /\ e.tokens = 0 /\ e.pending_crypto = FALSE
        /\ e.buffering = FALSE /\ e.sdu_buffer = <<>> /\ e.suspended = FALSE
        /\ e.resume_requested = FALSE /\ e.stopped = FALSE /\ e.desired_buffer_size = 0
        /\ e.crypto = {} /\ e.lower = <<>> /\ e.failed = FALSE
    <2> HIDE DEF count
    <2> QED
      BY DEF Init, Fields, count
  <1>2. /\ cfg \in [rlc_mode : Modes, discard_timer : DiscardTimers]
        /\ queue = <<>> /\ notified = [trans |-> 0, deliv |-> 0, old |-> 0]
        /\ routine = Idle /\ bearer \in {"active", "handover"} /\ sdus = 0 /\ faults = 0
    <2>1. cfg.rlc_mode \in {"am", "um"} /\ bearer \in Starts[cfg.rlc_mode]
      BY PdcpTxAssumption DEF Init
    <2>2. bearer \in {"active", "handover"}
      BY <2>1, PdcpTxAssumption
    <2> QED
      BY <2>2 DEF Init
  <1>3. MaxCount \in Nat /\ count \in Nat /\ count <= MaxCount
    BY PdcpTxAssumption
  <1> HIDE DEF count
  <1>4. EntityType(e)
    <2>1. IsFiniteSet(e.crypto) /\ e.crypto \in SUBSET Tasks
      BY <1>1, FS_EmptySet
    <2>2. e.sdu_buffer \in Seq(Nat) /\ e.lower \in Seq(Submitted)
      BY <1>1
    <2>3. e.discard_timer \in Nat \cup {Off} /\ e.tokens \in Int
      BY <1>1
    <2>4. /\ e.overdue \in BOOLEAN /\ e.crypto_reordering_timer \in BOOLEAN
          /\ e.pending_crypto \in BOOLEAN /\ e.buffering \in BOOLEAN /\ e.suspended \in BOOLEAN
          /\ e.resume_requested \in BOOLEAN /\ e.stopped \in BOOLEAN /\ e.failed \in BOOLEAN
      BY <1>1
    <2>5. /\ e.retransmit_id \in Nat /\ e.key \in Nat /\ e.desired_buffer_size \in Nat
      BY <1>1
    <2> QED
      BY <1>1, <1>3, <2>1, <2>2, <2>3, <2>4, <2>5 DEF EntityType
  <1>5. WindowInv(e)
    BY <1>1, <1>3 DEF WindowInv
  <1>6. LowerInv(e)
    <2>1. DOMAIN e.lower = {}
      BY <1>1
    <2> QED
      BY <1>1, <2>1 DEF LowerInv, PduInv, KeyLow, ReadyInv, KeyOnce, InOrderInv
  <1>7. TimerInv(e)
    BY <1>1 DEF TimerInv
  <1>8. DiscardInv(e)
    <2>1. Off <= cfg.discard_timer + 1
      BY <1>2, TickFacts DEF Off
    <2> QED
      BY <1>1, <2>1 DEF DiscardInv
  <1>9. Sound(e)
    BY <1>4, <1>5, <1>6, <1>7, <1>8, EntityIsSound DEF EntityInv
  <1>10. OtherTypes
    <2>1. Idle \in [step : {"idle", "suspend", "release"}] /\ <<>> \in Seq(Results) /\ Len(e.lower) = 0
      BY <1>1 DEF Idle
    <2> QED
      BY <1>2, <2>1 DEF OtherTypes
  <1>11. TaskInv
    BY <1>1, <1>2 DEF TaskInv
  <1>12. TokenInv
    <2>1. Cardinality(e.crypto) = 0 /\ Len(queue) = 0
      BY <1>1, <1>2, FS_EmptySet
    <2> QED
      BY <1>1, <1>2, <2>1 DEF TokenInv, OwnToken
  <1>13. ControlInv
    BY <1>1, <1>2, PdcpTxAssumption DEF ControlInv, Idle
  <1>14. SduInv
    <2>1. cfg.rlc_mode \in {"am", "um"}
      BY <1>2, PdcpTxAssumption
    <2>2. MaxSdus[cfg.rlc_mode] \in Nat
      BY <2>1, PdcpTxAssumption
    <2> QED
      BY <1>1, <1>2, <2>2 DEF SduInv
  <1> QED
    BY <1>9, <1>10, <1>11, <1>12, <1>13, <1>14, FromParts

LEMMA StepKeeps ==
  ASSUME IInv, HandoverInv, [TimelyNext]_vars
  PROVE  IInv' /\ HandoverInv'
  <1>1. CASE UNCHANGED vars
    <2>1. OtherTypes /\ Sound(e) /\ TaskInv /\ TokenInv /\ ControlInv /\ SduInv
      BY FromParts
    <2>2. UNCHANGED <<cfg, e, queue, notified, routine, bearer, sdus, faults>>
      BY <1>1 DEF vars
    <2>3. Sound(e')
      BY <2>1, <2>2
    <2>4. OtherTypes'
      BY <2>1, <2>2 DEF OtherTypes
    <2>5. TaskInv' /\ TokenInv'
      BY <2>1, <2>2, TasksMatch DEF TokenInv, OwnToken, Drained
    <2>6. ControlInv' /\ SduInv'
      BY <2>1, <2>2 DEF ControlInv, SduInv
    <2>7. HandoverInv'
      BY <2>2 DEF HandoverInv
    <2> QED
      BY <2>2, <2>3, <2>4, <2>5, <2>6, <2>7, FromPartsAfter
  <1>2. CASE TimelyNext
    BY <1>2, HandoverStepKeeps, NewSduKeeps, ApplySecurityKeeps, ProcessProtectedKeeps,
       CryptoReorderingExpiryKeeps, TickStepKeeps, DiscardTimerExpiryKeeps,
       TransmitNotificationKeeps, DeliveryNotificationKeeps, DesiredBufferSizeKeeps,
       StatusReportStepKeeps, RequestSuspendKeeps, RequestRekeyKeeps, RequestReleaseKeeps,
       FinishSuspendKeeps, FinishRekeyKeeps, FinishReleaseKeeps, StatusTransferKeeps
       DEF TimelyNext, TimelySdu, OtherStep
  <1> QED
    BY <1>1, <1>2

\* The inductive invariant holds if the SN status of a handover comes before the first
\* SDU (TimelySpec): then the re-establishment under the same key finds nothing sent.
THEOREM Invariance == TimelySpec => [](IInv /\ HandoverInv)
  <1>1. Init => IInv /\ HandoverInv
    <2>1. Init => HandoverInv
      <3> SUFFICES ASSUME Init
                   PROVE  HandoverInv
        OBVIOUS
      <3>1. /\ queue = <<>> /\ e.crypto = {} /\ e.lower = <<>> /\ e.tx_window = <<>>
            /\ e.sdu_buffer = <<>> /\ e.discard_timer = Off
            /\ e.crypto_reordering_timer = FALSE /\ e.suspended = FALSE
        BY DEF Init
      <3>2. DOMAIN e.tx_window = {} /\ Len(e.lower) = 0
        BY <3>1
      <3> QED
        BY <3>1, <3>2 DEF HandoverInv
    <2> QED
      BY <2>1, InitHolds
  <1>2. IInv /\ HandoverInv /\ [TimelySdu \/ OtherStep]_vars => (IInv /\ HandoverInv)'
    BY StepKeeps DEF TimelyNext
  <1> QED
    BY <1>1, <1>2, PTL DEF TimelySpec

\* Types and the order of the state variables (handle_sdu, the notifications, discard_pdu).
THEOREM StateVariablesInOrder == TimelySpec => []TypeOK
  <1>1. IInv => TypeOK
    <2> SUFFICES ASSUME IInv
                 PROVE  TypeOK
      OBVIOUS
    <2>1. OtherTypes /\ EntityType(e) /\ WindowInv(e) /\ TaskInv /\ TokenInv /\ ControlInv /\ SduInv
      BY FromParts DEF Sound
    <2>2. /\ {e.tx_next, e.tx_trans, e.tx_next_ack, e.tx_trans_crypto, e.tx_reord_crypto}
               \subseteq Counts
          /\ DOMAIN e.tx_window \subseteq e.tx_next_ack .. (e.tx_next - 1)
          /\ e.tx_next_ack <= e.tx_trans /\ e.tx_trans <= e.tx_next
          /\ e.tx_trans_crypto <= e.tx_next /\ e.tx_next \in Nat /\ e.tx_next <= MaxCount
          /\ MaxCount \in Nat
      BY <2>1, CountFacts DEF Counts
    <2>3. e.key \in 1 .. MaxKeys
      BY <2>1, PdcpTxAssumption DEF ControlInv, EntityType
    <2>4. e.tokens \in Nat \cup {-1}
      <3>1. e.tokens \in Int /\ IsFiniteSet(e.crypto) /\ queue \in Seq(Results)
        BY <2>1 DEF EntityType, OtherTypes
      <3>2. Cardinality(e.crypto) + Len(queue) \in Nat
        BY <3>1, DrainedFacts
      <3>3. OwnToken \in {0, 1} /\ e.tokens + OwnToken = Cardinality(e.crypto) + Len(queue)
        BY <2>1 DEF TokenInv, OwnToken
      <3> QED
        BY <3>1, <3>2, <3>3
    <2>5. ASSUME NEW task \in e.crypto
          PROVE  task.count \in Counts /\ task.sdu \in 1 .. MaxSdus[cfg.rlc_mode]
      <3>1. task \in Tasks /\ task.count < e.tx_next /\ task.sdu \in 1 .. sdus
            /\ sdus <= MaxSdus[cfg.rlc_mode] /\ sdus \in Nat
        BY <2>1 DEF EntityType, TaskInv, Matches, SduInv, OtherTypes
      <3>2. task.count \in Nat
        BY <3>1 DEF Tasks
      <3>3. MaxSdus[cfg.rlc_mode] \in Nat
        <4>1. cfg.rlc_mode \in {"am", "um"}
          BY <2>1, PdcpTxAssumption DEF OtherTypes
        <4> QED
          BY <4>1, PdcpTxAssumption
      <3> QED
        BY <2>2, <3>1, <3>2, <3>3 DEF Counts
    <2>6. routine.step \in {"idle", "suspend", "rekey", "release"}
      BY <2>1 DEF OtherTypes
    <2>7. e.discard_timer \in {Off} \cup Nat
      BY <2>1 DEF EntityType
    <2> QED
      BY <2>1, <2>2, <2>3, <2>4, <2>5, <2>6, <2>7 DEF TypeOK, OtherTypes
  <1> QED
    BY <1>1, Invariance, PTL

\* No COUNT protects two SDUs under one key (handle_sdu, retransmit_all_pdus, suspend and
\* reestablish): the COUNTs start again only with a new key or, when the SN status of a
\* handover is applied before the first SDU, with nothing sent.
THEOREM NoCountTwiceUnderOneKey == TimelySpec => []KeyAndCountOnce
  <1>1. IInv => KeyAndCountOnce
    BY DEF IInv, KeyOnce, KeyAndCountOnce
  <1> QED
    BY <1>1, Invariance, PTL

\* RLC gets the PDUs between two retransmissions in ascending order of COUNT, whatever
\* the order in which the workers finish (apply_reordering, crypto_reordering_timeout).
THEOREM RlcGetsPdusInOrder == TimelySpec => []SubmittedInOrder
  <1>1. IInv => SubmittedInOrder
    BY DEF IInv, InOrderInv, SubmittedInOrder
  <1> QED
    BY <1>1, Invariance, PTL

\* The crypto reordering timer runs while a PDU waits for one with a smaller COUNT
\* (apply_reordering, crypto_reordering_timeout).
THEOREM WaitingIsTimed == TimelySpec => []WaitingPduHasTimer
  <1>1. IInv => WaitingPduHasTimer
    BY DEF IInv, TimerInv, WaitingPduHasTimer
  <1> QED
    BY <1>1, Invariance, PTL

\* The discard timer runs while there are SDUs and expires at most a tick after any of
\* them is due (handle_sdu, stop_discard_timer, discard_callback).
THEOREM DiscardIsTimely == TimelySpec => []DiscardNotLate
  <1>1. IInv => DiscardNotLate
    BY DEF IInv, WindowInv, DiscardInv, DiscardNotLate
  <1> QED
    BY <1>1, Invariance, PTL

\* The routine is woken exactly when no SDU is with a worker or on its way back
\* (pdcp_crypto_token_manager).
THEOREM RoutineIsWoken == TimelySpec => []DrainWakesRoutine
  <1>1. IInv => DrainWakesRoutine
    BY DEF IInv, TokenInv, Drained, DrainWakesRoutine
  <1> QED
    BY <1>1, Invariance, PTL
=============================================================================

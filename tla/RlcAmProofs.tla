----------------------------- MODULE RlcAmProofs -----------------------------
(***************************************************************************)
(* An RLC AM bearer for every window size, SDU length and number of SDUs,  *)
(* over a link that loses, repeats and reorders: the windows of both sides *)
(* stay together, reports tell the truth, no honest peer is taken for a    *)
(* faulty one, and the bearer implements its service.                      *)
(***************************************************************************)
EXTENDS RlcAm, OrderedSetsProofs

\* SNs given out since TX_Next_Ack, the one under segmentation included.
Sent == TxBase(tx_next) + IF sn_under_segmentation = NoSn THEN 0 ELSE 1

\* The receiver has all bytes of the SDU with this SN.
Complete(sn) == TxBase(sn) < TxBase(rx_next) \/ FullyReceived(rx_window, sn)

RxBase(sn) == ModBase(sn, rx_next)

\* The TX window; the SDU under segmentation is the newest and not all of it was sent.
TxInv ==
  /\ sn_under_segmentation \in {NoSn, tx_next}
  /\ DOMAIN tx_window = {sn \in Sn : TxBase(sn) < Sent} /\ Sent <= AmWindowSize
  /\ sn_under_segmentation # NoSn => tx_window[tx_next].next_so \in 1 .. SduLen - 1

\* A data PDU in flight is of the window, or so old that the receiver ignores it.
PduInv(pdu) ==
  /\ pdu.so + pdu.len <= SduLen
  /\ IF pdu.sn \in DOMAIN tx_window
     THEN /\ pdu.sdu = tx_window[pdu.sn].sdu
          /\ pdu.sn = sn_under_segmentation => pdu.so + pdu.len <= tx_window[pdu.sn].next_so
     ELSE TxBase(pdu.sn) >= Sent + AmWindowSize

\* SDUs keep the order in which they came.
SduInv ==
  /\ \A i \in DOMAIN sdu_queue : sdu_queue[i].sdu <= submitted
  /\ \A i, j \in DOMAIN sdu_queue : i < j => sdu_queue[i].sdu < sdu_queue[j].sdu
  /\ \A sn \in DOMAIN tx_window :
       /\ tx_window[sn].sdu <= submitted
       /\ \A i \in DOMAIN sdu_queue : tx_window[sn].sdu < sdu_queue[i].sdu
       /\ \A o \in DOMAIN tx_window : TxBase(sn) < TxBase(o) => tx_window[sn].sdu < tx_window[o].sdu

\* What the upper layers were told.
UpperInv ==
  /\ delivered[0] = 0
  /\ \A s \in Sdu : delivered[s] \in {0, 1} /\ (s > submitted => delivered[s] = 0)
  /\ \A i \in DOMAIN sdu_queue : delivered[sdu_queue[i].sdu] = 0
  /\ \A sn \in DOMAIN tx_window : delivered[tx_window[sn].sdu] = 1 <=> Complete(sn)
  /\ \A s \in confirmed : s <= submitted /\ delivered[s] = 1
  /\ "protocol_failure" \notin upper_cn

\* What is to be retransmitted has been transmitted.
RetxInv == RetxOnlyWhatWasSent

\* The RX window between RX_Next and RX_Next_Highest, seen from the transmitter; the
\* highest SN is there; t-Reassembly runs for an SN behind one that is there.
RxInv ==
  /\ RxStateOrder
  /\ TxBase(rx_next) + RxBase(rx_next_highest) <= Sent
  /\ rx_next_highest # rx_next => \E sn \in DOMAIN rx_window : SnAdd(sn, 1) = rx_next_highest
  /\ reassembly_timer =>
       /\ RxBase(rx_next_status_trigger) \in 1 .. RxBase(rx_next_highest)
       /\ \E sn \in DOMAIN rx_window : SnAdd(sn, 1) = rx_next_status_trigger
  /\ \A sn \in DOMAIN rx_window : \A b \in DOMAIN rx_window[sn] :
       /\ rx_window[sn][b] = tx_window[sn].sdu
       /\ sn = sn_under_segmentation => b < tx_window[sn].next_so

\* What a report says that is not outdated.
ReportInv(report) ==
  LET ack == TxBase(report.ack_sn)
  IN  \/ ack > AmWindowSize
      \/ /\ ack <= TxBase(rx_next) + RxBase(rx_next_highest)
         /\ \A sn \in DOMAIN tx_window :
              TxBase(sn) < ack /\ (\A nack \in report.nacks : nack.sn # sn) => Complete(sn)
         /\ \A nack \in report.nacks :
              TxBase(nack.sn) < ack =>
                /\ ~nack.has_so => TxBase(nack.sn) + 1 < TxBase(rx_next) + RxBase(rx_next_highest)
                /\ nack.has_so /\ nack.so_end # EndOfSdu /\ nack.sn = sn_under_segmentation
                     => nack.so_end < tx_window[nack.sn].next_so

NackInv(nack) ==
  nack.has_so => nack.so_start < SduLen
                 /\ (nack.so_end # EndOfSdu => nack.so_start <= nack.so_end /\ nack.so_end < SduLen)

DataInv == \A pdu \in data : PduInv(pdu)

StatInv == \A report \in stat : ReportInv(report) /\ \A nack \in report.nacks : NackInv(nack)

\* The cached report is always up to date.
CachedInv == status_report = RefreshedReport(rx_next, rx_highest_status, rx_window)

IInv ==
  /\ TypeOK /\ TxInv /\ SduInv /\ UpperInv /\ RetxInv /\ RxInv
  /\ DataInv /\ StatInv /\ CachedInv

-----------------------------------------------------------------------------
(* Sequence numbers.                                                       *)

\* The window is half of the SN space.
LEMMA Half ==
  /\ AmWindowSize \in Nat /\ AmWindowSize >= 2
  /\ SnModulus \in Nat /\ SnModulus = 2 * AmWindowSize
  BY RlcAmPduAssumption

\* The distance of two SNs.
LEMMA ModBaseIs ==
  ASSUME NEW a \in Sn, NEW b \in Sn
  PROVE  ModBase(a, b) = IF a >= b THEN a - b ELSE a - b + SnModulus
  <1> DEFINE x == a - b
  <1>1. x \in Int /\ SnModulus \in Nat \ {0}
    BY Half DEF Sn
  <1>2. /\ x \in 0 .. SnModulus - 1 => x % SnModulus = x
        /\ x \in (-SnModulus) .. -1 => x % SnModulus = x + SnModulus
    BY <1>1, OneTurn
  <1>3. IF a >= b THEN x \in 0 .. SnModulus - 1 ELSE x \in (-SnModulus) .. -1
    BY Half DEF Sn
  <1>4. ModBase(a, b) = x % SnModulus
    BY DEF ModBase
  <1> HIDE DEF x
  <1>5. ModBase(a, b) = IF a >= b THEN x ELSE x + SnModulus
    BY <1>2, <1>3, <1>4
  <1> QED
    BY <1>5, Half DEF x, Sn

LEMMA SnAddIs ==
  ASSUME NEW a \in Sn, NEW n \in 0 .. SnModulus
  PROVE  SnAdd(a, n) = IF a + n < SnModulus THEN a + n ELSE a + n - SnModulus
  <1> DEFINE x == a + n
  <1>1. x \in Int /\ SnModulus \in Nat \ {0}
    BY Half DEF Sn
  <1>2. /\ x \in 0 .. SnModulus - 1 => x % SnModulus = x
        /\ x \in SnModulus .. 2 * SnModulus - 1 => x % SnModulus = x - SnModulus
    BY <1>1, OneTurn
  <1>3. IF x < SnModulus THEN x \in 0 .. SnModulus - 1 ELSE x \in SnModulus .. 2 * SnModulus - 1
    BY Half DEF Sn
  <1>4. SnAdd(a, n) = x % SnModulus
    BY DEF SnAdd
  <1> HIDE DEF x
  <1>5. SnAdd(a, n) = IF x < SnModulus THEN x ELSE x - SnModulus
    BY <1>2, <1>3, <1>4
  <1> QED
    BY <1>5, Half DEF x, Sn

\* Distances from a base.
LEMMA BaseType ==
  ASSUME NEW a \in Sn, NEW b \in Sn
  PROVE  ModBase(a, b) \in 0 .. SnModulus - 1 /\ ModBase(b, b) = 0
  BY ModBaseIs, Half DEF Sn

LEMMA BaseInjective ==
  ASSUME NEW a \in Sn, NEW c \in Sn, NEW b \in Sn, ModBase(a, b) = ModBase(c, b)
  PROVE  a = c
  BY ModBaseIs, Half DEF Sn

\* Distances from one base and from another.
LEMMA Rebase ==
  ASSUME NEW a \in Sn, NEW c \in Sn, NEW b \in Sn
  PROVE  ModBase(a, c) = IF ModBase(a, b) >= ModBase(c, b) THEN ModBase(a, b) - ModBase(c, b)
                         ELSE ModBase(a, b) - ModBase(c, b) + SnModulus
  BY ModBaseIs, Half DEF Sn

LEMMA AddType ==
  ASSUME NEW a \in Sn, NEW n \in 0 .. SnModulus
  PROVE  SnAdd(a, n) \in Sn
  BY SnAddIs, Half DEF Sn

LEMMA AddBase ==
  ASSUME NEW a \in Sn, NEW n \in 0 .. SnModulus, NEW b \in Sn
  PROVE  ModBase(SnAdd(a, n), b) = IF ModBase(a, b) + n < SnModulus THEN ModBase(a, b) + n
                                   ELSE ModBase(a, b) + n - SnModulus
  <1>1. SnAdd(a, n) \in Sn
    BY AddType
  <1>2. SnAdd(a, n) = IF a + n < SnModulus THEN a + n ELSE a + n - SnModulus
    BY SnAddIs
  <1>3. /\ ModBase(SnAdd(a, n), b) = IF SnAdd(a, n) >= b THEN SnAdd(a, n) - b
                                     ELSE SnAdd(a, n) - b + SnModulus
        /\ ModBase(a, b) = IF a >= b THEN a - b ELSE a - b + SnModulus
    BY <1>1, ModBaseIs
  <1> QED
    BY <1>2, <1>3, Half DEF Sn

\* tx_mod_base(tx_next + 1) and rx_mod_base(base + 1) do not wrap their argument.
LEMMA NextBase ==
  ASSUME NEW a \in Sn, NEW b \in Sn
  PROVE  ModBase(a + 1, b) = ModBase(SnAdd(a, 1), b)
  <1>1. 1 \in 0 .. SnModulus
    BY Half
  <1>2. SnAdd(a, 1) \in Sn /\ SnAdd(a, 1) = IF a + 1 < SnModulus THEN a + 1 ELSE a + 1 - SnModulus
    BY <1>1, AddType, SnAddIs
  <1>3. CASE a + 1 < SnModulus
    BY <1>2, <1>3
  <1>4. CASE a + 1 = SnModulus
    <2>1. SnAdd(a, 1) = 0
      BY <1>2, <1>4, Half DEF Sn
    <2>2. ModBase(0, b) = IF b = 0 THEN 0 ELSE SnModulus - b
      BY ModBaseIs, Half DEF Sn
    <2> DEFINE x == SnModulus - b
    <2>3. x \in Int /\ SnModulus \in Nat \ {0}
      BY Half DEF Sn
    <2>4. x % SnModulus = IF b = 0 THEN 0 ELSE x
      <3>1. /\ x \in 0 .. SnModulus - 1 => x % SnModulus = x
            /\ x \in SnModulus .. 2 * SnModulus - 1 => x % SnModulus = x - SnModulus
        BY <2>3, OneTurn
      <3>2. IF b = 0 THEN x \in SnModulus .. 2 * SnModulus - 1 /\ x - SnModulus = 0
            ELSE x \in 0 .. SnModulus - 1
        BY Half DEF Sn
      <3> HIDE DEF x
      <3> QED
        BY <3>1, <3>2
    <2> QED
      BY <1>4, <2>1, <2>2, <2>4 DEF ModBase
  <1> QED
    BY <1>3, <1>4, Half DEF Sn

\* As many SNs lie less than k behind a base.
LEMMA WindowCount ==
  ASSUME NEW b \in Sn, NEW k \in 0 .. SnModulus
  PROVE  /\ IsFiniteSet({sn \in Sn : ModBase(sn, b) < k})
         /\ Cardinality({sn \in Sn : ModBase(sn, b) < k}) = k
  <1> DEFINE S == {sn \in Sn : ModBase(sn, b) < k}
             D == 0 .. (k - 1)
             f == [d \in D |-> SnAdd(b, d)]
  <1>1. \A d \in D : SnAdd(b, d) \in Sn /\ ModBase(SnAdd(b, d), b) = d
    <2> SUFFICES ASSUME NEW d \in D PROVE SnAdd(b, d) \in Sn /\ ModBase(SnAdd(b, d), b) = d
      OBVIOUS
    <2>1. d \in 0 .. SnModulus /\ d < SnModulus
      BY Half
    <2> QED
      BY <2>1, AddType, AddBase, BaseType
  <1>2. \A sn \in S : ModBase(sn, b) \in D
    BY BaseType, Half
  <1>3. f \in [D -> S]
    BY <1>1
  <1>4. \A x, y \in D : f[x] = f[y] => x = y
    <2> SUFFICES ASSUME NEW x \in D, NEW y \in D, f[x] = f[y] PROVE x = y
      OBVIOUS
    <2>1. SnAdd(b, x) = SnAdd(b, y)
      OBVIOUS
    <2> QED
      BY <1>1, <2>1
  <1>5. \A sn \in S : \E d \in D : f[d] = sn
    <2> SUFFICES ASSUME NEW sn \in S PROVE \E d \in D : f[d] = sn
      OBVIOUS
    <2> DEFINE d == ModBase(sn, b)
    <2>1. d \in D
      BY <1>2
    <2>2. SnAdd(b, d) \in Sn /\ ModBase(SnAdd(b, d), b) = d
      BY <1>1, <2>1
    <2>3. SnAdd(b, d) = sn
      BY <2>2, BaseInjective
    <2> QED
      BY <2>1, <2>3
  <1>6. f \in Bijection(D, S)
    BY <1>3, <1>4, <1>5 DEF Bijection, Injection, Surjection, IsInjective
  <1>7. ExistsBijection(D, S)
    BY <1>6 DEF ExistsBijection
  <1>8. IsFiniteSet(D) /\ Cardinality(D) = k
    <2>1. 0 \in Int /\ k - 1 \in Int /\ k \in Nat
      BY Half
    <2>2. IsFiniteSet(0 .. (k - 1)) /\ Cardinality(0 .. (k - 1)) = IF 0 > k - 1 THEN 0 ELSE (k - 1) - 0 + 1
      BY <2>1, FS_Interval
    <2> QED
      BY <2>1, <2>2
  <1> HIDE DEF D, S
  <1>9. IsFiniteSet(S) /\ Cardinality(S) = k
    BY <1>7, <1>8, FS_Bijection
  <1> QED
    BY <1>9 DEF S

-----------------------------------------------------------------------------
(* What follows from the invariant in one state.                           *)

\* The SNs of both sides.
SnTypes ==
  /\ tx_next \in Sn /\ tx_next_ack \in Sn
  /\ rx_next \in Sn /\ rx_next_highest \in Sn /\ rx_highest_status \in Sn
  /\ rx_next_status_trigger \in Sn

LEMMA Sns ==
  ASSUME TypeOK
  PROVE  SnTypes
  BY DEF TypeOK, TxTypeOK, RxTypeOK, SnTypes

\* The number of SNs in the TX window.
LEMMA SentCount ==
  ASSUME TypeOK, TxInv
  PROVE  /\ Sent \in 0 .. AmWindowSize /\ TxBase(tx_next) \in 0 .. AmWindowSize
         /\ IsFiniteSet(DOMAIN tx_window) /\ Cardinality(DOMAIN tx_window) = Sent
         /\ Sent = TxBase(tx_next) + IF sn_under_segmentation = NoSn THEN 0 ELSE 1
         /\ sn_under_segmentation = NoSn <=> sn_under_segmentation \notin DOMAIN tx_window
  <1>1. tx_next \in Sn /\ tx_next_ack \in Sn
    BY Sns DEF SnTypes
  <1>2. TxBase(tx_next) \in 0 .. SnModulus - 1
    BY <1>1, BaseType DEF TxBase
  <1>3. Sent \in 0 .. AmWindowSize /\ TxBase(tx_next) \in 0 .. AmWindowSize
    BY <1>2, Half DEF Sent, TxInv
  <1>4. DOMAIN tx_window = {sn \in Sn : ModBase(sn, tx_next_ack) < Sent}
    BY DEF TxInv, TxBase
  <1>5. Sent \in 0 .. SnModulus
    BY <1>3, Half
  <1>6. IsFiniteSet(DOMAIN tx_window) /\ Cardinality(DOMAIN tx_window) = Sent
    BY <1>1, <1>4, <1>5, WindowCount
  <1>7. sn_under_segmentation # NoSn => sn_under_segmentation \in DOMAIN tx_window
    BY <1>1, <1>2, <1>4 DEF Sent, TxInv, TxBase
  <1>8. NoSn \notin DOMAIN tx_window
    BY <1>4, Half DEF NoSn, Sn
  <1> QED
    BY <1>3, <1>6, <1>7, <1>8 DEF Sent

-----------------------------------------------------------------------------
(* Steps that leave a part of the invariant alone.                         *)

LEMMA TxFrame ==
  ASSUME TxInv, UNCHANGED <<tx_window, txSt, sn_under_segmentation>>
  PROVE  TxInv' /\ Sent' = Sent /\ \A sn \in Sn : TxBase(sn)' = TxBase(sn)
  BY DEF TxInv, Sent, TxBase, txSt

LEMMA SduFrame ==
  ASSUME SduInv, UNCHANGED <<tx_window, txSt, sdu_queue, submitted>>
  PROVE  SduInv'
  BY DEF SduInv, TxBase, txSt

LEMMA UpperFrame ==
  ASSUME UpperInv, UNCHANGED <<tx_window, txSt, sdu_queue, submitted, upperSt, rx_next, rx_window, delivered>>
  PROVE  UpperInv'
  BY DEF UpperInv, Complete, FullyReceived, TxBase, txSt, upperSt

LEMMA RetxFrame ==
  ASSUME RetxInv, UNCHANGED <<tx_window, retx_queue, sn_under_segmentation>>
  PROVE  RetxInv'
  BY DEF RetxInv, RetxOnlyWhatWasSent

LEMMA RxFrame ==
  ASSUME RxInv, UNCHANGED <<tx_window, txSt, sn_under_segmentation, rxSt, rx_window, reassembly_timer>>
  PROVE  RxInv'
  BY DEF RxInv, RxStateOrder, FullyReceived, RxBase, TxBase, Sent, txSt, rxSt

LEMMA DataFrame ==
  ASSUME DataInv, data' \subseteq data, UNCHANGED <<tx_window, txSt, sn_under_segmentation>>
  PROVE  DataInv'
  BY DEF DataInv, PduInv, TxBase, Sent, txSt

LEMMA StatFrame ==
  ASSUME StatInv, stat' \subseteq stat,
         UNCHANGED <<tx_window, txSt, sn_under_segmentation, rx_next, rx_next_highest, rx_window>>
  PROVE  StatInv'
  BY DEF StatInv, ReportInv, NackInv, Complete, FullyReceived, RxBase, TxBase, Sent, txSt

LEMMA CachedFrame ==
  ASSUME CachedInv, UNCHANGED <<rx_next, rx_highest_status, rx_window, status_report>>
  PROVE  CachedInv'
  BY DEF CachedInv, RefreshedReport, FullyReceived, NacksOf

-----------------------------------------------------------------------------
(* The two queues of the transmitter.                                      *)

Entries == [sdu : Sdu, discarded : BOOLEAN]

\* The queue p is what is left of q when some SDUs have left its head.
Suffix(p, q) ==
  /\ p \in Seq(Entries)
  /\ \E m \in 0 .. Len(q) : /\ Len(p) = Len(q) - m
                            /\ \A i \in 1 .. Len(p) : p[i].sdu = q[i + m].sdu

LEMMA SuffixFacts ==
  ASSUME NEW q \in Seq(Entries), NEW p, Suffix(p, q)
  PROVE  /\ \A i \in DOMAIN p : \E j \in DOMAIN q : p[i].sdu = q[j].sdu
         /\ (\A i, j \in DOMAIN q : i < j => q[i].sdu < q[j].sdu)
              => \A i, j \in DOMAIN p : i < j => p[i].sdu < p[j].sdu
  <1>1. PICK m \in 0 .. Len(q) : /\ Len(p) = Len(q) - m
                                 /\ \A i \in 1 .. Len(p) : p[i].sdu = q[i + m].sdu
    BY DEF Suffix
  <1>2. p \in Seq(Entries) /\ DOMAIN p = 1 .. Len(p) /\ DOMAIN q = 1 .. Len(q) /\ Len(q) \in Nat
        /\ Len(p) \in Nat
    BY DEF Suffix
  <1>3. \A i \in 1 .. Len(p) : i + m \in 1 .. Len(q)
    BY <1>1, <1>2
  <1>4. ASSUME \A i, j \in DOMAIN q : i < j => q[i].sdu < q[j].sdu, NEW i \in DOMAIN p,
               NEW j \in DOMAIN p, i < j
        PROVE  p[i].sdu < p[j].sdu
    <2>1. i + m \in DOMAIN q /\ j + m \in DOMAIN q /\ i + m < j + m
      BY <1>2, <1>3, <1>4
    <2>2. q[i + m].sdu < q[j + m].sdu
      BY <1>4, <2>1
    <2>3. i \in 1 .. Len(p) /\ j \in 1 .. Len(p)
      BY <1>2, <1>4
    <2>4. p[i].sdu = q[i + m].sdu /\ p[j].sdu = q[j + m].sdu
      BY <1>1, <2>3
    <2> QED
      BY <2>2, <2>4
  <1> QED
    BY <1>1, <1>2, <1>3, <1>4

\* read() and front() pop discarded SDUs.
LEMMA PopsSuffix ==
  ASSUME NEW q \in Seq(Entries)
  PROVE  Suffix(PopDiscarded(q), q)
  <1> DEFINE live == {i \in DOMAIN q : ~q[i].discarded}
             m == Min(live)
  <1>1. Len(q) \in Nat /\ DOMAIN q = 1 .. Len(q) /\ \A i \in 1 .. Len(q) : q[i] \in Entries
    OBVIOUS
  <1>2. CASE live = {}
    <2>1. PopDiscarded(q) = <<>>
      BY <1>2 DEF PopDiscarded
    <2>2. Suffix(<<>>, q)
      <3>1. <<>> \in Seq(Entries) /\ Len(<<>>) = 0
        OBVIOUS
      <3>2. Len(q) \in 0 .. Len(q) /\ Len(q) - Len(q) = 0
        BY <1>1
      <3> QED
        BY <3>1, <3>2 DEF Suffix
    <2> QED
      BY <2>1, <2>2
  <1>3. CASE live # {}
    <2>1. live \in SUBSET Nat
      BY <1>1
    <2>2. m \in live
      BY <1>3, <2>1, MinIn
    <2>3. m \in 1 .. Len(q)
      BY <1>1, <2>2
    <2>4. PopDiscarded(q) = SubSeq(q, m, Len(q))
      BY <1>3 DEF PopDiscarded
    <2> HIDE DEF m, live
    <2>5. \A i \in m .. Len(q) : q[i] \in Entries
      BY <1>1, <2>3
    <2> DEFINE p == SubSeq(q, m, Len(q))
    <2>6. /\ p \in Seq(Entries) /\ Len(p) = IF m <= Len(q) THEN Len(q) - m + 1 ELSE 0
          /\ \A i \in 1 .. (Len(q) - m + 1) : p[i] = q[m + i - 1]
      BY <1>1, <2>3, <2>5, SubSeqProperties
    <2> HIDE DEF p
    <2>7. m - 1 \in 0 .. Len(q) /\ Len(p) = Len(q) - (m - 1)
      BY <1>1, <2>3, <2>6
    <2>8. \A i \in 1 .. Len(p) : p[i] = q[i + (m - 1)]
      <3> TAKE i \in 1 .. Len(p)
      <3>1. m + i - 1 = i + (m - 1) /\ i \in 1 .. (Len(q) - m + 1)
        BY <1>1, <2>3, <2>7
      <3> QED
        BY <2>6, <3>1
    <2>9. Suffix(p, q)
      <3>1. \A i \in 1 .. Len(p) : p[i].sdu = q[i + (m - 1)].sdu
        BY <2>8
      <3> QED
        BY <2>6, <2>7, <3>1 DEF Suffix
    <2> QED
      BY <2>4, <2>9 DEF p
  <1> QED
    BY <1>2, <1>3

\* Nothing is stale in a retransmission queue whose SNs are in the window.
LEMMA NothingStale ==
  ASSUME NEW q \in Seq(Retx), NEW window, \A i \in DOMAIN q : q[i].sn \in DOMAIN window
  PROVE  DropStaleRetx(q, window) = q
  <1> DEFINE live == {i \in DOMAIN q : q[i].sn \in DOMAIN window}
  <1>1. live = DOMAIN q /\ DOMAIN q = 1 .. Len(q) /\ Len(q) \in Nat
    <2>1. live = DOMAIN q
      BY Zenon
    <2>2. DOMAIN q = 1 .. Len(q) /\ Len(q) \in Nat
      BY LenProperties
    <2> QED
      BY <2>1, <2>2
  <1> HIDE DEF live
  <1>2. CASE live = {}
    <2>1. q = <<>>
      BY <1>1, <1>2
    <2> QED
      BY <1>2, <2>1 DEF DropStaleRetx, live
  <1>3. CASE live # {}
    <2>1. live \in SUBSET Nat /\ 1 \in live
      BY <1>1, <1>3
    <2>2. Min(live) \in live /\ Min(live) <= 1
      BY <2>1, MinIn
    <2>3. Min(live) = 1
      BY <1>1, <2>2
    <2>4. DropStaleRetx(q, window) = SubSeq(q, Min(live), Len(q))
      BY <1>3 DEF DropStaleRetx, live
    <2>5. SubSeq(q, 1, Len(q)) = q
      BY SubSeqFull
    <2> QED
      BY <2>3, <2>4, <2>5
  <1> QED
    BY <1>2, <1>3

-----------------------------------------------------------------------------
(* Types.                                                                  *)

LEMMA RxTypeFrame ==
  ASSUME RxTypeOK, UNCHANGED rxVars
  PROVE  RxTypeOK'
  BY DEF RxTypeOK, rxVars, rxSt

LEMMA TxTypeFrame ==
  ASSUME TxTypeOK, UNCHANGED txVars
  PROVE  TxTypeOK'
  BY DEF TxTypeOK, txVars, txSt, pollSt, retxSt, upperSt

LEMMA ChannelTypeFrame ==
  ASSUME ChannelTypeOK, data' \subseteq data, stat' \subseteq stat
  PROVE  ChannelTypeOK'
  BY DEF ChannelTypeOK

\* The SDUs in queue and window.
LEMMA SduTypes ==
  ASSUME TypeOK
  PROVE  /\ sdu_queue \in Seq(Entries) /\ submitted \in 0 .. MaxSdus /\ MaxSdus \in Nat
         /\ \A i \in DOMAIN sdu_queue :
              /\ sdu_queue[i] \in Entries /\ sdu_queue[i].sdu \in Sdu
              /\ sdu_queue[i].sdu \in Nat
         /\ \A sn \in DOMAIN tx_window :
              /\ sn \in Sn /\ tx_window[sn].sdu \in Sdu /\ tx_window[sn].sdu \in Nat
              /\ tx_window[sn].next_so \in 0 .. SduLen
  <1>1. sdu_queue \in Seq(Entries) /\ submitted \in 0 .. MaxSdus
    BY DEF TypeOK, TxTypeOK, Entries
  <1>2. MaxSdus \in Nat
    BY RlcAmPduAssumption
  <1>3. \A s \in Sdu : s \in Nat
    BY <1>2 DEF Sdu
  <1>4. \A i \in DOMAIN sdu_queue : sdu_queue[i] \in Entries
    BY <1>1, LenProperties
  <1>5. \A x \in Entries : x.sdu \in Sdu
    BY DEF Entries
  <1>6. \A sn \in DOMAIN tx_window :
          sn \in Sn /\ tx_window[sn].sdu \in Sdu /\ tx_window[sn].next_so \in 0 .. SduLen
    BY DEF TypeOK, TxTypeOK
  <1> QED
    BY <1>1, <1>2, <1>3, <1>4, <1>5, <1>6

-----------------------------------------------------------------------------
(* Steps that change neither windows nor state variables.                  *)

\* SDUs leave the head of the queue, or are marked.
LEMMA QueueShrinks ==
  ASSUME TypeOK, SduInv, UpperInv, Suffix(sdu_queue', sdu_queue),
         UNCHANGED <<tx_window, txSt, submitted, upperSt, rx_next, rx_window, delivered>>
  PROVE  SduInv' /\ UpperInv'
  <1>1. sdu_queue \in Seq(Entries)
    BY DEF TypeOK, TxTypeOK, Entries
  <1>2. /\ \A i \in DOMAIN sdu_queue' : \E j \in DOMAIN sdu_queue : sdu_queue'[i].sdu = sdu_queue[j].sdu
        /\ \A i, j \in DOMAIN sdu_queue' : i < j => sdu_queue'[i].sdu < sdu_queue'[j].sdu
    BY <1>1, SuffixFacts DEF SduInv
  <1>3. \A sn \in DOMAIN tx_window : TxBase(sn)' = TxBase(sn)
    BY DEF TxBase, txSt
  <1>4. SduInv'
    BY <1>2, <1>3 DEF SduInv
  <1>5. \A sn \in DOMAIN tx_window : Complete(sn)' <=> Complete(sn)
    BY DEF TxBase, txSt, Complete, FullyReceived
  <1>6. UpperInv'
    BY <1>2, <1>5 DEF UpperInv, upperSt
  <1> QED
    BY <1>4, <1>6

LEMMA HandleSduKeeps ==
  ASSUME IInv, HandleSdu, UNCHANGED rxVars
  PROVE  IInv'
  <1> USE DEF IInv, TypeOK, HandleSdu
  <1>1. /\ UNCHANGED <<tx_window, txSt, pollSt, retxSt, sn_under_segmentation, upperSt, channels>>
        /\ UNCHANGED <<data, stat>>
    BY DEF channels
  <1>2. submitted' = submitted + 1 /\ submitted \in 0 .. MaxSdus /\ submitted' \in Sdu
        /\ MaxSdus \in Nat /\ sdu_queue \in Seq(Entries)
    BY RlcAmPduAssumption DEF TxTypeOK, Sdu, Entries
  <1> DEFINE entry == [sdu |-> submitted', discarded |-> FALSE]
  <1>3. CASE UNCHANGED sdu_queue
    <2>1. TxTypeOK'
      BY <1>1, <1>2, <1>3 DEF TxTypeOK, txSt, pollSt, retxSt, upperSt
    <2>2. SduInv' /\ UpperInv'
      <3>1. SduInv'
        BY <1>1, <1>2, <1>3, SduTypes DEF SduInv, TxBase, txSt
      <3>2. UpperInv'
        BY <1>1, <1>2, <1>3 DEF UpperInv, Complete, FullyReceived, TxBase, txSt, rxVars, rxSt, upperSt,
           TxTypeOK, Sdu
      <3> QED
        BY <3>1, <3>2
    <2> QED
      BY <1>1, <2>1, <2>2, RxTypeFrame, ChannelTypeFrame, TxFrame, RetxFrame, RxFrame, DataFrame,
         StatFrame, CachedFrame DEF rxVars, rxSt, retxSt
  <1>4. CASE sdu_queue' = Append(sdu_queue, entry) /\ pending_buffer_state' \in BOOLEAN
    <2>1. entry \in Entries
      BY <1>2 DEF Entries
    <2>2. /\ sdu_queue' \in Seq(Entries) /\ Len(sdu_queue') = Len(sdu_queue) + 1
          /\ \A i \in 1 .. Len(sdu_queue) : sdu_queue'[i] = sdu_queue[i]
          /\ sdu_queue'[Len(sdu_queue) + 1] = entry
      BY <1>2, <1>4, <2>1, AppendProperties
    <2>3. DOMAIN sdu_queue' = 1 .. (Len(sdu_queue) + 1) /\ DOMAIN sdu_queue = 1 .. Len(sdu_queue)
          /\ Len(sdu_queue) \in Nat
      BY <1>2, <2>2
    <2>4. \A i \in DOMAIN sdu_queue' :
             \/ i \in DOMAIN sdu_queue /\ sdu_queue'[i] = sdu_queue[i]
             \/ i = Len(sdu_queue) + 1 /\ sdu_queue'[i].sdu = submitted + 1
      BY <1>2, <2>2, <2>3
    <2>5. TxTypeOK'
      BY <1>1, <1>2, <1>4, <2>2 DEF TxTypeOK, txSt, pollSt, retxSt, upperSt, Entries
    <2>6. SduInv'
      <3>1. \A i \in DOMAIN sdu_queue' : sdu_queue'[i].sdu <= submitted'
        BY <1>2, <2>4, SduTypes DEF SduInv
      <3>2. \A i, j \in DOMAIN sdu_queue' : i < j => sdu_queue'[i].sdu < sdu_queue'[j].sdu
        <4> SUFFICES ASSUME NEW i \in DOMAIN sdu_queue', NEW j \in DOMAIN sdu_queue', i < j
                     PROVE  sdu_queue'[i].sdu < sdu_queue'[j].sdu
          OBVIOUS
        <4>1. i \in DOMAIN sdu_queue /\ sdu_queue'[i] = sdu_queue[i]
          BY <2>2, <2>3
        <4>2. sdu_queue[i].sdu <= submitted /\ sdu_queue[i].sdu \in Nat
          BY <4>1, SduTypes DEF SduInv
        <4>3. CASE j \in DOMAIN sdu_queue /\ sdu_queue'[j] = sdu_queue[j]
          BY <4>1, <4>3 DEF SduInv
        <4>4. CASE sdu_queue'[j].sdu = submitted + 1
          BY <1>2, <4>1, <4>2, <4>4
        <4> QED
          BY <2>4, <4>3, <4>4
      <3>3. \A sn \in DOMAIN tx_window :
              /\ tx_window[sn].sdu <= submitted' /\ tx_window[sn].sdu <= submitted
              /\ \A i \in DOMAIN sdu_queue' : tx_window[sn].sdu < sdu_queue'[i].sdu
        <4> TAKE sn \in DOMAIN tx_window
        <4>1. tx_window[sn].sdu <= submitted /\ tx_window[sn].sdu \in Nat
          BY DEF SduInv, TxTypeOK, Sdu
        <4>2. \A i \in DOMAIN sdu_queue' : tx_window[sn].sdu < sdu_queue'[i].sdu
          BY <1>2, <2>4, <4>1 DEF SduInv
        <4> QED
          BY <1>2, <4>1, <4>2
      <3>4. \A sn \in Sn : TxBase(sn)' = TxBase(sn)
        BY <1>1 DEF TxBase, txSt
      <3>5. DOMAIN tx_window \subseteq Sn
        BY DEF TxTypeOK
      <3> QED
        BY <1>1, <3>1, <3>2, <3>3, <3>4, <3>5 DEF SduInv
    <2>7. UpperInv'
      <3>1. delivered' = delivered /\ delivered[submitted + 1] = 0
        BY <1>2 DEF UpperInv, rxVars, rxSt, Sdu
      <3>2. \A i \in DOMAIN sdu_queue' : delivered'[sdu_queue'[i].sdu] = 0
        BY <2>4, <3>1 DEF UpperInv
      <3>3. \A sn \in DOMAIN tx_window : Complete(sn)' <=> Complete(sn)
        BY <1>1 DEF TxBase, txSt, Complete, FullyReceived, rxVars, rxSt
      <3>4. \A s \in Sdu : delivered'[s] \in {0, 1} /\ (s > submitted' => delivered'[s] = 0)
        BY <1>2, <3>1 DEF UpperInv, Sdu
      <3>5. \A s \in confirmed' : s <= submitted' /\ delivered'[s] = 1
        BY <1>1, <1>2, <3>1 DEF UpperInv, upperSt, TxTypeOK, Sdu
      <3> QED
        BY <1>1, <3>1, <3>2, <3>3, <3>4, <3>5 DEF UpperInv, upperSt
    <2> QED
      BY <1>1, <2>5, <2>6, <2>7, RxTypeFrame, ChannelTypeFrame, TxFrame, RetxFrame, RxFrame, DataFrame,
         StatFrame, CachedFrame DEF rxVars, rxSt, retxSt
  <1> QED
    BY <1>3, <1>4

LEMMA DiscardSduKeeps ==
  ASSUME IInv, DiscardSdu, UNCHANGED rxVars
  PROVE  IInv'
  <1> USE DEF IInv, TypeOK
  <1>1. UNCHANGED <<submitted, tx_window, txSt, pollSt, retxSt, sn_under_segmentation, upperSt, data, stat>>
        /\ pending_buffer_state' = TRUE
    BY DEF DiscardSdu, channels
  <1>2. PICK i \in DOMAIN sdu_queue : sdu_queue' = [sdu_queue EXCEPT ![i].discarded = TRUE]
    BY DEF DiscardSdu
  <1>3. /\ sdu_queue' \in Seq(Entries) /\ Len(sdu_queue') = Len(sdu_queue) /\ Len(sdu_queue) \in Nat
        /\ \A j \in 1 .. Len(sdu_queue) : sdu_queue'[j].sdu = sdu_queue[j].sdu
    <2>1. sdu_queue \in Seq(Entries) /\ \A j \in DOMAIN sdu_queue : sdu_queue[j] \in Entries
      BY SduTypes
    <2>2. [sdu_queue[i] EXCEPT !.discarded = TRUE] \in Entries
      BY <2>1 DEF Entries
    <2> QED
      BY <1>2, <2>1, <2>2 DEF Entries
  <1>4. Suffix(sdu_queue', sdu_queue)
    <2>1. 0 \in 0 .. Len(sdu_queue) /\ Len(sdu_queue') = Len(sdu_queue) - 0
      BY <1>3
    <2>2. \A j \in 1 .. Len(sdu_queue') : sdu_queue'[j].sdu = sdu_queue[j + 0].sdu
      BY <1>3
    <2> QED
      BY <1>3, <2>1, <2>2 DEF Suffix
  <1>5. TxTypeOK'
    BY <1>1, <1>3 DEF TxTypeOK, txSt, pollSt, retxSt, upperSt, Entries
  <1>6. SduInv' /\ UpperInv'
    BY <1>1, <1>4, QueueShrinks DEF rxVars, rxSt
  <1> QED
    BY <1>1, <1>5, <1>6, RxTypeFrame, ChannelTypeFrame, TxFrame, RetxFrame, RxFrame, DataFrame,
       StatFrame, CachedFrame DEF rxVars, rxSt, retxSt

LEMMA PullDiscardedKeeps ==
  ASSUME IInv, NEW grant, PullDiscarded(grant), UNCHANGED rxVars
  PROVE  IInv'
  <1> USE DEF IInv, TypeOK
  <1>1. /\ UNCHANGED <<submitted, tx_window, txSt, pollSt, retxSt, pending_buffer_state, upperSt, data, stat>>
        /\ sdu_queue' = PopDiscarded(sdu_queue) /\ sn_under_segmentation' = NoSn
        /\ sn_under_segmentation \notin DOMAIN tx_window
    BY DEF PullDiscarded, WantsNewSdu, channels
  <1>2. UNCHANGED sn_under_segmentation
    BY <1>1, SentCount
  <1>3. Suffix(sdu_queue', sdu_queue)
    BY <1>1, SduTypes, PopsSuffix
  <1>4. TxTypeOK'
    BY <1>1, <1>2, <1>3 DEF TxTypeOK, txSt, pollSt, retxSt, upperSt, Entries, Suffix
  <1>5. SduInv' /\ UpperInv'
    BY <1>1, <1>3, QueueShrinks DEF rxVars, rxSt
  <1> QED
    BY <1>1, <1>2, <1>4, <1>5, RxTypeFrame, ChannelTypeFrame, TxFrame, RetxFrame, RxFrame, DataFrame,
       StatFrame, CachedFrame DEF rxVars, rxSt, retxSt

\* update_mac_buffer_state pops discarded SDUs or nothing.
LEMMA NotifyPops ==
  ASSUME TypeOK, NotifyBufferState
  PROVE  Suffix(sdu_queue', sdu_queue) /\ pending_buffer_state' = FALSE
  <1>1. sdu_queue \in Seq(Entries) /\ Len(sdu_queue) \in Nat
    BY SduTypes
  <1>2. Suffix(sdu_queue, sdu_queue)
    <2>1. 0 \in 0 .. Len(sdu_queue) /\ Len(sdu_queue) = Len(sdu_queue) - 0
      BY <1>1
    <2>2. \A j \in 1 .. Len(sdu_queue) : sdu_queue[j].sdu = sdu_queue[j + 0].sdu
      BY <1>1
    <2> QED
      BY <1>1, <2>1, <2>2 DEF Suffix
  <1> QED
    BY <1>1, <1>2, PopsSuffix DEF NotifyBufferState

\* The retransmission queue holds nothing stale.
LEMMA RetxFresh ==
  ASSUME TypeOK, RetxInv
  PROVE  retx_queue \in Seq(Retx) /\ DropStaleRetx(retx_queue, tx_window) = retx_queue
  <1>1. retx_queue \in Seq(Retx)
    BY DEF TypeOK, TxTypeOK
  <1>2. \A i \in DOMAIN retx_queue : retx_queue[i].sn \in DOMAIN tx_window
    BY DEF RetxInv, RetxOnlyWhatWasSent
  <1> QED
    BY <1>1, <1>2, NothingStale

LEMMA UpdateMacBufferStateKeeps ==
  ASSUME IInv, UpdateMacBufferState, UNCHANGED rxVars
  PROVE  IInv'
  <1> USE DEF IInv, TypeOK
  <1>1. /\ UNCHANGED <<submitted, tx_window, txSt, pollSt, retx_sn, max_retx_reached,
                       sn_under_segmentation, upperSt, data, stat>>
        /\ retx_queue' = retx_queue
    BY RetxFresh DEF UpdateMacBufferState, channels
  <1>2. Suffix(sdu_queue', sdu_queue) /\ pending_buffer_state' = FALSE
    BY NotifyPops DEF UpdateMacBufferState
  <1>3. TxTypeOK'
    BY <1>1, <1>2 DEF TxTypeOK, txSt, pollSt, retxSt, upperSt, Entries, Suffix
  <1>4. SduInv' /\ UpperInv'
    BY <1>1, <1>2, QueueShrinks DEF rxVars, rxSt
  <1> QED
    BY <1>1, <1>3, <1>4, RxTypeFrame, ChannelTypeFrame, TxFrame, RetxFrame, RxFrame, DataFrame,
       StatFrame, CachedFrame DEF rxVars, rxSt, retxSt

LEMMA RetxGrantTooSmallKeeps ==
  ASSUME IInv, NEW grant, RetxGrantTooSmall(grant), UNCHANGED rxVars
  PROVE  IInv'
  <1> USE DEF IInv, TypeOK
  <1>1. /\ UNCHANGED <<submitted, sdu_queue, tx_window, txSt, pollSt, max_retx_reached,
                       sn_under_segmentation, pending_buffer_state, upperSt, data, stat>>
        /\ retx_queue' = retx_queue /\ retx_queue # <<>> /\ retx_sn' = Head(retx_queue).sn
    BY RetxFresh DEF RetxGrantTooSmall, channels
  <1>2. Head(retx_queue) \in Retx
    BY <1>1, RetxFresh, HeadTailProperties
  <1>3. retx_sn' \in Sn
    BY <1>1, <1>2 DEF Retx
  <1>4. TxTypeOK'
    BY <1>1, <1>3 DEF TxTypeOK, txSt, pollSt, retxSt, upperSt
  <1> QED
    BY <1>1, <1>4, RxTypeFrame, ChannelTypeFrame, TxFrame, SduFrame, UpperFrame, RetxFrame, RxFrame,
       DataFrame, StatFrame, CachedFrame DEF rxVars, rxSt, retxSt

LEMMA LowerLayerKeeps ==
  ASSUME IInv, LowerLayerStep
  PROVE  IInv'
  <1> USE DEF IInv, TypeOK
  <1>1. data' \subseteq data /\ stat' \subseteq stat /\ UNCHANGED <<txVars, rxVars>>
    BY DEF LowerLayerStep, LoseData, LoseStatus
  <1>2. UNCHANGED <<submitted, sdu_queue, tx_window, txSt, retx_queue, sn_under_segmentation, upperSt>>
    BY <1>1 DEF txVars, retxSt
  <1>3. UNCHANGED <<rxSt, rx_next, rx_next_highest, rx_highest_status, rx_window, reassembly_timer,
                    delivered, status_report>>
    BY <1>1 DEF rxVars, rxSt
  <1> QED
    BY <1>1, <1>2, <1>3, RxTypeFrame, TxTypeFrame, ChannelTypeFrame, TxFrame, SduFrame, UpperFrame,
       RetxFrame, RxFrame, DataFrame, StatFrame, CachedFrame

-----------------------------------------------------------------------------
(* Reports that are ignored, and the receiver's own steps.                 *)

\* A report never acknowledges or misses what was not sent.
LEMMA ReportIsHonest ==
  ASSUME IInv, NEW status \in stat, ValidAckSn(status.ack_sn)
  PROVE  /\ ~AckBeyondSent(status.ack_sn)
         /\ TxBase(status.ack_sn) <= TxBase(rx_next) + RxBase(rx_next_highest)
         /\ \A n \in status.nacks : NackBelowAck(status.ack_sn, n) => ~NackBeyondSent(n)
  <1> USE DEF IInv
  <1>1. SnTypes /\ status.ack_sn \in Sn /\ \A n \in status.nacks : n.sn \in Sn
    BY Sns DEF TypeOK, ChannelTypeOK, Nack
  <1>2. TxBase(status.ack_sn) \in 1 .. AmWindowSize
    BY DEF ValidAckSn
  <1>3. TxBase(status.ack_sn) <= TxBase(rx_next) + RxBase(rx_next_highest)
    BY <1>2, Half DEF StatInv, ReportInv
  <1>4. TxBase(rx_next) \in Int /\ RxBase(rx_next_highest) \in Int
    BY <1>1, BaseType, Half DEF SnTypes, TxBase, RxBase
  <1>5. TxBase(status.ack_sn) <= Sent /\ Sent <= TxBase(tx_next) + 1 /\ TxBase(tx_next) \in 0 .. AmWindowSize
    BY <1>2, <1>3, <1>4, SentCount DEF RxInv
  <1>6. TxBase(tx_next + 1) = TxBase(tx_next) + 1
    <2>1. TxBase(tx_next + 1) = ModBase(SnAdd(tx_next, 1), tx_next_ack)
      BY <1>1, NextBase DEF SnTypes, TxBase
    <2>2. 1 \in 0 .. SnModulus /\ TxBase(tx_next) + 1 < SnModulus
      BY <1>5, Half
    <2>3. ModBase(SnAdd(tx_next, 1), tx_next_ack) =
            IF ModBase(tx_next, tx_next_ack) + 1 < SnModulus THEN ModBase(tx_next, tx_next_ack) + 1
            ELSE ModBase(tx_next, tx_next_ack) + 1 - SnModulus
      BY <1>1, <2>2, AddBase DEF SnTypes
    <2> QED
      BY <2>1, <2>2, <2>3 DEF TxBase
  <1>7. ~AckBeyondSent(status.ack_sn)
    BY <1>2, <1>5, <1>6, SentCount DEF AckBeyondSent
  <1>8. ASSUME NEW n \in status.nacks, NackBelowAck(status.ack_sn, n)
        PROVE  ~NackBeyondSent(n)
    <2>1. TxBase(n.sn) \in Int
      BY <1>1, BaseType, Half DEF SnTypes, TxBase
    <2> QED
      BY <1>2, <1>5, <1>8, <2>1, SentCount DEF NackBelowAck, NackBeyondSent
  <1> QED
    BY <1>3, <1>7, <1>8

LEMMA IgnoreStatusPduKeeps ==
  ASSUME IInv, IgnoreStatusPdu, UNCHANGED rxVars
  PROVE  IInv'
  <1> USE DEF IInv, TypeOK
  <1>1. PICK status \in stat :
          /\ stat' \in Take(stat, status) \ {stat}
          /\ upper_cn' = upper_cn \cup
               (IF ValidAckSn(status.ack_sn)
                   /\ (AckBeyondSent(status.ack_sn) \/ \E n \in status.nacks :
                          NackBelowAck(status.ack_sn, n) /\ NackBeyondSent(n))
                THEN {"protocol_failure"} ELSE {})
    BY DEF IgnoreStatusPdu
  <1>2. stat' \subseteq stat
    BY <1>1 DEF Take
  <1>3. upper_cn' = upper_cn
    <2>1. ~ (ValidAckSn(status.ack_sn)
             /\ (AckBeyondSent(status.ack_sn) \/ \E n \in status.nacks :
                    NackBelowAck(status.ack_sn, n) /\ NackBeyondSent(n)))
      BY ReportIsHonest
    <2> QED
      BY <1>1, <2>1
  <1>4. /\ UNCHANGED <<submitted, sdu_queue, tx_window, txSt, pollSt, retxSt,
                       sn_under_segmentation, pending_buffer_state, upperSt, data>>
        /\ UNCHANGED <<retx_queue, txVars>>
    BY <1>3 DEF IgnoreStatusPdu, upperSt, retxSt, txVars
  <1>5. UNCHANGED <<rxSt, rx_next, rx_next_highest, rx_highest_status, rx_window, reassembly_timer,
                    delivered, status_report>>
    BY DEF rxVars, rxSt
  <1> QED
    BY <1>2, <1>4, <1>5, RxTypeFrame, TxTypeFrame, ChannelTypeFrame, TxFrame, SduFrame, UpperFrame,
       RetxFrame, RxFrame, DataFrame, StatFrame, CachedFrame

LEMMA ExpireStatusProhibitTimerKeeps ==
  ASSUME IInv, ExpireStatusProhibitTimer, UNCHANGED txVars
  PROVE  IInv'
  <1> USE DEF IInv, TypeOK
  <1>1. UNCHANGED <<submitted, sdu_queue, tx_window, txSt, retx_queue, sn_under_segmentation, upperSt>>
    BY DEF txVars, retxSt
  <1>2. UNCHANGED <<rxSt, rx_next, rx_next_highest, rx_highest_status, rx_window, reassembly_timer,
                    delivered, status_report, data, stat>>
    BY DEF ExpireStatusProhibitTimer, rxSt, channels
  <1>3. RxTypeOK'
    BY DEF RxTypeOK, ExpireStatusProhibitTimer, rxSt
  <1> QED
    BY <1>1, <1>2, <1>3, TxTypeFrame, ChannelTypeFrame, TxFrame, SduFrame, UpperFrame,
       RetxFrame, RxFrame, DataFrame, StatFrame, CachedFrame

-----------------------------------------------------------------------------
(* The initial state.                                                      *)

\* The smaller of two numbers.
LEMMA MinPair ==
  ASSUME NEW a \in Nat, NEW b \in Nat
  PROVE  Min({a, b}) = IF a <= b THEN a ELSE b
  <1>1. {a, b} \in SUBSET Nat /\ {a, b} # {}
    OBVIOUS
  <1>2. Min({a, b}) \in {a, b} /\ \A y \in {a, b} : Min({a, b}) <= y
    BY <1>1, MinIn
  <1> QED
    BY <1>2

\* The number of SNs that a report covers.
LEMMA ReportStop ==
  ASSUME NEW next \in Sn, NEW highest \in Sn
  PROVE  LET stop == Min({ModBase(highest, next), MaxSnPerStatus})
         IN  /\ stop \in 0 .. ModBase(highest, next) /\ stop \in 0 .. SnModulus - 1
             /\ stop = 0 => highest = next
  <1> DEFINE b == ModBase(highest, next)
  <1>1. b \in 0 .. SnModulus - 1 /\ MaxSnPerStatus \in Nat /\ MaxSnPerStatus >= 1
    BY BaseType, RlcAmRxAssumption, Half
  <1>2. b = 0 => highest = next
    BY BaseType, BaseInjective
  <1> HIDE DEF b
  <1>3. b \in Nat
    BY <1>1, Half
  <1>4. Min({b, MaxSnPerStatus}) = IF b <= MaxSnPerStatus THEN b ELSE MaxSnPerStatus
    BY <1>1, <1>3, MinPair
  <1>5. /\ Min({b, MaxSnPerStatus}) \in 0 .. b /\ Min({b, MaxSnPerStatus}) \in 0 .. SnModulus - 1
        /\ Min({b, MaxSnPerStatus}) = 0 => highest = next
    BY <1>1, <1>2, <1>3, <1>4, Half
  <1> QED
    BY <1>5 DEF b

LEMMA InitHolds ==
  ASSUME Init
  PROVE  IInv
  <1> USE DEF Init, InitChannels, TxInit, RxInit
  <1>1. 0 \in Sn /\ DOMAIN tx_window = {} /\ DOMAIN rx_window = {} /\ DOMAIN sdu_queue = {}
        /\ DOMAIN retx_queue = {}
    BY Half DEF Sn
  <1>2. ModBase(0, 0) = 0
    BY <1>1, BaseType
  <1>3. TypeOK
    <2>1. ChannelTypeOK
      BY DEF ChannelTypeOK
    <2>2. TxTypeOK
      <3>1. <<>> \in Seq(Entries) /\ <<>> \in Seq(Retx)
        OBVIOUS
      <3>2. 0 \in 0 .. MaxSdus
        BY RlcAmPduAssumption
      <3> QED
        BY <1>1, <3>1, <3>2 DEF TxTypeOK, Entries
    <2>3. RxTypeOK
      BY <1>1, RlcAmPduAssumption DEF RxTypeOK
    <2> QED
      BY <2>1, <2>2, <2>3 DEF TypeOK
  <1>4. TxBase(tx_next) = 0 /\ Sent = 0 /\ TxBase(rx_next) = 0 /\ RxBase(rx_next_highest) = 0
    BY <1>2 DEF TxBase, Sent, RxBase
  <1>5. TxInv
    <2>1. \A sn \in Sn : ~(TxBase(sn) < 0)
      BY <1>1, BaseType, Half DEF TxBase
    <2> QED
      BY <1>1, <1>4, <2>1, Half DEF TxInv
  <1>6. SduInv /\ RetxInv /\ DataInv /\ StatInv
    BY <1>1 DEF SduInv, RetxInv, RetxOnlyWhatWasSent, DataInv, StatInv
  <1>7. UpperInv
    BY <1>1, RlcAmPduAssumption DEF UpperInv, Sdu
  <1>8. RxInv
    BY <1>1, <1>2, <1>4, Half DEF RxInv, RxStateOrder, FullyReceived
  <1>9. CachedInv
    <2> DEFINE stop == Min({ModBase(0, 0), MaxSnPerStatus})
    <2>1. stop = 0
      BY <1>1, <1>2, ReportStop
    <2>2. SnAdd(0, 0) = 0
      BY <1>1, SnAddIs, Half DEF Sn
    <2>3. RefreshedReport(0, 0, rx_window) =
            [ack_sn |-> SnAdd(0, stop),
             nacks  |-> UNION {NacksOf(SnAdd(0, d), rx_window) :
                           d \in {d \in 0 .. stop - 1 : ~FullyReceived(rx_window, SnAdd(0, d))}}]
      BY DEF RefreshedReport
    <2> HIDE DEF stop
    <2>4. {d \in 0 .. stop - 1 : ~FullyReceived(rx_window, SnAdd(0, d))} = {}
      BY <2>1
    <2>5. RefreshedReport(0, 0, rx_window) = [ack_sn |-> 0, nacks |-> {}]
      BY <2>1, <2>2, <2>3, <2>4
    <2> QED
      BY <2>5 DEF CachedInv
  <1> QED
    BY <1>3, <1>5, <1>6, <1>7, <1>8, <1>9 DEF IInv

-----------------------------------------------------------------------------
(* Status reports of the receiver.                                         *)

\* Where an SN lies, seen from the transmitter and from the receiver.
LEMMA Positions ==
  ASSUME TypeOK, TxInv, RxInv
  PROVE  /\ TxBase(rx_next) \in 0 .. AmWindowSize /\ RxBase(rx_next_highest) \in 0 .. AmWindowSize
         /\ Sent \in 0 .. AmWindowSize /\ TxBase(rx_next) + RxBase(rx_next_highest) <= Sent
         /\ \A sn \in Sn :
              /\ TxBase(sn) \in 0 .. SnModulus - 1 /\ RxBase(sn) \in 0 .. SnModulus - 1
              /\ RxBase(sn) = IF TxBase(sn) >= TxBase(rx_next) THEN TxBase(sn) - TxBase(rx_next)
                              ELSE TxBase(sn) - TxBase(rx_next) + SnModulus
              /\ sn \in DOMAIN tx_window <=> TxBase(sn) < Sent
  <1>1. SnTypes
    BY Sns
  <1>2. \A sn \in Sn :
              /\ TxBase(sn) \in 0 .. SnModulus - 1 /\ RxBase(sn) \in 0 .. SnModulus - 1
              /\ RxBase(sn) = IF TxBase(sn) >= TxBase(rx_next) THEN TxBase(sn) - TxBase(rx_next)
                              ELSE TxBase(sn) - TxBase(rx_next) + SnModulus
    BY <1>1, BaseType, Rebase DEF SnTypes, TxBase, RxBase
  <1>3. Sent \in 0 .. AmWindowSize
    BY SentCount
  <1>4. RxBase(rx_next_highest) <= AmWindowSize
        /\ TxBase(rx_next) + RxBase(rx_next_highest) <= Sent
    BY DEF RxInv, RxStateOrder, RxBase
  <1>5. TxBase(rx_next) \in 0 .. SnModulus - 1 /\ RxBase(rx_next_highest) \in 0 .. SnModulus - 1
    BY <1>1, <1>2 DEF SnTypes
  <1>6. TxBase(rx_next) \in 0 .. AmWindowSize /\ RxBase(rx_next_highest) \in 0 .. AmWindowSize
    BY <1>3, <1>4, <1>5, Half
  <1> QED
    BY <1>2, <1>3, <1>4, <1>6 DEF TxInv

WindowOK(window) ==
  DOMAIN window \subseteq Sn /\ \A sn \in DOMAIN window : DOMAIN window[sn] \subseteq Bytes

\* What a NACK says.
LEMMA NackSays ==
  ASSUME NEW window, WindowOK(window), NEW sn \in Sn, NEW n \in NacksOf(sn, window)
  PROVE  /\ n \in Nack /\ n.sn = sn /\ NackInv(n)
         /\ ~n.has_so => sn \notin DOMAIN window
         /\ n.has_so => sn \in DOMAIN window
         /\ n.has_so /\ n.so_end # EndOfSdu => n.so_end \in Bytes /\ n.so_end + 1 \in DOMAIN window[sn]
  <1>1. SduLen \in Nat \ {0}
    BY RlcAmPduAssumption
  <1>2. CASE sn \notin DOMAIN window
    <2>1. n = [sn |-> sn, has_so |-> FALSE, so_start |-> 0, so_end |-> EndOfSdu]
      BY <1>2 DEF NacksOf
    <2> QED
      BY <1>1, <1>2, <2>1 DEF Nack, NackInv
  <1>3. CASE sn \in DOMAIN window
    <2> DEFINE missing == Bytes \ DOMAIN window[sn]
    <2>1. PICK g \in missing \X missing :
             /\ g[1] <= g[2] /\ g[2] + 1 \notin missing
             /\ n = [sn |-> sn, has_so |-> TRUE, so_start |-> g[1],
                     so_end |-> IF g[2] = SduLen - 1 THEN EndOfSdu ELSE g[2]]
      BY <1>3 DEF NacksOf
    <2>2. g[1] \in Bytes /\ g[2] \in Bytes
      BY <2>1
    <2>3. g[2] # SduLen - 1 => g[2] + 1 \in Bytes
      BY <1>1, <2>2 DEF Bytes
    <2>4. g[2] # SduLen - 1 => g[2] + 1 \in DOMAIN window[sn]
      BY <2>1, <2>3
    <2>5. n.so_start = g[1] /\ n.has_so = TRUE /\ n.sn = sn
          /\ n.so_end = IF g[2] = SduLen - 1 THEN EndOfSdu ELSE g[2]
      BY <2>1
    <2>6. g[1] \in 0 .. SduLen /\ g[2] \in 0 .. SduLen
      BY <1>1, <2>2 DEF Bytes
    <2>7. n \in Nack
      BY <2>1, <2>6 DEF Nack
    <2>8. NackInv(n)
      BY <1>1, <2>1, <2>2, <2>5 DEF NackInv, Bytes
    <2> QED
      BY <1>3, <2>2, <2>4, <2>5, <2>7, <2>8
  <1> QED
    BY <1>2, <1>3

\* An SN of which something is missing is named.
LEMMA MissingIsNamed ==
  ASSUME NEW window, WindowOK(window), NEW sn \in Sn, ~FullyReceived(window, sn)
  PROVE  \E n \in NacksOf(sn, window) : n.sn = sn
  <1>1. CASE sn \notin DOMAIN window
    BY <1>1 DEF NacksOf
  <1>2. CASE sn \in DOMAIN window
    <2> DEFINE missing == Bytes \ DOMAIN window[sn]
               first == Min(missing)
               ends == {e \in Nat : e >= first /\ e + 1 \notin missing}
               last == Min(ends)
    <2>1. SduLen \in Nat \ {0} /\ DOMAIN window[sn] \subseteq Bytes
      BY <1>2, RlcAmPduAssumption DEF WindowOK
    <2>2. missing # {} /\ missing \in SUBSET Nat
      <3>1. DOMAIN window[sn] # Bytes
        BY <1>2 DEF FullyReceived
      <3>2. \A x \in Bytes : x \in Nat
        BY DEF Bytes
      <3> QED
        BY <2>1, <3>1, <3>2
    <2>3. first \in missing /\ \A y \in missing : first <= y
      BY <2>2, MinIn
    <2>4. first \in 0 .. SduLen - 1
      BY <2>3 DEF Bytes
    <2>5. \A x \in missing : x \in 0 .. SduLen - 1
      BY DEF Bytes
    <2> HIDE DEF missing, first
    <2>6. SduLen - 1 \in ends /\ ends \in SUBSET Nat
      <3>1. SduLen - 1 \in Nat /\ SduLen - 1 >= first
        BY <2>1, <2>4
      <3>2. (SduLen - 1) + 1 \notin missing
        BY <2>1, <2>5
      <3> QED
        BY <3>1, <3>2
    <2>7. last \in ends /\ \A y \in ends : last <= y
      BY <2>6, MinIn
    <2>8. last \in Nat /\ first <= last /\ last + 1 \notin missing
      BY <2>7
    <2>9. \A y \in Nat : y >= first /\ y + 1 \notin missing => last <= y
      BY <2>7
    <2> HIDE DEF ends, last
    <2>10. \A x \in first .. last : x \in missing
      <3> SUFFICES ASSUME NEW x \in first .. last, x \notin missing PROVE FALSE
        OBVIOUS
      <3>1. x \in Int /\ first <= x /\ x <= last /\ x # first
        BY <2>3, <2>4, <2>8
      <3>2. x - 1 \in Nat /\ x - 1 >= first /\ (x - 1) + 1 = x
        BY <2>4, <3>1
      <3>3. last <= x - 1
        BY <2>9, <3>2
      <3> QED
        BY <2>8, <3>1, <3>3
    <2>11. last \in missing
      BY <2>4, <2>8, <2>10
    <2>12. first - 1 \notin missing
      BY <2>3, <2>4
    <2> DEFINE g == <<first, last>>
    <2>13. g \in missing \X missing /\ g[1] = first /\ g[2] = last
      BY <2>3, <2>11
    <2>14. g[1] <= g[2] /\ g[1] .. g[2] \subseteq missing /\ g[1] - 1 \notin missing /\ g[2] + 1 \notin missing
      BY <2>8, <2>10, <2>12, <2>13
    <2> HIDE DEF g
    <2>15. [sn |-> sn, has_so |-> TRUE, so_start |-> g[1],
            so_end |-> IF g[2] = SduLen - 1 THEN EndOfSdu ELSE g[2]] \in NacksOf(sn, window)
      BY <1>2, <2>13, <2>14 DEF NacksOf, missing
    <2> QED
      BY <2>15
  <1> QED
    BY <1>1, <1>2

\* A report that covers the SNs from next on, up to highest at most, names those that are
\* not complete in the window.
Covers(report, next, highest, window) ==
  /\ report.ack_sn \in Sn /\ report.nacks \subseteq Nack
  /\ ModBase(report.ack_sn, next) <= ModBase(highest, next)
  /\ \A n \in report.nacks :
       ModBase(n.sn, next) < ModBase(report.ack_sn, next) /\ n \in NacksOf(n.sn, window)
  /\ \A sn \in Sn :
       ModBase(sn, next) < ModBase(report.ack_sn, next) /\ (\A n \in report.nacks : n.sn # sn)
         => FullyReceived(window, sn)

LEMMA RefreshCovers ==
  ASSUME NEW next \in Sn, NEW highest \in Sn, NEW window, WindowOK(window)
  PROVE  Covers(RefreshedReport(next, highest, window), next, highest, window)
  <1> DEFINE stop == Min({ModBase(highest, next), MaxSnPerStatus})
             open == {d \in 0 .. stop - 1 : ~FullyReceived(window, SnAdd(next, d))}
             report == RefreshedReport(next, highest, window)
  <1>1. stop \in 0 .. ModBase(highest, next) /\ stop \in 0 .. SnModulus - 1
    BY ReportStop
  <1>2. /\ report.ack_sn = SnAdd(next, stop)
        /\ report.nacks = UNION {NacksOf(SnAdd(next, d), window) : d \in open}
    BY DEF RefreshedReport
  <1> HIDE DEF stop, report
  <1>3. \A d \in 0 .. stop : SnAdd(next, d) \in Sn /\ ModBase(SnAdd(next, d), next) = d
    <2> TAKE d \in 0 .. stop
    <2>1. d \in 0 .. SnModulus /\ d < SnModulus
      BY <1>1, Half
    <2> QED
      BY <2>1, AddType, AddBase, BaseType
  <1>4. report.ack_sn \in Sn /\ ModBase(report.ack_sn, next) = stop
    BY <1>1, <1>2, <1>3
  <1>5. stop <= ModBase(highest, next) /\ stop \in Nat
    BY <1>1
  <1>6. ASSUME NEW n \in report.nacks
        PROVE  n \in Nack /\ ModBase(n.sn, next) < stop /\ n \in NacksOf(n.sn, window)
    <2>1. PICK d \in open : n \in NacksOf(SnAdd(next, d), window)
      BY <1>2
    <2>2. d \in 0 .. stop /\ d < stop
      BY <1>5
    <2>3. SnAdd(next, d) \in Sn /\ ModBase(SnAdd(next, d), next) = d
      BY <1>3, <2>2
    <2>4. n \in Nack /\ n.sn = SnAdd(next, d)
      BY <2>1, <2>3, NackSays
    <2> QED
      BY <2>1, <2>2, <2>3, <2>4
  <1>7. ASSUME NEW sn \in Sn, ModBase(sn, next) < stop, \A n \in report.nacks : n.sn # sn
        PROVE  FullyReceived(window, sn)
    <2> DEFINE d == ModBase(sn, next)
    <2>1. d \in 0 .. SnModulus - 1
      BY BaseType
    <2>2. d \in 0 .. stop /\ d \in 0 .. stop - 1
      BY <1>5, <1>7, <2>1
    <2>3. SnAdd(next, d) \in Sn /\ ModBase(SnAdd(next, d), next) = d
      BY <1>3, <2>2
    <2>4. SnAdd(next, d) = sn
      BY <2>3, BaseInjective
    <2>5. ASSUME ~FullyReceived(window, sn)
          PROVE  FALSE
      <3>1. d \in open
        BY <2>2, <2>4, <2>5
      <3>2. PICK n \in NacksOf(sn, window) : n.sn = sn
        BY <2>5, MissingIsNamed
      <3>3. n \in report.nacks
        BY <1>2, <2>4, <3>1, <3>2
      <3> QED
        BY <1>7, <3>2, <3>3
    <2> QED
      BY <2>5
  <1> QED
    BY <1>4, <1>5, <1>6, <1>7 DEF Covers, report

\* ... trimmed or not.
LEMMA TrimmedCovers ==
  ASSUME NEW report, NEW highest \in Sn, rx_next \in Sn,
         Covers(report, rx_next, highest, rx_window), NEW t \in Trimmed(report)
  PROVE  Covers(t, rx_next, highest, rx_window)
  <1>1. CASE t = report
    BY <1>1
  <1>2. CASE t # report
    <2>1. PICK n \in report.nacks :
            t = [ack_sn |-> n.sn,
                 nacks  |-> {m \in report.nacks : ModBase(m.sn, rx_next) < ModBase(n.sn, rx_next)}]
      BY <1>2 DEF Trimmed
    <2>2. /\ t.ack_sn = n.sn
          /\ t.nacks = {m \in report.nacks : ModBase(m.sn, rx_next) < ModBase(n.sn, rx_next)}
      BY <2>1
    <2>3. report.ack_sn \in Sn /\ n.sn \in Sn /\ \A m \in report.nacks : m.sn \in Sn
      BY DEF Covers, Nack
    <2>4. /\ ModBase(n.sn, rx_next) < ModBase(report.ack_sn, rx_next)
          /\ ModBase(report.ack_sn, rx_next) <= ModBase(highest, rx_next)
      BY DEF Covers
    <2>5. \A sn \in Sn : ModBase(sn, rx_next) \in Int
      BY BaseType, Half
    <2>6. ModBase(t.ack_sn, rx_next) <= ModBase(highest, rx_next)
      BY <2>2, <2>3, <2>4, <2>5
    <2>7. \A m \in t.nacks :
            ModBase(m.sn, rx_next) < ModBase(t.ack_sn, rx_next) /\ m \in NacksOf(m.sn, rx_window)
      BY <2>2 DEF Covers
    <2>8. ASSUME NEW sn \in Sn, ModBase(sn, rx_next) < ModBase(t.ack_sn, rx_next),
                 \A m \in t.nacks : m.sn # sn
          PROVE  FullyReceived(rx_window, sn)
      <3>1. ModBase(sn, rx_next) < ModBase(report.ack_sn, rx_next)
        BY <2>2, <2>3, <2>4, <2>5, <2>8
      <3>2. \A m \in report.nacks : m.sn # sn
        BY <2>2, <2>8
      <3> QED
        BY <3>1, <3>2 DEF Covers
    <2>9. t.ack_sn \in Sn /\ t.nacks \subseteq Nack
      BY <2>2, <2>3 DEF Covers
    <2> QED
      BY <2>6, <2>7, <2>8, <2>9 DEF Covers
  <1> QED
    BY <1>1, <1>2

LEMMA WindowTyped ==
  ASSUME TypeOK
  PROVE  WindowOK(rx_window)
  BY DEF TypeOK, RxTypeOK, WindowOK

\* A report of the receiver's state is true.
LEMMA CoversIsTrue ==
  ASSUME TypeOK, TxInv, RxInv, NEW report, Covers(report, rx_next, rx_highest_status, rx_window)
  PROVE  ReportInv(report) /\ \A nack \in report.nacks : NackInv(nack)
  <1> DEFINE R == TxBase(rx_next)
             H == RxBase(rx_next_highest)
             ack == TxBase(report.ack_sn)
  <1>1. SnTypes /\ report.ack_sn \in Sn /\ \A n \in report.nacks : n \in Nack /\ n.sn \in Sn
    BY Sns DEF Covers, Nack
  <1>2. R \in 0 .. AmWindowSize /\ H \in 0 .. AmWindowSize /\ Sent \in 0 .. AmWindowSize /\ R + H <= Sent
    BY Positions
  <1>3. \A sn \in Sn : /\ TxBase(sn) \in 0 .. SnModulus - 1 /\ RxBase(sn) \in 0 .. SnModulus - 1
                       /\ RxBase(sn) = IF TxBase(sn) >= R THEN TxBase(sn) - R
                                       ELSE TxBase(sn) - R + SnModulus
    BY Positions
  <1>4. RxBase(report.ack_sn) <= RxBase(rx_highest_status) /\ RxBase(rx_highest_status) <= H
    BY DEF Covers, RxInv, RxStateOrder, RxBase
  <1> HIDE DEF R, H
  <1>5. RxBase(rx_highest_status) \in Int
    BY <1>1, <1>3, Half DEF SnTypes
  <1>6. \A sn \in Sn : RxBase(sn) <= H => TxBase(sn) = R + RxBase(sn)
    BY <1>2, <1>3, Half
  <1>7. RxBase(report.ack_sn) \in 0 .. H /\ ack = R + RxBase(report.ack_sn)
    BY <1>1, <1>2, <1>3, <1>4, <1>5, <1>6, Half
  <1> HIDE DEF ack
  <1>8. ack <= R + H /\ ack \in Nat
    BY <1>2, <1>7
  <1>9. ASSUME NEW sn \in DOMAIN tx_window, TxBase(sn) < ack, \A nack \in report.nacks : nack.sn # sn
        PROVE  Complete(sn)
    <2>1. sn \in Sn
      BY DEF TypeOK, TxTypeOK
    <2>2. CASE TxBase(sn) < R
      BY <2>2 DEF Complete, R
    <2>3. CASE TxBase(sn) >= R
      <3>1. RxBase(sn) < RxBase(report.ack_sn)
        BY <1>2, <1>3, <1>7, <1>9, <2>1, <2>3, Half
      <3>2. FullyReceived(rx_window, sn)
        BY <1>9, <2>1, <3>1 DEF Covers, RxBase
      <3> QED
        BY <3>2 DEF Complete
    <2>4. TxBase(sn) \in Int /\ R \in Int
      BY <1>2, <1>3, <2>1, Half
    <2> QED
      BY <2>2, <2>3, <2>4
  <1>10. ASSUME NEW nack \in report.nacks
         PROVE  /\ NackInv(nack)
                /\ ~nack.has_so => TxBase(nack.sn) + 1 < R + H
                /\ nack.has_so /\ nack.so_end # EndOfSdu /\ nack.sn = sn_under_segmentation
                     => nack.so_end < tx_window[nack.sn].next_so
    <2>1. nack.sn \in Sn /\ nack \in NacksOf(nack.sn, rx_window) /\ WindowOK(rx_window)
      BY <1>1, WindowTyped DEF Covers
    <2>2. /\ NackInv(nack)
          /\ ~nack.has_so => nack.sn \notin DOMAIN rx_window
          /\ nack.has_so => nack.sn \in DOMAIN rx_window
          /\ nack.has_so /\ nack.so_end # EndOfSdu
               => nack.so_end \in Bytes /\ nack.so_end + 1 \in DOMAIN rx_window[nack.sn]
      BY <2>1, NackSays
    <2>3. RxBase(nack.sn) < RxBase(report.ack_sn)
      BY DEF Covers, RxBase
    <2>4. RxBase(nack.sn) < H /\ RxBase(nack.sn) \in Nat /\ H \in Nat
      BY <1>2, <1>3, <1>7, <2>1, <2>3, Half
    <2>5. ASSUME ~nack.has_so
          PROVE  TxBase(nack.sn) + 1 < R + H
      <3>1. rx_next_highest # rx_next
        BY <1>1, <2>4, BaseType DEF RxBase, H, SnTypes
      <3>2. PICK sn \in DOMAIN rx_window : SnAdd(sn, 1) = rx_next_highest
        BY <3>1 DEF RxInv
      <3>3. sn \in Sn /\ RxBase(sn) < H
        BY <2>1 DEF WindowOK, RxInv, RxStateOrder, RxBase, H
      <3>4. 1 \in 0 .. SnModulus
        BY Half
      <3>5. H = IF RxBase(sn) + 1 < SnModulus THEN RxBase(sn) + 1 ELSE RxBase(sn) + 1 - SnModulus
        BY <1>1, <3>2, <3>3, <3>4, AddBase DEF RxBase, H, SnTypes
      <3>6. H = RxBase(sn) + 1
        BY <1>2, <1>3, <3>3, <3>5, Half
      <3>7. nack.sn # sn
        BY <2>2, <2>5
      <3>8. RxBase(nack.sn) # RxBase(sn)
        BY <1>1, <2>1, <3>3, <3>7, BaseInjective DEF RxBase, SnTypes
      <3>9. RxBase(sn) \in Nat
        BY <1>3, <3>3, Half
      <3>10. RxBase(nack.sn) + 1 < H
        BY <2>4, <3>6, <3>8, <3>9
      <3>11. TxBase(nack.sn) = R + RxBase(nack.sn)
        BY <1>6, <2>1, <2>4
      <3> QED
        BY <1>2, <2>4, <3>10, <3>11
    <2>6. ASSUME nack.has_so, nack.so_end # EndOfSdu, nack.sn = sn_under_segmentation
          PROVE  nack.so_end < tx_window[nack.sn].next_so
      <3>1. nack.sn \in DOMAIN rx_window /\ nack.so_end \in Bytes
            /\ nack.so_end + 1 \in DOMAIN rx_window[nack.sn]
        BY <2>2, <2>6
      <3>2. nack.so_end + 1 < tx_window[nack.sn].next_so
        BY <2>6, <3>1 DEF RxInv
      <3>3. nack.sn \in DOMAIN tx_window
        BY <2>1, <2>6, SentCount DEF Sn, NoSn
      <3>4. tx_window[nack.sn].next_so \in Int
        BY <3>3, SduTypes
      <3> QED
        BY <3>1, <3>2, <3>4 DEF Bytes
    <2> QED
      BY <2>2, <2>5, <2>6
  <1> QED
    BY <1>8, <1>9, <1>10 DEF ReportInv, ack, R, H

LEMMA PullStatusPduKeeps ==
  ASSUME IInv, PullStatusPdu, UNCHANGED txVars
  PROVE  IInv'
  <1> USE DEF IInv
  <1>1. PICK report \in Trimmed(status_report) : stat' = stat \cup {report}
    BY DEF PullStatusPdu
  <1>2. SnTypes /\ WindowOK(rx_window)
    BY Sns, WindowTyped
  <1>3. Covers(status_report, rx_next, rx_highest_status, rx_window)
    BY <1>2, RefreshCovers DEF SnTypes, CachedInv
  <1>4. Covers(report, rx_next, rx_highest_status, rx_window)
    BY <1>2, <1>3, TrimmedCovers DEF SnTypes
  <1>5. ReportInv(report) /\ \A nack \in report.nacks : NackInv(nack)
    BY <1>4, CoversIsTrue
  <1>6. UNCHANGED <<submitted, sdu_queue, tx_window, txSt, retx_queue, sn_under_segmentation, upperSt>>
    BY DEF txVars, retxSt
  <1>7. UNCHANGED <<rxSt, rx_next, rx_next_highest, rx_highest_status, rx_window, reassembly_timer,
                    delivered, status_report, data>>
    BY DEF PullStatusPdu, rxSt
  <1>8. TypeOK'
    <2>1. RxTypeOK'
      BY <1>7, RlcAmRxAssumption DEF TypeOK, RxTypeOK, PullStatusPdu, rxSt
    <2>2. ChannelTypeOK'
      BY <1>1, <1>4, <1>7 DEF TypeOK, ChannelTypeOK, Covers
    <2> QED
      BY <2>1, <2>2, TxTypeFrame DEF TypeOK
  <1>9. StatInv'
    <2>1. \A r : ReportInv(r) => ReportInv(r)'
      BY <1>6, <1>7 DEF ReportInv, Complete, FullyReceived, RxBase, TxBase, txSt
    <2>2. \A nack : NackInv(nack) => NackInv(nack)'
      BY DEF NackInv
    <2> QED
      BY <1>1, <1>5, <2>1, <2>2 DEF StatInv
  <1> QED
    BY <1>6, <1>7, <1>8, <1>9, TxFrame, SduFrame, UpperFrame, RetxFrame, RxFrame, DataFrame, CachedFrame

LEMMA DiscardDataPduKeeps ==
  ASSUME IInv, DiscardDataPdu, UNCHANGED txVars
  PROVE  IInv'
  <1> USE DEF IInv, TypeOK
  <1>1. PICK pdu \in data :
          /\ data' \in Take(data, pdu)
          /\ IF pdu.p
             THEN /\ do_status' = TRUE
                  /\ status_report' = RefreshedReport(rx_next, rx_highest_status, rx_window)
             ELSE UNCHANGED <<do_status, status_report>>
    BY DEF DiscardDataPdu
  <1>2. data' \subseteq data /\ UNCHANGED status_report
    BY <1>1 DEF Take, CachedInv
  <1>3. UNCHANGED <<submitted, sdu_queue, tx_window, txSt, retx_queue, sn_under_segmentation, upperSt>>
    BY DEF txVars, retxSt
  <1>4. UNCHANGED <<rxSt, rx_next, rx_next_highest, rx_highest_status, rx_window, reassembly_timer,
                    prohibit_timer, delivered, stat>>
    BY DEF DiscardDataPdu, rxSt
  <1>5. RxTypeOK'
    BY <1>1, <1>2, <1>4 DEF RxTypeOK, rxSt
  <1> QED
    BY <1>2, <1>3, <1>4, <1>5, TxTypeFrame, ChannelTypeFrame, TxFrame, SduFrame, UpperFrame,
       RetxFrame, RxFrame, DataFrame, StatFrame, CachedFrame

-----------------------------------------------------------------------------
(* Steps of the receiver that move its window.                             *)

\* The loops that look for the first SN that is not fully received.
LEMMA FirstIncompleteIs ==
  ASSUME rx_next \in Sn, NEW start \in Sn, NEW end \in Sn, NEW window, RxBase(start) <= RxBase(end)
  PROVE  LET r == FirstIncomplete(start, end, window)
         IN  /\ r \in Sn /\ RxBase(start) <= RxBase(r) /\ RxBase(r) <= RxBase(end)
             /\ r = end \/ ~FullyReceived(window, r)
             /\ \A sn \in Sn : RxBase(start) <= RxBase(sn) /\ RxBase(sn) < RxBase(r)
                                 => FullyReceived(window, sn)
  <1> DEFINE stops == {d \in 0 .. SnModulus :
                         \/ ModBase(SnAdd(start, d), rx_next) >= ModBase(end, rx_next)
                         \/ ~FullyReceived(window, SnAdd(start, d))}
             m == Min(stops)
             r == FirstIncomplete(start, end, window)
             s == RxBase(start)
             e == RxBase(end)
  <1>1. s \in 0 .. SnModulus - 1 /\ e \in 0 .. SnModulus - 1 /\ s <= e
    BY BaseType DEF RxBase
  <1>2. r = SnAdd(start, m)
    BY DEF FirstIncomplete
  <1>3. \A d \in 0 .. (e - s) : SnAdd(start, d) \in Sn /\ RxBase(SnAdd(start, d)) = s + d
    <2> TAKE d \in 0 .. (e - s)
    <2>1. d \in 0 .. SnModulus /\ s + d < SnModulus
      BY <1>1, Half
    <2> QED
      BY <2>1, AddType, AddBase DEF RxBase
  <1>4. \A d \in stops : d \in 0 .. SnModulus /\ (RxBase(SnAdd(start, d)) >= e \/ ~FullyReceived(window, SnAdd(start, d)))
    BY DEF RxBase
  <1>5. \A d \in 0 .. SnModulus :
          RxBase(SnAdd(start, d)) >= e \/ ~FullyReceived(window, SnAdd(start, d)) => d \in stops
    BY DEF RxBase
  <1> HIDE DEF s, e, r, stops
  <1>6. e - s \in stops
    <2>1. e - s \in 0 .. (e - s) /\ e - s \in 0 .. SnModulus /\ s + (e - s) = e
      BY <1>1, Half
    <2> QED
      BY <1>3, <1>5, <2>1, <1>1
  <1>7. stops \in SUBSET Nat
    BY <1>4, Half
  <1>8. m \in stops /\ \A y \in stops : m <= y
    BY <1>6, <1>7, MinIn
  <1> HIDE DEF m
  <1>9. m \in 0 .. (e - s) /\ m \in 0 .. SnModulus
    BY <1>4, <1>6, <1>8, <1>1, Half
  <1>10. r \in Sn /\ RxBase(r) = s + m
    BY <1>2, <1>3, <1>9
  <1>11. s <= RxBase(r) /\ RxBase(r) <= e
    BY <1>1, <1>9, <1>10
  <1>12. r = end \/ ~FullyReceived(window, r)
    <2>1. RxBase(r) >= e \/ ~FullyReceived(window, r)
      BY <1>2, <1>4, <1>8
    <2>2. RxBase(r) >= e => RxBase(r) = e
      BY <1>1, <1>9, <1>10
    <2>3. RxBase(r) = e => r = end
      BY <1>10, BaseInjective DEF e, RxBase
    <2> QED
      BY <2>1, <2>2, <2>3
  <1>13. ASSUME NEW sn \in Sn, s <= RxBase(sn), RxBase(sn) < RxBase(r)
         PROVE  FullyReceived(window, sn)
    <2> DEFINE d == RxBase(sn) - s
    <2>1. RxBase(sn) \in 0 .. SnModulus - 1
      BY BaseType DEF RxBase
    <2>2. d \in 0 .. (e - s) /\ d \in 0 .. SnModulus /\ d < m /\ s + d = RxBase(sn)
      BY <1>1, <1>9, <1>10, <1>13, <2>1, Half
    <2> HIDE DEF d
    <2>3. SnAdd(start, d) \in Sn /\ RxBase(SnAdd(start, d)) = RxBase(sn)
      BY <1>3, <2>2
    <2>4. SnAdd(start, d) = sn
      BY <2>3, BaseInjective DEF RxBase
    <2>5. d \notin stops
      BY <1>8, <1>9, <2>2
    <2> QED
      BY <1>5, <2>2, <2>4, <2>5
  <1> QED
    BY <1>10, <1>11, <1>12, <1>13 DEF r, s, e

LEMMA ExpireReassemblyTimerKeeps ==
  ASSUME IInv, ExpireReassemblyTimer, UNCHANGED txVars
  PROVE  IInv'
  <1> USE DEF IInv, TypeOK
  <1> DEFINE status == FirstIncomplete(rx_next_status_trigger, rx_next_highest, rx_window)
             restart == StartReassembly(status, rx_next_highest, rx_next, rx_window)
  <1>1. SnTypes /\ WindowOK(rx_window)
    BY Sns, WindowTyped
  <1>2. reassembly_timer /\ RxBase(rx_next_status_trigger) \in 1 .. RxBase(rx_next_highest)
        /\ RxBase(rx_next_highest) \in 0 .. AmWindowSize
    BY Positions DEF ExpireReassemblyTimer, RxInv
  <1>3. ModBase(rx_next_status_trigger, rx_next) \in 1 .. AmWindowSize
    BY <1>2, Half DEF RxBase
  <1>4. /\ rx_highest_status' = status
        /\ reassembly_timer' = restart
        /\ rx_next_status_trigger' = IF restart THEN rx_next_highest ELSE rx_next_status_trigger
        /\ status_report' = RefreshedReport(rx_next, status, rx_window)
        /\ do_status' = TRUE
    BY <1>3 DEF ExpireReassemblyTimer
  <1>5. UNCHANGED <<submitted, sdu_queue, tx_window, txSt, retx_queue, sn_under_segmentation, upperSt>>
    BY DEF txVars, retxSt
  <1>6. UNCHANGED <<rx_next, rx_next_highest, rx_window, prohibit_timer, delivered, data, stat>>
    BY DEF ExpireReassemblyTimer, channels
  <1>7. /\ status \in Sn /\ RxBase(rx_next_status_trigger) <= RxBase(status)
        /\ RxBase(status) <= RxBase(rx_next_highest)
        /\ status = rx_next_highest \/ ~FullyReceived(rx_window, status)
    <2>1. rx_next \in Sn /\ rx_next_status_trigger \in Sn /\ rx_next_highest \in Sn
          /\ RxBase(rx_next_status_trigger) <= RxBase(rx_next_highest)
      BY <1>1, <1>2 DEF SnTypes
    <2> QED
      BY <2>1, FirstIncompleteIs
  <1>8. ~FullyReceived(rx_window, rx_next_highest)
    <2>1. ASSUME rx_next_highest \in DOMAIN rx_window PROVE FALSE
      <3>1. RxBase(rx_next_highest) < RxBase(rx_next_highest)
        BY <2>1 DEF RxInv, RxStateOrder, RxBase
      <3> QED
        BY <1>2, <3>1
    <2> QED
      BY <2>1 DEF FullyReceived
  <1>9. restart \in BOOLEAN
    BY DEF StartReassembly
  <1> HIDE DEF status, restart
  <1>10. RxTypeOK'
    <2>1. Covers(status_report', rx_next, status, rx_window)
      BY <1>1, <1>4, <1>7, RefreshCovers DEF SnTypes
    <2>2. status_report'.ack_sn \in Sn /\ status_report'.nacks \subseteq Nack
      BY <2>1 DEF Covers
    <2>3. rx_next_status_trigger' \in Sn
      BY <1>1, <1>4 DEF SnTypes
    <2> QED
      BY <1>4, <1>6, <1>7, <1>9, <2>2, <2>3 DEF RxTypeOK
  <1>11. RxInv'
    <2>1. RxStateOrder'
      BY <1>4, <1>6, <1>7, <1>8 DEF RxInv, RxStateOrder, RxBase, FullyReceived
    <2>2. (TxBase(rx_next) + RxBase(rx_next_highest) <= Sent)'
      BY <1>5, <1>6 DEF RxInv, TxBase, RxBase, Sent, txSt
    <2>3. (rx_next_highest # rx_next => \E sn \in DOMAIN rx_window : SnAdd(sn, 1) = rx_next_highest)'
      BY <1>6 DEF RxInv
    <2>4. ASSUME reassembly_timer'
          PROVE  /\ RxBase(rx_next_status_trigger)' \in 1 .. RxBase(rx_next_highest)'
                 /\ \E sn \in DOMAIN rx_window' : SnAdd(sn, 1) = rx_next_status_trigger'
      <3>1. rx_next_status_trigger' = rx_next_highest
        BY <1>4, <2>4
      <3>2. RxBase(rx_next_status_trigger)' = RxBase(rx_next_highest)
            /\ RxBase(rx_next_highest)' = RxBase(rx_next_highest)
        BY <1>6, <3>1 DEF RxBase
      <3>3. rx_next_highest # rx_next
        BY <1>1, <1>2, BaseType DEF RxBase, SnTypes
      <3> QED
        BY <1>2, <1>6, <3>1, <3>2, <3>3 DEF RxInv
    <2>5. (\A sn \in DOMAIN rx_window : \A b \in DOMAIN rx_window[sn] :
             /\ rx_window[sn][b] = tx_window[sn].sdu
             /\ sn = sn_under_segmentation => b < tx_window[sn].next_so)'
      BY <1>5, <1>6 DEF RxInv
    <2> QED
      BY <2>1, <2>2, <2>3, <2>4, <2>5 DEF RxInv
  <1>12. CachedInv'
    BY <1>4, <1>6 DEF CachedInv, RefreshedReport, FullyReceived, NacksOf
  <1> QED
    BY <1>5, <1>6, <1>10, <1>11, <1>12, TxTypeFrame, ChannelTypeFrame, TxFrame, SduFrame, UpperFrame,
       RetxFrame, DataFrame, StatFrame

-----------------------------------------------------------------------------
(* handle_data_pdu.                                                        *)

\* The state after a PDU has been stored.
StatusAfter(pdu) ==
  IF FullyReceived(Stored(pdu), pdu.sn) /\ pdu.sn = rx_highest_status
  THEN FirstIncomplete(SnAdd(pdu.sn, 1), RaisedHighest(pdu.sn), Stored(pdu))
  ELSE rx_highest_status

NextAfter(pdu) ==
  IF FullyReceived(Stored(pdu), pdu.sn) /\ pdu.sn = rx_next
  THEN FirstIncomplete(rx_next, RaisedHighest(pdu.sn), Stored(pdu))
  ELSE rx_next

KeptAfter(pdu) ==
  [sn \in {s \in DOMAIN Stored(pdu) : RxBase(s) >= RxBase(NextAfter(pdu))} |-> Stored(pdu)[sn]]

\* A PDU that the receiver accepts.
Accepted(pdu) == pdu \in data /\ InsideRxWindow(pdu.sn, rx_next) /\ ~FullyReceived(rx_window, pdu.sn)

\* It belongs to the window of the transmitter, and its SDU is not complete.
LEMMA AcceptedIsSent ==
  ASSUME IInv, NEW pdu, Accepted(pdu)
  PROVE  /\ pdu \in DataPdu /\ pdu.sn \in Sn /\ pdu.sn \in DOMAIN tx_window
         /\ TxBase(pdu.sn) = TxBase(rx_next) + RxBase(pdu.sn) /\ TxBase(pdu.sn) < Sent
         /\ pdu.so + pdu.len <= SduLen /\ pdu.sdu = tx_window[pdu.sn].sdu
         /\ pdu.sn = sn_under_segmentation => pdu.so + pdu.len <= tx_window[pdu.sn].next_so
         /\ ~Complete(pdu.sn)
  <1> USE DEF IInv
  <1>1. pdu \in DataPdu /\ pdu.sn \in Sn
    BY DEF Accepted, TypeOK, ChannelTypeOK, DataPdu
  <1>2. PduInv(pdu)
    BY DEF Accepted, DataInv
  <1> DEFINE R == TxBase(rx_next)
  <1>3. /\ R \in 0 .. AmWindowSize /\ Sent \in 0 .. AmWindowSize /\ R <= Sent
        /\ TxBase(pdu.sn) \in 0 .. SnModulus - 1
        /\ RxBase(pdu.sn) = IF TxBase(pdu.sn) >= R THEN TxBase(pdu.sn) - R ELSE TxBase(pdu.sn) - R + SnModulus
        /\ pdu.sn \in DOMAIN tx_window <=> TxBase(pdu.sn) < Sent
    <2>1. RxBase(rx_next_highest) \in 0 .. AmWindowSize
      BY Positions
    <2> QED
      BY <1>1, <2>1, Positions
  <1>4. RxBase(pdu.sn) < AmWindowSize
    BY DEF Accepted, InsideRxWindow, RxBase
  <1> HIDE DEF R
  <1>5. pdu.sn \in DOMAIN tx_window
    <2>1. ASSUME TxBase(pdu.sn) >= Sent + AmWindowSize PROVE FALSE
      BY <1>3, <1>4, <2>1, Half
    <2> QED
      BY <1>2, <2>1 DEF PduInv
  <1>6. TxBase(pdu.sn) = R + RxBase(pdu.sn) /\ TxBase(pdu.sn) < Sent /\ TxBase(pdu.sn) >= R
    BY <1>3, <1>4, <1>5, Half
  <1>7. ~Complete(pdu.sn)
    BY <1>3, <1>6, Half DEF Complete, Accepted, R
  <1> QED
    BY <1>1, <1>2, <1>5, <1>6, <1>7 DEF PduInv, R

\* What is held after it has been stored.
LEMMA StoredIs ==
  ASSUME IInv, NEW pdu, Accepted(pdu)
  PROVE  LET window == Stored(pdu)
         IN  /\ DOMAIN window = DOMAIN rx_window \cup {pdu.sn} /\ WindowOK(window)
             /\ \A sn \in DOMAIN rx_window : sn # pdu.sn => window[sn] = rx_window[sn]
             /\ DOMAIN window[pdu.sn] = Held(rx_window, pdu.sn) \cup Segment(pdu)
             /\ \A sn \in DOMAIN window : \A b \in DOMAIN window[sn] :
                  /\ window[sn][b] = tx_window[sn].sdu
                  /\ sn = sn_under_segmentation => b < tx_window[sn].next_so
  <1> USE DEF IInv
  <1> DEFINE held == Held(rx_window, pdu.sn)
             seg == Segment(pdu)
             sdu == tx_window[pdu.sn].sdu
             window == Stored(pdu)
  <1>1. /\ pdu \in DataPdu /\ pdu.sn \in Sn /\ pdu.sn \in DOMAIN tx_window
        /\ pdu.so + pdu.len <= SduLen /\ pdu.sdu = sdu
        /\ pdu.sn = sn_under_segmentation => pdu.so + pdu.len <= tx_window[pdu.sn].next_so
    BY AcceptedIsSent
  <1>2. pdu.so \in Nat /\ pdu.len \in Nat /\ SduLen \in Nat
    BY <1>1, RlcAmPduAssumption DEF DataPdu, Bytes
  <1>3. \A b \in seg : b \in Bytes /\ (pdu.sn = sn_under_segmentation => b < tx_window[pdu.sn].next_so)
    <2>1. tx_window[pdu.sn].next_so \in Int
      BY <1>1, SduTypes
    <2> TAKE b \in seg
    <2>2. b \in Int /\ b >= pdu.so /\ b < pdu.so + pdu.len
      BY <1>2 DEF Segment
    <2> QED
      BY <1>1, <1>2, <2>1, <2>2 DEF Bytes
  <1>4. WindowOK(rx_window)
    BY WindowTyped
  <1>5. \A b \in held : /\ pdu.sn \in DOMAIN rx_window /\ b \in DOMAIN rx_window[pdu.sn] /\ b \in Bytes
                        /\ rx_window[pdu.sn][b] = sdu
                        /\ pdu.sn = sn_under_segmentation => b < tx_window[pdu.sn].next_so
    BY <1>4 DEF Held, WindowOK, RxInv
  <1>6. window = [sn \in DOMAIN rx_window \cup {pdu.sn} |->
                    IF sn = pdu.sn
                    THEN [b \in held \cup seg |->
                            IF b \in held /\ pdu.len # SduLen THEN rx_window[pdu.sn][b] ELSE pdu.sdu]
                    ELSE rx_window[sn]]
    BY DEF Stored
  <1> HIDE DEF window, held, seg, sdu
  <1>7. DOMAIN window = DOMAIN rx_window \cup {pdu.sn}
        /\ \A sn \in DOMAIN rx_window : sn # pdu.sn => window[sn] = rx_window[sn]
    BY <1>6
  <1>8. window[pdu.sn] = [b \in held \cup seg |->
                            IF b \in held /\ pdu.len # SduLen THEN rx_window[pdu.sn][b] ELSE pdu.sdu]
    BY <1>6
  <1>9. DOMAIN window[pdu.sn] = held \cup seg /\ \A b \in held \cup seg : window[pdu.sn][b] = sdu
    BY <1>1, <1>5, <1>8
  <1>10. WindowOK(window)
    BY <1>1, <1>3, <1>4, <1>5, <1>7, <1>9 DEF WindowOK
  <1>11. ASSUME NEW sn \in DOMAIN window, NEW b \in DOMAIN window[sn]
         PROVE  /\ window[sn][b] = tx_window[sn].sdu
                /\ sn = sn_under_segmentation => b < tx_window[sn].next_so
    <2>1. CASE sn = pdu.sn
      BY <1>3, <1>5, <1>9, <1>11, <2>1 DEF sdu
    <2>2. CASE sn # pdu.sn
      BY <1>7, <1>11, <2>2 DEF RxInv
    <2> QED
      BY <2>1, <2>2
  <1> QED
    BY <1>7, <1>9, <1>10, <1>11 DEF window, held, seg

\* Where the state variables go.
Moved(pdu) ==
  LET window == Stored(pdu)
      highest == RaisedHighest(pdu.sn)
      status == StatusAfter(pdu)
      next == NextAfter(pdu)
  IN  /\ highest \in Sn /\ status \in Sn /\ next \in Sn
      /\ RxBase(rx_next_highest) <= RxBase(highest) /\ TxBase(rx_next) + RxBase(highest) <= Sent
      /\ RxBase(next) <= RxBase(status) /\ RxBase(status) <= RxBase(highest)
      /\ ~FullyReceived(window, next) /\ ~FullyReceived(window, status)
      /\ \A sn \in DOMAIN window : RxBase(sn) < RxBase(highest)
      /\ highest # rx_next /\ \E sn \in DOMAIN window : SnAdd(sn, 1) = highest
      /\ \A sn \in Sn : RxBase(sn) < RxBase(next) => FullyReceived(window, sn)
      /\ ~FullyReceived(window, pdu.sn) => next = rx_next /\ status = rx_highest_status

LEMMA StateMoves ==
  ASSUME IInv, NEW pdu, Accepted(pdu)
  PROVE  Moved(pdu)
  <1> USE DEF IInv
  <1> DEFINE window == Stored(pdu)
             highest == RaisedHighest(pdu.sn)
             status == StatusAfter(pdu)
             next == NextAfter(pdu)
             R == TxBase(rx_next)
             H == RxBase(rx_next_highest)
             p == RxBase(pdu.sn)
             done == FullyReceived(window, pdu.sn)
  <1>1. SnTypes /\ pdu.sn \in Sn /\ TxBase(pdu.sn) = R + p /\ TxBase(pdu.sn) < Sent
    BY Sns, AcceptedIsSent
  <1>2. /\ R \in 0 .. AmWindowSize /\ H \in 0 .. AmWindowSize /\ Sent \in 0 .. AmWindowSize /\ R + H <= Sent
        /\ \A sn \in Sn : RxBase(sn) \in 0 .. SnModulus - 1
    BY Positions
  <1>3. p \in 0 .. SnModulus - 1 /\ R + p < Sent
    BY <1>1, <1>2
  <1>4. /\ DOMAIN window = DOMAIN rx_window \cup {pdu.sn} /\ WindowOK(window)
        /\ \A sn \in DOMAIN rx_window : sn # pdu.sn => window[sn] = rx_window[sn]
    BY StoredIs
  <1>5. 1 \in 0 .. SnModulus
    BY Half
  <1>6. SnAdd(pdu.sn, 1) \in Sn /\ RxBase(SnAdd(pdu.sn, 1)) = p + 1
    <2>1. SnAdd(pdu.sn, 1) \in Sn
      BY <1>1, <1>5, AddType
    <2>2. RxBase(SnAdd(pdu.sn, 1)) = IF p + 1 < SnModulus THEN p + 1 ELSE p + 1 - SnModulus
      BY <1>1, <1>5, AddBase DEF RxBase, SnTypes
    <2>3. p + 1 < SnModulus
      BY <1>2, <1>3, Half
    <2> QED
      BY <2>1, <2>2, <2>3
  <1>7. highest = IF p >= H THEN SnAdd(pdu.sn, 1) ELSE rx_next_highest
    BY DEF RaisedHighest, RxBase
  <1> HIDE DEF window, highest, status, next, R, H, p, done
  <1>8. /\ highest \in Sn /\ RxBase(highest) = (IF p >= H THEN p + 1 ELSE H)
    BY <1>1, <1>6, <1>7 DEF H, SnTypes
  <1>9. H <= RxBase(highest) /\ R + RxBase(highest) <= Sent /\ p + 1 <= RxBase(highest)
        /\ RxBase(highest) \in 1 .. AmWindowSize
    <2>1. R \in Nat /\ H \in Nat /\ Sent \in Nat /\ p \in Nat /\ AmWindowSize \in Nat
      BY <1>2, <1>3, Half
    <2>2. R + p < Sent /\ R + H <= Sent /\ Sent <= AmWindowSize
      BY <1>2, <1>3
    <2>3. CASE p >= H
      <3>1. RxBase(highest) = p + 1
        BY <1>8, <2>3
      <3> QED
        BY <2>1, <2>2, <2>3, <3>1
    <2>4. CASE ~(p >= H)
      <3>1. RxBase(highest) = H
        BY <1>8, <2>4
      <3> QED
        BY <2>1, <2>2, <2>4, <3>1
    <2> QED
      BY <2>3, <2>4
  <1>10. \A sn \in DOMAIN window : RxBase(sn) < RxBase(highest)
    <2> TAKE sn \in DOMAIN window
    <2>1. CASE sn = pdu.sn
      BY <1>3, <1>9, <2>1 DEF p
    <2>2. CASE sn \in DOMAIN rx_window
      <3>1. RxBase(sn) < H /\ sn \in Sn
        BY <1>4, <2>2 DEF RxInv, RxStateOrder, RxBase, H, WindowOK
      <3> QED
        BY <1>2, <1>9, <3>1
    <2> QED
      BY <1>4, <2>1, <2>2
  <1>11. highest # rx_next
    BY <1>1, <1>9, BaseType DEF RxBase, SnTypes
  <1>12. \E sn \in DOMAIN window : SnAdd(sn, 1) = highest
    <2>1. CASE p >= H
      BY <1>4, <1>7, <2>1
    <2>2. CASE ~(p >= H)
      <3>1. highest = rx_next_highest
        BY <1>7, <2>2
      <3>2. \E sn \in DOMAIN rx_window : SnAdd(sn, 1) = rx_next_highest
        BY <1>11, <3>1 DEF RxInv
      <3> QED
        BY <1>4, <3>1, <3>2
    <2> QED
      BY <2>1, <2>2
  <1>13. ~FullyReceived(window, highest)
    BY <1>2, <1>8, <1>10 DEF FullyReceived
  <1>14. \A sn \in Sn : sn # pdu.sn => (FullyReceived(window, sn) <=> FullyReceived(rx_window, sn))
    BY <1>4 DEF FullyReceived
  <1>15. status \in Sn /\ RxBase(status) <= RxBase(highest) /\ ~FullyReceived(window, status)
    <2>1. CASE done /\ pdu.sn = rx_highest_status
      <3> DEFINE start == SnAdd(pdu.sn, 1)
      <3>1. status = FirstIncomplete(start, highest, window)
        BY <2>1 DEF StatusAfter, status, done, highest, window
      <3>2. rx_next \in Sn /\ start \in Sn /\ RxBase(start) <= RxBase(highest)
        BY <1>1, <1>6, <1>9 DEF SnTypes
      <3> HIDE DEF start
      <3>3. /\ FirstIncomplete(start, highest, window) \in Sn
            /\ RxBase(FirstIncomplete(start, highest, window)) <= RxBase(highest)
            /\ \/ FirstIncomplete(start, highest, window) = highest
               \/ ~FullyReceived(window, FirstIncomplete(start, highest, window))
        BY <1>8, <3>2, FirstIncompleteIs
      <3> QED
        BY <1>13, <3>1, <3>3
    <2>2. CASE ~(done /\ pdu.sn = rx_highest_status)
      <3>1. status = rx_highest_status
        BY <2>2 DEF StatusAfter, status, done, window
      <3>2. rx_highest_status \in Sn /\ RxBase(rx_highest_status) <= H /\ ~FullyReceived(rx_window, rx_highest_status)
        BY <1>1 DEF SnTypes, RxInv, RxStateOrder, RxBase, H
      <3>3. RxBase(rx_highest_status) <= RxBase(highest)
        BY <1>2, <1>9, <3>2
      <3>4. ~FullyReceived(window, rx_highest_status)
        BY <1>14, <2>2, <3>2 DEF done
      <3> QED
        BY <3>1, <3>2, <3>3, <3>4
    <2> QED
      BY <2>1, <2>2
  <1>16. /\ next \in Sn /\ ~FullyReceived(window, next)
         /\ \A sn \in Sn : RxBase(sn) < RxBase(next) => FullyReceived(window, sn)
    <2>1. RxBase(rx_next) = 0
      BY <1>1, BaseType DEF RxBase, SnTypes
    <2>2. CASE done /\ pdu.sn = rx_next
      <3>1. next = FirstIncomplete(rx_next, highest, window)
        BY <2>2 DEF NextAfter, next, done, highest, window
      <3>2. rx_next \in Sn /\ RxBase(rx_next) <= RxBase(highest)
        BY <1>1, <1>9, <2>1 DEF SnTypes
      <3>3. /\ next \in Sn /\ (next = highest \/ ~FullyReceived(window, next))
            /\ \A sn \in Sn : RxBase(rx_next) <= RxBase(sn) /\ RxBase(sn) < RxBase(next)
                                => FullyReceived(window, sn)
        BY <1>8, <3>1, <3>2, FirstIncompleteIs
      <3> QED
        BY <1>2, <1>13, <2>1, <3>3
    <2>3. CASE ~(done /\ pdu.sn = rx_next)
      <3>1. next = rx_next
        BY <2>3 DEF NextAfter, next, done, window
      <3>2. ~FullyReceived(rx_window, rx_next)
        BY DEF RxInv, RxStateOrder
      <3>3. ~FullyReceived(window, rx_next)
        BY <1>1, <1>14, <2>3, <3>2 DEF done, SnTypes
      <3> QED
        BY <1>1, <1>2, <2>1, <3>1, <3>3 DEF SnTypes
    <2> QED
      BY <2>2, <2>3
  <1>17. RxBase(next) <= RxBase(status)
    <2>1. ~(RxBase(status) < RxBase(next))
      BY <1>15, <1>16
    <2> QED
      BY <1>2, <1>15, <1>16, <2>1
  <1>18. ~done => next = rx_next /\ status = rx_highest_status
    BY DEF StatusAfter, NextAfter, status, next, done, window
  <1> QED
    BY <1>8, <1>9, <1>10, <1>11, <1>12, <1>15, <1>16, <1>17, <1>18
    DEF Moved, window, highest, status, next, R, H, done

\* A report depends only on which bytes are held.
LEMMA SameHeld ==
  ASSUME NEW next, NEW highest, NEW v, NEW w, DOMAIN v = DOMAIN w,
         \A sn \in DOMAIN v : DOMAIN v[sn] = DOMAIN w[sn]
  PROVE  RefreshedReport(next, highest, v) = RefreshedReport(next, highest, w)
  <1>1. \A sn : FullyReceived(v, sn) <=> FullyReceived(w, sn)
    BY DEF FullyReceived
  <1>2. \A sn : NacksOf(sn, v) = NacksOf(sn, w)
    <2> TAKE sn
    <2>1. CASE sn \notin DOMAIN v
      BY <2>1 DEF NacksOf
    <2>2. CASE sn \in DOMAIN v
      <3>1. DOMAIN v[sn] = DOMAIN w[sn] /\ sn \in DOMAIN w
        BY <2>2
      <3> QED
        BY <2>2, <3>1 DEF NacksOf
    <2> QED
      BY <2>1, <2>2
  <1> DEFINE stop == Min({ModBase(highest, next), MaxSnPerStatus})
             OpenV == {d \in 0 .. stop - 1 : ~FullyReceived(v, SnAdd(next, d))}
             OpenW == {d \in 0 .. stop - 1 : ~FullyReceived(w, SnAdd(next, d))}
  <1>3. /\ RefreshedReport(next, highest, v) =
              [ack_sn |-> SnAdd(next, stop), nacks |-> UNION {NacksOf(SnAdd(next, d), v) : d \in OpenV}]
        /\ RefreshedReport(next, highest, w) =
              [ack_sn |-> SnAdd(next, stop), nacks |-> UNION {NacksOf(SnAdd(next, d), w) : d \in OpenW}]
    BY DEF RefreshedReport
  <1>4. OpenV = OpenW
    BY <1>1
  <1> HIDE DEF OpenV, OpenW, stop
  <1>5. UNION {NacksOf(SnAdd(next, d), v) : d \in OpenV} = UNION {NacksOf(SnAdd(next, d), w) : d \in OpenW}
    BY <1>2, <1>4
  <1> QED
    BY <1>3, <1>5

\* The new positions.
Repositioned(pdu) ==
  LET window == Stored(pdu)
      next == NextAfter(pdu)
      kept == KeptAfter(pdu)
      N == RxBase(next)
  IN  /\ N \in 0 .. AmWindowSize /\ TxBase(next) = TxBase(rx_next) + N
      /\ \A sn \in Sn : ModBase(sn, next) = IF RxBase(sn) >= N THEN RxBase(sn) - N
                                           ELSE RxBase(sn) - N + SnModulus
      /\ DOMAIN kept = {sn \in DOMAIN window : RxBase(sn) >= N} /\ WindowOK(kept)
      /\ \A sn \in DOMAIN kept : kept[sn] = window[sn]
      /\ \A sn \in DOMAIN tx_window :
           (TxBase(sn) < TxBase(next) \/ FullyReceived(kept, sn)) <=> (Complete(sn) \/ FullyReceived(window, sn))

LEMMA Repositions ==
  ASSUME IInv, NEW pdu, Accepted(pdu)
  PROVE  Repositioned(pdu)
  <1> USE DEF IInv
  <1> DEFINE window == Stored(pdu)
             highest == RaisedHighest(pdu.sn)
             status == StatusAfter(pdu)
             next == NextAfter(pdu)
             kept == KeptAfter(pdu)
             N == RxBase(next)
             R == TxBase(rx_next)
  <1>1. /\ highest \in Sn /\ status \in Sn /\ next \in Sn
        /\ R + RxBase(highest) <= Sent
        /\ N <= RxBase(status) /\ RxBase(status) <= RxBase(highest)
        /\ \A sn \in Sn : RxBase(sn) < N => FullyReceived(window, sn)
    BY StateMoves DEF Moved
  <1>2. SnTypes
    BY Sns
  <1>3. /\ R \in 0 .. AmWindowSize /\ Sent \in 0 .. AmWindowSize
        /\ \A sn \in Sn :
              /\ TxBase(sn) \in 0 .. SnModulus - 1 /\ RxBase(sn) \in 0 .. SnModulus - 1
              /\ RxBase(sn) = IF TxBase(sn) >= R THEN TxBase(sn) - R ELSE TxBase(sn) - R + SnModulus
    BY Positions
  <1>4. \A sn \in Sn : ModBase(sn, next) = IF RxBase(sn) >= N THEN RxBase(sn) - N
                                           ELSE RxBase(sn) - N + SnModulus
    BY <1>1, <1>2, Rebase DEF RxBase, SnTypes
  <1>5. WindowOK(window) /\ DOMAIN window = DOMAIN rx_window \cup {pdu.sn}
        /\ \A sn \in DOMAIN rx_window : sn # pdu.sn => window[sn] = rx_window[sn]
    BY StoredIs
  <1>6. DOMAIN kept = {sn \in DOMAIN window : RxBase(sn) >= N} /\ \A sn \in DOMAIN kept : kept[sn] = window[sn]
    BY DEF KeptAfter
  <1> HIDE DEF window, highest, status, next, kept, R
  <1>7. N \in Nat /\ RxBase(highest) \in Nat /\ RxBase(status) \in Nat /\ R + N <= Sent
    <2>1. N \in Nat /\ RxBase(highest) \in Nat /\ RxBase(status) \in Nat
      BY <1>1, <1>3, Half
    <2> QED
      BY <1>1, <1>3, <2>1, Half
  <1>8. TxBase(next) \in Nat /\ (N = IF TxBase(next) >= R THEN TxBase(next) - R ELSE TxBase(next) - R + SnModulus)
    BY <1>1, <1>3, Half
  <1> HIDE DEF N
  <1>9. N \in 0 .. AmWindowSize /\ TxBase(next) = R + N
    BY <1>3, <1>7, <1>8, Half
  <1>10. WindowOK(kept)
    BY <1>5, <1>6 DEF WindowOK
  <1>11. ASSUME NEW sn \in DOMAIN tx_window
         PROVE  (TxBase(sn) < TxBase(next) \/ FullyReceived(kept, sn)) <=> (Complete(sn) \/ FullyReceived(window, sn))
    <2>1. sn \in Sn
      BY DEF TypeOK, TxTypeOK
    <2> DEFINE t == TxBase(sn)
               r == RxBase(sn)
    <2>2. t \in Nat /\ r \in Nat /\ t < SnModulus /\ r < SnModulus
          /\ r = IF t >= R THEN t - R ELSE t - R + SnModulus
      BY <1>3, <2>1, Half
    <2>3. FullyReceived(kept, sn) <=> FullyReceived(window, sn) /\ r >= N
      BY <1>6 DEF FullyReceived
    <2>4. r < N => FullyReceived(window, sn)
      BY <1>1, <2>1 DEF N
    <2>5. FullyReceived(rx_window, sn) => FullyReceived(window, sn)
      BY <1>5 DEF FullyReceived, Accepted
    <2>6. Complete(sn) <=> t < R \/ FullyReceived(rx_window, sn)
      BY DEF Complete, R
    <2> HIDE DEF t, r
    <2>7. t < R + N <=> t < R \/ r < N
      BY <1>3, <1>9, <2>2, Half
    <2>8. r < N <=> ~(r >= N)
      BY <1>9, <2>2
    <2> QED
      BY <1>9, <2>3, <2>4, <2>5, <2>6, <2>7, <2>8 DEF t
  <1> QED
    BY <1>4, <1>6, <1>9, <1>10, <1>11 DEF Repositioned, window, next, kept, N, R

\* What handle_data_pdu does.
Receives(pdu) ==
  LET next == NextAfter(pdu)
      highest == RaisedHighest(pdu.sn)
      kept == KeptAfter(pdu)
      running == reassembly_timer /\ ~StopReassembly(next, kept)
      start == ~running /\ StartReassembly(next, highest, next, kept)
  IN  /\ rx_window' = kept
      /\ rx_next' = next /\ rx_next_highest' = highest /\ rx_highest_status' = StatusAfter(pdu)
      /\ delivered' = IF FullyReceived(Stored(pdu), pdu.sn)
                      THEN [delivered EXCEPT ![Reassembled(Stored(pdu)[pdu.sn])] = @ + 1] ELSE delivered
      /\ reassembly_timer' = (running \/ start)
      /\ rx_next_status_trigger' = IF start THEN highest ELSE rx_next_status_trigger
      /\ status_report' = IF pdu.p \/ BringsNewBytes(pdu)
                          THEN RefreshedReport(next, StatusAfter(pdu), kept) ELSE status_report
      /\ do_status' = (do_status \/ pdu.p)
      /\ UNCHANGED <<prohibit_timer, stat>>

LEMMA ReceivesSome ==
  ASSUME HandleDataPdu
  PROVE  \E pdu : Accepted(pdu) /\ data' \in Take(data, pdu) /\ Receives(pdu)
  BY Zenon DEF HandleDataPdu, Accepted, Receives, StatusAfter, NextAfter, KeptAfter, RxBase

\* The window and the state variables of the receiver.
LEMMA ReceivesKeepsRx ==
  ASSUME IInv, NEW pdu, Accepted(pdu), Receives(pdu), UNCHANGED txVars
  PROVE  RxInv'
  <1> USE DEF IInv
  <1> DEFINE window == Stored(pdu)
             highest == RaisedHighest(pdu.sn)
             status == StatusAfter(pdu)
             next == NextAfter(pdu)
             kept == KeptAfter(pdu)
             N == RxBase(next)
             R == TxBase(rx_next)
             B(sn) == ModBase(sn, next)
  <1>1. /\ highest \in Sn /\ status \in Sn /\ next \in Sn
        /\ RxBase(rx_next_highest) <= RxBase(highest)
        /\ R + RxBase(highest) <= Sent
        /\ N <= RxBase(status) /\ RxBase(status) <= RxBase(highest)
        /\ ~FullyReceived(window, next) /\ ~FullyReceived(window, status)
        /\ \A sn \in DOMAIN window : RxBase(sn) < RxBase(highest)
        /\ \E sn \in DOMAIN window : SnAdd(sn, 1) = highest
    BY StateMoves DEF Moved
  <1>2. /\ N \in 0 .. AmWindowSize /\ TxBase(next) = R + N
        /\ \A sn \in Sn : B(sn) = IF RxBase(sn) >= N THEN RxBase(sn) - N ELSE RxBase(sn) - N + SnModulus
        /\ DOMAIN kept = {sn \in DOMAIN window : RxBase(sn) >= N}
        /\ \A sn \in DOMAIN kept : kept[sn] = window[sn]
    BY Repositions DEF Repositioned
  <1>3. SnTypes /\ WindowOK(window) /\ DOMAIN window = DOMAIN rx_window \cup {pdu.sn}
    BY Sns, StoredIs
  <1>4. /\ R \in 0 .. AmWindowSize /\ Sent \in 0 .. AmWindowSize
        /\ \A sn \in Sn : RxBase(sn) \in 0 .. SnModulus - 1
    BY Positions
  <1>5. UNCHANGED <<tx_window, txSt, sn_under_segmentation, tx_next_ack>>
    BY DEF txVars, txSt
  <1>6. rx_window' = kept /\ rx_next' = next /\ rx_next_highest' = highest /\ rx_highest_status' = status
    BY DEF Receives
  <1> HIDE DEF window, highest, status, next, kept, R
  <1>7. \A sn \in Sn : RxBase(sn)' = B(sn)
    BY <1>6 DEF RxBase
  <1>8. /\ RxBase(rx_next_highest)' = RxBase(highest) - N /\ RxBase(rx_highest_status)' = RxBase(status) - N
        /\ RxBase(highest) \in N .. AmWindowSize /\ RxBase(status) \in N .. RxBase(highest)
    <2>1. RxBase(highest) \in Nat /\ RxBase(status) \in Nat /\ N \in Nat
      BY <1>1, <1>2, <1>4, Half
    <2>2. RxBase(highest) >= N /\ RxBase(status) >= N /\ RxBase(highest) <= AmWindowSize
      BY <1>1, <1>4, <2>1, Half
    <2>3. B(highest) = RxBase(highest) - N /\ B(status) = RxBase(status) - N
      BY <1>1, <1>2, <2>2
    <2>4. RxBase(rx_next_highest)' = B(highest) /\ RxBase(rx_highest_status)' = B(status)
      BY <1>6 DEF RxBase
    <2> QED
      BY <1>1, <2>1, <2>2, <2>3, <2>4
  <1>9. \A sn \in DOMAIN kept : /\ sn \in Sn /\ sn \in DOMAIN window /\ RxBase(sn) >= N
                                /\ RxBase(sn) \in Nat /\ B(sn) = RxBase(sn) - N
    BY <1>2, <1>3, <1>4, Half DEF WindowOK
  <1> HIDE DEF B, N
  <1>10. \A sn : FullyReceived(kept, sn) => FullyReceived(window, sn)
    BY <1>2 DEF FullyReceived
  <1>11. RxStateOrder'
    <2>1. RxBase(rx_highest_status)' <= RxBase(rx_next_highest)' /\ RxBase(rx_next_highest)' <= AmWindowSize
      BY <1>2, <1>8, Half
    <2>2. ~FullyReceived(rx_window', rx_next') /\ ~FullyReceived(rx_window', rx_highest_status')
      BY <1>1, <1>6, <1>10
    <2>3. \A sn \in DOMAIN rx_window' : RxBase(sn)' < RxBase(rx_next_highest)'
      <3> SUFFICES ASSUME NEW sn \in DOMAIN kept PROVE B(sn) < RxBase(highest) - N
        BY <1>6, <1>7, <1>8, <1>9
      <3> QED
        BY <1>1, <1>2, <1>8, <1>9, Half
    <2> QED
      BY <2>1, <2>2, <2>3 DEF RxStateOrder, RxBase, FullyReceived
  <1>12. (TxBase(rx_next) + RxBase(rx_next_highest) <= Sent)'
    <2>1. TxBase(rx_next)' = TxBase(next) /\ Sent' = Sent
      BY <1>5, <1>6 DEF TxBase, Sent, txSt
    <2> QED
      BY <1>1, <1>2, <1>4, <1>8, <2>1
  <1>13. highest # next => \E sn \in DOMAIN kept : SnAdd(sn, 1) = highest
    <2> SUFFICES ASSUME highest # next PROVE \E sn \in DOMAIN kept : SnAdd(sn, 1) = highest
      OBVIOUS
    <2>1. PICK sn \in DOMAIN window : SnAdd(sn, 1) = highest
      BY <1>1
    <2>2. RxBase(highest) # N
      BY <1>1, <1>3, BaseInjective DEF RxBase, N, SnTypes
    <2>3. sn \in Sn /\ 1 \in 0 .. SnModulus /\ RxBase(sn) < RxBase(highest)
      BY <1>1, <1>3, Half DEF WindowOK
    <2>4. RxBase(highest) = IF RxBase(sn) + 1 < SnModulus THEN RxBase(sn) + 1 ELSE RxBase(sn) + 1 - SnModulus
      BY <1>3, <2>1, <2>3, AddBase DEF RxBase, SnTypes
    <2>5. RxBase(sn) >= N
      BY <1>2, <1>4, <1>8, <2>2, <2>3, <2>4, Half
    <2> QED
      BY <1>2, <2>1, <2>5
  <1>14. (rx_next_highest # rx_next => \E sn \in DOMAIN rx_window : SnAdd(sn, 1) = rx_next_highest)'
    BY <1>6, <1>13
  <1>15. ASSUME reassembly_timer'
         PROVE  /\ RxBase(rx_next_status_trigger)' \in 1 .. RxBase(rx_next_highest)'
                /\ \E sn \in DOMAIN rx_window' : SnAdd(sn, 1) = rx_next_status_trigger'
    <2> DEFINE running == reassembly_timer /\ ~StopReassembly(next, kept)
               start == ~running /\ StartReassembly(next, highest, next, kept)
    <2>1. /\ running \/ start
          /\ rx_next_status_trigger' = IF start THEN highest ELSE rx_next_status_trigger
      BY <1>15 DEF Receives, next, kept, highest
    <2>2. CASE start
      <3>1. rx_next_status_trigger' = highest
        BY <2>1, <2>2
      <3>2. highest # next
        <4>1. StartReassembly(next, highest, next, kept)
          BY <2>2
        <4>2. CASE highest = SnAdd(next, 1)
          <5>1. 1 \in 0 .. SnModulus
            BY Half
          <5>2. ModBase(SnAdd(next, 1), next) = IF ModBase(next, next) + 1 < SnModulus THEN ModBase(next, next) + 1
                                                 ELSE ModBase(next, next) + 1 - SnModulus
            BY <1>1, <5>1, AddBase
          <5>3. ModBase(next, next) = 0
            BY <1>1, BaseType
          <5> QED
            BY <4>2, <5>2, <5>3, Half
        <4>3. CASE ModBase(highest, next) > ModBase(next + 1, next)
          <5>1. 1 \in 0 .. SnModulus
            BY Half
          <5>2. ModBase(next + 1, next) = ModBase(SnAdd(next, 1), next)
            BY <1>1, NextBase
          <5>3. SnAdd(next, 1) \in Sn
            BY <1>1, <5>1, AddType
          <5>4. ModBase(next + 1, next) \in 0 .. SnModulus - 1
            BY <1>1, <5>2, <5>3, BaseType
          <5>5. ModBase(next, next) = 0
            BY <1>1, BaseType
          <5> QED
            BY <4>3, <5>4, <5>5, Half
        <4> QED
          BY <4>1, <4>2, <4>3 DEF StartReassembly
      <3>3. RxBase(highest) # N
        BY <1>1, <1>3, <3>2, BaseInjective DEF RxBase, N, SnTypes
      <3>4. RxBase(rx_next_status_trigger)' = RxBase(rx_next_highest)'
        BY <1>6, <3>1 DEF RxBase
      <3>5. RxBase(rx_next_highest)' >= 1 /\ RxBase(rx_next_highest)' \in Int
        BY <1>2, <1>8, <3>3, Half
      <3> QED
        BY <1>6, <1>13, <3>1, <3>2, <3>4, <3>5
    <2>3. CASE ~start
      <3> DEFINE trigger == rx_next_status_trigger
                 H == RxBase(rx_next_highest)
      <3>1. running /\ trigger' = trigger
        BY <2>1, <2>3
      <3>2. reassembly_timer /\ trigger # next /\ ModBase(trigger, next) < AmWindowSize
        BY <3>1 DEF StopReassembly, InsideRxWindow
      <3>3. trigger \in Sn /\ RxBase(trigger) \in 1 .. H
        BY <1>3, <3>2 DEF RxInv, SnTypes
      <3>4. PICK sn \in DOMAIN rx_window : SnAdd(sn, 1) = trigger
        BY <3>2 DEF RxInv
      <3>5. H \in Nat /\ H <= RxBase(highest)
        BY <1>1, <1>3, <1>4, Half DEF SnTypes
      <3>6. RxBase(trigger) # N
        BY <1>1, <1>3, <3>2, <3>3, BaseInjective DEF RxBase, N, SnTypes
      <3>7. B(trigger) < AmWindowSize
        BY <3>2 DEF B
      <3>8. B(trigger) = IF RxBase(trigger) >= N THEN RxBase(trigger) - N ELSE RxBase(trigger) - N + SnModulus
        BY <1>2, <3>3
      <3> HIDE DEF trigger, H
      <3>9. RxBase(trigger) > N /\ B(trigger) = RxBase(trigger) - N /\ RxBase(trigger) \in Nat /\ N \in Nat
        BY <1>2, <3>3, <3>5, <3>6, <3>7, <3>8, Half
      <3>10. RxBase(trigger)' = B(trigger)
        BY <1>6, <3>1 DEF RxBase, B
      <3>11. RxBase(trigger)' \in 1 .. RxBase(rx_next_highest)'
        <4>1. RxBase(trigger) <= RxBase(highest) /\ RxBase(highest) \in Nat
          BY <1>8, <3>3, <3>5, <3>9, Half
        <4> QED
          BY <1>8, <3>9, <3>10, <4>1
      <3>12. sn \in Sn /\ sn \in DOMAIN window
        BY <1>3 DEF WindowOK
      <3>13. RxBase(sn) >= N
        <4>1. 1 \in 0 .. SnModulus
          BY Half
        <4>2. RxBase(trigger) = IF RxBase(sn) + 1 < SnModulus THEN RxBase(sn) + 1 ELSE RxBase(sn) + 1 - SnModulus
          BY <1>3, <3>4, <3>12, <4>1, AddBase DEF RxBase, SnTypes
        <4>3. RxBase(sn) \in 0 .. SnModulus - 1
          BY <1>4, <3>12
        <4> QED
          BY <3>9, <4>2, <4>3, Half
      <3>14. sn \in DOMAIN rx_window'
        BY <1>2, <1>6, <3>12, <3>13
      <3> QED
        BY <3>1, <3>4, <3>11, <3>14 DEF trigger
    <2> QED
      BY <2>2, <2>3
  <1>16. (\A sn \in DOMAIN rx_window : \A b \in DOMAIN rx_window[sn] :
             /\ rx_window[sn][b] = tx_window[sn].sdu
             /\ sn = sn_under_segmentation => b < tx_window[sn].next_so)'
    <2>1. \A sn \in DOMAIN window : \A b \in DOMAIN window[sn] :
             /\ window[sn][b] = tx_window[sn].sdu
             /\ sn = sn_under_segmentation => b < tx_window[sn].next_so
      BY StoredIs DEF window
    <2> QED
      BY <1>2, <1>5, <1>6, <2>1
  <1> QED
    BY <1>11, <1>12, <1>14, <1>15, <1>16 DEF RxInv

\* The cached report is refreshed unless nothing has changed.
LEMMA ReceivesKeepsReport ==
  ASSUME IInv, NEW pdu, Accepted(pdu), Receives(pdu)
  PROVE  CachedInv' /\ status_report'.ack_sn \in Sn /\ status_report'.nacks \subseteq Nack
  <1> USE DEF IInv
  <1> DEFINE window == Stored(pdu)
             status == StatusAfter(pdu)
             next == NextAfter(pdu)
             kept == KeptAfter(pdu)
  <1>1. /\ rx_window' = kept /\ rx_next' = next /\ rx_highest_status' = status
        /\ status_report' = IF pdu.p \/ BringsNewBytes(pdu) THEN RefreshedReport(next, status, kept)
                            ELSE status_report
    BY DEF Receives
  <1>2. /\ WindowOK(kept) /\ DOMAIN kept = {sn \in DOMAIN window : RxBase(sn) >= RxBase(next)}
        /\ \A sn \in DOMAIN kept : kept[sn] = window[sn]
    BY Repositions DEF Repositioned
  <1>3. next \in Sn /\ status \in Sn
        /\ (~FullyReceived(window, pdu.sn) => next = rx_next /\ status = rx_highest_status)
    BY StateMoves DEF Moved
  <1>4. /\ DOMAIN window = DOMAIN rx_window \cup {pdu.sn} /\ WindowOK(window)
        /\ \A sn \in DOMAIN rx_window : sn # pdu.sn => window[sn] = rx_window[sn]
        /\ DOMAIN window[pdu.sn] = Held(rx_window, pdu.sn) \cup Segment(pdu)
    BY StoredIs
  <1>5. SnTypes
    BY Sns
  <1> HIDE DEF window, status, next, kept
  <1>6. status_report' = RefreshedReport(next, status, kept)
    <2>1. CASE pdu.p \/ BringsNewBytes(pdu)
      BY <1>1, <2>1
    <2>2. CASE ~(pdu.p \/ BringsNewBytes(pdu))
      <3>1. pdu.sn \in DOMAIN rx_window /\ Segment(pdu) \subseteq DOMAIN rx_window[pdu.sn]
        BY <2>2 DEF BringsNewBytes
      <3>2. DOMAIN window = DOMAIN rx_window /\ DOMAIN window[pdu.sn] = DOMAIN rx_window[pdu.sn]
        BY <1>4, <3>1 DEF Held
      <3>3. ~FullyReceived(window, pdu.sn)
        BY <3>1, <3>2 DEF FullyReceived, Accepted
      <3>4. next = rx_next /\ status = rx_highest_status
        BY <1>3, <3>3
      <3>5. DOMAIN kept = DOMAIN rx_window
        <4>1. \A sn \in Sn : RxBase(sn) \in Nat /\ RxBase(next) = 0
          BY <1>5, <3>4, BaseType, Half DEF RxBase, SnTypes
        <4>2. \A sn \in Sn : RxBase(sn) >= RxBase(next)
          BY <4>1
        <4>3. DOMAIN window \subseteq Sn
          BY <1>4 DEF WindowOK
        <4> QED
          BY <1>2, <3>2, <4>2, <4>3
      <3>6. \A sn \in DOMAIN kept : DOMAIN kept[sn] = DOMAIN rx_window[sn]
        BY <1>2, <1>4, <3>2, <3>5
      <3>7. RefreshedReport(next, status, kept) = RefreshedReport(next, status, rx_window)
        BY <3>5, <3>6, SameHeld
      <3> QED
        BY <1>1, <2>2, <3>4, <3>7 DEF CachedInv
    <2> QED
      BY <2>1, <2>2
  <1>7. CachedInv'
    BY <1>1, <1>6 DEF CachedInv
  <1>8. Covers(status_report', next, status, kept)
    BY <1>2, <1>3, <1>6, RefreshCovers
  <1> QED
    BY <1>7, <1>8 DEF Covers

\* The SDU that is handed up is the one that was sent, and it has not been handed up before.
LEMMA ReceivesDelivers ==
  ASSUME IInv, NEW pdu, Accepted(pdu), Receives(pdu), UNCHANGED txVars
  PROVE  /\ UpperInv' /\ delivered' \in [0 .. MaxSdus -> Nat]
         /\ \/ delivered' = delivered
            \/ \E s \in 1 .. submitted : delivered[s] = 0 /\ delivered' = [delivered EXCEPT ![s] = 1]
  <1> USE DEF IInv
  <1> DEFINE window == Stored(pdu)
             next == NextAfter(pdu)
             kept == KeptAfter(pdu)
             done == FullyReceived(window, pdu.sn)
             s == tx_window[pdu.sn].sdu
  <1>1. /\ rx_window' = kept /\ rx_next' = next
        /\ delivered' = IF done THEN [delivered EXCEPT ![Reassembled(window[pdu.sn])] = @ + 1] ELSE delivered
    BY DEF Receives
  <1>2. /\ pdu.sn \in Sn /\ pdu.sn \in DOMAIN tx_window /\ ~Complete(pdu.sn)
        /\ s \in Sdu /\ s \in Nat /\ s # 0 /\ s <= submitted /\ submitted \in Nat
    <2>1. pdu.sn \in Sn /\ pdu.sn \in DOMAIN tx_window /\ ~Complete(pdu.sn)
      BY AcceptedIsSent
    <2>2. s \in Sdu /\ s \in Nat /\ submitted \in Nat
      BY <2>1, SduTypes
    <2>3. s # 0 /\ s <= submitted
      BY <2>1, <2>2 DEF SduInv, Sdu
    <2> QED
      BY <2>1, <2>2, <2>3
  <1>3. \A sn \in DOMAIN tx_window :
          (TxBase(sn) < TxBase(next) \/ FullyReceived(kept, sn)) <=> (Complete(sn) \/ FullyReceived(window, sn))
    BY Repositions DEF Repositioned
  <1>4. /\ DOMAIN window = DOMAIN rx_window \cup {pdu.sn}
        /\ \A sn \in DOMAIN rx_window : sn # pdu.sn => window[sn] = rx_window[sn]
        /\ \A b \in DOMAIN window[pdu.sn] : window[pdu.sn][b] = s
    <2>1. /\ DOMAIN window = DOMAIN rx_window \cup {pdu.sn}
          /\ \A sn \in DOMAIN rx_window : sn # pdu.sn => window[sn] = rx_window[sn]
          /\ \A sn \in DOMAIN window : \A b \in DOMAIN window[sn] : window[sn][b] = tx_window[sn].sdu
      BY StoredIs
    <2> HIDE DEF window
    <2>2. pdu.sn \in DOMAIN window
      BY <2>1
    <2> QED
      BY <2>1, <2>2
  <1>5. UNCHANGED <<submitted, sdu_queue, tx_window, tx_next_ack, confirmed, upper_cn>>
    BY DEF txVars, txSt, upperSt
  <1>6. delivered \in [0 .. MaxSdus -> Nat] /\ MaxSdus \in Nat
    BY RlcAmPduAssumption DEF TypeOK, RxTypeOK
  <1> HIDE DEF window, next, kept
  <1>7. \A sn \in DOMAIN tx_window : Complete(sn)' <=> Complete(sn) \/ (sn = pdu.sn /\ done)
    <2> SUFFICES ASSUME NEW sn \in DOMAIN tx_window
                 PROVE  Complete(sn)' <=> Complete(sn) \/ (sn = pdu.sn /\ done)
      OBVIOUS
    <2>1. Complete(sn)' <=> TxBase(sn) < TxBase(next) \/ FullyReceived(kept, sn)
      BY <1>1, <1>5 DEF Complete, TxBase, FullyReceived
    <2>2. sn # pdu.sn /\ FullyReceived(window, sn) => FullyReceived(rx_window, sn)
      BY <1>4 DEF FullyReceived
    <2>3. FullyReceived(rx_window, sn) => Complete(sn)
      BY DEF Complete
    <2> QED
      BY <1>3, <2>1, <2>2, <2>3
  <1> HIDE DEF done, s
  <1>8. CASE ~done
    <2>1. delivered' = delivered
      BY <1>1, <1>8
    <2>2. \A sn \in DOMAIN tx_window : Complete(sn)' <=> Complete(sn)
      BY <1>7, <1>8
    <2>3. UpperInv'
      BY <1>5, <2>1, <2>2 DEF UpperInv
    <2> QED
      BY <1>6, <2>1, <2>3
  <1>9. CASE done
    <2>1. Reassembled(window[pdu.sn]) = s
      <3>1. DOMAIN window[pdu.sn] = Bytes /\ 0 \in Bytes
        BY <1>9, RlcAmPduAssumption DEF done, FullyReceived, Bytes
      <3>2. \A b \in Bytes : window[pdu.sn][b] = s
        BY <1>4, <3>1
      <3> QED
        BY <3>1, <3>2 DEF Reassembled
    <2>2. delivered[s] \in {0, 1} /\ delivered[s] # 1
      BY <1>2 DEF UpperInv, s
    <2>3. delivered' = [delivered EXCEPT ![s] = 1]
      <3>1. delivered[s] = 0 /\ 0 + 1 = 1
        BY <2>2
      <3> QED
        BY <1>1, <1>9, <2>1, <3>1
    <2>4. s \in 0 .. MaxSdus /\ s \in 1 .. submitted
      BY <1>2, <1>6 DEF Sdu
    <2>5. /\ delivered' \in [0 .. MaxSdus -> Nat] /\ delivered'[s] = 1
          /\ \A x \in 0 .. MaxSdus : x # s => delivered'[x] = delivered[x]
      BY <1>6, <2>3, <2>4
    <2>6. \A x \in Sdu : x \in 0 .. MaxSdus
      BY <1>6 DEF Sdu
    <2>7. delivered'[0] = 0
      BY <1>2, <1>6, <2>5 DEF UpperInv
    <2>8. \A x \in Sdu : delivered'[x] \in {0, 1} /\ (x > submitted' => delivered'[x] = 0)
      <3> TAKE x \in Sdu
      <3>1. CASE x = s
        BY <1>2, <1>5, <2>5, <3>1
      <3>2. CASE x # s
        BY <1>5, <2>5, <2>6, <3>2 DEF UpperInv
      <3> QED
        BY <3>1, <3>2
    <2>9. \A i \in DOMAIN sdu_queue' : delivered'[sdu_queue'[i].sdu] = 0
      <3> SUFFICES ASSUME NEW i \in DOMAIN sdu_queue PROVE delivered'[sdu_queue[i].sdu] = 0
        BY <1>5
      <3>1. s < sdu_queue[i].sdu /\ sdu_queue[i].sdu \in Nat /\ sdu_queue[i].sdu \in Sdu
        BY <1>2, SduTypes DEF SduInv, s
      <3>2. s # sdu_queue[i].sdu
        BY <1>2, <3>1
      <3> QED
        BY <2>5, <2>6, <3>1, <3>2 DEF UpperInv
    <2>10. ASSUME NEW sn \in DOMAIN tx_window
           PROVE  delivered'[tx_window[sn].sdu] = 1 <=> Complete(sn)'
      <3>1. tx_window[sn].sdu \in Sdu /\ tx_window[sn].sdu \in Nat /\ sn \in Sn
        BY SduTypes
      <3>2. CASE sn = pdu.sn
        BY <1>7, <1>9, <2>5, <3>2 DEF s
      <3>3. CASE sn # pdu.sn
        <4>1. TxBase(sn) # TxBase(pdu.sn) /\ TxBase(sn) \in Nat /\ TxBase(pdu.sn) \in Nat
          <5>1. tx_next_ack \in Sn
            BY Sns DEF SnTypes
          <5> QED
            BY <1>2, <3>1, <3>3, <5>1, BaseType, BaseInjective, Half DEF TxBase
        <4>2. TxBase(sn) < TxBase(pdu.sn) \/ TxBase(pdu.sn) < TxBase(sn)
          BY <4>1
        <4>3. tx_window[sn].sdu < s \/ s < tx_window[sn].sdu
          BY <1>2, <4>2 DEF SduInv, s
        <4>4. tx_window[sn].sdu # s
          BY <1>2, <3>1, <4>3
        <4>5. delivered'[tx_window[sn].sdu] = delivered[tx_window[sn].sdu]
          BY <2>5, <2>6, <3>1, <4>4
        <4>6. Complete(sn)' <=> Complete(sn)
          BY <1>7, <3>3
        <4> QED
          BY <4>5, <4>6 DEF UpperInv
      <3> QED
        BY <3>2, <3>3
    <2>11. \A c \in confirmed' : c <= submitted' /\ delivered'[c] = 1
      <3> SUFFICES ASSUME NEW c \in confirmed PROVE c <= submitted /\ delivered'[c] = 1
        BY <1>5
      <3>1. c \in Sdu /\ c <= submitted /\ delivered[c] = 1
        BY DEF UpperInv, TypeOK, TxTypeOK
      <3> QED
        BY <2>5, <2>6, <3>1
    <2>12. UpperInv'
      BY <1>5, <2>7, <2>8, <2>9, <2>10, <2>11 DEF UpperInv
    <2> QED
      BY <2>2, <2>3, <2>4, <2>5, <2>12
  <1> QED
    BY <1>8, <1>9

\* Reports that were true stay true.
LEMMA ReceivesKeepsStat ==
  ASSUME IInv, NEW pdu, Accepted(pdu), Receives(pdu), UNCHANGED txVars
  PROVE  StatInv'
  <1> USE DEF IInv
  <1> DEFINE window == Stored(pdu)
             highest == RaisedHighest(pdu.sn)
             next == NextAfter(pdu)
             kept == KeptAfter(pdu)
             N == RxBase(next)
             S == TxBase(rx_next) + RxBase(rx_next_highest)
  <1>1. rx_window' = kept /\ rx_next' = next /\ rx_next_highest' = highest /\ stat' = stat
    BY DEF Receives
  <1>2. UNCHANGED <<tx_window, tx_next_ack, sn_under_segmentation>>
    BY DEF txVars, txSt
  <1>3. /\ highest \in Sn /\ next \in Sn /\ RxBase(rx_next_highest) <= RxBase(highest)
        /\ N <= RxBase(StatusAfter(pdu)) /\ RxBase(StatusAfter(pdu)) <= RxBase(highest)
        /\ StatusAfter(pdu) \in Sn
    BY StateMoves DEF Moved
  <1>4. /\ N \in 0 .. AmWindowSize /\ TxBase(next) = TxBase(rx_next) + N
        /\ ModBase(highest, next) = IF RxBase(highest) >= N THEN RxBase(highest) - N
                                    ELSE RxBase(highest) - N + SnModulus
        /\ \A sn \in DOMAIN tx_window :
             (TxBase(sn) < TxBase(next) \/ FullyReceived(kept, sn)) <=> (Complete(sn) \/ FullyReceived(window, sn))
    BY <1>3, Repositions DEF Repositioned
  <1>5. TxBase(rx_next) \in Nat /\ RxBase(rx_next_highest) \in Nat /\ RxBase(highest) \in Nat
        /\ RxBase(StatusAfter(pdu)) \in Nat /\ S \in Nat
    <2>1. \A sn \in Sn : TxBase(sn) \in Nat /\ RxBase(sn) \in Nat
      BY Positions, Half
    <2> QED
      BY <1>3, <2>1, Sns DEF SnTypes
  <1> HIDE DEF window, highest, next, kept
  <1>6. (TxBase(rx_next) + RxBase(rx_next_highest))' >= S /\ (TxBase(rx_next) + RxBase(rx_next_highest))' \in Nat
    <2>1. TxBase(rx_next)' = TxBase(next) /\ RxBase(rx_next_highest)' = ModBase(highest, next)
      BY <1>1, <1>2 DEF TxBase, RxBase
    <2>2. RxBase(highest) >= N
      BY <1>3, <1>4, <1>5
    <2> QED
      BY <1>3, <1>4, <1>5, <2>1, <2>2
  <1>7. \A sn \in DOMAIN tx_window : Complete(sn) => Complete(sn)'
    <2> SUFFICES ASSUME NEW sn \in DOMAIN tx_window, Complete(sn) PROVE Complete(sn)'
      OBVIOUS
    <2>1. TxBase(sn) < TxBase(next) \/ FullyReceived(kept, sn)
      BY <1>4
    <2> QED
      BY <1>1, <1>2, <2>1 DEF Complete, TxBase, FullyReceived
  <1>8. \A sn \in Sn : TxBase(sn)' = TxBase(sn) /\ TxBase(sn) \in Nat
    BY <1>2, Positions, Half DEF TxBase
  <1> HIDE DEF S
  <1>9. ASSUME NEW r \in stat, ReportInv(r)
        PROVE  ReportInv(r)'
    <2>1. r.ack_sn \in Sn /\ (\A n \in r.nacks : n.sn \in Sn) /\ DOMAIN tx_window \subseteq Sn
      BY DEF TypeOK, ChannelTypeOK, Nack, TxTypeOK
    <2> DEFINE T == (TxBase(rx_next) + RxBase(rx_next_highest))'
               ack == TxBase(r.ack_sn)
    <2>2. T >= S /\ T \in Nat /\ S \in Nat /\ ack \in Nat
      BY <1>5, <1>6, <1>8, <2>1
    <2>3. CASE ack > AmWindowSize
      BY <1>8, <2>1, <2>3 DEF ReportInv
    <2>4. CASE ~(ack > AmWindowSize)
      <3>1. /\ ack <= S
            /\ \A sn \in DOMAIN tx_window :
                 TxBase(sn) < ack /\ (\A nack \in r.nacks : nack.sn # sn) => Complete(sn)
            /\ \A nack \in r.nacks :
                 TxBase(nack.sn) < ack =>
                   /\ ~nack.has_so => TxBase(nack.sn) + 1 < S
                   /\ nack.has_so /\ nack.so_end # EndOfSdu /\ nack.sn = sn_under_segmentation
                        => nack.so_end < tx_window[nack.sn].next_so
        BY <1>9, <2>4 DEF ReportInv, S
      <3> HIDE DEF T, ack
      <3>2. ack <= T
        BY <2>2, <3>1
      <3>3. \A sn \in DOMAIN tx_window :
              TxBase(sn)' < ack /\ (\A nack \in r.nacks : nack.sn # sn) => Complete(sn)'
        BY <1>7, <1>8, <2>1, <3>1
      <3>4. ASSUME NEW nack \in r.nacks, TxBase(nack.sn)' < ack
            PROVE  /\ ~nack.has_so => TxBase(nack.sn)' + 1 < T
                   /\ nack.has_so /\ nack.so_end # EndOfSdu /\ nack.sn = sn_under_segmentation
                        => nack.so_end < tx_window[nack.sn].next_so
        <4>1. TxBase(nack.sn)' = TxBase(nack.sn) /\ TxBase(nack.sn) \in Nat
          BY <1>8, <2>1
        <4>2. ~nack.has_so => TxBase(nack.sn) + 1 < S
          BY <3>1, <3>4, <4>1
        <4>3. ~nack.has_so => TxBase(nack.sn) + 1 < T
          BY <2>2, <4>1, <4>2
        <4> QED
          BY <3>1, <3>4, <4>1, <4>3
      <3>5. TxBase(r.ack_sn)' = ack
        BY <1>8, <2>1 DEF ack
      <3> QED
        BY <1>2, <3>2, <3>3, <3>4, <3>5 DEF ReportInv, T
    <2> QED
      BY <2>3, <2>4
  <1>10. \A nack : NackInv(nack) => NackInv(nack)'
    BY DEF NackInv
  <1> QED
    BY <1>1, <1>9, <1>10 DEF StatInv

LEMMA HandleDataPduKeeps ==
  ASSUME IInv, HandleDataPdu, UNCHANGED txVars
  PROVE  IInv'
  <1> USE DEF IInv, TypeOK
  <1>1. PICK pdu : Accepted(pdu) /\ data' \in Take(data, pdu) /\ Receives(pdu)
    BY ReceivesSome
  <1>2. UNCHANGED <<submitted, sdu_queue, tx_window, txSt, retx_queue, sn_under_segmentation>>
    BY DEF txVars, retxSt
  <1>3. data' \subseteq data /\ stat' = stat
    BY <1>1 DEF Take, Receives
  <1>4. RxInv' /\ CachedInv' /\ UpperInv' /\ StatInv'
    BY <1>1, ReceivesKeepsRx, ReceivesKeepsReport, ReceivesDelivers, ReceivesKeepsStat
  <1>5. RxTypeOK'
    <2>1. /\ status_report'.ack_sn \in Sn /\ status_report'.nacks \subseteq Nack
          /\ delivered' \in [0 .. MaxSdus -> Nat]
      BY <1>1, ReceivesKeepsReport, ReceivesDelivers
    <2>2. RaisedHighest(pdu.sn) \in Sn /\ StatusAfter(pdu) \in Sn /\ NextAfter(pdu) \in Sn
      BY <1>1, StateMoves DEF Moved
    <2>3. /\ rx_window' = KeptAfter(pdu) /\ rx_next' = NextAfter(pdu) /\ rx_next_highest' = RaisedHighest(pdu.sn)
          /\ rx_highest_status' = StatusAfter(pdu)
          /\ rx_next_status_trigger' \in {RaisedHighest(pdu.sn), rx_next_status_trigger}
          /\ prohibit_timer' = prohibit_timer
      BY <1>1 DEF Receives
    <2>4. reassembly_timer' \in BOOLEAN /\ do_status' \in BOOLEAN
      BY <1>1 DEF Receives
    <2>5. WindowOK(rx_window')
      BY <1>1, <2>3, Repositions DEF Repositioned
    <2>6. \A sn \in DOMAIN rx_window' : /\ DOMAIN rx_window'[sn] \subseteq Bytes
                                        /\ \A b \in DOMAIN rx_window'[sn] : rx_window'[sn][b] \in Sdu
      <3> TAKE sn \in DOMAIN rx_window'
      <3>1. sn \in DOMAIN Stored(pdu) /\ rx_window'[sn] = Stored(pdu)[sn]
        BY <1>1, <2>3, Repositions DEF Repositioned
      <3>2. \A b \in DOMAIN Stored(pdu)[sn] : Stored(pdu)[sn][b] = tx_window[sn].sdu
        BY <1>1, <3>1, StoredIs
      <3>3. sn \in DOMAIN tx_window
        <4>1. SnTypes /\ WindowOK(Stored(pdu)) /\ RxBase(sn) < RxBase(RaisedHighest(pdu.sn))
              /\ TxBase(rx_next) + RxBase(RaisedHighest(pdu.sn)) <= Sent
          BY <1>1, <3>1, Sns, StoredIs, StateMoves DEF Moved
        <4>2. sn \in Sn
          BY <3>1, <4>1 DEF WindowOK
        <4>3. /\ TxBase(rx_next) \in 0 .. AmWindowSize /\ Sent \in 0 .. AmWindowSize
              /\ TxBase(sn) \in 0 .. SnModulus - 1 /\ RxBase(sn) \in 0 .. SnModulus - 1
              /\ RxBase(RaisedHighest(pdu.sn)) \in 0 .. SnModulus - 1
              /\ RxBase(sn) = IF TxBase(sn) >= TxBase(rx_next) THEN TxBase(sn) - TxBase(rx_next)
                              ELSE TxBase(sn) - TxBase(rx_next) + SnModulus
              /\ sn \in DOMAIN tx_window <=> TxBase(sn) < Sent
          BY <2>2, <4>2, Positions
        <4>4. TxBase(sn) < Sent
          BY <4>1, <4>3, Half
        <4> QED
          BY <4>3, <4>4
      <3>4. tx_window[sn].sdu \in Sdu
        BY <3>3, SduTypes
      <3> QED
        BY <2>5, <3>1, <3>2, <3>4 DEF WindowOK
    <2> QED
      BY <2>1, <2>2, <2>3, <2>4, <2>5, <2>6 DEF RxTypeOK, WindowOK
  <1> QED
    BY <1>2, <1>3, <1>4, <1>5, TxTypeFrame, ChannelTypeFrame, TxFrame, SduFrame, RetxFrame, DataFrame

-----------------------------------------------------------------------------
(* New SNs.                                                                *)

\* What the receiver holds is in the TX window.
LEMMA RxInTx ==
  ASSUME TypeOK, TxInv, RxInv, NEW sn \in DOMAIN rx_window
  PROVE  sn \in Sn /\ sn \in DOMAIN tx_window /\ TxBase(sn) = TxBase(rx_next) + RxBase(sn)
  <1>1. sn \in Sn /\ RxBase(sn) < RxBase(rx_next_highest)
    BY DEF TypeOK, RxTypeOK, RxInv, RxStateOrder, RxBase
  <1> DEFINE R == TxBase(rx_next)
             H == RxBase(rx_next_highest)
             t == TxBase(sn)
             r == RxBase(sn)
  <1>2. /\ R \in 0 .. AmWindowSize /\ H \in 0 .. AmWindowSize /\ Sent \in 0 .. AmWindowSize /\ R + H <= Sent
        /\ t \in 0 .. SnModulus - 1 /\ r \in 0 .. SnModulus - 1
        /\ r = IF t >= R THEN t - R ELSE t - R + SnModulus
        /\ sn \in DOMAIN tx_window <=> t < Sent
    BY <1>1, Positions
  <1>3. r < H
    BY <1>1
  <1> HIDE DEF R, H, t, r
  <1>4. t = R + r /\ t < Sent
    BY <1>2, <1>3, Half
  <1> QED
    BY <1>1, <1>2, <1>4 DEF R, t, r

\* The SDU that read() returns.
FromQueue(s) ==
  /\ s \in Sdu /\ s <= submitted /\ delivered[s] = 0
  /\ \A sn \in DOMAIN tx_window : tx_window[sn].sdu < s
  /\ Suffix(sdu_queue', sdu_queue)
  /\ \A i \in DOMAIN sdu_queue' : s < sdu_queue'[i].sdu

LEMMA ReadsHead ==
  ASSUME IInv, PopDiscarded(sdu_queue) # <<>>, sdu_queue' = Tail(PopDiscarded(sdu_queue))
  PROVE  FromQueue(Head(PopDiscarded(sdu_queue)).sdu)
  <1> USE DEF IInv
  <1> DEFINE live == PopDiscarded(sdu_queue)
             s == Head(live).sdu
  <1>1. sdu_queue \in Seq(Entries) /\ Len(sdu_queue) \in Nat /\ DOMAIN sdu_queue = 1 .. Len(sdu_queue)
    BY SduTypes
  <1>2. Suffix(live, sdu_queue) /\ live # <<>>
    BY <1>1, PopsSuffix
  <1> HIDE DEF live
  <1>3. live \in Seq(Entries)
    BY <1>2 DEF Suffix
  <1>4. PICK m \in 0 .. Len(sdu_queue) : /\ Len(live) = Len(sdu_queue) - m
                                         /\ \A i \in 1 .. Len(live) : live[i].sdu = sdu_queue[i + m].sdu
    BY <1>2 DEF Suffix
  <1>5. /\ Head(live) = live[1] /\ Len(live) \in Nat /\ Len(live) >= 1
        /\ Tail(live) \in Seq(Entries) /\ Len(Tail(live)) = Len(live) - 1
        /\ \A i \in 1 .. Len(Tail(live)) : Tail(live)[i] = live[i + 1]
    <2>1. /\ Tail(live) \in Seq(Entries) /\ Len(Tail(live)) = Len(live) - 1
          /\ \A i \in 1 .. Len(Tail(live)) : Tail(live)[i] = live[i + 1]
          /\ Head(live) = live[1]
      BY <1>2, <1>3, HeadTailProperties
    <2>2. Len(live) \in Nat /\ Len(live) # 0
      BY <1>2, <1>3, EmptySeq
    <2> QED
      BY <2>1, <2>2
  <1>6. 1 + m \in DOMAIN sdu_queue /\ s = sdu_queue[1 + m].sdu
    BY <1>1, <1>4, <1>5
  <1> DEFINE q == Tail(live)
  <1>7. sdu_queue' = q
    BY DEF live
  <1> HIDE DEF s, q
  <1>8. \A i \in 1 .. Len(q) : /\ q[i].sdu = sdu_queue[i + (m + 1)].sdu /\ i + (m + 1) \in DOMAIN sdu_queue
    <2> TAKE i \in 1 .. Len(q)
    <2>1. i + 1 \in 1 .. Len(live) /\ q[i] = live[i + 1] /\ i \in Int
      BY <1>5 DEF q
    <2>2. live[i + 1].sdu = sdu_queue[(i + 1) + m].sdu
      BY <1>4, <2>1
    <2>3. (i + 1) + m = i + (m + 1)
      BY <1>4, <2>1
    <2> QED
      BY <1>1, <1>4, <2>1, <2>2, <2>3
  <1>9. Suffix(q, sdu_queue)
    <2>1. m + 1 \in 0 .. Len(sdu_queue) /\ Len(q) = Len(sdu_queue) - (m + 1)
      <3>1. Len(q) = Len(live) - 1 /\ Len(live) >= 1 /\ Len(live) = Len(sdu_queue) - m
        BY <1>4, <1>5 DEF q
      <3>2. m \in Nat /\ Len(sdu_queue) \in Nat
        BY <1>1, <1>4
      <3> QED
        BY <3>1, <3>2
    <2>2. q \in Seq(Entries)
      BY <1>5 DEF q
    <2> QED
      BY <1>8, <2>1, <2>2 DEF Suffix
  <1>10. \A i \in DOMAIN q : s < q[i].sdu
    <2> TAKE i \in DOMAIN q
    <2>1. i \in 1 .. Len(q)
      BY <1>5 DEF q
    <2>2. i + (m + 1) \in DOMAIN sdu_queue /\ 1 + m < i + (m + 1)
      BY <1>4, <1>8, <2>1
    <2>3. sdu_queue[1 + m].sdu < sdu_queue[i + (m + 1)].sdu
      BY <1>6, <2>2 DEF SduInv
    <2> QED
      BY <1>6, <1>8, <2>1, <2>3
  <1>11. s \in Sdu
    BY <1>6, SduTypes
  <1>12. s <= submitted /\ delivered[s] = 0 /\ \A sn \in DOMAIN tx_window : tx_window[sn].sdu < s
    BY <1>6 DEF SduInv, UpperInv
  <1> QED
    BY <1>7, <1>9, <1>10, <1>11, <1>12 DEF FromQueue, s, live

\* TX_Next is given to an SDU, whole or only its first segment.
TakesSn(s, so, pdu) ==
  /\ tx_window' = AddSn(s, so) /\ so \in 0 .. SduLen
  /\ \/ tx_next' = SnAdd(tx_next, 1) /\ sn_under_segmentation' = NoSn
     \/ tx_next' = tx_next /\ sn_under_segmentation' = tx_next /\ so \in 1 .. SduLen - 1 /\ pdu.len <= so
  /\ data' = YoungData(tx_next) \cup {pdu}
  /\ pdu.sn = tx_next /\ pdu.so = 0 /\ pdu.len \in 1 .. SduLen /\ pdu.sdu = s
  /\ retx_queue = <<>>
  /\ UNCHANGED <<submitted, tx_next_ack, retx_queue, upperSt, stat>>

\* The window grows by one SN.
LEMMA NewSn ==
  ASSUME IInv, ~IsTxWindowFull(tx_window), sn_under_segmentation = NoSn,
         NEW s, NEW so, NEW pdu, TakesSn(s, so, pdu)
  PROVE  /\ Sent < AmWindowSize /\ Sent' = Sent + 1 /\ TxBase(tx_next) = Sent
         /\ \A sn \in Sn : TxBase(sn)' = TxBase(sn)
         /\ tx_next \notin DOMAIN tx_window /\ DOMAIN tx_window' = DOMAIN tx_window \cup {tx_next}
         /\ \A sn \in DOMAIN tx_window : tx_window'[sn] = tx_window[sn]
         /\ tx_window'[tx_next] = [sdu |-> s, next_so |-> so, retx_count |-> NotStarted]
         /\ tx_next' \in Sn /\ TxInv'
  <1> USE DEF IInv
  <1>1. SnTypes
    BY Sns
  <1>2. Sent < AmWindowSize /\ Sent \in 0 .. AmWindowSize /\ TxBase(tx_next) = Sent
    <2>1. Sent \in 0 .. AmWindowSize /\ Cardinality(DOMAIN tx_window) = Sent /\ TxBase(tx_next) \in 0 .. AmWindowSize
          /\ Sent = TxBase(tx_next) + 0
      BY SentCount
    <2> QED
      BY <2>1, Half DEF IsTxWindowFull
  <1>3. \A sn \in Sn : TxBase(sn)' = TxBase(sn) /\ TxBase(sn) \in 0 .. SnModulus - 1
    BY <1>1, BaseType DEF TakesSn, TxBase, SnTypes
  <1>4. 1 \in 0 .. SnModulus
    BY Half
  <1>5. SnAdd(tx_next, 1) \in Sn /\ TxBase(SnAdd(tx_next, 1)) = Sent + 1
    <2>1. SnAdd(tx_next, 1) \in Sn
      BY <1>1, <1>4, AddType DEF SnTypes
    <2>2. TxBase(SnAdd(tx_next, 1)) = IF TxBase(tx_next) + 1 < SnModulus THEN TxBase(tx_next) + 1
                                      ELSE TxBase(tx_next) + 1 - SnModulus
      BY <1>1, <1>4, AddBase DEF SnTypes, TxBase
    <2> QED
      BY <1>2, <2>1, <2>2, Half
  <1>6. tx_next' \in Sn /\ Sent' = Sent + 1
    <2>1. CASE tx_next' = SnAdd(tx_next, 1) /\ sn_under_segmentation' = NoSn
      <3>1. TxBase(tx_next)' = TxBase(SnAdd(tx_next, 1))
        BY <2>1 DEF TxBase, TakesSn
      <3>2. Sent' = TxBase(tx_next)' + 0
        BY <2>1 DEF Sent
      <3> QED
        BY <1>2, <1>5, <2>1, <3>1, <3>2
    <2>2. CASE tx_next' = tx_next /\ sn_under_segmentation' = tx_next
      <3>1. TxBase(tx_next)' = TxBase(tx_next)
        BY <2>2 DEF TxBase, TakesSn
      <3>2. tx_next # NoSn
        BY <1>1, Half DEF SnTypes, Sn, NoSn
      <3>3. Sent' = TxBase(tx_next)' + 1
        BY <2>2, <3>2 DEF Sent
      <3> QED
        BY <1>1, <1>2, <2>2, <3>1, <3>3 DEF SnTypes
    <2> QED
      BY <2>1, <2>2 DEF TakesSn
  <1>7. DOMAIN tx_window = {sn \in Sn : TxBase(sn) < Sent} /\ tx_next \notin DOMAIN tx_window
    BY <1>2 DEF TxInv
  <1>8. /\ DOMAIN tx_window' = DOMAIN tx_window \cup {tx_next}
        /\ \A sn \in DOMAIN tx_window : tx_window'[sn] = tx_window[sn]
        /\ tx_window'[tx_next] = [sdu |-> s, next_so |-> so, retx_count |-> NotStarted]
    BY <1>7 DEF TakesSn, AddSn
  <1>9. DOMAIN tx_window' = {sn \in Sn : TxBase(sn)' < Sent'}
    <2>1. \A sn \in Sn : TxBase(sn) < Sent + 1 <=> TxBase(sn) < Sent \/ sn = tx_next
      <3> TAKE sn \in Sn
      <3>1. TxBase(sn) = Sent <=> sn = tx_next
        BY <1>1, <1>2, BaseInjective DEF TxBase, SnTypes
      <3> QED
        BY <1>2, <1>3, <3>1, Half
    <2> QED
      BY <1>1, <1>3, <1>6, <1>7, <1>8, <2>1 DEF SnTypes
  <1>10. TxInv'
    <2>1. Sent' <= AmWindowSize
      BY <1>2, <1>6, Half
    <2>2. (sn_under_segmentation \in {NoSn, tx_next})'
      BY DEF TakesSn
    <2>3. sn_under_segmentation' # NoSn => tx_window'[tx_next'].next_so \in 1 .. SduLen - 1
      BY <1>8 DEF TakesSn
    <2> QED
      BY <1>9, <2>1, <2>2, <2>3 DEF TxInv
  <1> QED
    BY <1>2, <1>3, <1>6, <1>7, <1>8, <1>10

LEMMA NewSnKeepsSdus ==
  ASSUME IInv, ~IsTxWindowFull(tx_window), sn_under_segmentation = NoSn, UNCHANGED rxVars,
         NEW s, NEW so, NEW pdu, TakesSn(s, so, pdu), FromQueue(s)
  PROVE  SduInv' /\ UpperInv'
  <1> USE DEF IInv
  <1>1. /\ TxBase(tx_next) = Sent
        /\ \A sn \in Sn : TxBase(sn)' = TxBase(sn)
        /\ DOMAIN tx_window' = DOMAIN tx_window \cup {tx_next}
        /\ \A sn \in DOMAIN tx_window : tx_window'[sn] = tx_window[sn]
        /\ tx_window'[tx_next] = [sdu |-> s, next_so |-> so, retx_count |-> NotStarted]
        /\ tx_next \notin DOMAIN tx_window
    BY NewSn
  <1>2. SnTypes /\ sdu_queue \in Seq(Entries)
    BY Sns, SduTypes
  <1>3. /\ s \in Sdu /\ s <= submitted /\ delivered[s] = 0
        /\ \A sn \in DOMAIN tx_window : tx_window[sn].sdu < s
        /\ \A i \in DOMAIN sdu_queue' : s < sdu_queue'[i].sdu
    BY DEF FromQueue
  <1>4. /\ \A i \in DOMAIN sdu_queue' : \E j \in DOMAIN sdu_queue : sdu_queue'[i].sdu = sdu_queue[j].sdu
        /\ \A i, j \in DOMAIN sdu_queue' : i < j => sdu_queue'[i].sdu < sdu_queue'[j].sdu
    BY <1>2, SuffixFacts DEF SduInv, FromQueue
  <1>5. UNCHANGED <<submitted, upper_cn, confirmed, rx_next, rx_window, delivered>>
    BY DEF TakesSn, upperSt, rxVars, rxSt
  <1>6. tx_window'[tx_next].sdu = s
    BY <1>1
  <1>7. \A sn \in DOMAIN tx_window : sn \in Sn /\ TxBase(sn) < Sent
    BY DEF TxInv
  <1>8. SduInv'
    <2>1. \A i \in DOMAIN sdu_queue' : sdu_queue'[i].sdu <= submitted'
      BY <1>4, <1>5 DEF SduInv
    <2>2. ASSUME NEW sn \in DOMAIN tx_window'
          PROVE  /\ tx_window'[sn].sdu <= submitted'
                 /\ \A i \in DOMAIN sdu_queue' : tx_window'[sn].sdu < sdu_queue'[i].sdu
      <3>1. CASE sn = tx_next
        BY <1>3, <1>5, <1>6, <3>1
      <3>2. CASE sn \in DOMAIN tx_window
        <4>1. tx_window'[sn].sdu = tx_window[sn].sdu
          BY <1>1, <3>2
        <4>2. tx_window[sn].sdu <= submitted /\ \A j \in DOMAIN sdu_queue : tx_window[sn].sdu < sdu_queue[j].sdu
          BY <3>2 DEF SduInv
        <4> QED
          BY <1>4, <1>5, <4>1, <4>2
      <3> QED
        BY <1>1, <2>2, <3>1, <3>2
    <2>3. ASSUME NEW sn \in DOMAIN tx_window', NEW o \in DOMAIN tx_window', TxBase(sn)' < TxBase(o)'
          PROVE  tx_window'[sn].sdu < tx_window'[o].sdu
      <3>1. sn \in Sn /\ o \in Sn
        BY <1>1, <1>2, <1>7, <2>3 DEF SnTypes
      <3>2. TxBase(sn) < TxBase(o) /\ TxBase(sn) \in Int /\ TxBase(o) \in Int /\ Sent \in Int
        BY <1>1, <1>2, <2>3, <3>1, SentCount, BaseType, Half DEF TxBase, SnTypes
      <3>3. sn \in DOMAIN tx_window
        <4>1. ASSUME sn = tx_next PROVE FALSE
          <5>1. o # tx_next
            BY <3>2, <4>1
          <5>2. o \in DOMAIN tx_window
            BY <1>1, <2>3, <5>1
          <5>3. TxBase(o) < Sent
            BY <1>7, <5>2
          <5> QED
            BY <1>1, <3>2, <4>1, <5>3
        <4> QED
          BY <1>1, <2>3, <4>1
      <3>4. CASE o = tx_next
        BY <1>1, <1>3, <1>6, <3>3, <3>4
      <3>5. CASE o \in DOMAIN tx_window
        BY <1>1, <3>2, <3>3, <3>5 DEF SduInv
      <3> QED
        BY <1>1, <2>3, <3>4, <3>5
    <2> QED
      BY <1>4, <2>1, <2>2, <2>3 DEF SduInv
  <1>9. UpperInv'
    <2>1. \A sn \in Sn : Complete(sn)' <=> Complete(sn)
      <3>1. \A sn \in Sn : TxBase(sn)' = TxBase(sn)
        BY <1>1
      <3>2. TxBase(rx_next)' = TxBase(rx_next)
        BY <1>2, <1>5 DEF TxBase, SnTypes, TakesSn
      <3> QED
        BY <1>5, <3>1, <3>2 DEF Complete, FullyReceived
    <2>2. ~Complete(tx_next)
      <3>1. TxBase(rx_next) <= Sent
        <4>1. TxBase(rx_next) \in 0 .. AmWindowSize /\ RxBase(rx_next_highest) \in 0 .. AmWindowSize
              /\ Sent \in 0 .. AmWindowSize /\ TxBase(rx_next) + RxBase(rx_next_highest) <= Sent
          BY Positions
        <4> QED
          BY <4>1
      <3>2. tx_next \notin DOMAIN rx_window
        BY <1>1, RxInTx
      <3>3. TxBase(rx_next) \in Int /\ Sent \in Int
        BY <1>2, BaseType, SentCount, Half DEF TxBase, SnTypes
      <3> QED
        BY <1>1, <3>1, <3>2, <3>3 DEF Complete, FullyReceived
    <2>3. ASSUME NEW sn \in DOMAIN tx_window'
          PROVE  delivered'[tx_window'[sn].sdu] = 1 <=> Complete(sn)'
      <3>1. CASE sn = tx_next
        <4>1. delivered'[tx_window'[sn].sdu] = 0
          BY <1>3, <1>5, <1>6, <3>1
        <4>2. ~Complete(sn)'
          BY <1>2, <2>1, <2>2, <3>1 DEF SnTypes
        <4> QED
          BY <4>1, <4>2
      <3>2. CASE sn \in DOMAIN tx_window
        <4>1. Complete(sn)' <=> Complete(sn)
          BY <1>7, <2>1, <3>2
        <4> QED
          BY <1>1, <1>5, <3>2, <4>1 DEF UpperInv
      <3> QED
        BY <1>1, <2>3, <3>1, <3>2
    <2>4. \A i \in DOMAIN sdu_queue' : delivered'[sdu_queue'[i].sdu] = 0
      BY <1>4, <1>5 DEF UpperInv
    <2> QED
      BY <1>5, <2>3, <2>4 DEF UpperInv
  <1> QED
    BY <1>8, <1>9

\* Everything else that a new SN touches: what is in flight and what the receiver holds.
LEMMA NewSnKeepsLink ==
  ASSUME IInv, ~IsTxWindowFull(tx_window), sn_under_segmentation = NoSn, UNCHANGED rxVars,
         NEW s, NEW so, NEW pdu, TakesSn(s, so, pdu)
  PROVE  RetxInv' /\ RxInv' /\ DataInv' /\ StatInv' /\ CachedInv'
  <1> USE DEF IInv
  <1>1. /\ Sent < AmWindowSize /\ Sent' = Sent + 1 /\ TxBase(tx_next) = Sent
        /\ \A sn \in Sn : TxBase(sn)' = TxBase(sn)
        /\ DOMAIN tx_window' = DOMAIN tx_window \cup {tx_next}
        /\ \A sn \in DOMAIN tx_window : tx_window'[sn] = tx_window[sn]
        /\ tx_window'[tx_next] = [sdu |-> s, next_so |-> so, retx_count |-> NotStarted]
        /\ tx_next \notin DOMAIN tx_window
    BY NewSn
  <1>2. SnTypes
    BY Sns
  <1>3. /\ TxBase(rx_next) \in 0 .. AmWindowSize /\ RxBase(rx_next_highest) \in 0 .. AmWindowSize
        /\ Sent \in 0 .. AmWindowSize /\ TxBase(rx_next) + RxBase(rx_next_highest) <= Sent
        /\ \A sn \in Sn : TxBase(sn) \in 0 .. SnModulus - 1 /\ (sn \in DOMAIN tx_window <=> TxBase(sn) < Sent)
    BY Positions
  <1>4. UNCHANGED <<rx_next, rx_next_highest, rx_highest_status, rx_next_status_trigger, rx_window,
                    reassembly_timer, status_report, stat, retx_queue>>
    BY DEF rxVars, rxSt, TakesSn
  <1>5. sn_under_segmentation' \in {NoSn, tx_next} /\ sn_under_segmentation = NoSn
    BY DEF TakesSn
  <1>6. RetxInv'
    BY <1>4 DEF TakesSn, RetxInv, RetxOnlyWhatWasSent
  <1>7. CachedInv'
    BY <1>4, CachedFrame
  <1>8. /\ TxBase(rx_next)' = TxBase(rx_next) /\ RxBase(rx_next_highest)' = RxBase(rx_next_highest)
        /\ \A sn \in Sn : Complete(sn)' <=> Complete(sn)
    <2>1. TxBase(rx_next)' = TxBase(rx_next) /\ RxBase(rx_next_highest)' = RxBase(rx_next_highest)
      BY <1>4 DEF TxBase, RxBase, TakesSn
    <2> QED
      BY <1>1, <1>4, <2>1 DEF Complete, FullyReceived
  <1>9. RxInv'
    <2>1. RxStateOrder'
      BY <1>4 DEF RxInv, RxStateOrder, FullyReceived
    <2>2. (TxBase(rx_next) + RxBase(rx_next_highest) <= Sent)'
      BY <1>1, <1>3, <1>8
    <2>3. /\ (rx_next_highest # rx_next => \E sn \in DOMAIN rx_window : SnAdd(sn, 1) = rx_next_highest)'
          /\ (reassembly_timer =>
               /\ RxBase(rx_next_status_trigger) \in 1 .. RxBase(rx_next_highest)
               /\ \E sn \in DOMAIN rx_window : SnAdd(sn, 1) = rx_next_status_trigger)'
      BY <1>4 DEF RxInv, RxBase
    <2>4. ASSUME NEW sn \in DOMAIN rx_window', NEW b \in DOMAIN rx_window'[sn]
          PROVE  /\ rx_window'[sn][b] = tx_window'[sn].sdu
                 /\ sn = sn_under_segmentation' => b < tx_window'[sn].next_so
      <3>1. sn \in DOMAIN rx_window /\ b \in DOMAIN rx_window[sn]
        BY <1>4, <2>4
      <3>2. sn \in DOMAIN tx_window /\ sn # tx_next /\ sn \in Sn
        BY <1>1, <3>1, RxInTx
      <3>3. sn # sn_under_segmentation'
        BY <1>5, <3>2 DEF Sn, NoSn
      <3>4. rx_window[sn][b] = tx_window[sn].sdu
        BY <3>1 DEF RxInv
      <3> QED
        BY <1>1, <1>4, <3>2, <3>3, <3>4
    <2> QED
      BY <2>1, <2>2, <2>3, <2>4 DEF RxInv
  <1>10. DataInv'
    <2>1. data' = YoungData(tx_next) \cup {pdu}
      BY DEF TakesSn
    <2>2. ASSUME NEW old \in YoungData(tx_next)
          PROVE  PduInv(old)'
      <3>1. old \in data /\ ModBase(tx_next, old.sn) < AmWindowSize
        BY DEF YoungData
      <3>2. PduInv(old) /\ old.sn \in Sn
        BY <3>1 DEF DataInv, TypeOK, ChannelTypeOK, DataPdu
      <3>3. CASE old.sn \in DOMAIN tx_window
        <4>1. old.sn # sn_under_segmentation'
          BY <1>1, <1>5, <3>2, <3>3 DEF Sn, NoSn
        <4>2. old.sn \in DOMAIN tx_window' /\ tx_window'[old.sn] = tx_window[old.sn]
          BY <1>1, <3>3
        <4> QED
          BY <3>2, <3>3, <4>1, <4>2 DEF PduInv
      <3>4. CASE old.sn \notin DOMAIN tx_window
        <4>1. TxBase(old.sn) >= Sent + AmWindowSize
          BY <3>2, <3>4 DEF PduInv
        <4>2. ModBase(tx_next, old.sn) = IF TxBase(tx_next) >= TxBase(old.sn) THEN TxBase(tx_next) - TxBase(old.sn)
                                         ELSE TxBase(tx_next) - TxBase(old.sn) + SnModulus
          BY <1>2, <3>2, Rebase DEF TxBase, SnTypes
        <4>3. TxBase(old.sn) \in 0 .. SnModulus - 1
          BY <1>3, <3>2
        <4>4. TxBase(old.sn) >= Sent + 1 + AmWindowSize
          BY <1>1, <1>3, <3>1, <4>1, <4>2, <4>3, Half
        <4>5. old.sn # tx_next
          BY <1>1, <1>3, <4>1, Half
        <4>6. old.sn \notin DOMAIN tx_window'
          BY <1>1, <3>4, <4>5
        <4>7. TxBase(old.sn)' = TxBase(old.sn) /\ Sent' = Sent + 1
          BY <1>1, <3>2
        <4> QED
          BY <3>2, <4>4, <4>6, <4>7 DEF PduInv
      <3> QED
        BY <3>3, <3>4
    <2>3. PduInv(pdu)'
      <3>1. pdu.sn = tx_next /\ pdu.so = 0 /\ pdu.len \in 1 .. SduLen /\ pdu.sdu = s
            /\ (sn_under_segmentation' = tx_next => so \in 1 .. SduLen - 1 /\ pdu.len <= so)
        BY <1>2, Half DEF TakesSn, SnTypes, Sn, NoSn
      <3>2. pdu.sn \in DOMAIN tx_window' /\ tx_window'[pdu.sn].sdu = s /\ tx_window'[pdu.sn].next_so = so
        BY <1>1, <3>1
      <3>3. pdu.so + pdu.len = pdu.len /\ SduLen \in Nat
        BY <3>1, RlcAmPduAssumption
      <3>4. pdu.so + pdu.len <= SduLen
        BY <3>1, <3>3
      <3> QED
        BY <3>1, <3>2, <3>3, <3>4 DEF PduInv
    <2> QED
      BY <2>1, <2>2, <2>3 DEF DataInv
  <1>11. StatInv'
    <2>1. ASSUME NEW r \in stat, ReportInv(r)
          PROVE  ReportInv(r)'
      <3> DEFINE ack == TxBase(r.ack_sn)
                 S == TxBase(rx_next) + RxBase(rx_next_highest)
      <3>1. r.ack_sn \in Sn /\ (\A n \in r.nacks : n.sn \in Sn) /\ DOMAIN tx_window \subseteq Sn
        BY DEF TypeOK, ChannelTypeOK, Nack, TxTypeOK
      <3>2. ack' = ack /\ ack \in Nat /\ S' = S /\ S \in Nat /\ S <= Sent
        BY <1>1, <1>3, <1>8, <3>1, Half
      <3>3. CASE ack > AmWindowSize
        BY <3>2, <3>3 DEF ReportInv
      <3>4. CASE ~(ack > AmWindowSize)
        <4>1. /\ ack <= S
              /\ \A sn \in DOMAIN tx_window :
                   TxBase(sn) < ack /\ (\A nack \in r.nacks : nack.sn # sn) => Complete(sn)
              /\ \A nack \in r.nacks : TxBase(nack.sn) < ack => (~nack.has_so => TxBase(nack.sn) + 1 < S)
          BY <2>1, <3>4 DEF ReportInv
        <4> HIDE DEF S, ack
        <4>2. ~(Sent < ack)
          BY <1>3, <3>2, <4>1
        <4>3. ASSUME NEW sn \in DOMAIN tx_window', TxBase(sn)' < ack, \A nack \in r.nacks : nack.sn # sn
              PROVE  Complete(sn)'
          <5>1. CASE sn = tx_next
            <6>1. TxBase(sn)' = Sent
              BY <1>1, <1>2, <5>1 DEF SnTypes
            <6> QED
              BY <4>2, <4>3, <6>1
          <5>2. CASE sn \in DOMAIN tx_window
            <6>1. TxBase(sn) < ack /\ sn \in Sn
              BY <1>1, <3>1, <4>3, <5>2
            <6> QED
              BY <1>8, <4>1, <4>3, <5>2, <6>1
          <5> QED
            BY <1>1, <4>3, <5>1, <5>2
        <4>4. ASSUME NEW nack \in r.nacks, TxBase(nack.sn)' < ack
              PROVE  /\ ~nack.has_so => TxBase(nack.sn)' + 1 < S
                     /\ nack.sn # sn_under_segmentation'
          <5>1. TxBase(nack.sn)' = TxBase(nack.sn) /\ nack.sn \in Sn
            BY <1>1, <3>1
          <5>2. nack.sn # tx_next
            BY <1>1, <4>2, <4>4, <5>1
          <5>3. nack.sn # NoSn
            BY <5>1 DEF Sn, NoSn
          <5> QED
            BY <1>5, <4>1, <4>4, <5>1, <5>2, <5>3
        <4>5. TxBase(r.ack_sn)' = ack /\ (TxBase(rx_next) + RxBase(rx_next_highest))' = S
          BY <3>2 DEF ack, S
        <4> QED
          BY <4>1, <4>3, <4>4, <4>5 DEF ReportInv
      <3> QED
        BY <3>3, <3>4
    <2>2. \A nack : NackInv(nack) => NackInv(nack)'
      BY DEF NackInv
    <2> QED
      BY <1>4, <2>1, <2>2 DEF StatInv
  <1> QED
    BY <1>6, <1>7, <1>9, <1>10, <1>11

\* The types that a new SN touches.
LEMMA NewSnTypes ==
  ASSUME IInv, ~IsTxWindowFull(tx_window), sn_under_segmentation = NoSn,
         NEW s, NEW so, NEW pdu, TakesSn(s, so, pdu), FromQueue(s), pdu \in DataPdu,
         UNCHANGED <<retxSt, pending_buffer_state>>, NEW poll \in BOOLEAN, NEW size \in Nat, SetNewPduPoll(poll, size)
  PROVE  TxTypeOK' /\ ChannelTypeOK'
  <1> USE DEF IInv, TypeOK
  <1>1. /\ DOMAIN tx_window' = DOMAIN tx_window \cup {tx_next}
        /\ \A sn \in DOMAIN tx_window : tx_window'[sn] = tx_window[sn]
        /\ tx_window'[tx_next] = [sdu |-> s, next_so |-> so, retx_count |-> NotStarted]
        /\ tx_next' \in Sn
    BY NewSn
  <1>2. SnTypes /\ s \in Sdu /\ sdu_queue' \in Seq(Entries) /\ so \in 0 .. SduLen
    BY Sns DEF FromQueue, Suffix, TakesSn
  <1>3. NotStarted \in NotStarted .. RetxCountBound
    BY RlcAmTxAssumption DEF NotStarted
  <1>4. \A sn \in DOMAIN tx_window' :
           tx_window'[sn] \in [sdu : Sdu, next_so : 0 .. SduLen, retx_count : NotStarted .. RetxCountBound]
    BY <1>1, <1>2, <1>3 DEF TxTypeOK
  <1>5. DOMAIN tx_window' \subseteq Sn
    BY <1>1, <1>2 DEF TxTypeOK, SnTypes
  <1>6. /\ poll_sn' \in Sn /\ pdu_without_poll' \in Nat /\ byte_without_poll' \in Nat /\ poll_timer' \in BOOLEAN
    BY <1>2 DEF SetNewPduPoll, TxTypeOK, SnTypes
  <1>7. sn_under_segmentation' \in Sn \cup {NoSn}
    BY <1>2 DEF TakesSn, SnTypes
  <1>8. TxTypeOK'
    BY <1>1, <1>2, <1>4, <1>5, <1>6, <1>7 DEF TxTypeOK, TakesSn, retxSt, upperSt, Entries
  <1>9. ChannelTypeOK'
    BY DEF ChannelTypeOK, TakesSn, YoungData
  <1> QED
    BY <1>8, <1>9

\* The branch that looks at the SDU queue.
LEMMA WantsNew ==
  ASSUME IInv, NEW grant \in Grants, WantsNewSdu(grant)
  PROVE  /\ ~IsTxWindowFull(tx_window) /\ sn_under_segmentation = NoSn /\ retx_queue = <<>>
         /\ grant \in Nat /\ grant > HeadMin /\ HeadMin \in Nat /\ SduLen \in Nat \ {0}
  <1>1. sn_under_segmentation = NoSn
    BY SentCount DEF WantsNewSdu, IInv
  <1> QED
    BY <1>1, RlcAmPduAssumption DEF WantsNewSdu

LEMMA BuildNewPduKeeps ==
  ASSUME IInv, NEW grant \in Grants, BuildNewPdu(grant), UNCHANGED rxVars
  PROVE  IInv'
  <1> DEFINE live == PopDiscarded(sdu_queue)
             s == Head(live).sdu
             poll == NewPduPolls(0, Tail(live), <<>>, NoSn, AddSn(s, 0))
             pdu == [sn |-> tx_next, so |-> 0, len |-> SduLen, p |-> poll, sdu |-> s]
  <1>1. /\ ~IsTxWindowFull(tx_window) /\ sn_under_segmentation = NoSn /\ retx_queue = <<>>
        /\ SduLen \in Nat \ {0}
    BY WantsNew DEF BuildNewPdu
  <1>2. /\ live # <<>> /\ sdu_queue' = Tail(live) /\ tx_window' = AddSn(s, 0)
        /\ SetNewPduPoll(poll, 0) /\ data' = YoungData(tx_next) \cup {pdu}
        /\ tx_next' = SnAdd(tx_next, 1) /\ sn_under_segmentation' = NoSn
        /\ UNCHANGED <<submitted, tx_next_ack, retxSt, pending_buffer_state, upperSt, stat>>
    BY DEF BuildNewPdu, SendData
  <1>3. FromQueue(s)
    BY <1>2, ReadsHead
  <1>4. poll \in BOOLEAN
    BY DEF NewPduPolls
  <1>5. pdu \in DataPdu
    <2>1. tx_next \in Sn
      BY Sns DEF IInv, SnTypes
    <2>2. s \in Sdu
      BY <1>3 DEF FromQueue
    <2> HIDE DEF s, poll
    <2> QED
      BY <1>1, <1>4, <2>1, <2>2 DEF DataPdu, Bytes
  <1>6. pdu.sn = tx_next /\ pdu.so = 0 /\ pdu.len = SduLen /\ pdu.sdu = s
    OBVIOUS
  <1> HIDE DEF live, s, poll, pdu
  <1>7. TakesSn(s, 0, pdu)
    BY <1>1, <1>2, <1>6 DEF TakesSn, retxSt
  <1>8. 0 \in Nat
    OBVIOUS
  <1>9. TxTypeOK' /\ ChannelTypeOK'
    BY <1>1, <1>2, <1>3, <1>4, <1>5, <1>7, <1>8, NewSnTypes
  <1>10. TxInv'
    BY <1>1, <1>7, NewSn
  <1>11. SduInv' /\ UpperInv'
    BY <1>1, <1>3, <1>7, NewSnKeepsSdus
  <1>12. RetxInv' /\ RxInv' /\ DataInv' /\ StatInv' /\ CachedInv'
    BY <1>1, <1>7, NewSnKeepsLink
  <1>13. RxTypeOK'
    BY RxTypeFrame DEF IInv, TypeOK
  <1> QED
    BY <1>9, <1>10, <1>11, <1>12, <1>13 DEF IInv, TypeOK

LEMMA BuildFirstSduSegmentKeeps ==
  ASSUME IInv, NEW grant \in Grants, BuildFirstSduSegment(grant), UNCHANGED rxVars
  PROVE  IInv'
  <1> DEFINE live == PopDiscarded(sdu_queue)
             s == Head(live).sdu
             len == grant - HeadMin
             poll == NewPduPolls(len, Tail(live), <<>>, tx_next, AddSn(s, len))
             pdu == [sn |-> tx_next, so |-> 0, len |-> len, p |-> poll, sdu |-> s]
  <1>1. /\ ~IsTxWindowFull(tx_window) /\ sn_under_segmentation = NoSn /\ retx_queue = <<>>
        /\ SduLen \in Nat \ {0} /\ grant \in Nat /\ grant > HeadMin /\ HeadMin \in Nat
    BY WantsNew DEF BuildFirstSduSegment
  <1>2. /\ live # <<>> /\ sdu_queue' = Tail(live) /\ tx_window' = AddSn(s, len)
        /\ SetNewPduPoll(poll, len) /\ data' = YoungData(tx_next) \cup {pdu}
        /\ sn_under_segmentation' = tx_next /\ SduLen + HeadMin > grant
        /\ UNCHANGED <<submitted, txSt, retxSt, pending_buffer_state, upperSt, stat>>
    BY DEF BuildFirstSduSegment, SendData
  <1>3. FromQueue(s)
    BY <1>2, ReadsHead
  <1>4. poll \in BOOLEAN /\ len \in 1 .. SduLen - 1
    BY <1>1, <1>2 DEF NewPduPolls
  <1>5. pdu \in DataPdu
    <2>1. tx_next \in Sn
      BY Sns DEF IInv, SnTypes
    <2>2. s \in Sdu
      BY <1>3 DEF FromQueue
    <2> HIDE DEF s, poll, len
    <2> QED
      BY <1>1, <1>4, <2>1, <2>2 DEF DataPdu, Bytes
  <1>6. pdu.sn = tx_next /\ pdu.so = 0 /\ pdu.len = len /\ pdu.sdu = s
    OBVIOUS
  <1> HIDE DEF live, s, poll, pdu, len
  <1>7. len \in Nat /\ len \in 0 .. SduLen /\ len \in 1 .. SduLen /\ len <= len
    BY <1>1, <1>4
  <1>8. TakesSn(s, len, pdu)
    BY <1>1, <1>2, <1>4, <1>6, <1>7 DEF TakesSn, retxSt, txSt
  <1>9. TxTypeOK' /\ ChannelTypeOK'
    BY <1>1, <1>2, <1>3, <1>4, <1>5, <1>7, <1>8, NewSnTypes
  <1>10. TxInv'
    BY <1>1, <1>8, NewSn
  <1>11. SduInv' /\ UpperInv'
    BY <1>1, <1>3, <1>8, NewSnKeepsSdus
  <1>12. RetxInv' /\ RxInv' /\ DataInv' /\ StatInv' /\ CachedInv'
    BY <1>1, <1>8, NewSnKeepsLink
  <1>13. RxTypeOK'
    BY RxTypeFrame DEF IInv, TypeOK
  <1> QED
    BY <1>9, <1>10, <1>11, <1>12, <1>13 DEF IInv, TypeOK

-----------------------------------------------------------------------------
(* Steps that keep the SNs of the TX window.                               *)

LEMMA SuffixSelf ==
  ASSUME TypeOK
  PROVE  Suffix(sdu_queue, sdu_queue)
  <1>1. sdu_queue \in Seq(Entries) /\ Len(sdu_queue) \in Nat
    BY SduTypes
  <1>2. 0 \in 0 .. Len(sdu_queue) /\ Len(sdu_queue) = Len(sdu_queue) - 0
    BY <1>1
  <1>3. \A j \in 1 .. Len(sdu_queue) : sdu_queue[j].sdu = sdu_queue[j + 0].sdu
    BY <1>1
  <1> QED
    BY <1>1, <1>2, <1>3 DEF Suffix

\* More of an SDU has been sent, or it has been counted once more.
SameSns ==
  /\ DOMAIN tx_window' = DOMAIN tx_window
  /\ \A sn \in DOMAIN tx_window : /\ tx_window'[sn].sdu = tx_window[sn].sdu
                                  /\ tx_window'[sn].next_so >= tx_window[sn].next_so
                                  /\ tx_window'[sn].next_so \in 0 .. SduLen
  /\ UNCHANGED <<tx_next_ack, submitted, confirmed>> /\ Sent' = Sent
  /\ sn_under_segmentation' \in {NoSn, sn_under_segmentation}
  /\ Suffix(sdu_queue', sdu_queue) /\ "protocol_failure" \notin upper_cn'

LEMMA SameSnsKeepsSdus ==
  ASSUME IInv, SameSns, UNCHANGED rxVars
  PROVE  SduInv' /\ UpperInv'
  <1> USE DEF IInv
  <1>1. sdu_queue \in Seq(Entries)
    BY SduTypes
  <1>2. /\ \A i \in DOMAIN sdu_queue' : \E j \in DOMAIN sdu_queue : sdu_queue'[i].sdu = sdu_queue[j].sdu
        /\ \A i, j \in DOMAIN sdu_queue' : i < j => sdu_queue'[i].sdu < sdu_queue'[j].sdu
    BY <1>1, SuffixFacts DEF SduInv, SameSns
  <1>3. \A sn : TxBase(sn)' = TxBase(sn)
    BY DEF TxBase, SameSns
  <1>4. /\ DOMAIN tx_window' = DOMAIN tx_window
        /\ \A sn \in DOMAIN tx_window : tx_window'[sn].sdu = tx_window[sn].sdu
        /\ UNCHANGED <<submitted, confirmed, rx_next, rx_window, delivered>>
        /\ "protocol_failure" \notin upper_cn'
    BY DEF SameSns, rxVars, rxSt
  <1>5. SduInv'
    BY <1>2, <1>3, <1>4 DEF SduInv
  <1>6. \A sn \in DOMAIN tx_window : Complete(sn)' <=> Complete(sn)
    BY <1>4 DEF TxBase, SameSns, Complete, FullyReceived
  <1>7. UpperInv'
    BY <1>2, <1>4, <1>6 DEF UpperInv
  <1> QED
    BY <1>5, <1>7

LEMMA SameSnsKeepsLink ==
  ASSUME IInv, SameSns, UNCHANGED <<rxVars, stat>>
  PROVE  RxInv' /\ StatInv' /\ CachedInv' /\ \A pdu \in data : PduInv(pdu)'
  <1> USE DEF IInv
  <1>1. UNCHANGED <<rx_next, rx_next_highest, rx_highest_status, rx_next_status_trigger, rx_window,
                    reassembly_timer, status_report, stat>>
    BY DEF rxVars, rxSt
  <1>2. /\ \A sn : TxBase(sn)' = TxBase(sn)
        /\ TxBase(rx_next)' = TxBase(rx_next) /\ RxBase(rx_next_highest)' = RxBase(rx_next_highest)
        /\ Sent' = Sent
    BY <1>1 DEF TxBase, RxBase, SameSns
  <1>3. /\ DOMAIN tx_window' = DOMAIN tx_window
        /\ \A sn \in DOMAIN tx_window : tx_window'[sn].sdu = tx_window[sn].sdu
        /\ sn_under_segmentation' \in {NoSn, sn_under_segmentation}
    BY DEF SameSns
  <1>4. ASSUME NEW sn \in Sn, sn = sn_under_segmentation'
        PROVE  /\ sn = sn_under_segmentation /\ sn \in DOMAIN tx_window
               /\ tx_window[sn].next_so \in Int /\ tx_window'[sn].next_so \in Int
               /\ tx_window'[sn].next_so >= tx_window[sn].next_so
    <2>1. sn # NoSn
      BY Half DEF Sn, NoSn
    <2>2. sn = sn_under_segmentation
      BY <1>3, <1>4, <2>1
    <2>3. sn \in DOMAIN tx_window
      BY <2>1, <2>2, SentCount
    <2> QED
      BY <2>2, <2>3, SduTypes DEF SameSns
  <1>5. RxInv'
    <2>1. RxStateOrder'
      BY <1>1 DEF RxInv, RxStateOrder, FullyReceived
    <2>2. (TxBase(rx_next) + RxBase(rx_next_highest) <= Sent)'
      BY <1>2 DEF RxInv
    <2>3. /\ (rx_next_highest # rx_next => \E sn \in DOMAIN rx_window : SnAdd(sn, 1) = rx_next_highest)'
          /\ (reassembly_timer =>
               /\ RxBase(rx_next_status_trigger) \in 1 .. RxBase(rx_next_highest)
               /\ \E sn \in DOMAIN rx_window : SnAdd(sn, 1) = rx_next_status_trigger)'
      BY <1>1 DEF RxInv, RxBase
    <2>4. ASSUME NEW sn \in DOMAIN rx_window', NEW b \in DOMAIN rx_window'[sn]
          PROVE  /\ rx_window'[sn][b] = tx_window'[sn].sdu
                 /\ sn = sn_under_segmentation' => b < tx_window'[sn].next_so
      <3>1. sn \in DOMAIN rx_window /\ b \in DOMAIN rx_window[sn]
        BY <1>1, <2>4
      <3>2. sn \in DOMAIN tx_window /\ sn \in Sn
        BY <3>1, RxInTx
      <3>3. b \in Int
        BY <3>1 DEF TypeOK, RxTypeOK, Bytes
      <3>4. rx_window[sn][b] = tx_window[sn].sdu /\ (sn = sn_under_segmentation => b < tx_window[sn].next_so)
        BY <3>1 DEF RxInv
      <3>5. sn = sn_under_segmentation' => b < tx_window'[sn].next_so
        BY <1>4, <3>2, <3>3, <3>4
      <3> QED
        BY <1>1, <1>3, <3>2, <3>4, <3>5
    <2> QED
      BY <2>1, <2>2, <2>3, <2>4 DEF RxInv
  <1>6. CachedInv'
    BY <1>1, CachedFrame
  <1>7. ASSUME NEW pdu \in data
        PROVE  PduInv(pdu)'
    <2>1. PduInv(pdu) /\ pdu.sn \in Sn /\ pdu.so \in Int /\ pdu.len \in Int
      BY DEF DataInv, TypeOK, ChannelTypeOK, DataPdu, Bytes
    <2>2. pdu.sn = sn_under_segmentation' => pdu.so + pdu.len <= tx_window'[pdu.sn].next_so
      <3> SUFFICES ASSUME pdu.sn = sn_under_segmentation'
                   PROVE  pdu.so + pdu.len <= tx_window'[pdu.sn].next_so
        OBVIOUS
      <3>1. /\ pdu.sn = sn_under_segmentation /\ pdu.sn \in DOMAIN tx_window
            /\ tx_window[pdu.sn].next_so \in Int /\ tx_window'[pdu.sn].next_so \in Int
            /\ tx_window'[pdu.sn].next_so >= tx_window[pdu.sn].next_so
        BY <1>4, <2>1
      <3>2. pdu.so + pdu.len <= tx_window[pdu.sn].next_so
        BY <2>1, <3>1 DEF PduInv
      <3> QED
        BY <2>1, <3>1, <3>2
    <2>3. TxBase(pdu.sn)' = TxBase(pdu.sn)
      BY <1>2
    <2> QED
      BY <1>2, <1>3, <2>1, <2>2, <2>3 DEF PduInv
  <1>8. \A sn \in DOMAIN tx_window : Complete(sn)' <=> Complete(sn)
    BY <1>1, <1>2 DEF Complete, FullyReceived
  <1>9. ASSUME NEW r \in stat, ReportInv(r)
        PROVE  ReportInv(r)'
    <2> DEFINE ack == TxBase(r.ack_sn)
               S == TxBase(rx_next) + RxBase(rx_next_highest)
    <2>1. \A n \in r.nacks : n \in Nack /\ n.sn \in Sn
      BY DEF TypeOK, ChannelTypeOK, Nack
    <2>2. TxBase(r.ack_sn)' = ack /\ (TxBase(rx_next) + RxBase(rx_next_highest))' = S
      BY <1>2
    <2>3. CASE ack > AmWindowSize
      BY <2>2, <2>3 DEF ReportInv
    <2>4. CASE ~(ack > AmWindowSize)
      <3>1. /\ ack <= S
            /\ \A sn \in DOMAIN tx_window :
                 TxBase(sn) < ack /\ (\A nack \in r.nacks : nack.sn # sn) => Complete(sn)
            /\ \A nack \in r.nacks :
                 TxBase(nack.sn) < ack =>
                   /\ ~nack.has_so => TxBase(nack.sn) + 1 < S
                   /\ nack.has_so /\ nack.so_end # EndOfSdu /\ nack.sn = sn_under_segmentation
                        => nack.so_end < tx_window[nack.sn].next_so
        BY <1>9, <2>4 DEF ReportInv
      <3> HIDE DEF S, ack
      <3>2. \A sn \in DOMAIN tx_window' :
              TxBase(sn)' < ack /\ (\A nack \in r.nacks : nack.sn # sn) => Complete(sn)'
        BY <1>2, <1>3, <1>8, <3>1
      <3>3. ASSUME NEW nack \in r.nacks, TxBase(nack.sn)' < ack
            PROVE  /\ ~nack.has_so => TxBase(nack.sn)' + 1 < S
                   /\ nack.has_so /\ nack.so_end # EndOfSdu /\ nack.sn = sn_under_segmentation'
                        => nack.so_end < tx_window'[nack.sn].next_so
        <4>1. TxBase(nack.sn)' = TxBase(nack.sn)
          BY <1>2
        <4>2. ASSUME nack.has_so, nack.so_end # EndOfSdu, nack.sn = sn_under_segmentation'
              PROVE  nack.so_end < tx_window'[nack.sn].next_so
          <5>1. /\ nack.sn = sn_under_segmentation /\ tx_window[nack.sn].next_so \in Int
                /\ tx_window'[nack.sn].next_so \in Int /\ tx_window'[nack.sn].next_so >= tx_window[nack.sn].next_so
            BY <1>4, <2>1, <4>2
          <5>2. nack.so_end \in Int
            BY <2>1, <4>2 DEF Nack
          <5>3. nack.so_end < tx_window[nack.sn].next_so
            BY <3>1, <3>3, <4>1, <4>2, <5>1
          <5> QED
            BY <5>1, <5>2, <5>3
        <4> QED
          BY <3>1, <3>3, <4>1, <4>2
      <3> QED
        BY <2>2, <3>1, <3>2, <3>3 DEF ReportInv
    <2> QED
      BY <2>3, <2>4
  <1>10. StatInv'
    <2>1. \A nack : NackInv(nack) => NackInv(nack)'
      BY DEF NackInv
    <2> QED
      BY <1>1, <1>9, <2>1 DEF StatInv
  <1> QED
    BY <1>5, <1>6, <1>7, <1>10

LEMMA BuildContinuedSduSegmentKeeps ==
  ASSUME IInv, NEW grant \in Grants, BuildContinuedSduSegment(grant), UNCHANGED rxVars
  PROVE  IInv'
  <1> USE DEF IInv, TypeOK
  <1> DEFINE info == tx_window[sn_under_segmentation]
             rest == SduLen - info.next_so
             last == rest + HeadMax <= grant
             len == IF last THEN rest ELSE grant - HeadMax
             sus == IF last THEN NoSn ELSE sn_under_segmentation
             poll == NewPduPolls(len, sdu_queue, <<>>, sus, tx_window)
             pdu == [sn |-> tx_next, so |-> info.next_so, len |-> len, p |-> poll, sdu |-> info.sdu]
  <1>1. /\ retx_queue = <<>> /\ grant > HeadMax
        /\ sn_under_segmentation \in DOMAIN tx_window
        /\ info.next_so \in 1 .. SduLen - 1 /\ sn_under_segmentation' = sus
        /\ SetNewPduPoll(poll, len)
        /\ tx_window' = [tx_window EXCEPT ![sn_under_segmentation].next_so = @ + len]
        /\ tx_next' = IF last THEN SnAdd(tx_next, 1) ELSE tx_next
        /\ data' = data \cup {pdu}
        /\ UNCHANGED <<submitted, sdu_queue, tx_next_ack, retxSt, pending_buffer_state, upperSt, stat>>
    BY DEF BuildContinuedSduSegment, SendData
  <1>2. SnTypes /\ sn_under_segmentation = tx_next /\ tx_next # NoSn
    BY <1>1, Sns, SentCount DEF TxInv
  <1>3. grant \in Nat /\ HeadMax \in Nat /\ SduLen \in Nat
    BY RlcAmPduAssumption
  <1>4. info = tx_window[tx_next]
    BY <1>2
  <1>5. rest \in 1 .. SduLen - 1 /\ last \in BOOLEAN /\ poll \in BOOLEAN
    BY <1>1, <1>3 DEF NewPduPolls
  <1>6. len \in 1 .. rest /\ (last <=> len = rest)
    BY <1>1, <1>3, <1>5
  <1>7. info.sdu \in Sdu /\ tx_next \in DOMAIN tx_window
        /\ info \in [sdu : Sdu, next_so : 0 .. SduLen, retx_count : NotStarted .. RetxCountBound]
    BY <1>1, <1>2 DEF TxTypeOK
  <1>8. info.next_so + len \in 1 .. SduLen /\ (~last => info.next_so + len \in 1 .. SduLen - 1)
        /\ info.next_so \in Nat /\ len \in Nat
    <2>1. info.next_so \in 1 .. SduLen - 1 /\ rest = SduLen - info.next_so
      BY <1>1
    <2> HIDE DEF info, rest, len, last
    <2> QED
      BY <1>3, <1>5, <1>6, <2>1
  <1>9. pdu.sn = tx_next /\ pdu.so = info.next_so /\ pdu.len = len /\ pdu.p = poll /\ pdu.sdu = info.sdu
    OBVIOUS
  <1>10. pdu \in DataPdu
    <2>1. info.next_so \in Bytes /\ len \in 1 .. SduLen /\ tx_next \in Sn
      BY <1>1, <1>2, <1>3, <1>5, <1>6 DEF Bytes, SnTypes
    <2> HIDE DEF info, len, poll
    <2> QED
      BY <1>5, <1>7, <2>1 DEF DataPdu
  <1> HIDE DEF info, rest, last, len, pdu, poll
  <1>11. /\ DOMAIN tx_window' = DOMAIN tx_window
         /\ \A sn \in DOMAIN tx_window : sn # tx_next => tx_window'[sn] = tx_window[sn]
         /\ tx_window'[tx_next] = [info EXCEPT !.next_so = info.next_so + len]
    BY <1>1, <1>2, <1>4, <1>7
  <1>12. /\ tx_window'[tx_next].sdu = info.sdu /\ tx_window'[tx_next].next_so = info.next_so + len
         /\ tx_window'[tx_next] \in [sdu : Sdu, next_so : 0 .. SduLen, retx_count : NotStarted .. RetxCountBound]
    BY <1>3, <1>7, <1>8, <1>11
  <1>13. tx_next' \in Sn /\ Sent' = Sent
    <2>1. 1 \in 0 .. SnModulus
      BY Half
    <2>2. SnAdd(tx_next, 1) \in Sn
      BY <1>2, <2>1, AddType DEF SnTypes
    <2>3. TxBase(SnAdd(tx_next, 1)) = IF TxBase(tx_next) + 1 < SnModulus THEN TxBase(tx_next) + 1
                                      ELSE TxBase(tx_next) + 1 - SnModulus
      BY <1>2, <2>1, AddBase DEF SnTypes, TxBase
    <2>4. Sent \in 0 .. AmWindowSize /\ Sent = TxBase(tx_next) + 1 /\ TxBase(tx_next) \in 0 .. AmWindowSize
      BY <1>2, SentCount
    <2>5. TxBase(SnAdd(tx_next, 1)) = Sent
      BY <2>3, <2>4, Half
    <2>6. CASE last
      <3>1. tx_next' = SnAdd(tx_next, 1) /\ sn_under_segmentation' = NoSn /\ tx_next_ack' = tx_next_ack
        BY <1>1, <2>6 DEF last
      <3>2. TxBase(tx_next)' = Sent
        BY <2>5, <3>1 DEF TxBase
      <3>3. Sent' = TxBase(tx_next)' + 0
        BY <3>1 DEF Sent
      <3> QED
        BY <2>2, <2>4, <3>1, <3>2, <3>3
    <2>7. CASE ~last
      <3>1. tx_next' = tx_next /\ sn_under_segmentation' = sn_under_segmentation /\ tx_next_ack' = tx_next_ack
        BY <1>1, <2>7 DEF last
      <3> QED
        BY <1>2, <3>1 DEF Sent, TxBase, SnTypes
    <2> QED
      BY <1>5, <2>6, <2>7
  <1>14. SameSns
    <2>1. \A sn \in DOMAIN tx_window : /\ tx_window'[sn].sdu = tx_window[sn].sdu
                                       /\ tx_window'[sn].next_so >= tx_window[sn].next_so
                                       /\ tx_window'[sn].next_so \in 0 .. SduLen
      <3> TAKE sn \in DOMAIN tx_window
      <3>1. CASE sn = tx_next
        BY <1>3, <1>4, <1>8, <1>12, <3>1
      <3>2. CASE sn # tx_next
        <4>1. tx_window'[sn] = tx_window[sn] /\ tx_window[sn].next_so \in 0 .. SduLen
          BY <1>11, <3>2, SduTypes
        <4> QED
          BY <1>3, <4>1
      <3> QED
        BY <3>1, <3>2
    <2>2. Suffix(sdu_queue', sdu_queue)
      BY <1>1, SuffixSelf
    <2>3. "protocol_failure" \notin upper_cn' /\ UNCHANGED <<tx_next_ack, submitted, confirmed>>
      BY <1>1 DEF upperSt, UpperInv
    <2>4. sn_under_segmentation' \in {NoSn, sn_under_segmentation}
      BY <1>1
    <2> QED
      BY <1>11, <1>13, <2>1, <2>2, <2>3, <2>4 DEF SameSns
  <1>15. TxInv'
    <2>1. \A sn \in Sn : TxBase(sn)' = TxBase(sn)
      BY <1>1 DEF TxBase
    <2>2. DOMAIN tx_window' = {sn \in Sn : TxBase(sn)' < Sent'} /\ Sent' <= AmWindowSize
      BY <1>11, <1>13, <2>1 DEF TxInv
    <2>3. sn_under_segmentation' # NoSn => ~last
      BY <1>1 DEF last
    <2>4. ~last => tx_next' = tx_next /\ sn_under_segmentation' = tx_next
      BY <1>1, <1>2 DEF last
    <2>5. last => sn_under_segmentation' = NoSn
      BY <1>1 DEF last
    <2> QED
      BY <1>5, <1>8, <1>12, <2>2, <2>3, <2>4, <2>5 DEF TxInv
  <1>16. SduInv' /\ UpperInv' /\ RxInv' /\ StatInv' /\ CachedInv' /\ \A old \in data : PduInv(old)'
    BY <1>1, <1>14, SameSnsKeepsSdus, SameSnsKeepsLink
  <1>17. DataInv'
    <2>1. ASSUME NEW m, m = pdu
          PROVE  PduInv(m)'
      <3>1. pdu.so + pdu.len = info.next_so + len
        BY <1>9
      <3>2. pdu.so + pdu.len <= SduLen
        BY <1>3, <1>8, <3>1
      <3>3. pdu.sn \in DOMAIN tx_window' /\ tx_window'[pdu.sn].sdu = pdu.sdu
            /\ tx_window'[pdu.sn].next_so = pdu.so + pdu.len
        BY <1>7, <1>9, <1>11, <1>12, <3>1
      <3>4. pdu.so + pdu.len <= tx_window'[pdu.sn].next_so
        BY <1>8, <3>1, <3>3
      <3> QED
        BY <2>1, <3>2, <3>3, <3>4 DEF PduInv
    <2> QED
      BY <1>1, <1>16, <2>1 DEF DataInv
  <1>18. RetxInv'
    <2>1. retx_queue' = <<>>
      BY <1>1 DEF retxSt
    <2> QED
      BY <2>1 DEF RetxInv, RetxOnlyWhatWasSent
  <1>19. TxTypeOK'
    <2>1. \A sn \in DOMAIN tx_window' :
             tx_window'[sn] \in [sdu : Sdu, next_so : 0 .. SduLen, retx_count : NotStarted .. RetxCountBound]
      BY <1>11, <1>12 DEF TxTypeOK
    <2>2. /\ poll_sn' \in Sn /\ pdu_without_poll' \in Nat /\ byte_without_poll' \in Nat /\ poll_timer' \in BOOLEAN
      BY <1>1, <1>2, <1>5, <1>8 DEF SetNewPduPoll, TxTypeOK, SnTypes
    <2>3. sn_under_segmentation' \in Sn \cup {NoSn} /\ tx_next_ack' \in Sn
      BY <1>1, <1>2 DEF SnTypes
    <2> QED
      BY <1>1, <1>11, <1>13, <2>1, <2>2, <2>3 DEF TxTypeOK, retxSt, upperSt
  <1>20. ChannelTypeOK'
    BY <1>1, <1>10 DEF ChannelTypeOK
  <1> QED
    BY <1>15, <1>16, <1>17, <1>18, <1>19, <1>20, RxTypeFrame

\* What is left of an entry of which n bytes have been sent.
LEMMA RetxPart ==
  ASSUME NEW r \in Retx, NEW n \in 1 .. r.length - 1, r.so + r.length <= SduLen,
         NEW part, part = [r EXCEPT !.so = @ + n, !.length = @ - n]
  PROVE  part \in Retx /\ part.sn = r.sn /\ part.so + part.length = r.so + r.length
  <1>1. /\ r.sn \in Sn /\ r.so \in 0 .. SduLen - 1 /\ r.length \in 1 .. SduLen /\ SduLen \in Nat
        /\ r.so \in Int /\ r.length \in Int /\ n \in Int
    BY RlcAmPduAssumption DEF Retx, Bytes
  <1>2. part.so = r.so + n /\ part.length = r.length - n /\ part.sn = r.sn
    BY DEF Retx
  <1>3. r.so + n \in Bytes /\ r.length - n \in 1 .. SduLen
    BY <1>1 DEF Bytes
  <1>4. part \in Retx
    BY <1>1, <1>3 DEF Retx
  <1> QED
    BY <1>1, <1>2, <1>4

\* The front of the retransmission queue is sent, or as much of it as fits.
LEMMA BuildRetxPduKeeps ==
  ASSUME IInv, NEW grant \in Grants, BuildRetxPdu(grant), UNCHANGED rxVars
  PROVE  IInv'
  <1> USE DEF IInv, TypeOK
  <1> DEFINE retx == Head(retx_queue)
             info == tx_window[retx.sn]
             room == grant - RetxHeader(retx)
             len == IF retx.length <= room THEN retx.length ELSE room
             done == len = retx.length
             queue == IF done THEN Tail(retx_queue)
                      ELSE <<[retx EXCEPT !.so = @ + len, !.length = @ - len]>> \o Tail(retx_queue)
             poll == NothingToSend(sdu_queue, queue, sn_under_segmentation, tx_window)
             pdu == [sn |-> retx.sn, so |-> retx.so, len |-> len, p |-> poll, sdu |-> info.sdu]
  <1>1. /\ retx_queue # <<>> /\ retx.so + retx.length <= SduLen /\ grant > RetxHeader(retx)
        /\ retx_sn' = retx.sn /\ retx_queue' = queue
        /\ max_retx_reached' \in BOOLEAN
        /\ SetRetxPoll(poll) /\ data' = data \cup {pdu}
        /\ UNCHANGED <<submitted, sdu_queue, tx_window, txSt, sn_under_segmentation, pending_buffer_state,
                       upperSt, stat>>
    <2>1. DropStaleRetx(retx_queue, tx_window) = retx_queue
      BY RetxFresh
    <2> QED
      BY <2>1 DEF BuildRetxPdu, SendData
  <1>2. /\ retx_queue \in Seq(Retx) /\ Len(retx_queue) \in Nat /\ retx \in Retx /\ retx = retx_queue[1]
        /\ 1 \in DOMAIN retx_queue /\ DOMAIN retx_queue = 1 .. Len(retx_queue)
        /\ Tail(retx_queue) \in Seq(Retx) /\ Len(Tail(retx_queue)) = Len(retx_queue) - 1
        /\ \A i \in 1 .. Len(Tail(retx_queue)) : Tail(retx_queue)[i] = retx_queue[i + 1]
    <2>1. retx_queue \in Seq(Retx)
      BY RetxFresh
    <2>2. /\ retx \in Retx
          /\ Tail(retx_queue) \in Seq(Retx) /\ Len(Tail(retx_queue)) = Len(retx_queue) - 1
          /\ \A i \in 1 .. Len(Tail(retx_queue)) : Tail(retx_queue)[i] = retx_queue[i + 1]
      BY <1>1, <2>1, HeadTailProperties
    <2>3. Len(retx_queue) \in Nat /\ Len(retx_queue) # 0 /\ DOMAIN retx_queue = 1 .. Len(retx_queue)
      BY <1>1, <2>1, EmptySeq
    <2>4. retx = retx_queue[1]
      BY <1>1, <2>1
    <2> QED
      BY <2>1, <2>2, <2>3, <2>4
  <1>3. /\ retx.sn \in Sn /\ retx.so \in Bytes /\ retx.length \in 1 .. SduLen /\ retx.so \in Nat /\ retx.length \in Nat
        /\ SduLen \in Nat /\ grant \in Nat /\ RetxHeader(retx) \in Nat
    BY <1>2, RlcAmPduAssumption DEF Retx, Bytes, RetxHeader
  <1>4. len \in 1 .. retx.length /\ poll \in BOOLEAN
    BY <1>1, <1>3 DEF NothingToSend, IsTxWindowFull
  <1>5. /\ retx.sn \in DOMAIN tx_window
        /\ retx.sn = sn_under_segmentation => retx.so + retx.length <= tx_window[retx.sn].next_so
    BY <1>2 DEF RetxInv, RetxOnlyWhatWasSent
  <1>6. pdu.sn = retx.sn /\ pdu.so = retx.so /\ pdu.len = len /\ pdu.sdu = info.sdu
    OBVIOUS
  <1>7. info.sdu \in Sdu
    BY <1>5, SduTypes
  <1>8. pdu \in DataPdu
    <2>1. len \in 1 .. SduLen
      BY <1>3, <1>4
    <2> HIDE DEF retx, info, len, poll
    <2> QED
      BY <1>3, <1>4, <1>7, <2>1 DEF DataPdu
  <1> DEFINE part == [retx EXCEPT !.so = @ + len, !.length = @ - len]
  <1>9. ~done => part \in Retx /\ part.sn = retx.sn /\ part.so + part.length = retx.so + retx.length
    <2>1. len \in Nat /\ part = [retx EXCEPT !.so = @ + len, !.length = @ - len]
      BY <1>3, <1>4
    <2> HIDE DEF retx, len, part
    <2>2. ASSUME ~done PROVE len \in 1 .. retx.length - 1
      BY <1>3, <1>4, <2>2
    <2>3. retx \in Retx /\ retx.so + retx.length <= SduLen
      BY <1>1, <1>2
    <2>4. ASSUME ~done
          PROVE  part \in Retx /\ part.sn = retx.sn /\ part.so + part.length = retx.so + retx.length
      <3>1. len \in 1 .. retx.length - 1
        BY <2>2, <2>4
      <3> HIDE DEF done
      <3> QED
        BY <2>1, <2>3, <3>1, RetxPart
    <2> QED
      BY <2>4
  <1>10. /\ queue \in Seq(Retx)
         /\ \A i \in DOMAIN queue : \E j \in DOMAIN retx_queue :
              queue[i].sn = retx_queue[j].sn
              /\ queue[i].so + queue[i].length = retx_queue[j].so + retx_queue[j].length
    <2> DEFINE rest == Tail(retx_queue)
    <2>1. rest \in Seq(Retx) /\ Len(rest) = Len(retx_queue) - 1 /\ DOMAIN rest = 1 .. Len(rest)
          /\ \A i \in 1 .. Len(rest) : rest[i] = retx_queue[i + 1] /\ i + 1 \in DOMAIN retx_queue
      BY <1>2
    <2>2. queue = IF done THEN rest ELSE <<part>> \o rest
      OBVIOUS
    <2> HIDE DEF rest, queue, part, retx, len, done
    <2>3. CASE done
      <3>1. queue = rest
        BY <2>2, <2>3
      <3>2. ASSUME NEW i \in DOMAIN queue
            PROVE  \E j \in DOMAIN retx_queue :
                     queue[i].sn = retx_queue[j].sn
                     /\ queue[i].so + queue[i].length = retx_queue[j].so + retx_queue[j].length
        <4>1. i \in 1 .. Len(rest)
          BY <2>1, <3>1, <3>2
        <4>2. queue[i] = retx_queue[i + 1] /\ i + 1 \in DOMAIN retx_queue
          BY <2>1, <3>1, <4>1
        <4> QED
          BY <4>2
      <3> QED
        BY <2>1, <3>1, <3>2
    <2>4. CASE ~done
      <3>1. part \in Retx /\ part.sn = retx.sn /\ part.so + part.length = retx.so + retx.length
        BY <1>9, <2>4
      <3> DEFINE one == <<part>>
      <3>2. one \in Seq(Retx) /\ Len(one) = 1 /\ one[1] = part
        BY <3>1
      <3> HIDE DEF one
      <3>3. /\ one \o rest \in Seq(Retx) /\ Len(one \o rest) = Len(one) + Len(rest)
            /\ \A i \in 1 .. Len(one) + Len(rest) :
                 (one \o rest)[i] = IF i <= Len(one) THEN one[i] ELSE rest[i - Len(one)]
        <4>1. one \in Seq(Retx) /\ rest \in Seq(Retx)
          BY <2>1, <3>2
        <4> QED
          BY <4>1, ConcatProperties
      <3>4. queue = one \o rest
        BY <2>2, <2>4 DEF one
      <3>5. Len(rest) \in Nat /\ DOMAIN queue = 1 .. (1 + Len(rest))
        BY <2>1, <3>2, <3>3, <3>4
      <3>6. ASSUME NEW i \in DOMAIN queue
            PROVE  \E j \in DOMAIN retx_queue :
                     queue[i].sn = retx_queue[j].sn
                     /\ queue[i].so + queue[i].length = retx_queue[j].so + retx_queue[j].length
        <4>1. CASE i = 1
          <5>1. queue[i] = part
            BY <3>2, <3>3, <3>4, <3>5, <4>1
          <5> QED
            BY <1>2, <3>1, <5>1
        <4>2. CASE i # 1
          <5>1. i - 1 \in 1 .. Len(rest) /\ i \in 1 .. Len(one) + Len(rest) /\ ~(i <= Len(one)) /\ i - Len(one) = i - 1
                /\ (i - 1) + 1 = i
            BY <3>2, <3>5, <3>6, <4>2
          <5>2. queue[i] = rest[i - 1]
            BY <3>3, <3>4, <5>1
          <5>3. queue[i] = retx_queue[i] /\ i \in DOMAIN retx_queue
            BY <2>1, <5>1, <5>2
          <5> QED
            BY <5>3
        <4> QED
          BY <4>1, <4>2
      <3> QED
        BY <3>3, <3>4, <3>6
    <2> QED
      BY <2>3, <2>4
  <1> HIDE DEF retx, info, room, len, done, queue, poll, pdu
  <1>11. RetxInv'
    <2> SUFFICES ASSUME NEW i \in DOMAIN queue
                 PROVE  /\ queue[i].sn \in DOMAIN tx_window
                        /\ queue[i].so + queue[i].length <=
                             IF queue[i].sn = sn_under_segmentation THEN tx_window[queue[i].sn].next_so ELSE SduLen
      BY <1>1 DEF RetxInv, RetxOnlyWhatWasSent
    <2> QED
      BY <1>10 DEF RetxInv, RetxOnlyWhatWasSent
  <1>12. DataInv'
    <2>1. ASSUME NEW m, m = pdu
          PROVE  PduInv(m)
      <3>1. retx.so + len <= retx.so + retx.length /\ retx.so + len \in Nat
        BY <1>3, <1>4
      <3>2. m.so + m.len <= SduLen
        BY <1>1, <1>3, <1>6, <2>1, <3>1
      <3>3. m.sn \in DOMAIN tx_window /\ m.sdu = tx_window[m.sn].sdu
        BY <1>5, <1>6, <2>1 DEF info
      <3>4. m.sn = sn_under_segmentation => m.so + m.len <= tx_window[m.sn].next_so
        <4>1. tx_window[m.sn].next_so \in Int
          BY <3>3, SduTypes
        <4> QED
          BY <1>3, <1>5, <1>6, <2>1, <3>1, <4>1
      <3> QED
        BY <3>2, <3>3, <3>4 DEF PduInv
    <2>2. \A m : PduInv(m) => PduInv(m)'
      BY <1>1 DEF PduInv, TxBase, Sent, txSt
    <2> QED
      BY <1>1, <2>1, <2>2 DEF DataInv
  <1>13. TxTypeOK'
    <2>1. pdu_without_poll' \in Nat /\ byte_without_poll' \in Nat /\ poll_timer' \in BOOLEAN /\ poll_sn' \in Sn
      BY <1>1, <1>4 DEF SetRetxPoll, TxTypeOK
    <2>2. retx_queue' \in Seq(Retx) /\ retx_sn' \in Sn
      BY <1>1, <1>3, <1>10
    <2> QED
      BY <1>1, <2>1, <2>2 DEF TxTypeOK, txSt, upperSt
  <1>14. ChannelTypeOK'
    BY <1>1, <1>8 DEF ChannelTypeOK
  <1>15. UNCHANGED <<rxSt, rx_next, rx_next_highest, rx_highest_status, rx_window, reassembly_timer,
                    delivered, status_report>>
    BY DEF rxVars, rxSt
  <1> QED
    BY <1>1, <1>11, <1>12, <1>13, <1>14, <1>15, RxTypeFrame, TxFrame, SduFrame, UpperFrame, RxFrame,
       StatFrame, CachedFrame

LEMMA ExpirePollRetransmitTimerKeeps ==
  ASSUME IInv, ExpirePollRetransmitTimer, UNCHANGED rxVars
  PROVE  IInv'
  <1> USE DEF IInv, TypeOK
  <1> DEFINE oldest == [sn |-> tx_next_ack, so |-> 0, length |-> SduLen]
             count == tx_window[tx_next_ack].retx_count + 1
             again == /\ NothingToSend(sdu_queue, retx_queue, sn_under_segmentation, tx_window)
                      /\ tx_next_ack \in DOMAIN tx_window
  <1>1. /\ WithinRetxBound /\ poll_timer' = FALSE
        /\ UNCHANGED <<submitted, txSt, tx_next, tx_next_ack, poll_sn, pdu_without_poll, byte_without_poll, retx_sn,
                       max_retx_reached, sn_under_segmentation, confirmed, data, stat>>
    BY DEF ExpirePollRetransmitTimer, channels, txSt
  <1>2. SnTypes /\ \A sn : TxBase(sn)' = TxBase(sn)
    BY <1>1, Sns DEF TxBase
  <1>3. UNCHANGED <<rxSt, rx_next, rx_next_highest, rx_highest_status, rx_window, reassembly_timer,
                    delivered, status_report>>
    BY DEF rxVars, rxSt
  <1>4. retx_queue \in Seq(Retx) /\ DropStaleRetx(retx_queue, tx_window) = retx_queue
    BY RetxFresh
  <1>5. CASE ~again
    <2>1. UNCHANGED <<retx_queue, tx_window, upper_cn, pending_buffer_state, sdu_queue, upperSt>>
      BY <1>1, <1>5 DEF ExpirePollRetransmitTimer, upperSt
    <2>2. TxTypeOK'
      BY <1>1, <2>1 DEF TxTypeOK
    <2> QED
      BY <1>1, <1>3, <2>1, <2>2, RxTypeFrame, ChannelTypeFrame, TxFrame, SduFrame, UpperFrame, RetxFrame,
         RxFrame, DataFrame, StatFrame, CachedFrame
  <1>6. CASE again
    <2>1. Suffix(sdu_queue', sdu_queue) /\ pending_buffer_state' = FALSE
      BY <1>6, NotifyPops DEF ExpirePollRetransmitTimer
    <2>2. tx_next_ack \in DOMAIN tx_window /\ oldest \in Retx
      BY <1>2, <1>6, RlcAmPduAssumption DEF Retx, Bytes, SnTypes
    <2>3. tx_next_ack # sn_under_segmentation
      <3>1. CASE sn_under_segmentation = NoSn
        BY <1>2, <3>1, Half DEF SnTypes, Sn, NoSn
      <3>2. CASE sn_under_segmentation # NoSn
        <4>1. IsTxWindowFull(tx_window) /\ sn_under_segmentation = tx_next
          BY <1>6, <3>2 DEF NothingToSend, TxInv
        <4>2. Cardinality(DOMAIN tx_window) = Sent /\ Sent = TxBase(tx_next) + 1 /\ TxBase(tx_next) \in Nat
          BY <3>2, SentCount, Half
        <4>3. TxBase(tx_next) # 0
          <5>1. CASE Sent >= AmWindowSize
            BY <4>2, <5>1, Half
          <5>2. CASE MaxWindow # 0 /\ ModBase(tx_next, tx_next_ack) > MaxWindow
            BY <4>2, <5>2, RlcAmTxAssumption DEF TxBase
          <5> QED
            BY <4>1, <4>2, <5>1, <5>2 DEF IsTxWindowFull
        <4>4. TxBase(tx_next_ack) = 0
          BY <1>2, BaseType DEF TxBase, SnTypes
        <4> QED
          BY <4>1, <4>3, <4>4
      <3> QED
        BY <3>1, <3>2
    <2>4. CASE Len(retx_queue) < AmWindowSize
      <3> DEFINE queue == Append(retx_queue, oldest)
      <3>1. /\ queue \in Seq(Retx) /\ Len(queue) = Len(retx_queue) + 1
            /\ \A i \in 1 .. Len(retx_queue) : queue[i] = retx_queue[i]
            /\ queue[Len(retx_queue) + 1] = oldest
        BY <1>4, <2>2, AppendProperties
      <3>2. oldest.sn = tx_next_ack /\ oldest.so = 0 /\ oldest.length = SduLen /\ SduLen \in Nat
        BY RlcAmPduAssumption
      <3> HIDE DEF queue, oldest
      <3>3. \A i \in DOMAIN queue : queue[i] = oldest \/ (i \in DOMAIN retx_queue /\ queue[i] = retx_queue[i])
        <4> TAKE i \in DOMAIN queue
        <4>1. i \in 1 .. (Len(retx_queue) + 1) /\ Len(retx_queue) \in Nat /\ DOMAIN retx_queue = 1 .. Len(retx_queue)
          BY <1>4, <3>1
        <4>2. i = Len(retx_queue) + 1 \/ i \in 1 .. Len(retx_queue)
          BY <4>1
        <4> QED
          BY <3>1, <4>1, <4>2
      <3>4. \A i \in DOMAIN queue :
              /\ queue[i].sn \in DOMAIN tx_window
              /\ queue[i].so + queue[i].length <=
                   IF queue[i].sn = sn_under_segmentation THEN tx_window[queue[i].sn].next_so ELSE SduLen
        <4> TAKE i \in DOMAIN queue
        <4>1. CASE queue[i] = oldest
          BY <2>2, <2>3, <3>2, <4>1
        <4>2. CASE i \in DOMAIN retx_queue /\ queue[i] = retx_queue[i]
          BY <4>2 DEF RetxInv, RetxOnlyWhatWasSent
        <4> QED
          BY <3>3, <4>1, <4>2
      <3>5. DropStaleRetx(queue, tx_window) = queue
        BY <3>1, <3>4, NothingStale
      <3>6. /\ retx_queue' = queue
            /\ tx_window' = [tx_window EXCEPT ![tx_next_ack].retx_count = count]
            /\ upper_cn' = IF count = MaxRetxThresh THEN upper_cn \cup {"max_retx"} ELSE upper_cn
        BY <1>6, <2>4, <3>5 DEF ExpirePollRetransmitTimer, queue, oldest
      <3>7. count \in NotStarted .. RetxCountBound
        BY <1>1, <2>2, RlcAmTxAssumption DEF WithinRetxBound, TxTypeOK, NotStarted
      <3> HIDE DEF count
      <3>8. /\ DOMAIN tx_window' = DOMAIN tx_window
            /\ \A sn \in DOMAIN tx_window :
                 /\ tx_window'[sn].sdu = tx_window[sn].sdu /\ tx_window'[sn].next_so = tx_window[sn].next_so
                 /\ tx_window'[sn] \in [sdu : Sdu, next_so : 0 .. SduLen, retx_count : NotStarted .. RetxCountBound]
        <4>1. \A sn \in DOMAIN tx_window :
                tx_window[sn] \in [sdu : Sdu, next_so : 0 .. SduLen, retx_count : NotStarted .. RetxCountBound]
          BY DEF TxTypeOK
        <4>2. /\ DOMAIN tx_window' = DOMAIN tx_window
              /\ \A sn \in DOMAIN tx_window : sn # tx_next_ack => tx_window'[sn] = tx_window[sn]
              /\ tx_window'[tx_next_ack] = [tx_window[tx_next_ack] EXCEPT !.retx_count = count]
          BY <2>2, <3>6
        <4> QED
          BY <2>2, <3>7, <4>1, <4>2
      <3>9. Sent' = Sent
        BY <1>1 DEF Sent, TxBase
      <3>10. "protocol_failure" \notin upper_cn' /\ upper_cn' \subseteq {"max_retx", "protocol_failure"}
        BY <3>6 DEF UpperInv, TxTypeOK
      <3>11. SameSns
        <4>1. \A sn \in DOMAIN tx_window :
                tx_window'[sn].next_so \in 0 .. SduLen /\ tx_window'[sn].next_so >= tx_window[sn].next_so
          BY <3>2, <3>8, SduTypes
        <4> QED
          BY <1>1, <2>1, <3>8, <3>9, <3>10, <4>1 DEF SameSns
      <3>12. SduInv' /\ UpperInv' /\ RxInv' /\ StatInv' /\ CachedInv' /\ DataInv'
        BY <1>1, <3>11, SameSnsKeepsSdus, SameSnsKeepsLink DEF DataInv
      <3>13. TxInv'
        <4>1. sn_under_segmentation' # NoSn => tx_next' \in DOMAIN tx_window
          BY <1>1, SentCount DEF TxInv
        <4> QED
          BY <1>1, <1>2, <3>8, <3>9, <4>1 DEF TxInv
      <3>14. RetxInv'
        <4>1. \A i \in DOMAIN queue : tx_window'[queue[i].sn].next_so = tx_window[queue[i].sn].next_so
          BY <3>4, <3>8
        <4> QED
          BY <1>1, <3>4, <3>6, <3>8, <4>1 DEF RetxInv, RetxOnlyWhatWasSent
      <3>15. TxTypeOK'
        BY <1>1, <2>1, <3>1, <3>6, <3>8, <3>10 DEF TxTypeOK, Suffix, Entries
      <3> QED
        BY <1>1, <3>12, <3>13, <3>14, <3>15, RxTypeFrame, ChannelTypeFrame
    <2>5. CASE ~(Len(retx_queue) < AmWindowSize)
      <3>1. UNCHANGED <<retx_queue, tx_window, upper_cn, upperSt>>
        BY <1>1, <1>4, <1>6, <2>5 DEF ExpirePollRetransmitTimer, upperSt
      <3>2. SduInv' /\ UpperInv'
        BY <1>1, <1>3, <2>1, <3>1, QueueShrinks
      <3>3. TxTypeOK'
        BY <1>1, <2>1, <3>1 DEF TxTypeOK, Suffix, Entries
      <3> QED
        BY <1>1, <1>3, <3>1, <3>2, <3>3, RxTypeFrame, ChannelTypeFrame, TxFrame, RetxFrame,
           RxFrame, DataFrame, StatFrame, CachedFrame
    <2> QED
      BY <2>4, <2>5
  <1> QED
    BY <1>5, <1>6


-----------------------------------------------------------------------------
(* handle_status_pdu.                                                      *)

\* RX_Next does not pass the SN that is under segmentation.
RxNotAhead == TxBase(rx_next) <= TxBase(tx_next)

\* ACKs are processed up to the SN at distance m from TX_Next_Ack.
AckPoint(status, m) ==
  /\ m \in 0 .. AmWindowSize /\ AckedUpTo(status) \in Sn /\ TxBase(AckedUpTo(status)) = m
  /\ m <= TxBase(status.ack_sn) /\ \A n \in status.nacks : m <= TxBase(n.sn)
  /\ m <= TxBase(rx_next) /\ m <= TxBase(tx_next)
  /\ \A sn \in Sn : TxBase(sn) < m => sn \in DOMAIN tx_window /\ Complete(sn)

\* Everything below it is complete at the receiver.
LEMMA AckIs ==
  ASSUME IInv, RxNotAhead, NEW status \in stat, Accepts(status)
  PROVE  \E m \in 0 .. AmWindowSize : AckPoint(status, m)
  <1> USE DEF IInv
  <1> DEFINE ack == TxBase(status.ack_sn)
             bases == {ack} \cup {TxBase(n.sn) : n \in status.nacks}
             stop == Min(bases)
             missing == {d \in 0 .. stop - 1 : SnAdd(tx_next_ack, d) \notin DOMAIN tx_window}
             m == Min(missing \cup {stop})
  <1>1. SnTypes /\ status.ack_sn \in Sn /\ \A n \in status.nacks : n.sn \in Sn
    BY Sns DEF TypeOK, ChannelTypeOK, Nack
  <1>2. \A sn \in Sn : TxBase(sn) \in Nat
    BY <1>1, BaseType, Half DEF TxBase, SnTypes
  <1>3. ack \in 1 .. AmWindowSize /\ ack <= TxBase(rx_next) + RxBase(rx_next_highest)
    BY ReportIsHonest DEF Accepts, ValidAckSn
  <1>4. stop \in bases /\ \A y \in bases : stop <= y
    <2>1. bases \in SUBSET Nat /\ bases # {}
      BY <1>1, <1>2
    <2> HIDE DEF bases
    <2> QED
      BY <2>1, MinIn
  <1>5. stop \in Nat /\ stop <= ack /\ \A n \in status.nacks : stop <= TxBase(n.sn)
    BY <1>1, <1>2, <1>4
  <1> HIDE DEF stop
  <1>6. m \in missing \cup {stop} /\ m <= stop
    <2>1. missing \cup {stop} \in SUBSET Nat /\ missing \cup {stop} # {} /\ stop \in missing \cup {stop}
      BY <1>5
    <2> HIDE DEF missing
    <2> QED
      BY <2>1, MinIn
  <1>7. m \in 0 .. stop
    BY <1>5, <1>6
  <1>8. AckedUpTo(status) = SnAdd(tx_next_ack, m)
    BY DEF AckedUpTo, stop
  <1> HIDE DEF ack, bases, missing, m
  <1>9. m \in 0 .. AmWindowSize /\ m \in 0 .. SnModulus /\ m < SnModulus /\ m <= ack /\ ack \in Nat
        /\ \A n \in status.nacks : m <= TxBase(n.sn)
    <2>1. \A n \in status.nacks : TxBase(n.sn) \in Nat
      BY <1>1, <1>2
    <2> QED
      BY <1>3, <1>5, <1>7, <2>1, Half
  <1>10. SnAdd(tx_next_ack, m) \in Sn /\ TxBase(SnAdd(tx_next_ack, m)) = m
    BY <1>1, <1>9, AddType, AddBase, BaseType DEF SnTypes, TxBase
  <1>11. \A sn \in Sn : TxBase(sn) < m => sn \in DOMAIN tx_window /\ Complete(sn)
    <2> SUFFICES ASSUME NEW sn \in Sn, TxBase(sn) < m
                 PROVE  sn \in DOMAIN tx_window /\ Complete(sn)
      OBVIOUS
    <2>1. TxBase(sn) < ack /\ TxBase(sn) < Sent /\ sn \in DOMAIN tx_window
      BY <1>2, <1>3, <1>9, Positions
    <2>2. \A n \in status.nacks : n.sn # sn
      BY <1>2, <1>9
    <2>3. ReportInv(status)
      BY DEF StatInv
    <2> QED
      BY <1>3, <1>9, <2>1, <2>2, <2>3, Half DEF ReportInv, ack
  <1>12. m <= TxBase(rx_next)
    <2>1. rx_next \in Sn /\ TxBase(rx_next) \in Nat
      BY <1>1, <1>2 DEF SnTypes
    <2>2. ~FullyReceived(rx_window, rx_next)
      BY DEF RxInv, RxStateOrder
    <2>3. ~Complete(rx_next)
      BY <2>1, <2>2 DEF Complete
    <2> QED
      BY <1>9, <1>11, <2>1, <2>3
  <1>13. m <= TxBase(tx_next)
    BY <1>1, <1>2, <1>9, <1>12 DEF SnTypes, RxNotAhead
  <1> QED
    BY <1>8, <1>9, <1>10, <1>11, <1>12, <1>13 DEF AckPoint, ack

\* The windows after TX_Next_Ack has moved on by m.
Shifted(m) ==
  /\ m \in 0 .. AmWindowSize /\ tx_next_ack' \in Sn /\ ModBase(tx_next_ack', tx_next_ack) = m
  /\ m <= TxBase(rx_next) /\ m <= TxBase(tx_next)
  /\ \A sn \in Sn : TxBase(sn) < m => sn \in DOMAIN tx_window /\ Complete(sn)
  /\ DOMAIN tx_window' = {sn \in DOMAIN tx_window : TxBase(sn) >= m}
  /\ \A sn \in DOMAIN tx_window' : /\ tx_window'[sn].sdu = tx_window[sn].sdu
                                   /\ tx_window'[sn].next_so = tx_window[sn].next_so
  /\ UNCHANGED <<tx_next, sn_under_segmentation, submitted, data>>
  /\ stat' \subseteq YoungStatus(stat, tx_next_ack, tx_next_ack')
  /\ Suffix(sdu_queue', sdu_queue) /\ "protocol_failure" \notin upper_cn'
  /\ confirmed' = confirmed \cup {tx_window[sn].sdu : sn \in {sn \in DOMAIN tx_window : TxBase(sn) < m}}

\* Distances after the move.
Closer(m) ==
  /\ \A sn \in Sn : /\ TxBase(sn) \in 0 .. SnModulus - 1
                    /\ TxBase(sn)' = IF TxBase(sn) >= m THEN TxBase(sn) - m
                                     ELSE TxBase(sn) - m + SnModulus
                    /\ sn \in DOMAIN tx_window' <=> TxBase(sn) >= m /\ TxBase(sn) < Sent
  /\ \A sn \in DOMAIN tx_window' : /\ sn \in DOMAIN tx_window /\ sn \in Sn
                                   /\ TxBase(sn)' = TxBase(sn) - m
  /\ Sent' = Sent - m /\ Sent' \in 0 .. AmWindowSize
  /\ TxBase(rx_next)' = TxBase(rx_next) - m /\ TxBase(tx_next)' = TxBase(tx_next) - m
  /\ RxBase(rx_next_highest)' = RxBase(rx_next_highest)
  /\ \A sn \in DOMAIN tx_window' : Complete(sn)' <=> Complete(sn)

LEMMA ShiftedCloser ==
  ASSUME IInv, NEW m, Shifted(m), UNCHANGED rxVars
  PROVE  Closer(m)
  <1> USE DEF IInv
  <1>1. SnTypes /\ UNCHANGED <<rx_next, rx_next_highest, rx_window, tx_next, sn_under_segmentation>>
    BY Sns DEF rxVars, rxSt, Shifted
  <1>2. /\ m \in 0 .. AmWindowSize /\ tx_next_ack' \in Sn /\ ModBase(tx_next_ack', tx_next_ack) = m
        /\ m <= TxBase(rx_next) /\ m <= TxBase(tx_next)
        /\ DOMAIN tx_window' = {sn \in DOMAIN tx_window : TxBase(sn) >= m}
    BY DEF Shifted
  <1>3. \A sn \in Sn :
          /\ TxBase(sn) \in 0 .. SnModulus - 1
          /\ TxBase(sn)' = IF TxBase(sn) >= m THEN TxBase(sn) - m ELSE TxBase(sn) - m + SnModulus
          /\ sn \in DOMAIN tx_window' <=> TxBase(sn) >= m /\ TxBase(sn) < Sent
    <2> TAKE sn \in Sn
    <2>1. TxBase(sn) \in 0 .. SnModulus - 1 /\ (sn \in DOMAIN tx_window <=> TxBase(sn) < Sent)
      BY Positions
    <2>2. ModBase(sn, tx_next_ack') =
            IF ModBase(sn, tx_next_ack) >= m THEN ModBase(sn, tx_next_ack) - m
            ELSE ModBase(sn, tx_next_ack) - m + SnModulus
      BY <1>1, <1>2, Rebase DEF SnTypes
    <2>3. TxBase(sn)' = ModBase(sn, tx_next_ack')
      BY DEF TxBase
    <2> QED
      BY <1>2, <2>1, <2>2, <2>3 DEF TxBase
  <1>4. \A sn \in DOMAIN tx_window' :
          sn \in DOMAIN tx_window /\ sn \in Sn /\ TxBase(sn)' = TxBase(sn) - m
    BY <1>2, <1>3, SduTypes
  <1>5. TxBase(rx_next)' = ModBase(rx_next, tx_next_ack') /\ TxBase(tx_next)' = ModBase(tx_next, tx_next_ack')
    BY <1>1 DEF TxBase
  <1>6. TxBase(rx_next)' = TxBase(rx_next) - m /\ TxBase(tx_next)' = TxBase(tx_next) - m
    <2>1. /\ ModBase(rx_next, tx_next_ack') = TxBase(rx_next) - m
          /\ ModBase(tx_next, tx_next_ack') = TxBase(tx_next) - m
      <3>1. \A sn \in Sn : TxBase(sn)' = ModBase(sn, tx_next_ack')
        BY DEF TxBase
      <3> QED
        BY <1>1, <1>2, <1>3, <3>1 DEF SnTypes
    <2> QED
      BY <1>5, <2>1
  <1>7. Sent' = Sent - m /\ Sent' \in 0 .. AmWindowSize
    <2>1. Sent' = TxBase(tx_next)' + IF sn_under_segmentation = NoSn THEN 0 ELSE 1
      BY <1>1 DEF Sent
    <2>2. /\ Sent = TxBase(tx_next) + IF sn_under_segmentation = NoSn THEN 0 ELSE 1
          /\ Sent \in 0 .. AmWindowSize /\ TxBase(tx_next) \in 0 .. AmWindowSize
      BY SentCount
    <2> QED
      BY <1>2, <1>6, <2>1, <2>2, Half
  <1>8. RxBase(rx_next_highest)' = RxBase(rx_next_highest)
    BY <1>1 DEF RxBase
  <1>9. ASSUME NEW sn \in DOMAIN tx_window'
        PROVE  Complete(sn)' <=> Complete(sn)
    <2>1. TxBase(sn)' < TxBase(rx_next)' <=> TxBase(sn) < TxBase(rx_next)
      <3>1. TxBase(sn) \in Int /\ TxBase(rx_next) \in Int /\ m \in Int
        BY <1>1, <1>2, <1>3, <1>4, Half DEF SnTypes
      <3> QED
        BY <1>4, <1>6, <3>1
    <2>2. Complete(sn)' <=> TxBase(sn)' < TxBase(rx_next)' \/ FullyReceived(rx_window, sn)
      BY <1>1 DEF Complete, FullyReceived
    <2> QED
      BY <2>1, <2>2 DEF Complete
  <1> QED
    BY <1>3, <1>4, <1>6, <1>7, <1>8, <1>9 DEF Closer

LEMMA ShiftedKeepsSdus ==
  ASSUME IInv, NEW m, Shifted(m), UNCHANGED rxVars
  PROVE  TxInv' /\ (RxNotAhead => RxNotAhead') /\ SduInv' /\ UpperInv'
  <1> USE DEF IInv
  <1>1. Closer(m)
    BY ShiftedCloser
  <1>2. /\ m \in 0 .. AmWindowSize /\ m <= TxBase(rx_next) /\ m <= TxBase(tx_next)
        /\ UNCHANGED <<tx_next, sn_under_segmentation, submitted, delivered>>
        /\ \A sn \in DOMAIN tx_window' : /\ tx_window'[sn].sdu = tx_window[sn].sdu
                                         /\ tx_window'[sn].next_so = tx_window[sn].next_so
    BY DEF Shifted, rxVars
  <1>3. \A sn \in DOMAIN tx_window' : /\ sn \in DOMAIN tx_window /\ sn \in Sn
                                      /\ TxBase(sn)' = TxBase(sn) - m /\ TxBase(sn) \in Int
    BY <1>1, Half DEF Closer
  <1>4. TxInv'
    <2>1. ASSUME NEW sn \in Sn
          PROVE  sn \in DOMAIN tx_window' <=> TxBase(sn)' < Sent'
      BY <1>1, <1>2, SentCount, Half DEF Closer
    <2>2. DOMAIN tx_window' \subseteq Sn
      BY <1>3
    <2>3. DOMAIN tx_window' = {sn \in Sn : TxBase(sn)' < Sent'} /\ Sent' <= AmWindowSize
      <3>1. DOMAIN tx_window' = {sn \in Sn : TxBase(sn)' < Sent'}
        BY <2>1, <2>2
      <3>2. Sent' \in 0 .. AmWindowSize
        BY <1>1 DEF Closer
      <3> QED
        BY <3>1, <3>2, Half
    <2>4. sn_under_segmentation' # NoSn => tx_window'[tx_next'].next_so \in 1 .. SduLen - 1
      <3> SUFFICES ASSUME sn_under_segmentation # NoSn
                   PROVE  tx_window'[tx_next].next_so \in 1 .. SduLen - 1
        BY <1>2
      <3>1. sn_under_segmentation = tx_next /\ tx_next \in DOMAIN tx_window /\ tx_next \in Sn
        BY SentCount, Sns DEF TxInv, SnTypes
      <3>2. tx_next \in DOMAIN tx_window'
        BY <1>2, <3>1 DEF Shifted
      <3> QED
        BY <1>2, <3>2 DEF TxInv
    <2> QED
      BY <1>2, <2>3, <2>4 DEF TxInv
  <1>5. ASSUME RxNotAhead PROVE RxNotAhead'
    BY <1>1, <1>2, <1>5, Positions, SentCount DEF RxNotAhead, Closer
  <1>6. sdu_queue \in Seq(Entries)
    BY SduTypes
  <1>7. /\ \A i \in DOMAIN sdu_queue' : \E j \in DOMAIN sdu_queue : sdu_queue'[i].sdu = sdu_queue[j].sdu
        /\ \A i, j \in DOMAIN sdu_queue' : i < j => sdu_queue'[i].sdu < sdu_queue'[j].sdu
    BY <1>6, SuffixFacts DEF SduInv, Shifted
  <1>8. SduInv'
    <2>1. \A i \in DOMAIN sdu_queue' : sdu_queue'[i].sdu <= submitted'
      BY <1>2, <1>7 DEF SduInv
    <2>2. ASSUME NEW sn \in DOMAIN tx_window'
          PROVE  /\ tx_window'[sn].sdu <= submitted'
                 /\ \A i \in DOMAIN sdu_queue' : tx_window'[sn].sdu < sdu_queue'[i].sdu
                 /\ \A o \in DOMAIN tx_window' : TxBase(sn)' < TxBase(o)' => tx_window'[sn].sdu < tx_window'[o].sdu
      <3>1. sn \in DOMAIN tx_window /\ tx_window'[sn].sdu = tx_window[sn].sdu
        BY <1>2, <1>3
      <3>2. \A o \in DOMAIN tx_window' : TxBase(sn)' < TxBase(o)' => TxBase(sn) < TxBase(o)
        BY <1>2, <1>3
      <3>3. \A o \in DOMAIN tx_window' : o \in DOMAIN tx_window /\ tx_window'[o].sdu = tx_window[o].sdu
        BY <1>2, <1>3
      <3> QED
        BY <1>2, <1>7, <3>1, <3>2, <3>3 DEF SduInv
    <2> QED
      BY <1>7, <2>1, <2>2 DEF SduInv
  <1>9. UpperInv'
    <2>1. \A sn \in DOMAIN tx_window' : delivered[tx_window'[sn].sdu] = 1 <=> Complete(sn)'
      BY <1>1, <1>2, <1>3 DEF Closer, UpperInv
    <2>2. \A s \in confirmed' : s <= submitted /\ delivered[s] = 1
      <3> SUFFICES ASSUME NEW s \in confirmed', s \notin confirmed PROVE s <= submitted /\ delivered[s] = 1
        BY DEF UpperInv
      <3>1. PICK sn \in DOMAIN tx_window : TxBase(sn) < m /\ s = tx_window[sn].sdu
        BY DEF Shifted
      <3>2. sn \in Sn /\ Complete(sn)
        BY <3>1, SduTypes DEF Shifted
      <3> QED
        BY <3>1, <3>2 DEF UpperInv, SduInv
    <2>3. \A i \in DOMAIN sdu_queue' : delivered[sdu_queue'[i].sdu] = 0
      BY <1>7 DEF UpperInv
    <2>4. "protocol_failure" \notin upper_cn'
      BY DEF Shifted
    <2> QED
      BY <1>2, <2>1, <2>2, <2>3, <2>4 DEF UpperInv
  <1> QED
    BY <1>4, <1>5, <1>8, <1>9

\* What the receiver holds is not acknowledged away, and old PDUs stay old.
LEMMA ShiftedKeepsLink ==
  ASSUME IInv, NEW m, Shifted(m), UNCHANGED rxVars
  PROVE  RxInv' /\ CachedInv' /\ DataInv'
  <1> USE DEF IInv
  <1>1. Closer(m)
    BY ShiftedCloser
  <1>2. /\ m \in 0 .. AmWindowSize /\ m <= TxBase(rx_next)
        /\ UNCHANGED <<tx_next, sn_under_segmentation, data>>
        /\ \A sn \in DOMAIN tx_window' : /\ tx_window'[sn].sdu = tx_window[sn].sdu
                                         /\ tx_window'[sn].next_so = tx_window[sn].next_so
        /\ DOMAIN tx_window' = {sn \in DOMAIN tx_window : TxBase(sn) >= m}
    BY DEF Shifted
  <1>3. UNCHANGED <<rx_next, rx_next_highest, rx_highest_status, rx_next_status_trigger, rx_window,
                    reassembly_timer, status_report>>
    BY DEF rxVars, rxSt
  <1>4. CachedInv'
    BY <1>3, CachedFrame
  <1>5. RxInv'
    <2>1. RxStateOrder'
      BY <1>3 DEF RxInv, RxStateOrder, FullyReceived
    <2>2. TxBase(rx_next)' + RxBase(rx_next_highest)' <= Sent'
      BY <1>1, <1>2, Positions, Half DEF Closer
    <2>3. rx_next_highest' # rx_next' => \E sn \in DOMAIN rx_window' : SnAdd(sn, 1) = rx_next_highest'
      BY <1>3 DEF RxInv
    <2>4. reassembly_timer' =>
             /\ RxBase(rx_next_status_trigger)' \in 1 .. RxBase(rx_next_highest)'
             /\ \E sn \in DOMAIN rx_window' : SnAdd(sn, 1) = rx_next_status_trigger'
      BY <1>3 DEF RxInv, RxBase
    <2>5. \A sn \in DOMAIN rx_window : sn \in DOMAIN tx_window'
      <3> TAKE sn \in DOMAIN rx_window
      <3>1. sn \in Sn /\ sn \in DOMAIN tx_window /\ TxBase(sn) = TxBase(rx_next) + RxBase(sn)
        BY RxInTx
      <3>2. TxBase(rx_next) \in Nat /\ RxBase(sn) \in Nat
        BY <3>1, Positions, Half
      <3> QED
        BY <1>2, <3>1, <3>2
    <2>6. \A sn \in DOMAIN rx_window' : \A b \in DOMAIN rx_window'[sn] :
             /\ rx_window'[sn][b] = tx_window'[sn].sdu
             /\ sn = sn_under_segmentation' => b < tx_window'[sn].next_so
      BY <1>2, <1>3, <2>5 DEF RxInv
    <2> QED
      BY <2>1, <2>2, <2>3, <2>4, <2>6 DEF RxInv
  <1>6. DataInv'
    <2> SUFFICES ASSUME NEW pdu \in data PROVE PduInv(pdu)'
      BY <1>2 DEF DataInv
    <2>1. pdu.sn \in Sn /\ PduInv(pdu)
      BY DEF DataInv, TypeOK, ChannelTypeOK, DataPdu
    <2>2. CASE pdu.sn \in DOMAIN tx_window'
      <3>1. pdu.sn \in DOMAIN tx_window
        BY <1>2, <2>2
      <3> QED
        BY <1>2, <2>1, <2>2, <3>1 DEF PduInv
    <2>3. CASE pdu.sn \notin DOMAIN tx_window'
      <3>1. TxBase(pdu.sn) < m \/ TxBase(pdu.sn) >= Sent + AmWindowSize
        <4>1. TxBase(pdu.sn) \in Int /\ m \in Int
          BY <1>1, <1>2, <2>1, Half DEF Closer
        <4>2. pdu.sn \in DOMAIN tx_window => TxBase(pdu.sn) < m
          BY <1>2, <2>3, <4>1
        <4> QED
          BY <2>1, <4>2 DEF PduInv
      <3>2. ASSUME NEW sn, sn = pdu.sn PROVE TxBase(sn)' >= Sent' + AmWindowSize
        <4>1. /\ TxBase(sn) \in 0 .. SnModulus - 1
              /\ TxBase(sn)' = IF TxBase(sn) >= m THEN TxBase(sn) - m ELSE TxBase(sn) - m + SnModulus
              /\ Sent' = Sent - m /\ Sent \in 0 .. AmWindowSize
          BY <1>1, <2>1, <3>2, SentCount DEF Closer
        <4>2. TxBase(sn) < m \/ TxBase(sn) >= Sent + AmWindowSize
          BY <3>1, <3>2
        <4>3. m <= Sent
          BY <1>2, Positions, Half
        <4>4. CASE TxBase(sn) < m
          BY <1>2, <4>1, <4>3, <4>4, Half
        <4>5. CASE TxBase(sn) >= Sent + AmWindowSize
          BY <1>2, <4>1, <4>3, <4>5, Half
        <4> QED
          BY <4>2, <4>4, <4>5
      <3>3. pdu.so + pdu.len <= SduLen
        BY <2>1 DEF PduInv
      <3> QED
        BY <2>3, <3>2, <3>3 DEF PduInv
    <2> QED
      BY <2>2, <2>3
  <1> QED
    BY <1>4, <1>5, <1>6

\* A report that the move has made outdated lies behind the window; what the others
\* say stays true.
LEMMA ShiftedKeepsStat ==
  ASSUME IInv, NEW m, Shifted(m), UNCHANGED rxVars
  PROVE  StatInv'
  <1> USE DEF IInv
  <1>1. Closer(m)
    BY ShiftedCloser
  <1>2. /\ m \in 0 .. AmWindowSize /\ ModBase(tx_next_ack', tx_next_ack) = m /\ tx_next_ack' \in Sn
        /\ m <= TxBase(rx_next) /\ m <= TxBase(tx_next)
        /\ UNCHANGED sn_under_segmentation
        /\ DOMAIN tx_window' = {sn \in DOMAIN tx_window : TxBase(sn) >= m}
        /\ \A sn \in DOMAIN tx_window' : tx_window'[sn].next_so = tx_window[sn].next_so
        /\ stat' \subseteq YoungStatus(stat, tx_next_ack, tx_next_ack')
    BY DEF Shifted
  <1> SUFFICES ASSUME NEW report \in stat'
               PROVE  ReportInv(report)' /\ \A nack \in report.nacks : NackInv(nack)
    BY DEF StatInv, NackInv
  <1>3. /\ report \in stat /\ report.ack_sn \in Sn /\ \A nack \in report.nacks : nack.sn \in Sn
        /\ ReportInv(report) /\ \A nack \in report.nacks : NackInv(nack)
        /\ \/ ModBase(tx_next_ack, report.ack_sn) >= AmWindowSize
           \/ ModBase(tx_next_ack, report.ack_sn) + m < AmWindowSize
    BY <1>2 DEF YoungStatus, StatInv, TypeOK, ChannelTypeOK, Nack
  <1> DEFINE ack == TxBase(report.ack_sn)
  <1>4. /\ ack \in 0 .. SnModulus - 1
        /\ ModBase(tx_next_ack, report.ack_sn) = IF ack = 0 THEN 0 ELSE SnModulus - ack
    <2>1. tx_next_ack \in Sn /\ ModBase(tx_next_ack, tx_next_ack) = 0 /\ ack \in 0 .. SnModulus - 1
      BY <1>3, Sns, BaseType DEF SnTypes, TxBase
    <2>2. ModBase(tx_next_ack, report.ack_sn) = IF 0 >= ack THEN 0 - ack ELSE 0 - ack + SnModulus
      BY <1>3, <2>1, Rebase DEF TxBase
    <2> QED
      BY <2>1, <2>2, Half
  <1> DEFINE ackNew == IF ack >= m THEN ack - m ELSE ack - m + SnModulus
  <1>5. ASSUME NEW sn, sn = report.ack_sn PROVE TxBase(sn)' = ackNew
    BY <1>1, <1>3, <1>5 DEF Closer
  <1>6. TxBase(report.ack_sn)' = ackNew
    BY <1>5
  <1> HIDE DEF ack, ackNew
  <1>7. \/ ackNew > AmWindowSize
        \/ ack <= AmWindowSize /\ ack >= m /\ ackNew = ack - m
    BY <1>2, <1>3, <1>4, Half DEF ackNew
  <1>8. CASE ackNew > AmWindowSize
    BY <1>3, <1>6, <1>8 DEF ReportInv
  <1>9. CASE ack <= AmWindowSize /\ ack >= m /\ ackNew = ack - m
    <2>1. /\ ack <= TxBase(rx_next) + RxBase(rx_next_highest)
          /\ \A sn \in DOMAIN tx_window :
               TxBase(sn) < ack /\ (\A nack \in report.nacks : nack.sn # sn) => Complete(sn)
          /\ \A nack \in report.nacks :
               TxBase(nack.sn) < ack =>
                 /\ ~nack.has_so => TxBase(nack.sn) + 1 < TxBase(rx_next) + RxBase(rx_next_highest)
                 /\ nack.has_so /\ nack.so_end # EndOfSdu /\ nack.sn = sn_under_segmentation
                      => nack.so_end < tx_window[nack.sn].next_so
      <3>1. ~(ack > AmWindowSize)
        BY <1>4, <1>9, Half
      <3> QED
        BY <1>3, <3>1 DEF ReportInv, ack
    <2>2. /\ ackNew \in Int /\ ack \in Int /\ m \in Int
          /\ TxBase(rx_next) \in Int /\ RxBase(rx_next_highest) \in Int
          /\ TxBase(rx_next)' = TxBase(rx_next) - m /\ RxBase(rx_next_highest)' = RxBase(rx_next_highest)
      BY <1>1, <1>2, <1>4, <1>9, Positions, Half DEF Closer
    <2>3. ackNew <= TxBase(rx_next)' + RxBase(rx_next_highest)'
      BY <1>9, <2>1, <2>2
    <2>4. ASSUME NEW sn \in DOMAIN tx_window', TxBase(sn)' < ackNew, \A nack \in report.nacks : nack.sn # sn
          PROVE  Complete(sn)'
      <3>1. sn \in DOMAIN tx_window /\ sn \in Sn /\ TxBase(sn)' = TxBase(sn) - m /\ TxBase(sn) \in Int
        BY <1>1, Half DEF Closer
      <3>2. TxBase(sn) < ack
        BY <1>9, <2>2, <2>4, <3>1
      <3> QED
        BY <1>1, <2>1, <2>4, <3>1, <3>2 DEF Closer
    <2>5. ASSUME NEW nack \in report.nacks, NEW sn, sn = nack.sn, TxBase(sn)' < ackNew
          PROVE  /\ ~nack.has_so => TxBase(sn)' + 1 < TxBase(rx_next)' + RxBase(rx_next_highest)'
                 /\ nack.has_so /\ nack.so_end # EndOfSdu /\ nack.sn = sn_under_segmentation
                      => nack.so_end < tx_window'[nack.sn].next_so
      <3>1. /\ sn \in Sn /\ TxBase(sn) \in 0 .. SnModulus - 1
            /\ TxBase(sn)' = IF TxBase(sn) >= m THEN TxBase(sn) - m ELSE TxBase(sn) - m + SnModulus
        BY <1>1, <1>3, <2>5 DEF Closer
      <3>2. TxBase(sn) >= m /\ TxBase(sn)' = TxBase(sn) - m /\ TxBase(sn) < ack
        BY <1>2, <1>4, <1>9, <2>5, <3>1, Half
      <3>3. /\ ~nack.has_so => TxBase(sn) + 1 < TxBase(rx_next) + RxBase(rx_next_highest)
            /\ nack.has_so /\ nack.so_end # EndOfSdu /\ sn = sn_under_segmentation
                 => nack.so_end < tx_window[sn].next_so
        BY <2>1, <2>5, <3>2
      <3>4. ~nack.has_so => TxBase(sn)' + 1 < TxBase(rx_next)' + RxBase(rx_next_highest)'
        BY <2>2, <3>1, <3>2, <3>3, Half
      <3>5. sn = sn_under_segmentation => tx_window'[sn].next_so = tx_window[sn].next_so
        <4>1. sn # NoSn
          BY <3>1, Half DEF Sn, NoSn
        <4>2. sn = sn_under_segmentation => sn \in DOMAIN tx_window
          BY <4>1, SentCount
        <4> QED
          BY <1>2, <3>2, <4>2
      <3> QED
        BY <2>5, <3>3, <3>4, <3>5
    <2> QED
      BY <1>2, <1>3, <1>6, <2>3, <2>4, <2>5 DEF ReportInv
  <1> QED
    BY <1>7, <1>8, <1>9

\* The range that a NACK asks for, if it is one of the SDU.
LEMMA RetxInSdu ==
  ASSUME NEW nack \in Nack, NEW info, NackStart(nack) \in Nat, NackEnd(nack, info) \in Nat,
         NackStart(nack) <= NackEnd(nack, info), NackEnd(nack, info) < SduLen
  PROVE  LET retx == RetxOf(nack, info)
         IN  /\ retx \in Retx /\ retx.sn = nack.sn
             /\ retx.so + retx.length = NackEnd(nack, info) + 1
             /\ ~NackOutOfSdu(nack, info)
  <1> DEFINE s == NackStart(nack)
             e == NackEnd(nack, info)
  <1>1. s \in Nat /\ e \in Nat /\ s <= e /\ e < SduLen /\ SduLen \in Nat /\ nack.sn \in Sn
    BY RlcAmPduAssumption DEF Nack
  <1>2. ~(e >= SduLen) /\ ~(s > e) /\ ~(s >= SduLen)
    BY <1>1
  <1>3. RetxOf(nack, info) = [sn |-> nack.sn, so |-> s, length |-> e - s + 1]
    BY <1>2 DEF RetxOf
  <1>4. ~NackOutOfSdu(nack, info)
    BY <1>2 DEF NackOutOfSdu
  <1> HIDE DEF s, e
  <1>5. s \in Bytes /\ e - s + 1 \in 1 .. SduLen /\ s + (e - s + 1) = e + 1
    BY <1>1 DEF Bytes
  <1>6. [sn |-> nack.sn, so |-> s, length |-> e - s + 1] \in Retx
    BY <1>1, <1>5 DEF Retx
  <1> QED
    BY <1>3, <1>4, <1>5, <1>6 DEF s, e

\* A NACK of a report that is not outdated asks for what has been sent.
LEMMA NackFits ==
  ASSUME IInv, NEW status \in stat, Accepts(status), NEW nack \in status.nacks,
         NEW info, info = tx_window[nack.sn], ~NackOfUnsent(nack, info)
  PROVE  /\ nack.sn \in DOMAIN tx_window
         /\ RetxOf(nack, info) \in Retx /\ RetxOf(nack, info).sn = nack.sn
         /\ RetxOf(nack, info).so + RetxOf(nack, info).length <=
              IF nack.sn = sn_under_segmentation THEN info.next_so ELSE SduLen
         /\ ~NackOutOfSdu(nack, info)
  <1> USE DEF IInv
  <1> DEFINE ack == TxBase(status.ack_sn)
             s == NackStart(nack)
             e == NackEnd(nack, info)
  <1>1. /\ nack \in Nack /\ nack.sn \in Sn /\ nack.has_so \in BOOLEAN /\ nack.so_start \in Nat
        /\ (nack.so_end # EndOfSdu => nack.so_end \in Nat) /\ SduLen \in Nat /\ SduLen >= 1
    BY RlcAmPduAssumption DEF TypeOK, ChannelTypeOK, Nack
  <1>2. ack \in 1 .. AmWindowSize /\ ack <= TxBase(rx_next) + RxBase(rx_next_highest)
    BY ReportIsHonest DEF Accepts, ValidAckSn
  <1>3. /\ TxBase(nack.sn) < ack /\ TxBase(nack.sn) \in Nat /\ TxBase(nack.sn) < Sent /\ nack.sn \in DOMAIN tx_window
        /\ TxBase(rx_next) \in Nat /\ RxBase(rx_next_highest) \in Nat
        /\ TxBase(rx_next) + RxBase(rx_next_highest) <= Sent /\ Sent \in Nat
    <2>1. TxBase(nack.sn) < ack
      BY DEF Accepts, NackBelowAck
    <2> QED
      BY <1>1, <1>2, <2>1, Positions, Half
  <1>4. /\ ~nack.has_so => TxBase(nack.sn) + 1 < TxBase(rx_next) + RxBase(rx_next_highest)
        /\ nack.has_so /\ nack.so_end # EndOfSdu /\ nack.sn = sn_under_segmentation
             => nack.so_end < tx_window[nack.sn].next_so
        /\ NackInv(nack)
    <2>1. ReportInv(status) /\ NackInv(nack)
      BY DEF StatInv
    <2>2. ~(ack > AmWindowSize)
      BY <1>2, Half
    <2> QED
      BY <1>3, <2>1, <2>2 DEF ReportInv
  <1>5. ~nack.has_so => nack.sn # sn_under_segmentation
    <2>1. nack.sn = sn_under_segmentation => TxBase(nack.sn) + 1 = Sent
      <3>1. nack.sn # NoSn
        BY <1>1, Half DEF Sn, NoSn
      <3>2. nack.sn = sn_under_segmentation => nack.sn = tx_next
        BY <3>1 DEF TxInv
      <3> QED
        BY <3>1, <3>2, SentCount
    <2> QED
      BY <1>3, <1>4, <2>1
  <1>6. info.next_so \in 0 .. SduLen
    BY <1>3, SduTypes
  <1>7. /\ s \in Nat /\ e \in Nat /\ s <= e /\ e < SduLen
        /\ nack.sn = sn_under_segmentation => e < info.next_so
    <2>1. CASE ~nack.has_so
      <3>1. s = 0 /\ e = SduLen - 1
        BY <2>1 DEF NackStart, NackEnd
      <3> QED
        BY <1>1, <1>5, <2>1, <3>1
    <2>2. CASE nack.has_so /\ nack.so_end # EndOfSdu
      <3>1. s = nack.so_start /\ e = nack.so_end
        BY <2>2 DEF NackStart, NackEnd
      <3> QED
        BY <1>1, <1>4, <2>2, <3>1 DEF NackInv
    <2>3. CASE nack.has_so /\ nack.so_end = EndOfSdu /\ nack.sn = sn_under_segmentation
      <3>1. s = nack.so_start /\ e = info.next_so - 1
        BY <2>3 DEF NackStart, NackEnd
      <3>2. ~(nack.so_start >= info.next_so)
        BY <2>3 DEF NackOfUnsent
      <3> QED
        BY <1>1, <1>6, <3>1, <3>2
    <2>4. CASE nack.has_so /\ nack.so_end = EndOfSdu /\ nack.sn # sn_under_segmentation
      <3>1. s = nack.so_start /\ e = SduLen - 1
        BY <2>4 DEF NackStart, NackEnd
      <3> QED
        BY <1>1, <1>4, <2>4, <3>1 DEF NackInv
    <2> QED
      BY <1>1, <2>1, <2>2, <2>3, <2>4
  <1>8. LET retx == RetxOf(nack, info)
        IN  /\ retx \in Retx /\ retx.sn = nack.sn /\ retx.so + retx.length = e + 1
            /\ ~NackOutOfSdu(nack, info)
    BY <1>1, <1>7, RetxInSdu
  <1> HIDE DEF s, e
  <1>9. e + 1 <= IF nack.sn = sn_under_segmentation THEN info.next_so ELSE SduLen
    BY <1>1, <1>6, <1>7
  <1> QED
    BY <1>3, <1>8, <1>9

\* The places of NACKs are numbers, and bounded.
LEMMA PlaceBound ==
  ASSUME SnTypes, NEW nack \in Nack
  PROVE  /\ NackPlace(nack) \in Nat
         /\ NackPlace(nack) <= SnModulus * (SduLen + 1) + SduLen
  <1> DEFINE t == TxBase(nack.sn)
             s == NackStart(nack)
             c == SduLen + 1
  <1>1. t \in 0 .. SnModulus - 1 /\ s \in 0 .. SduLen /\ c \in Nat /\ SduLen \in Nat /\ SnModulus \in Nat
    BY BaseType, Half, RlcAmPduAssumption DEF Nack, SnTypes, TxBase, NackStart
  <1>2. NackPlace(nack) = t * c + s
    BY DEF NackPlace
  <1> HIDE DEF t, s, c
  <1>3. t \in Nat /\ SnModulus - t \in Nat /\ s \in Nat
    BY <1>1
  <1>4. t * c \in Nat /\ SnModulus * c \in Nat /\ (SnModulus - t) * c \in Nat
    BY <1>1, <1>3
  <1>5. t * c + (SnModulus - t) * c = SnModulus * c
    BY <1>1, <1>3
  <1>6. t * c <= SnModulus * c
    <2> DEFINE x == t * c
               y == (SnModulus - t) * c
               z == SnModulus * c
    <2>1. x \in Nat /\ y \in Nat /\ z \in Nat /\ x + y = z
      BY <1>4, <1>5
    <2> HIDE DEF x, y, z
    <2>2. x <= z
      BY <2>1
    <2> QED
      BY <2>2 DEF x, z
  <1>7. t * c + s \in Nat /\ t * c + s <= SnModulus * c + SduLen
    <2> DEFINE x == t * c
               z == SnModulus * c
    <2>1. x \in Nat /\ z \in Nat /\ x <= z
      BY <1>4, <1>6
    <2> HIDE DEF x, z
    <2>2. x + s \in Nat /\ x + s <= z + SduLen
      BY <1>1, <1>3, <2>1
    <2> QED
      BY <2>2 DEF x, z
  <1> QED
    BY <1>2, <1>7 DEF c

\* Every entry of the rebuilt queue answers a NACK of the report.
LEMMA RebuiltIs ==
  ASSUME SnTypes, NEW nacks \in SUBSET Nack, NEW window,
         \A n \in nacks : ~NackOfUnsent(n, window[n.sn]) => RetxOf(n, window[n.sn]) \in Retx
  PROVE  LET queue == RebuiltRetx(nacks, window)
         IN  /\ queue \in Seq(Retx) /\ Len(queue) \in Nat /\ DOMAIN queue = 1 .. Len(queue)
             /\ \A i \in DOMAIN queue : \E n \in nacks : /\ ~NackOfUnsent(n, window[n.sn])
                                                         /\ queue[i] = RetxOf(n, window[n.sn])
  <1> DEFINE handled == {n \in nacks : ~NackOfUnsent(n, window[n.sn])}
             spots == {NackPlace(n) : n \in handled}
             places == InOrder(spots)
             At(i) == CHOOSE n \in handled : NackPlace(n) = places[i]
             k == Min({Len(places), AmWindowSize})
             queue == RebuiltRetx(nacks, window)
  <1>1. spots \in SUBSET Nat /\ IsFiniteSet(spots)
    <2>1. \A x \in spots : x \in Nat /\ x <= SnModulus * (SduLen + 1) + SduLen
      BY PlaceBound
    <2> DEFINE bound == SnModulus * (SduLen + 1) + SduLen
    <2>2. bound \in Nat
      BY Half, RlcAmPduAssumption
    <2> HIDE DEF spots, bound
    <2>3. spots \in SUBSET Nat /\ \A x \in spots : x <= bound
      BY <2>1 DEF bound
    <2> QED
      BY <2>2, <2>3, FS_BoundedSetOfNaturals
  <1>2. places \in Seq(spots) /\ Len(places) \in Nat /\ \A i \in 1 .. Len(places) : places[i] \in spots
    <2> HIDE DEF spots
    <2>1. places \in Seq(spots)
      BY <1>1, InOrderSorts
    <2> HIDE DEF places
    <2> QED
      BY <2>1, LenProperties
  <1>3. k \in Nat /\ k <= Len(places)
    <2> DEFINE l == Len(places)
    <2>1. l \in Nat /\ AmWindowSize \in Nat
      BY <1>2, Half
    <2> HIDE DEF l
    <2>2. Min({l, AmWindowSize}) = IF l <= AmWindowSize THEN l ELSE AmWindowSize
      BY <2>1, MinPair
    <2>3. Min({l, AmWindowSize}) \in Nat /\ Min({l, AmWindowSize}) <= l
      BY <2>1, <2>2
    <2> QED
      BY <2>3 DEF l
  <1>4. queue = [i \in 1 .. k |-> RetxOf(At(i), window[At(i).sn])]
    BY DEF RebuiltRetx
  <1>5. \A i \in 1 .. k : At(i) \in handled
    <2> TAKE i \in 1 .. k
    <2>1. i \in 1 .. Len(places)
      <3> HIDE DEF k, places
      <3> QED
        BY <1>2, <1>3
    <2>2. places[i] \in spots
      BY <1>2, <2>1
    <2>3. \E n \in handled : NackPlace(n) = places[i]
      BY <2>2
    <2> HIDE DEF handled, places
    <2> QED
      BY <2>3
  <1> HIDE DEF k, At, queue
  <1>6. \A i \in 1 .. k : RetxOf(At(i), window[At(i).sn]) \in Retx
    BY <1>5
  <1>7. queue \in Seq(Retx) /\ Len(queue) = k /\ DOMAIN queue = 1 .. k
        /\ \A i \in 1 .. k : queue[i] = RetxOf(At(i), window[At(i).sn])
    BY <1>3, <1>4, <1>6
  <1>8. \A i \in DOMAIN queue : \E n \in nacks : /\ ~NackOfUnsent(n, window[n.sn])
                                                  /\ queue[i] = RetxOf(n, window[n.sn])
    BY <1>5, <1>7
  <1> QED
    BY <1>3, <1>7, <1>8 DEF queue

\* The counter of an SN stays within its bounds.
LEMMA RecountBound ==
  ASSUME NEW count \in NotStarted .. RetxCountBound, count < RetxCountBound, NEW rewinds \in Nat,
         NEW again \in BOOLEAN
  PROVE  Recount(count, rewinds, again) \in NotStarted .. RetxCountBound
  <1> DEFINE S == {NotStarted, count - rewinds}
  <1>1. RetxCountBound \in Nat /\ count \in Int /\ NotStarted = -1 /\ count >= -1
    BY RlcAmTxAssumption DEF NotStarted
  <1>2. \E x \in S : \A y \in S : x >= y
    BY <1>1
  <1>3. Max(S) \in S /\ \A y \in S : Max(S) >= y
    BY <1>2 DEF Max
  <1>4. Max(S) \in Int /\ Max(S) >= -1 /\ Max(S) <= count
    BY <1>1, <1>3
  <1> DEFINE x == Max(S)
  <1>5. Recount(count, rewinds, again) = x + IF again THEN 1 ELSE 0
    BY DEF Recount
  <1>6. x \in Int /\ x >= -1 /\ x <= count
    BY <1>4
  <1> HIDE DEF x
  <1> QED
    BY <1>1, <1>5, <1>6

LEMMA RewindsType ==
  ASSUME TypeOK, NEW sn
  PROVE  Rewinds(sn) \in Nat
  <1> DEFINE S == {i \in DOMAIN retx_queue :
                     /\ retx_queue[i].sn = sn
                     /\ (IF i = 1 THEN retx_sn ELSE retx_queue[i - 1].sn) # sn}
  <1>1. DOMAIN retx_queue = 1 .. Len(retx_queue) /\ Len(retx_queue) \in Nat
    BY LenProperties DEF TypeOK, TxTypeOK
  <1>2. IsFiniteSet(1 .. Len(retx_queue))
    BY <1>1, FS_Interval
  <1>3. IsFiniteSet(S)
    BY <1>1, <1>2, FS_Subset
  <1> QED
    BY <1>3, FS_CardinalityType DEF Rewinds

\* The parts of handle_status_pdu.
LeftAfter(status) ==
  [sn \in DOMAIN tx_window \ {sn \in DOMAIN tx_window : TxBase(sn) < TxBase(AckedUpTo(status))} |->
     tx_window[sn]]

QueueAfter(status) == RebuiltRetx(status.nacks, LeftAfter(status))

CountAfter(status) ==
  [sn \in DOMAIN LeftAfter(status) |->
     Recount(LeftAfter(status)[sn].retx_count, Rewinds(sn),
             sn \in {QueueAfter(status)[i].sn : i \in DOMAIN QueueAfter(status)})]

Handles(status) ==
  /\ Accepts(status) /\ WithinRetxBound
  /\ stat' \in {YoungStatus(c, tx_next_ack, AckedUpTo(status)) : c \in Take(stat, status)}
  /\ poll_timer' = (poll_timer /\ TxBase(poll_sn) >= TxBase(status.ack_sn))
  /\ tx_next_ack' = AckedUpTo(status)
  /\ confirmed' = confirmed \cup
       {tx_window[sn].sdu : sn \in {sn \in DOMAIN tx_window : TxBase(sn) < TxBase(AckedUpTo(status))}}
  /\ retx_queue' = QueueAfter(status) /\ retx_sn' = NoSn
  /\ tx_window' = [sn \in DOMAIN LeftAfter(status) |->
                     [LeftAfter(status)[sn] EXCEPT !.retx_count = CountAfter(status)[sn]]]
  /\ upper_cn' \subseteq upper_cn \cup {"max_retx"}
       \cup (IF \E n \in status.nacks : /\ ~NackOfUnsent(n, LeftAfter(status)[n.sn])
                                        /\ NackOutOfSdu(n, LeftAfter(status)[n.sn])
             THEN {"protocol_failure"} ELSE {})
  /\ NotifyBufferState
  /\ UNCHANGED <<submitted, tx_next, poll_sn, pdu_without_poll, byte_without_poll,
                 sn_under_segmentation, max_retx_reached, data>>

LEMMA HandlesSome ==
  ASSUME HandleStatusPdu
  PROVE  \E status \in stat : Handles(status)
  BY DEF HandleStatusPdu, Handles, LeftAfter, QueueAfter, CountAfter

\* What is left of the window, and what is asked for again.
LEMMA HandlesLeft ==
  ASSUME IInv, NEW status \in stat, Handles(status), NEW m, AckPoint(status, m)
  PROVE  /\ DOMAIN LeftAfter(status) = {sn \in DOMAIN tx_window : TxBase(sn) >= m}
         /\ \A sn \in DOMAIN LeftAfter(status) : LeftAfter(status)[sn] = tx_window[sn]
         /\ \A n \in status.nacks :
              /\ n.sn \in DOMAIN LeftAfter(status) /\ LeftAfter(status)[n.sn] = tx_window[n.sn]
         /\ QueueAfter(status) \in Seq(Retx) /\ Len(QueueAfter(status)) \in Nat
         /\ \A i \in DOMAIN QueueAfter(status) :
              /\ QueueAfter(status)[i].sn \in DOMAIN LeftAfter(status)
              /\ QueueAfter(status)[i].so + QueueAfter(status)[i].length <=
                   IF QueueAfter(status)[i].sn = sn_under_segmentation
                   THEN tx_window[QueueAfter(status)[i].sn].next_so ELSE SduLen
         /\ \A n \in status.nacks : ~NackOfUnsent(n, LeftAfter(status)[n.sn])
                                      => ~NackOutOfSdu(n, LeftAfter(status)[n.sn])
  <1> USE DEF IInv
  <1> DEFINE left == LeftAfter(status)
             queue == QueueAfter(status)
  <1>1. Accepts(status) /\ m \in Nat /\ TxBase(AckedUpTo(status)) = m
        /\ \A n \in status.nacks : m <= TxBase(n.sn)
    BY Half DEF Handles, AckPoint
  <1>2. SnTypes /\ status.nacks \in SUBSET Nack /\ \A n \in status.nacks : n.sn \in Sn
    BY Sns DEF TypeOK, ChannelTypeOK, Nack
  <1>3. \A sn \in Sn : TxBase(sn) \in Nat
    BY <1>2, BaseType, Half DEF SnTypes, TxBase
  <1>4. /\ DOMAIN left = {sn \in DOMAIN tx_window : TxBase(sn) >= m}
        /\ \A sn \in DOMAIN left : left[sn] = tx_window[sn]
    <2>1. DOMAIN left = DOMAIN tx_window \ {sn \in DOMAIN tx_window : TxBase(sn) < m}
          /\ \A sn \in DOMAIN left : left[sn] = tx_window[sn]
      BY <1>1 DEF LeftAfter
    <2>2. \A sn \in DOMAIN tx_window : TxBase(sn) \in Nat
      BY <1>3, SduTypes
    <2>3. \A sn \in DOMAIN tx_window : ~(TxBase(sn) < m) <=> TxBase(sn) >= m
      BY <1>1, <2>2
    <2> HIDE DEF left
    <2> QED
      BY <2>1, <2>3
  <1>5. ASSUME NEW n \in status.nacks
        PROVE  /\ n.sn \in DOMAIN left /\ left[n.sn] = tx_window[n.sn] /\ n.sn \in DOMAIN tx_window
               /\ ~NackOfUnsent(n, left[n.sn]) =>
                    /\ RetxOf(n, left[n.sn]) \in Retx /\ RetxOf(n, left[n.sn]).sn = n.sn
                    /\ RetxOf(n, left[n.sn]).so + RetxOf(n, left[n.sn]).length <=
                         IF n.sn = sn_under_segmentation THEN tx_window[n.sn].next_so ELSE SduLen
                    /\ ~NackOutOfSdu(n, left[n.sn])
    <2>1. n.sn \in DOMAIN tx_window
      <3>1. TxBase(n.sn) < TxBase(status.ack_sn) /\ TxBase(status.ack_sn) \in Nat
        BY <1>1, Half DEF Accepts, NackBelowAck, ValidAckSn
      <3>2. TxBase(status.ack_sn) <= TxBase(rx_next) + RxBase(rx_next_highest)
        BY <1>1, ReportIsHonest DEF Accepts
      <3> QED
        BY <1>2, <1>3, <3>1, <3>2, Positions, Half
    <2>2. n.sn \in DOMAIN left /\ left[n.sn] = tx_window[n.sn]
      BY <1>1, <1>4, <2>1
    <2> HIDE DEF left
    <2>3. ASSUME ~NackOfUnsent(n, left[n.sn])
          PROVE  /\ RetxOf(n, left[n.sn]) \in Retx /\ RetxOf(n, left[n.sn]).sn = n.sn
                 /\ RetxOf(n, left[n.sn]).so + RetxOf(n, left[n.sn]).length <=
                      IF n.sn = sn_under_segmentation THEN left[n.sn].next_so ELSE SduLen
                 /\ ~NackOutOfSdu(n, left[n.sn])
      BY <1>1, <2>2, <2>3, NackFits
    <2> QED
      BY <2>1, <2>2, <2>3
  <1>6. queue = RebuiltRetx(status.nacks, left)
    BY DEF QueueAfter
  <1> HIDE DEF left, queue
  <1>7. /\ queue \in Seq(Retx) /\ Len(queue) \in Nat
        /\ \A i \in DOMAIN queue : \E n \in status.nacks : /\ ~NackOfUnsent(n, left[n.sn])
                                                           /\ queue[i] = RetxOf(n, left[n.sn])
    BY <1>2, <1>5, <1>6, RebuiltIs
  <1>8. ASSUME NEW i \in DOMAIN queue
        PROVE  /\ queue[i].sn \in DOMAIN left
               /\ queue[i].so + queue[i].length <=
                    IF queue[i].sn = sn_under_segmentation THEN tx_window[queue[i].sn].next_so ELSE SduLen
    <2>1. PICK n \in status.nacks : ~NackOfUnsent(n, left[n.sn]) /\ queue[i] = RetxOf(n, left[n.sn])
      BY <1>7
    <2> QED
      BY <1>5, <2>1
  <1> QED
    BY <1>4, <1>5, <1>7, <1>8 DEF left, queue

LEMMA HandleStatusPduKeeps ==
  ASSUME IInv, RxNotAhead, HandleStatusPdu, UNCHANGED rxVars
  PROVE  IInv' /\ RxNotAhead'
  <1> USE DEF IInv, TypeOK
  <1>1. PICK status \in stat : Handles(status)
    BY HandlesSome
  <1>2. PICK m \in 0 .. AmWindowSize : AckPoint(status, m)
    BY <1>1, AckIs DEF Handles
  <1> DEFINE left == LeftAfter(status)
             queue == QueueAfter(status)
             count == CountAfter(status)
  <1>3. /\ DOMAIN left = {sn \in DOMAIN tx_window : TxBase(sn) >= m}
        /\ \A sn \in DOMAIN left : left[sn] = tx_window[sn]
        /\ queue \in Seq(Retx)
        /\ \A i \in DOMAIN queue :
             /\ queue[i].sn \in DOMAIN left
             /\ queue[i].so + queue[i].length <=
                  IF queue[i].sn = sn_under_segmentation THEN tx_window[queue[i].sn].next_so ELSE SduLen
        /\ \A n \in status.nacks : ~NackOfUnsent(n, left[n.sn]) => ~NackOutOfSdu(n, left[n.sn])
    BY <1>1, <1>2, HandlesLeft
  <1>4. \A sn \in DOMAIN left : count[sn] \in NotStarted .. RetxCountBound
    <2> TAKE sn \in DOMAIN left
    <2> DEFINE again == sn \in {queue[i].sn : i \in DOMAIN queue}
    <2>1. count[sn] = Recount(left[sn].retx_count, Rewinds(sn), again)
      BY DEF CountAfter
    <2>2. sn \in DOMAIN tx_window /\ left[sn] = tx_window[sn]
      BY <1>3
    <2>3. left[sn].retx_count \in NotStarted .. RetxCountBound /\ left[sn].retx_count < RetxCountBound
      BY <1>1, <2>2 DEF Handles, WithinRetxBound, TxTypeOK
    <2>4. Rewinds(sn) \in Nat /\ again \in BOOLEAN
      BY RewindsType
    <2> HIDE DEF left, queue, count, again
    <2> QED
      BY <2>1, <2>3, <2>4, RecountBound
  <1>5. /\ tx_window' = [sn \in DOMAIN left |-> [left[sn] EXCEPT !.retx_count = count[sn]]]
        /\ retx_queue' = queue /\ retx_sn' = NoSn /\ tx_next_ack' = AckedUpTo(status)
        /\ poll_timer' \in BOOLEAN /\ NotifyBufferState
        /\ UNCHANGED <<submitted, tx_next, poll_sn, pdu_without_poll, byte_without_poll,
                       sn_under_segmentation, max_retx_reached, data>>
    BY <1>1 DEF Handles
  <1>6. upper_cn' \subseteq upper_cn \cup {"max_retx"}
    BY <1>1, <1>3 DEF Handles
  <1>7. stat' \subseteq YoungStatus(stat, tx_next_ack, tx_next_ack') /\ stat' \subseteq stat
    BY <1>1, <1>5 DEF Handles, Take, YoungStatus
  <1>8. tx_next_ack' \in Sn /\ TxBase(AckedUpTo(status)) = m /\ ModBase(tx_next_ack', tx_next_ack) = m
    BY <1>2, <1>5 DEF AckPoint, TxBase
  <1>9. confirmed' = confirmed \cup {tx_window[sn].sdu : sn \in {sn \in DOMAIN tx_window : TxBase(sn) < m}}
    BY <1>1, <1>8 DEF Handles
  <1> HIDE DEF left, queue, count
  <1>10. /\ DOMAIN tx_window' = DOMAIN left
         /\ \A sn \in DOMAIN left :
              /\ sn \in DOMAIN tx_window /\ sn \in Sn
              /\ tx_window'[sn].sdu = tx_window[sn].sdu /\ tx_window'[sn].next_so = tx_window[sn].next_so
              /\ tx_window'[sn] \in [sdu : Sdu, next_so : 0 .. SduLen, retx_count : NotStarted .. RetxCountBound]
    <2>1. DOMAIN tx_window' = DOMAIN left
      BY <1>5
    <2> SUFFICES ASSUME NEW sn \in DOMAIN left
                 PROVE  /\ sn \in DOMAIN tx_window /\ sn \in Sn
                        /\ tx_window'[sn].sdu = tx_window[sn].sdu /\ tx_window'[sn].next_so = tx_window[sn].next_so
                        /\ tx_window'[sn] \in [sdu : Sdu, next_so : 0 .. SduLen,
                                               retx_count : NotStarted .. RetxCountBound]
      BY <2>1
    <2>2. sn \in DOMAIN tx_window /\ sn \in Sn /\ left[sn] = tx_window[sn]
      BY <1>3, SduTypes
    <2>3. tx_window[sn] \in [sdu : Sdu, next_so : 0 .. SduLen, retx_count : NotStarted .. RetxCountBound]
      BY <2>2 DEF TxTypeOK
    <2>4. tx_window'[sn] = [tx_window[sn] EXCEPT !.retx_count = count[sn]]
      BY <1>5, <2>2
    <2>5. count[sn] \in NotStarted .. RetxCountBound
      BY <1>4
    <2> QED
      BY <2>2, <2>3, <2>4, <2>5
  <1>11. Suffix(sdu_queue', sdu_queue) /\ pending_buffer_state' = FALSE
    BY <1>5, NotifyPops
  <1>12. Shifted(m)
    <2>1. /\ m <= TxBase(rx_next) /\ m <= TxBase(tx_next)
          /\ \A sn \in Sn : TxBase(sn) < m => sn \in DOMAIN tx_window /\ Complete(sn)
      BY <1>2 DEF AckPoint
    <2>2. "protocol_failure" \notin upper_cn'
      BY <1>6 DEF UpperInv
    <2> QED
      BY <1>2, <1>3, <1>5, <1>7, <1>8, <1>9, <1>10, <1>11, <2>1, <2>2 DEF Shifted
  <1>13. TxInv' /\ RxNotAhead' /\ SduInv' /\ UpperInv' /\ RxInv' /\ CachedInv' /\ DataInv' /\ StatInv'
    BY <1>12, ShiftedKeepsSdus, ShiftedKeepsLink, ShiftedKeepsStat
  <1>14. RetxInv'
    <2> SUFFICES ASSUME NEW i \in DOMAIN queue
                 PROVE  /\ queue[i].sn \in DOMAIN tx_window'
                        /\ queue[i].so + queue[i].length <=
                             IF queue[i].sn = sn_under_segmentation THEN tx_window'[queue[i].sn].next_so ELSE SduLen
      BY <1>5 DEF RetxInv, RetxOnlyWhatWasSent
    <2> QED
      BY <1>3, <1>10
  <1>15. TxTypeOK'
    <2>1. confirmed' \subseteq Sdu
      BY <1>9, SduTypes DEF TxTypeOK
    <2>2. upper_cn' \subseteq {"max_retx", "protocol_failure"}
      BY <1>6 DEF TxTypeOK
    <2>3. /\ retx_queue' \in Seq(Retx) /\ retx_sn' \in Sn \cup {NoSn} /\ pending_buffer_state' \in BOOLEAN
          /\ sdu_queue' \in Seq([sdu : Sdu, discarded : BOOLEAN])
      BY <1>3, <1>5, <1>11 DEF Suffix, Entries
    <2>4. /\ DOMAIN tx_window' \subseteq Sn
          /\ \A sn \in DOMAIN tx_window' :
               tx_window'[sn] \in [sdu : Sdu, next_so : 0 .. SduLen, retx_count : NotStarted .. RetxCountBound]
      BY <1>10
    <2> QED
      BY <1>5, <1>8, <2>1, <2>2, <2>3, <2>4 DEF TxTypeOK
  <1> QED
    BY <1>5, <1>7, <1>13, <1>14, <1>15, RxTypeFrame, ChannelTypeFrame

-----------------------------------------------------------------------------
(* The bearer.                                                             *)

\* RX_Next passes only SNs of which the receiver has all bytes.
LEMMA ReceivesKeepsAhead ==
  ASSUME IInv, RxNotAhead, NEW pdu, Accepted(pdu), Receives(pdu), UNCHANGED txVars
  PROVE  RxNotAhead'
  <1> USE DEF IInv
  <1> DEFINE R == TxBase(rx_next)
             T == TxBase(tx_next)
             next == NextAfter(pdu)
             N == RxBase(next)
  <1>1. SnTypes /\ UNCHANGED <<tx_next, tx_next_ack>> /\ rx_next' = next
    BY Sns DEF txVars, txSt, Receives
  <1>2. /\ next \in Sn /\ \A sn \in Sn : RxBase(sn) < N => FullyReceived(Stored(pdu), sn)
        /\ N <= RxBase(RaisedHighest(pdu.sn)) /\ R + RxBase(RaisedHighest(pdu.sn)) <= Sent
        /\ RaisedHighest(pdu.sn) \in Sn
    <2>1. Moved(pdu)
      BY StateMoves
    <2>2. RxBase(next) \in Int /\ RxBase(StatusAfter(pdu)) \in Int /\ RxBase(RaisedHighest(pdu.sn)) \in Int
      BY <2>1, Positions, Half DEF Moved
    <2> QED
      BY <2>1, <2>2 DEF Moved
  <1>3. /\ R \in 0 .. AmWindowSize /\ T \in 0 .. AmWindowSize /\ Sent \in 0 .. AmWindowSize
        /\ Sent = T + (IF sn_under_segmentation = NoSn THEN 0 ELSE 1) /\ R <= T
        /\ N \in 0 .. SnModulus - 1 /\ RxBase(RaisedHighest(pdu.sn)) \in Int
    BY <1>2, Positions, SentCount, Half DEF RxNotAhead
  <1>4. R + N <= Sent
    BY <1>2, <1>3, Half
  <1>5. TxBase(rx_next)' = TxBase(next) /\ TxBase(tx_next)' = T
    BY <1>1 DEF TxBase
  <1>6. TxBase(next) = R + N
    <2>1. /\ TxBase(next) \in 0 .. SnModulus - 1
          /\ N = IF TxBase(next) >= R THEN TxBase(next) - R ELSE TxBase(next) - R + SnModulus
      BY <1>2, Positions
    <2> DEFINE t == TxBase(next)
    <2> HIDE DEF t, R, N
    <2>2. t = R + N
      BY <1>3, <1>4, <2>1, Half DEF t
    <2> QED
      BY <2>2 DEF t
  <1>7. R + N <= T
    <2> SUFFICES ASSUME ~(R + N <= T) PROVE FALSE
      OBVIOUS
    <2>1. sn_under_segmentation # NoSn /\ R + N = T + 1
      BY <1>3, <1>4, Half
    <2>2. sn_under_segmentation = tx_next /\ tx_next \in Sn /\ tx_window[tx_next].next_so \in 1 .. SduLen - 1
      BY <1>1, <2>1 DEF TxInv, SnTypes
    <2>3. RxBase(tx_next) = T - R
      BY <1>3, <2>2, Positions
    <2>4. FullyReceived(Stored(pdu), tx_next)
      BY <1>2, <1>3, <2>1, <2>2, <2>3
    <2>5. \A b \in DOMAIN Stored(pdu)[tx_next] : b < tx_window[tx_next].next_so
      BY <2>2, <2>4, StoredIs DEF FullyReceived
    <2>6. SduLen - 1 \in Bytes /\ SduLen \in Nat
      BY RlcAmPduAssumption DEF Bytes
    <2> QED
      BY <2>2, <2>4, <2>5, <2>6 DEF FullyReceived
  <1> QED
    BY <1>5, <1>6, <1>7 DEF RxNotAhead

\* Nothing under segmentation, or no state variable that moves.
LEMMA AheadFrame ==
  ASSUME TypeOK', TxInv', RxInv', sn_under_segmentation' = NoSn
  PROVE  RxNotAhead'
  <1>1. tx_next' \in Sn /\ tx_next_ack' \in Sn /\ rx_next' \in Sn /\ rx_next_highest' \in Sn
    BY DEF TypeOK, TxTypeOK, RxTypeOK
  <1>2. /\ TxBase(tx_next)' \in Int /\ TxBase(rx_next)' \in Int
        /\ RxBase(rx_next_highest)' \in Int /\ RxBase(rx_next_highest)' >= 0
    BY <1>1, BaseType, Half DEF TxBase, RxBase
  <1>3. Sent' = TxBase(tx_next)'
    BY <1>2 DEF Sent
  <1>4. TxBase(rx_next)' + RxBase(rx_next_highest)' <= Sent'
    BY DEF RxInv
  <1> QED
    BY <1>2, <1>3, <1>4 DEF RxNotAhead

\* The inductive invariant.
BearerInv == IInv /\ RxNotAhead

LEMMA PullPduKeeps ==
  ASSUME BearerInv, PullPdu, UNCHANGED rxVars
  PROVE  BearerInv'
  <1> USE DEF BearerInv
  <1>1. PICK grant \in Grants : \/ PullDiscarded(grant) \/ BuildNewPdu(grant)
                                \/ BuildFirstSduSegment(grant) \/ BuildContinuedSduSegment(grant)
                                \/ BuildRetxPdu(grant) \/ RetxGrantTooSmall(grant)
    BY DEF PullPdu
  <1>2. IInv'
    BY <1>1, PullDiscardedKeeps, BuildNewPduKeeps, BuildFirstSduSegmentKeeps,
       BuildContinuedSduSegmentKeeps, BuildRetxPduKeeps, RetxGrantTooSmallKeeps
  <1>3. sn_under_segmentation' = NoSn \/ UNCHANGED txSt
    BY <1>1 DEF PullDiscarded, BuildNewPdu, BuildFirstSduSegment, BuildContinuedSduSegment, BuildRetxPdu,
                RetxGrantTooSmall, txSt
  <1>4. RxNotAhead'
    <2>1. CASE sn_under_segmentation' = NoSn
      BY <1>2, <2>1, AheadFrame DEF IInv
    <2>2. CASE UNCHANGED txSt
      BY <2>2 DEF RxNotAhead, TxBase, txSt, rxVars, rxSt
    <2> QED
      BY <1>3, <2>1, <2>2
  <1> QED
    BY <1>2, <1>4

LEMMA StepKeeps ==
  ASSUME BearerInv, [Next]_vars
  PROVE  BearerInv'
  <1> USE DEF BearerInv
  <1>1. ASSUME UNCHANGED <<tx_next, tx_next_ack, rx_next>> PROVE RxNotAhead'
    BY <1>1 DEF RxNotAhead, TxBase
  <1>2. CASE TxStep
    <2>1. UNCHANGED rxVars /\ rx_next' = rx_next
      BY <1>2 DEF TxStep, rxVars, rxSt
    <2>2. CASE HandleSdu
      BY <1>1, <2>1, <2>2, HandleSduKeeps DEF HandleSdu, txSt
    <2>3. CASE DiscardSdu
      BY <1>1, <2>1, <2>3, DiscardSduKeeps DEF DiscardSdu, txSt
    <2>4. CASE PullPdu
      BY <2>1, <2>4, PullPduKeeps
    <2>5. CASE HandleStatusPdu
      BY <2>1, <2>5, HandleStatusPduKeeps
    <2>6. CASE IgnoreStatusPdu
      BY <1>1, <2>1, <2>6, IgnoreStatusPduKeeps DEF IgnoreStatusPdu, txSt
    <2>7. CASE ExpirePollRetransmitTimer
      BY <1>1, <2>1, <2>7, ExpirePollRetransmitTimerKeeps DEF ExpirePollRetransmitTimer, txSt
    <2>8. CASE UpdateMacBufferState
      BY <1>1, <2>1, <2>8, UpdateMacBufferStateKeeps DEF UpdateMacBufferState, txSt
    <2> QED
      BY <1>2, <2>2, <2>3, <2>4, <2>5, <2>6, <2>7, <2>8 DEF TxStep
  <1>3. CASE RxStep
    <2>1. UNCHANGED txVars /\ tx_next' = tx_next /\ tx_next_ack' = tx_next_ack
      BY <1>3 DEF RxStep, txVars, txSt
    <2>2. CASE DiscardDataPdu
      BY <1>1, <2>1, <2>2, DiscardDataPduKeeps DEF DiscardDataPdu, rxSt
    <2>3. CASE HandleDataPdu
      <3>1. PICK pdu : Accepted(pdu) /\ data' \in Take(data, pdu) /\ Receives(pdu)
        BY <2>3, ReceivesSome
      <3> QED
        BY <2>1, <2>3, <3>1, HandleDataPduKeeps, ReceivesKeepsAhead
    <2>4. CASE ExpireReassemblyTimer
      BY <1>1, <2>1, <2>4, ExpireReassemblyTimerKeeps DEF ExpireReassemblyTimer
    <2>5. CASE PullStatusPdu
      BY <1>1, <2>1, <2>5, PullStatusPduKeeps DEF PullStatusPdu, rxSt
    <2>6. CASE ExpireStatusProhibitTimer
      BY <1>1, <2>1, <2>6, ExpireStatusProhibitTimerKeeps DEF ExpireStatusProhibitTimer, rxSt
    <2> QED
      BY <1>3, <2>2, <2>3, <2>4, <2>5, <2>6 DEF RxStep
  <1>4. CASE LowerLayerStep
    BY <1>1, <1>4, LowerLayerKeeps DEF LowerLayerStep, txVars, txSt, rxVars, rxSt
  <1>5. CASE UNCHANGED vars
    <2>1. UNCHANGED <<txVars, rxVars, data, stat>>
      BY <1>5 DEF vars, channels
    <2>2. UNCHANGED <<submitted, sdu_queue, tx_window, txSt, retx_queue, sn_under_segmentation, upperSt>>
      BY <2>1 DEF txVars, retxSt
    <2>3. UNCHANGED <<rxSt, rx_next, rx_next_highest, rx_highest_status, rx_window, reassembly_timer,
                      delivered, status_report>>
      BY <2>1 DEF rxVars, rxSt
    <2>4. IInv'
      BY <2>1, <2>2, <2>3, RxTypeFrame, TxTypeFrame, ChannelTypeFrame, TxFrame, SduFrame, UpperFrame,
         RetxFrame, RxFrame, DataFrame, StatFrame, CachedFrame DEF IInv, TypeOK
    <2> QED
      BY <1>1, <2>2, <2>3, <2>4 DEF txSt
  <1> QED
    BY <1>2, <1>3, <1>4, <1>5 DEF Next

LEMMA InitBearer ==
  ASSUME Init
  PROVE  BearerInv
  <1>1. IInv
    BY InitHolds
  <1>2. rx_next = tx_next
    BY DEF Init, TxInit, RxInit
  <1>3. tx_next \in Sn /\ tx_next_ack \in Sn
    BY <1>1, Sns DEF IInv, SnTypes
  <1>4. TxBase(tx_next) \in Int
    BY <1>3, BaseType, Half DEF TxBase
  <1> QED
    BY <1>1, <1>2, <1>4 DEF BearerInv, RxNotAhead

\* The inductive invariant holds in every reachable state of the bearer.
THEOREM BearerInvariant == Spec => []BearerInv
  <1>1. Init => BearerInv
    BY InitBearer
  <1>2. BearerInv /\ [Next]_vars => BearerInv'
    BY StepKeeps
  <1> QED
    BY <1>1, <1>2, PTL DEF Spec

-----------------------------------------------------------------------------
(* What follows from the invariant.                                        *)

\* Every variable of both sides and of the channels keeps its type.
THEOREM BearerTypeOK == Spec => []TypeOK
  <1>1. BearerInv => TypeOK
    BY DEF BearerInv, IInv
  <1> QED
    BY <1>1, BearerInvariant, PTL

\* add_sn, remove_sn and the look-ups of the transmitter never meet an SN that is, or
\* is not, in the TX window: it holds the SNs from TX_Next_Ack up to TX_Next.
THEOREM TxWindowIsContiguous == Spec => []TxWindowContiguous
  <1>1. ASSUME BearerInv PROVE TxWindowContiguous
    <2> USE DEF BearerInv, IInv
    <2>1. tx_next \in Sn /\ sn_under_segmentation \in {NoSn, tx_next}
      BY <1>1, Sns DEF SnTypes, TxInv
    <2>2. \A sn \in Sn : TxBase(sn) \in 0 .. SnModulus - 1 /\ (sn \in DOMAIN tx_window <=> TxBase(sn) < Sent)
      BY <1>1, Positions
    <2>3. Sent = TxBase(tx_next) + IF sn_under_segmentation = NoSn THEN 0 ELSE 1
      BY <1>1, SentCount
    <2>4. \A sn \in Sn : TxBase(sn) = TxBase(tx_next) => sn = tx_next
      BY <1>1, <2>1, Sns, BaseInjective DEF SnTypes, TxBase
    <2>5. ASSUME NEW sn \in Sn
          PROVE  sn \in DOMAIN tx_window <=>
                   TxBase(sn) < TxBase(tx_next) \/ (sn_under_segmentation # NoSn /\ sn = tx_next)
      <3>1. TxBase(sn) \in Int /\ TxBase(tx_next) \in Int
        BY <2>1, <2>2, Half
      <3> QED
        BY <2>2, <2>3, <2>4, <3>1
    <2>6. DOMAIN tx_window \subseteq Sn
      BY <1>1 DEF TxInv
    <2>7. CASE sn_under_segmentation = NoSn
      <3>1. DOMAIN tx_window = {sn \in Sn : TxBase(sn) < TxBase(tx_next)}
        BY <2>5, <2>6, <2>7
      <3> QED
        BY <2>1, <2>7, <3>1 DEF TxWindowContiguous
    <2>8. CASE sn_under_segmentation # NoSn
      <3>1. DOMAIN tx_window = {sn \in Sn : TxBase(sn) < TxBase(tx_next)} \cup {tx_next}
        BY <2>1, <2>5, <2>6, <2>8
      <3> QED
        BY <2>1, <2>8, <3>1 DEF TxWindowContiguous
    <2> QED
      BY <2>7, <2>8
  <1> QED
    BY <1>1, BearerInvariant, PTL

\* handle_nack and on_expired_poll_retransmit_timer never queue for build_retx_pdu
\* what is not in the window or has not been sent yet.
THEOREM RetxWasSent == Spec => []RetxOnlyWhatWasSent
  <1>1. BearerInv => RetxOnlyWhatWasSent
    BY DEF BearerInv, IInv, RetxInv
  <1> QED
    BY <1>1, BearerInvariant, PTL

\* The RX state variables keep their order, and neither RX_Next nor RX_Highest_Status
\* names a complete SDU, whatever arrives and in whatever order.
THEOREM RxStateIsOrdered == Spec => []RxStateOrder
  <1>1. BearerInv => RxStateOrder
    BY DEF BearerInv, IInv, RxInv
  <1> QED
    BY <1>1, BearerInvariant, PTL

\* handle_data_pdu finds rx_window[rx_next] where it looks it up without has_sn.
THEOREM TriggerIsKnown == Spec => []TriggerLooksUpKnownSn
  <1>1. ASSUME BearerInv PROVE TriggerLooksUpKnownSn
    <2> USE DEF BearerInv, IInv
    <2> SUFFICES ASSUME reassembly_timer, rx_next_status_trigger = SnAdd(rx_next, 1)
                 PROVE  rx_next \in DOMAIN rx_window
      BY DEF TriggerLooksUpKnownSn
    <2>1. PICK sn \in DOMAIN rx_window : SnAdd(sn, 1) = rx_next_status_trigger
      BY <1>1 DEF RxInv
    <2>2. sn \in Sn /\ rx_next \in Sn /\ 1 \in 0 .. SnModulus
      BY <1>1, Sns, Half DEF TypeOK, RxTypeOK, SnTypes
    <2>3. SnAdd(sn, 1) = SnAdd(rx_next, 1)
      BY <2>1
    <2>4. sn = rx_next
      <3>1. /\ SnAdd(sn, 1) = IF sn + 1 < SnModulus THEN sn + 1 ELSE sn + 1 - SnModulus
            /\ SnAdd(rx_next, 1) = IF rx_next + 1 < SnModulus THEN rx_next + 1 ELSE rx_next + 1 - SnModulus
        BY <2>2, SnAddIs
      <3> QED
        BY <2>2, <2>3, <3>1, Half DEF Sn
    <2> QED
      BY <2>4
  <1> QED
    BY <1>1, BearerInvariant, PTL

\* The receiver is at or ahead of the last acknowledgement and never ahead of what
\* has been sent, although the two only learn of each other by lossy PDUs.
THEOREM WindowsStayAligned == Spec => []WindowsAligned
  <1>1. ASSUME BearerInv PROVE WindowsAligned
    <2> USE DEF BearerInv, IInv
    <2>1. Cardinality(DOMAIN tx_window) = Sent
      BY <1>1, SentCount
    <2>2. /\ TxBase(rx_next) \in 0 .. AmWindowSize /\ RxBase(rx_next_highest) \in 0 .. AmWindowSize
          /\ TxBase(rx_next) + RxBase(rx_next_highest) <= Sent /\ Sent \in 0 .. AmWindowSize
      BY <1>1, Positions
    <2>3. TxBase(rx_next) <= Sent
      BY <2>2, Half
    <2> QED
      BY <2>1, <2>2, <2>3 DEF WindowsAligned, RxBase
  <1> QED
    BY <1>1, BearerInvariant, PTL

\* A report that handle_status_pdu accepts, however old and crossed by whatever,
\* names SNs of the window and covers only SDUs that the peer has handed up.
THEOREM AcceptedReportsAreTrue == Spec => []AcceptedReportIsTrue
  <1>1. ASSUME BearerInv PROVE AcceptedReportIsTrue
    <2> USE DEF BearerInv, IInv
    <2> SUFFICES ASSUME NEW status \in stat, Accepts(status)
                 PROVE  /\ \A nack \in status.nacks : nack.sn \in DOMAIN tx_window
                        /\ \A sn \in DOMAIN tx_window :
                             TxBase(sn) < TxBase(status.ack_sn) /\ (\A nack \in status.nacks : nack.sn # sn)
                               => delivered[tx_window[sn].sdu] = 1
      BY DEF AcceptedReportIsTrue
    <2>1. TxBase(status.ack_sn) \in 1 .. AmWindowSize
          /\ TxBase(status.ack_sn) <= TxBase(rx_next) + RxBase(rx_next_highest)
      BY <1>1, ReportIsHonest DEF Accepts, ValidAckSn
    <2>2. ASSUME NEW nack \in status.nacks
          PROVE  nack.sn \in DOMAIN tx_window
      <3>1. nack.sn \in Sn /\ TxBase(nack.sn) < TxBase(status.ack_sn)
        BY <1>1 DEF TypeOK, ChannelTypeOK, Nack, Accepts, NackBelowAck
      <3> QED
        BY <1>1, <2>1, <3>1, Positions, Half
    <2>3. ASSUME NEW sn \in DOMAIN tx_window, TxBase(sn) < TxBase(status.ack_sn),
                 \A nack \in status.nacks : nack.sn # sn
          PROVE  delivered[tx_window[sn].sdu] = 1
      <3>1. ReportInv(status) /\ ~(TxBase(status.ack_sn) > AmWindowSize)
        BY <1>1, <2>1, Half DEF StatInv
      <3>2. Complete(sn)
        BY <2>3, <3>1 DEF ReportInv
      <3> QED
        BY <1>1, <3>2 DEF UpperInv
    <2> QED
      BY <2>2, <2>3
  <1> QED
    BY <1>1, BearerInvariant, PTL

\* on_protocol_failure is never called when the peer follows the protocol.
THEOREM HonestPeerIsTrusted == Spec => []NoProtocolFailure
  <1>1. BearerInv => NoProtocolFailure
    BY DEF BearerInv, IInv, UpperInv, NoProtocolFailure
  <1> QED
    BY <1>1, BearerInvariant, PTL

-----------------------------------------------------------------------------
(* The bearer implements the service.                                      *)

\* What handle_status_pdu confirms has been delivered.
LEMMA ConfirmsDelivered ==
  ASSUME BearerInv, BearerInv', HandleStatusPdu, UNCHANGED rxVars
  PROVE  Service!Confirm
  <1> USE DEF BearerInv, IInv
  <1>1. /\ UNCHANGED <<submitted, delivered>>
        /\ \E new : confirmed' = confirmed \cup new
    BY DEF HandleStatusPdu, rxVars
  <1>2. PICK new : confirmed' = confirmed \cup new
    BY <1>1
  <1> DEFINE more == confirmed'
  <1>3. \A s \in confirmed' : s \in 1 .. submitted /\ delivered[s] = 1
    <2>1. \A s \in confirmed' : s <= submitted' /\ delivered'[s] = 1
      BY DEF UpperInv
    <2>2. confirmed' \subseteq Sdu
      BY DEF TypeOK, TxTypeOK
    <2>3. submitted \in Nat /\ MaxSdus \in Nat
      BY SduTypes
    <2> QED
      BY <1>1, <2>1, <2>2, <2>3 DEF Sdu
  <1>4. confirmed' \in SUBSET {s \in 1 .. submitted : delivered[s] = 1}
    BY <1>3
  <1>5. confirmed' = confirmed \cup confirmed'
    BY <1>2
  <1> QED
    BY <1>1, <1>4, <1>5 DEF Service!Confirm

\* The users of an RLC AM bearer see the service of RlcAmService: an SDU is handed up
\* at most once and unmixed, and only what was handed up is reported as delivered.
THEOREM BearerImplementsService == Spec => ImplementsService
  <1>1. Init => Service!Init
    BY DEF Init, TxInit, RxInit, Service!Init
  <1>2. ASSUME BearerInv, BearerInv', [Next]_vars
        PROVE  [Service!Next]_(Service!vars)
    <2> USE DEF BearerInv
    <2>1. CASE TxStep
      <3>1. UNCHANGED rxVars /\ delivered' = delivered
        BY <2>1 DEF TxStep, rxVars
      <3>2. CASE HandleSdu
        BY <3>1, <3>2 DEF HandleSdu, upperSt, Service!Next, Service!Submit
      <3>3. CASE DiscardSdu
        BY <3>1, <3>3 DEF DiscardSdu, upperSt, Service!vars
      <3>4. CASE PullPdu
        BY <3>1, <3>4 DEF PullPdu, PullDiscarded, BuildNewPdu, BuildFirstSduSegment,
             BuildContinuedSduSegment, BuildRetxPdu, RetxGrantTooSmall, upperSt, Service!vars
      <3>5. CASE HandleStatusPdu
        BY <1>2, <3>1, <3>5, ConfirmsDelivered DEF Service!Next
      <3>6. CASE IgnoreStatusPdu
        BY <3>1, <3>6 DEF IgnoreStatusPdu, Service!vars
      <3>7. CASE ExpirePollRetransmitTimer
        BY <3>1, <3>7 DEF ExpirePollRetransmitTimer, Service!vars
      <3>8. CASE UpdateMacBufferState
        BY <3>1, <3>8 DEF UpdateMacBufferState, upperSt, Service!vars
      <3> QED
        BY <2>1, <3>2, <3>3, <3>4, <3>5, <3>6, <3>7, <3>8 DEF TxStep
    <2>2. CASE RxStep
      <3>1. UNCHANGED txVars /\ submitted' = submitted /\ confirmed' = confirmed
        BY <2>2 DEF RxStep, txVars, upperSt
      <3>2. CASE HandleDataPdu
        <4>1. PICK pdu : Accepted(pdu) /\ data' \in Take(data, pdu) /\ Receives(pdu)
          BY <3>2, ReceivesSome
        <4>2. \/ delivered' = delivered
              \/ \E s \in 1 .. submitted : delivered[s] = 0 /\ delivered' = [delivered EXCEPT ![s] = 1]
          BY <1>2, <3>1, <4>1, ReceivesDelivers
        <4> QED
          BY <3>1, <4>2 DEF Service!Next, Service!Deliver, Service!vars
      <3>3. CASE DiscardDataPdu \/ ExpireReassemblyTimer \/ PullStatusPdu \/ ExpireStatusProhibitTimer
        BY <3>1, <3>3 DEF DiscardDataPdu, ExpireReassemblyTimer, PullStatusPdu, ExpireStatusProhibitTimer,
             Service!vars
      <3> QED
        BY <2>2, <3>2, <3>3 DEF RxStep
    <2>3. CASE LowerLayerStep \/ UNCHANGED vars
      BY <2>3 DEF LowerLayerStep, vars, txVars, rxVars, upperSt, Service!vars
    <2> QED
      BY <1>2, <2>1, <2>2, <2>3 DEF Next
  <1> QED
    BY <1>1, <1>2, BearerInvariant, PTL DEF Spec, ImplementsService, Service!Spec

-----------------------------------------------------------------------------
(* Polls.                                                                  *)

\* Where no PDCP discard timer runs, no SDU of the queue is marked.
NoneMarked == Discardable = {} => \A i \in DOMAIN sdu_queue : ~sdu_queue[i].discarded

\* Then read() and front() pop nothing.
LEMMA PopsNothing ==
  ASSUME NEW q \in Seq(Entries), \A i \in DOMAIN q : ~q[i].discarded
  PROVE  PopDiscarded(q) = q
  <1> DEFINE live == {i \in DOMAIN q : ~q[i].discarded}
  <1>1. live = DOMAIN q
    OBVIOUS
  <1>2. DOMAIN q = 1 .. Len(q) /\ Len(q) \in Nat
    BY LenProperties
  <1> HIDE DEF live
  <1>3. CASE live = {}
    <2>1. q = <<>>
      BY <1>1, <1>2, <1>3
    <2> QED
      BY <1>3, <2>1 DEF PopDiscarded, live
  <1>4. CASE live # {}
    <2>1. live \in SUBSET Nat /\ 1 \in live
      BY <1>1, <1>2, <1>4
    <2>2. Min(live) \in live /\ Min(live) <= 1
      BY <2>1, MinIn
    <2>3. Min(live) = 1
      BY <1>1, <1>2, <2>2
    <2>4. PopDiscarded(q) = SubSeq(q, Min(live), Len(q))
      BY <1>4 DEF PopDiscarded, live
    <2>5. SubSeq(q, 1, Len(q)) = q
      BY SubSeqFull
    <2> QED
      BY <2>3, <2>4, <2>5
  <1> QED
    BY <1>3, <1>4

LEMMA MarksNone ==
  ASSUME BearerInv, NoneMarked, [Next]_vars
  PROVE  NoneMarked'
  <1> SUFFICES ASSUME Discardable = {}, \A i \in DOMAIN sdu_queue : ~sdu_queue[i].discarded
               PROVE  \A i \in DOMAIN sdu_queue' : ~sdu_queue'[i].discarded
    BY DEF NoneMarked
  <1>1. sdu_queue \in Seq(Entries) /\ PopDiscarded(sdu_queue) = sdu_queue
    BY SduTypes, PopsNothing DEF BearerInv, IInv
  <1>2. ASSUME sdu_queue' \in {sdu_queue, <<>>} PROVE \A i \in DOMAIN sdu_queue' : ~sdu_queue'[i].discarded
    BY <1>2
  <1>3. NotifyBufferState => sdu_queue' = sdu_queue
    BY <1>1 DEF NotifyBufferState
  <1>4. ASSUME sdu_queue # <<>>, sdu_queue' = Tail(sdu_queue)
        PROVE  \A i \in DOMAIN sdu_queue' : ~sdu_queue'[i].discarded
    <2> DEFINE rest == Tail(sdu_queue)
    <2>1. /\ rest \in Seq(Entries) /\ Len(rest) = Len(sdu_queue) - 1
          /\ \A i \in 1 .. Len(rest) : rest[i] = sdu_queue[i + 1]
      BY <1>1, <1>4, HeadTailProperties
    <2>2. /\ Len(sdu_queue) \in Nat /\ DOMAIN sdu_queue = 1 .. Len(sdu_queue)
          /\ Len(rest) \in Nat /\ DOMAIN rest = 1 .. Len(rest)
      BY <1>1, <2>1, LenProperties
    <2> HIDE DEF rest
    <2>3. \A i \in 1 .. Len(rest) : i + 1 \in DOMAIN sdu_queue
      BY <2>1, <2>2
    <2>4. sdu_queue' = rest
      BY <1>4 DEF rest
    <2> QED
      BY <2>1, <2>2, <2>3, <2>4
  <1>5. CASE TxStep
    <2>1. CASE HandleSdu
      <3>1. CASE sdu_queue' = sdu_queue
        BY <1>2, <3>1
      <3>2. CASE sdu_queue' = Append(sdu_queue, [sdu |-> submitted', discarded |-> FALSE])
        <4> DEFINE e == [sdu |-> submitted', discarded |-> FALSE]
        <4>1. ~e.discarded
          OBVIOUS
        <4> HIDE DEF e
        <4>2. sdu_queue' = Append(sdu_queue, e)
          BY <3>2 DEF e
        <4>3. Len(sdu_queue) \in Nat /\ DOMAIN sdu_queue = 1 .. Len(sdu_queue)
          BY <1>1, LenProperties
        <4>4. /\ DOMAIN Append(sdu_queue, e) = 1 .. (Len(sdu_queue) + 1)
              /\ \A i \in 1 .. Len(sdu_queue) : Append(sdu_queue, e)[i] = sdu_queue[i]
              /\ Append(sdu_queue, e)[Len(sdu_queue) + 1] = e
          BY <1>1, <4>3
        <4> QED
          BY <4>1, <4>2, <4>3, <4>4
      <3> QED
        BY <2>1, <3>1, <3>2 DEF HandleSdu
    <2>2. CASE DiscardSdu
      BY <2>2 DEF DiscardSdu
    <2>3. CASE PullPdu
      <3>1. \/ sdu_queue' \in {sdu_queue, <<>>}
            \/ sdu_queue # <<>> /\ sdu_queue' = Tail(sdu_queue)
        BY <1>1, <2>3 DEF PullPdu, PullDiscarded, BuildNewPdu, BuildFirstSduSegment,
             BuildContinuedSduSegment, BuildRetxPdu, RetxGrantTooSmall
      <3> QED
        BY <1>2, <1>4, <3>1
    <2>4. CASE HandleStatusPdu
      BY <1>2, <1>3, <2>4 DEF HandleStatusPdu
    <2>5. CASE IgnoreStatusPdu
      BY <1>2, <2>5 DEF IgnoreStatusPdu
    <2>6. CASE ExpirePollRetransmitTimer
      BY <1>2, <1>3, <2>6 DEF ExpirePollRetransmitTimer
    <2>7. CASE UpdateMacBufferState
      BY <1>2, <1>3, <2>7 DEF UpdateMacBufferState
    <2> QED
      BY <1>5, <2>1, <2>2, <2>3, <2>4, <2>5, <2>6, <2>7 DEF TxStep
  <1>6. CASE RxStep \/ LowerLayerStep \/ UNCHANGED vars
    BY <1>2, <1>6 DEF RxStep, LowerLayerStep, vars, txVars
  <1> QED
    BY <1>5, <1>6 DEF Next

\* A PDU that is added carries the poll bit that pull_pdu has computed.
LEMMA PollsWhenDone ==
  ASSUME BearerInv, NoneMarked, NoneMarked', Discardable = {}, MaxWindow = 0, PullPdu,
         NEW pdu \in data' \ data, (NothingLeft \/ IsTxWindowFull(tx_window))'
  PROVE  pdu.p
  <1>1. sdu_queue \in Seq(Entries) /\ PopDiscarded(sdu_queue) = sdu_queue
    BY SduTypes, PopsNothing DEF BearerInv, IInv, NoneMarked
  <1>2. (NothingLeft)' => DOMAIN sdu_queue' = {} /\ retx_queue' = <<>> /\ sn_under_segmentation' = NoSn
    BY DEF NothingLeft, LiveSdus, NoneMarked
  <1>3. ASSUME NEW q \in Seq(Entries), DOMAIN q = {} PROVE q = <<>>
    BY <1>3
  <1>4. (IsTxWindowFull(tx_window))' <=> Cardinality(DOMAIN tx_window') >= AmWindowSize
    BY DEF IsTxWindowFull
  <1>5. \A window : Cardinality(DOMAIN window) >= AmWindowSize => IsTxWindowFull(window)
    BY DEF IsTxWindowFull
  <1>6. ASSUME sdu_queue' \in Seq(Entries)
        PROVE  NothingToSend(sdu_queue', retx_queue', sn_under_segmentation', tx_window')
    BY <1>2, <1>3, <1>4, <1>5, <1>6 DEF NothingToSend
  <1>7. PICK grant \in Grants : \/ PullDiscarded(grant) \/ BuildNewPdu(grant)
                                \/ BuildFirstSduSegment(grant) \/ BuildContinuedSduSegment(grant)
                                \/ BuildRetxPdu(grant) \/ RetxGrantTooSmall(grant)
    BY DEF PullPdu
  <1>8. CASE BuildNewPdu(grant)
    <2>1. sdu_queue # <<>> /\ retx_queue' = <<>> /\ sn_under_segmentation' = NoSn /\ sdu_queue' = Tail(sdu_queue)
      BY <1>1, <1>8 DEF BuildNewPdu, WantsNewSdu, retxSt
    <2>2. sdu_queue' \in Seq(Entries)
      BY <1>1, <2>1, HeadTailProperties
    <2>3. NothingToSend(sdu_queue', <<>>, NoSn, tx_window')
      BY <1>6, <2>1, <2>2
    <2>4. NewPduPolls(0, sdu_queue', <<>>, NoSn, tx_window')
      BY <2>3 DEF NewPduPolls
    <2>5. pdu.p = NewPduPolls(0, sdu_queue', <<>>, NoSn, tx_window')
      BY <1>1, <1>8 DEF BuildNewPdu, SendData, YoungData
    <2> QED
      BY <2>4, <2>5
  <1>9. CASE BuildFirstSduSegment(grant)
    <2>1. sdu_queue # <<>> /\ retx_queue' = <<>> /\ sn_under_segmentation' = tx_next /\ sdu_queue' = Tail(sdu_queue)
      BY <1>1, <1>9 DEF BuildFirstSduSegment, WantsNewSdu, retxSt
    <2>2. sdu_queue' \in Seq(Entries)
      BY <1>1, <2>1, HeadTailProperties
    <2>3. NothingToSend(sdu_queue', <<>>, tx_next, tx_window')
      BY <1>6, <2>1, <2>2
    <2>4. NewPduPolls(grant - HeadMin, sdu_queue', <<>>, tx_next, tx_window')
      BY <2>3 DEF NewPduPolls
    <2>5. pdu.p = NewPduPolls(grant - HeadMin, sdu_queue', <<>>, tx_next, tx_window')
      BY <1>1, <1>9 DEF BuildFirstSduSegment, SendData, YoungData
    <2> QED
      BY <2>4, <2>5
  <1>10. CASE BuildContinuedSduSegment(grant)
    <2> DEFINE info == tx_window[sn_under_segmentation]
               rest == SduLen - info.next_so
               last == rest + HeadMax <= grant
               len == IF last THEN rest ELSE grant - HeadMax
    <2>1. retx_queue' = <<>> /\ sdu_queue' = sdu_queue /\ DOMAIN tx_window' = DOMAIN tx_window
      BY <1>10 DEF BuildContinuedSduSegment, retxSt
    <2>2. NothingToSend(sdu_queue, <<>>, sn_under_segmentation', tx_window)
      <3>1. NothingToSend(sdu_queue', <<>>, sn_under_segmentation', tx_window')
        BY <1>1, <1>6, <2>1
      <3> QED
        BY <2>1, <3>1 DEF NothingToSend, IsTxWindowFull
    <2>3. pdu.p = NewPduPolls(len, sdu_queue, <<>>, sn_under_segmentation', tx_window)
      BY <1>10 DEF BuildContinuedSduSegment, SendData
    <2> QED
      BY <2>2, <2>3 DEF NewPduPolls
  <1>11. CASE BuildRetxPdu(grant)
    <2>1. /\ UNCHANGED <<sdu_queue, tx_window, sn_under_segmentation>>
          /\ pdu.p = NothingToSend(sdu_queue, retx_queue', sn_under_segmentation, tx_window)
      BY <1>11 DEF BuildRetxPdu, SendData
    <2> QED
      BY <1>1, <1>6, <2>1
  <1>12. CASE PullDiscarded(grant) \/ RetxGrantTooSmall(grant)
    BY <1>12 DEF PullDiscarded, RetxGrantTooSmall, channels
  <1> QED
    BY <1>7, <1>8, <1>9, <1>10, <1>11, <1>12

\* get_polling_bit: the last PDU before the transmitter falls silent polls, so that the
\* peer's report or t-PollRetransmit ends the silence; for bearers without PDCP discard
\* and without max_window.
THEOREM LastPduPolls ==
  ASSUME Discardable = {}, MaxWindow = 0
  PROVE  Spec => PollOnLastPdu
  <1>1. Init => NoneMarked
    BY DEF Init, TxInit, NoneMarked
  <1>2. BearerInv /\ NoneMarked /\ [Next]_vars => NoneMarked'
    BY MarksNone
  <1>3. ASSUME BearerInv, NoneMarked, NoneMarked', [Next]_vars
        PROVE  [\A pdu \in data' \ data : (NothingLeft \/ IsTxWindowFull(tx_window))' => pdu.p]_vars
    <2>1. CASE PullPdu
      BY <1>3, <2>1, PollsWhenDone
    <2>2. CASE ~PullPdu
      <3>1. data' \subseteq data
        BY <1>3, <2>2 DEF Next, TxStep, RxStep, LowerLayerStep, LoseData, LoseStatus, HandleSdu, DiscardSdu,
             HandleStatusPdu, IgnoreStatusPdu, ExpirePollRetransmitTimer, UpdateMacBufferState, DiscardDataPdu,
             HandleDataPdu, ExpireReassemblyTimer, PullStatusPdu, ExpireStatusProhibitTimer, Take, channels, vars
      <3> QED
        BY <3>1
    <2> QED
      BY <2>1, <2>2
  <1> QED
    BY <1>1, <1>2, <1>3, BearerInvariant, PTL DEF Spec, PollOnLastPdu

=============================================================================

------------------------ MODULE RlcAmStatusPduProofs ------------------------
(***************************************************************************)
(* What push_nack merges, trim cuts off and the peer expands, for every    *)
(* RX window, length of SDUs, limit of a range and size of a grant.        *)
(***************************************************************************)
EXTENDS RlcAmStatusPdu, OrderedSetsProofs

Gaps == [sn : Sn, first : Bytes, last : Bytes]
Nacks == [nack_sn : Sn, has_so : BOOLEAN, so_start : Nat, so_end : Nat,
          has_nack_range : BOOLEAN, nack_range : Nat]

AckSn == rx_next + Span

\* Gaps lie below the ACK_SN of the report.
GapInv(gap) == gap \in Gaps /\ Base(gap.sn) < Span

\* So do all SNs a NACK names.
NackInv(nack) ==
  /\ nack \in Nacks /\ NackRange(nack) \in Nat \ {0}
  /\ Base(nack.nack_sn) + NackRange(nack) <= Span

\* While the report is built, NACKs are in the order of their SNs and none is
\* above a gap that is still to be visited.
Sorted ==
  /\ \A i, j \in DOMAIN nacks : i <= j => Base(nacks[i].nack_sn) <= Base(nacks[j].nack_sn)
  /\ \A i \in DOMAIN nacks, gap \in pending : Base(nacks[i].nack_sn) <= Base(gap.sn)

IInv ==
  /\ rx_next \in Sn /\ stage \in {"build", "built", "sent"}
  /\ pending \subseteq missing /\ \A gap \in missing : GapInv(gap)
  /\ nacks \in Seq(Nacks) /\ \A i \in DOMAIN nacks : NackInv(nacks[i])
  /\ stage # "sent" => Sorted
  /\ stage = "built" => pending = {} /\ ack_sn = AckSn % SnModulus
  /\ ReportIsTrue

-----------------------------------------------------------------------------
(* Sequence numbers.                                                       *)

\* A span of SNs is at most half of them.
LEMMA Numbers ==
  /\ Span \in Nat /\ Span >= 1 /\ SnModulus \in Nat \ {0} /\ 2 * Span <= SnModulus
  /\ SduLen \in Nat /\ SduLen >= 1 /\ SduLen - 1 < EndOfSdu /\ EndOfSdu = 65535
  /\ MaxNackRange \in Nat
  BY RlcAmStatusPduAssumption DEF EndOfSdu

\* The distance from RX_Next.
LEMMA BaseIs ==
  ASSUME rx_next \in Sn, NEW sn \in Sn
  PROVE  /\ Base(sn) = IF sn >= rx_next THEN sn - rx_next ELSE sn - rx_next + SnModulus
         /\ Base(sn) \in 0 .. SnModulus - 1
  <1> DEFINE x == sn - rx_next
  <1>1. x \in Int /\ SnModulus \in Nat \ {0}
    BY Numbers DEF Sn
  <1>2. IF sn >= rx_next THEN x \in 0 .. SnModulus - 1 ELSE x \in (-SnModulus) .. -1
    BY Numbers DEF Sn
  <1>3. Base(sn) = x % SnModulus
    BY DEF Base
  <1> HIDE DEF x
  <1>4. /\ x \in 0 .. SnModulus - 1 => x % SnModulus = x
        /\ x \in (-SnModulus) .. -1 => x % SnModulus = x + SnModulus
    BY <1>1, OneTurn
  <1>5. Base(sn) = IF sn >= rx_next THEN x ELSE x + SnModulus
    BY <1>2, <1>3, <1>4
  <1> QED
    BY <1>1, <1>2, <1>5 DEF x

\* Distances of neighbours; handle_status_pdu compares sums that have not wrapped.
LEMMA BaseAdd ==
  ASSUME rx_next \in Sn, NEW sn \in Sn, NEW d \in Nat, Base(sn) + d < SnModulus
  PROVE  /\ (sn + d) % SnModulus \in Sn
         /\ Base((sn + d) % SnModulus) = Base(sn) + d
         /\ Base(sn + d) = Base(sn) + d
  <1> DEFINE y == sn + d
             r == y % SnModulus
             x == y - rx_next
  <1>1. /\ Base(sn) = IF sn >= rx_next THEN sn - rx_next ELSE sn - rx_next + SnModulus
        /\ Base(sn) \in Nat /\ d < SnModulus
    BY BaseIs, Numbers
  <1>2. y \in 0 .. 2 * SnModulus - 1 /\ y \in Int /\ x \in Int
    BY <1>1, Numbers DEF Sn
  <1>3. Base(sn + d) = x % SnModulus
    BY DEF Base
  <1>4. x = Base(sn) + d \/ x = Base(sn) + d - SnModulus
    BY <1>1, Numbers DEF Sn
  <1> HIDE DEF x, y
  <1>5. r = IF y < SnModulus THEN y ELSE y - SnModulus
    <2>1. SnModulus \in Nat \ {0}
      BY Numbers
    <2>2. /\ y \in 0 .. SnModulus - 1 => y % SnModulus = y
          /\ y \in SnModulus .. 2 * SnModulus - 1 => y % SnModulus = y - SnModulus
      BY <1>2, <2>1, OneTurn
    <2> HIDE DEF r
    <2>3. IF y < SnModulus THEN y \in 0 .. SnModulus - 1 ELSE y \in SnModulus .. 2 * SnModulus - 1
      BY <1>2, <2>1
    <2> QED
      BY <2>2, <2>3 DEF r
  <1>6. r \in Sn
    BY <1>2, <1>5, Numbers DEF Sn
  <1> HIDE DEF r
  <1>7. Base(r) = IF r >= rx_next THEN r - rx_next ELSE r - rx_next + SnModulus
    BY <1>6, BaseIs
  <1>8. Base(r) = Base(sn) + d
    BY <1>1, <1>5, <1>6, <1>7, Numbers DEF Sn, y
  <1>9. x % SnModulus = Base(sn) + d
    <2>1. PICK b \in 0 .. SnModulus - 1 : b = Base(sn) + d
      BY <1>1, Numbers
    <2>2. SnModulus \in Nat \ {0} /\ (x = b \/ x = b - SnModulus)
      BY <1>1, <1>4, <2>1, Numbers
    <2>3. /\ x \in 0 .. SnModulus - 1 => x % SnModulus = x
          /\ x \in (-SnModulus) .. -1 => x % SnModulus = x + SnModulus
      BY <1>2, <2>2, OneTurn
    <2>4. CASE x = b
      BY <2>1, <2>3, <2>4
    <2>5. CASE x = b - SnModulus
      <3>1. x \in (-SnModulus) .. -1 /\ x + SnModulus = b
        BY <2>2, <2>5
      <3> QED
        BY <2>1, <2>3, <3>1
    <2> QED
      BY <2>2, <2>4, <2>5
  <1> QED
    BY <1>3, <1>6, <1>8, <1>9 DEF r, y

\* An SN is known by its distance.
LEMMA BaseInjective ==
  ASSUME rx_next \in Sn, NEW a \in Sn, NEW b \in Sn, Base(a) = Base(b)
  PROVE  a = b
  BY BaseIs, Numbers DEF Sn

\* ACK_SN before it is trimmed.
LEMMA AckBase ==
  ASSUME rx_next \in Sn
  PROVE  /\ AckSn % SnModulus \in Sn
         /\ Base(AckSn) = Span /\ Base(AckSn % SnModulus) = Span
  <1>1. Base(rx_next) = 0
    BY BaseIs, Numbers DEF Sn
  <1>2. Span \in Nat /\ Base(rx_next) + Span < SnModulus
    BY <1>1, Numbers
  <1> QED
    BY <1>1, <1>2, BaseAdd, Numbers DEF AckSn

-----------------------------------------------------------------------------
(* What a NACK stands for.                                                 *)

\* The d-th byte range of a NACK.
Part(nack, d) ==
  [sn    |-> (nack.nack_sn + d) % SnModulus,
   first |-> IF nack.has_so /\ d = 0 THEN nack.so_start ELSE 0,
   last  |-> IF nack.has_so /\ d = NackRange(nack) - 1 /\ nack.so_end # EndOfSdu
             THEN nack.so_end ELSE SduLen - 1]

\* The peer reads those parts of a NACK whose SN is below ACK_SN.
LEMMA ExpandedIs ==
  ASSUME rx_next \in Sn, NEW nack, NackInv(nack), NEW ack, Base(ack) \in Int
  PROVE  /\ \A d \in 0 .. NackRange(nack) - 1 :
              Base(nack.nack_sn) + d < Base(ack) => Part(nack, d) \in Expanded(nack, ack)
         /\ \A gap \in Expanded(nack, ack) :
              \E d \in 0 .. NackRange(nack) - 1 :
                gap = Part(nack, d) /\ Base(gap.sn) = Base(nack.nack_sn) + d
  <1>1. \A d \in 0 .. NackRange(nack) - 1 :
          /\ Base(nack.nack_sn + d) = Base(nack.nack_sn) + d
          /\ Base(Part(nack, d).sn) = Base(nack.nack_sn) + d
    <2> SUFFICES ASSUME NEW d \in 0 .. NackRange(nack) - 1
                 PROVE  /\ Base(nack.nack_sn + d) = Base(nack.nack_sn) + d
                        /\ Base((nack.nack_sn + d) % SnModulus) = Base(nack.nack_sn) + d
      BY DEF Part
    <2>1. /\ nack.nack_sn \in Sn /\ NackRange(nack) \in Nat /\ d \in Nat
          /\ Base(nack.nack_sn) + NackRange(nack) <= Span
      BY DEF NackInv, Nacks
    <2>2. Base(nack.nack_sn) \in Nat
      BY <2>1, BaseIs
    <2>3. Base(nack.nack_sn) + d < SnModulus
      BY <2>1, <2>2, Numbers
    <2> QED
      BY <2>1, <2>3, BaseAdd
  <1>2. Expanded(nack, ack) =
          {Part(nack, d) : d \in {d \in 0 .. NackRange(nack) - 1 :
                                    nack.has_nack_range => Base(nack.nack_sn + d) < Base(ack)}}
    BY DEF Expanded, Part
  <1> QED
    BY <1>1, <1>2

\* The peer reads the byte range that was pushed.
LEMMA PushedIs ==
  ASSUME rx_next \in Sn, NEW gap, GapInv(gap)
  PROVE  /\ NackInv(NackOf(gap)) /\ NackRange(NackOf(gap)) = 1
         /\ NackOf(gap).nack_sn = gap.sn
         /\ Part(NackOf(gap), 0) = gap
         /\ Expanded(NackOf(gap), AckSn) = {gap}
  <1> DEFINE nack == NackOf(gap)
  <1>1. gap \in Gaps /\ gap.sn \in Sn /\ gap.first \in Bytes /\ gap.last \in Bytes
    BY DEF GapInv, Gaps
  <1>2. gap = [sn |-> gap.sn, first |-> gap.first, last |-> gap.last]
    BY <1>1 DEF Gaps
  <1>3. /\ nack \in Nacks /\ NackRange(nack) = 1 /\ nack.nack_sn = gap.sn
    BY <1>1, Numbers DEF NackOf, NackRange, Nacks, Bytes
  <1>4. Base(gap.sn) \in Nat /\ Base(gap.sn) < Span
    BY <1>1, BaseIs DEF GapInv
  <1>5. NackInv(nack)
    BY <1>3, <1>4, Numbers DEF NackInv
  <1>6. (gap.sn + 0) % SnModulus = gap.sn
    <2> DEFINE s == gap.sn
    <2>1. s + 0 = s /\ s \in 0 .. SnModulus - 1 /\ s \in Int /\ SnModulus \in Nat \ {0}
      BY <1>1, Numbers DEF Sn
    <2> HIDE DEF s
    <2>2. s % SnModulus = s
      BY <2>1, OneTurn
    <2> QED
      BY <2>1, <2>2, Zenon DEF s
  <1>7. /\ (IF nack.has_so /\ 0 = 0 THEN nack.so_start ELSE 0) = gap.first
        /\ (IF nack.has_so /\ 0 = NackRange(nack) - 1 /\ nack.so_end # EndOfSdu
            THEN nack.so_end ELSE SduLen - 1) = gap.last
    <2>1. gap.first \in 0 .. SduLen - 1 /\ gap.last \in 0 .. SduLen - 1
      BY <1>1 DEF Bytes
    <2>2. /\ nack.so_start = gap.first
          /\ nack.has_so <=> gap.first # 0 \/ gap.last # SduLen - 1
          /\ nack.so_end = IF gap.last = SduLen - 1 THEN EndOfSdu ELSE gap.last
      BY DEF NackOf
    <2> HIDE DEF nack
    <2>3. gap.last # EndOfSdu /\ 0 = NackRange(nack) - 1
      BY <1>3, <2>1, Numbers
    <2> QED
      BY <2>2, <2>3
  <1>8. Part(nack, 0) = gap
    BY <1>2, <1>3, <1>6, <1>7 DEF Part
  <1> HIDE DEF nack
  <1>9. Base(AckSn) = Span
    BY AckBase
  <1>10. 0 .. NackRange(nack) - 1 = {0}
    BY <1>3
  <1>11. gap \in Expanded(nack, AckSn)
    <2>1. Base(nack.nack_sn) + 0 < Base(AckSn) /\ Base(AckSn) \in Int
      BY <1>3, <1>4, <1>9, Numbers
    <2> QED
      BY <1>5, <1>8, <1>10, <2>1, ExpandedIs
  <1>12. \A g \in Expanded(nack, AckSn) : g = gap
    <2>1. Base(AckSn) \in Int
      BY <1>9, Numbers
    <2> QED
      BY <1>5, <1>8, <1>10, <2>1, ExpandedIs
  <1> QED
    BY <1>3, <1>5, <1>8, <1>11, <1>12 DEF nack

\* Below the ACK_SN of the built report the peer reads all parts.
LEMMA ExpandedAll ==
  ASSUME rx_next \in Sn, NEW nack, NackInv(nack), NEW ack, Base(ack) = Span
  PROVE  Expanded(nack, ack) = {Part(nack, d) : d \in 0 .. NackRange(nack) - 1}
  <1>1. Base(ack) \in Int
    BY Numbers
  <1>2. \A d \in 0 .. NackRange(nack) - 1 : Base(nack.nack_sn) + d < Base(ack)
    <2>1. /\ NackRange(nack) \in Nat /\ nack.nack_sn \in Sn
          /\ Base(nack.nack_sn) + NackRange(nack) <= Span
      BY DEF NackInv, Nacks
    <2>2. Base(nack.nack_sn) \in Nat
      BY <2>1, BaseIs
    <2> QED
      BY <2>1, <2>2, Numbers
  <1> QED
    BY <1>1, <1>2, ExpandedIs

\* A NACK that push_nack merges into the previous one adds its byte range.
LEMMA MergedIs ==
  ASSUME rx_next \in Sn, NEW prev, NackInv(prev), NEW gap, GapInv(gap),
         CanBeMerged(prev, NackOf(gap))
  PROVE  LET new == Merged(prev, NackOf(gap))
         IN  /\ NackInv(new) /\ new.nack_sn = prev.nack_sn
             /\ Expanded(new, AckSn) = Expanded(prev, AckSn) \cup {gap}
  <1> DEFINE nack == NackOf(gap)
             new == Merged(prev, nack)
             n == NackRange(prev)
  <1>1. /\ prev \in Nacks /\ n \in Nat \ {0} /\ prev.nack_sn \in Sn
        /\ Base(prev.nack_sn) + n <= Span
    BY DEF NackInv, Nacks
  <1>2. /\ nack \in Nacks /\ NackRange(nack) = 1 /\ nack.nack_sn = gap.sn
        /\ Part(nack, 0) = gap
    BY PushedIs DEF NackInv
  <1>3. /\ gap.sn = (prev.nack_sn + n) % SnModulus
        /\ prev.has_so => prev.so_end = EndOfSdu
        /\ nack.has_so => nack.so_start = 0
        /\ n + 1 <= MaxNackRange
    BY <1>2 DEF CanBeMerged
  <1>4. Base(prev.nack_sn) \in Nat /\ Base(gap.sn) < Span
    BY <1>1, BaseIs DEF GapInv
  <1>5. Base(gap.sn) = Base(prev.nack_sn) + n
    <2>1. n \in Nat /\ Base(prev.nack_sn) + n < SnModulus
      BY <1>1, <1>4, Numbers
    <2> QED
      BY <1>1, <1>3, <2>1, BaseAdd
  <1>6. /\ new.nack_sn = prev.nack_sn /\ new.has_nack_range = TRUE /\ new.nack_range = n + 1
        /\ new.has_so = (prev.has_so \/ nack.has_so)
        /\ new.so_start = IF nack.has_so /\ ~prev.has_so THEN 0 ELSE prev.so_start
        /\ new.so_end = IF nack.has_so THEN nack.so_end
                        ELSE IF prev.has_so THEN EndOfSdu ELSE prev.so_end
        /\ new \in Nacks
    <2> HIDE DEF nack
    <2>1. EndOfSdu \in Nat
      BY Numbers
    <2>2. new.nack_sn = prev.nack_sn /\ new.has_nack_range = TRUE
      BY <1>1 DEF Merged, Nacks
    <2>3. new.nack_range = n + 1
      <3>1. (n + 1) % (MaxNackRange + 1) = n + 1
        BY <1>1, <1>3, Numbers
      <3> QED
        BY <1>1, <1>2, <3>1 DEF Merged, Nacks
    <2>4. new.has_so = (prev.has_so \/ nack.has_so)
      BY <1>1, Zenon DEF Merged, Nacks
    <2>5. new.so_start = IF nack.has_so /\ ~prev.has_so THEN 0 ELSE prev.so_start
      BY <1>1 DEF Merged, Nacks
    <2>6. new.so_end = IF nack.has_so THEN nack.so_end
                       ELSE IF prev.has_so THEN EndOfSdu ELSE prev.so_end
      BY <1>1 DEF Merged, Nacks
    <2>7. new \in Nacks
      <3>1. /\ (n + NackRange(nack)) % (MaxNackRange + 1) \in Nat
            /\ (prev.has_so \/ nack.has_so) \in BOOLEAN
            /\ (IF nack.has_so /\ ~prev.has_so THEN 0 ELSE prev.so_start) \in Nat
            /\ (IF nack.has_so THEN nack.so_end
                ELSE IF prev.has_so THEN EndOfSdu ELSE prev.so_end) \in Nat
        BY <1>1, <1>2, <2>1, Numbers DEF Nacks
      <3> QED
        BY <1>1, <3>1 DEF Merged, Nacks
    <2> QED
      BY <2>2, <2>3, <2>4, <2>5, <2>6, <2>7
  <1>7. NackRange(new) = n + 1
    BY <1>6 DEF NackRange
  <1> HIDE DEF nack, new, n
  <1>8. NackInv(new)
    BY <1>1, <1>4, <1>5, <1>6, <1>7, Numbers DEF NackInv
  <1>9. ASSUME NEW d \in 0 .. n - 1 PROVE Part(new, d) = Part(prev, d)
    <2>1. d # NackRange(new) - 1 /\ d \in Int
      BY <1>1, <1>7
    <2>2. (IF new.has_so /\ d = 0 THEN new.so_start ELSE 0)
            = (IF prev.has_so /\ d = 0 THEN prev.so_start ELSE 0)
      BY <1>6
    <2>3. (IF prev.has_so /\ d = NackRange(prev) - 1 /\ prev.so_end # EndOfSdu
           THEN prev.so_end ELSE SduLen - 1) = SduLen - 1
      BY <1>3
    <2>4. (IF new.has_so /\ d = NackRange(new) - 1 /\ new.so_end # EndOfSdu
           THEN new.so_end ELSE SduLen - 1) = SduLen - 1
      BY <2>1
    <2> QED
      BY <1>6, <2>2, <2>3, <2>4, Zenon DEF Part
  <1>10. Part(new, n) = gap
    <2>1. n # 0 /\ n = NackRange(new) - 1
      BY <1>1, <1>7
    <2>2. /\ gap.first = IF nack.has_so /\ 0 = 0 THEN nack.so_start ELSE 0
          /\ gap.last = IF nack.has_so /\ 0 = NackRange(nack) - 1 /\ nack.so_end # EndOfSdu
                        THEN nack.so_end ELSE SduLen - 1
          /\ gap = [sn |-> gap.sn, first |-> gap.first, last |-> gap.last]
      <3>1. gap \in Gaps
        BY DEF GapInv
      <3> QED
        BY <1>2, <3>1 DEF Part, Gaps
    <2>3. (IF new.has_so /\ n = 0 THEN new.so_start ELSE 0) = gap.first
      BY <1>3, <2>1, <2>2
    <2>4. (IF new.has_so /\ n = NackRange(new) - 1 /\ new.so_end # EndOfSdu
           THEN new.so_end ELSE SduLen - 1) = gap.last
      <3>1. 0 = NackRange(nack) - 1
        BY <1>2
      <3>2. nack.has_so \in BOOLEAN /\ prev.has_so \in BOOLEAN
        BY <1>1, <1>2 DEF Nacks
      <3>3. CASE nack.has_so
        BY <1>6, <2>1, <2>2, <3>1, <3>3
      <3>4. CASE ~nack.has_so
        BY <1>6, <2>1, <2>2, <3>4
      <3> QED
        BY <3>3, <3>4
    <2>5. (new.nack_sn + n) % SnModulus = gap.sn
      BY <1>3, <1>6, Zenon
    <2> QED
      BY <2>2, <2>3, <2>4, <2>5, Zenon DEF Part
  <1>11. /\ Expanded(new, AckSn) = {Part(new, d) : d \in 0 .. n}
         /\ Expanded(prev, AckSn) = {Part(prev, d) : d \in 0 .. n - 1}
    <2>1. Base(AckSn) = Span
      BY AckBase
    <2>2. 0 .. NackRange(new) - 1 = 0 .. n /\ NackRange(prev) = n
      BY <1>1, <1>7 DEF n
    <2> QED
      BY <1>8, <2>1, <2>2, ExpandedAll
  <1>12. 0 .. n = (0 .. n - 1) \cup {n}
    BY <1>1
  <1>13. Expanded(new, AckSn) = Expanded(prev, AckSn) \cup {gap}
    BY <1>9, <1>10, <1>11, <1>12
  <1> QED
    BY <1>6, <1>8, <1>13 DEF new, nack

-----------------------------------------------------------------------------
(* Every step keeps the invariant.                                         *)

\* What the peer makes of a list of NACKs.
Read(list, ack) == UNION {Expanded(list[i], ack) : i \in DOMAIN list}

\* Distances, and so the reading of a report, depend on RX_Next only.
LEMMA SameBase ==
  ASSUME rx_next' = rx_next
  PROVE  /\ \A sn : Base(sn)' = Base(sn)
         /\ \A nack, ack : Expanded(nack, ack)' = Expanded(nack, ack)
         /\ \A ack : ExpandedNacks(ack)' = Read(nacks', ack)
         /\ AckSn' = AckSn
         /\ \A nack : NackInv(nack)' <=> NackInv(nack)
         /\ \A gap : GapInv(gap)' <=> GapInv(gap)
  <1>1. \A sn : Base(sn)' = Base(sn)
    BY DEF Base
  <1>2. \A nack, ack : Expanded(nack, ack)' = Expanded(nack, ack)
    BY DEF Expanded, NackRange, Base
  <1>3. \A ack : ExpandedNacks(ack)' = Read(nacks', ack)
    BY <1>2 DEF ExpandedNacks, Read
  <1> QED
    BY <1>1, <1>2, <1>3 DEF AckSn, NackInv, GapInv, NackRange, Nacks, Gaps, Sn, Bytes

\* Any RX window is a start.
LEMMA InitIInv == Init => IInv
  <1> SUFFICES ASSUME Init PROVE IInv
    OBVIOUS
  <1>1. rx_next \in Sn /\ stage = "build" /\ pending = missing /\ nacks = <<>>
    BY DEF Init
  <1>2. PICK received \in [0 .. Span - 1 -> SUBSET Bytes] : missing = GapsOf(rx_next, received)
    BY DEF Init
  <1>3. ASSUME NEW gap \in missing PROVE GapInv(gap)
    <2>1. \E d \in 0 .. Span - 1 : \E f, l \in Bytes :
            gap = [sn |-> (rx_next + d) % SnModulus, first |-> f, last |-> l]
      BY <1>2, <1>3 DEF GapsOf
    <2>2. PICK d \in 0 .. Span - 1, f \in Bytes, l \in Bytes :
            gap = [sn |-> (rx_next + d) % SnModulus, first |-> f, last |-> l]
      BY <2>1
    <2>3. Base(rx_next) = 0 /\ d \in Nat /\ Base(rx_next) + d < SnModulus /\ d < Span
      <3>1. Base(rx_next) = 0
        BY <1>1, BaseIs DEF Sn
      <3> QED
        BY <3>1, Numbers
    <2>4. (rx_next + d) % SnModulus \in Sn /\ Base((rx_next + d) % SnModulus) = d
      BY <1>1, <2>3, BaseAdd
    <2>5. gap.sn = (rx_next + d) % SnModulus /\ gap.first = f /\ gap.last = l
      BY <2>2
    <2> QED
      BY <2>2, <2>3, <2>4, <2>5 DEF GapInv, Gaps
  <1>4. DOMAIN nacks = {} /\ nacks \in Seq(Nacks)
    BY <1>1
  <1>5. ReportIsTrue
    BY <1>1, <1>4 DEF ReportIsTrue, ExpandedNacks
  <1> QED
    BY <1>1, <1>3, <1>4, <1>5 DEF IInv, Sorted

\* One round of refresh_status_report.
LEMMA PushNackKeeps ==
  ASSUME IInv, PushNack
  PROVE  IInv'
  <1> DEFINE L == Len(nacks)
  <1>1. /\ rx_next \in Sn /\ stage = "build" /\ pending \subseteq missing
        /\ nacks \in Seq(Nacks) /\ L \in Nat /\ DOMAIN nacks = 1 .. L
        /\ \A i \in DOMAIN nacks : NackInv(nacks[i]) /\ nacks[i] \in Nacks
        /\ \A gap \in missing : GapInv(gap)
        /\ Sorted /\ Read(nacks, AckSn) = missing \ pending
    BY DEF IInv, PushNack, ReportIsTrue, ExpandedNacks, Read, AckSn, NackInv
  <1>2. UNCHANGED <<rx_next, missing, ack_sn, stage>>
    BY DEF PushNack
  <1>3. PICK gap \in pending :
          /\ \A other \in pending \ {gap} :
               \/ Base(gap.sn) < Base(other.sn)
               \/ gap.sn = other.sn /\ gap.first < other.first
          /\ pending' = pending \ {gap}
          /\ LET nack == NackOf(gap)
             IN  IF nacks # <<>> /\ CanBeMerged(Last, nack)
                 THEN nacks' = [nacks EXCEPT ![Len(nacks)] = Merged(Last, nack)]
                 ELSE nacks' = Append(nacks, nack)
    BY DEF PushNack
  <1> DEFINE nack == NackOf(gap)
  <1>4. GapInv(gap) /\ gap \in missing
    BY <1>1
  <1>5. \A other \in pending : Base(gap.sn) <= Base(other.sn)
    <2>1. \A g \in missing : Base(g.sn) \in Int
      <3>1. \A g \in missing : g.sn \in Sn
        BY <1>1 DEF GapInv, Gaps
      <3> QED
        BY <1>1, <3>1, BaseIs
    <2> QED
      BY <1>1, <1>3, <2>1
  <1>6. missing \ pending' = (missing \ pending) \cup {gap}
    BY <1>3, <1>4
  <1>7. \A i \in DOMAIN nacks : Base(nacks[i].nack_sn) <= Base(gap.sn)
    BY <1>1 DEF Sorted
  <1>8. SUFFICES /\ nacks' \in Seq(Nacks) /\ \A i \in DOMAIN nacks' : NackInv(nacks'[i])
                 /\ \A i, j \in DOMAIN nacks' :
                      i <= j => Base(nacks'[i].nack_sn) <= Base(nacks'[j].nack_sn)
                 /\ \A i \in DOMAIN nacks' : Base(nacks'[i].nack_sn) <= Base(gap.sn)
                 /\ Read(nacks', AckSn) = Read(nacks, AckSn) \cup {gap}
    <2> SUFFICES ASSUME /\ nacks' \in Seq(Nacks) /\ \A i \in DOMAIN nacks' : NackInv(nacks'[i])
                        /\ \A i, j \in DOMAIN nacks' :
                             i <= j => Base(nacks'[i].nack_sn) <= Base(nacks'[j].nack_sn)
                        /\ \A i \in DOMAIN nacks' : Base(nacks'[i].nack_sn) <= Base(gap.sn)
                        /\ Read(nacks', AckSn) = Read(nacks, AckSn) \cup {gap}
                 PROVE  IInv'
      OBVIOUS
    <2>1. /\ \A sn : Base(sn)' = Base(sn) /\ AckSn' = AckSn
          /\ \A ack : ExpandedNacks(ack)' = Read(nacks', ack)
          /\ \A n : NackInv(n)' <=> NackInv(n)
          /\ \A g : GapInv(g)' <=> GapInv(g)
      BY <1>2, SameBase
    <2>2. Sorted'
      <3>1. \A i \in DOMAIN nacks' : Base(nacks'[i].nack_sn) \in Int
        <4>1. \A i \in DOMAIN nacks' : nacks'[i].nack_sn \in Sn
          BY DEF NackInv, Nacks
        <4> QED
          BY <1>1, <4>1, BaseIs
      <3>2. \A g \in pending : Base(g.sn) \in Int
        <4>1. \A g \in pending : g.sn \in Sn
          BY <1>1 DEF GapInv, Gaps
        <4> QED
          BY <1>1, <4>1, BaseIs
      <3>3. \A i \in DOMAIN nacks', g \in pending' : Base(nacks'[i].nack_sn) <= Base(g.sn)
        BY <1>3, <1>5, <3>1, <3>2
      <3> QED
        BY <2>1, <3>3 DEF Sorted
    <2>3. ReportIsTrue'
      <3>1. ExpandedNacks(AckSn)' = missing' \ pending'
        BY <1>1, <1>2, <1>6, <2>1
      <3> QED
        BY <1>1, <1>2, <3>1 DEF ReportIsTrue, AckSn
    <2>4. \A i \in DOMAIN nacks' : NackInv(nacks[i])'
      BY <2>1 DEF NackInv, NackRange, Base, Nacks, Sn
    <2>5. \A g \in missing' : GapInv(g)'
      BY <1>1, <1>2, <2>1
    <2>6. (nacks \in Seq(Nacks))'
      BY DEF Nacks, Sn
    <2>7. (rx_next \in Sn)' /\ (stage \in {"build", "built", "sent"})' /\ (stage # "built")'
          /\ (pending \subseteq missing)'
      BY <1>1, <1>2, <1>3 DEF Sn
    <2> QED
      BY <2>2, <2>3, <2>4, <2>5, <2>6, <2>7 DEF IInv
  <1>9. CASE nacks # <<>> /\ CanBeMerged(Last, nack)
    <2> DEFINE new == Merged(Last, nack)
    <2>1. L \in DOMAIN nacks /\ Last = nacks[L]
      BY <1>1, <1>9 DEF Last
    <2>2. /\ NackInv(new) /\ new.nack_sn = nacks[L].nack_sn
          /\ Expanded(new, AckSn) = Expanded(nacks[L], AckSn) \cup {gap}
      BY <1>1, <1>4, <1>9, <2>1, MergedIs
    <2>3. nacks' = [nacks EXCEPT ![L] = new]
      BY <1>3, <1>9
    <2>4. new \in Nacks
      BY <2>2 DEF NackInv
    <2> HIDE DEF new, nack, L
    <2>5. nacks' \in Seq(Nacks) /\ DOMAIN nacks' = DOMAIN nacks
      BY <1>1, <2>1, <2>3, <2>4
    <2>6. nacks'[L] = new /\ \A i \in DOMAIN nacks : i # L => nacks'[i] = nacks[i]
      BY <2>1, <2>3
    <2>7. \A i \in DOMAIN nacks : nacks'[i].nack_sn = nacks[i].nack_sn
      BY <2>2, <2>6
    <2>8. Read(nacks', AckSn) = Read(nacks, AckSn) \cup {gap}
      <3>1. \A g : g \in Read(nacks', AckSn) <=> \E i \in DOMAIN nacks : g \in Expanded(nacks'[i], AckSn)
        BY <2>5 DEF Read
      <3>2. \A g : g \in Read(nacks, AckSn) <=> \E i \in DOMAIN nacks : g \in Expanded(nacks[i], AckSn)
        BY DEF Read
      <3>3. \A g : g \in Read(nacks', AckSn) <=> g \in Read(nacks, AckSn) \/ g = gap
        BY <2>1, <2>2, <2>6, <3>1, <3>2
      <3> QED
        BY <3>3
    <2>9. \A i \in DOMAIN nacks' : NackInv(nacks'[i])
      BY <1>1, <2>2, <2>5, <2>6
    <2>10. \A i, j \in DOMAIN nacks' : i <= j => Base(nacks'[i].nack_sn) <= Base(nacks'[j].nack_sn)
      BY <1>1, <2>5, <2>7 DEF Sorted
    <2>11. \A i \in DOMAIN nacks' : Base(nacks'[i].nack_sn) <= Base(gap.sn)
      BY <1>7, <2>5, <2>7
    <2> QED
      BY <2>5, <2>8, <2>9, <2>10, <2>11
  <1>10. CASE ~(nacks # <<>> /\ CanBeMerged(Last, nack))
    <2>1. nacks' = Append(nacks, nack)
      BY <1>3, <1>10
    <2>2. NackInv(nack) /\ nack.nack_sn = gap.sn /\ Expanded(nack, AckSn) = {gap}
      BY <1>1, <1>4, PushedIs
    <2>3. nack \in Nacks
      BY <2>2 DEF NackInv
    <2> HIDE DEF nack
    <2>4. /\ nacks' \in Seq(Nacks) /\ DOMAIN nacks' = 1 .. (L + 1)
          /\ nacks'[L + 1] = nack /\ \A i \in 1 .. L : nacks'[i] = nacks[i]
      BY <1>1, <2>1, <2>3
    <2> HIDE DEF L
    <2>5. 1 .. (L + 1) = (1 .. L) \cup {L + 1} /\ \A i \in 1 .. L : i \in Int /\ ~(L + 1 <= i)
      BY <1>1
    <2>6. Read(nacks', AckSn) = Read(nacks, AckSn) \cup {gap}
      <3>1. \A g : g \in Read(nacks', AckSn) <=>
                     \E i \in (1 .. L) \cup {L + 1} : g \in Expanded(nacks'[i], AckSn)
        BY <2>4, <2>5 DEF Read
      <3>2. \A g : g \in Read(nacks, AckSn) <=> \E i \in 1 .. L : g \in Expanded(nacks[i], AckSn)
        BY <1>1 DEF Read
      <3>3. \A g : g \in Read(nacks', AckSn) <=> g \in Read(nacks, AckSn) \/ g = gap
        BY <2>2, <2>4, <3>1, <3>2
      <3> QED
        BY <3>3
    <2>7. \A i \in DOMAIN nacks' : NackInv(nacks'[i])
      BY <1>1, <2>2, <2>4, <2>5
    <2>8. \A i \in DOMAIN nacks' : Base(nacks'[i].nack_sn) <= Base(gap.sn)
      <3>1. Base(gap.sn) <= Base(gap.sn)
        BY <1>5
      <3> QED
        BY <1>1, <1>7, <2>2, <2>4, <2>5, <3>1
    <2>9. \A i, j \in DOMAIN nacks' : i <= j => Base(nacks'[i].nack_sn) <= Base(nacks'[j].nack_sn)
      <3> SUFFICES ASSUME NEW i \in DOMAIN nacks', NEW j \in DOMAIN nacks', i <= j
                   PROVE  Base(nacks'[i].nack_sn) <= Base(nacks'[j].nack_sn)
        OBVIOUS
      <3>1. CASE j = L + 1
        BY <2>2, <2>4, <2>8, <3>1
      <3>2. CASE j # L + 1
        <4>1. i \in 1 .. L /\ j \in 1 .. L
          BY <1>1, <2>4, <2>5, <3>2
        <4> QED
          BY <1>1, <2>4, <4>1 DEF Sorted
      <3> QED
        BY <3>1, <3>2
    <2> QED
      BY <2>4, <2>6, <2>7, <2>8, <2>9
  <1> QED
    BY <1>9, <1>10

\* The report is complete.
LEMMA SetAckSnKeeps ==
  ASSUME IInv, SetAckSn
  PROVE  IInv'
  <1>1. /\ stage = "build" /\ stage' = "built" /\ pending = {}
        /\ ack_sn' = AckSn % SnModulus
        /\ UNCHANGED <<rx_next, missing, pending, nacks>>
    BY DEF SetAckSn, AckSn
  <1>2. /\ \A sn : Base(sn)' = Base(sn) /\ AckSn' = AckSn
        /\ \A ack : ExpandedNacks(ack)' = Read(nacks', ack)
        /\ \A n : NackInv(n)' <=> NackInv(n)
        /\ \A g : GapInv(g)' <=> GapInv(g)
    BY <1>1, SameBase
  <1>3. ExpandedNacks(AckSn) = missing \ pending
    BY <1>1 DEF IInv, ReportIsTrue, AckSn
  <1>4. ReportIsTrue'
    <2>1. ExpandedNacks(AckSn)' = missing' \ pending'
      BY <1>1, <1>2, <1>3 DEF Read, ExpandedNacks
    <2> QED
      BY <1>1, <2>1 DEF ReportIsTrue, AckSn
  <1>5. Sorted'
    BY <1>1, <1>2 DEF IInv, Sorted
  <1>6. /\ (nacks \in Seq(Nacks))' /\ \A i \in DOMAIN nacks' : NackInv(nacks[i])'
        /\ \A g \in missing' : GapInv(g)'
    BY <1>1, <1>2 DEF IInv, NackInv, Nacks, Sn, NackRange, Base
  <1>7. ack_sn' = (AckSn % SnModulus)'
    BY <1>1, <1>2
  <1>8. (rx_next \in Sn)' /\ pending' \subseteq missing'
    BY <1>1 DEF IInv, Sn
  <1> QED
    BY <1>1, <1>4, <1>5, <1>6, <1>7, <1>8 DEF IInv

\* However much is cut off, nothing missing below the new ACK_SN is.
LEMMA TrimKeeps ==
  ASSUME IInv, Trim
  PROVE  IInv'
  <1> DEFINE L == Len(nacks)
  <1>1. /\ rx_next \in Sn /\ stage = "built" /\ pending = {} /\ ack_sn = AckSn % SnModulus
        /\ nacks \in Seq(Nacks) /\ L \in Nat /\ DOMAIN nacks = 1 .. L
        /\ \A i \in DOMAIN nacks : NackInv(nacks[i]) /\ nacks[i] \in Nacks
        /\ Sorted /\ Read(nacks, AckSn) = missing
    BY DEF IInv, Trim, ReportIsTrue, ExpandedNacks, Read, AckSn, NackInv
  <1>2. stage' = "sent" /\ UNCHANGED <<rx_next, missing, pending>>
    BY DEF Trim
  <1>3. PICK k \in 0 .. L : nacks' = SubSeq(nacks, 1, k) /\ ack_sn' = AckAfter(k)
    <2>1. PICK max_size :
            LET k == IF max_size >= packed_size THEN Len(nacks) ELSE Kept(max_size)
            IN  nacks' = SubSeq(nacks, 1, k) /\ ack_sn' = AckAfter(k)
      BY DEF Trim
    <2> DEFINE S == {k \in 0 .. L : \/ k = 0
                                    \/ SizeAfter(k) <= max_size /\ nacks[k].nack_sn # AckAfter(k)}
    <2>2. S \in SUBSET (0 .. L) /\ 0 \in S
      BY <1>1
    <2>3. Kept(max_size) = Max(S)
      BY DEF Kept
    <2> HIDE DEF S
    <2>4. Max(S) \in 0 .. L
      BY <1>1, <2>2, MaxIn
    <2>5. L \in 0 .. L
      BY <1>1
    <2> QED
      BY <2>1, <2>3, <2>4, <2>5
  <1>4. /\ nacks' \in Seq(Nacks) /\ DOMAIN nacks' = 1 .. k
        /\ \A i \in 1 .. k : nacks'[i] = nacks[i] /\ i \in DOMAIN nacks
    BY <1>1, <1>3
  <1> HIDE DEF L
  <1>5. /\ \A sn : Base(sn)' = Base(sn)
        /\ \A ack : ExpandedNacks(ack)' = Read(nacks', ack)
        /\ \A n : NackInv(n)' <=> NackInv(n)
        /\ \A g : GapInv(g)' <=> GapInv(g)
    BY <1>2, SameBase
  <1>6. \A i \in DOMAIN nacks' : NackInv(nacks'[i])
    BY <1>1, <1>4
  <1>7. ASSUME NEW gap \in missing, Base(gap.sn) < Base(ack_sn')
        PROVE  gap \in Read(nacks', ack_sn')
    <2>1. PICK i \in DOMAIN nacks : gap \in Expanded(nacks[i], AckSn)
      BY <1>1 DEF Read
    <2>2. NackInv(nacks[i]) /\ nacks[i].nack_sn \in Sn
      BY <1>1 DEF NackInv, Nacks
    <2>3. Base(AckSn) = Span /\ Base(AckSn % SnModulus) = Span /\ Span \in Int
      BY <1>1, AckBase, Numbers
    <2>4. PICK d \in 0 .. NackRange(nacks[i]) - 1 :
            gap = Part(nacks[i], d) /\ Base(gap.sn) = Base(nacks[i].nack_sn) + d
      BY <1>1, <2>1, <2>2, <2>3, ExpandedIs
    <2>5. Base(nacks[i].nack_sn) \in Nat /\ d \in Nat
      BY <1>1, <2>2, <2>4, BaseIs DEF NackInv
    <2>6. i \in 1 .. k /\ Base(ack_sn') \in Int
      <3>1. CASE k = L
        <4>1. ack_sn' = AckSn % SnModulus
          BY <1>1, <1>3, <3>1 DEF AckAfter, L
        <4> QED
          BY <1>1, <2>3, <3>1, <4>1
      <3>2. CASE k # L
        <4>1. ack_sn' = nacks[k + 1].nack_sn /\ k + 1 \in DOMAIN nacks /\ k \in Nat /\ i \in Nat /\ i >= 1
          <5>1. ack_sn' = nacks[k + 1].nack_sn
            BY <1>3, <3>2 DEF AckAfter, L
          <5>2. k \in Nat /\ k + 1 \in 1 .. L /\ i \in 1 .. L
            BY <1>1, <1>3, <3>2
          <5> QED
            BY <1>1, <5>1, <5>2
        <4>2. Base(ack_sn') \in Nat
          <5>1. nacks[k + 1] \in Nacks
            BY <1>1, <4>1
          <5>2. ack_sn' \in Sn
            BY <4>1, <5>1 DEF Nacks
          <5> QED
            BY <1>1, <5>2, BaseIs
        <4>3. k + 1 <= i => Base(ack_sn') <= Base(nacks[i].nack_sn)
          BY <1>1, <4>1 DEF Sorted
        <4> QED
          BY <1>7, <2>4, <2>5, <4>1, <4>2, <4>3
      <3> QED
        BY <3>1, <3>2
    <2>7. Base(nacks[i].nack_sn) + d < Base(ack_sn')
      BY <1>7, <2>4
    <2>8. gap \in Expanded(nacks[i], ack_sn')
      BY <1>1, <2>2, <2>4, <2>6, <2>7, ExpandedIs
    <2> QED
      BY <1>4, <2>6, <2>8 DEF Read
  <1>8. ReportIsTrue'
    <2>1. ExpandedNacks(ack_sn)' = Read(nacks', ack_sn')
      BY <1>2, SameBase DEF ExpandedNacks, Read, Expanded, NackRange, Base
    <2>2. {gap \in missing' : Base(gap.sn)' < Base(ack_sn)'} \subseteq Read(nacks', ack_sn')
      BY <1>2, <1>7 DEF Base
    <2> QED
      BY <1>2, <2>1, <2>2 DEF ReportIsTrue
  <1>9. /\ (nacks \in Seq(Nacks))' /\ \A i \in DOMAIN nacks' : NackInv(nacks[i])'
        /\ \A g \in missing' : GapInv(g)'
    BY <1>2, <1>4, <1>5, <1>6 DEF IInv, NackInv, Nacks, Sn, NackRange, Base
  <1>10. (rx_next \in Sn)' /\ pending' \subseteq missing'
    BY <1>1, <1>2 DEF Sn
  <1> QED
    BY <1>2, <1>8, <1>9, <1>10 DEF IInv

\* The report is true from the first round on until the peer has read it, for
\* every RX window, limit of ranges and grant: what push_nack merges the peer
\* reads as it was pushed, and trim acknowledges nothing that is missing.
THEOREM ReportsAreTrue == Spec => []ReportIsTrue
  <1>1. IInv /\ [Next]_vars => IInv'
    <2> SUFFICES ASSUME IInv, [Next]_vars PROVE IInv'
      OBVIOUS
    <2>1. CASE UNCHANGED vars
      <3>1. IInv' <=> IInv
        BY <2>1 DEF vars, IInv, Sn, GapInv, Gaps, Bytes, Base, NackInv, Nacks, NackRange, Sorted,
           AckSn, ReportIsTrue, ExpandedNacks, Expanded
      <3> QED
        BY <3>1
    <2> QED
      BY <2>1, PushNackKeeps, SetAckSnKeeps, TrimKeeps DEF Next
  <1>2. IInv => ReportIsTrue
    BY DEF IInv
  <1> QED
    BY <1>1, <1>2, InitIInv, PTL DEF Spec
=============================================================================

---------------------------- MODULE PdcpRxProofs ----------------------------
(***************************************************************************)
(* The receiving PDCP entity for every SN length, COUNT limit and number   *)
(* of keys, PDUs and faults: the COUNT of every PDU is recovered from its  *)
(* SN, t-Reordering guards every gap, and keys and state change only when  *)
(* no PDU is with a worker.  It implements PdcpService: SDAP gets SDUs in  *)
(* the order in which the UE sent them and each at most once.  All this if *)
(* the SN status of a handover comes before the first PDU (TimelySpec);    *)
(* TLC shows that it fails otherwise.                                      *)
(***************************************************************************)
EXTENDS PdcpRx, OrderedSetsProofs

-----------------------------------------------------------------------------
(* COUNT arithmetic.                                                       *)

\* Numbers less than two moduli apart are in the same or in neighbouring periods.
LEMMA NeighbourPeriods ==
  ASSUME NEW k \in Int, NEW m \in Nat \ {0}, k * m < 2 * m, -2 * m < k * m
  PROVE  k \in {-1, 0, 1}
  <1>1. k >= 2 => k * m >= 2 * m
    BY SMT
  <1>2. k <= -2 => k * m <= -2 * m
    BY SMT
  <1> QED
    BY <1>1, <1>2

\* The window is half of the SN space.
LEMMA WindowIsHalf ==
  WindowSize \in Nat \ {0} /\ 2 * WindowSize = SnCardinality
  BY PdcpBaseAssumption DEF WindowSize

\* A COUNT is never negative, whatever HFN was guessed.
LEMMA CountIsNat ==
  ASSUME NEW low \in Nat, NEW c \in Nat
  PROVE  CountEstimation(low, SN(c)) \in Nat
  <1> DEFINE sn == SN(c)
             C == SnCardinality
  <1>1. C \in Nat \ {0} /\ CountModulus \in Nat \ {0}
    BY PdcpBaseAssumption
  <1>2. sn \in Nat /\ SN(low) \in Nat /\ HFN(low) \in Nat
    BY <1>1, DivMod DEF SN, HFN
  <1>3. ASSUME NEW h \in Int
        PROVE  COUNT(h, sn) \in Nat
    <2>1. h * C \in Int
      BY <1>1, <1>3
    <2>2. PICK x \in Int : x = h * C + sn
      BY <1>2, <2>1
    <2>3. x % CountModulus \in Nat
      BY <1>1
    <2> QED
      BY <2>2, <2>3 DEF COUNT
  <1> QED
    BY <1>2, <1>3, WindowIsHalf DEF CountEstimation

\* handle_data_pdu: the SN of a COUNT within a window of RX_DELIV gives it back.
LEMMA CountFromSn ==
  ASSUME NEW low \in Nat, NEW c \in Nat, c < CountModulus,
         low <= c + WindowSize, c < low + WindowSize
  PROVE  CountEstimation(low, SN(c)) = c
  <1> DEFINE C == SnCardinality
             W == WindowSize
             q == low \div C
             r == low % C
             p == c \div C
             s == c % C
  <1>1. C \in Nat \ {0} /\ CountModulus \in Nat \ {0} /\ W \in Nat /\ 2 * W = C
    BY PdcpBaseAssumption, WindowIsHalf
  <1>2. /\ low = q * C + r /\ r \in 0 .. C - 1 /\ q \in Nat
        /\ c = p * C + s /\ s \in 0 .. C - 1 /\ p \in Nat
    BY <1>1, DivMod
  <1> HIDE DEF q, r, p, s, W
  <1>3. p - q \in {-1, 0, 1}
    <2>1. (p - q) * C = p * C - q * C
      BY <1>1, <1>2
    <2>2. p * C \in Int /\ q * C \in Int /\ p - q \in Int
      BY <1>1, <1>2
    <2>3. p * C - q * C = (c - s) - (low - r)
      BY <1>1, <1>2, <2>2
    <2>4. (p - q) * C < 2 * C /\ -2 * C < (p - q) * C
      BY <1>1, <1>2, <2>1, <2>3 DEF W
    <2> QED
      BY <1>1, <2>2, <2>4, NeighbourPeriods
  <1>4. c % CountModulus = c
    BY <1>1
  <1>5. CASE p = q
    <2>1. ~(s < r - W) /\ ~(s >= r + W)
      BY <1>1, <1>2, <1>5 DEF W
    <2>2. CountEstimation(low, SN(c)) = COUNT(q, s)
      BY <2>1 DEF CountEstimation, SN, HFN, q, r, s, W
    <2> QED
      BY <1>2, <1>4, <1>5, <2>2 DEF COUNT
  <1>6. CASE p = q + 1
    <2>1. p * C = q * C + C
      BY <1>1, <1>2, <1>6
    <2>2. s < r - W /\ ~(s >= r + W)
      BY <1>1, <1>2, <2>1 DEF W
    <2>3. CountEstimation(low, SN(c)) = COUNT(q + 1, s)
      BY <2>2 DEF CountEstimation, SN, HFN, q, r, s, W
    <2> QED
      BY <1>2, <1>4, <1>6, <2>3 DEF COUNT
  <1>7. CASE p = q - 1
    <2>1. p * C = q * C - C
      BY <1>1, <1>2, <1>7
    <2>2. s >= r + W /\ ~(s < r - W)
      BY <1>1, <1>2, <2>1 DEF W
    <2>3. CountEstimation(low, SN(c)) = COUNT(q - 1, s)
      BY <2>2 DEF CountEstimation, SN, HFN, q, r, s, W
    <2> QED
      BY <1>2, <1>4, <1>7, <2>3 DEF COUNT
  <1> QED
    BY <1>2, <1>3, <1>5, <1>6, <1>7

-----------------------------------------------------------------------------
(* The inductive invariant.                                                *)

Fields ==
  {"rx_next", "rx_deliv", "rx_reord", "rx_window", "reordering_timer", "key", "tokens",
   "pending_crypto", "buffering", "pdu_buffer", "suspended", "resume_requested", "stopped",
   "crypto", "delivered", "failed"}

Pdus == [count : Nat, key : Nat, sdu : Nat, copy : Nat]
Tasks == [count : Nat, pdu : Pdus]
Results == [task : Tasks, ok : BOOLEAN]
Sdus == [count : Nat, sdu : Nat]
Changes == {"none", "keep", "resend", "reset"}
UeFields == {"next", "key", "sent", "sdus", "change"}

UeType(u) ==
  /\ DOMAIN u = UeFields
  /\ u.next \in Nat /\ u.key \in Nat /\ u.sent \in Seq(Sdus) /\ u.sdus \in Nat
  /\ u.change \in Changes

EntityType(s) ==
  /\ DOMAIN s = Fields
  /\ s.rx_next \in Nat /\ s.rx_deliv \in Nat /\ s.rx_reord \in Nat /\ s.key \in Nat
  /\ s.reordering_timer \in BOOLEAN /\ s.pending_crypto \in BOOLEAN
  /\ s.buffering \in BOOLEAN /\ s.suspended \in BOOLEAN /\ s.stopped \in BOOLEAN
  /\ s.tokens \in Int /\ s.pdu_buffer \in Seq(Pdus)
  /\ s.crypto \in SUBSET Tasks /\ IsFiniteSet(s.crypto)

Types ==
  /\ cfg \in Configs /\ EntityType(e)
  /\ queue \in Seq(Results) /\ air \in SUBSET Pdus
  /\ UeType(ue)
  /\ routine \in [step : {"idle", "suspend", "release"}]
                   \cup [step : {"rekey"}, reest : BOOLEAN, resumed : BOOLEAN]
  /\ bearer \in {"active", "handover", "suspended", "released"} /\ faults \in Nat

\* The order of RX_DELIV, what is held and RX_NEXT.
WindowInv(s) ==
  /\ s.rx_deliv <= s.rx_next /\ s.rx_next <= MaxCount /\ s.rx_reord <= MaxCount
  /\ DOMAIN s.rx_window \subseteq (s.rx_deliv + 1) .. (s.rx_next - 1)

\* t-Reordering runs while something is missing, and for an RX_REORD ahead.
TimerInv(s) ==
  ~s.stopped =>
    /\ cfg.t_reordering = "finite" => (s.reordering_timer <=> s.rx_deliv < s.rx_next)
    /\ s.reordering_timer => s.rx_deliv < s.rx_reord /\ s.rx_reord <= s.rx_next

\* No PDU is with a worker or on its way back.
Drained == e.crypto = {} /\ queue = <<>>

\* What the manager itself holds while no routine waits.
OwnToken == IF routine = Idle THEN 0 ELSE 1

\* A token for every PDU under way; the event is set by the last one.
TokenInv ==
  /\ e.tokens + OwnToken >= Cardinality(e.crypto) + Len(queue)
  /\ routine = Idle => ~e.pending_crypto
  /\ e.pending_crypto => Drained

\* Suspended, or about to resume with new keys.
Parked == e.suspended \/ (routine.step = "rekey" /\ routine.resumed)

\* The routine, the bearer and the flags of the entity agree.  A parked entity and one
\* whose peer is going to start again have been reset.
ControlInv ==
  /\ e.stopped <=> routine.step = "release"
  /\ routine.step \in {"suspend", "rekey"} => e.buffering /\ bearer = "active"
  /\ bearer = "active" => ~e.suspended
  /\ bearer = "suspended" => e.suspended /\ e.buffering
  /\ Parked => Drained
  /\ Parked \/ ue.change = "reset" => e.rx_next = 0 /\ e.rx_deliv = 0 /\ ~e.reordering_timer

\* Tasks with the workers or in the queue.
UnderWay == e.crypto \cup {queue[i].task : i \in DOMAIN queue}

\* The UE follows the CU-UP by one key at most.
KeyInv ==
  /\ e.key \in 1 .. MaxKeys
  /\ routine.step = "rekey" => ue.change = "none" /\ e.key < MaxKeys
  /\ ue.change = "none" => ue.key = e.key
  /\ ue.change # "none" => ue.key + 1 = e.key
  /\ \A pdu \in air \cup Range(e.pdu_buffer) : pdu.key <= ue.key
  /\ \A task \in UnderWay : task.pdu.key <= ue.key

\* The target of a handover knows the COUNT of the UE.
Joined == bearer \notin {"handover", "released"}

\* The UE is within a window of RX_DELIV, and what it has sent with the present key
\* is within a window of its next COUNT; so the SN is enough.
CountInv ==
  /\ ue.next <= CountModulus
  /\ \A i \in DOMAIN ue.sent : ue.sent[i].count < ue.next
  /\ \A pdu \in air :
       pdu.key = ue.key => ue.next <= pdu.count + WindowSize /\ pdu.count < ue.next
  /\ \A task \in UnderWay :
       /\ task.count < MaxCount
       /\ task.pdu.key = e.key => task.count = task.pdu.count /\ task.count < ue.next
  /\ \A i \in DOMAIN queue : queue[i].ok => queue[i].task.pdu.key = e.key
  /\ Joined /\ ~Parked /\ ue.change # "reset" =>
       e.rx_next <= ue.next /\ ue.next <= e.rx_deliv + WindowSize

IInv ==
  /\ Types /\ WindowInv(e) /\ e.rx_next - e.rx_deliv <= WindowSize /\ TimerInv(e)
  /\ TokenInv /\ ControlInv /\ KeyInv /\ CountInv

\* Before the SN status of a handover nothing is sent; so the entity has no state that
\* the transfer could lose.
HandoverInv ==
  bearer = "handover" =>
    /\ air = {} /\ Drained /\ DOMAIN e.rx_window = {} /\ ~e.reordering_timer /\ ~e.suspended
    /\ e.rx_next = 0 /\ e.rx_deliv = 0
    /\ ue.next = HandedOver /\ ue.sent = <<>> /\ ue.change = "none"

TimelyNext == TimelySend \/ OtherStep

-----------------------------------------------------------------------------
(* Reordering and delivery.                                                *)

\* What reordering and delivery leave alone.
KeepsRest(s, t) ==
  /\ DOMAIN t = Fields
  /\ t.key = s.key /\ t.tokens = s.tokens /\ t.pending_crypto = s.pending_crypto
  /\ t.buffering = s.buffering /\ t.pdu_buffer = s.pdu_buffer /\ t.crypto = s.crypto
  /\ t.suspended = s.suspended /\ t.stopped = s.stopped

\* deliver_sdu and remove_sn change only the window.
LEMMA DeliverFields ==
  ASSUME NEW s, DOMAIN s = Fields, NEW counts
  PROVE  LET t == Deliver(s, counts)
         IN /\ KeepsRest(s, t)
            /\ t.rx_next = s.rx_next /\ t.rx_deliv = s.rx_deliv /\ t.rx_reord = s.rx_reord
            /\ t.reordering_timer = s.reordering_timer
            /\ DOMAIN t.rx_window = DOMAIN s.rx_window \ counts
  BY DEF Deliver, Fields, KeepsRest

\* deliver_all_consecutive_counts stops at something that is missing.
LEMMA ConsecutiveFields ==
  ASSUME NEW s, DOMAIN s = Fields, s.rx_deliv \in Nat, s.rx_next \in Nat,
         s.rx_deliv <= s.rx_next, DOMAIN s.rx_window \subseteq s.rx_deliv .. (s.rx_next - 1)
  PROVE  LET t == DeliverAllConsecutiveCounts(s)
         IN /\ KeepsRest(s, t)
            /\ t.rx_next = s.rx_next /\ t.rx_reord = s.rx_reord
            /\ t.reordering_timer = s.reordering_timer
            /\ t.rx_deliv \in Nat /\ s.rx_deliv <= t.rx_deliv /\ t.rx_deliv <= s.rx_next
            /\ DOMAIN t.rx_window \subseteq (t.rx_deliv + 1) .. (s.rx_next - 1)
  <1> DEFINE S == {c \in s.rx_deliv .. s.rx_next : c = s.rx_next \/ ~Has(s, c)}
             end == Min(S)
             d == Deliver(s, s.rx_deliv .. (end - 1))
             t == DeliverAllConsecutiveCounts(s)
  <1>1. S \in SUBSET Nat /\ s.rx_next \in S
    OBVIOUS
  <1>2. end \in S
    BY <1>1, MinIn
  <1>3. t = [d EXCEPT !.rx_deliv = end]
    BY DEF DeliverAllConsecutiveCounts
  <1> HIDE DEF end, d, t
  <1>4. /\ end \in Nat /\ s.rx_deliv <= end /\ end <= s.rx_next
        /\ end = s.rx_next \/ end \notin DOMAIN s.rx_window
    BY <1>2 DEF Has
  <1> HIDE DEF S
  <1>5. /\ KeepsRest(s, d) /\ d.rx_next = s.rx_next /\ d.rx_reord = s.rx_reord
        /\ d.reordering_timer = s.reordering_timer
        /\ DOMAIN d.rx_window = DOMAIN s.rx_window \ (s.rx_deliv .. (end - 1))
    BY DeliverFields DEF d
  <1>6. /\ KeepsRest(s, t) /\ t.rx_next = s.rx_next /\ t.rx_reord = s.rx_reord
        /\ t.reordering_timer = s.reordering_timer /\ t.rx_deliv = end
        /\ DOMAIN t.rx_window = DOMAIN s.rx_window \ (s.rx_deliv .. (end - 1))
    BY <1>3, <1>5 DEF KeepsRest, Fields
  <1>7. DOMAIN t.rx_window \subseteq (end + 1) .. (s.rx_next - 1)
    BY <1>4, <1>6
  <1> QED
    BY <1>4, <1>6, <1>7 DEF t

\* handle_t_reordering_expire gives up what is missing below RX_REORD, and guards the
\* next gap, if there is one.
LEMMA ExpireFields ==
  ASSUME NEW s, EntityType(s), WindowInv(s), s.rx_deliv <= s.rx_reord, s.rx_reord <= s.rx_next
  PROVE  LET t == HandleTReorderingExpire(s)
         IN /\ KeepsRest(s, t) /\ EntityType(t) /\ WindowInv(t)
            /\ t.rx_next = s.rx_next /\ s.rx_reord <= t.rx_deliv
            /\ t.reordering_timer <=> t.rx_deliv < t.rx_next /\ cfg.t_reordering # "ms0"
            /\ t.reordering_timer => t.rx_reord = t.rx_next
  <1> DEFINE off == [s EXCEPT !.reordering_timer = FALSE]
             d == Deliver(off, s.rx_deliv .. (s.rx_reord - 1))
             u == [d EXCEPT !.rx_deliv = s.rx_reord]
             g == DeliverAllConsecutiveCounts(u)
             t == HandleTReorderingExpire(s)
  <1>1. /\ t = IF g.rx_deliv < g.rx_next /\ cfg.t_reordering # "ms0"
               THEN [g EXCEPT !.rx_reord = g.rx_next, !.reordering_timer = TRUE] ELSE g
    BY DEF HandleTReorderingExpire
  <1>2. /\ KeepsRest(s, off) /\ off.rx_next = s.rx_next /\ off.rx_deliv = s.rx_deliv
        /\ off.rx_reord = s.rx_reord /\ off.rx_window = s.rx_window /\ off.reordering_timer = FALSE
    BY DEF KeepsRest, EntityType, Fields
  <1> HIDE DEF off, t
  <1>3. /\ KeepsRest(off, d) /\ d.rx_next = s.rx_next /\ d.rx_reord = s.rx_reord
        /\ d.reordering_timer = FALSE
        /\ DOMAIN d.rx_window = DOMAIN s.rx_window \ (s.rx_deliv .. (s.rx_reord - 1))
    <2>1. DOMAIN off = Fields
      BY <1>2 DEF KeepsRest
    <2>2. /\ KeepsRest(off, d) /\ d.rx_next = off.rx_next /\ d.rx_reord = off.rx_reord
          /\ d.reordering_timer = off.reordering_timer
          /\ DOMAIN d.rx_window = DOMAIN off.rx_window \ (s.rx_deliv .. (s.rx_reord - 1))
      BY <2>1, DeliverFields
    <2> QED
      BY <1>2, <2>2
  <1> HIDE DEF d
  <1>4. /\ KeepsRest(s, u) /\ u.rx_next = s.rx_next /\ u.rx_reord = s.rx_reord
        /\ u.reordering_timer = FALSE /\ u.rx_deliv = s.rx_reord
        /\ DOMAIN u.rx_window = DOMAIN s.rx_window \ (s.rx_deliv .. (s.rx_reord - 1))
    BY <1>2, <1>3 DEF KeepsRest, Fields
  <1> HIDE DEF u
  <1>5. /\ s.rx_next \in Nat /\ s.rx_deliv \in Nat /\ s.rx_reord \in Nat
        /\ s.rx_next <= MaxCount /\ MaxCount \in Nat
        /\ DOMAIN s.rx_window \subseteq (s.rx_deliv + 1) .. (s.rx_next - 1)
    BY PdcpRxAssumption DEF EntityType, WindowInv
  <1>6. DOMAIN u.rx_window \subseteq s.rx_reord .. (s.rx_next - 1)
    BY <1>4, <1>5
  <1>7. /\ KeepsRest(u, g) /\ g.rx_next = s.rx_next /\ g.rx_reord = s.rx_reord
        /\ g.reordering_timer = FALSE /\ g.rx_deliv \in Nat
        /\ s.rx_reord <= g.rx_deliv /\ g.rx_deliv <= s.rx_next
        /\ DOMAIN g.rx_window \subseteq (g.rx_deliv + 1) .. (s.rx_next - 1)
    BY <1>4, <1>5, <1>6, ConsecutiveFields DEF KeepsRest
  <1> HIDE DEF g
  <1>8. /\ KeepsRest(s, t) /\ t.rx_next = s.rx_next /\ t.rx_deliv = g.rx_deliv
        /\ t.rx_window = g.rx_window
        /\ t.rx_reord \in {s.rx_reord, s.rx_next}
        /\ t.reordering_timer <=> g.rx_deliv < s.rx_next /\ cfg.t_reordering # "ms0"
        /\ t.reordering_timer => t.rx_reord = s.rx_next
        /\ t.reordering_timer \in BOOLEAN
    BY <1>1, <1>4, <1>7 DEF KeepsRest, Fields
  <1>9. EntityType(t)
    BY <1>5, <1>7, <1>8 DEF EntityType, KeepsRest
  <1>10. WindowInv(t)
    BY <1>5, <1>7, <1>8 DEF WindowInv
  <1> QED
    BY <1>7, <1>8, <1>9, <1>10 DEF t

\* "Handle reordering timers": afterwards t-Reordering guards what is missing.
LEMMA TimersFields ==
  ASSUME NEW s, EntityType(s), WindowInv(s), cfg \in Configs,
         ~s.stopped /\ s.reordering_timer => s.rx_reord <= s.rx_next
  PROVE  LET t == ReorderingTimers(s)
         IN /\ KeepsRest(s, t) /\ EntityType(t) /\ WindowInv(t) /\ TimerInv(t)
            /\ t.rx_next = s.rx_next /\ s.rx_deliv <= t.rx_deliv
  <1> DEFINE t == ReorderingTimers(s)
  <1>1. /\ s.rx_next \in Nat /\ s.rx_deliv \in Nat /\ s.rx_reord \in Nat
        /\ s.rx_next <= MaxCount /\ s.rx_reord <= MaxCount /\ MaxCount \in Nat
        /\ s.rx_deliv <= s.rx_next /\ DOMAIN s = Fields
        /\ s.stopped \in BOOLEAN /\ s.reordering_timer \in BOOLEAN
    BY PdcpRxAssumption DEF EntityType, WindowInv
  <1>2. CASE cfg.t_reordering = "ms0"
    <2> DEFINE u == [s EXCEPT !.rx_reord = s.rx_next]
    <2>1. t = HandleTReorderingExpire(u)
      BY <1>2 DEF ReorderingTimers
    <2>2. /\ KeepsRest(s, u) /\ u.rx_next = s.rx_next /\ u.rx_deliv = s.rx_deliv
          /\ u.rx_window = s.rx_window /\ u.rx_reord = s.rx_next
          /\ u.reordering_timer = s.reordering_timer
      BY <1>1 DEF KeepsRest, Fields
    <2> HIDE DEF t, u
    <2>3. EntityType(u) /\ WindowInv(u)
      BY <1>1, <2>2 DEF EntityType, WindowInv, KeepsRest
    <2>4. /\ KeepsRest(u, t) /\ EntityType(t) /\ WindowInv(t) /\ t.rx_next = u.rx_next
          /\ u.rx_reord <= t.rx_deliv /\ ~t.reordering_timer
      BY <1>1, <1>2, <2>1, <2>2, <2>3, ExpireFields
    <2>5. TimerInv(t)
      BY <1>2, <2>4 DEF TimerInv
    <2>6. t.rx_deliv \in Nat /\ KeepsRest(s, t)
      BY <2>2, <2>4 DEF KeepsRest, EntityType
    <2> QED
      BY <1>1, <2>2, <2>4, <2>5, <2>6 DEF t
  <1>3. CASE cfg.t_reordering # "ms0"
    <2> DEFINE running == s.reordering_timer /\ s.rx_deliv < s.rx_reord
               start == cfg.t_reordering = "finite" /\ ~running /\ s.rx_deliv < s.rx_next
    <2>1. t = [s EXCEPT !.reordering_timer = running \/ start,
                        !.rx_reord = IF start THEN s.rx_next ELSE @]
      BY <1>3 DEF ReorderingTimers
    <2> HIDE DEF t
    <2>2. /\ KeepsRest(s, t) /\ t.rx_next = s.rx_next /\ t.rx_deliv = s.rx_deliv
          /\ t.rx_window = s.rx_window
          /\ t.reordering_timer = (running \/ start)
          /\ t.rx_reord = IF start THEN s.rx_next ELSE s.rx_reord
      BY <1>1, <2>1 DEF KeepsRest, Fields
    <2>3. EntityType(t)
      BY <1>1, <2>2 DEF EntityType, KeepsRest
    <2>4. WindowInv(t)
      BY <1>1, <2>2 DEF WindowInv
    <2>5. TimerInv(t)
      <3>1. t.reordering_timer <=> running \/ start
        BY <2>2
      <3>2. start => s.rx_deliv < s.rx_next /\ t.rx_reord = s.rx_next
        BY <2>2
      <3>3. ~start => t.rx_reord = s.rx_reord
        BY <2>2
      <3>4. running => s.rx_deliv < s.rx_reord /\ s.reordering_timer /\ ~start
        OBVIOUS
      <3>5. cfg.t_reordering = "finite" /\ s.rx_deliv < s.rx_next => running \/ start
        OBVIOUS
      <3> HIDE DEF running, start
      <3> QED
        BY <1>1, <2>2, <3>1, <3>2, <3>3, <3>4, <3>5 DEF TimerInv, KeepsRest
    <2> QED
      BY <1>1, <2>2, <2>3, <2>4, <2>5 DEF t
  <1> QED
    BY <1>2, <1>3

\* apply_reordering: a PDU of any COUNT below the limit leaves the window in order
\* and every gap guarded.
LEMMA ReorderingFields ==
  ASSUME NEW s, EntityType(s), WindowInv(s), TimerInv(s), cfg \in Configs,
         NEW task, task.count \in Nat, task.count < MaxCount
  PROVE  LET t == ApplyReordering(s, task)
         IN /\ KeepsRest(s, t) /\ EntityType(t) /\ WindowInv(t) /\ TimerInv(t)
            /\ t.rx_next = IF task.count >= s.rx_next THEN task.count + 1 ELSE s.rx_next
            /\ s.rx_deliv <= t.rx_deliv
  <1> DEFINE count == task.count
             window == [c \in DOMAIN s.rx_window \cup {count} |->
                          IF c = count THEN task.pdu.sdu ELSE s.rx_window[c]]
             stored == [s EXCEPT !.rx_window = window,
                                 !.rx_next = IF count >= @ THEN count + 1 ELSE @]
             u == IF count = s.rx_deliv THEN DeliverAllConsecutiveCounts(stored) ELSE stored
             t == ApplyReordering(s, task)
  <1>1. /\ s.rx_next \in Nat /\ s.rx_deliv \in Nat /\ s.rx_reord \in Nat
        /\ s.rx_next <= MaxCount /\ s.rx_reord <= MaxCount /\ MaxCount \in Nat
        /\ s.rx_deliv <= s.rx_next /\ DOMAIN s = Fields
        /\ DOMAIN s.rx_window \subseteq (s.rx_deliv + 1) .. (s.rx_next - 1)
        /\ s.stopped \in BOOLEAN /\ s.reordering_timer \in BOOLEAN
    BY PdcpRxAssumption DEF EntityType, WindowInv
  <1>2. CASE ReceivedBefore(s, count)
    <2>1. t = s
      BY <1>2 DEF ApplyReordering
    <2>2. count < s.rx_next
      BY <1>1, <1>2 DEF ReceivedBefore, Has
    <2> QED
      BY <1>1, <2>1, <2>2 DEF KeepsRest
  <1>3. CASE ~ReceivedBefore(s, count)
    <2>1. t = ReorderingTimers(u)
      BY <1>3 DEF ApplyReordering
    <2>2. count >= s.rx_deliv
      BY <1>1, <1>3 DEF ReceivedBefore
    <2>3. /\ KeepsRest(s, stored) /\ stored.rx_deliv = s.rx_deliv /\ stored.rx_reord = s.rx_reord
          /\ stored.reordering_timer = s.reordering_timer
          /\ stored.rx_next = IF count >= s.rx_next THEN count + 1 ELSE s.rx_next
          /\ stored.rx_window = window
      BY <1>1 DEF KeepsRest, Fields
    <2>4. DOMAIN stored.rx_window = DOMAIN s.rx_window \cup {count}
      BY <2>3
    <2> HIDE DEF stored
    <2>5. /\ KeepsRest(s, u) /\ u.rx_reord = s.rx_reord
          /\ u.reordering_timer = s.reordering_timer
          /\ u.rx_next = stored.rx_next /\ u.rx_deliv \in Nat
          /\ s.rx_deliv <= u.rx_deliv /\ u.rx_deliv <= u.rx_next
          /\ DOMAIN u.rx_window \subseteq (u.rx_deliv + 1) .. (u.rx_next - 1)
      <3>1. CASE count = s.rx_deliv
        <4>1. DOMAIN stored.rx_window \subseteq s.rx_deliv .. (stored.rx_next - 1)
          BY <1>1, <2>2, <2>3, <2>4
        <4> QED
          BY <1>1, <2>2, <2>3, <3>1, <4>1, ConsecutiveFields DEF KeepsRest
      <3>2. CASE count # s.rx_deliv
        BY <1>1, <2>2, <2>3, <2>4, <3>2
      <3> QED
        BY <3>1, <3>2
    <2> HIDE DEF u
    <2>6. EntityType(u) /\ WindowInv(u)
      BY <1>1, <2>3, <2>5 DEF EntityType, WindowInv, KeepsRest
    <2>7. ~u.stopped /\ u.reordering_timer => u.rx_reord <= u.rx_next
      BY <1>1, <2>3, <2>5 DEF TimerInv, KeepsRest
    <2>8. /\ KeepsRest(u, t) /\ EntityType(t) /\ WindowInv(t) /\ TimerInv(t)
          /\ t.rx_next = u.rx_next /\ u.rx_deliv <= t.rx_deliv
      BY <2>1, <2>6, <2>7, TimersFields
    <2>9. t.rx_deliv \in Nat /\ KeepsRest(s, t)
      BY <2>5, <2>8 DEF EntityType, KeepsRest
    <2> QED
      BY <1>1, <2>3, <2>5, <2>8, <2>9
  <1> QED
    BY <1>2, <1>3

-----------------------------------------------------------------------------
(* Control by the upper layer.                                             *)

\* Of the entity only these fields may change.
OnlyChanges(s, t, F) == DOMAIN t = Fields /\ \A f \in Fields \ F : t[f] = s[f]

\* The last token sets the event.
LEMMA ReturnTokenFields ==
  ASSUME NEW s, EntityType(s)
  PROVE  LET t == ReturnToken(s)
         IN /\ OnlyChanges(s, t, {"tokens", "pending_crypto"}) /\ EntityType(t)
            /\ t.tokens = s.tokens - 1
            /\ t.pending_crypto <=> s.pending_crypto \/ s.tokens = 0
  <1> DEFINE t == ReturnToken(s)
  <1>1. /\ OnlyChanges(s, t, {"tokens", "pending_crypto"})
        /\ t.tokens = s.tokens - 1
        /\ t.pending_crypto = (s.pending_crypto \/ s.tokens = 0)
    BY DEF ReturnToken, OnlyChanges, EntityType, Fields
  <1> HIDE DEF t
  <1>2. EntityType(t)
    BY <1>1 DEF EntityType, OnlyChanges, Fields
  <1> QED
    BY <1>1, <1>2 DEF t

\* The manager takes its own token.
LEMMA StartTokensFields ==
  ASSUME NEW s, EntityType(s)
  PROVE  LET t == StartTokens(s)
         IN /\ OnlyChanges(s, t, {"tokens", "pending_crypto"}) /\ EntityType(t)
            /\ t.tokens = s.tokens + 1 /\ t.pending_crypto = FALSE
  <1> DEFINE t == StartTokens(s)
  <1>1. /\ OnlyChanges(s, t, {"tokens", "pending_crypto"})
        /\ t.tokens = s.tokens + 1 /\ t.pending_crypto = FALSE /\ t.pending_crypto \in BOOLEAN
    BY DEF StartTokens, IncrementToken, OnlyChanges, EntityType, Fields
  <1> HIDE DEF t
  <1>2. EntityType(t)
    BY <1>1 DEF EntityType, OnlyChanges, Fields
  <1> QED
    BY <1>1, <1>2 DEF t

\* Before the routine waits, PDUs are buffered and the manager gives its token back.
LEMMA AwaitFields ==
  ASSUME NEW s, EntityType(s)
  PROVE  LET t == Await(s)
         IN /\ OnlyChanges(s, t, {"tokens", "pending_crypto", "buffering"}) /\ EntityType(t)
            /\ t.tokens = s.tokens - 1 /\ t.buffering = TRUE
            /\ t.pending_crypto <=> s.pending_crypto \/ s.tokens = 0
  <1> DEFINE b == [s EXCEPT !.buffering = TRUE]
  <1>1. OnlyChanges(s, b, {"buffering"}) /\ b.buffering = TRUE
    BY DEF OnlyChanges, EntityType, Fields
  <1> HIDE DEF b
  <1>2. EntityType(b)
    BY <1>1 DEF EntityType, OnlyChanges, Fields
  <1>3. Await(s) = ReturnToken(b)
    BY DEF Await, b
  <1> QED
    BY <1>1, <1>2, <1>3, ReturnTokenFields DEF OnlyChanges, Fields

\* Delivering all SDUs and resetting the state leaves an empty window and no timer.
LEMMA RestartFields ==
  ASSUME NEW s, EntityType(s), WindowInv(s)
  PROVE  LET t == ResetState(DeliverAllSdus([s EXCEPT !.reordering_timer = FALSE]))
         IN /\ KeepsRest(s, t) /\ EntityType(t) /\ WindowInv(t) /\ TimerInv(t)
            /\ t.rx_next = 0 /\ t.rx_deliv = 0 /\ t.reordering_timer = FALSE
  <1> DEFINE off == [s EXCEPT !.reordering_timer = FALSE]
             d == Deliver(off, off.rx_deliv .. (off.rx_next - 1))
             t == ResetState(d)
  <1>1. /\ s.rx_next \in Nat /\ s.rx_deliv \in Nat /\ DOMAIN s = Fields /\ MaxCount \in Nat
        /\ DOMAIN s.rx_window \subseteq (s.rx_deliv + 1) .. (s.rx_next - 1)
    BY PdcpRxAssumption DEF EntityType, WindowInv
  <1>2. /\ KeepsRest(s, off) /\ off.rx_next = s.rx_next /\ off.rx_deliv = s.rx_deliv
        /\ off.rx_window = s.rx_window /\ off.reordering_timer = FALSE /\ DOMAIN off = Fields
    BY <1>1 DEF KeepsRest, Fields
  <1> HIDE DEF off
  <1>3. /\ KeepsRest(off, d) /\ d.reordering_timer = off.reordering_timer
        /\ DOMAIN d.rx_window = DOMAIN off.rx_window \ (off.rx_deliv .. (off.rx_next - 1))
    BY <1>2, DeliverFields
  <1> HIDE DEF d
  <1>4. DOMAIN d.rx_window = {}
    BY <1>1, <1>2, <1>3
  <1>5. /\ KeepsRest(d, t) /\ t.rx_window = d.rx_window /\ t.rx_next = 0 /\ t.rx_deliv = 0
        /\ t.rx_reord = 0 /\ t.reordering_timer = FALSE /\ t.reordering_timer \in BOOLEAN
    BY <1>2, <1>3 DEF ResetState, KeepsRest, Fields
  <1> HIDE DEF t
  <1>6. KeepsRest(s, t)
    BY <1>2, <1>3, <1>5 DEF KeepsRest
  <1>7. EntityType(t)
    BY <1>5, <1>6 DEF EntityType, KeepsRest
  <1>8. WindowInv(t) /\ TimerInv(t)
    BY <1>1, <1>4, <1>5 DEF WindowInv, TimerInv
  <1> QED
    BY <1>5, <1>6, <1>7, <1>8 DEF t, d, off, DeliverAllSdus

\* What is in a buffer of PDUs is finite.
LEMMA BufferIsFinite ==
  ASSUME NEW buffer \in Seq(Pdus)
  PROVE  /\ Range(buffer) \subseteq Pdus /\ IsFiniteSet(Range(buffer))
         /\ \A S \in SUBSET Range(buffer) : Cardinality(S) \in Nat
  <1>1. Range(buffer) = {buffer[i] : i \in 1 .. Len(buffer)}
    BY DEF Range
  <1>2. IsFiniteSet(1 .. Len(buffer))
    BY FS_Interval
  <1> DEFINE f == [i \in 1 .. Len(buffer) |-> buffer[i]]
  <1>3. f \in Surjection(1 .. Len(buffer), Range(buffer))
    BY <1>1 DEF Surjection
  <1> HIDE DEF f
  <1>4. IsFiniteSet(Range(buffer))
    BY <1>2, <1>3, FS_Surjection
  <1> QED
    BY <1>1, <1>4, FS_Subset, FS_CardinalityType

\* end_buffering: tasks for PDUs of the buffer, each with a token.
LEMMA EndBufferingFields ==
  ASSUME NEW s, EntityType(s), ~s.stopped, s.crypto = {}, NEW refused
  PROVE  LET t == EndBuffering(s, refused)
         IN /\ OnlyChanges(s, t, {"tokens", "crypto", "buffering", "pdu_buffer",
                                  "resume_requested"})
            /\ EntityType(t) /\ t.pdu_buffer = <<>> /\ t.buffering = FALSE
            /\ t.tokens = s.tokens + Cardinality(t.crypto)
            /\ \A task \in t.crypto : task.count < MaxCount /\ task.pdu \in Range(s.pdu_buffer)
  <1> DEFINE open == [s EXCEPT !.buffering = FALSE, !.pdu_buffer = <<>>]
             found == {DataPduTask(s, pdu) : pdu \in Range(s.pdu_buffer) \ refused}
             tasks == {task \in found : task.count < MaxCount}
             t == EndBuffering(s, refused)
  <1>1. t = [open EXCEPT !.crypto = @ \cup tasks, !.tokens = @ + Cardinality(tasks),
               !.resume_requested = @ \/ (s.suspended /\ s.pdu_buffer # <<>>)]
    BY DEF EndBuffering
  <1>2. s.pdu_buffer \in Seq(Pdus) /\ s.rx_deliv \in Nat /\ DOMAIN s = Fields /\ s.tokens \in Int
    BY DEF EntityType
  <1>3. Range(s.pdu_buffer) \subseteq Pdus /\ IsFiniteSet(Range(s.pdu_buffer))
    BY <1>2, BufferIsFinite
  <1>4. IsFiniteSet(found)
    <2> DEFINE S == Range(s.pdu_buffer) \ refused
               f == [pdu \in S |-> DataPduTask(s, pdu)]
    <2>1. IsFiniteSet(S)
      BY <1>3, FS_Difference
    <2>2. f \in Surjection(S, found)
      BY DEF Surjection
    <2> HIDE DEF f, S
    <2> QED
      BY <2>1, <2>2, FS_Surjection
  <1>5. IsFiniteSet(tasks)
    BY <1>4, FS_Subset
  <1>6. ASSUME NEW task \in tasks
        PROVE  task \in Tasks /\ task.count < MaxCount /\ task.pdu \in Range(s.pdu_buffer)
    <2>1. PICK pdu \in Range(s.pdu_buffer) : task = DataPduTask(s, pdu)
      OBVIOUS
    <2>2. pdu \in Pdus /\ pdu.count \in Nat
      BY <1>3 DEF Pdus
    <2>3. CountEstimation(s.rx_deliv, SN(pdu.count)) \in Nat
      BY <1>2, <2>2, CountIsNat
    <2> QED
      BY <2>1, <2>2, <2>3 DEF DataPduTask, Tasks
  <1>7. Cardinality(tasks) \in Nat
    BY <1>5, FS_CardinalityType
  <1> HIDE DEF t, tasks, found
  <1>8. /\ OnlyChanges(s, t, {"tokens", "crypto", "buffering", "pdu_buffer", "resume_requested"})
        /\ t.pdu_buffer = <<>> /\ t.buffering = FALSE /\ t.buffering \in BOOLEAN
        /\ t.tokens = s.tokens + Cardinality(tasks) /\ t.crypto = tasks
    BY <1>1, <1>2 DEF OnlyChanges, Fields
  <1>9. EntityType(t)
    BY <1>2, <1>5, <1>6, <1>7, <1>8 DEF EntityType, OnlyChanges, Fields
  <1> QED
    BY <1>6, <1>8, <1>9 DEF t

-----------------------------------------------------------------------------
(* The invariant holds initially and is kept by the UE and the link.       *)

\* A new entity.
LEMMA InvInit == Init => IInv
  <1> SUFFICES ASSUME Init PROVE IInv
    OBVIOUS
  <1> DEFINE first == IF bearer = "handover" THEN 0 ELSE InitCount
             next == IF bearer = "handover" THEN HandedOver ELSE InitCount
  <1>1. /\ InitCount \in Nat /\ InitCount <= MaxCount /\ MaxCount \in Nat /\ MaxKeys \in Nat \ {0}
        /\ MaxCount < CountModulus - 1 /\ CountModulus \in Nat
    BY PdcpRxAssumption, PdcpBaseAssumption
  <1>2. /\ first \in Nat /\ first <= MaxCount /\ next \in Nat /\ next <= MaxCount
        /\ bearer \in {"active", "handover"} /\ (Joined => first = next)
    <2>1. cfg \in Configs /\ bearer \in Starts[cfg]
      BY DEF Init
    <2>2. bearer \in {"active", "handover"}
      BY <2>1, PdcpRxAssumption
    <2> QED
      BY <1>1, <2>2 DEF HandedOver, Joined
  <1>3. /\ DOMAIN e = Fields /\ e.rx_next = first /\ e.rx_deliv = first
        /\ e.rx_reord = first /\ DOMAIN e.rx_window = {} /\ ~e.reordering_timer
        /\ e.key = 1 /\ e.tokens = 0 /\ ~e.pending_crypto /\ ~e.buffering
        /\ e.pdu_buffer = <<>> /\ ~e.suspended /\ ~e.stopped /\ e.crypto = {}
    BY DEF Init, Fields
  <1>4. /\ e.reordering_timer \in BOOLEAN /\ e.pending_crypto \in BOOLEAN
        /\ e.buffering \in BOOLEAN /\ e.suspended \in BOOLEAN /\ e.stopped \in BOOLEAN
    BY DEF Init
  <1>5. IsFiniteSet({}) /\ Cardinality({}) = 0
    BY FS_EmptySet
  <1>6. /\ queue = <<>> /\ air = {} /\ routine = Idle /\ faults = 0
        /\ cfg \in Configs
        /\ ue = [next |-> next, key |-> 1, sent |-> <<>>, sdus |-> 0, change |-> "none"]
    BY DEF Init
  <1> HIDE DEF first, next
  <1>7. EntityType(e)
    BY <1>1, <1>2, <1>3, <1>4, <1>5 DEF EntityType
  <1>8. Types
    BY <1>2, <1>6, <1>7 DEF Types, Idle, Changes, UeType, UeFields
  <1>9. WindowInv(e) /\ TimerInv(e) /\ e.rx_next - e.rx_deliv <= WindowSize
    BY <1>1, <1>2, <1>3, WindowIsHalf DEF WindowInv, TimerInv
  <1>10. TokenInv
    BY <1>3, <1>5, <1>6 DEF TokenInv, OwnToken, Drained
  <1>11. ControlInv
    BY <1>2, <1>3, <1>6 DEF ControlInv, Parked, Idle
  <1>12. UnderWay = {} /\ Range(e.pdu_buffer) = {} /\ DOMAIN queue = {}
    BY <1>3, <1>6 DEF UnderWay, Range
  <1>13. ue.next = next /\ ue.key = 1 /\ ue.change = "none" /\ DOMAIN ue.sent = {}
    BY <1>6
  <1>14. KeyInv
    BY <1>1, <1>3, <1>6, <1>12, <1>13 DEF KeyInv, Idle
  <1>15. CountInv
    BY <1>1, <1>2, <1>3, <1>6, <1>12, <1>13, WindowIsHalf DEF CountInv
  <1> QED
    BY <1>8, <1>9, <1>10, <1>11, <1>14, <1>15 DEF IInv

\* What is under way are tasks.
LEMMA UnderWayTypes ==
  ASSUME Types
  PROVE  \A task \in UnderWay : task \in Tasks
  <1>1. e.crypto \subseteq Tasks /\ queue \in Seq(Results)
    BY DEF Types, EntityType
  <1>2. \A i \in DOMAIN queue : queue[i] \in Results
    BY <1>1
  <1> QED
    BY <1>1, <1>2 DEF UnderWay, Results

\* The UE sends within a window of RX_DELIV.
LEMMA UeSendKeeps ==
  ASSUME IInv, bearer # "handover", UeSend
  PROVE  IInv'
  <1> DEFINE sdu == ue.sdus + 1
             lost == {pdu \in air : pdu.key = ue.key /\ pdu.count <= ue.next - WindowSize}
             new == [count |-> ue.next, key |-> ue.key, sdu |-> sdu, copy |-> 0]
             record == [count |-> ue.next, sdu |-> sdu]
  <1>1. /\ UNCHANGED <<cfg, e, queue, routine, bearer, faults>>
        /\ ue.change = "reset" \/ ue.next < e.rx_deliv + WindowSize
        /\ ue.next < CountModulus /\ Joined
        /\ air' = (air \ lost) \cup {new}
        /\ ue' = [ue EXCEPT !.next = @ + 1, !.sdus = sdu, !.sent = Append(@, record)]
    BY DEF UeSend, Running, Joined
  <1>2. /\ UeType(ue) /\ ue.next \in Nat /\ ue.key \in Nat /\ ue.sdus \in Nat
        /\ ue.sent \in Seq(Sdus)
        /\ air \subseteq Pdus /\ EntityType(e) /\ e.rx_deliv \in Nat /\ e.rx_next \in Nat
    BY DEF IInv, Types, EntityType, UeType
  <1>3. WindowSize \in Nat /\ CountModulus \in Nat
    BY WindowIsHalf, PdcpBaseAssumption
  <1>4. /\ ue'.next = ue.next + 1 /\ ue'.key = ue.key /\ ue'.change = ue.change
        /\ ue'.sent = Append(ue.sent, record)
    BY <1>1, <1>2 DEF UeType, UeFields
  <1>5. new \in Pdus /\ record \in Sdus
    BY <1>2 DEF Pdus, Sdus
  <1> HIDE DEF record
  <1>6. Types'
    <2>1. Append(ue.sent, record) \in Seq(Sdus)
      BY <1>2, <1>5, AppendProperties
    <2>2. UeType(ue')
      BY <1>1, <1>2, <1>4, <2>1 DEF UeType, UeFields
    <2>3. air' \in SUBSET Pdus
      BY <1>1, <1>2, <1>5
    <2> QED
      BY <1>1, <2>2, <2>3 DEF IInv, Types
  <1>7. /\ WindowInv(e)' /\ (e.rx_next - e.rx_deliv <= WindowSize)' /\ TimerInv(e)'
        /\ TokenInv' /\ ControlInv'
    BY <1>1, <1>4 DEF IInv, WindowInv, TimerInv, TokenInv, ControlInv, OwnToken, Drained, Parked
  <1>8. KeyInv'
    <2>1. \A pdu \in air : pdu.key <= ue.key
      BY DEF IInv, KeyInv
    <2>2. new.key <= ue.key
      BY <1>2
    <2>3. \A pdu \in air' : pdu.key <= ue.key
      BY <1>1, <2>1, <2>2
    <2> QED
      BY <1>1, <1>4, <2>3 DEF IInv, KeyInv, UnderWay
  <1>9. CountInv'
    <2>1. ue'.next <= CountModulus
      BY <1>1, <1>2, <1>3, <1>4
    <2>2. ASSUME NEW i \in DOMAIN ue'.sent
          PROVE  ue'.sent[i].count < ue'.next
      <3>1. /\ DOMAIN ue'.sent = 1 .. (Len(ue.sent) + 1)
            /\ Append(ue.sent, record)[Len(ue.sent) + 1] = record
            /\ \A j \in 1 .. Len(ue.sent) : Append(ue.sent, record)[j] = ue.sent[j]
        BY <1>2, <1>4, <1>5
      <3>2. CASE i \in 1 .. Len(ue.sent)
        <4>1. ue.sent[i] \in Sdus
          BY <1>2, <3>2
        <4>2. i \in DOMAIN ue.sent
          BY <1>2, <3>2
        <4>3. ue.sent[i].count < ue.next
          BY <4>2 DEF IInv, CountInv
        <4>4. ue'.sent[i] = ue.sent[i] /\ ue.sent[i].count \in Nat
          BY <1>4, <3>1, <3>2, <4>1 DEF Sdus
        <4> QED
          BY <1>2, <1>4, <4>3, <4>4
      <3>3. CASE i = Len(ue.sent) + 1
        <4>1. ue'.sent[i] = record /\ record.count = ue.next
          BY <1>4, <3>1, <3>3 DEF record
        <4> QED
          BY <1>2, <1>4, <4>1
      <3> QED
        BY <1>2, <2>2, <3>1, <3>2, <3>3
    <2>3. ASSUME NEW pdu \in air', pdu.key = ue.key
          PROVE  ue'.next <= pdu.count + WindowSize /\ pdu.count < ue'.next
      <3>1. CASE pdu = new
        BY <1>2, <1>3, <1>4, <3>1, WindowIsHalf
      <3>2. CASE pdu \in air \ lost
        <4>1. /\ pdu.count \in Nat /\ pdu.count < ue.next
              /\ ~(pdu.count <= ue.next - WindowSize)
          BY <1>2, <2>3, <3>2 DEF Pdus, IInv, CountInv
        <4> QED
          BY <1>2, <1>3, <1>4, <4>1
      <3> QED
        BY <1>1, <3>1, <3>2
    <2>4. \A task \in UnderWay : task.pdu.key = e.key => task.count < ue'.next
      <3>1. \A task \in UnderWay : task.count \in Nat
        BY UnderWayTypes DEF IInv, Tasks
      <3>2. \A task \in UnderWay : task.pdu.key = e.key => task.count < ue.next
        BY DEF IInv, CountInv
      <3> QED
        BY <1>2, <1>4, <3>1, <3>2
    <2>5. ~Parked /\ ue.change # "reset" =>
            e.rx_next <= ue'.next /\ ue'.next <= e.rx_deliv + WindowSize
      BY <1>1, <1>2, <1>3, <1>4 DEF IInv, CountInv
    <2> QED
      BY <1>1, <1>4, <2>1, <2>2, <2>3, <2>4, <2>5 DEF IInv, CountInv, UnderWay, Parked, Joined
  <1> QED
    BY <1>6, <1>7, <1>8, <1>9 DEF IInv

\* The UE takes the key that the CU-UP has taken before.
LEMMA UeSwitchKeeps ==
  ASSUME IInv, bearer # "handover", UeSwitch
  PROVE  IInv'
  <1>1. PICK keep \in 0 .. Len(ue.sent) :
          LET again == {ue.sent[i] : i \in (keep + 1) .. Len(ue.sent)}
          IN /\ ue.change # "resend" => keep = Len(ue.sent)
             /\ \A m \in again : m.count > ue.next - WindowSize
             /\ air' = air \cup {[count |-> m.count, key |-> ue.key + 1, sdu |-> m.sdu,
                                  copy |-> 0] : m \in again}
    BY DEF UeSwitch
  <1> DEFINE again == {ue.sent[i] : i \in (keep + 1) .. Len(ue.sent)}
             new == {[count |-> m.count, key |-> ue.key + 1, sdu |-> m.sdu, copy |-> 0]
                        : m \in again}
  <1>2. /\ UNCHANGED <<cfg, e, queue, routine, bearer, faults>> /\ ue.change # "none"
        /\ ue' = [ue EXCEPT !.key = @ + 1, !.change = "none",
                            !.next = IF ue.change = "reset" THEN 0 ELSE @,
                            !.sent = IF ue.change = "reset" THEN <<>> ELSE @]
    BY DEF UeSwitch
  <1>3. /\ UeType(ue) /\ ue.next \in Nat /\ ue.key \in Nat /\ ue.sent \in Seq(Sdus)
        /\ air \subseteq Pdus /\ e.rx_deliv \in Nat /\ e.rx_next \in Nat
        /\ WindowSize \in Nat \ {0} /\ CountModulus \in Nat
    BY WindowIsHalf, PdcpBaseAssumption DEF IInv, Types, EntityType, UeType
  <1>4. /\ ue'.key = ue.key + 1 /\ ue'.change = "none"
        /\ ue'.next = IF ue.change = "reset" THEN 0 ELSE ue.next
        /\ ue'.sent = IF ue.change = "reset" THEN <<>> ELSE ue.sent
        /\ ue'.sdus = ue.sdus /\ DOMAIN ue' = UeFields
    BY <1>2, <1>3 DEF UeType, UeFields
  <1>5. ASSUME NEW m \in again
        PROVE  /\ m \in Sdus /\ m.count \in Nat /\ m.sdu \in Nat
               /\ m.count < ue.next /\ m.count > ue.next - WindowSize /\ ue.change = "resend"
    <2>1. PICK i \in (keep + 1) .. Len(ue.sent) : m = ue.sent[i]
      OBVIOUS
    <2>2. i \in DOMAIN ue.sent /\ keep # Len(ue.sent)
      BY <1>3, <2>1
    <2>3. m \in Sdus /\ m.count < ue.next
      BY <1>3, <2>1, <2>2 DEF IInv, CountInv
    <2> QED
      BY <1>1, <2>2, <2>3 DEF Sdus
  <1> HIDE DEF again
  <1>6. ASSUME NEW pdu \in new
        PROVE  /\ pdu \in Pdus /\ pdu.key = ue.key + 1 /\ pdu.count \in Nat
               /\ pdu.count < ue.next /\ pdu.count > ue.next - WindowSize /\ ue.change = "resend"
    BY <1>3, <1>5 DEF Pdus
  <1>7. air' = air \cup new
    BY <1>1 DEF again
  <1> HIDE DEF new
  <1>8. Types'
    <2>1. UeType(ue')
      BY <1>3, <1>4 DEF UeType, Changes
    <2>2. air' \in SUBSET Pdus
      BY <1>3, <1>6, <1>7
    <2> QED
      BY <1>2, <2>1, <2>2 DEF IInv, Types
  <1>9. /\ WindowInv(e)' /\ (e.rx_next - e.rx_deliv <= WindowSize)' /\ TimerInv(e)' /\ TokenInv'
    BY <1>2 DEF IInv, WindowInv, TimerInv, TokenInv, OwnToken, Drained
  <1>10. ControlInv'
    BY <1>2, <1>4 DEF IInv, ControlInv, Drained, Parked
  <1>11. \A pdu \in air : pdu.key \in Nat /\ pdu.key <= ue.key
    BY <1>3 DEF Pdus, IInv, KeyInv
  <1>12. \A task \in UnderWay : task.pdu.key \in Nat /\ task.pdu.key <= ue.key
    BY UnderWayTypes DEF IInv, KeyInv, Tasks, Pdus
  <1>13. KeyInv'
    <2>1. \A pdu \in Range(e.pdu_buffer) : pdu.key <= ue'.key
      <3>1. e.pdu_buffer \in Seq(Pdus)
        BY DEF IInv, Types, EntityType
      <3>2. \A pdu \in Range(e.pdu_buffer) : pdu \in Pdus
        BY <3>1 DEF Range
      <3>3. \A pdu \in Range(e.pdu_buffer) : pdu.key \in Nat /\ pdu.key <= ue.key
        BY <3>2 DEF Pdus, IInv, KeyInv
      <3> QED
        BY <1>3, <1>4, <3>3
    <2>2. \A pdu \in air' : pdu.key <= ue'.key
      BY <1>3, <1>4, <1>6, <1>7, <1>11
    <2>3. \A task \in UnderWay : task.pdu.key <= ue'.key
      BY <1>3, <1>4, <1>12
    <2>4. ue'.key = e.key
      BY <1>2, <1>4 DEF IInv, KeyInv
    <2> QED
      BY <1>2, <1>4, <2>1, <2>2, <2>3, <2>4 DEF IInv, KeyInv, UnderWay
  <1>14. CountInv'
    <2>1. ue'.next <= CountModulus
      BY <1>3, <1>4 DEF IInv, CountInv
    <2>2. \A i \in DOMAIN ue'.sent : ue'.sent[i].count < ue'.next
      BY <1>4 DEF IInv, CountInv
    <2>3. ASSUME NEW pdu \in air', pdu.key = ue'.key
          PROVE  ue'.next <= pdu.count + WindowSize /\ pdu.count < ue'.next
      <3>1. pdu \in new
        BY <1>3, <1>4, <1>7, <1>11, <2>3
      <3> QED
        BY <1>3, <1>4, <1>6, <3>1
    <2>4. \A task \in UnderWay : task.pdu.key # e.key
      BY <1>2, <1>3, <1>4, <1>12 DEF IInv, KeyInv
    <2>5. Joined /\ ~Parked => e.rx_next <= ue'.next /\ ue'.next <= e.rx_deliv + WindowSize
      <3>1. CASE ue.change = "reset"
        <4>1. e.rx_next = 0 /\ e.rx_deliv = 0
          BY <3>1 DEF IInv, ControlInv
        <4> QED
          BY <1>3, <1>4, <3>1, <4>1
      <3>2. CASE ue.change # "reset"
        BY <1>4, <3>2 DEF IInv, CountInv
      <3> QED
        BY <3>1, <3>2
    <2> QED
      BY <1>2, <1>4, <2>1, <2>2, <2>3, <2>4, <2>5 DEF IInv, CountInv, UnderWay, Parked, Joined
  <1> QED
    BY <1>8, <1>9, <1>10, <1>13, <1>14 DEF IInv

-----------------------------------------------------------------------------
(* The entity.                                                             *)

\* handle_pdu drops a PDU, buffers it, gives it to a worker, or takes its token back.
LEMMA HandlePduFields ==
  ASSUME NEW s, EntityType(s), NEW pdu \in Pdus, NEW refused \in BOOLEAN
  PROVE  LET t == HandlePdu(s, pdu, refused)
             task == DataPduTask(s, pdu)
         IN /\ OnlyChanges(s, t, {"resume_requested", "pdu_buffer", "tokens", "crypto",
                                  "pending_crypto"})
            /\ EntityType(t) /\ task \in Tasks
            /\ \/ /\ t.pdu_buffer \in {s.pdu_buffer, Append(s.pdu_buffer, pdu)}
                  /\ t.tokens = s.tokens /\ t.crypto = s.crypto
                  /\ t.pending_crypto = s.pending_crypto
               \/ /\ ~s.stopped /\ ~s.buffering /\ task.count < MaxCount
                  /\ t.tokens = s.tokens + 1 /\ t.crypto = s.crypto \cup {task}
                  /\ t.pending_crypto = s.pending_crypto /\ t.pdu_buffer = s.pdu_buffer
               \/ /\ ~s.stopped /\ ~s.buffering
                  /\ t.tokens = s.tokens /\ t.crypto = s.crypto
                  /\ t.pending_crypto <=> s.pending_crypto \/ s.tokens + 1 = 0
                  /\ t.pdu_buffer = s.pdu_buffer
  <1> DEFINE awake == [s EXCEPT !.resume_requested = @ \/ s.suspended]
             task == DataPduTask(s, pdu)
             t == HandlePdu(s, pdu, refused)
             F == {"resume_requested", "pdu_buffer", "tokens", "crypto", "pending_crypto"}
  <1>1. /\ DOMAIN s = Fields /\ s.tokens \in Int /\ s.pdu_buffer \in Seq(Pdus)
        /\ s.crypto \subseteq Tasks /\ IsFiniteSet(s.crypto) /\ s.rx_deliv \in Nat
        /\ s.stopped \in BOOLEAN /\ s.buffering \in BOOLEAN /\ s.pending_crypto \in BOOLEAN
    BY DEF EntityType
  <1>2. task \in Tasks /\ task.count \in Nat
    BY <1>1, CountIsNat DEF DataPduTask, Tasks, Pdus
  <1>3. OnlyChanges(s, awake, {"resume_requested"})
    BY <1>1 DEF OnlyChanges, Fields
  <1>4. /\ s.stopped => t = s
        /\ ~s.stopped /\ s.buffering =>
             t \in {awake, [awake EXCEPT !.pdu_buffer = Append(@, pdu)]}
        /\ ~s.stopped /\ ~s.buffering /\ task.count >= MaxCount => t = awake
        /\ ~s.stopped /\ ~s.buffering /\ ~(task.count >= MaxCount) => t = Decrypt(awake, task, refused)
    BY <1>1 DEF HandlePdu
  <1> HIDE DEF awake, t, task
  <1>5. CASE t \in {s, awake}
    <2>1. /\ OnlyChanges(s, t, F) /\ t.pdu_buffer = s.pdu_buffer /\ t.tokens = s.tokens
          /\ t.crypto = s.crypto /\ t.pending_crypto = s.pending_crypto
      BY <1>1, <1>3, <1>5 DEF OnlyChanges, Fields
    <2>2. EntityType(t)
      BY <2>1 DEF EntityType, OnlyChanges, Fields
    <2> QED
      BY <1>2, <2>1, <2>2 DEF t, task
  <1>6. CASE t = [awake EXCEPT !.pdu_buffer = Append(@, pdu)]
    <2>1. /\ OnlyChanges(s, t, F) /\ t.pdu_buffer = Append(s.pdu_buffer, pdu)
          /\ t.tokens = s.tokens
          /\ t.crypto = s.crypto /\ t.pending_crypto = s.pending_crypto
      BY <1>1, <1>3, <1>6 DEF OnlyChanges, Fields
    <2>2. Append(s.pdu_buffer, pdu) \in Seq(Pdus)
      BY <1>1, AppendProperties
    <2>3. EntityType(t)
      BY <2>1, <2>2 DEF EntityType, OnlyChanges, Fields
    <2> QED
      BY <1>2, <2>1, <2>3 DEF t, task
  <1>7. CASE /\ ~s.stopped /\ ~s.buffering /\ ~(task.count >= MaxCount)
             /\ t = Decrypt(awake, task, refused)
    <2> DEFINE inc == IncrementToken(awake)
    <2>1. /\ OnlyChanges(s, inc, {"resume_requested", "tokens"}) /\ inc.tokens = s.tokens + 1
          /\ inc.crypto = s.crypto
      BY <1>1, <1>3 DEF IncrementToken, OnlyChanges, Fields
    <2>2. MaxCount \in Nat
      BY PdcpRxAssumption
    <2>3. t = IF refused THEN ReturnToken(inc) ELSE [inc EXCEPT !.crypto = @ \cup {task}]
      BY <1>7 DEF Decrypt
    <2> HIDE DEF inc
    <2>4. CASE refused
      <3>1. EntityType(inc)
        BY <1>1, <2>1 DEF EntityType, OnlyChanges, Fields
      <3>2. /\ OnlyChanges(inc, t, {"tokens", "pending_crypto"}) /\ EntityType(t)
            /\ t.tokens = inc.tokens - 1
            /\ t.pending_crypto <=> inc.pending_crypto \/ inc.tokens = 0
        BY <2>3, <2>4, <3>1, ReturnTokenFields
      <3>3. /\ OnlyChanges(s, t, F) /\ t.tokens = s.tokens /\ t.crypto = s.crypto
            /\ t.pdu_buffer = s.pdu_buffer /\ inc.pending_crypto = s.pending_crypto
        BY <1>1, <2>1, <3>2 DEF OnlyChanges, Fields
      <3> QED
        BY <1>2, <1>7, <2>1, <3>2, <3>3 DEF t, task
    <2>5. CASE ~refused
      <3>1. t = [inc EXCEPT !.crypto = @ \cup {task}]
        BY <2>3, <2>5
      <3>2. /\ OnlyChanges(s, t, F) /\ t.tokens = s.tokens + 1 /\ t.crypto = s.crypto \cup {task}
            /\ t.pending_crypto = s.pending_crypto /\ t.pdu_buffer = s.pdu_buffer
        BY <1>1, <2>1, <3>1 DEF OnlyChanges, Fields
      <3>3. IsFiniteSet(s.crypto \cup {task})
        BY <1>1, FS_AddElement
      <3>4. EntityType(t)
        BY <1>1, <1>2, <3>2, <3>3 DEF EntityType, OnlyChanges, Fields
      <3> QED
        BY <1>2, <1>7, <2>2, <3>2, <3>4 DEF t, task
    <2> QED
      BY <2>4, <2>5
  <1> QED
    BY <1>1, <1>4, <1>5, <1>6, <1>7

\* While PDUs are neither ignored nor buffered no routine waits and nothing is parked.
LEMMA OpenIsIdle ==
  ASSUME IInv, Running, bearer # "handover", ~e.stopped, ~e.buffering
  PROVE  routine = Idle /\ ~Parked /\ Joined
  <1>1. routine.step \notin {"release", "suspend", "rekey"}
    BY DEF IInv, ControlInv
  <1>2. routine \in [step : {"idle", "suspend", "release"}]
                      \cup [step : {"rekey"}, reest : BOOLEAN, resumed : BOOLEAN]
    BY DEF IInv, Types
  <1>3. routine = Idle
    BY <1>1, <1>2 DEF Idle
  <1>4. bearer = "active"
    BY DEF IInv, Types, ControlInv, Running
  <1> QED
    BY <1>1, <1>3, <1>4 DEF IInv, ControlInv, Parked, Joined

\* A PDU of the present key gets the COUNT it was protected with.
LEMMA TaskHasCount ==
  ASSUME IInv, Running, bearer # "handover", ~e.stopped, ~e.buffering, NEW pdu \in air, pdu.key = e.key
  PROVE  DataPduTask(e, pdu).count = pdu.count /\ pdu.count < ue.next
  <1>1. /\ pdu.count \in Nat /\ pdu.key \in Nat /\ ue.key \in Nat /\ ue.next \in Nat
        /\ e.rx_deliv \in Nat /\ e.rx_next \in Nat /\ ue.change \in Changes
        /\ WindowSize \in Nat /\ CountModulus \in Nat
    BY WindowIsHalf, PdcpBaseAssumption DEF IInv, Types, EntityType, UeType, Pdus
  <1>2. pdu.key <= ue.key /\ ue.key = e.key /\ ue.change = "none"
    <2>1. pdu.key <= ue.key
      BY DEF IInv, KeyInv
    <2>2. (ue.change = "none" => ue.key = e.key) /\ (ue.change # "none" => ue.key + 1 = e.key)
      BY DEF IInv, KeyInv
    <2> QED
      BY <1>1, <2>1, <2>2
  <1>3. /\ ue.next <= pdu.count + WindowSize /\ pdu.count < ue.next /\ ue.next <= CountModulus
        /\ e.rx_next <= ue.next /\ ue.next <= e.rx_deliv + WindowSize
    BY <1>2, OpenIsIdle DEF IInv, CountInv
  <1>4. e.rx_deliv <= e.rx_next
    BY DEF IInv, WindowInv
  <1>5. CountEstimation(e.rx_deliv, SN(pdu.count)) = pdu.count
    BY <1>1, <1>3, <1>4, CountFromSn
  <1> QED
    BY <1>3, <1>5 DEF DataPduTask

\* A PDU arrives.
LEMMA PduArrivesKeeps ==
  ASSUME IInv, bearer # "handover", PduArrives
  PROVE  IInv'
  <1>1. PICK pdu \in air, refused \in BOOLEAN, again \in BOOLEAN :
          /\ e' = HandlePdu(e, pdu, refused)
          /\ Fault((IF refused THEN 1 ELSE 0) + (IF again THEN 1 ELSE 0))
          /\ air' = (air \ {pdu}) \cup (IF again THEN {[pdu EXCEPT !.copy = faults']} ELSE {})
    BY DEF PduArrives
  <1>2. Running /\ UNCHANGED <<cfg, queue, ue, routine, bearer>>
    BY DEF PduArrives
  <1> DEFINE task == DataPduTask(e, pdu)
             F == {"resume_requested", "pdu_buffer", "tokens", "crypto", "pending_crypto"}
  <1>3. /\ Types /\ EntityType(e) /\ air \subseteq Pdus /\ pdu \in Pdus /\ faults \in Nat
        /\ e.tokens \in Int /\ e.pdu_buffer \in Seq(Pdus) /\ queue \in Seq(Results)
        /\ IsFiniteSet(e.crypto) /\ ue.key \in Nat
    BY DEF IInv, Types, EntityType, UeType
  <1>4. /\ OnlyChanges(e, e', F) /\ EntityType(e') /\ task \in Tasks
        /\ \/ /\ e'.pdu_buffer \in {e.pdu_buffer, Append(e.pdu_buffer, pdu)}
              /\ e'.tokens = e.tokens /\ e'.crypto = e.crypto
              /\ e'.pending_crypto = e.pending_crypto
           \/ /\ ~e.stopped /\ ~e.buffering /\ task.count < MaxCount
              /\ e'.tokens = e.tokens + 1 /\ e'.crypto = e.crypto \cup {task}
              /\ e'.pending_crypto = e.pending_crypto /\ e'.pdu_buffer = e.pdu_buffer
           \/ /\ ~e.stopped /\ ~e.buffering
              /\ e'.tokens = e.tokens /\ e'.crypto = e.crypto
              /\ e'.pending_crypto <=> e.pending_crypto \/ e.tokens + 1 = 0
              /\ e'.pdu_buffer = e.pdu_buffer
    <2>1. e' = HandlePdu(e, pdu, refused) /\ EntityType(e) /\ pdu \in Pdus /\ refused \in BOOLEAN
      BY <1>1, <1>3
    <2> QED
      BY <2>1, HandlePduFields
  <1>5. /\ e'.rx_next = e.rx_next /\ e'.rx_deliv = e.rx_deliv /\ e'.rx_reord = e.rx_reord
        /\ e'.rx_window = e.rx_window /\ e'.reordering_timer = e.reordering_timer
        /\ e'.key = e.key /\ e'.stopped = e.stopped /\ e'.buffering = e.buffering
        /\ e'.suspended = e.suspended
    BY <1>4 DEF OnlyChanges, Fields
  <1>6. faults' \in Nat
    BY <1>1, <1>3 DEF Fault
  <1>7. ASSUME NEW p \in air'
        PROVE  p \in Pdus /\ \E q \in air : p.key = q.key /\ p.count = q.count
    <2> DEFINE copy == [pdu EXCEPT !.copy = faults']
    <2>1. copy \in Pdus /\ copy.key = pdu.key /\ copy.count = pdu.count
      BY <1>3, <1>6 DEF Pdus
    <2>2. p \in air \/ p = copy
      BY <1>1
    <2> QED
      BY <1>3, <2>1, <2>2
  <1>8. Types'
    BY <1>2, <1>4, <1>6, <1>7 DEF IInv, Types
  <1>9. /\ WindowInv(e)' /\ (e.rx_next - e.rx_deliv <= WindowSize)' /\ TimerInv(e)'
    BY <1>2, <1>5 DEF IInv, WindowInv, TimerInv
  <1>10. ~e.stopped /\ ~e.buffering => /\ routine = Idle /\ ~Parked /\ ~e.pending_crypto
                                       /\ e.tokens >= 0
    <2> SUFFICES ASSUME ~e.stopped, ~e.buffering
                 PROVE  routine = Idle /\ ~Parked /\ ~e.pending_crypto /\ e.tokens >= 0
      OBVIOUS
    <2>1. routine = Idle /\ ~Parked
      BY <1>2, OpenIsIdle
    <2>2. Cardinality(e.crypto) \in Nat /\ Len(queue) \in Nat
      BY <1>3, FS_CardinalityType
    <2> QED
      BY <1>3, <2>1, <2>2 DEF IInv, TokenInv, OwnToken
  <1>11. TokenInv'
    <2>1. CASE e'.tokens = e.tokens /\ e'.crypto = e.crypto
      <3>1. e'.pending_crypto <=> e.pending_crypto
        BY <1>3, <1>4, <1>10, <2>1
      <3> QED
        BY <1>2, <2>1, <3>1 DEF IInv, TokenInv, OwnToken, Drained
    <2>2. CASE /\ ~e.stopped /\ ~e.buffering
               /\ e'.tokens = e.tokens + 1 /\ e'.crypto = e.crypto \cup {task}
               /\ e'.pending_crypto = e.pending_crypto
      <3>1. Cardinality(e'.crypto) <= Cardinality(e.crypto) + 1
        BY <1>3, <2>2, AddOne
      <3>2. Cardinality(e.crypto) \in Nat /\ Cardinality(e'.crypto) \in Nat /\ Len(queue) \in Nat
        BY <1>3, <1>4, FS_CardinalityType DEF EntityType
      <3>3. e.tokens >= Cardinality(e.crypto) + Len(queue)
        BY <1>3, <1>10, <2>2, <3>2 DEF IInv, TokenInv, OwnToken
      <3>4. e'.tokens >= Cardinality(e'.crypto) + Len(queue)
        BY <1>3, <2>2, <3>1, <3>2, <3>3
      <3>5. ~e'.pending_crypto /\ OwnToken' = 0 /\ e'.tokens \in Int
        BY <1>2, <1>3, <1>10, <2>2 DEF OwnToken
      <3> QED
        BY <1>2, <3>2, <3>4, <3>5 DEF TokenInv
    <2> QED
      BY <1>4, <2>1, <2>2
  <1>12. ControlInv'
    <2>1. Parked => Drained'
      BY <1>2, <1>4, <1>10 DEF IInv, ControlInv, Drained
    <2> QED
      BY <1>2, <1>5, <2>1 DEF IInv, ControlInv, Parked
  <1>13. \A t \in UnderWay' : t \in UnderWay \/ (t = task /\ task.count < MaxCount /\ ~e.stopped
                                                /\ ~e.buffering)
    BY <1>2, <1>4 DEF UnderWay
  <1>14. task.pdu = pdu
    BY DEF DataPduTask
  <1> HIDE DEF task
  <1>15. pdu.key <= ue.key
    BY DEF IInv, KeyInv
  <1>16. KeyInv'
    <2>1. \A p \in air' : p.key <= ue.key
      BY <1>7 DEF IInv, KeyInv
    <2>2. ASSUME NEW p \in Range(e'.pdu_buffer)
          PROVE  p.key <= ue.key
      <3>1. e'.pdu_buffer \in {e.pdu_buffer, Append(e.pdu_buffer, pdu)}
        BY <1>4
      <3>2. p \in Range(e.pdu_buffer) \/ p = pdu
        BY <1>3, <2>2, <3>1, RangeAppend
      <3> QED
        BY <1>15, <3>2 DEF IInv, KeyInv
    <2>3. \A t \in UnderWay' : t.pdu.key <= ue.key
      BY <1>13, <1>14, <1>15 DEF IInv, KeyInv
    <2> QED
      BY <1>2, <1>5, <2>1, <2>2, <2>3 DEF IInv, KeyInv
  <1>17. CountInv'
    <2>1. \A p \in air' : p.key = ue.key => ue.next <= p.count + WindowSize /\ p.count < ue.next
      BY <1>7 DEF IInv, CountInv
    <2>2. ~e.stopped /\ ~e.buffering /\ pdu.key = e.key =>
            task.count = pdu.count /\ task.count < ue.next
      BY <1>2, TaskHasCount DEF task
    <2>3. \A t \in UnderWay' : /\ t.count < MaxCount
                               /\ t.pdu.key = e.key => t.count = t.pdu.count /\ t.count < ue.next
      BY <1>13, <1>14, <2>2 DEF IInv, CountInv
    <2> QED
      BY <1>2, <1>5, <2>1, <2>3 DEF IInv, CountInv, Parked, Joined
  <1> QED
    BY <1>8, <1>9, <1>11, <1>12, <1>16, <1>17 DEF IInv

\* A worker finishes.
LEMMA ApplySecurityKeeps ==
  ASSUME IInv, ApplySecurity
  PROVE  IInv'
  <1>1. PICK task \in e.crypto, full \in BOOLEAN :
          LET done == [e EXCEPT !.crypto = @ \ {task}]
          IN /\ e' = IF full THEN ReturnToken(done) ELSE done
             /\ queue' = IF full THEN queue
                         ELSE Append(queue, [task |-> task, ok |-> Verifies(e, task)])
             /\ Fault(IF full THEN 1 ELSE 0)
    BY DEF ApplySecurity
  <1> DEFINE done == [e EXCEPT !.crypto = @ \ {task}]
             result == [task |-> task, ok |-> Verifies(e, task)]
  <1>2. UNCHANGED <<cfg, air, ue, routine, bearer>>
    BY DEF ApplySecurity
  <1>3. /\ Types /\ EntityType(e) /\ faults \in Nat /\ e.tokens \in Int /\ DOMAIN e = Fields
        /\ queue \in Seq(Results) /\ IsFiniteSet(e.crypto) /\ e.crypto \subseteq Tasks
        /\ e.pending_crypto \in BOOLEAN
    BY DEF IInv, Types, EntityType
  <1>4. /\ OnlyChanges(e, done, {"crypto"}) /\ done.crypto = e.crypto \ {task}
        /\ IsFiniteSet(e.crypto \ {task})
        /\ Cardinality(e.crypto \ {task}) = Cardinality(e.crypto) - 1
        /\ Cardinality(e.crypto) \in Nat /\ Cardinality(e.crypto \ {task}) \in Nat
    BY <1>3, FS_RemoveElement, FS_CardinalityType DEF OnlyChanges, Fields
  <1>5. e' = IF full THEN ReturnToken(done) ELSE done
    BY <1>1
  <1> HIDE DEF done
  <1>6. EntityType(done)
    BY <1>3, <1>4 DEF EntityType, OnlyChanges, Fields
  <1>7. /\ OnlyChanges(e, e', {"crypto", "tokens", "pending_crypto"}) /\ EntityType(e')
        /\ e'.crypto = e.crypto \ {task}
        /\ full => /\ e'.tokens = e.tokens - 1
                   /\ e'.pending_crypto <=> e.pending_crypto \/ e.tokens = 0
        /\ ~full => e'.tokens = e.tokens /\ e'.pending_crypto = e.pending_crypto
    <2>1. CASE full
      <3>1. /\ OnlyChanges(done, e', {"tokens", "pending_crypto"}) /\ EntityType(e')
            /\ e'.tokens = done.tokens - 1
            /\ e'.pending_crypto <=> done.pending_crypto \/ done.tokens = 0
        BY <1>5, <1>6, <2>1, ReturnTokenFields
      <3>2. done.tokens = e.tokens /\ done.pending_crypto = e.pending_crypto
        BY <1>4 DEF OnlyChanges, Fields
      <3>3. OnlyChanges(e, e', {"crypto", "tokens", "pending_crypto"}) /\ e'.crypto = done.crypto
        BY <1>4, <3>1 DEF OnlyChanges, Fields
      <3> QED
        BY <1>4, <2>1, <3>1, <3>2, <3>3
    <2>2. CASE ~full
      BY <1>4, <1>5, <1>6, <2>2 DEF OnlyChanges, Fields
    <2> QED
      BY <2>1, <2>2
  <1>8. /\ e'.rx_next = e.rx_next /\ e'.rx_deliv = e.rx_deliv /\ e'.rx_reord = e.rx_reord
        /\ e'.rx_window = e.rx_window /\ e'.reordering_timer = e.reordering_timer
        /\ e'.key = e.key /\ e'.stopped = e.stopped /\ e'.buffering = e.buffering
        /\ e'.suspended = e.suspended /\ e'.pdu_buffer = e.pdu_buffer
    BY <1>7 DEF OnlyChanges, Fields
  <1>9. ~e.pending_crypto /\ ~Parked
    BY DEF IInv, TokenInv, ControlInv, Drained
  <1>10. result \in Results /\ result.task = task /\ (result.ok => task.pdu.key = e.key)
    BY <1>3 DEF Results, Verifies
  <1>11. queue' = IF full THEN queue ELSE Append(queue, result)
    BY <1>1
  <1> HIDE DEF result
  <1>12. /\ queue' \in Seq(Results)
         /\ Len(queue') = IF full THEN Len(queue) ELSE Len(queue) + 1
         /\ \A i \in DOMAIN queue' :
              (i \in DOMAIN queue /\ queue'[i] = queue[i]) \/ queue'[i] = result
    BY <1>3, <1>10, <1>11
  <1>13. faults' \in Nat
    BY <1>1, <1>3 DEF Fault
  <1>14. Types'
    BY <1>2, <1>7, <1>12, <1>13 DEF IInv, Types
  <1>15. /\ WindowInv(e)' /\ (e.rx_next - e.rx_deliv <= WindowSize)' /\ TimerInv(e)'
    BY <1>2, <1>8 DEF IInv, WindowInv, TimerInv
  <1>16. TokenInv'
    <2>1. /\ e.tokens + OwnToken >= Cardinality(e.crypto) + Len(queue) /\ OwnToken' = OwnToken
          /\ OwnToken \in {0, 1} /\ (routine = Idle => OwnToken = 0) /\ Len(queue) \in Nat
      BY <1>2, <1>3 DEF IInv, TokenInv, OwnToken
    <2>2. (e.tokens + OwnToken >= Cardinality(e.crypto) + Len(queue))'
      BY <1>3, <1>4, <1>7, <1>12, <2>1
    <2>3. ASSUME e'.pending_crypto
          PROVE  routine # Idle /\ Drained'
      <3>1. full /\ e.tokens = 0
        BY <1>7, <1>9, <2>3
      <3>2. OwnToken = 1 /\ Cardinality(e.crypto \ {task}) = 0 /\ Len(queue) = 0
        BY <1>4, <2>1, <3>1
      <3>3. e.crypto \ {task} = {}
        BY <1>4, <3>2, FS_EmptySet
      <3> QED
        BY <1>3, <1>7, <1>11, <2>1, <3>1, <3>2, <3>3 DEF Drained
    <2> QED
      BY <1>2, <2>2, <2>3 DEF TokenInv
  <1>17. ControlInv'
    BY <1>2, <1>8, <1>9 DEF IInv, ControlInv, Parked
  <1>18. \A t \in UnderWay' : t \in UnderWay
    BY <1>7, <1>10, <1>12 DEF UnderWay
  <1>19. KeyInv'
    BY <1>2, <1>8, <1>18 DEF IInv, KeyInv
  <1>20. CountInv'
    <2>1. \A i \in DOMAIN queue' : queue'[i].ok => queue'[i].task.pdu.key = e.key
      BY <1>10, <1>12 DEF IInv, CountInv
    <2> QED
      BY <1>2, <1>8, <1>18, <2>1 DEF IInv, CountInv, Parked, Joined
  <1> QED
    BY <1>14, <1>15, <1>16, <1>17, <1>19, <1>20 DEF IInv

\* t-Reordering expires.
LEMMA TReorderingExpiryKeeps ==
  ASSUME IInv, bearer # "handover", TReorderingExpiry
  PROVE  IInv'
  <1>1. /\ e.reordering_timer /\ UNCHANGED <<cfg, queue, air, ue, routine, bearer, faults>>
        /\ e' = IF e.stopped THEN [e EXCEPT !.reordering_timer = FALSE]
                ELSE HandleTReorderingExpire(e)
    BY DEF TReorderingExpiry
  <1>2. /\ EntityType(e) /\ WindowInv(e) /\ TimerInv(e) /\ DOMAIN e = Fields /\ cfg \in Configs
        /\ e.rx_next \in Nat /\ e.rx_deliv \in Nat /\ e.rx_reord \in Nat /\ ue.next \in Nat
        /\ WindowSize \in Nat /\ e.stopped \in BOOLEAN
    BY WindowIsHalf DEF IInv, Types, EntityType, UeType
  <1>3. ~Parked /\ ue.change # "reset" /\ Joined
    BY <1>1 DEF IInv, ControlInv, TReorderingExpiry, Running, Joined
  <1>4. /\ KeepsRest(e, e') /\ EntityType(e') /\ WindowInv(e') /\ TimerInv(e')
        /\ e'.rx_next = e.rx_next /\ e.rx_deliv <= e'.rx_deliv
    <2>1. CASE e.stopped
      <3>1. /\ KeepsRest(e, e') /\ e'.rx_next = e.rx_next /\ e'.rx_deliv = e.rx_deliv
            /\ e'.rx_reord = e.rx_reord /\ e'.rx_window = e.rx_window
            /\ e'.reordering_timer \in BOOLEAN
        BY <1>1, <1>2, <2>1 DEF KeepsRest, Fields
      <3> QED
        BY <1>2, <2>1, <3>1 DEF EntityType, WindowInv, TimerInv, KeepsRest
    <2>2. CASE ~e.stopped
      <3>1. e.rx_deliv < e.rx_reord /\ e.rx_reord <= e.rx_next
        BY <1>1, <1>2, <2>2 DEF TimerInv
      <3>2. /\ KeepsRest(e, e') /\ EntityType(e') /\ WindowInv(e')
            /\ e'.rx_next = e.rx_next /\ e.rx_reord <= e'.rx_deliv
            /\ e'.reordering_timer <=> e'.rx_deliv < e'.rx_next /\ cfg.t_reordering # "ms0"
            /\ e'.reordering_timer => e'.rx_reord = e'.rx_next
        BY <1>1, <1>2, <2>2, <3>1, ExpireFields
      <3>3. e'.rx_deliv \in Nat
        BY <3>2 DEF EntityType
      <3> QED
        BY <1>2, <3>1, <3>2, <3>3 DEF TimerInv
    <2> QED
      BY <1>2, <2>1, <2>2
  <1>5. Types'
    BY <1>1, <1>4 DEF IInv, Types
  <1>6. WindowInv(e)' /\ TimerInv(e)' /\ (e.rx_next - e.rx_deliv <= WindowSize)'
    <2>1. e'.rx_deliv \in Nat /\ e.rx_next - e.rx_deliv <= WindowSize
      BY <1>4 DEF EntityType, IInv
    <2>2. WindowInv(e)' /\ TimerInv(e)'
      BY <1>1, <1>4 DEF WindowInv, TimerInv
    <2> QED
      BY <1>2, <1>4, <2>1, <2>2 DEF WindowSize
  <1>7. TokenInv' /\ ControlInv' /\ KeyInv'
    BY <1>1, <1>3, <1>4
    DEF IInv, TokenInv, ControlInv, KeyInv, UnderWay, OwnToken, Drained, Parked, KeepsRest
  <1>8. CountInv'
    <2>1. e'.rx_deliv \in Nat
      BY <1>4 DEF EntityType
    <2>2. e'.rx_next <= ue.next /\ ue.next <= e'.rx_deliv + WindowSize
      BY <1>2, <1>3, <1>4, <2>1 DEF IInv, CountInv
    <2> QED
      BY <1>1, <1>4, <2>2 DEF IInv, CountInv, UnderWay, KeepsRest
  <1> QED
    BY <1>5, <1>6, <1>7, <1>8 DEF IInv

\* The strand takes a verified PDU, or drops one that did not verify.
LEMMA ProcessVerifiedKeeps ==
  ASSUME IInv, bearer # "handover", ProcessVerified
  PROVE  IInv'
  <1> DEFINE head == Head(queue)
             m == IF head.ok THEN ApplyReordering(e, head.task) ELSE e
  <1>1. /\ queue # <<>> /\ queue' = Tail(queue) /\ e' = ReturnToken(m)
        /\ UNCHANGED <<cfg, air, ue, routine, bearer, faults>>
    BY DEF ProcessVerified, TakeResult
  <1>2. /\ Types /\ EntityType(e) /\ WindowInv(e) /\ TimerInv(e) /\ cfg \in Configs
        /\ queue \in Seq(Results) /\ e.tokens \in Int /\ IsFiniteSet(e.crypto)
        /\ e.rx_next \in Nat /\ e.rx_deliv \in Nat /\ ue.next \in Nat
        /\ ue.key \in Nat /\ e.key \in Nat
        /\ WindowSize \in Nat /\ DOMAIN e = Fields /\ e.pending_crypto \in BOOLEAN
    BY WindowIsHalf DEF IInv, Types, EntityType, UeType
  <1>3. /\ 1 \in DOMAIN queue /\ head = queue[1] /\ head \in Results
        /\ queue' \in Seq(Results) /\ Len(queue') = Len(queue) - 1 /\ Len(queue) \in Nat
        /\ \A i \in DOMAIN queue' : i + 1 \in DOMAIN queue /\ queue'[i] = queue[i + 1]
    BY <1>1, <1>2
  <1> HIDE DEF head
  <1>4. head.task \in UnderWay /\ (head.ok => head.task.pdu.key = e.key)
    BY <1>3 DEF UnderWay, IInv, CountInv
  <1>5. ~e.pending_crypto /\ ~Parked
    BY <1>1 DEF IInv, TokenInv, ControlInv, Drained
  <1>6. /\ head.task.count \in Nat /\ head.task.pdu.key \in Nat /\ head.task.pdu.count \in Nat
        /\ head.task.count < MaxCount /\ head.task.pdu.key <= ue.key /\ head.ok \in BOOLEAN
    BY <1>3, <1>4 DEF Results, Tasks, Pdus, IInv, KeyInv, CountInv
  <1>7. head.ok => ue.change = "none" /\ head.task.count < ue.next
    <2> SUFFICES ASSUME head.ok PROVE ue.change = "none" /\ head.task.count < ue.next
      OBVIOUS
    <2>1. /\ ue.change = "none" => ue.key = e.key
          /\ ue.change # "none" => ue.key + 1 = e.key
      BY DEF IInv, KeyInv
    <2>2. ue.change = "none"
      BY <1>2, <1>4, <1>6, <2>1
    <2> QED
      BY <1>4, <2>2 DEF IInv, CountInv
  <1>8. /\ KeepsRest(e, m) /\ EntityType(m) /\ WindowInv(m) /\ TimerInv(m)
        /\ m.rx_next = IF head.ok /\ head.task.count >= e.rx_next THEN head.task.count + 1
                       ELSE e.rx_next
        /\ e.rx_deliv <= m.rx_deliv
        /\ ~head.ok => m = e
    <2>1. CASE head.ok
      BY <1>2, <1>6, <2>1, ReorderingFields
    <2>2. CASE ~head.ok
      BY <1>2, <2>2 DEF KeepsRest
    <2> QED
      BY <2>1, <2>2
  <1> HIDE DEF m
  <1>9. m.rx_next \in Nat /\ m.rx_deliv \in Nat
    BY <1>8 DEF EntityType
  <1>10. /\ m.rx_next - m.rx_deliv <= WindowSize
         /\ ue.change # "reset" => m.rx_next <= ue.next /\ ue.next <= m.rx_deliv + WindowSize
    <2>1. /\ e.rx_next - e.rx_deliv <= WindowSize
          /\ ue.change # "reset" => e.rx_next <= ue.next /\ ue.next <= e.rx_deliv + WindowSize
      BY <1>5 DEF IInv, CountInv, ProcessVerified, TakeResult, Running, Joined
    <2>2. CASE head.ok
      <3>1. CASE head.task.count >= e.rx_next
        <4>1. m.rx_next = head.task.count + 1 /\ e.rx_deliv <= m.rx_deliv
          BY <1>8, <2>2, <3>1
        <4>2. head.task.count < ue.next /\ ue.next <= e.rx_deliv + WindowSize
          BY <1>7, <2>1, <2>2
        <4>3. m.rx_next <= ue.next
          BY <1>2, <1>6, <4>1, <4>2
        <4>4. ue.next <= m.rx_deliv + WindowSize
          BY <1>2, <1>9, <4>1, <4>2
        <4> QED
          BY <1>2, <1>9, <4>3, <4>4
      <3>2. CASE ~(head.task.count >= e.rx_next)
        BY <1>2, <1>8, <1>9, <2>1, <3>2
      <3> QED
        BY <3>1, <3>2
    <2>3. CASE ~head.ok
      BY <1>8, <2>1, <2>3
    <2> QED
      BY <1>6, <2>2, <2>3
  <1>11. /\ OnlyChanges(m, e', {"tokens", "pending_crypto"}) /\ EntityType(e')
         /\ e'.tokens = m.tokens - 1
         /\ e'.pending_crypto <=> m.pending_crypto \/ m.tokens = 0
    BY <1>1, <1>8, ReturnTokenFields
  <1>12. /\ e'.rx_next = m.rx_next /\ e'.rx_deliv = m.rx_deliv /\ e'.rx_reord = m.rx_reord
         /\ e'.rx_window = m.rx_window /\ e'.reordering_timer = m.reordering_timer
         /\ e'.key = e.key /\ e'.stopped = e.stopped /\ e'.buffering = e.buffering
         /\ e'.suspended = e.suspended /\ e'.pdu_buffer = e.pdu_buffer /\ e'.crypto = e.crypto
         /\ e'.tokens = e.tokens - 1
         /\ e'.pending_crypto <=> e.tokens = 0
    BY <1>5, <1>8, <1>11 DEF OnlyChanges, Fields, KeepsRest
  <1>13. Types'
    BY <1>1, <1>3, <1>11 DEF IInv, Types
  <1>14. /\ WindowInv(e)' /\ (e.rx_next - e.rx_deliv <= WindowSize)' /\ TimerInv(e)'
    <2>1. WindowInv(e)' /\ TimerInv(e)'
      BY <1>1, <1>8, <1>12 DEF WindowInv, TimerInv, KeepsRest
    <2> QED
      BY <1>10, <1>12, <2>1 DEF WindowSize
  <1>15. TokenInv'
    <2>1. /\ e.tokens + OwnToken >= Cardinality(e.crypto) + Len(queue) /\ OwnToken' = OwnToken
          /\ OwnToken \in {0, 1} /\ (routine = Idle => OwnToken = 0)
          /\ Cardinality(e.crypto) \in Nat /\ Len(queue) >= 1
      BY <1>1, <1>2, <1>3, FS_CardinalityType DEF IInv, TokenInv, OwnToken
    <2>2. (e.tokens + OwnToken >= Cardinality(e.crypto) + Len(queue))'
      BY <1>2, <1>3, <1>12, <2>1
    <2>3. ASSUME e'.pending_crypto
          PROVE  routine # Idle /\ Drained'
      <3>1. OwnToken = 1 /\ Cardinality(e.crypto) = 0 /\ Len(queue') = 0
        BY <1>3, <1>12, <2>1, <2>3
      <3>2. e.crypto = {}
        BY <1>2, <3>1, FS_EmptySet
      <3> QED
        BY <1>3, <1>12, <2>1, <3>1, <3>2 DEF Drained
    <2> QED
      BY <1>1, <2>2, <2>3 DEF TokenInv
  <1>16. ControlInv'
    <2>1. ue.change = "reset" => m = e
      BY <1>6, <1>7, <1>8
    <2>2. ue.change = "reset" => e'.rx_next = 0 /\ e'.rx_deliv = 0 /\ ~e'.reordering_timer
      BY <1>12, <2>1 DEF IInv, ControlInv
    <2> QED
      BY <1>1, <1>5, <1>12, <2>2 DEF IInv, ControlInv, Parked
  <1>17. \A t \in UnderWay' : t \in UnderWay
    BY <1>3, <1>12 DEF UnderWay
  <1>18. KeyInv'
    BY <1>1, <1>12, <1>17 DEF IInv, KeyInv
  <1>19. CountInv'
    <2>1. \A i \in DOMAIN queue' : queue'[i].ok => queue'[i].task.pdu.key = e.key
      BY <1>3 DEF IInv, CountInv
    <2> QED
      BY <1>1, <1>10, <1>12, <1>17, <2>1 DEF IInv, CountInv, Parked
  <1> QED
    BY <1>13, <1>14, <1>15, <1>16, <1>18, <1>19 DEF IInv

-----------------------------------------------------------------------------
(* The routine.                                                            *)

\* What a request leaves of the window, the keys and the PDUs.
LEMMA RequestFrame ==
  ASSUME IInv, UNCHANGED <<cfg, queue, air, ue, faults>>, EntityType(e'),
         OnlyChanges(e, e', {"tokens", "pending_crypto", "buffering", "suspended", "stopped",
                             "resume_requested", "reordering_timer"})
  PROVE  /\ WindowInv(e)' /\ (e.rx_next - e.rx_deliv <= WindowSize)'
         /\ UnderWay' = UnderWay /\ Range(e'.pdu_buffer) = Range(e.pdu_buffer)
         /\ e'.rx_next = e.rx_next /\ e'.rx_deliv = e.rx_deliv /\ e'.rx_reord = e.rx_reord
         /\ e'.crypto = e.crypto /\ e'.key = e.key
  <1>1. /\ e'.rx_next = e.rx_next /\ e'.rx_deliv = e.rx_deliv /\ e'.rx_reord = e.rx_reord
        /\ e'.rx_window = e.rx_window /\ e'.crypto = e.crypto /\ e'.key = e.key
        /\ e'.pdu_buffer = e.pdu_buffer
    BY DEF OnlyChanges, Fields
  <1> QED
    BY <1>1 DEF IInv, WindowInv, UnderWay

\* With no routine waiting, a token is held for everything under way; the manager's
\* own is given back.
LEMMA RequestTokens ==
  ASSUME IInv, routine = Idle, routine' # Idle, UNCHANGED queue, e'.crypto = e.crypto,
         e'.tokens = e.tokens - 1, e'.pending_crypto <=> e.pending_crypto \/ e.tokens = 0
  PROVE  TokenInv'
  <1>1. /\ e.tokens \in Int /\ IsFiniteSet(e.crypto) /\ queue \in Seq(Results)
        /\ ~e.pending_crypto
    BY DEF IInv, Types, EntityType, TokenInv
  <1>2. Cardinality(e.crypto) \in Nat /\ Len(queue) \in Nat
    BY <1>1, FS_CardinalityType
  <1>3. e.tokens >= Cardinality(e.crypto) + Len(queue) /\ OwnToken' = 1
    BY <1>1, <1>2 DEF IInv, TokenInv, OwnToken
  <1>4. (e.tokens + OwnToken >= Cardinality(e.crypto) + Len(queue))'
    BY <1>1, <1>2, <1>3
  <1>5. ASSUME e'.pending_crypto
        PROVE  Drained'
    <2>1. Cardinality(e.crypto) = 0 /\ Len(queue) = 0
      BY <1>1, <1>2, <1>3, <1>5
    <2>2. e.crypto = {}
      BY <1>1, <2>1, FS_EmptySet
    <2> QED
      BY <1>1, <2>1, <2>2 DEF Drained
  <1> QED
    BY <1>4, <1>5 DEF TokenInv

\* A bearer is suspended.
LEMMA RequestSuspendKeeps ==
  ASSUME IInv, RequestSuspend
  PROVE  IInv'
  <1>1. /\ routine = Idle /\ bearer = "active" /\ e' = Await(e) /\ routine' = [step |-> "suspend"]
        /\ UNCHANGED <<cfg, queue, air, ue, bearer, faults>>
    BY DEF RequestSuspend
  <1>2. EntityType(e) /\ Types
    BY DEF IInv, Types
  <1>3. /\ OnlyChanges(e, e', {"tokens", "pending_crypto", "buffering"}) /\ EntityType(e')
        /\ e'.tokens = e.tokens - 1 /\ e'.buffering = TRUE
        /\ e'.pending_crypto <=> e.pending_crypto \/ e.tokens = 0
    BY <1>1, <1>2, AwaitFields
  <1>4. OnlyChanges(e, e', {"tokens", "pending_crypto", "buffering", "suspended", "stopped",
                            "resume_requested", "reordering_timer"})
        /\ e'.reordering_timer = e.reordering_timer /\ e'.stopped = e.stopped
        /\ e'.suspended = e.suspended
    BY <1>3 DEF OnlyChanges, Fields
  <1>5. /\ WindowInv(e)' /\ (e.rx_next - e.rx_deliv <= WindowSize)'
        /\ UnderWay' = UnderWay /\ Range(e'.pdu_buffer) = Range(e.pdu_buffer)
        /\ e'.rx_next = e.rx_next /\ e'.rx_deliv = e.rx_deliv /\ e'.rx_reord = e.rx_reord
        /\ e'.crypto = e.crypto /\ e'.key = e.key
    BY <1>1, <1>3, <1>4, RequestFrame
  <1>6. Types'
    BY <1>1, <1>2, <1>3 DEF Types
  <1>7. TimerInv(e)'
    BY <1>1, <1>4, <1>5 DEF IInv, TimerInv
  <1>8. TokenInv'
    BY <1>1, <1>3, <1>5, RequestTokens DEF Idle
  <1>9. ~Parked /\ ~Parked' /\ routine.step = "idle" /\ routine'.step = "suspend"
    BY <1>1, <1>4 DEF IInv, ControlInv, Parked, Idle
  <1>10. ControlInv'
    BY <1>1, <1>3, <1>4, <1>5, <1>9 DEF IInv, ControlInv
  <1>11. KeyInv'
    BY <1>1, <1>5, <1>9 DEF IInv, KeyInv
  <1>12. CountInv'
    BY <1>1, <1>5, <1>9 DEF IInv, CountInv, Joined
  <1> QED
    BY <1>5, <1>6, <1>7, <1>8, <1>10, <1>11, <1>12 DEF IInv

\* A suspended bearer resumes with new keys, or an active one gets new keys.
LEMMA RequestRekeyKeeps ==
  ASSUME IInv, RequestRekey
  PROVE  IInv'
  <1> DEFINE r == IF bearer = "suspended" THEN Resume(e) ELSE e
  <1>1. PICK reest \in BOOLEAN :
          routine' = [step |-> "rekey", reest |-> reest, resumed |-> bearer = "suspended"]
    BY DEF RequestRekey
  <1>2. /\ routine = Idle /\ bearer \in {"active", "suspended"} /\ e.key < MaxKeys
        /\ ue.change = "none" /\ e' = Await(r) /\ bearer' = "active"
        /\ UNCHANGED <<cfg, queue, air, ue, faults>>
    BY DEF RequestRekey
  <1>3. EntityType(e) /\ Types /\ DOMAIN e = Fields
    BY DEF IInv, Types, EntityType
  <1>4. /\ OnlyChanges(e, r, {"suspended", "resume_requested"})
        /\ r.suspended = FALSE /\ r.suspended \in BOOLEAN
    <2>1. CASE bearer = "suspended"
      <3>1. r = [e EXCEPT !.suspended = FALSE, !.resume_requested = FALSE]
        BY <2>1 DEF Resume, IInv, ControlInv
      <3> QED
        BY <1>3, <3>1 DEF OnlyChanges, Fields
    <2>2. CASE bearer = "active"
      <3>1. r = e /\ ~e.suspended /\ e.suspended \in BOOLEAN
        BY <1>3, <2>2 DEF IInv, ControlInv, EntityType
      <3> QED
        BY <1>3, <3>1 DEF OnlyChanges
    <2> QED
      BY <1>2, <2>1, <2>2
  <1> HIDE DEF r
  <1>5. EntityType(r)
    BY <1>3, <1>4 DEF EntityType, OnlyChanges, Fields
  <1>6. /\ OnlyChanges(r, e', {"tokens", "pending_crypto", "buffering"}) /\ EntityType(e')
        /\ e'.tokens = r.tokens - 1 /\ e'.buffering = TRUE
        /\ e'.pending_crypto <=> r.pending_crypto \/ r.tokens = 0
    BY <1>2, <1>5, AwaitFields
  <1>7. /\ OnlyChanges(e, e', {"tokens", "pending_crypto", "buffering", "suspended", "stopped",
                               "resume_requested", "reordering_timer"})
        /\ e'.reordering_timer = e.reordering_timer /\ e'.stopped = e.stopped
        /\ r.tokens = e.tokens /\ r.pending_crypto = e.pending_crypto
        /\ e'.suspended = r.suspended
    BY <1>4, <1>6 DEF OnlyChanges, Fields
  <1>8. /\ WindowInv(e)' /\ (e.rx_next - e.rx_deliv <= WindowSize)'
        /\ UnderWay' = UnderWay /\ Range(e'.pdu_buffer) = Range(e.pdu_buffer)
        /\ e'.rx_next = e.rx_next /\ e'.rx_deliv = e.rx_deliv /\ e'.rx_reord = e.rx_reord
        /\ e'.crypto = e.crypto /\ e'.key = e.key
    BY <1>2, <1>6, <1>7, RequestFrame
  <1>9. Types'
    <2>1. routine' \in [step : {"rekey"}, reest : BOOLEAN, resumed : BOOLEAN]
      BY <1>1
    <2> QED
      BY <1>2, <1>3, <1>6, <2>1 DEF Types
  <1>10. TimerInv(e)'
    BY <1>2, <1>7, <1>8 DEF IInv, TimerInv
  <1>11. routine'.step = "rekey" /\ (routine'.resumed <=> bearer = "suspended") /\ routine.step = "idle"
    BY <1>1, <1>2 DEF Idle
  <1>12. TokenInv'
    <2>1. routine' # Idle
      BY <1>11 DEF Idle
    <2> QED
      BY <1>2, <1>6, <1>7, <1>8, <2>1, RequestTokens
  <1>13. Parked' <=> Parked
    BY <1>2, <1>4, <1>7, <1>11 DEF IInv, ControlInv, Parked
  <1>14. ControlInv'
    <2>1. Parked' => Drained'
      BY <1>2, <1>8, <1>13 DEF IInv, ControlInv, Drained
    <2>2. Parked' \/ ue'.change = "reset" => e'.rx_next = 0 /\ e'.rx_deliv = 0 /\ ~e'.reordering_timer
      BY <1>2, <1>7, <1>8, <1>13 DEF IInv, ControlInv
    <2>3. ~e'.stopped /\ ~e'.suspended /\ e'.buffering
      BY <1>4, <1>6, <1>7, <1>11 DEF IInv, ControlInv
    <2> QED
      BY <1>2, <1>11, <2>1, <2>2, <2>3 DEF ControlInv
  <1>15. KeyInv'
    BY <1>2, <1>8, <1>11 DEF IInv, KeyInv
  <1>16. CountInv'
    BY <1>2, <1>8, <1>13 DEF IInv, CountInv, Joined
  <1> QED
    BY <1>8, <1>9, <1>10, <1>12, <1>14, <1>15, <1>16 DEF IInv

\* The bearer is released.
LEMMA RequestReleaseKeeps ==
  ASSUME IInv, RequestRelease
  PROVE  IInv'
  <1> DEFINE r == [e EXCEPT !.stopped = TRUE, !.reordering_timer = FALSE]
  <1>1. /\ routine = Idle /\ e' = ReturnToken(r) /\ routine' = [step |-> "release"]
        /\ UNCHANGED <<cfg, queue, air, ue, bearer, faults>>
    BY DEF RequestRelease, Stop
  <1>2. EntityType(e) /\ Types /\ DOMAIN e = Fields
    BY DEF IInv, Types, EntityType
  <1>3. /\ OnlyChanges(e, r, {"stopped", "reordering_timer"})
        /\ r.stopped = TRUE /\ r.stopped \in BOOLEAN
        /\ r.reordering_timer = FALSE /\ r.reordering_timer \in BOOLEAN
    BY <1>2 DEF OnlyChanges, Fields
  <1> HIDE DEF r
  <1>4. EntityType(r)
    BY <1>2, <1>3 DEF EntityType, OnlyChanges, Fields
  <1>5. /\ OnlyChanges(r, e', {"tokens", "pending_crypto"}) /\ EntityType(e')
        /\ e'.tokens = r.tokens - 1
        /\ e'.pending_crypto <=> r.pending_crypto \/ r.tokens = 0
    BY <1>1, <1>4, ReturnTokenFields
  <1>6. /\ OnlyChanges(e, e', {"tokens", "pending_crypto", "buffering", "suspended", "stopped",
                               "resume_requested", "reordering_timer"})
        /\ e'.stopped /\ ~e'.reordering_timer
        /\ r.tokens = e.tokens /\ r.pending_crypto = e.pending_crypto
        /\ e'.suspended = e.suspended /\ e'.buffering = e.buffering
    BY <1>3, <1>5 DEF OnlyChanges, Fields
  <1>7. /\ WindowInv(e)' /\ (e.rx_next - e.rx_deliv <= WindowSize)'
        /\ UnderWay' = UnderWay /\ Range(e'.pdu_buffer) = Range(e.pdu_buffer)
        /\ e'.rx_next = e.rx_next /\ e'.rx_deliv = e.rx_deliv /\ e'.rx_reord = e.rx_reord
        /\ e'.crypto = e.crypto /\ e'.key = e.key
    BY <1>1, <1>5, <1>6, RequestFrame
  <1>8. Types'
    BY <1>1, <1>2, <1>5 DEF Types
  <1>9. TimerInv(e)'
    BY <1>6 DEF TimerInv
  <1>10. routine'.step = "release" /\ routine.step = "idle"
    BY <1>1 DEF Idle
  <1>11. TokenInv'
    BY <1>1, <1>5, <1>6, <1>7, RequestTokens DEF Idle
  <1>12. Parked' <=> Parked
    BY <1>6, <1>10 DEF Parked
  <1>13. ControlInv'
    BY <1>1, <1>6, <1>7, <1>10, <1>12 DEF IInv, ControlInv, Drained
  <1>14. KeyInv'
    BY <1>1, <1>7, <1>10 DEF IInv, KeyInv
  <1>15. CountInv'
    BY <1>1, <1>7, <1>12 DEF IInv, CountInv, Joined
  <1> QED
    BY <1>7, <1>8, <1>9, <1>11, <1>13, <1>14, <1>15 DEF IInv

\* When the routine goes on, nothing is under way.
LEMMA RoutineFindsDrained ==
  ASSUME IInv, e.pending_crypto
  PROVE  Drained /\ UnderWay = {} /\ DOMAIN queue = {} /\ e.tokens \in Int /\ e.tokens >= -1
  <1>1. Drained
    BY DEF IInv, TokenInv
  <1>2. e.tokens \in Int /\ OwnToken \in {0, 1} /\ Cardinality({}) = 0
    BY FS_EmptySet DEF IInv, Types, EntityType, OwnToken
  <1> QED
    BY <1>1, <1>2 DEF IInv, TokenInv, Drained, UnderWay

\* The entity of a suspended bearer is reset.
LEMMA FinishSuspendKeeps ==
  ASSUME IInv, FinishSuspend
  PROVE  IInv'
  <1> DEFINE r == ResetState(DeliverAllSdus([e EXCEPT !.reordering_timer = FALSE]))
             s == [r EXCEPT !.suspended = TRUE]
  <1>1. /\ routine.step = "suspend" /\ e.pending_crypto /\ e' = StartTokens(Suspend(e))
        /\ routine' = Idle /\ bearer' = "suspended"
        /\ UNCHANGED <<cfg, queue, air, ue, faults>>
    BY DEF FinishSuspend
  <1>2. EntityType(e) /\ WindowInv(e) /\ Types
    BY DEF IInv, Types
  <1>3. ~e.suspended /\ e.buffering /\ ~e.stopped /\ bearer = "active"
    BY <1>1 DEF IInv, ControlInv
  <1>4. Suspend(e) = s
    BY <1>3 DEF Suspend
  <1>5. /\ KeepsRest(e, r) /\ EntityType(r) /\ WindowInv(r) /\ TimerInv(r)
        /\ r.rx_next = 0 /\ r.rx_deliv = 0 /\ r.reordering_timer = FALSE
    BY <1>2, RestartFields
  <1> HIDE DEF r
  <1>6. OnlyChanges(r, s, {"suspended"}) /\ s.suspended = TRUE /\ s.suspended \in BOOLEAN
    BY <1>5 DEF OnlyChanges, EntityType, Fields
  <1> HIDE DEF s
  <1>7. EntityType(s)
    BY <1>5, <1>6 DEF EntityType, OnlyChanges, Fields
  <1>8. /\ OnlyChanges(s, e', {"tokens", "pending_crypto"}) /\ EntityType(e')
        /\ e'.tokens = s.tokens + 1 /\ e'.pending_crypto = FALSE
    BY <1>1, <1>4, <1>7, StartTokensFields
  <1>9. /\ e'.rx_next = r.rx_next /\ e'.rx_deliv = r.rx_deliv /\ e'.rx_reord = r.rx_reord
        /\ e'.rx_window = r.rx_window /\ e'.reordering_timer = r.reordering_timer
        /\ e'.key = e.key /\ e'.stopped = e.stopped /\ e'.buffering = e.buffering
        /\ e'.suspended = TRUE /\ e'.pdu_buffer = e.pdu_buffer /\ e'.crypto = e.crypto
        /\ e'.tokens = e.tokens + 1 /\ r.stopped = e.stopped
    BY <1>5, <1>6, <1>8 DEF OnlyChanges, Fields, KeepsRest
  <1>10. /\ Drained /\ UnderWay = {} /\ DOMAIN queue = {} /\ e.tokens \in Int /\ e.tokens >= -1
    BY <1>1, RoutineFindsDrained
  <1>11. Drained' /\ UnderWay' = {} /\ DOMAIN queue' = {} /\ Parked'
    BY <1>1, <1>9, <1>10 DEF Drained, UnderWay, Parked
  <1>12. Types'
    BY <1>1, <1>2, <1>8 DEF Types, Idle
  <1>13. WindowInv(e)' /\ TimerInv(e)' /\ (e.rx_next - e.rx_deliv <= WindowSize)'
    <2>1. WindowInv(e)' /\ TimerInv(e)'
      BY <1>1, <1>5, <1>9 DEF WindowInv, TimerInv
    <2> QED
      BY <1>5, <1>9, <2>1, WindowIsHalf DEF WindowSize
  <1>14. TokenInv'
    <2>1. Cardinality({}) = 0 /\ Len(queue') = 0 /\ e'.crypto = {} /\ OwnToken' = 0
      BY <1>1, <1>11, FS_EmptySet DEF Drained, OwnToken
    <2> QED
      BY <1>8, <1>9, <1>10, <2>1 DEF TokenInv
  <1>15. ControlInv'
    BY <1>1, <1>3, <1>5, <1>9, <1>11 DEF ControlInv, Idle
  <1>16. KeyInv'
    BY <1>1, <1>9, <1>11 DEF IInv, KeyInv, Idle
  <1>17. CountInv'
    BY <1>1, <1>9, <1>11 DEF IInv, CountInv
  <1> QED
    BY <1>12, <1>13, <1>14, <1>15, <1>16, <1>17 DEF IInv

\* The keys change, the entity is re-established, and what was buffered goes on.
LEMMA FinishRekeyKeeps ==
  ASSUME IInv, FinishRekey
  PROVE  IInv'
  <1> DEFINE k == ConfigureSecurity(e)
             ready == StartTokens(k)
             r == IF routine.reest THEN Reestablish(ready) ELSE ready
             resets == routine.resumed \/ (routine.reest /\ cfg.rlc_mode = "um")
  <1>1. PICK refused \in SUBSET Range(e.pdu_buffer) :
          e' = EndBuffering(r, refused) /\ Fault(Cardinality(refused))
    BY DEF FinishRekey
  <1>2. /\ routine.step = "rekey" /\ e.pending_crypto /\ routine' = Idle
        /\ UNCHANGED <<cfg, queue, air, bearer>>
        /\ ue' = [ue EXCEPT !.change =
                    CASE resets -> "reset"
                      [] ~routine.resumed /\ routine.reest /\ cfg.rlc_mode = "am" -> "resend"
                      [] OTHER -> "keep"]
    BY DEF FinishRekey
  <1>3. /\ EntityType(e) /\ WindowInv(e) /\ TimerInv(e) /\ Types /\ UeType(ue)
        /\ e.pdu_buffer \in Seq(Pdus) /\ DOMAIN e = Fields /\ e.key \in Nat /\ ue.key \in Nat
        /\ cfg \in Configs /\ faults \in Nat /\ MaxKeys \in Nat
    BY PdcpRxAssumption DEF IInv, Types, EntityType, UeType
  <1>4. routine.reest \in BOOLEAN /\ routine.resumed \in BOOLEAN
    BY <1>2, <1>3 DEF Types
  <1>5. /\ ~e.stopped /\ ~e.suspended /\ e.buffering /\ bearer = "active"
        /\ ue.change = "none" /\ e.key < MaxKeys /\ ue.key = e.key
    BY <1>2 DEF IInv, ControlInv, KeyInv
  <1>6. /\ ue'.change \in {"reset", "resend", "keep"} /\ (ue'.change = "reset" <=> resets)
        /\ ue'.next = ue.next /\ ue'.key = ue.key /\ ue'.sent = ue.sent /\ UeType(ue')
    <2>1. /\ ue'.change = (CASE resets -> "reset"
                [] ~routine.resumed /\ routine.reest /\ cfg.rlc_mode = "am" -> "resend"
                [] OTHER -> "keep")
          /\ DOMAIN ue' = UeFields /\ ue'.next = ue.next /\ ue'.key = ue.key
          /\ ue'.sent = ue.sent /\ ue'.sdus = ue.sdus
      BY <1>2, <1>3 DEF UeType, UeFields
    <2> HIDE DEF resets
    <2>2. ue'.change \in {"reset", "resend", "keep"} /\ (ue'.change = "reset" <=> resets)
      <3>1. CASE resets
        BY <2>1, <3>1 DEF resets
      <3>2. CASE ~resets
        BY <2>1, <3>2
      <3> QED
        BY <3>1, <3>2
    <2> QED
      BY <1>3, <2>1, <2>2 DEF UeType, Changes
  <1>7. /\ Drained /\ UnderWay = {} /\ DOMAIN queue = {} /\ e.tokens \in Int /\ e.tokens >= -1
    BY <1>2, RoutineFindsDrained
  <1>8. faults' \in Nat
    <2>1. Cardinality(refused) \in Nat
      BY <1>3, BufferIsFinite
    <2> QED
      BY <1>1, <1>3, <2>1 DEF Fault
  <1>9. OnlyChanges(e, k, {"key"}) /\ k.key = e.key + 1
    BY <1>3 DEF ConfigureSecurity, OnlyChanges, Fields
  <1> HIDE DEF k
  <1>10. EntityType(k)
    BY <1>3, <1>9 DEF EntityType, OnlyChanges, Fields
  <1>11. /\ OnlyChanges(k, ready, {"tokens", "pending_crypto"}) /\ EntityType(ready)
         /\ ready.tokens = k.tokens + 1 /\ ready.pending_crypto = FALSE
    BY <1>10, StartTokensFields
  <1> HIDE DEF ready
  <1>12. /\ OnlyChanges(e, ready, {"key", "tokens", "pending_crypto"})
         /\ ready.key = e.key + 1 /\ ready.tokens = e.tokens + 1
    BY <1>9, <1>11 DEF OnlyChanges, Fields
  <1>13. WindowInv(ready) /\ TimerInv(ready)
    BY <1>3, <1>12 DEF WindowInv, TimerInv, OnlyChanges, Fields
  <1>14. /\ KeepsRest(ready, r) /\ EntityType(r) /\ WindowInv(r) /\ TimerInv(r)
         /\ routine.reest /\ cfg.rlc_mode = "um" =>
              r.rx_next = 0 /\ r.rx_deliv = 0 /\ r.reordering_timer = FALSE
         /\ ~(routine.reest /\ cfg.rlc_mode = "um") => r = ready
    <2>1. CASE routine.reest /\ cfg.rlc_mode = "um"
      <3>1. r = ResetState(DeliverAllSdus([ready EXCEPT !.reordering_timer = FALSE]))
        BY <2>1 DEF Reestablish
      <3> HIDE DEF r
      <3> QED
        BY <1>11, <1>13, <2>1, <3>1, RestartFields
    <2>2. CASE ~(routine.reest /\ cfg.rlc_mode = "um")
      <3>1. r = ready
        BY <1>4, <2>2 DEF Reestablish
      <3> QED
        BY <1>11, <1>13, <2>2, <3>1 DEF KeepsRest, EntityType
    <2> QED
      BY <2>1, <2>2
  <1> HIDE DEF r
  <1>15. /\ r.key = e.key + 1 /\ r.tokens = e.tokens + 1 /\ r.pending_crypto = FALSE
         /\ r.crypto = {} /\ r.stopped = e.stopped /\ r.suspended = e.suspended
         /\ r.pdu_buffer = e.pdu_buffer
    BY <1>7, <1>11, <1>12, <1>14 DEF KeepsRest, OnlyChanges, Fields, Drained
  <1>16. /\ OnlyChanges(r, e', {"tokens", "crypto", "buffering", "pdu_buffer",
                                "resume_requested"})
         /\ EntityType(e') /\ e'.pdu_buffer = <<>> /\ e'.buffering = FALSE
         /\ e'.tokens = r.tokens + Cardinality(e'.crypto)
         /\ \A task \in e'.crypto : task.count < MaxCount /\ task.pdu \in Range(r.pdu_buffer)
    <2>1. EntityType(r) /\ ~r.stopped /\ r.crypto = {} /\ e' = EndBuffering(r, refused)
      BY <1>1, <1>5, <1>14, <1>15
    <2> QED
      BY <2>1, EndBufferingFields
  <1>17. /\ e'.rx_next = r.rx_next /\ e'.rx_deliv = r.rx_deliv /\ e'.rx_reord = r.rx_reord
         /\ e'.rx_window = r.rx_window /\ e'.reordering_timer = r.reordering_timer
         /\ e'.key = e.key + 1 /\ e'.stopped = e.stopped /\ e'.suspended = e.suspended
         /\ e'.pending_crypto = FALSE
    BY <1>15, <1>16 DEF OnlyChanges, Fields
  <1>18. /\ ~(routine.reest /\ cfg.rlc_mode = "um") =>
              /\ e'.rx_next = e.rx_next /\ e'.rx_deliv = e.rx_deliv
              /\ e'.reordering_timer = e.reordering_timer
         /\ routine.reest /\ cfg.rlc_mode = "um" =>
              e'.rx_next = 0 /\ e'.rx_deliv = 0 /\ e'.reordering_timer = FALSE
    <2>1. /\ ready.rx_next = e.rx_next /\ ready.rx_deliv = e.rx_deliv
          /\ ready.reordering_timer = e.reordering_timer
      BY <1>12 DEF OnlyChanges, Fields
    <2> QED
      BY <1>14, <1>17, <2>1
  <1>19. ~Parked' /\ (Parked <=> routine.resumed)
    BY <1>2, <1>5, <1>17 DEF Parked, Idle
  <1>20. Types'
    <2>1. cfg' \in Configs /\ queue' \in Seq(Results) /\ air' \in SUBSET Pdus /\ bearer' = "active"
      BY <1>2, <1>3, <1>5 DEF Types
    <2> QED
      BY <1>2, <1>6, <1>8, <1>16, <2>1 DEF Types, Idle
  <1>21. WindowInv(e)' /\ TimerInv(e)' /\ (e.rx_next - e.rx_deliv <= WindowSize)'
    <2>1. WindowInv(e)' /\ TimerInv(e)'
      BY <1>2, <1>14, <1>15, <1>17 DEF WindowInv, TimerInv
    <2>2. e.rx_next - e.rx_deliv <= WindowSize
      BY DEF IInv
    <2>3. e'.rx_next - e'.rx_deliv <= WindowSize
      BY <1>18, <2>2, WindowIsHalf
    <2> QED
      BY <2>1, <2>3 DEF WindowSize
  <1>22. TokenInv'
    <2>1. IsFiniteSet(e'.crypto) /\ Len(queue') = 0 /\ OwnToken' = 0
      BY <1>2, <1>7, <1>16 DEF EntityType, Drained, OwnToken
    <2>2. Cardinality(e'.crypto) \in Nat
      BY <2>1, FS_CardinalityType
    <2>3. (e.tokens + OwnToken >= Cardinality(e.crypto) + Len(queue))'
      BY <1>7, <1>15, <1>16, <2>1, <2>2
    <2> QED
      BY <1>17, <2>3 DEF TokenInv
  <1>23. ControlInv'
    <2>1. ue'.change = "reset" => e'.rx_next = 0 /\ e'.rx_deliv = 0 /\ ~e'.reordering_timer
      <3>1. routine.resumed => e.rx_next = 0 /\ e.rx_deliv = 0 /\ ~e.reordering_timer
        BY <1>19 DEF IInv, ControlInv
      <3> QED
        BY <1>6, <1>18, <3>1
    <2> QED
      BY <1>2, <1>5, <1>17, <1>19, <2>1 DEF ControlInv, Idle
  <1>24. \A task \in UnderWay' : task \in e'.crypto
    BY <1>2, <1>7 DEF UnderWay
  <1>25. \A task \in e'.crypto : task.count < MaxCount /\ task.pdu.key <= ue.key /\ task.pdu.key \in Nat
    <2>1. \A pdu \in Range(e.pdu_buffer) : pdu.key <= ue.key
      BY DEF IInv, KeyInv
    <2>2. \A task \in e'.crypto : task \in Tasks
      BY <1>16 DEF EntityType
    <2> QED
      BY <1>15, <1>16, <2>1, <2>2 DEF Tasks, Pdus
  <1>26. KeyInv'
    <2>1. Range(e'.pdu_buffer) = {} /\ \A pdu \in air' : pdu.key <= ue'.key
      BY <1>2, <1>6, <1>16 DEF IInv, KeyInv, Range
    <2>2. \A task \in UnderWay' : task.pdu.key <= ue'.key
      BY <1>6, <1>24, <1>25
    <2>3. routine'.step = "idle" /\ e'.key \in 1 .. MaxKeys /\ ue'.key + 1 = e'.key
      BY <1>2, <1>3, <1>5, <1>6, <1>17 DEF Idle
    <2> QED
      BY <1>6, <2>1, <2>2, <2>3 DEF KeyInv
  <1>27. CountInv'
    <2>1. \A task \in UnderWay' : task.count < MaxCount /\ task.pdu.key # e'.key
      BY <1>3, <1>5, <1>17, <1>24, <1>25
    <2>2. /\ ue'.next <= CountModulus /\ \A i \in DOMAIN ue'.sent : ue'.sent[i].count < ue'.next
          /\ \A pdu \in air' :
               pdu.key = ue'.key => ue'.next <= pdu.count + WindowSize /\ pdu.count < ue'.next
      BY <1>2, <1>6 DEF IInv, CountInv
    <2>3. ue'.change # "reset" => e'.rx_next <= ue'.next /\ ue'.next <= e'.rx_deliv + WindowSize
      <3>1. ~Parked => e.rx_next <= ue.next /\ ue.next <= e.rx_deliv + WindowSize
        BY <1>5 DEF IInv, CountInv, Joined
      <3> QED
        BY <1>6, <1>18, <1>19, <3>1
    <2>4. DOMAIN queue' = {}
      BY <1>2, <1>7
    <2> QED
      BY <1>19, <2>1, <2>2, <2>3, <2>4 DEF CountInv, WindowSize
  <1> QED
    BY <1>20, <1>21, <1>22, <1>23, <1>26, <1>27 DEF IInv

\* A released bearer.
LEMMA FinishReleaseKeeps ==
  ASSUME IInv, FinishRelease
  PROVE  IInv'
  <1>1. /\ routine.step = "release" /\ bearer' = "released"
        /\ UNCHANGED <<cfg, e, queue, air, ue, routine, faults>>
    BY DEF FinishRelease
  <1>2. Types' /\ WindowInv(e)' /\ TimerInv(e)' /\ (e.rx_next - e.rx_deliv <= WindowSize)'
    BY <1>1 DEF IInv, Types, WindowInv, TimerInv
  <1>3. TokenInv' /\ ControlInv' /\ KeyInv' /\ CountInv'
    BY <1>1 DEF IInv, TokenInv, OwnToken, Drained, ControlInv, Parked, KeyInv, CountInv, UnderWay,
               Joined
  <1> QED
    BY <1>2, <1>3 DEF IInv

\* The SN status comes: an entity without state takes over the COUNT of the UE.
LEMMA TransferDone ==
  ASSUME IInv, HandoverInv, StatusTransfer
  PROVE  /\ e' = Reestablish(SetCount(e, InitCount)) /\ bearer' = "active"
         /\ KeepsRest(e, e') /\ EntityType(e') /\ WindowInv(e') /\ DOMAIN e'.rx_window = {}
         /\ e'.rx_next = HandedOver /\ e'.rx_deliv = HandedOver /\ ~e'.reordering_timer
         /\ HandedOver \in Nat
         /\ UNCHANGED <<cfg, queue, air, ue, routine, faults>>
         /\ EntityType(SetCount(e, InitCount)) /\ WindowInv(SetCount(e, InitCount))
         /\ SetCount(e, InitCount).delivered = e.delivered
         /\ SetCount(e, InitCount).rx_window = e.rx_window
  <1> DEFINE s == SetCount(e, InitCount)
             done == Reestablish(s)
  <1>1. /\ bearer = "handover" /\ bearer' = "active"
        /\ e' \in {done} \cup IF e.crypto = {} THEN {} ELSE {[done EXCEPT !.failed = TRUE]}
        /\ UNCHANGED <<cfg, queue, air, ue, routine, faults>>
    BY DEF StatusTransfer
  <1>2. EntityType(e) /\ DOMAIN e = Fields
    BY DEF IInv, Types, EntityType
  <1>3. e.crypto = {} /\ DOMAIN e.rx_window = {} /\ ~e.reordering_timer
    BY <1>1 DEF HandoverInv, Drained
  <1>4. e' = done
    BY <1>1, <1>3
  <1>5. InitCount \in Nat /\ InitCount <= MaxCount /\ MaxCount \in Nat
    BY PdcpRxAssumption
  <1>6. /\ KeepsRest(e, s) /\ s.rx_next = InitCount /\ s.rx_deliv = InitCount
        /\ s.rx_reord = InitCount /\ s.rx_window = e.rx_window
        /\ s.reordering_timer = e.reordering_timer /\ s.delivered = e.delivered
    BY <1>2 DEF SetCount, KeepsRest, Fields
  <1> HIDE DEF s
  <1>7. EntityType(s) /\ WindowInv(s)
    BY <1>2, <1>3, <1>5, <1>6 DEF EntityType, WindowInv, KeepsRest
  <1>8. CASE cfg.rlc_mode = "um"
    <2> DEFINE t == ResetState(DeliverAllSdus([s EXCEPT !.reordering_timer = FALSE]))
    <2>1. e' = t
      BY <1>4, <1>8 DEF Reestablish
    <2>2. /\ KeepsRest(s, t) /\ EntityType(t) /\ WindowInv(t) /\ t.rx_next = 0
          /\ t.rx_deliv = 0 /\ t.reordering_timer = FALSE
      BY <1>7, RestartFields
    <2> HIDE DEF t
    <2>3. DOMAIN t.rx_window = {}
      BY <2>2 DEF WindowInv
    <2> QED
      BY <1>1, <1>4, <1>6, <1>7, <1>8, <2>1, <2>2, <2>3 DEF KeepsRest, HandedOver, s
  <1>9. CASE cfg.rlc_mode # "um"
    <2>1. e' = s
      BY <1>4, <1>9 DEF Reestablish
    <2> QED
      BY <1>1, <1>3, <1>4, <1>5, <1>6, <1>7, <1>9, <2>1 DEF HandedOver, s
  <1> QED
    BY <1>8, <1>9

LEMMA StatusTransferKeeps ==
  ASSUME IInv, HandoverInv, StatusTransfer
  PROVE  IInv'
  <1>1. /\ bearer' = "active" /\ KeepsRest(e, e') /\ EntityType(e') /\ WindowInv(e')
        /\ e'.rx_next = HandedOver /\ e'.rx_deliv = HandedOver /\ ~e'.reordering_timer
        /\ HandedOver \in Nat /\ UNCHANGED <<cfg, queue, air, ue, routine, faults>>
    BY TransferDone
  <1>2. /\ ~e.suspended /\ ue.next = HandedOver /\ ue.change = "none" /\ routine = Idle
        /\ routine.step = "idle"
    BY DEF HandoverInv, StatusTransfer, Idle
  <1>3. ~Parked /\ ~Parked'
    BY <1>1, <1>2 DEF Parked, KeepsRest
  <1>4. Types'
    BY <1>1 DEF IInv, Types
  <1>5. /\ WindowInv(e)' /\ TimerInv(e)' /\ (e.rx_next - e.rx_deliv <= WindowSize)'
    <2>1. WindowInv(e)' /\ TimerInv(e)'
      BY <1>1 DEF WindowInv, TimerInv
    <2> QED
      BY <1>1, <2>1, WindowIsHalf DEF WindowSize
  <1>6. TokenInv'
    BY <1>1 DEF IInv, TokenInv, OwnToken, Drained, KeepsRest
  <1>7. ControlInv'
    BY <1>1, <1>2, <1>3 DEF IInv, ControlInv, KeepsRest
  <1>8. KeyInv'
    BY <1>1 DEF IInv, KeyInv, UnderWay, KeepsRest
  <1>9. CountInv'
    <2>1. e'.rx_next <= ue.next /\ ue.next <= e'.rx_deliv + WindowSize
      BY <1>1, <1>2, WindowIsHalf
    <2> QED
      BY <1>1, <2>1 DEF IInv, CountInv, UnderWay, KeepsRest
  <1> QED
    BY <1>4, <1>5, <1>6, <1>7, <1>8, <1>9 DEF IInv

\* Before it comes, the bearer may only be released.
LEMMA HandoverSteps ==
  ASSUME IInv, HandoverInv, TimelyNext, bearer = "handover"
  PROVE  StatusTransfer \/ RequestRelease \/ FinishRelease
  <1>1. /\ air = {} /\ e.crypto = {} /\ queue = <<>> /\ ~e.reordering_timer
        /\ ue.change = "none" /\ routine.step \notin {"suspend", "rekey"}
    BY DEF HandoverInv, Drained, IInv, ControlInv
  <1> QED
    BY <1>1 DEF TimelyNext, TimelySend, OtherStep, UeSwitch, PduArrives, ApplySecurity,
                ProcessVerified, TakeResult, TReorderingExpiry, RequestSuspend, RequestRekey,
                FinishSuspend, FinishRekey

\* No step leads to the state before the transfer, and a release keeps it.
LEMMA HandoverStepKeeps ==
  ASSUME IInv, HandoverInv, TimelyNext
  PROVE  HandoverInv'
  <1> SUFFICES ASSUME bearer' = "handover"
               PROVE  HandoverInv'
    BY DEF HandoverInv
  <1>1. bearer = "handover"
    BY DEF TimelyNext, TimelySend, UeSend, OtherStep, UeSwitch, PduArrives, ApplySecurity,
           ProcessVerified, TReorderingExpiry, StatusTransfer, RequestSuspend, RequestRekey,
           RequestRelease, FinishSuspend, FinishRekey, FinishRelease
  <1>2. RequestRelease
    BY <1>1, HandoverSteps DEF StatusTransfer, FinishRelease
  <1>3. e' = Stop(e) /\ UNCHANGED <<cfg, queue, air, ue>> /\ DOMAIN e = Fields
    BY <1>2 DEF RequestRelease, IInv, Types, EntityType
  <1>4. /\ e'.crypto = e.crypto /\ e'.rx_window = e.rx_window /\ ~e'.reordering_timer
        /\ e'.suspended = e.suspended /\ e'.rx_next = e.rx_next /\ e'.rx_deliv = e.rx_deliv
    BY <1>3 DEF Stop, ReturnToken, Fields
  <1> QED
    BY <1>1, <1>3, <1>4 DEF HandoverInv, Drained, HandedOver

\* The invariant is inductive.
LEMMA InvStep == IInv /\ HandoverInv /\ [TimelyNext]_vars => IInv' /\ HandoverInv'
  <1> SUFFICES ASSUME IInv, HandoverInv, [TimelyNext]_vars PROVE IInv' /\ HandoverInv'
    OBVIOUS
  <1>1. CASE UNCHANGED vars
    <2>1. UNCHANGED <<cfg, e, queue, air, ue, routine, bearer, faults>>
      BY <1>1 DEF vars
    <2>2. Types' /\ WindowInv(e)' /\ TimerInv(e)' /\ (e.rx_next - e.rx_deliv <= WindowSize)'
      BY <2>1 DEF IInv, Types, WindowInv, TimerInv
    <2>3. TokenInv' /\ ControlInv' /\ KeyInv' /\ CountInv'
      BY <2>1 DEF IInv, TokenInv, OwnToken, Drained, ControlInv, Parked, KeyInv, CountInv,
                  UnderWay, Joined
    <2>4. HandoverInv'
      BY <2>1 DEF HandoverInv, Drained, HandedOver
    <2> QED
      BY <2>2, <2>3, <2>4 DEF IInv
  <1>2. CASE TimelyNext
    <2>1. CASE bearer = "handover"
      <3>1. StatusTransfer \/ RequestRelease \/ FinishRelease
        BY <1>2, <2>1, HandoverSteps
      <3>2. IInv'
        BY <3>1, StatusTransferKeeps, RequestReleaseKeeps, FinishReleaseKeeps
      <3> QED
        BY <1>2, <3>2, HandoverStepKeeps
    <2>2. CASE bearer # "handover"
      <3>1. ~StatusTransfer
        BY <2>2 DEF StatusTransfer
      <3>2. IInv'
        BY <1>2, <2>2, <3>1, UeSendKeeps, UeSwitchKeeps, PduArrivesKeeps, ApplySecurityKeeps,
           ProcessVerifiedKeeps, TReorderingExpiryKeeps, RequestSuspendKeeps, RequestRekeyKeeps,
           RequestReleaseKeeps, FinishSuspendKeeps, FinishRekeyKeeps, FinishReleaseKeeps
        DEF TimelyNext, TimelySend, OtherStep
      <3> QED
        BY <1>2, <3>2, HandoverStepKeeps
    <2> QED
      BY <2>1, <2>2
  <1> QED
    BY <1>1, <1>2

-----------------------------------------------------------------------------
(* Results.                                                                *)

\* The strengthened invariant holds in every reachable state.
THEOREM InvAlways == TimelySpec => [](IInv /\ HandoverInv)
  <1>1. Init => HandoverInv
    <2> SUFFICES ASSUME Init, bearer = "handover" PROVE HandoverInv
      BY DEF HandoverInv
    <2>1. /\ air = {} /\ queue = <<>> /\ e.crypto = {} /\ e.rx_window = <<>>
          /\ e.reordering_timer = FALSE /\ e.suspended = FALSE
          /\ e.rx_next = 0 /\ e.rx_deliv = 0
          /\ ue.next = HandedOver /\ ue.sent = <<>> /\ ue.change = "none"
      BY DEF Init
    <2>2. DOMAIN e.rx_window = {}
      BY <2>1
    <2> QED
      BY <2>1, <2>2 DEF HandoverInv, Drained
  <1>2. IInv /\ HandoverInv /\ [TimelySend \/ OtherStep]_vars => (IInv /\ HandoverInv)'
    BY InvStep DEF TimelyNext
  <1> QED
    BY <1>1, <1>2, InvInit, PTL DEF TimelySpec

\* RX_DELIV, the held SDUs and RX_NEXT keep their order and stay within a window and
\* below the limit of COUNT, for every SN length: the window of handle_data_pdu and
\* apply_reordering never overflows.
THEOREM WindowAndTypes == TimelySpec => []TypeOK
  <1>1. ASSUME IInv
        PROVE  TypeOK
    <2>1. /\ e.rx_next \in Nat /\ e.rx_deliv \in Nat /\ e.rx_reord \in Nat /\ e.tokens \in Int
          /\ IsFiniteSet(e.crypto) /\ queue \in Seq(Results) /\ MaxCount \in Nat
      BY <1>1, PdcpRxAssumption DEF IInv, Types, EntityType
    <2>2. {e.rx_next, e.rx_deliv, e.rx_reord} \subseteq 0 .. MaxCount
      BY <1>1, <2>1 DEF IInv, WindowInv
    <2>3. e.tokens \in Nat \cup {-1}
      <3>1. Cardinality(e.crypto) \in Nat /\ Len(queue) \in Nat /\ OwnToken \in {0, 1}
        BY <2>1, FS_CardinalityType DEF OwnToken
      <3>2. e.tokens + OwnToken >= Cardinality(e.crypto) + Len(queue)
        BY <1>1 DEF IInv, TokenInv
      <3> QED
        BY <2>1, <3>1, <3>2
    <2>4. \A task \in e.crypto : task.count \in 0 .. MaxCount
      <3>1. \A task \in e.crypto : task \in Tasks /\ task.count < MaxCount
        BY <1>1, UnderWayTypes DEF IInv, CountInv, UnderWay
      <3> QED
        BY <2>1, <3>1 DEF Tasks
    <2>5. routine.step \in {"idle", "suspend", "rekey", "release"}
      BY <1>1 DEF IInv, Types
    <2> QED
      BY <1>1, <2>2, <2>3, <2>4, <2>5 DEF IInv, Types, WindowInv, KeyInv, TypeOK
  <1> QED
    BY <1>1, InvAlways, PTL

\* t-Reordering runs exactly while something is missing and for an RX_REORD that is
\* ahead, so that the loop of handle_t_reordering_expire ends.
THEOREM GapsAreGuarded == TimelySpec => []TimerGuardsGap
  <1>1. IInv => TimerGuardsGap
    BY DEF IInv, TimerInv, TimerGuardsGap
  <1> QED
    BY <1>1, InvAlways, PTL

\* handle_data_pdu recovers the COUNT of every PDU of the present key, for every SN
\* length and whatever the workers and the queue hold.
THEOREM CountsAreRecovered == TimelySpec => []CountRecovered
  <1>1. IInv => CountRecovered
    BY DEF IInv, CountInv, UnderWay, CountRecovered
  <1> QED
    BY <1>1, InvAlways, PTL

\* The key changes, and RX_DELIV goes back, only when no PDU is with a worker or on its
\* way back to the strand: suspend, set_security_config and the reestablish that follows
\* it wait for the crypto tokens, so no PDU is verified or ordered with state of another
\* key.  The reestablish of a status transfer does not wait; it relies on TimelySpec.
RestartsDrained == [][e'.key # e.key \/ e'.rx_deliv < e.rx_deliv => Drained]_vars

\* The steps of the UE, the workers, the strand and the timer do not change the key and
\* move RX_DELIV forward; the others find nothing under way.
LEMMA StepsForward ==
  ASSUME IInv, HandoverInv, TimelyNext
  PROVE  e'.key # e.key \/ e'.rx_deliv < e.rx_deliv => Drained
  <1>1. /\ EntityType(e) /\ WindowInv(e) /\ TimerInv(e) /\ cfg \in Configs /\ air \subseteq Pdus
        /\ e.rx_deliv \in Nat /\ e.rx_reord \in Nat /\ queue \in Seq(Results) /\ DOMAIN e = Fields
        /\ e.stopped \in BOOLEAN
    BY DEF IInv, Types, EntityType
  <1>2. CASE UeSend \/ UeSwitch \/ FinishRelease
    <2>1. e' = e
      BY <1>2 DEF UeSend, UeSwitch, FinishRelease
    <2> QED
      BY <1>1, <2>1
  <1>3. CASE PduArrives
    <2>1. PICK pdu \in air, refused \in BOOLEAN : e' = HandlePdu(e, pdu, refused)
      BY <1>3 DEF PduArrives
    <2>2. OnlyChanges(e, e', {"resume_requested", "pdu_buffer", "tokens", "crypto",
                              "pending_crypto"})
      BY <1>1, <2>1, HandlePduFields
    <2>3. e'.key = e.key /\ e'.rx_deliv = e.rx_deliv
      BY <2>2 DEF OnlyChanges, Fields
    <2> QED
      BY <1>1, <2>3
  <1>4. CASE ApplySecurity
    <2>1. PICK task \in e.crypto, full \in BOOLEAN :
            LET done == [e EXCEPT !.crypto = @ \ {task}]
            IN e' = IF full THEN ReturnToken(done) ELSE done
      BY <1>4 DEF ApplySecurity
    <2>2. e'.key = e.key /\ e'.rx_deliv = e.rx_deliv
      BY <1>1, <2>1 DEF ReturnToken, Fields
    <2> QED
      BY <1>1, <2>2
  <1>5. CASE ProcessVerified
    <2> DEFINE head == Head(queue)
               m == IF head.ok THEN ApplyReordering(e, head.task) ELSE e
    <2>1. queue # <<>> /\ e' = ReturnToken(m)
      BY <1>5 DEF ProcessVerified, TakeResult
    <2>2. head.task \in UnderWay
      BY <1>1, <2>1 DEF UnderWay
    <2> HIDE DEF head
    <2>3. head.task.count \in Nat /\ head.task.count < MaxCount
      BY <2>2, UnderWayTypes DEF IInv, CountInv, Tasks
    <2>4. KeepsRest(e, m) /\ EntityType(m) /\ e.rx_deliv <= m.rx_deliv
      <3>1. CASE head.ok
        BY <1>1, <2>3, <3>1, ReorderingFields
      <3>2. CASE ~head.ok
        BY <1>1, <3>2 DEF KeepsRest
      <3> QED
        BY <3>1, <3>2
    <2> HIDE DEF m
    <2>5. OnlyChanges(m, e', {"tokens", "pending_crypto"})
      BY <2>1, <2>4, ReturnTokenFields
    <2>6. e'.key = e.key /\ e'.rx_deliv = m.rx_deliv /\ m.rx_deliv \in Nat
      BY <2>4, <2>5 DEF OnlyChanges, Fields, KeepsRest, EntityType
    <2> QED
      BY <1>1, <2>4, <2>6
  <1>6. CASE TReorderingExpiry
    <2>1. /\ e.reordering_timer
          /\ e' = IF e.stopped THEN [e EXCEPT !.reordering_timer = FALSE]
                  ELSE HandleTReorderingExpire(e)
      BY <1>6 DEF TReorderingExpiry
    <2>2. CASE e.stopped
      <3>1. e'.key = e.key /\ e'.rx_deliv = e.rx_deliv
        BY <1>1, <2>1, <2>2 DEF Fields
      <3> QED
        BY <1>1, <3>1
    <2>3. CASE ~e.stopped
      <3>1. e.rx_deliv < e.rx_reord /\ e.rx_reord <= e.rx_next
        BY <1>1, <2>1, <2>3 DEF TimerInv
      <3>2. KeepsRest(e, e') /\ EntityType(e') /\ e.rx_reord <= e'.rx_deliv
        BY <1>1, <2>1, <2>3, <3>1, ExpireFields
      <3>3. e'.rx_deliv \in Nat /\ e'.key = e.key
        BY <3>2 DEF EntityType, KeepsRest
      <3> QED
        BY <1>1, <3>1, <3>2, <3>3
    <2> QED
      BY <1>1, <2>2, <2>3
  <1>7. CASE RequestSuspend \/ RequestRekey \/ RequestRelease
    <2>1. e'.key = e.key /\ e'.rx_deliv = e.rx_deliv
      BY <1>1, <1>7 DEF RequestSuspend, RequestRekey, RequestRelease, Await, Resume, Stop,
                        ReturnToken, Fields
    <2> QED
      BY <1>1, <2>1
  <1>8. CASE FinishSuspend \/ FinishRekey
    <2>1. e.pending_crypto
      BY <1>8 DEF FinishSuspend, FinishRekey
    <2> QED
      BY <2>1 DEF IInv, TokenInv
  <1>9. CASE StatusTransfer
    BY <1>9 DEF StatusTransfer, HandoverInv
  <1> QED
    BY <1>2, <1>3, <1>4, <1>5, <1>6, <1>7, <1>8, <1>9 DEF TimelyNext, TimelySend, OtherStep

\* RestartsDrained holds for any number of PDUs, workers and refused tasks, if the SN
\* status of a handover is timely: the event of the token manager is never early.
THEOREM RestartsAreDrained == TimelySpec => RestartsDrained
  <1>1. IInv /\ HandoverInv /\ [TimelySend \/ OtherStep]_vars
          => [e'.key # e.key \/ e'.rx_deliv < e.rx_deliv => Drained]_vars
    BY StepsForward DEF TimelyNext
  <1> QED
    BY <1>1, InvAlways, PTL DEF TimelySpec, RestartsDrained

-----------------------------------------------------------------------------
(* The refinement of PdcpService.  SDUs are numbered in the order in which *)
(* they are sent; so are COUNTs, as long as the UE does not start again.   *)

\* The SDUs of the UE since it last started: a larger COUNT is a later SDU.
SentOrder(sent, n) ==
  /\ sent \in Seq(Sdus)
  /\ \A i \in DOMAIN sent : sent[i].sdu \in 1 .. n
  /\ \A i, j \in DOMAIN sent : sent[i].count < sent[j].count => sent[i].sdu < sent[j].sdu

Sent(sent, count, sdu) == \E i \in DOMAIN sent : sent[i].count = count /\ sent[i].sdu = sdu

\* Delivered SDUs of the n sent, in order.
DeliveredInOrder(d, n) ==
  /\ d \in Seq(Nat) /\ Service!Ascending(d)
  /\ \A k \in DOMAIN d : d[k] \in 1 .. n

\* All SDUs from this COUNT on are later than those delivered.
LaterThan(d, sent, low) ==
  \A i \in DOMAIN sent, k \in DOMAIN d : sent[i].count >= low => d[k] < sent[i].sdu

\* What is held has been sent with its COUNT.
HeldWasSent(window, sent) == \A c \in DOMAIN window : Sent(sent, c, window[c])

Orderly(s, sent, n) ==
  /\ DeliveredInOrder(s.delivered, n) /\ LaterThan(s.delivered, sent, s.rx_deliv)
  /\ HeldWasSent(s.rx_window, sent)

\* What has been delivered stays delivered.
Longer(d, f) == Len(d) <= Len(f) /\ \A k \in 1 .. Len(d) : f[k] = d[k]

OrderInv ==
  /\ SentOrder(ue.sent, ue.sdus) /\ DeliveredInOrder(e.delivered, ue.sdus)
  /\ \A pdu \in air : pdu.key = ue.key => Sent(ue.sent, pdu.count, pdu.sdu)
  /\ \A task \in UnderWay : task.pdu.key = e.key => Sent(ue.sent, task.pdu.count, task.pdu.sdu)
  /\ ~Parked /\ ue.change # "reset" => Orderly(e, ue.sent, ue.sdus)

-----------------------------------------------------------------------------
(* Delivering in ascending order of COUNT.                                 *)

\* Held SDUs between two COUNTs go to SDAP after what it has, and before the rest.
LEMMA AppendHeld ==
  ASSUME NEW n \in Nat, NEW sent, SentOrder(sent, n),
         NEW window, HeldWasSent(window, sent),
         NEW a \in Nat, NEW b \in Nat, a <= b,
         NEW d, DeliveredInOrder(d, n), LaterThan(d, sent, a),
         NEW S, S \subseteq DOMAIN window, S \subseteq a .. (b - 1)
  PROVE  LET held == InOrder(S)
             f == d \o [i \in DOMAIN held |-> window[held[i]]]
         IN DeliveredInOrder(f, n) /\ LaterThan(f, sent, b) /\ Longer(d, f)
  <1> DEFINE held == InOrder(S)
             g == [i \in DOMAIN held |-> window[held[i]]]
             f == d \o g
  <1>1. S \in SUBSET Nat /\ IsFiniteSet(S)
    <2>1. IsFiniteSet(a .. (b - 1))
      BY FS_Interval
    <2> QED
      BY <2>1, FS_Subset
  <1>2. /\ held \in Seq(S) /\ \A i, j \in DOMAIN held : i < j => held[i] < held[j]
    BY <1>1, InOrderSorts
  <1> HIDE DEF held
  <1>3. /\ \A i \in DOMAIN sent : sent[i].count \in Nat /\ sent[i].sdu \in 1 .. n
        /\ \A i, j \in DOMAIN sent : sent[i].count < sent[j].count => sent[i].sdu < sent[j].sdu
    <2>1. \A i \in DOMAIN sent : sent[i] \in Sdus
      BY DEF SentOrder
    <2>2. \A i \in DOMAIN sent : sent[i].count \in Nat
      BY <2>1 DEF Sdus
    <2> QED
      BY <2>2 DEF SentOrder
  <1>4. /\ DOMAIN held = 1 .. Len(held) /\ Len(held) \in Nat
        /\ \A i \in DOMAIN held : held[i] \in S /\ held[i] \in Nat /\ a <= held[i] /\ held[i] < b
    <2>1. DOMAIN held = 1 .. Len(held) /\ Len(held) \in Nat /\ \A i \in DOMAIN held : held[i] \in S
      BY <1>2
    <2>2. \A c \in S : c \in a .. (b - 1)
      OBVIOUS
    <2>3. \A c \in S : c \in Nat /\ a <= c /\ c < b
      BY <2>2
    <2> QED
      BY <2>1, <2>3
  <1>5. \A i \in DOMAIN held : \E m \in DOMAIN sent : sent[m].count = held[i] /\ sent[m].sdu = g[i]
    BY <1>4 DEF HeldWasSent, Sent
  <1>6. DOMAIN g = 1 .. Len(held)
    BY <1>4
  <1> HIDE DEF g
  <1>7. \A i \in DOMAIN held : g[i] \in 1 .. n /\ g[i] \in Nat
    BY <1>3, <1>5
  <1>8. g \in Seq(Nat) /\ Len(g) = Len(held)
    <2>1. g = [i \in 1 .. Len(held) |-> g[i]]
      BY <1>6 DEF g
    <2> QED
      BY <1>4, <1>6, <1>7, <2>1
  <1>9. /\ d \in Seq(Nat) /\ Len(d) \in Nat /\ DOMAIN d = 1 .. Len(d)
        /\ \A k \in DOMAIN d : d[k] \in 1 .. n /\ d[k] \in Nat
        /\ \A k, l \in DOMAIN d : k < l => d[k] < d[l]
    BY DEF DeliveredInOrder, Service!Ascending
  <1>10. /\ f \in Seq(Nat) /\ Len(f) = Len(d) + Len(held)
         /\ \A k \in 1 .. Len(d) : f[k] = d[k]
         /\ \A k \in (Len(d) + 1) .. (Len(d) + Len(held)) : f[k] = g[k - Len(d)]
    <2>1. d \in Seq(Nat) /\ g \in Seq(Nat)
      BY <1>8, <1>9
    <2>2. /\ f \in Seq(Nat) /\ Len(f) = Len(d) + Len(g)
          /\ \A k \in 1 .. (Len(d) + Len(g)) : f[k] = IF k <= Len(d) THEN d[k] ELSE g[k - Len(d)]
      BY <2>1, ConcatProperties
    <2> HIDE DEF f
    <2>3. Len(d) \in Nat /\ Len(held) \in Nat /\ Len(g) = Len(held)
      BY <1>4, <1>8, <1>9
    <2>4. \A k \in 1 .. Len(d) : f[k] = d[k]
      <3> SUFFICES ASSUME NEW k \in 1 .. Len(d) PROVE f[k] = d[k]
        OBVIOUS
      <3>1. k \in 1 .. (Len(d) + Len(g)) /\ k <= Len(d)
        BY <2>3
      <3> QED
        BY <2>2, <3>1
    <2>5. \A k \in (Len(d) + 1) .. (Len(d) + Len(held)) : f[k] = g[k - Len(d)]
      <3> SUFFICES ASSUME NEW k \in (Len(d) + 1) .. (Len(d) + Len(held))
                   PROVE  f[k] = g[k - Len(d)]
        OBVIOUS
      <3>1. k \in 1 .. (Len(d) + Len(g)) /\ ~(k <= Len(d))
        BY <2>3
      <3> QED
        BY <2>2, <3>1
    <2> QED
      BY <2>2, <2>3, <2>4, <2>5
  <1> HIDE DEF f
  <1>11. DOMAIN f = 1 .. (Len(d) + Len(held))
    BY <1>10
  <1>12. \A i, j \in DOMAIN held : i < j => g[i] < g[j]
    <2> SUFFICES ASSUME NEW i \in DOMAIN held, NEW j \in DOMAIN held, i < j PROVE g[i] < g[j]
      OBVIOUS
    <2>1. PICK x \in DOMAIN sent : sent[x].count = held[i] /\ sent[x].sdu = g[i]
      BY <1>5
    <2>2. PICK y \in DOMAIN sent : sent[y].count = held[j] /\ sent[y].sdu = g[j]
      BY <1>5
    <2>3. held[i] < held[j]
      BY <1>2
    <2> QED
      BY <1>3, <2>1, <2>2, <2>3
  <1>13. \A k \in DOMAIN d, i \in DOMAIN held : d[k] < g[i]
    <2> SUFFICES ASSUME NEW k \in DOMAIN d, NEW i \in DOMAIN held PROVE d[k] < g[i]
      OBVIOUS
    <2>1. PICK x \in DOMAIN sent : sent[x].count = held[i] /\ sent[x].sdu = g[i]
      BY <1>5
    <2>2. sent[x].count >= a
      BY <1>4, <2>1
    <2> QED
      BY <2>1, <2>2 DEF LaterThan
  <1>14. ASSUME NEW k \in DOMAIN f
         PROVE  \/ k \in DOMAIN d /\ f[k] = d[k]
                \/ k - Len(d) \in DOMAIN held /\ f[k] = g[k - Len(d)] /\ k > Len(d)
    <2>1. k \in 1 .. (Len(d) + Len(held))
      BY <1>11
    <2>2. CASE k <= Len(d)
      BY <1>9, <1>10, <2>1, <2>2
    <2>3. CASE k > Len(d)
      <3>1. k \in (Len(d) + 1) .. (Len(d) + Len(held)) /\ k - Len(d) \in 1 .. Len(held)
        BY <1>4, <1>9, <2>1, <2>3
      <3> QED
        BY <1>4, <1>10, <2>3, <3>1
    <2> QED
      BY <1>9, <2>1, <2>2, <2>3
  <1>15. Service!Ascending(f)
    <2> SUFFICES ASSUME NEW k \in DOMAIN f, NEW l \in DOMAIN f, k < l PROVE f[k] < f[l]
      BY DEF Service!Ascending
    <2>1. k \in Nat /\ l \in Nat
      BY <1>9, <1>4, <1>11
    <2>2. CASE l \in DOMAIN d /\ f[l] = d[l]
      <3>1. k \in DOMAIN d /\ f[k] = d[k]
        BY <1>9, <1>10, <2>1, <2>2
      <3> QED
        BY <1>9, <2>2, <3>1
    <2>3. CASE l - Len(d) \in DOMAIN held /\ f[l] = g[l - Len(d)] /\ l > Len(d)
      <3>1. CASE k \in DOMAIN d /\ f[k] = d[k]
        BY <1>13, <2>3, <3>1
      <3>2. CASE k - Len(d) \in DOMAIN held /\ f[k] = g[k - Len(d)] /\ k > Len(d)
        <4>1. k - Len(d) < l - Len(d)
          BY <1>9, <2>1
        <4> QED
          BY <1>12, <2>3, <3>2, <4>1
      <3> QED
        BY <1>14, <3>1, <3>2
    <2> QED
      BY <1>14, <2>2, <2>3
  <1>16. \A k \in DOMAIN f : f[k] \in 1 .. n
    BY <1>7, <1>9, <1>14
  <1>17. LaterThan(f, sent, b)
    <2> SUFFICES ASSUME NEW i \in DOMAIN sent, NEW k \in DOMAIN f, sent[i].count >= b
                 PROVE  f[k] < sent[i].sdu
      BY DEF LaterThan
    <2>1. CASE k \in DOMAIN d /\ f[k] = d[k]
      <3>1. sent[i].count >= a
        BY <1>3
      <3> QED
        BY <2>1, <3>1 DEF LaterThan
    <2>2. CASE k - Len(d) \in DOMAIN held /\ f[k] = g[k - Len(d)]
      <3>1. PICK x \in DOMAIN sent : sent[x].count = held[k - Len(d)] /\ sent[x].sdu = g[k - Len(d)]
        BY <1>5, <2>2
      <3>2. sent[x].count < sent[i].count
        BY <1>3, <1>4, <2>2, <3>1
      <3> QED
        BY <1>3, <2>2, <3>1, <3>2
    <2> QED
      BY <1>14, <2>1, <2>2
  <1>18. Longer(d, f)
    BY <1>4, <1>9, <1>10 DEF Longer
  <1> QED
    BY <1>10, <1>15, <1>16, <1>17, <1>18 DEF DeliveredInOrder, f, g, held

\* s has become t by delivering some of what it held.
Delivers(s, t, sent, n) == Orderly(t, sent, n) /\ Longer(s.delivered, t.delivered)

\* Delivery on delivery.
LEMMA LongerTrans ==
  ASSUME NEW d \in Seq(Nat), NEW f \in Seq(Nat), NEW g \in Seq(Nat), Longer(d, f), Longer(f, g)
  PROVE  Longer(d, g)
  <1>1. Len(d) \in Nat /\ Len(f) \in Nat /\ Len(g) \in Nat
    OBVIOUS
  <1> QED
    BY <1>1 DEF Longer

\* The first b COUNTs: afterwards all that is delivered is before the SDUs from b on.
LEMMA DeliverOrderly ==
  ASSUME NEW s, DOMAIN s = Fields, s.rx_deliv \in Nat, NEW n \in Nat,
         NEW sent, SentOrder(sent, n), Orderly(s, sent, n),
         NEW b \in Nat, s.rx_deliv <= b
  PROVE  LET t == Deliver(s, s.rx_deliv .. (b - 1))
         IN /\ DeliveredInOrder(t.delivered, n) /\ LaterThan(t.delivered, sent, b)
            /\ HeldWasSent(t.rx_window, sent) /\ Longer(s.delivered, t.delivered)
  <1> DEFINE a == s.rx_deliv
             counts == a .. (b - 1)
             S == counts \cap DOMAIN s.rx_window
             held == InOrder(S)
             t == Deliver(s, counts)
             f == s.delivered \o [i \in DOMAIN held |-> s.rx_window[held[i]]]
  <1>1. /\ t.delivered = f
        /\ t.rx_window = [c \in DOMAIN s.rx_window \ counts |-> s.rx_window[c]]
    BY DEF Deliver, Fields
  <1>2. /\ HeldWasSent(s.rx_window, sent) /\ DeliveredInOrder(s.delivered, n)
        /\ LaterThan(s.delivered, sent, a) /\ S \subseteq DOMAIN s.rx_window
        /\ S \subseteq a .. (b - 1) /\ a \in Nat /\ a <= b
    BY DEF Orderly
  <1>3. DeliveredInOrder(f, n) /\ LaterThan(f, sent, b) /\ Longer(s.delivered, f)
    <2> HIDE DEF S, counts, a
    <2> QED
      BY <1>2, AppendHeld
  <1>4. HeldWasSent(t.rx_window, sent)
    BY <1>1, <1>2 DEF HeldWasSent
  <1> QED
    BY <1>1, <1>3, <1>4

\* deliver_all_consecutive_counts
LEMMA ConsecutiveOrderly ==
  ASSUME NEW s, DOMAIN s = Fields, s.rx_deliv \in Nat, s.rx_next \in Nat, s.rx_deliv <= s.rx_next,
         NEW n \in Nat, NEW sent, SentOrder(sent, n), Orderly(s, sent, n)
  PROVE  Delivers(s, DeliverAllConsecutiveCounts(s), sent, n)
  <1> DEFINE S == {c \in s.rx_deliv .. s.rx_next : c = s.rx_next \/ ~Has(s, c)}
             end == Min(S)
             d == Deliver(s, s.rx_deliv .. (end - 1))
             t == DeliverAllConsecutiveCounts(s)
  <1>1. S \in SUBSET Nat /\ s.rx_next \in S
    OBVIOUS
  <1>2. end \in S
    BY <1>1, MinIn
  <1>3. t = [d EXCEPT !.rx_deliv = end]
    BY DEF DeliverAllConsecutiveCounts
  <1> HIDE DEF end, d, t
  <1>4. end \in Nat /\ s.rx_deliv <= end
    BY <1>2
  <1> HIDE DEF S
  <1>5. DOMAIN d = Fields
    BY DeliverFields DEF d, KeepsRest
  <1>6. t.rx_deliv = end /\ t.delivered = d.delivered /\ t.rx_window = d.rx_window
    BY <1>3, <1>5 DEF Fields
  <1>7. /\ DeliveredInOrder(d.delivered, n) /\ LaterThan(d.delivered, sent, end)
        /\ HeldWasSent(d.rx_window, sent) /\ Longer(s.delivered, d.delivered)
    BY <1>4, DeliverOrderly DEF d
  <1> QED
    BY <1>6, <1>7 DEF Delivers, Orderly, t

\* handle_t_reordering_expire
LEMMA ExpireOrderly ==
  ASSUME NEW s, EntityType(s), WindowInv(s), s.rx_deliv <= s.rx_reord, s.rx_reord <= s.rx_next,
         NEW n \in Nat, NEW sent, SentOrder(sent, n), Orderly(s, sent, n)
  PROVE  Delivers(s, HandleTReorderingExpire(s), sent, n)
  <1> DEFINE off == [s EXCEPT !.reordering_timer = FALSE]
             d == Deliver(off, s.rx_deliv .. (s.rx_reord - 1))
             u == [d EXCEPT !.rx_deliv = s.rx_reord]
             g == DeliverAllConsecutiveCounts(u)
             t == HandleTReorderingExpire(s)
  <1>1. /\ t = IF g.rx_deliv < g.rx_next /\ cfg.t_reordering # "ms0"
               THEN [g EXCEPT !.rx_reord = g.rx_next, !.reordering_timer = TRUE] ELSE g
    BY DEF HandleTReorderingExpire
  <1>2. /\ DOMAIN s = Fields /\ s.rx_next \in Nat /\ s.rx_deliv \in Nat /\ s.rx_reord \in Nat
        /\ DOMAIN s.rx_window \subseteq s.rx_deliv .. (s.rx_next - 1)
    BY DEF EntityType, WindowInv
  <1>3. /\ DOMAIN off = Fields /\ off.rx_next = s.rx_next /\ off.rx_deliv = s.rx_deliv
        /\ off.rx_window = s.rx_window /\ off.delivered = s.delivered
    BY <1>2 DEF Fields
  <1> HIDE DEF off, t
  <1>4. /\ DeliveredInOrder(d.delivered, n) /\ LaterThan(d.delivered, sent, s.rx_reord)
        /\ HeldWasSent(d.rx_window, sent) /\ Longer(s.delivered, d.delivered)
    <2>1. Orderly(off, sent, n)
      BY <1>3 DEF Orderly
    <2>2. off.rx_deliv \in Nat /\ off.rx_deliv <= s.rx_reord /\ DOMAIN off = Fields
          /\ d = Deliver(off, off.rx_deliv .. (s.rx_reord - 1))
      BY <1>2, <1>3
    <2> HIDE DEF d
    <2> QED
      BY <1>2, <1>3, <2>1, <2>2, DeliverOrderly
  <1>5. DOMAIN d = Fields /\ d.rx_next = s.rx_next
    BY <1>3, DeliverFields DEF KeepsRest
  <1> HIDE DEF d
  <1>6. /\ DOMAIN u = Fields /\ u.rx_next = s.rx_next /\ u.rx_deliv = s.rx_reord
        /\ u.rx_window = d.rx_window /\ u.delivered = d.delivered
    BY <1>5 DEF Fields
  <1> HIDE DEF u
  <1>7. Delivers(u, g, sent, n)
    <2>1. Orderly(u, sent, n)
      BY <1>4, <1>6 DEF Orderly
    <2> QED
      BY <1>2, <1>6, <2>1, ConsecutiveOrderly
  <1>8. DOMAIN g = Fields
    <2>1. g = [Deliver(u, u.rx_deliv ..
                 (Min({c \in u.rx_deliv .. u.rx_next : c = u.rx_next \/ ~Has(u, c)}) - 1)) EXCEPT
                 !.rx_deliv = Min({c \in u.rx_deliv .. u.rx_next : c = u.rx_next \/ ~Has(u, c)})]
      BY DEF DeliverAllConsecutiveCounts
    <2> HIDE DEF g
    <2> QED
      BY <1>6, <2>1, DeliverFields DEF KeepsRest
  <1> HIDE DEF g
  <1>9. t.delivered = g.delivered /\ t.rx_window = g.rx_window /\ t.rx_deliv = g.rx_deliv
    BY <1>1, <1>8 DEF Fields
  <1>10. Longer(s.delivered, t.delivered)
    <2>1. /\ s.delivered \in Seq(Nat) /\ d.delivered \in Seq(Nat) /\ g.delivered \in Seq(Nat)
          /\ Longer(s.delivered, d.delivered) /\ Longer(d.delivered, g.delivered)
      BY <1>4, <1>6, <1>7 DEF Orderly, Delivers, DeliveredInOrder
    <2> QED
      BY <1>9, <2>1, LongerTrans
  <1> QED
    BY <1>7, <1>9, <1>10 DEF Delivers, Orderly, t

\* "Handle reordering timers"
LEMMA TimersOrderly ==
  ASSUME NEW s, EntityType(s), WindowInv(s),
         NEW n \in Nat, NEW sent, SentOrder(sent, n), Orderly(s, sent, n)
  PROVE  Delivers(s, ReorderingTimers(s), sent, n)
  <1> DEFINE t == ReorderingTimers(s)
  <1>1. /\ s.rx_next \in Nat /\ s.rx_deliv \in Nat /\ s.rx_deliv <= s.rx_next /\ DOMAIN s = Fields
        /\ s.rx_next <= MaxCount /\ s.delivered \in Seq(Nat)
    BY DEF EntityType, WindowInv, Orderly, DeliveredInOrder
  <1>2. CASE cfg.t_reordering = "ms0"
    <2> DEFINE u == [s EXCEPT !.rx_reord = s.rx_next]
    <2>1. t = HandleTReorderingExpire(u)
      BY <1>2 DEF ReorderingTimers
    <2>2. /\ KeepsRest(s, u) /\ u.rx_next = s.rx_next /\ u.rx_deliv = s.rx_deliv
          /\ u.rx_window = s.rx_window /\ u.rx_reord = s.rx_next
          /\ u.reordering_timer = s.reordering_timer /\ u.delivered = s.delivered
      BY <1>1 DEF KeepsRest, Fields
    <2> HIDE DEF t, u
    <2>3. EntityType(u) /\ WindowInv(u)
      BY <1>1, <2>2 DEF EntityType, WindowInv, KeepsRest
    <2>4. Orderly(u, sent, n) /\ u.rx_deliv <= u.rx_reord /\ u.rx_reord <= u.rx_next
      BY <1>1, <2>2 DEF Orderly
    <2>5. Delivers(u, t, sent, n)
      BY <2>1, <2>3, <2>4, ExpireOrderly
    <2> QED
      BY <2>2, <2>5 DEF Delivers, t
  <1>3. CASE cfg.t_reordering # "ms0"
    <2>1. t.delivered = s.delivered /\ t.rx_window = s.rx_window /\ t.rx_deliv = s.rx_deliv
      BY <1>1, <1>3 DEF ReorderingTimers, Fields
    <2> HIDE DEF t
    <2>2. Longer(s.delivered, s.delivered)
      BY <1>1 DEF Longer
    <2> QED
      BY <2>1, <2>2 DEF Delivers, Orderly, t
  <1> QED
    BY <1>2, <1>3

\* apply_reordering of an SDU that was sent with this COUNT
LEMMA ReorderingOrderly ==
  ASSUME NEW s, EntityType(s), WindowInv(s), NEW n \in Nat, NEW sent, SentOrder(sent, n),
         Orderly(s, sent, n), NEW task, task.count \in Nat, task.count < MaxCount,
         Sent(sent, task.count, task.pdu.sdu)
  PROVE  Delivers(s, ApplyReordering(s, task), sent, n)
  <1> DEFINE count == task.count
             window == [c \in DOMAIN s.rx_window \cup {count} |->
                          IF c = count THEN task.pdu.sdu ELSE s.rx_window[c]]
             stored == [s EXCEPT !.rx_window = window,
                                 !.rx_next = IF count >= @ THEN count + 1 ELSE @]
             u == IF count = s.rx_deliv THEN DeliverAllConsecutiveCounts(stored) ELSE stored
             t == ApplyReordering(s, task)
  <1>1. /\ s.rx_next \in Nat /\ s.rx_deliv \in Nat /\ s.rx_next <= MaxCount /\ MaxCount \in Nat
        /\ s.rx_deliv <= s.rx_next /\ DOMAIN s = Fields /\ s.delivered \in Seq(Nat)
        /\ DOMAIN s.rx_window \subseteq (s.rx_deliv + 1) .. (s.rx_next - 1)
    BY PdcpRxAssumption DEF EntityType, WindowInv, Orderly, DeliveredInOrder
  <1>2. Longer(s.delivered, s.delivered)
    BY <1>1 DEF Longer
  <1>3. CASE ReceivedBefore(s, count)
    <2>1. t = s
      BY <1>3 DEF ApplyReordering
    <2> QED
      BY <1>2, <2>1 DEF Delivers
  <1>4. CASE ~ReceivedBefore(s, count)
    <2>1. t = ReorderingTimers(u)
      BY <1>4 DEF ApplyReordering
    <2>2. count >= s.rx_deliv
      BY <1>1, <1>4 DEF ReceivedBefore
    <2>3. /\ KeepsRest(s, stored) /\ stored.rx_deliv = s.rx_deliv /\ stored.rx_reord = s.rx_reord
          /\ stored.reordering_timer = s.reordering_timer /\ stored.delivered = s.delivered
          /\ stored.rx_next = IF count >= s.rx_next THEN count + 1 ELSE s.rx_next
          /\ stored.rx_window = window
      BY <1>1 DEF KeepsRest, Fields
    <2>4. DOMAIN stored.rx_window = DOMAIN s.rx_window \cup {count}
      BY <2>3
    <2>5. HeldWasSent(stored.rx_window, sent)
      BY <2>3 DEF Orderly, HeldWasSent
    <2> HIDE DEF stored
    <2>6. Orderly(stored, sent, n)
      BY <2>3, <2>5 DEF Orderly
    <2>7. stored.rx_next \in Nat /\ stored.rx_deliv <= stored.rx_next /\ DOMAIN stored = Fields
          /\ stored.rx_next <= MaxCount /\ s.rx_next <= stored.rx_next
      BY <1>1, <2>3 DEF KeepsRest
    <2>8. /\ KeepsRest(s, u) /\ u.rx_reord = s.rx_reord
          /\ u.reordering_timer = s.reordering_timer
          /\ u.rx_next = stored.rx_next /\ u.rx_deliv \in Nat /\ u.rx_deliv <= u.rx_next
          /\ DOMAIN u.rx_window \subseteq (u.rx_deliv + 1) .. (u.rx_next - 1)
      <3>1. CASE count = s.rx_deliv
        <4>1. DOMAIN stored.rx_window \subseteq s.rx_deliv .. (stored.rx_next - 1)
          BY <1>1, <2>2, <2>3, <2>4
        <4> QED
          BY <1>1, <2>2, <2>3, <2>7, <3>1, <4>1, ConsecutiveFields DEF KeepsRest
      <3>2. CASE count # s.rx_deliv
        <4>1. u = stored
          BY <3>2
        <4>2. DOMAIN stored.rx_window \subseteq (stored.rx_deliv + 1) .. (stored.rx_next - 1)
          BY <1>1, <2>2, <2>3, <2>4, <3>2
        <4> QED
          BY <1>1, <2>3, <2>7, <4>1, <4>2
      <3> QED
        BY <3>1, <3>2
    <2>9. Delivers(s, u, sent, n)
      <3>1. CASE count = s.rx_deliv
        <4>1. Delivers(stored, u, sent, n)
          BY <1>1, <2>3, <2>6, <2>7, <3>1, ConsecutiveOrderly
        <4> QED
          BY <2>3, <4>1 DEF Delivers
      <3>2. CASE count # s.rx_deliv
        <4>1. u = stored
          BY <3>2
        <4> QED
          BY <1>2, <2>3, <2>6, <4>1 DEF Delivers
      <3> QED
        BY <3>1, <3>2
    <2> HIDE DEF u
    <2>10. EntityType(u) /\ WindowInv(u)
      BY <1>1, <2>7, <2>8 DEF EntityType, WindowInv, KeepsRest
    <2>11. Delivers(u, t, sent, n)
      BY <2>1, <2>9, <2>10, TimersOrderly DEF Delivers
    <2>12. /\ u.delivered \in Seq(Nat) /\ t.delivered \in Seq(Nat)
           /\ Longer(s.delivered, u.delivered) /\ Longer(u.delivered, t.delivered)
      BY <2>9, <2>11 DEF Delivers, Orderly, DeliveredInOrder
    <2>13. Longer(s.delivered, t.delivered)
      BY <1>1, <2>12, LongerTrans
    <2> QED
      BY <2>11, <2>13 DEF Delivers
  <1> QED
    BY <1>3, <1>4

\* Suspension and re-establishment deliver all that is held.
LEMMA RestartDelivers ==
  ASSUME NEW s, EntityType(s), WindowInv(s), NEW n \in Nat, NEW sent, SentOrder(sent, n),
         Orderly(s, sent, n)
  PROVE  LET t == ResetState(DeliverAllSdus([s EXCEPT !.reordering_timer = FALSE]))
         IN DeliveredInOrder(t.delivered, n) /\ Longer(s.delivered, t.delivered)
  <1> DEFINE off == [s EXCEPT !.reordering_timer = FALSE]
             d == Deliver(off, off.rx_deliv .. (off.rx_next - 1))
             t == ResetState(d)
  <1>1. /\ s.rx_next \in Nat /\ s.rx_deliv \in Nat /\ DOMAIN s = Fields /\ s.rx_deliv <= s.rx_next
    BY DEF EntityType, WindowInv
  <1>2. /\ off.rx_next = s.rx_next /\ off.rx_deliv = s.rx_deliv /\ DOMAIN off = Fields
        /\ off.rx_window = s.rx_window /\ off.delivered = s.delivered
    BY <1>1 DEF Fields
  <1> HIDE DEF off
  <1>3. Orderly(off, sent, n)
    BY <1>2 DEF Orderly
  <1>4. /\ DeliveredInOrder(d.delivered, n) /\ Longer(off.delivered, d.delivered)
    BY <1>1, <1>2, <1>3, DeliverOrderly
  <1>5. DOMAIN d = Fields
    BY <1>2, DeliverFields DEF KeepsRest
  <1> HIDE DEF d
  <1>6. t.delivered = d.delivered
    BY <1>5 DEF ResetState, Fields
  <1> QED
    BY <1>2, <1>4, <1>6 DEF d, off, DeliverAllSdus

\* An entity that holds nothing is in order with a UE that starts again.
LEMMA FreshOrderly ==
  ASSUME NEW s, EntityType(s), WindowInv(s), s.rx_next = 0, NEW n \in Nat,
         DeliveredInOrder(s.delivered, n)
  PROVE  SentOrder(<<>>, n) /\ Orderly(s, <<>>, n)
  <1>1. DOMAIN s.rx_window = {}
    BY DEF EntityType, WindowInv
  <1> QED
    BY <1>1 DEF SentOrder, Orderly, LaterThan, HeldWasSent

-----------------------------------------------------------------------------
(* The order is kept.                                                      *)

\* At first nothing is sent and nothing delivered.
LEMMA OrderInit == Init => OrderInv
  <1> SUFFICES ASSUME Init PROVE OrderInv
    OBVIOUS
  <1>1. /\ ue.sent = <<>> /\ ue.sdus = 0 /\ e.delivered = <<>> /\ e.rx_window = <<>>
        /\ air = {} /\ queue = <<>> /\ e.crypto = {}
    BY DEF Init
  <1>2. SentOrder(<<>>, 0) /\ DeliveredInOrder(<<>>, 0) /\ LaterThan(<<>>, <<>>, e.rx_deliv)
    BY DEF SentOrder, DeliveredInOrder, Service!Ascending, LaterThan
  <1>3. UnderWay = {} /\ HeldWasSent(<<>>, <<>>)
    BY <1>1 DEF UnderWay, HeldWasSent
  <1> QED
    BY <1>1, <1>2, <1>3 DEF OrderInv, Orderly

\* What a step keeps or prolongs.
Onward == OrderInv' /\ Longer(e.delivered, e'.delivered)

\* The number of SDUs and what is delivered, in every state.
LEMMA DeliveredTypes ==
  ASSUME IInv, OrderInv
  PROVE  /\ ue.sdus \in Nat /\ e.delivered \in Seq(Nat) /\ Longer(e.delivered, e.delivered)
         /\ SentOrder(ue.sent, ue.sdus) /\ DeliveredInOrder(e.delivered, ue.sdus)
         /\ ~Parked /\ ue.change # "reset" => Orderly(e, ue.sent, ue.sdus)
  <1>1. ue.sdus \in Nat /\ e.delivered \in Seq(Nat)
    BY DEF IInv, Types, UeType, OrderInv, DeliveredInOrder
  <1> QED
    BY <1>1 DEF OrderInv, Longer

\* Steps that neither deliver nor send.
LEMMA QuietStep ==
  ASSUME IInv, OrderInv, ue' = ue, e'.delivered = e.delivered, e'.rx_window = e.rx_window,
         e'.rx_deliv = e.rx_deliv, Parked => Parked',
         \A pdu \in air' : \E p \in air : pdu.key = p.key /\ pdu.count = p.count /\ pdu.sdu = p.sdu,
         \A task \in UnderWay' :
           task.pdu.key = e'.key => Sent(ue.sent, task.pdu.count, task.pdu.sdu)
  PROVE  Onward
  <1>1. \A pdu \in air' : pdu.key = ue'.key => Sent(ue'.sent, pdu.count, pdu.sdu)
    BY DEF OrderInv
  <1>2. ~Parked' /\ ue'.change # "reset" => Orderly(e', ue'.sent, ue'.sdus)
    BY DEF OrderInv, Orderly
  <1>3. SentOrder(ue'.sent, ue'.sdus) /\ DeliveredInOrder(e'.delivered, ue'.sdus)
    BY DEF OrderInv
  <1>4. Longer(e.delivered, e'.delivered)
    BY DeliveredTypes
  <1> QED
    BY <1>1, <1>2, <1>3, <1>4 DEF Onward, OrderInv, SentOrder, DeliveredInOrder, Orderly,
       Service!Ascending, LaterThan, HeldWasSent, Sent

\* A PDU of the present key carries an SDU that was sent with its COUNT.
LEMMA PduArrivesOrder ==
  ASSUME IInv, OrderInv, PduArrives
  PROVE  Onward
  <1>1. PICK pdu \in air, refused \in BOOLEAN, again \in BOOLEAN :
          /\ e' = HandlePdu(e, pdu, refused)
          /\ air' = (air \ {pdu}) \cup (IF again THEN {[pdu EXCEPT !.copy = faults']} ELSE {})
    BY DEF PduArrives
  <1>2. EntityType(e) /\ pdu \in Pdus /\ UNCHANGED <<queue, ue, routine>>
    BY DEF IInv, Types, PduArrives
  <1>3. /\ OnlyChanges(e, e', {"resume_requested", "pdu_buffer", "tokens", "crypto",
                               "pending_crypto"})
        /\ e'.crypto \subseteq e.crypto \cup {DataPduTask(e, pdu)}
    BY <1>1, <1>2, HandlePduFields
  <1>4. /\ e'.delivered = e.delivered /\ e'.rx_window = e.rx_window /\ e'.rx_deliv = e.rx_deliv
        /\ e'.suspended = e.suspended /\ e'.key = e.key
    BY <1>3 DEF OnlyChanges, Fields
  <1>5. \A p \in air' : \E q \in air : p.key = q.key /\ p.count = q.count /\ p.sdu = q.sdu
    BY <1>1, <1>2 DEF Pdus
  <1>6. \A task \in UnderWay' :
          task.pdu.key = e'.key => Sent(ue.sent, task.pdu.count, task.pdu.sdu)
    <2> SUFFICES ASSUME NEW task \in UnderWay', task.pdu.key = e.key
                 PROVE  Sent(ue.sent, task.pdu.count, task.pdu.sdu)
      BY <1>4
    <2>1. CASE task \in UnderWay
      BY <2>1 DEF OrderInv
    <2>2. CASE task = DataPduTask(e, pdu)
      <3>1. task.pdu = pdu /\ pdu.key = e.key
        BY <2>2 DEF DataPduTask
      <3>2. pdu.key \in Nat /\ ue.key \in Nat /\ e.key \in Nat /\ pdu.key <= ue.key
        BY <1>2 DEF IInv, Types, EntityType, UeType, Pdus, KeyInv
      <3>3. pdu.key = ue.key
        BY <3>1, <3>2 DEF IInv, KeyInv
      <3> QED
        BY <3>1, <3>3 DEF OrderInv
    <2> QED
      BY <1>2, <1>3, <2>1, <2>2 DEF UnderWay
  <1>7. Parked => Parked'
    BY <1>2, <1>4 DEF Parked
  <1> QED
    BY <1>2, <1>4, <1>5, <1>6, <1>7, QuietStep

\* A worker and the routine before it waits.
LEMMA QuietActionsOrder ==
  ASSUME IInv, OrderInv,
         ApplySecurity \/ RequestSuspend \/ RequestRekey \/ RequestRelease \/ FinishRelease
  PROVE  Onward
  <1>1. DOMAIN e = Fields /\ queue \in Seq(Results) /\ e.suspended \in BOOLEAN
    BY DEF IInv, Types, EntityType
  <1>2. ue' = ue /\ air' = air
    BY DEF ApplySecurity, RequestSuspend, RequestRekey, RequestRelease, FinishRelease
  <1>3. /\ e'.delivered = e.delivered /\ e'.rx_window = e.rx_window /\ e'.rx_deliv = e.rx_deliv
        /\ e'.key = e.key
    <2>1. CASE ApplySecurity
      BY <1>1, <2>1 DEF ApplySecurity, ReturnToken, Fields
    <2>2. CASE RequestSuspend
      BY <1>1, <2>2 DEF RequestSuspend, Await, ReturnToken, Fields
    <2>3. CASE RequestRekey
      BY <1>1, <2>3 DEF RequestRekey, Resume, Await, ReturnToken, Fields
    <2>4. CASE RequestRelease
      BY <1>1, <2>4 DEF RequestRelease, Stop, ReturnToken, Fields
    <2>5. CASE FinishRelease
      BY <2>5 DEF FinishRelease
    <2> QED
      BY <2>1, <2>2, <2>3, <2>4, <2>5
  <1>4. Parked => Parked'
    <2>1. CASE ApplySecurity \/ RequestSuspend \/ RequestRelease \/ FinishRelease
      <3>1. e'.suspended = e.suspended /\ (routine.step = "rekey" => routine' = routine)
        <4>1. CASE ApplySecurity
          BY <1>1, <4>1 DEF ApplySecurity, ReturnToken, Fields
        <4>2. CASE RequestSuspend
          BY <1>1, <4>2 DEF RequestSuspend, Await, ReturnToken, Fields, Idle
        <4>3. CASE RequestRelease
          BY <1>1, <4>3 DEF RequestRelease, Stop, ReturnToken, Fields, Idle
        <4>4. CASE FinishRelease
          BY <4>4 DEF FinishRelease
        <4> QED
          BY <2>1, <4>1, <4>2, <4>3, <4>4
      <3> QED
        BY <3>1 DEF Parked
    <2>2. CASE RequestRekey
      <3>1. routine = Idle /\ bearer \in {"active", "suspended"}
        BY <2>2 DEF RequestRekey
      <3>2. PICK reest \in BOOLEAN :
              routine' = [step |-> "rekey", reest |-> reest, resumed |-> bearer = "suspended"]
        BY <2>2 DEF RequestRekey
      <3>3. routine'.step = "rekey" /\ (bearer = "suspended" => routine'.resumed)
        BY <3>2
      <3> QED
        BY <3>1, <3>3 DEF Parked, Idle, IInv, ControlInv
    <2> QED
      BY <2>1, <2>2
  <1>5. UnderWay' \subseteq UnderWay
    <2>1. CASE ApplySecurity
      <3>1. PICK task \in e.crypto, full \in BOOLEAN :
              LET done == [e EXCEPT !.crypto = @ \ {task}]
              IN /\ e' = IF full THEN ReturnToken(done) ELSE done
                 /\ queue' = IF full THEN queue
                             ELSE Append(queue, [task |-> task, ok |-> Verifies(e, task)])
        BY <2>1 DEF ApplySecurity
      <3>2. e'.crypto = e.crypto \ {task}
        BY <1>1, <3>1 DEF ReturnToken, Fields
      <3>3. \A i \in DOMAIN queue' : queue'[i].task = task
                                       \/ (i \in DOMAIN queue /\ queue'[i] = queue[i])
        BY <1>1, <3>1
      <3> QED
        BY <3>2, <3>3 DEF UnderWay
    <2>2. CASE RequestSuspend \/ RequestRekey \/ RequestRelease \/ FinishRelease
      <3>1. e'.crypto = e.crypto /\ queue' = queue
        BY <1>1, <2>2 DEF RequestSuspend, RequestRekey, RequestRelease, FinishRelease,
                          Await, Resume, Stop, ReturnToken, Fields
      <3> QED
        BY <3>1 DEF UnderWay
    <2> QED
      BY <2>1, <2>2
  <1>6. \A task \in UnderWay' :
          task.pdu.key = e'.key => Sent(ue.sent, task.pdu.count, task.pdu.sdu)
    BY <1>3, <1>5 DEF OrderInv
  <1> QED
    BY <1>2, <1>3, <1>4, <1>6, QuietStep

\* The UE numbers SDUs and COUNTs upwards.
LEMMA UeSendOrder ==
  ASSUME IInv, OrderInv, UeSend
  PROVE  Onward /\ ue'.sdus = ue.sdus + 1 /\ e' = e
  <1> DEFINE n == ue.sdus
             new == [count |-> ue.next, sdu |-> n + 1]
             pdu == [count |-> ue.next, key |-> ue.key, sdu |-> n + 1, copy |-> 0]
  <1>1. /\ DOMAIN ue = UeFields /\ n \in Nat /\ ue.next \in Nat /\ ue.sent \in Seq(Sdus)
        /\ \A i \in DOMAIN ue.sent : ue.sent[i].count < ue.next
    BY DEF IInv, Types, UeType, CountInv
  <1>2. /\ ue' = [ue EXCEPT !.next = @ + 1, !.sdus = n + 1, !.sent = Append(@, new)]
        /\ air' \subseteq air \cup {pdu} /\ UNCHANGED <<e, queue, routine>>
    BY DEF UeSend
  <1>3. /\ ue'.sdus = n + 1 /\ ue'.sent = Append(ue.sent, new) /\ ue'.key = ue.key
        /\ ue'.change = ue.change
    BY <1>1, <1>2 DEF UeFields
  <1>4. new \in Sdus
    BY <1>1 DEF Sdus
  <1>5. new.count = ue.next /\ new.sdu = n + 1 /\ pdu.count = ue.next /\ pdu.sdu = n + 1
    OBVIOUS
  <1> HIDE DEF new, pdu
  <1>6. /\ ue'.sent \in Seq(Sdus) /\ Len(ue.sent) \in Nat /\ DOMAIN ue.sent = 1 .. Len(ue.sent)
        /\ DOMAIN ue'.sent = 1 .. (Len(ue.sent) + 1)
        /\ \A i \in DOMAIN ue.sent : i \in DOMAIN ue'.sent /\ ue'.sent[i] = ue.sent[i]
        /\ \A i \in DOMAIN ue'.sent : i \in DOMAIN ue.sent \/ ue'.sent[i] = new
        /\ Len(ue.sent) + 1 \in DOMAIN ue'.sent /\ ue'.sent[Len(ue.sent) + 1] = new
    <2>1. /\ ue'.sent \in Seq(Sdus) /\ Len(ue'.sent) = Len(ue.sent) + 1
          /\ \A i \in 1 .. Len(ue.sent) : ue'.sent[i] = ue.sent[i]
          /\ ue'.sent[Len(ue.sent) + 1] = new
      BY <1>1, <1>3, <1>4, AppendProperties
    <2> QED
      BY <1>1, <2>1
  <1>7. \A i \in DOMAIN ue.sent : /\ ue.sent[i].count \in Nat /\ ue.sent[i].sdu \in Nat
                                  /\ 1 <= ue.sent[i].sdu /\ ue.sent[i].sdu <= n
    <2>1. \A i \in DOMAIN ue.sent : ue.sent[i] \in Sdus
      BY <1>1
    <2>2. \A i \in DOMAIN ue.sent : ue.sent[i].sdu \in 1 .. n
      BY DEF OrderInv, SentOrder
    <2> QED
      BY <1>1, <2>1, <2>2 DEF Sdus
  <1>8. \A count, sdu : Sent(ue.sent, count, sdu) => Sent(ue'.sent, count, sdu)
    BY <1>6 DEF Sent
  <1>9. SentOrder(ue'.sent, n + 1)
    <2>1. \A i \in DOMAIN ue'.sent : ue'.sent[i].sdu \in 1 .. (n + 1)
      <3> SUFFICES ASSUME NEW i \in DOMAIN ue'.sent PROVE ue'.sent[i].sdu \in 1 .. (n + 1)
        OBVIOUS
      <3>1. CASE i \in DOMAIN ue.sent
        <4>1. ue'.sent[i].sdu = ue.sent[i].sdu
          BY <1>6, <3>1
        <4>2. ue.sent[i].sdu \in Nat /\ 1 <= ue.sent[i].sdu /\ ue.sent[i].sdu <= n
          BY <1>7, <3>1
        <4> QED
          BY <1>1, <4>1, <4>2
      <3>2. CASE ue'.sent[i] = new
        BY <1>1, <1>5, <3>2
      <3> QED
        BY <1>6, <3>1, <3>2
    <2>2. ASSUME NEW i \in DOMAIN ue'.sent, NEW j \in DOMAIN ue'.sent,
                 ue'.sent[i].count < ue'.sent[j].count
          PROVE  ue'.sent[i].sdu < ue'.sent[j].sdu
      <3>1. CASE i \in DOMAIN ue.sent /\ j \in DOMAIN ue.sent
        BY <1>6, <2>2, <3>1 DEF OrderInv, SentOrder
      <3>2. CASE i \in DOMAIN ue.sent /\ ue'.sent[j] = new
        <4>1. ue'.sent[i].sdu = ue.sent[i].sdu
          BY <1>6, <3>2
        <4>2. ue.sent[i].sdu \in Nat /\ ue.sent[i].sdu <= n
          BY <1>7, <3>2
        <4> QED
          BY <1>1, <1>5, <3>2, <4>1, <4>2
      <3>3. CASE ue'.sent[i] = new
        <4>1. ue'.sent[j].count \in Nat /\ ue'.sent[j].count <= ue.next
          <5>1. CASE j \in DOMAIN ue.sent
            <6>1. ue'.sent[j].count = ue.sent[j].count
              BY <1>6, <5>1
            <6>2. ue.sent[j].count \in Nat /\ ue.sent[j].count < ue.next
              BY <1>1, <1>7, <5>1
            <6> QED
              BY <1>1, <6>1, <6>2
          <5>2. CASE ue'.sent[j] = new
            BY <1>1, <1>5, <5>2
          <5> QED
            BY <1>6, <5>1, <5>2
        <4> QED
          BY <1>1, <1>5, <2>2, <3>3, <4>1
      <3> QED
        BY <1>6, <3>1, <3>2, <3>3
    <2> QED
      BY <1>6, <2>1, <2>2 DEF SentOrder
  <1>10. DeliveredInOrder(e.delivered, n + 1)
    BY <1>1 DEF OrderInv, DeliveredInOrder
  <1>11. Orderly(e, ue.sent, n) => Orderly(e, ue'.sent, n + 1)
    <2> SUFFICES ASSUME Orderly(e, ue.sent, n) PROVE Orderly(e, ue'.sent, n + 1)
      OBVIOUS
    <2>1. HeldWasSent(e.rx_window, ue'.sent)
      BY <1>8 DEF Orderly, HeldWasSent
    <2>2. LaterThan(e.delivered, ue'.sent, e.rx_deliv)
      <3> SUFFICES ASSUME NEW i \in DOMAIN ue'.sent, NEW k \in DOMAIN e.delivered,
                          ue'.sent[i].count >= e.rx_deliv
                   PROVE  e.delivered[k] < ue'.sent[i].sdu
        BY DEF LaterThan
      <3>1. CASE i \in DOMAIN ue.sent
        BY <1>6, <3>1 DEF Orderly, LaterThan
      <3>2. CASE ue'.sent[i] = new
        <4>1. e.delivered[k] \in 1 .. n
          BY DEF OrderInv, DeliveredInOrder
        <4> QED
          BY <1>1, <1>5, <3>2, <4>1
      <3> QED
        BY <1>6, <3>1, <3>2
    <2> QED
      BY <1>10, <2>1, <2>2 DEF Orderly
  <1>12. Sent(ue'.sent, ue.next, n + 1)
    BY <1>5, <1>6 DEF Sent
  <1>13. \A p \in air' : p.key = ue'.key => Sent(ue'.sent, p.count, p.sdu)
    BY <1>2, <1>3, <1>5, <1>8, <1>12 DEF OrderInv
  <1>14. UnderWay' = UnderWay /\ (Parked' <=> Parked)
    BY <1>2 DEF UnderWay, Parked
  <1>15. \A task \in UnderWay' :
           task.pdu.key = e'.key => Sent(ue'.sent, task.pdu.count, task.pdu.sdu)
    BY <1>2, <1>8, <1>14 DEF OrderInv
  <1>16. ~Parked' /\ ue'.change # "reset" => Orderly(e', ue'.sent, ue'.sdus)
    BY <1>2, <1>3, <1>11, <1>14 DEF OrderInv
  <1>17. SentOrder(ue'.sent, ue'.sdus) /\ DeliveredInOrder(e'.delivered, ue'.sdus)
    BY <1>2, <1>3, <1>9, <1>10
  <1>18. OrderInv'
    BY <1>13, <1>15, <1>16, <1>17 DEF OrderInv, SentOrder, DeliveredInOrder, Orderly,
       Service!Ascending, LaterThan, HeldWasSent, Sent
  <1>19. Longer(e.delivered, e'.delivered)
    BY <1>2, DeliveredTypes
  <1> QED
    BY <1>2, <1>3, <1>18, <1>19 DEF Onward

\* The UE repeats what it has sent, or starts again from COUNT 0.
LEMMA UeSwitchOrder ==
  ASSUME IInv, OrderInv, UeSwitch
  PROVE  Onward /\ ue'.sdus = ue.sdus /\ e' = e
  <1>1. PICK keep \in 0 .. Len(ue.sent) :
          LET again == {ue.sent[i] : i \in (keep + 1) .. Len(ue.sent)}
          IN /\ ue.change # "resend" => keep = Len(ue.sent)
             /\ air' = air \cup {[count |-> m.count, key |-> ue.key + 1, sdu |-> m.sdu,
                                  copy |-> 0] : m \in again}
    BY DEF UeSwitch
  <1>2. /\ ue.change # "none" /\ UNCHANGED <<e, queue, routine>>
        /\ ue' = [ue EXCEPT !.key = @ + 1, !.change = "none",
                            !.next = IF ue.change = "reset" THEN 0 ELSE @,
                            !.sent = IF ue.change = "reset" THEN <<>> ELSE @]
    BY DEF UeSwitch
  <1>3. /\ DOMAIN ue = UeFields /\ ue.sdus \in Nat /\ ue.sent \in Seq(Sdus) /\ ue.key \in Nat
        /\ e.key \in Nat /\ air \subseteq Pdus /\ EntityType(e) /\ WindowInv(e)
        /\ \A task \in UnderWay : task \in Tasks
    BY UnderWayTypes DEF IInv, Types, UeType, EntityType
  <1>4. /\ ue'.key = ue.key + 1 /\ ue'.change = "none" /\ ue'.sdus = ue.sdus
        /\ ue'.sent = IF ue.change = "reset" THEN <<>> ELSE ue.sent
    BY <1>2, <1>3 DEF UeFields
  <1>5. e.key = ue.key + 1
    BY <1>2 DEF IInv, KeyInv
  <1>6. \A p \in air : p.key # ue'.key
    <2>1. \A p \in air : p.key <= ue.key /\ p.key \in Nat
      BY <1>3 DEF IInv, KeyInv, Pdus
    <2> QED
      BY <1>3, <1>4, <2>1
  <1>7. \A p \in air' : p.key = ue'.key => Sent(ue'.sent, p.count, p.sdu)
    <2> SUFFICES ASSUME NEW p \in air', p.key = ue'.key PROVE Sent(ue'.sent, p.count, p.sdu)
      OBVIOUS
    <2>1. PICK i \in (keep + 1) .. Len(ue.sent) :
            p = [count |-> ue.sent[i].count, key |-> ue.key + 1, sdu |-> ue.sent[i].sdu,
                 copy |-> 0]
      BY <1>1, <1>6
    <2>2. Len(ue.sent) \in Nat /\ keep \in Nat
      BY <1>3
    <2>3. i \in DOMAIN ue.sent /\ ue.change = "resend"
      BY <1>1, <1>3, <2>1, <2>2
    <2> QED
      BY <1>4, <2>1, <2>3 DEF Sent
  <1>8. \A task \in UnderWay : task.pdu.key # e.key
    <2>1. \A task \in UnderWay : task.pdu.key <= ue.key /\ task.pdu.key \in Nat
      BY <1>3 DEF IInv, KeyInv, Tasks, Pdus
    <2> QED
      BY <1>3, <1>5, <2>1
  <1>9. UnderWay' = UnderWay /\ (Parked' <=> Parked)
    BY <1>2 DEF UnderWay, Parked
  <1>10. /\ SentOrder(ue'.sent, ue'.sdus) /\ DeliveredInOrder(e'.delivered, ue'.sdus)
         /\ ~Parked => Orderly(e', ue'.sent, ue'.sdus)
    <2>1. CASE ue.change = "reset"
      <3>1. e.rx_next = 0 /\ DeliveredInOrder(e.delivered, ue.sdus)
        BY <2>1 DEF IInv, ControlInv, OrderInv
      <3>2. SentOrder(<<>>, ue.sdus) /\ Orderly(e, <<>>, ue.sdus)
        BY <1>3, <3>1, FreshOrderly
      <3> QED
        BY <1>2, <1>4, <2>1, <3>1, <3>2
    <2>2. CASE ue.change # "reset"
      BY <1>2, <1>4, <2>2 DEF OrderInv
    <2> QED
      BY <2>1, <2>2
  <1>11. /\ \A task \in UnderWay' :
              task.pdu.key = e'.key => Sent(ue'.sent, task.pdu.count, task.pdu.sdu)
         /\ ~Parked' /\ ue'.change # "reset" => Orderly(e', ue'.sent, ue'.sdus)
    BY <1>2, <1>8, <1>9, <1>10
  <1>12. OrderInv'
    BY <1>7, <1>10, <1>11 DEF OrderInv, SentOrder, DeliveredInOrder, Orderly,
       Service!Ascending, LaterThan, HeldWasSent, Sent
  <1>13. Longer(e.delivered, e'.delivered)
    BY <1>2, DeliveredTypes
  <1> QED
    BY <1>2, <1>4, <1>12, <1>13 DEF Onward

\* Steps that deliver, or restart an entity that holds nothing.
LEMMA DeliveringStep ==
  ASSUME IInv, OrderInv, ue'.sent = ue.sent, ue'.sdus = ue.sdus, ue'.key = ue.key, air' = air,
         \A task \in UnderWay' :
           task.pdu.key = e'.key => Sent(ue.sent, task.pdu.count, task.pdu.sdu),
         DeliveredInOrder(e'.delivered, ue.sdus), Longer(e.delivered, e'.delivered),
         ~Parked' /\ ue'.change # "reset" => Orderly(e', ue.sent, ue.sdus)
  PROVE  Onward
  <1>1. \A p \in air' : p.key = ue'.key => Sent(ue'.sent, p.count, p.sdu)
    BY DEF OrderInv
  <1>2. SentOrder(ue'.sent, ue'.sdus) /\ DeliveredInOrder(e'.delivered, ue'.sdus)
    BY DEF OrderInv
  <1>3. /\ \A task \in UnderWay' :
             task.pdu.key = e'.key => Sent(ue'.sent, task.pdu.count, task.pdu.sdu)
        /\ ~Parked' /\ ue'.change # "reset" => Orderly(e', ue'.sent, ue'.sdus)
    OBVIOUS
  <1> QED
    BY <1>1, <1>2, <1>3 DEF Onward, OrderInv, SentOrder, DeliveredInOrder, Orderly,
       Service!Ascending, LaterThan, HeldWasSent, Sent

\* A verified PDU is stored and what it completes is delivered; another is dropped.
LEMMA ProcessVerifiedOrder ==
  ASSUME IInv, OrderInv, ProcessVerified
  PROVE  Onward /\ ue' = ue
  <1> DEFINE head == Head(queue)
             m == IF head.ok THEN ApplyReordering(e, head.task) ELSE e
  <1>1. /\ queue # <<>> /\ queue' = Tail(queue) /\ e' = ReturnToken(m)
        /\ UNCHANGED <<cfg, air, ue, routine, bearer, faults>>
    BY DEF ProcessVerified, TakeResult
  <1>2. /\ EntityType(e) /\ WindowInv(e) /\ TimerInv(e) /\ cfg \in Configs
        /\ queue \in Seq(Results) /\ DOMAIN e = Fields /\ ue.key \in Nat /\ e.key \in Nat
        /\ \A task \in UnderWay : task \in Tasks
    BY UnderWayTypes DEF IInv, Types, EntityType, UeType
  <1>3. /\ 1 \in DOMAIN queue /\ head = queue[1] /\ head \in Results
        /\ \A i \in DOMAIN queue' : i + 1 \in DOMAIN queue /\ queue'[i] = queue[i + 1]
    BY <1>1, <1>2
  <1> HIDE DEF head
  <1>4. head.task \in UnderWay /\ (head.ok => head.task.pdu.key = e.key) /\ head.ok \in BOOLEAN
    BY <1>3 DEF UnderWay, IInv, CountInv, Results
  <1>5. /\ head.task.count \in Nat /\ head.task.count < MaxCount /\ head.task.pdu.key \in Nat
        /\ head.task.pdu.key <= ue.key
    BY <1>2, <1>4 DEF Tasks, Pdus, IInv, CountInv, KeyInv
  <1>6. ~Parked
    BY <1>1 DEF IInv, ControlInv, Drained
  <1>7. /\ KeepsRest(e, m) /\ EntityType(m) /\ DeliveredInOrder(m.delivered, ue.sdus)
        /\ Longer(e.delivered, m.delivered)
        /\ ue.change # "reset" => Orderly(m, ue.sent, ue.sdus)
    <2>1. CASE head.ok
      <3>1. ue.change = "none"
        <4>1. ue.change # "none" => ue.key + 1 = e.key
          BY DEF IInv, KeyInv
        <4> QED
          BY <1>2, <1>4, <1>5, <2>1, <4>1
      <3>2. Orderly(e, ue.sent, ue.sdus) /\ SentOrder(ue.sent, ue.sdus) /\ ue.sdus \in Nat
        BY <1>6, <3>1, DeliveredTypes
      <3>3. Sent(ue.sent, head.task.count, head.task.pdu.sdu)
        BY <1>4, <2>1 DEF OrderInv, IInv, CountInv
      <3>4. Delivers(e, ApplyReordering(e, head.task), ue.sent, ue.sdus)
        BY <1>2, <1>5, <3>2, <3>3, ReorderingOrderly
      <3>5. m = ApplyReordering(e, head.task)
        BY <2>1
      <3>6. KeepsRest(e, m) /\ EntityType(m)
        BY <1>2, <1>5, <3>5, ReorderingFields
      <3> QED
        BY <3>4, <3>5, <3>6 DEF Delivers, Orderly
    <2>2. CASE ~head.ok
      <3>1. m = e
        BY <2>2
      <3>2. KeepsRest(e, e)
        BY <1>2 DEF KeepsRest
      <3> QED
        BY <1>2, <1>6, <3>1, <3>2, DeliveredTypes
    <2> QED
      BY <1>4, <2>1, <2>2
  <1> HIDE DEF m
  <1>8. OnlyChanges(m, e', {"tokens", "pending_crypto"})
    BY <1>1, <1>7, ReturnTokenFields
  <1>9. /\ e'.delivered = m.delivered /\ e'.rx_window = m.rx_window /\ e'.rx_deliv = m.rx_deliv
        /\ e'.key = e.key /\ e'.crypto = e.crypto
    BY <1>7, <1>8 DEF OnlyChanges, Fields, KeepsRest
  <1>10. UnderWay' \subseteq UnderWay
    BY <1>3, <1>9 DEF UnderWay
  <1>11. \A task \in UnderWay' :
           task.pdu.key = e'.key => Sent(ue.sent, task.pdu.count, task.pdu.sdu)
    BY <1>9, <1>10 DEF OrderInv
  <1>12. ~Parked' /\ ue'.change # "reset" => Orderly(e', ue.sent, ue.sdus)
    BY <1>1, <1>7, <1>9 DEF Orderly
  <1>13. DeliveredInOrder(e'.delivered, ue.sdus) /\ Longer(e.delivered, e'.delivered)
    BY <1>7, <1>9
  <1> QED
    BY <1>1, <1>11, <1>12, <1>13, DeliveringStep

\* What waited for a missing SDU is delivered when t-Reordering expires.
LEMMA TReorderingExpiryOrder ==
  ASSUME IInv, OrderInv, TReorderingExpiry
  PROVE  Onward /\ ue' = ue
  <1>1. /\ e.reordering_timer /\ UNCHANGED <<cfg, queue, air, ue, routine, bearer, faults>>
        /\ e' = IF e.stopped THEN [e EXCEPT !.reordering_timer = FALSE]
                ELSE HandleTReorderingExpire(e)
    BY DEF TReorderingExpiry
  <1>2. /\ EntityType(e) /\ WindowInv(e) /\ TimerInv(e) /\ DOMAIN e = Fields
        /\ e.stopped \in BOOLEAN /\ e.rx_deliv \in Nat /\ e.rx_reord \in Nat
    BY DEF IInv, Types, EntityType
  <1>3. ~Parked /\ ue.change # "reset"
    BY <1>1 DEF IInv, ControlInv
  <1>4. Orderly(e, ue.sent, ue.sdus) /\ SentOrder(ue.sent, ue.sdus) /\ ue.sdus \in Nat
    BY <1>3, DeliveredTypes
  <1>5. e'.key = e.key /\ e'.crypto = e.crypto /\ Delivers(e, e', ue.sent, ue.sdus)
    <2>1. CASE e.stopped
      <3>1. /\ e'.delivered = e.delivered /\ e'.rx_window = e.rx_window
            /\ e'.rx_deliv = e.rx_deliv /\ e'.key = e.key /\ e'.crypto = e.crypto
        BY <1>1, <1>2, <2>1 DEF Fields
      <3>2. Longer(e.delivered, e.delivered)
        BY DeliveredTypes
      <3> QED
        BY <1>4, <3>1, <3>2 DEF Delivers, Orderly
    <2>2. CASE ~e.stopped
      <3>1. e.rx_deliv <= e.rx_reord /\ e.rx_reord <= e.rx_next
        BY <1>1, <1>2, <2>2 DEF TimerInv
      <3>2. KeepsRest(e, e')
        BY <1>1, <1>2, <2>2, <3>1, ExpireFields
      <3>3. Delivers(e, e', ue.sent, ue.sdus)
        BY <1>1, <1>2, <1>4, <2>2, <3>1, ExpireOrderly
      <3> QED
        BY <3>2, <3>3 DEF KeepsRest
    <2> QED
      BY <1>2, <2>1, <2>2
  <1>6. \A task \in UnderWay' :
          task.pdu.key = e'.key => Sent(ue.sent, task.pdu.count, task.pdu.sdu)
    BY <1>1, <1>5 DEF UnderWay, OrderInv
  <1>7. /\ DeliveredInOrder(e'.delivered, ue.sdus) /\ Longer(e.delivered, e'.delivered)
        /\ Orderly(e', ue.sent, ue.sdus)
    BY <1>5 DEF Delivers, Orderly
  <1> QED
    BY <1>1, <1>6, <1>7, DeliveringStep

\* What a restart delivers is in order, also if the UE has yet to start again.
LEMMA RestartInOrder ==
  ASSUME IInv, OrderInv, NEW s, EntityType(s), WindowInv(s), s.rx_next = e.rx_next,
         s.rx_deliv = e.rx_deliv, s.rx_window = e.rx_window, s.delivered = e.delivered
  PROVE  LET t == ResetState(DeliverAllSdus([s EXCEPT !.reordering_timer = FALSE]))
         IN DeliveredInOrder(t.delivered, ue.sdus) /\ Longer(e.delivered, t.delivered)
  <1>1. ue.sdus \in Nat /\ DeliveredInOrder(s.delivered, ue.sdus)
    BY DeliveredTypes
  <1>2. CASE ~Parked /\ ue.change # "reset"
    <2>1. SentOrder(ue.sent, ue.sdus) /\ Orderly(s, ue.sent, ue.sdus)
      BY <1>2, DeliveredTypes DEF Orderly
    <2> QED
      BY <1>1, <2>1, RestartDelivers
  <1>3. CASE Parked \/ ue.change = "reset"
    <2>1. s.rx_next = 0
      BY <1>3 DEF IInv, ControlInv
    <2>2. SentOrder(<<>>, ue.sdus) /\ Orderly(s, <<>>, ue.sdus)
      BY <1>1, <2>1, FreshOrderly
    <2> QED
      BY <1>1, <2>2, RestartDelivers
  <1> QED
    BY <1>2, <1>3

\* suspend
LEMMA FinishSuspendOrder ==
  ASSUME IInv, OrderInv, FinishSuspend
  PROVE  Onward /\ ue' = ue
  <1> DEFINE r == ResetState(DeliverAllSdus([e EXCEPT !.reordering_timer = FALSE]))
  <1>1. /\ routine.step = "suspend" /\ e.pending_crypto /\ e' = StartTokens(Suspend(e))
        /\ UNCHANGED <<cfg, queue, air, ue, faults>>
    BY DEF FinishSuspend
  <1>2. EntityType(e) /\ WindowInv(e) /\ ~e.suspended /\ e.buffering
    BY <1>1 DEF IInv, Types, ControlInv
  <1>3. Suspend(e) = [r EXCEPT !.suspended = TRUE]
    BY <1>2 DEF Suspend
  <1>4. KeepsRest(e, r)
    BY <1>2, RestartFields
  <1>5. DeliveredInOrder(r.delivered, ue.sdus) /\ Longer(e.delivered, r.delivered)
    BY <1>2, RestartInOrder
  <1> HIDE DEF r
  <1>6. e'.delivered = r.delivered /\ e'.suspended = TRUE /\ e'.crypto = e.crypto
    BY <1>1, <1>3, <1>4 DEF StartTokens, IncrementToken, KeepsRest, Fields
  <1>7. UnderWay' = {} /\ Parked'
    <2>1. UnderWay = {}
      BY <1>1, RoutineFindsDrained
    <2> QED
      BY <1>1, <1>6, <2>1 DEF UnderWay, Parked
  <1> QED
    BY <1>1, <1>5, <1>6, <1>7, DeliveringStep

\* set_security_config and reestablish
LEMMA FinishRekeyOrder ==
  ASSUME IInv, IInv', OrderInv, FinishRekey
  PROVE  Onward /\ ue'.sdus = ue.sdus
  <1> DEFINE k == ConfigureSecurity(e)
             ready == StartTokens(k)
             r == IF routine.reest THEN Reestablish(ready) ELSE ready
             resets == routine.resumed \/ (routine.reest /\ cfg.rlc_mode = "um")
  <1>1. PICK refused \in SUBSET Range(e.pdu_buffer) : e' = EndBuffering(r, refused)
    BY DEF FinishRekey
  <1>2. /\ routine.step = "rekey" /\ e.pending_crypto /\ UNCHANGED <<cfg, queue, air, bearer>>
        /\ ue' = [ue EXCEPT !.change =
                    CASE resets -> "reset"
                      [] ~routine.resumed /\ routine.reest /\ cfg.rlc_mode = "am" -> "resend"
                      [] OTHER -> "keep"]
    BY DEF FinishRekey
  <1>3. /\ EntityType(e) /\ WindowInv(e) /\ DOMAIN ue = UeFields
        /\ DOMAIN e = Fields /\ e.key \in Nat
        /\ routine.reest \in BOOLEAN /\ routine.resumed \in BOOLEAN
    BY <1>2 DEF IInv, Types, EntityType, UeType
  <1>4. ~e.stopped /\ ~e.suspended /\ ue.change = "none"
    BY <1>2 DEF IInv, ControlInv, KeyInv
  <1>5. /\ ue'.sent = ue.sent /\ ue'.sdus = ue.sdus /\ ue'.key = ue.key
        /\ ue'.change \in {"reset", "resend", "keep"} /\ (resets => ue'.change = "reset")
    BY <1>2, <1>3 DEF UeFields
  <1>6. OnlyChanges(e, k, {"key"}) /\ k.key = e.key + 1
    BY <1>3 DEF ConfigureSecurity, OnlyChanges, Fields
  <1> HIDE DEF k
  <1>7. EntityType(k)
    BY <1>3, <1>6 DEF EntityType, OnlyChanges, Fields
  <1>8. OnlyChanges(k, ready, {"tokens", "pending_crypto"}) /\ EntityType(ready)
    BY <1>7, StartTokensFields
  <1> HIDE DEF ready
  <1>9. /\ ready.rx_next = e.rx_next /\ ready.rx_deliv = e.rx_deliv
        /\ ready.rx_window = e.rx_window /\ ready.delivered = e.delivered
        /\ ready.rx_reord = e.rx_reord /\ ready.crypto = e.crypto /\ ready.stopped = e.stopped
    BY <1>6, <1>8 DEF OnlyChanges, Fields
  <1>10. WindowInv(ready)
    BY <1>3, <1>9 DEF WindowInv
  <1>11. /\ EntityType(r) /\ r.crypto = e.crypto /\ r.stopped = e.stopped
         /\ DeliveredInOrder(r.delivered, ue.sdus) /\ Longer(e.delivered, r.delivered)
         /\ ~resets => r = ready
    <2>1. CASE routine.reest /\ cfg.rlc_mode = "um"
      <3>1. r = ResetState(DeliverAllSdus([ready EXCEPT !.reordering_timer = FALSE]))
        BY <2>1 DEF Reestablish
      <3> HIDE DEF r
      <3>2. KeepsRest(ready, r) /\ EntityType(r)
        BY <1>8, <1>10, <3>1, RestartFields
      <3>3. DeliveredInOrder(r.delivered, ue.sdus) /\ Longer(e.delivered, r.delivered)
        BY <1>8, <1>9, <1>10, <3>1, RestartInOrder
      <3> QED
        BY <1>9, <2>1, <3>2, <3>3 DEF KeepsRest
    <2>2. CASE ~(routine.reest /\ cfg.rlc_mode = "um")
      <3>1. r = ready
        BY <1>3, <2>2 DEF Reestablish
      <3> HIDE DEF r
      <3> QED
        BY <1>8, <1>9, <3>1, DeliveredTypes
    <2> QED
      BY <2>1, <2>2
  <1> HIDE DEF r
  <1>12. e.crypto = {}
    BY <1>2, RoutineFindsDrained DEF Drained
  <1>13. OnlyChanges(r, e', {"tokens", "crypto", "buffering", "pdu_buffer", "resume_requested"})
    <2>1. EntityType(r) /\ ~r.stopped /\ r.crypto = {} /\ e' = EndBuffering(r, refused)
      BY <1>1, <1>4, <1>11, <1>12
    <2> QED
      BY <2>1, EndBufferingFields
  <1>14. e'.delivered = r.delivered /\ e'.rx_window = r.rx_window /\ e'.rx_deliv = r.rx_deliv
    BY <1>13 DEF OnlyChanges, Fields
  <1>15. ~Parked' /\ ue'.change # "reset" => Orderly(e', ue.sent, ue.sdus)
    <2> SUFFICES ASSUME ue'.change # "reset" PROVE Orderly(e', ue.sent, ue.sdus)
      OBVIOUS
    <2>1. r = ready /\ ~routine.resumed
      BY <1>5, <1>11
    <2>2. ~Parked
      BY <1>4, <2>1 DEF Parked
    <2>3. Orderly(e, ue.sent, ue.sdus)
      BY <1>4, <2>2, DeliveredTypes
    <2> QED
      BY <1>9, <1>14, <2>1, <2>3 DEF Orderly
  <1>16. \A task \in UnderWay' : task.pdu.key # e'.key
    <2>1. /\ ue'.key + 1 = e'.key /\ \A task \in UnderWay' : task.pdu.key <= ue'.key
      BY <1>5 DEF IInv, KeyInv
    <2>2. \A task \in UnderWay' : task \in Tasks
      <3>1. DOMAIN queue = {}
        BY <1>2, RoutineFindsDrained
      <3>2. \A task \in UnderWay' : task \in e'.crypto
        BY <1>2, <3>1 DEF UnderWay
      <3>3. e'.crypto \in SUBSET Tasks
        BY DEF IInv, Types, EntityType, Tasks, Pdus
      <3> QED
        BY <3>2, <3>3
    <2>3. \A task \in UnderWay' : task.pdu.key \in Nat
      BY <2>2 DEF Tasks, Pdus
    <2>4. ue'.key \in Nat
      BY DEF IInv, Types, UeType
    <2> QED
      BY <2>1, <2>3, <2>4
  <1> QED
    BY <1>2, <1>5, <1>11, <1>14, <1>15, <1>16, DeliveringStep

-----------------------------------------------------------------------------
(* The refinement.                                                         *)

\* The transfer finds nothing sent and nothing held.
LEMMA StatusTransferOrder ==
  ASSUME IInv, HandoverInv, OrderInv, StatusTransfer
  PROVE  Onward /\ ue'.sdus = ue.sdus
  <1> DEFINE s == SetCount(e, InitCount)
             n == ue.sdus
  <1>1. /\ e' = Reestablish(s) /\ KeepsRest(e, e') /\ EntityType(e') /\ WindowInv(e')
        /\ DOMAIN e'.rx_window = {} /\ UNCHANGED <<cfg, queue, air, ue, routine, faults>>
        /\ EntityType(s) /\ WindowInv(s) /\ s.delivered = e.delivered
        /\ s.rx_window = e.rx_window
    BY TransferDone
  <1> HIDE DEF s
  <1>2. ue.sent = <<>> /\ air = {} /\ Drained /\ DOMAIN e.rx_window = {}
    BY DEF StatusTransfer, HandoverInv
  <1>3. n \in Nat /\ SentOrder(<<>>, n) /\ DeliveredInOrder(e.delivered, n)
        /\ Longer(e.delivered, e.delivered)
    BY <1>2, DeliveredTypes
  <1>4. \A d, low : LaterThan(d, <<>>, low)
    BY DEF LaterThan
  <1>5. \A w : DOMAIN w = {} => HeldWasSent(w, <<>>)
    BY DEF HeldWasSent
  <1>6. DeliveredInOrder(e'.delivered, n) /\ Longer(e.delivered, e'.delivered)
    <2>1. CASE cfg.rlc_mode = "um"
      <3>1. Orderly(s, <<>>, n)
        BY <1>1, <1>2, <1>3, <1>4, <1>5 DEF Orderly
      <3> DEFINE t == ResetState(DeliverAllSdus([s EXCEPT !.reordering_timer = FALSE]))
      <3>2. DeliveredInOrder(t.delivered, n) /\ Longer(s.delivered, t.delivered)
        BY <1>1, <1>3, <3>1, RestartDelivers
      <3>3. e' = t
        BY <1>1, <2>1 DEF Reestablish
      <3> HIDE DEF t
      <3> QED
        BY <1>1, <3>2, <3>3
    <2>2. CASE cfg.rlc_mode # "um"
      <3>1. e' = s
        BY <1>1, <2>2 DEF Reestablish
      <3> QED
        BY <1>1, <1>3, <3>1
    <2> QED
      BY <2>1, <2>2
  <1>7. Orderly(e', <<>>, n)
    BY <1>1, <1>4, <1>5, <1>6 DEF Orderly
  <1>8. UnderWay' = {}
    BY <1>1, <1>2 DEF UnderWay, Drained, KeepsRest
  <1>9. OrderInv'
    <2>1. ue' = ue /\ air' = {} /\ ue'.sent = <<>>
      BY <1>1, <1>2
    <2> QED
      BY <1>3, <1>6, <1>7, <1>8, <2>1
      DEF OrderInv, SentOrder, DeliveredInOrder, Orderly, Service!Ascending, LaterThan,
          HeldWasSent, Sent
  <1> QED
    BY <1>1, <1>6, <1>9 DEF Onward

\* One step of the entity is a step of the service or none: the UE sends, or some SDUs
\* are delivered after those that were.
LEMMA StepRefines ==
  ASSUME IInv, HandoverInv, IInv', OrderInv, [TimelyNext]_vars
  PROVE  OrderInv' /\ [Service!Next]_(Service!serviceVars)
  <1>1. CASE UNCHANGED vars
    <2>1. UNCHANGED <<cfg, e, queue, air, ue, routine, bearer, faults>>
      BY <1>1 DEF vars
    <2>2. OrderInv'
      BY <2>1 DEF OrderInv, SentOrder, DeliveredInOrder, Orderly, Service!Ascending, LaterThan,
                  HeldWasSent, Sent, UnderWay, Parked
    <2> QED
      BY <2>1, <2>2 DEF Service!serviceVars
  <1>2. CASE UeSend
    <2>1. OrderInv' /\ ue'.sdus = ue.sdus + 1 /\ e' = e
      BY <1>2, UeSendOrder DEF Onward
    <2> QED
      BY <2>1 DEF Service!Next, Service!Send
  <1>3. CASE OtherStep
    <2>1. Onward /\ ue'.sdus = ue.sdus
      <3>1. CASE UeSwitch
        BY <3>1, UeSwitchOrder
      <3>2. CASE PduArrives
        BY <3>2, PduArrivesOrder DEF PduArrives
      <3>3. CASE ApplySecurity \/ RequestSuspend \/ RequestRekey \/ RequestRelease \/ FinishRelease
        <4>1. ue' = ue
          BY <3>3 DEF ApplySecurity, RequestSuspend, RequestRekey, RequestRelease, FinishRelease
        <4> QED
          BY <3>3, <4>1, QuietActionsOrder
      <3>4. CASE ProcessVerified
        BY <3>4, ProcessVerifiedOrder
      <3>5. CASE TReorderingExpiry
        BY <3>5, TReorderingExpiryOrder
      <3>6. CASE FinishSuspend
        BY <3>6, FinishSuspendOrder
      <3>7. CASE FinishRekey
        BY <3>7, FinishRekeyOrder
      <3>8. CASE StatusTransfer
        BY <3>8, StatusTransferOrder
      <3> QED
        BY <1>3, <3>1, <3>2, <3>3, <3>4, <3>5, <3>6, <3>7, <3>8 DEF OtherStep
    <2>2. /\ OrderInv' /\ Longer(e.delivered, e'.delivered)
          /\ e.delivered \in Seq(Nat) /\ e'.delivered \in Seq(Nat)
          /\ Service!Ascending(e'.delivered)
          /\ \A i \in DOMAIN e'.delivered : e'.delivered[i] \in 1 .. ue.sdus
      <3>1. DeliveredInOrder(e'.delivered, ue'.sdus)
        BY <2>1 DEF Onward, OrderInv, DeliveredInOrder, Service!Ascending
      <3> QED
        BY <2>1, <3>1, DeliveredTypes DEF Onward, DeliveredInOrder
    <2>3. /\ Len(e.delivered) \in Nat /\ Len(e'.delivered) \in Nat
          /\ Len(e.delivered) <= Len(e'.delivered)
          /\ \A i \in 1 .. Len(e.delivered) : e'.delivered[i] = e.delivered[i]
      BY <2>2 DEF Longer
    <2>4. CASE Len(e'.delivered) = Len(e.delivered)
      <3>1. e'.delivered = e.delivered
        BY <2>2, <2>3, <2>4, SeqEqual
      <3> QED
        BY <2>1, <2>2, <3>1 DEF Service!serviceVars
    <2>5. CASE Len(e'.delivered) > Len(e.delivered)
      <3> DEFINE first == SubSeq(e'.delivered, 1, Len(e.delivered))
      <3>1. first \in Seq(Nat) /\ Len(first) = Len(e.delivered)
              /\ \A i \in 1 .. Len(e.delivered) : first[i] = e'.delivered[i]
        BY <2>2, <2>3
      <3> HIDE DEF first
      <3>2. first = e.delivered
        BY <2>2, <2>3, <3>1, SeqEqual
      <3>3. Service!Deliver
        BY <2>1, <2>2, <2>5, <3>2 DEF Service!Deliver, Service!Ascending, first
      <3> QED
        BY <2>2, <3>3 DEF Service!Next
    <2> QED
      BY <2>2, <2>3, <2>4, <2>5
  <1> QED
    BY <1>1, <1>2, <1>3 DEF TimelyNext, TimelySend

\* The entity implements the service for every SN length, window, number of PDUs, faults
\* and keys: SDAP gets the SDUs in the order in which the UE sent them and each at most
\* once, across lost and repeated PDUs, expiries of t-Reordering, re-keying,
\* re-establishment, suspension, release and a handover whose SN status is timely.
THEOREM DeliversInOrder == TimelySpec => ImplementsPdcpService
  <1>1. Init => Service!Init
    BY DEF Init, Service!Init
  <1>2. IInv /\ HandoverInv /\ IInv' /\ OrderInv /\ [TimelySend \/ OtherStep]_vars
          => OrderInv' /\ [Service!Next]_(Service!serviceVars)
    BY StepRefines DEF TimelyNext
  <1> QED
    BY <1>1, <1>2, OrderInit, InvAlways, PTL DEF TimelySpec, ImplementsPdcpService, Service!Spec
=============================================================================

-------------------------- MODULE RlcSduQueueProofs --------------------------
(***************************************************************************)
(* Proofs about the lock-free SDU queue, for every capacity, byte limit,   *)
(* set of PDCP SNs and number of SDUs.                                     *)
(***************************************************************************)
EXTENDS RlcSduQueue, SequenceTheorems, FiniteSetTheorems, TLAPS

\* A thread that works on a slot has an SDU with a PDCP SN.
SlotNamed ==
  /\ up_pc \in {"slot", "size", "sn", "release", "discard_size"} => HasSn(up_sdu)
  /\ low_pc = "front_pop" => queue # <<>> /\ HasSn(Head(queue))
  /\ InHand => HasSn(low_sdu)

\* The order of ids: taken SDUs, then the one in the reader's hand, then the
\* queue from its head, then the one being written, then the next one.
Order ==
  /\ \A i, j \in DOMAIN queue : i < j => queue[i].id < queue[j].id
  /\ \A i \in DOMAIN queue : /\ queue[i].id < next_id
                             /\ Writing => queue[i].id < up_sdu.id
                             /\ InHand => low_sdu.id < queue[i].id
  /\ Writing => up_sdu.id < next_id /\ (InHand => low_sdu.id < up_sdu.id)
  /\ InHand => low_sdu.id < next_id
  /\ \A d \in discarded : d < next_id /\ (Writing => d < up_sdu.id)

TakenOrder ==
  \A t \in DOMAIN taken : /\ taken[t] < next_id
                          /\ \A i \in DOMAIN queue : taken[t] < queue[i].id
                          /\ InHand => taken[t] < low_sdu.id
                          /\ Writing => taken[t] < up_sdu.id

\* Every SDU that has a slot holds it; ids being distinct, no two share one.
SlotsHeld ==
  /\ \A i \in DOMAIN queue : IF HasSn(queue[i]) THEN Holds(queue[i])
                                               ELSE queue[i].id \notin discarded
  /\ InHand => Holds(low_sdu)
  /\ Allocated => Holds(up_sdu)
  /\ up_pc \in {"size", "sn"} => sdu_states[Slot(up_sdu.sn)] = STATE_FREE

\* What front has popped, or is about to pop, has been discarded.
FrontPopsDiscarded ==
  /\ low_pc = "front_pop" =>
       Head(queue).id \in discarded /\ low_op = "front"
  /\ InHand /\ low_op = "front" => low_sdu.id \in discarded

IInv == /\ TypeOK /\ SlotNamed /\ Order /\ TakenOrder /\ SlotsHeld /\ FrontPopsDiscarded
        /\ NoSlotLeak /\ DiscardedNeverTaken

-----------------------------------------------------------------------------
\* The slot of a PDCP SN exists: the index of sdu_states is within capacity.
LEMMA SlotInRange == \A sn \in PdcpSn : Slot(sn) \in Slots
  BY RlcSduQueueAssumption DEF Slot, Slots

\* The packed counter stays a natural number whatever is added or subtracted.
LEMMA PackedInNat == \A n \in Int : n % (Width * Width) \in Nat
  <1>1. Width * Width \in Nat /\ Width * Width > 0
    BY RlcSduQueueAssumption
  <1> QED
    BY <1>1

\* What popping the head of the SPSC queue leaves.
LEMMA PopFacts ==
  ASSUME NEW S, NEW q \in Seq(S), q # <<>>
  PROVE  /\ 1 \in DOMAIN q /\ Head(q) = q[1] /\ Head(q) \in S
         /\ Tail(q) \in Seq(S)
         /\ \A i \in DOMAIN Tail(q) : i \in Nat /\ i + 1 \in DOMAIN q /\ Tail(q)[i] = q[i + 1]
         /\ \A i \in DOMAIN q : i \in Nat /\ (i # 1 => /\ i - 1 \in DOMAIN Tail(q)
                                                       /\ Tail(q)[i - 1] = q[i])
  OBVIOUS

\* What pushing at its end adds.
LEMMA PushFacts ==
  ASSUME NEW S, NEW q \in Seq(S), NEW e \in S
  PROVE  /\ Append(q, e) \in Seq(S)
         /\ DOMAIN Append(q, e) = DOMAIN q \cup {Len(q) + 1}
         /\ Append(q, e)[Len(q) + 1] = e
         /\ Append(q, e) # <<>> /\ (q # <<>> => Head(Append(q, e)) = Head(q))
         /\ \A i \in DOMAIN q : i \in Nat /\ i < Len(q) + 1 /\ Append(q, e)[i] = q[i]
  <1>1. /\ Append(q, e) \in Seq(S)
        /\ DOMAIN Append(q, e) = DOMAIN q \cup {Len(q) + 1}
        /\ Append(q, e)[Len(q) + 1] = e
        /\ \A i \in DOMAIN q : i \in Nat /\ i < Len(q) + 1 /\ Append(q, e)[i] = q[i]
    OBVIOUS
  <1>3. Append(q, e) # <<>>
    BY AppendProperties
  <1>4. ASSUME q # <<>> PROVE Head(Append(q, e)) = Head(q)
    <2>1. Head(q) = q[1] /\ 1 \in DOMAIN q
      BY <1>4, PopFacts
    <2>2. Head(Append(q, e)) = Append(q, e)[1]
      BY <1>1, <1>3, PopFacts
    <2> QED
      BY <1>1, <2>1, <2>2
  <1> QED
    BY <1>1, <1>3, <1>4

-----------------------------------------------------------------------------
(* Types.                                                                  *)

\* A new queue has the right types: all slots free, nobody at work.
LEMMA TypeInit == Init => TypeOK /\ SlotNamed
  BY RlcSduQueueAssumption
  DEF Init, TypeOK, SlotNamed, InHand, NoSdu, Sdu, NoSn, STATE_FREE, STATE_DISCARDED

\* Steps of the writer keep every variable of its kind, the counter included.
LEMMA TypeUpper == TypeOK /\ SlotNamed /\ Upper => TypeOK' /\ SlotNamed'
  <1> SUFFICES ASSUME TypeOK, SlotNamed, Upper PROVE TypeOK' /\ SlotNamed'
    OBVIOUS
  <1> USE DEF TypeOK, SlotNamed, HasSn, InHand, Sdu, slotVars, lowVars, upVars, history
  <1>1. CASE WriteCheckLimit
    BY <1>1, RlcSduQueueAssumption, SMTT(30) DEF WriteCheckLimit
  <1>2. CASE WriteCheckSlot
    BY <1>2 DEF WriteCheckSlot
  <1>3. CASE WriteStoreSize
    BY <1>3 DEF WriteStoreSize
  <1>4. CASE WriteStoreSn
    <2>1. sdu_states' \in [Slots -> PdcpSn \cup {STATE_FREE, STATE_DISCARDED}]
      BY <1>4 DEF WriteStoreSn
    <2> QED
      BY <1>4, <2>1 DEF WriteStoreSn
  <1>5. CASE WritePush
    <2>1. /\ queue' \in Seq(Sdu)
          /\ queue # <<>> => queue' # <<>> /\ Head(queue') = Head(queue)
      <3>1. /\ Append(queue, up_sdu) \in Seq(Sdu) /\ Append(queue, up_sdu) # <<>>
            /\ queue # <<>> => Head(Append(queue, up_sdu)) = Head(queue)
        <4>1. queue \in Seq(Sdu) /\ up_sdu \in Sdu
          OBVIOUS
        <4> QED
          BY ONLY <4>1, PushFacts
      <3> QED
        BY <1>5, <3>1 DEF WritePush
    <2> QED
      BY <1>5, <2>1 DEF WritePush
  <1>6. CASE WriteReleaseSlot
    BY <1>6 DEF WriteReleaseSlot
  <1>7. CASE WriteStateAdd
    <2>1. state + Width + up_sdu.size \in Int
      BY RlcSduQueueAssumption
    <2> QED
      BY <1>7, <2>1, PackedInNat DEF WriteStateAdd, StateAdd
  <1>8. CASE DiscardSlot
    <2>1. PICK sn \in PdcpSn :
            /\ sdu_states' = [sdu_states EXCEPT ![Slot(sn)] = STATE_DISCARDED]
            /\ up_sdu' = [id |-> 0, sn |-> sn, size |-> 0]
            /\ discarded' = discarded \cup {holder[Slot(sn)]}
      BY <1>8 DEF DiscardSlot
    <2>2. sn # NoSn
      BY RlcSduQueueAssumption DEF NoSn
    <2>3. discarded' \subseteq Nat
      BY <2>1, SlotInRange
    <2> QED
      BY <1>8, <2>1, <2>2, <2>3 DEF DiscardSlot
  <1>9. CASE DiscardLoadSize
    BY <1>9, SlotInRange DEF DiscardLoadSize
  <1>10. CASE DiscardStateSub
    <2>1. state - Width - up_size \in Int
      BY RlcSduQueueAssumption
    <2> QED
      BY <1>10, <2>1, PackedInNat DEF DiscardStateSub, StateSub
  <1> QED
    BY <1>1, <1>2, <1>3, <1>4, <1>5, <1>6, <1>7, <1>8, <1>9, <1>10 DEF Upper

\* Steps of the reader keep every variable of its kind.
LEMMA TypeLower == TypeOK /\ SlotNamed /\ Lower => TypeOK' /\ SlotNamed'
  <1> SUFFICES ASSUME TypeOK, SlotNamed, Lower PROVE TypeOK' /\ SlotNamed'
    OBVIOUS
  <1> USE DEF TypeOK, SlotNamed, HasSn, InHand, Sdu, slotVars, lowVars, upVars, history
  <1>1. CASE ReadPop
    <2>1. Head(queue) \in Sdu /\ queue' \in Seq(Sdu)
      BY <1>1, PopFacts DEF ReadPop
    <2>2. Append(taken, Head(queue).id) \in Seq(Nat)
      BY <2>1
    <2>3. taken' \in Seq(Nat)
      BY <1>1, <2>2 DEF ReadPop
    <2> QED
      BY <1>1, <2>1, <2>3 DEF ReadPop
  <1>2. CASE ReadEmpty
    BY <1>2 DEF ReadEmpty
  <1>3. CASE LoadSize
    BY <1>3, SlotInRange DEF LoadSize
  <1>4. CASE ExchangeSlot
    <2>1. taken' \in Seq(Nat)
      BY <1>4, PushFacts DEF ExchangeSlot
    <2>2. low_valid' \in BOOLEAN
      BY <1>4, Zenon DEF ExchangeSlot, IsValid
    <2>3. low_pc' \in {"pop", "front", "sub"}
      BY <1>4 DEF ExchangeSlot, Loop
    <2>4. sdu_states' \in [Slots -> PdcpSn \cup {STATE_FREE, STATE_DISCARDED}]
      BY <1>4 DEF ExchangeSlot
    <2> QED
      BY <1>4, <2>1, <2>2, <2>3, <2>4 DEF ExchangeSlot
  <1>5. CASE LowStateSub
    <2>1. state - Width - low_size \in Int
      BY RlcSduQueueAssumption
    <2> QED
      BY <1>5, <2>1, PackedInNat DEF LowStateSub, StateSub, Loop
  <1>6. CASE FrontCheck
    BY <1>6 DEF FrontCheck
  <1>7. CASE FrontEmpty
    BY <1>7 DEF FrontEmpty
  <1>8. CASE FrontPop
    BY <1>8, PopFacts DEF FrontPop
  <1> QED
    BY <1>1, <1>2, <1>3, <1>4, <1>5, <1>6, <1>7, <1>8 DEF Lower

\* The fields of an SDU, and the slot of one that has a PDCP SN.
LEMMA SduFields ==
  \A s \in Sdu : /\ s.id \in Nat /\ s.sn \in PdcpSn \cup {NoSn} /\ s.size \in Nat
                 /\ HasSn(s) => s.sn \in PdcpSn /\ Slot(s.sn) \in Slots
  BY SlotInRange DEF Sdu, HasSn

\* A PDCP SN is never mistaken for one of the sentinel values.
LEMMA Sentinels == /\ STATE_FREE # STATE_DISCARDED
                   /\ \A sn \in PdcpSn : sn \notin {STATE_FREE, STATE_DISCARDED, NoSn}
  BY RlcSduQueueAssumption DEF STATE_FREE, STATE_DISCARDED, NoSn

-----------------------------------------------------------------------------
(* Every step keeps the inductive invariant.                               *)


\* Steps of the writer that touch no slot state and no queue.
LEMMA WriterLocalSteps ==
  ASSUME IInv, TypeOK', SlotNamed',
         WriteCheckSlot \/ WriteStoreSize \/ WriteStateAdd \/ DiscardLoadSize \/ DiscardStateSub
  PROVE  IInv'
  <1> USE DEF IInv, SlotNamed, HasSn, InHand, Writing, Allocated, slotVars, lowVars, upVars, history
  <1>1. CASE WriteCheckSlot
    <2>1. Order' /\ TakenOrder' /\ DiscardedNeverTaken'
      BY <1>1 DEF WriteCheckSlot, Order, TakenOrder, DiscardedNeverTaken
    <2>2. SlotsHeld' /\ FrontPopsDiscarded'
      BY <1>1 DEF WriteCheckSlot, SlotsHeld, FrontPopsDiscarded, Holds, TypeOK, Sdu
    <2>3. NoSlotLeak'
      BY <1>1 DEF WriteCheckSlot, NoSlotLeak, Holds
    <2> QED
      BY <2>1, <2>2, <2>3
  <1>2. CASE WriteStoreSize
    <2>1. Order' /\ TakenOrder' /\ DiscardedNeverTaken'
      BY <1>2 DEF WriteStoreSize, Order, TakenOrder, DiscardedNeverTaken
    <2>2. SlotsHeld' /\ FrontPopsDiscarded'
      BY <1>2 DEF WriteStoreSize, SlotsHeld, FrontPopsDiscarded, Holds
    <2>3. NoSlotLeak'
      BY <1>2 DEF WriteStoreSize, NoSlotLeak, Holds
    <2> QED
      BY <2>1, <2>2, <2>3
  <1>3. CASE WriteStateAdd
    <2>1. Order' /\ TakenOrder' /\ DiscardedNeverTaken'
      BY <1>3 DEF WriteStateAdd, Order, TakenOrder, DiscardedNeverTaken
    <2>2. SlotsHeld' /\ FrontPopsDiscarded'
      BY <1>3 DEF WriteStateAdd, SlotsHeld, FrontPopsDiscarded, Holds
    <2>3. NoSlotLeak'
      BY <1>3 DEF WriteStateAdd, NoSlotLeak, Holds
    <2> QED
      BY <2>1, <2>2, <2>3
  <1>4. CASE DiscardLoadSize
    <2>1. Order' /\ TakenOrder' /\ DiscardedNeverTaken'
      BY <1>4 DEF DiscardLoadSize, Order, TakenOrder, DiscardedNeverTaken
    <2>2. SlotsHeld' /\ FrontPopsDiscarded'
      BY <1>4 DEF DiscardLoadSize, SlotsHeld, FrontPopsDiscarded, Holds
    <2>3. NoSlotLeak'
      BY <1>4 DEF DiscardLoadSize, NoSlotLeak, Holds
    <2> QED
      BY <2>1, <2>2, <2>3
  <1>5. CASE DiscardStateSub
    <2>1. Order' /\ TakenOrder' /\ DiscardedNeverTaken'
      BY <1>5 DEF DiscardStateSub, Order, TakenOrder, DiscardedNeverTaken
    <2>2. SlotsHeld' /\ FrontPopsDiscarded'
      BY <1>5 DEF DiscardStateSub, SlotsHeld, FrontPopsDiscarded, Holds
    <2>3. NoSlotLeak'
      BY <1>5 DEF DiscardStateSub, NoSlotLeak, Holds
    <2> QED
      BY <2>1, <2>2, <2>3
  <1> QED
    BY <1>1, <1>2, <1>3, <1>4, <1>5

\* Steps of the reader that touch no slot state and no queue.
LEMMA ReaderLocalSteps ==
  ASSUME IInv, TypeOK', SlotNamed',
         ReadEmpty \/ LoadSize \/ LowStateSub \/ FrontCheck \/ FrontEmpty
  PROVE  IInv'
  <1> USE DEF IInv, SlotNamed, HasSn, InHand, Writing, Allocated, slotVars, lowVars, upVars, history
  <1>1. CASE ReadEmpty
    <2>1. Order' /\ TakenOrder' /\ DiscardedNeverTaken'
      BY <1>1 DEF ReadEmpty, Order, TakenOrder, DiscardedNeverTaken
    <2>2. SlotsHeld' /\ FrontPopsDiscarded'
      BY <1>1 DEF ReadEmpty, SlotsHeld, FrontPopsDiscarded, Holds
    <2>3. NoSlotLeak'
      BY <1>1 DEF ReadEmpty, NoSlotLeak, Holds
    <2> QED
      BY <2>1, <2>2, <2>3
  <1>2. CASE LoadSize
    <2>1. Order' /\ TakenOrder' /\ DiscardedNeverTaken'
      BY <1>2 DEF LoadSize, Order, TakenOrder, DiscardedNeverTaken
    <2>2. SlotsHeld' /\ FrontPopsDiscarded'
      BY <1>2 DEF LoadSize, SlotsHeld, FrontPopsDiscarded, Holds
    <2>3. NoSlotLeak'
      BY <1>2 DEF LoadSize, NoSlotLeak, Holds
    <2> QED
      BY <2>1, <2>2, <2>3
  <1>3. CASE LowStateSub
    <2>1. Order' /\ TakenOrder' /\ DiscardedNeverTaken'
      BY <1>3 DEF LowStateSub, Loop, Order, TakenOrder, DiscardedNeverTaken
    <2>2. SlotsHeld' /\ FrontPopsDiscarded'
      BY <1>3 DEF LowStateSub, Loop, SlotsHeld, FrontPopsDiscarded, Holds
    <2>3. NoSlotLeak'
      BY <1>3 DEF LowStateSub, Loop, NoSlotLeak, Holds
    <2> QED
      BY <2>1, <2>2, <2>3
  <1>4. CASE FrontCheck
    <2>1. Order' /\ TakenOrder' /\ DiscardedNeverTaken'
      BY <1>4 DEF FrontCheck, Order, TakenOrder, DiscardedNeverTaken
    <2>2. SlotsHeld' /\ FrontPopsDiscarded'
      BY <1>4 DEF FrontCheck, SlotsHeld, FrontPopsDiscarded, Holds, TypeOK, Sdu
    <2>3. NoSlotLeak'
      BY <1>4 DEF FrontCheck, NoSlotLeak, Holds
    <2> QED
      BY <2>1, <2>2, <2>3
  <1>5. CASE FrontEmpty
    <2>1. Order' /\ TakenOrder' /\ DiscardedNeverTaken'
      BY <1>5 DEF FrontEmpty, Order, TakenOrder, DiscardedNeverTaken
    <2>2. SlotsHeld' /\ FrontPopsDiscarded'
      BY <1>5 DEF FrontEmpty, SlotsHeld, FrontPopsDiscarded, Holds
    <2>3. NoSlotLeak'
      BY <1>5 DEF FrontEmpty, NoSlotLeak, Holds
    <2> QED
      BY <2>1, <2>2, <2>3
  <1> QED
    BY <1>1, <1>2, <1>3, <1>4, <1>5

\* A new SDU gets the largest id.
LEMMA WriteCheckLimitKeeps ==
  ASSUME IInv, TypeOK', SlotNamed', WriteCheckLimit
  PROVE  IInv'
  <1> USE DEF IInv, InHand, slotVars, lowVars, history
  <1>1. /\ up_sdu'.id = next_id /\ next_id' = next_id + 1
        /\ up_pc = "idle" /\ up_pc' \in {"idle", "push", "slot"}
        /\ up_pc' = "push" => ~HasSn(up_sdu')
        /\ UNCHANGED <<queue, sdu_states, holder, discarded, taken, lowVars>>
    BY DEF WriteCheckLimit, HasSn
  <1>2. /\ next_id \in Nat /\ low_sdu.id \in Nat /\ discarded \subseteq Nat
        /\ \A i \in DOMAIN queue : queue[i].id \in Nat
        /\ \A t \in DOMAIN taken : taken[t] \in Nat
    BY SduFields DEF TypeOK
  <1>3. Order' /\ TakenOrder' /\ DiscardedNeverTaken'
    BY <1>1, <1>2 DEF Order, TakenOrder, DiscardedNeverTaken, Writing
  <1>4. SlotsHeld' /\ FrontPopsDiscarded'
    BY <1>1 DEF SlotsHeld, FrontPopsDiscarded, Holds, Allocated
  <1>5. NoSlotLeak'
    BY <1>1 DEF NoSlotLeak, Holds, Allocated
  <1> QED
    BY <1>3, <1>4, <1>5

\* The slot was free, so no other SDU holds it.
LEMMA WriteStoreSnKeeps ==
  ASSUME IInv, TypeOK', SlotNamed', WriteStoreSn
  PROVE  IInv'
  <1> USE DEF IInv, InHand, lowVars
  <1> DEFINE slot == Slot(up_sdu.sn)
  <1>1. /\ up_pc = "sn" /\ up_pc' = "push"
        /\ sdu_states' = [sdu_states EXCEPT ![slot] = up_sdu.sn]
        /\ holder' = [holder EXCEPT ![slot] = up_sdu.id]
        /\ UNCHANGED <<queue, up_sdu, discarded, taken, next_id, lowVars>>
    BY DEF WriteStoreSn
  <1>2. HasSn(up_sdu) /\ up_sdu \in Sdu /\ up_sdu.sn \in PdcpSn /\ slot \in Slots
        /\ sdu_states[slot] = STATE_FREE
    BY <1>1, SduFields DEF SlotNamed, SlotsHeld, TypeOK
  <1>3. ASSUME NEW s \in Sdu, HasSn(s), Holds(s)
        PROVE  Slot(s.sn) # slot /\ Holds(s)'
    <2>1. Slot(s.sn) # slot
      BY <1>2, <1>3, SduFields, Sentinels DEF Holds
    <2> QED
      BY <1>1, <1>3, <2>1, SduFields DEF Holds, TypeOK
  <1>4. Holds(up_sdu)'
    BY <1>1, <1>2, SduFields DEF Holds, TypeOK, Order, Writing
  <1>5. \A i \in DOMAIN queue : queue[i] \in Sdu
    BY DEF TypeOK
  <1>6. Order' /\ TakenOrder' /\ DiscardedNeverTaken' /\ FrontPopsDiscarded'
    BY <1>1 DEF Order, TakenOrder, DiscardedNeverTaken, FrontPopsDiscarded, Writing
  <1>7. SlotsHeld'
    <2>1. InHand => Holds(low_sdu)'
      BY <1>1, <1>3 DEF TypeOK, SlotNamed, SlotsHeld, Holds
    <2>2. \A i \in DOMAIN queue : HasSn(queue[i]) => Holds(queue[i])'
      BY <1>1, <1>3, <1>5 DEF SlotsHeld, Holds
    <2> QED
      BY <1>1, <1>4, <2>1, <2>2 DEF SlotsHeld, HasSn
  <1>8. NoSlotLeak'
    <2> SUFFICES ASSUME NEW k \in Slots, sdu_states'[k] # STATE_FREE, k # slot
                 PROVE  \/ \E i \in DOMAIN queue : /\ HasSn(queue[i]) /\ Slot(queue[i].sn) = k
                                                   /\ Holds(queue[i])'
                        \/ InHand /\ Slot(low_sdu.sn) = k /\ Holds(low_sdu)'
      BY <1>1, <1>2, <1>4 DEF NoSlotLeak, Allocated, HasSn
    <2>1. sdu_states[k] # STATE_FREE
      BY <1>1 DEF TypeOK
    <2> QED
      BY <1>1, <1>3, <1>5, <2>1 DEF NoSlotLeak, Allocated, TypeOK, SlotNamed
  <1> QED
    BY <1>6, <1>7, <1>8

\* The SDU joins the queue and keeps its slot; a full queue changes nothing.
LEMMA WritePushKeeps ==
  ASSUME IInv, TypeOK', SlotNamed', WritePush
  PROVE  IInv'
  <1> USE DEF IInv, InHand, slotVars, lowVars, history
  <1>1. CASE ~IsFull
    <2>1. /\ queue' = Append(queue, up_sdu) /\ up_pc = "push" /\ up_pc' = "add"
          /\ UNCHANGED <<sdu_states, holder, discarded, taken, next_id, up_sdu, lowVars>>
      BY <1>1 DEF WritePush
    <2>2. queue \in Seq(Sdu) /\ up_sdu \in Sdu
      BY DEF TypeOK
    <2> DEFINE last == Len(queue) + 1
    <2>3. /\ DOMAIN queue' = DOMAIN queue \cup {last} /\ queue'[last] = up_sdu
          /\ queue # <<>> => Head(queue') = Head(queue)
          /\ \A i \in DOMAIN queue : i \in Nat /\ i < last /\ queue'[i] = queue[i]
          /\ last \in Nat
      BY ONLY <2>1, <2>2, PushFacts
    <2>4. /\ next_id \in Nat /\ low_sdu.id \in Nat /\ up_sdu.id \in Nat
          /\ \A i \in DOMAIN queue : queue[i].id \in Nat
          /\ \A t \in DOMAIN taken : taken[t] \in Nat
      BY SduFields DEF TypeOK
    <2> HIDE DEF last
    <2>5. Order'
      BY <2>1, <2>3, <2>4 DEF Order, Writing
    <2>6. TakenOrder' /\ DiscardedNeverTaken'
      BY <2>1, <2>3, <2>4 DEF TakenOrder, DiscardedNeverTaken, Writing
    <2>7. FrontPopsDiscarded'
      BY <2>1, <2>3 DEF FrontPopsDiscarded, SlotNamed
    <2>8. up_sdu.id \notin discarded
      BY <2>1, <2>4 DEF Order, Writing, TypeOK
    <2>9. SlotsHeld'
      BY <2>1, <2>3, <2>8 DEF SlotsHeld, Holds, HasSn, Allocated
    <2>10. NoSlotLeak'
      <3> SUFFICES ASSUME NEW k \in Slots, sdu_states[k] # STATE_FREE
                   PROVE  \/ \E i \in DOMAIN queue' :
                                HasSn(queue[i])' /\ Slot(queue'[i].sn) = k /\ Holds(queue[i])'
                          \/ InHand /\ Slot(low_sdu.sn) = k /\ Holds(low_sdu)'
        BY <2>1 DEF NoSlotLeak
      <3>1. CASE \E i \in DOMAIN queue :
                   HasSn(queue[i]) /\ Slot(queue[i].sn) = k /\ Holds(queue[i])
        BY <2>1, <2>3, <3>1 DEF Holds, HasSn
      <3>2. CASE InHand /\ Slot(low_sdu.sn) = k /\ Holds(low_sdu)
        BY <2>1, <3>2 DEF Holds
      <3>3. CASE Allocated /\ Slot(up_sdu.sn) = k /\ Holds(up_sdu)
        BY <2>1, <2>3, <3>3 DEF Holds, HasSn, Allocated
      <3> QED
        BY <3>1, <3>2, <3>3 DEF NoSlotLeak
    <2> QED
      BY <2>5, <2>6, <2>7, <2>9, <2>10
  <1>2. CASE IsFull
    <2>1. /\ up_pc = "push" /\ up_pc' = IF HasSn(up_sdu) THEN "release" ELSE "idle"
          /\ UNCHANGED <<queue, sdu_states, holder, discarded, taken, next_id, up_sdu, lowVars>>
      BY <1>2 DEF WritePush, HasSn
    <2>2. Order' /\ TakenOrder' /\ DiscardedNeverTaken'
      BY <2>1 DEF Order, TakenOrder, DiscardedNeverTaken, Writing
    <2>3. SlotsHeld' /\ FrontPopsDiscarded'
      BY <2>1 DEF SlotsHeld, FrontPopsDiscarded, Holds, Allocated, HasSn
    <2>4. NoSlotLeak'
      BY <2>1 DEF NoSlotLeak, Holds, Allocated, HasSn
    <2> QED
      BY <2>2, <2>3, <2>4
  <1> QED
    BY <1>1, <1>2

\* The slot that is given back is the writer's own.
LEMMA WriteReleaseSlotKeeps ==
  ASSUME IInv, TypeOK', SlotNamed', WriteReleaseSlot
  PROVE  IInv'
  <1> USE DEF IInv, InHand, lowVars, history
  <1> DEFINE slot == Slot(up_sdu.sn)
  <1>1. /\ up_pc = "release" /\ up_pc' = "idle"
        /\ sdu_states' = [sdu_states EXCEPT ![slot] = STATE_FREE]
        /\ UNCHANGED <<queue, up_sdu, holder, discarded, taken, next_id, lowVars>>
    BY DEF WriteReleaseSlot
  <1>2. Allocated /\ Holds(up_sdu) /\ up_sdu \in Sdu /\ slot \in Slots
    BY <1>1, SduFields DEF SlotNamed, SlotsHeld, Allocated, TypeOK
  <1>3. ASSUME NEW s \in Sdu, HasSn(s), Holds(s), s.id < up_sdu.id
        PROVE  Slot(s.sn) # slot /\ Holds(s)'
    <2>1. Slot(s.sn) # slot
      BY <1>2, <1>3, SduFields DEF Holds
    <2> QED
      BY <1>1, <1>3, <2>1, SduFields DEF Holds, TypeOK
  <1>4. \A i \in DOMAIN queue : queue[i] \in Sdu /\ queue[i].id < up_sdu.id
    BY <1>1 DEF TypeOK, Order, Writing
  <1>5. InHand => HasSn(low_sdu) /\ low_sdu \in Sdu /\ low_sdu.id < up_sdu.id
    BY <1>1 DEF TypeOK, SlotNamed, Order, Writing
  <1>6. Order' /\ TakenOrder' /\ DiscardedNeverTaken' /\ FrontPopsDiscarded'
    BY <1>1 DEF Order, TakenOrder, DiscardedNeverTaken, FrontPopsDiscarded, Writing
  <1>7. SlotsHeld'
    <2>1. InHand => Holds(low_sdu)'
      BY <1>1, <1>3, <1>5 DEF SlotsHeld, Holds
    <2>2. \A i \in DOMAIN queue : HasSn(queue[i]) => Holds(queue[i])'
      BY <1>1, <1>3, <1>4 DEF SlotsHeld, Holds
    <2> QED
      BY <1>1, <2>1, <2>2 DEF SlotsHeld, HasSn, Allocated
  <1>8. NoSlotLeak'
    <2> SUFFICES ASSUME NEW k \in Slots, sdu_states[k] # STATE_FREE, k # slot
                 PROVE  \/ \E i \in DOMAIN queue : /\ HasSn(queue[i]) /\ Slot(queue[i].sn) = k
                                                   /\ Holds(queue[i])'
                        \/ InHand /\ Slot(low_sdu.sn) = k /\ Holds(low_sdu)'
      BY <1>1 DEF NoSlotLeak, HasSn, TypeOK
    <2> QED
      BY <1>1, <1>3, <1>4, <1>5 DEF NoSlotLeak, Holds
  <1> QED
    BY <1>6, <1>7, <1>8

\* The compare-exchange marks one SDU and only that one: the slot has an owner,
\* and nobody else has its id.
LEMMA DiscardSlotKeeps ==
  ASSUME IInv, TypeOK', SlotNamed', DiscardSlot
  PROVE  IInv'
  <1> USE DEF IInv, InHand, lowVars
  <1>1. PICK sn \in PdcpSn :
          /\ sdu_states[Slot(sn)] = sn
          /\ sdu_states' = [sdu_states EXCEPT ![Slot(sn)] = STATE_DISCARDED]
          /\ discarded' = discarded \cup {holder[Slot(sn)]}
    BY DEF DiscardSlot
  <1> DEFINE slot == Slot(sn)
  <1>2. /\ up_pc = "idle" /\ up_pc' = "discard_size"
        /\ UNCHANGED <<queue, holder, taken, next_id, lowVars>>
    BY DEF DiscardSlot
  <1>3. /\ \A i \in DOMAIN queue : i \in Int /\ queue[i] \in Sdu /\ queue[i].id \in Nat
        /\ \A t \in DOMAIN taken : taken[t] \in Nat
        /\ low_sdu \in Sdu /\ low_sdu.id \in Nat /\ next_id \in Nat /\ slot \in Slots
    BY SduFields, SlotInRange, SMTT(30) DEF TypeOK
  <1>4. \E o \in Sdu :
          /\ HasSn(o) /\ Slot(o.sn) = slot /\ Holds(o) /\ o.id < next_id
          /\ \A i \in DOMAIN queue : queue[i].id = o.id => queue[i] = o
          /\ InHand /\ low_sdu.id = o.id => low_sdu = o
          /\ \A t \in DOMAIN taken : taken[t] # o.id
    <2>1. sdu_states[slot] # STATE_FREE /\ ~Allocated
      BY <1>1, <1>2, Sentinels DEF Allocated
    <2>2. CASE \E i \in DOMAIN queue :
                 HasSn(queue[i]) /\ Slot(queue[i].sn) = slot /\ Holds(queue[i])
      <3>1. PICK i \in DOMAIN queue :
              HasSn(queue[i]) /\ Slot(queue[i].sn) = slot /\ Holds(queue[i])
        BY <2>2
      <3>2. \A j \in DOMAIN queue : queue[j].id = queue[i].id => j = i
        BY <1>3 DEF Order
      <3>3. /\ queue[i].id < next_id /\ (InHand => low_sdu.id # queue[i].id)
            /\ \A t \in DOMAIN taken : taken[t] # queue[i].id
        BY <1>3 DEF Order, TakenOrder
      <3> QED
        BY <1>3, <3>1, <3>2, <3>3
    <2>3. CASE InHand /\ Slot(low_sdu.sn) = slot /\ Holds(low_sdu)
      <3>1. /\ low_sdu.id < next_id /\ \A i \in DOMAIN queue : queue[i].id # low_sdu.id
            /\ \A t \in DOMAIN taken : taken[t] # low_sdu.id
        BY <1>3, <2>3 DEF Order, TakenOrder
      <3> QED
        BY <1>3, <2>3, <3>1 DEF SlotNamed
    <2> QED
      BY <1>3, <2>1, <2>2, <2>3 DEF NoSlotLeak
  <1>5. PICK o \in Sdu :
          /\ HasSn(o) /\ Slot(o.sn) = slot /\ Holds(o) /\ o.id < next_id
          /\ \A i \in DOMAIN queue : queue[i].id = o.id => queue[i] = o
          /\ InHand /\ low_sdu.id = o.id => low_sdu = o
          /\ \A t \in DOMAIN taken : taken[t] # o.id
    BY <1>4
  <1>6. holder[slot] = o.id /\ discarded' = discarded \cup {o.id}
    BY <1>1, <1>5 DEF Holds
  <1>7. ASSUME NEW s \in Sdu, HasSn(s), Holds(s), s.id = o.id => s = o
        PROVE  Holds(s)'
    <2>1. CASE s = o
      BY <1>1, <1>2, <1>3, <1>5, <1>6, <2>1 DEF Holds, TypeOK
    <2>2. CASE s # o
      <3>1. Slot(s.sn) # slot /\ s.id # o.id
        BY <1>6, <1>7, <2>2 DEF Holds
      <3> QED
        BY <1>1, <1>2, <1>3, <1>6, <1>7, <3>1, SduFields DEF Holds, TypeOK
    <2> QED
      BY <2>1, <2>2
  <1>8. Order' /\ TakenOrder'
    BY <1>2, <1>5, <1>6 DEF Order, TakenOrder, Writing
  <1>9. DiscardedNeverTaken' /\ FrontPopsDiscarded'
    BY <1>2, <1>5, <1>6 DEF DiscardedNeverTaken, FrontPopsDiscarded
  <1>10. InHand => Holds(low_sdu)'
    BY <1>2, <1>3, <1>5, <1>7 DEF SlotsHeld, SlotNamed, Holds
  <1>11. \A i \in DOMAIN queue : HasSn(queue[i]) => Holds(queue[i])'
    BY <1>2, <1>3, <1>5, <1>7 DEF SlotsHeld, Holds
  <1>12. \A i \in DOMAIN queue : ~HasSn(queue[i]) => queue[i].id \notin discarded'
    BY <1>3, <1>5, <1>6 DEF SlotsHeld
  <1>13. SlotsHeld'
    BY <1>2, <1>10, <1>11, <1>12 DEF SlotsHeld, HasSn, Allocated
  <1>14. NoSlotLeak'
    <2> SUFFICES ASSUME NEW k \in Slots, sdu_states[k] # STATE_FREE
                 PROVE  \/ \E i \in DOMAIN queue : /\ HasSn(queue[i]) /\ Slot(queue[i].sn) = k
                                                   /\ Holds(queue[i])'
                        \/ InHand /\ Slot(low_sdu.sn) = k /\ Holds(low_sdu)'
      BY <1>1, <1>2, <1>3, Sentinels DEF NoSlotLeak, HasSn, TypeOK
    <2>1. ~Allocated
      BY <1>2 DEF Allocated
    <2> QED
      BY <2>1, <1>10, <1>11 DEF NoSlotLeak
  <1> QED
    BY <1>8, <1>9, <1>13, <1>14

\* The head of the queue moves to the reader's hand, or is returned at once if
\* it has no PDCP SN.
LEMMA PopKeeps ==
  ASSUME IInv, TypeOK', SlotNamed', ReadPop \/ FrontPop
  PROVE  IInv'
  <1> USE DEF IInv, slotVars, upVars
  <1> DEFINE head == Head(queue)
  <1>1. /\ queue # <<>> /\ queue' = Tail(queue) /\ ~InHand /\ low_sdu' = head
        /\ UNCHANGED <<sdu_states, holder, discarded, next_id, upVars>>
        /\ low_pc' # "front_pop"
    BY DEF ReadPop, FrontPop, InHand, history
  <1>2. \/ HasSn(head) /\ InHand' /\ taken' = taken
        \/ ~HasSn(head) /\ ~InHand' /\ taken' = Append(taken, head.id)
    BY DEF ReadPop, FrontPop, InHand, HasSn, SlotNamed, history
  <1>3. low_op' = "front" /\ InHand' => head.id \in discarded
    BY DEF ReadPop, FrontPop, FrontPopsDiscarded, InHand
  <1>4. queue \in Seq(Sdu)
    BY DEF TypeOK
  <1>5. /\ 1 \in DOMAIN queue /\ head = queue[1] /\ head \in Sdu
        /\ \A i \in DOMAIN queue' : i \in Nat /\ i + 1 \in DOMAIN queue /\ queue'[i] = queue[i + 1]
        /\ \A i \in DOMAIN queue : i \in Nat /\ (i # 1 => /\ i - 1 \in DOMAIN queue'
                                                          /\ queue'[i - 1] = queue[i])
    BY ONLY <1>1, <1>4, PopFacts
  <1>6. \A i \in DOMAIN queue' : i >= 1
    BY <1>4, <1>1
  <1>7. /\ next_id \in Nat /\ up_sdu.id \in Nat /\ head.id \in Nat /\ taken \in Seq(Nat)
        /\ \A i \in DOMAIN queue : queue[i].id \in Nat
        /\ \A t \in DOMAIN taken : taken[t] \in Nat
    BY <1>5, SduFields DEF TypeOK
  <1> HIDE DEF head
  <1>8. /\ \A i \in DOMAIN queue' : head.id < queue'[i].id
        /\ head.id < next_id /\ (Writing => head.id < up_sdu.id)
        /\ \A t \in DOMAIN taken : taken[t] < head.id
    BY <1>5, <1>6 DEF Order, TakenOrder
  <1>9. Writing' <=> Writing
    BY <1>1 DEF Writing
  <1>10. Order'
    BY <1>1, <1>5, <1>6, <1>7, <1>8, <1>9 DEF Order
  <1>11. \A t \in DOMAIN taken' : \/ t \in DOMAIN taken /\ taken'[t] = taken[t]
                                  \/ ~HasSn(head) /\ ~InHand' /\ taken'[t] = head.id
    <2>1. taken' = Append(taken, head.id) =>
            \A t \in DOMAIN taken' : \/ t \in DOMAIN taken /\ taken'[t] = taken[t]
                                     \/ taken'[t] = head.id
      BY ONLY <1>7, PushFacts
    <2> QED
      BY <1>2, <2>1
  <1>12. TakenOrder'
    BY <1>1, <1>5, <1>7, <1>8, <1>9, <1>11 DEF TakenOrder
  <1>13. DiscardedNeverTaken'
    BY <1>1, <1>5, <1>11 DEF DiscardedNeverTaken, SlotsHeld
  <1>14. FrontPopsDiscarded'
    BY <1>1, <1>3 DEF FrontPopsDiscarded
  <1>15. SlotsHeld'
    BY <1>1, <1>2, <1>5 DEF SlotsHeld, Holds, HasSn, Allocated
  <1>16. NoSlotLeak'
    <2> SUFFICES ASSUME NEW k \in Slots, sdu_states[k] # STATE_FREE
                 PROVE  \/ \E i \in DOMAIN queue' :
                              HasSn(queue[i])' /\ Slot(queue'[i].sn) = k /\ Holds(queue[i])'
                        \/ InHand' /\ Slot(low_sdu'.sn) = k /\ Holds(low_sdu)'
                        \/ Allocated' /\ Slot(up_sdu'.sn) = k /\ Holds(up_sdu)'
      BY <1>1 DEF NoSlotLeak
    <2>1. CASE \E i \in DOMAIN queue :
                 HasSn(queue[i]) /\ Slot(queue[i].sn) = k /\ Holds(queue[i])
      <3>1. PICK i \in DOMAIN queue : HasSn(queue[i]) /\ Slot(queue[i].sn) = k /\ Holds(queue[i])
        BY <2>1
      <3>2. CASE i = 1
        BY <1>1, <1>2, <1>5, <3>1, <3>2 DEF Holds, HasSn
      <3>3. CASE i # 1
        <4>1. i - 1 \in DOMAIN queue' /\ queue'[i - 1] = queue[i]
          BY <1>5, <3>3
        <4> QED
          BY <1>1, <3>1, <4>1 DEF Holds, HasSn
      <3> QED
        BY <3>2, <3>3
    <2>2. CASE Allocated /\ Slot(up_sdu.sn) = k /\ Holds(up_sdu)
      BY <1>1, <2>2 DEF Holds, HasSn, Allocated
    <2> QED
      BY <1>1, <2>1, <2>2 DEF NoSlotLeak
  <1> QED
    BY <1>10, <1>12, <1>13, <1>14, <1>15, <1>16

\* The slot that becomes free is the one of the SDU in the reader's hand.
LEMMA ExchangeSlotKeeps ==
  ASSUME IInv, TypeOK', SlotNamed', ExchangeSlot
  PROVE  IInv'
  <1> USE DEF IInv, upVars
  <1> DEFINE slot == Slot(low_sdu.sn)
  <1>1. /\ InHand /\ ~InHand' /\ low_pc' # "front_pop"
        /\ sdu_states' = [sdu_states EXCEPT ![slot] = STATE_FREE]
        /\ UNCHANGED <<queue, low_sdu, holder, discarded, next_id, upVars>>
    BY DEF ExchangeSlot, InHand, Loop
  <1>2. HasSn(low_sdu) /\ Holds(low_sdu) /\ low_sdu \in Sdu /\ slot \in Slots
    BY <1>1, SduFields DEF SlotNamed, SlotsHeld, TypeOK
  <1>3. \/ taken' = taken
        \/ taken' = Append(taken, low_sdu.id) /\ low_sdu.id \notin discarded
    <2>1. sdu_states[slot] = low_sdu.sn => low_sdu.id \notin discarded
      BY <1>2, SduFields, Sentinels DEF Holds
    <2> QED
      BY <2>1 DEF ExchangeSlot, IsValid
  <1>4. ASSUME NEW s \in Sdu, HasSn(s), Holds(s), low_sdu.id < s.id
        PROVE  Slot(s.sn) # slot /\ Holds(s)'
    <2>1. Slot(s.sn) # slot
      BY <1>2, <1>4, SduFields DEF Holds
    <2> QED
      BY <1>1, <1>4, <2>1, SduFields DEF Holds, TypeOK
  <1>5. \A i \in DOMAIN queue : queue[i] \in Sdu /\ low_sdu.id < queue[i].id
    BY <1>1 DEF TypeOK, Order
  <1>6. /\ low_sdu.id < next_id /\ (Writing => low_sdu.id < up_sdu.id)
        /\ up_sdu \in Sdu /\ (Allocated => Writing /\ HasSn(up_sdu))
    BY <1>1 DEF TypeOK, Order, Writing, Allocated
  <1>7. Order' /\ FrontPopsDiscarded'
    BY <1>1 DEF Order, FrontPopsDiscarded, Writing
  <1>8. \A t \in DOMAIN taken' : \/ t \in DOMAIN taken /\ taken'[t] = taken[t]
                                 \/ taken'[t] = low_sdu.id /\ low_sdu.id \notin discarded
    <2>1. taken \in Seq(Nat) /\ low_sdu.id \in Nat
      BY <1>2, SduFields DEF TypeOK
    <2> QED
      BY ONLY <1>3, <2>1, PushFacts
  <1>9. TakenOrder' /\ DiscardedNeverTaken'
    BY <1>1, <1>5, <1>6, <1>8 DEF TakenOrder, DiscardedNeverTaken, Writing
  <1>10. SlotsHeld'
    <2>1. \A i \in DOMAIN queue : HasSn(queue[i]) => Holds(queue[i])'
      BY <1>1, <1>4, <1>5 DEF SlotsHeld, Holds
    <2>2. Allocated => Holds(up_sdu)'
      BY <1>1, <1>4, <1>6 DEF SlotsHeld, Holds
    <2>3. up_pc \in {"size", "sn"} => sdu_states'[Slot(up_sdu.sn)] = STATE_FREE
      BY <1>1, <1>2, <1>6, SduFields DEF SlotsHeld, SlotNamed, TypeOK
    <2> QED
      BY <1>1, <2>1, <2>2, <2>3 DEF SlotsHeld, HasSn, Allocated
  <1>11. NoSlotLeak'
    <2> SUFFICES ASSUME NEW k \in Slots, sdu_states[k] # STATE_FREE, k # slot
                 PROVE  \/ \E i \in DOMAIN queue : /\ HasSn(queue[i]) /\ Slot(queue[i].sn) = k
                                                   /\ Holds(queue[i])'
                        \/ Allocated /\ Slot(up_sdu.sn) = k /\ Holds(up_sdu)'
      BY <1>1 DEF NoSlotLeak, HasSn, Allocated, TypeOK
    <2> QED
      BY <1>1, <1>4, <1>5, <1>6 DEF NoSlotLeak, Holds
  <1> QED
    BY <1>7, <1>9, <1>10, <1>11

-----------------------------------------------------------------------------
(* The theorems.                                                           *)

\* The inductive step, one case per access to shared memory of write, try_discard,
\* read and front.
LEMMA StepKeepsIInv == IInv /\ [Next]_vars => IInv'
  <1> SUFFICES ASSUME IInv, [Next]_vars PROVE IInv'
    OBVIOUS
  <1>1. CASE Upper
    <2>1. TypeOK' /\ SlotNamed'
      BY <1>1, TypeUpper DEF IInv
    <2> QED
      BY <1>1, <2>1, WriterLocalSteps, WriteCheckLimitKeeps, WriteStoreSnKeeps, WritePushKeeps,
         WriteReleaseSlotKeeps, DiscardSlotKeeps DEF Upper
  <1>2. CASE Lower
    <2>1. TypeOK' /\ SlotNamed'
      BY <1>2, TypeLower DEF IInv
    <2> QED
      BY <1>2, <2>1, ReaderLocalSteps, PopKeeps, ExchangeSlotKeeps DEF Lower
  <1>3. CASE UNCHANGED vars
    BY <1>3 DEF vars, slotVars, upVars, lowVars, history, IInv, TypeOK, SlotNamed, Order, TakenOrder,
       SlotsHeld, FrontPopsDiscarded, NoSlotLeak, DiscardedNeverTaken, Holds, HasSn, InHand,
       Writing, Allocated
  <1> QED
    BY <1>1, <1>2, <1>3 DEF Next

\* The invariant holds of a new queue.
LEMMA InitIInv == Init => IInv
  <1> SUFFICES ASSUME Init PROVE IInv
    OBVIOUS
  <1>1. TypeOK /\ SlotNamed
    BY TypeInit
  <1>2. Order /\ TakenOrder /\ SlotsHeld /\ FrontPopsDiscarded /\ NoSlotLeak /\ DiscardedNeverTaken
    BY DEF Init, Order, TakenOrder, SlotsHeld, FrontPopsDiscarded, NoSlotLeak, DiscardedNeverTaken,
       InHand, Writing, Allocated
  <1> QED
    BY <1>1, <1>2 DEF IInv

\* The invariant of which the other theorems are parts.
THEOREM Invariance == Spec => []IInv
  BY InitIInv, StepKeepsIInv, PTL DEF Spec

\* Every variable of the queue keeps its type, whatever the two threads do; in
\* particular sdu_states is only ever indexed by, and only ever holds, an SN or
\* a sentinel.
THEOREM TypeCorrect == Spec => []TypeOK
  <1>1. IInv => TypeOK
    BY DEF IInv
  <1> QED
    BY <1>1, Invariance, PTL

\* check_and_release and front never reach their error branches.
THEOREM ReleaseIsValid == Spec => []NoInvalidRelease
  <1>1. IInv => NoInvalidRelease
    BY DEF IInv, NoInvalidRelease, SlotNamed, SlotsHeld, FrontPopsDiscarded, Holds, InHand
  <1> QED
    BY <1>1, Invariance, PTL

\* A slot that is not free has an SDU to give it back.
THEOREM SlotsAreReturned == Spec => []NoSlotLeak
  <1>1. IInv => NoSlotLeak
    BY DEF IInv
  <1> QED
    BY <1>1, Invariance, PTL

\* A successful try_discard is final: read never returns the SDU.
THEOREM DiscardIsFinal == Spec => []DiscardedNeverTaken
  <1>1. IInv => DiscardedNeverTaken
    BY DEF IInv
  <1> QED
    BY <1>1, Invariance, PTL

-----------------------------------------------------------------------------
(* The packed counter.                                                     *)

\* The size that is subtracted for an SDU is its own: the one in its slot, and
\* the one the reader has loaded from there.
SizesInv ==
  /\ \A i \in DOMAIN queue : HasSn(queue[i]) => sdu_sizes[Slot(queue[i].sn)] = queue[i].size
  /\ InHand => sdu_sizes[Slot(low_sdu.sn)] = low_sdu.size
  /\ Allocated \/ up_pc = "sn" => sdu_sizes[Slot(up_sdu.sn)] = up_sdu.size
  /\ low_pc \in {"exchange", "sub"} => low_size = low_sdu.size

\* What the updates to come will subtract from the counter.
Debt == PendingSub - PendingAdd

CountInv == CounterExact /\ IsFiniteSet(UnitsOf(LiveSdus))

\* Numbers that differ by a multiple of m have the same remainder.
LEMMA SameRemainder ==
  ASSUME NEW m \in Nat \ {0}, NEW x \in Int, NEW y \in Int, NEW k \in Int, x = y + k * m
  PROVE  x % m = y % m
  <1> DEFINE a == x \div m
             b == y \div m
             r == x % m
             s == y % m
             d == a - b - k
  <1>1. /\ x = a * m + r /\ r \in 0 .. m - 1 /\ a \in Int
        /\ y = b * m + s /\ s \in 0 .. m - 1 /\ b \in Int
    BY SMT
  <1> HIDE DEF a, b, r, s
  <1>2. d \in Int /\ d * m = a * m - b * m - k * m
    BY <1>1
  <1>3. d * m = s - r /\ s - r < m /\ s - r > -m
    BY <1>1, <1>2
  <1> HIDE DEF d
  <1>4. ~(d >= 1) /\ ~(d <= -1)
    <2>1. d >= 1 => d * m >= m
      BY <1>2
    <2>2. d <= -1 => d * m <= -m
      BY <1>2
    <2> QED
      BY <1>1, <1>3, <2>1, <2>2
  <1>5. d = 0
    BY <1>2, <1>4
  <1>6. s - r = 0
    BY <1>3, <1>5
  <1> QED
    BY <1>1, <1>6 DEF r, s

\* Adding to a remainder.
LEMMA RemainderAdd ==
  ASSUME NEW m \in Nat \ {0}, NEW x \in Int, NEW u \in Int
  PROVE  ((x % m) + u) % m = (x + u) % m
  <1> DEFINE r == x % m
             k == -(x \div m)
  <1>1. x = (x \div m) * m + r /\ r \in Int /\ k \in Int /\ x \div m \in Int
    BY SMT
  <1>2. (-(x \div m)) * m = -((x \div m) * m)
    BY <1>1
  <1>3. r + u = (x + u) + k * m
    BY <1>1, <1>2
  <1> DEFINE p == r + u
             q == x + u
  <1>4. p \in Int /\ q \in Int /\ k \in Int /\ p = q + k * m
    BY <1>1, <1>3
  <1> HIDE DEF k, p, q
  <1>5. p % m = q % m
    BY <1>4, SameRemainder
  <1> QED
    BY <1>5 DEF p, q

\* The units of one more SDU are not those of another.
LEMMA UnitsAdd ==
  ASSUME NEW L, IsFiniteSet(UnitsOf(L)), NEW x \in Sdu, \A y \in L : y.id # x.id
  PROVE  /\ IsFiniteSet(UnitsOf(L \cup {x}))
         /\ Cardinality(UnitsOf(L \cup {x})) = Cardinality(UnitsOf(L)) + Unit(x.size)
  <1> DEFINE U == UnitsOf(L)
             n == Unit(x.size)
             V == {x.id} \X (1 .. n)
  <1>1. n \in Nat \ {0}
    BY RlcSduQueueAssumption DEF Unit, Sdu
  <1>2. UnitsOf(L \cup {x}) = U \cup V
    BY DEF UnitsOf
  <1>3. U \cap V = {}
    <2> SUFFICES ASSUME NEW p \in U, p \in V PROVE FALSE
      OBVIOUS
    <2>1. PICK y \in L : p \in {y.id} \X (1 .. Unit(y.size))
      BY DEF UnitsOf
    <2>2. p[1] = y.id /\ p[1] = x.id
      BY <2>1
    <2> QED
      BY <2>2
  <1>4. IsFiniteSet(V) /\ Cardinality(V) = n
    <2>1. IsFiniteSet({x.id}) /\ Cardinality({x.id}) = 1
      BY FS_Singleton
    <2>2. IsFiniteSet(1 .. n) /\ Cardinality(1 .. n) = n
      BY <1>1, FS_Interval
    <2>3. IsFiniteSet(V) /\ Cardinality(V) = Cardinality({x.id}) * Cardinality(1 .. n)
      BY <2>1, <2>2, FS_Product
    <2> QED
      BY <1>1, <2>1, <2>2, <2>3
  <1> HIDE DEF U, V, n
  <1>5. /\ IsFiniteSet(U \cup V)
        /\ Cardinality(U \cup V) = Cardinality(U) + Cardinality(V) - Cardinality(U \cap V)
    BY <1>4, FS_Union DEF U
  <1>6. Cardinality(U \cap V) = 0 /\ Cardinality(U) \in Nat
    BY <1>3, FS_EmptySet, FS_CardinalityType DEF U
  <1>7. Cardinality(U \cup V) = Cardinality(U) + n
    BY <1>1, <1>4, <1>5, <1>6
  <1> QED
    BY <1>2, <1>5, <1>7, Zenon DEF U, n


\* What the writer and the reader will subtract.

UpSub == CASE up_pc = "discard_size" -> Unit(sdu_sizes[Slot(up_sdu.sn)])
           [] up_pc = "discard_sub"  -> Unit(up_size)
           [] OTHER -> 0
LowSub == IF low_pc = "sub" THEN Unit(low_sdu.size) ELSE 0

\* PendingSub has these two parts.
LEMMA TwoSubs == PendingSub = LowSub + UpSub
  BY DEF PendingSub, LowSub, UpSub

\* The updates to come are numbers.
DebtTyped == /\ PendingSub \in Int /\ PendingAdd \in Int /\ Debt \in Int
             /\ LowSub \in Nat /\ UpSub \in Nat

\* Sizes are natural numbers, and the writer's slot exists.
LEMMA DebtType == TypeOK /\ SlotNamed => DebtTyped
  <1> SUFFICES ASSUME TypeOK, SlotNamed PROVE DebtTyped
    OBVIOUS
  <1>1. /\ \A s \in Nat : Unit(s) \in Nat
        /\ low_sdu.size \in Nat /\ up_sdu.size \in Nat /\ up_size \in Nat
    BY RlcSduQueueAssumption DEF Unit, TypeOK, Sdu
  <1>2. up_pc = "discard_size" => sdu_sizes[Slot(up_sdu.sn)] \in Nat
    BY SlotInRange DEF TypeOK, SlotNamed, HasSn, Sdu
  <1>3. PendingSub \in Int /\ LowSub \in Nat /\ UpSub \in Nat
    <2>1. LowSub \in Nat
      BY <1>1 DEF LowSub
    <2>2. UpSub \in Nat
      BY <1>1, <1>2 DEF UpSub
    <2> QED
      BY <2>1, <2>2, TwoSubs
  <1>4. PendingAdd \in Int
    BY <1>1 DEF PendingAdd
  <1> QED
    BY <1>3, <1>4 DEF Debt, DebtTyped

\* The counter in terms of the live SDUs and the updates to come.
LEMMA CounterIs ==
  ASSUME PendingSub \in Int, PendingAdd \in Int, IsFiniteSet(UnitsOf(LiveSdus))
  PROVE  /\ LiveTotal \in Nat
         /\ CounterExact <=> state = (LiveTotal + Debt) % (Width * Width)
  <1>1. LiveTotal \in Nat
    BY FS_CardinalityType DEF LiveTotal
  <1>2. LiveTotal + PendingSub - PendingAdd = LiveTotal + Debt
    BY <1>1 DEF Debt
  <1> QED
    BY <1>1, <1>2, Zenon DEF CounterExact

\* Neither the live SDUs nor the counter change.
LEMMA CountSame ==
  ASSUME DebtTyped, DebtTyped', CountInv,
         LiveSdus' = LiveSdus, state' = state, Debt' = Debt
  PROVE  CountInv'
  <1>1. PendingSub \in Int /\ PendingAdd \in Int /\ PendingSub' \in Int /\ PendingAdd' \in Int
    BY DEF DebtTyped
  <1>2. IsFiniteSet(UnitsOf(LiveSdus)) /\ UnitsOf(LiveSdus)' = UnitsOf(LiveSdus)
    BY DEF CountInv, UnitsOf, Unit
  <1>3. LiveTotal' = LiveTotal
    BY <1>2 DEF LiveTotal
  <1>4. LiveTotal \in Nat /\ state = (LiveTotal + Debt) % (Width * Width)
    BY <1>1, <1>2, CounterIs DEF CountInv
  <1>5. IsFiniteSet(UnitsOf(LiveSdus))'
    BY <1>2
  <1>6. CounterExact' <=> state' = (LiveTotal' + Debt') % (Width * Width)
    <2>1. LiveTotal' + PendingSub' - PendingAdd' = LiveTotal' + Debt'
      BY <1>1, <1>3, <1>4 DEF Debt
    <2> QED
      BY <2>1, Zenon DEF CounterExact
  <1> QED
    BY <1>3, <1>4, <1>5, <1>6 DEF CountInv

\* An SDU is pushed; its update is to come.
LEMMA CountAdds ==
  ASSUME DebtTyped, DebtTyped', CountInv,
         NEW x \in Sdu, \A y \in LiveSdus : y.id # x.id,
         LiveSdus' = LiveSdus \cup {x}, state' = state, Debt' = Debt - Unit(x.size)
  PROVE  CountInv'
  <1>1. PendingSub \in Int /\ PendingAdd \in Int /\ PendingSub' \in Int /\ PendingAdd' \in Int
        /\ Debt \in Int /\ Debt' \in Int
    BY DEF DebtTyped
  <1>2. IsFiniteSet(UnitsOf(LiveSdus)) /\ UnitsOf(LiveSdus)' = UnitsOf(LiveSdus \cup {x})
    BY DEF CountInv, UnitsOf, Unit
  <1>3. /\ IsFiniteSet(UnitsOf(LiveSdus \cup {x}))
        /\ Cardinality(UnitsOf(LiveSdus \cup {x})) = Cardinality(UnitsOf(LiveSdus)) + Unit(x.size)
    BY <1>2, UnitsAdd
  <1>4. IsFiniteSet(UnitsOf(LiveSdus))' /\ LiveTotal' = LiveTotal + Unit(x.size)
    BY <1>2, <1>3 DEF LiveTotal
  <1>5. LiveTotal \in Nat /\ state = (LiveTotal + Debt) % (Width * Width)
    BY <1>1, <1>2, CounterIs DEF CountInv
  <1>6. Unit(x.size) \in Nat
    BY RlcSduQueueAssumption DEF Unit, Sdu
  <1>7. LiveTotal' + Debt' = LiveTotal + Debt
    BY <1>1, <1>4, <1>5, <1>6
  <1>8. CounterExact' <=> state' = (LiveTotal' + Debt') % (Width * Width)
    <2>1. LiveTotal' + PendingSub' - PendingAdd' = LiveTotal' + Debt'
      BY <1>1, <1>4, <1>5, <1>6 DEF Debt
    <2> QED
      BY <2>1, Zenon DEF CounterExact
  <1> QED
    BY <1>4, <1>5, <1>7, <1>8 DEF CountInv

\* An SDU is discarded or taken; its update is to come.
LEMMA CountRemoves ==
  ASSUME DebtTyped, DebtTyped', CountInv,
         NEW x \in Sdu, x \in LiveSdus, \A y \in LiveSdus : y # x => y.id # x.id,
         LiveSdus' = LiveSdus \ {x}, state' = state, Debt' = Debt + Unit(x.size)
  PROVE  CountInv'
  <1> DEFINE L == LiveSdus \ {x}
  <1>1. PendingSub \in Int /\ PendingAdd \in Int /\ PendingSub' \in Int /\ PendingAdd' \in Int
        /\ Debt \in Int /\ Debt' \in Int
    BY DEF DebtTyped
  <1>2. /\ IsFiniteSet(UnitsOf(LiveSdus)) /\ UnitsOf(LiveSdus)' = UnitsOf(L)
        /\ UnitsOf(L) \subseteq UnitsOf(LiveSdus)
    BY DEF CountInv, UnitsOf, Unit
  <1>3. LiveSdus = L \cup {x} /\ \A y \in L : y.id # x.id
    OBVIOUS
  <1>4. IsFiniteSet(UnitsOf(L))
    BY <1>2, FS_Subset
  <1> HIDE DEF L
  <1>5. Cardinality(UnitsOf(LiveSdus)) = Cardinality(UnitsOf(L)) + Unit(x.size)
    BY <1>3, <1>4, UnitsAdd
  <1>6. /\ IsFiniteSet(UnitsOf(LiveSdus))' /\ LiveTotal = LiveTotal' + Unit(x.size)
        /\ LiveTotal' \in Nat
    BY <1>2, <1>4, <1>5, FS_CardinalityType DEF LiveTotal
  <1>7. LiveTotal \in Nat /\ state = (LiveTotal + Debt) % (Width * Width)
    BY <1>1, <1>2, CounterIs DEF CountInv
  <1>8. Unit(x.size) \in Nat
    BY RlcSduQueueAssumption DEF Unit, Sdu
  <1>9. LiveTotal' + Debt' = LiveTotal + Debt
    BY <1>1, <1>6, <1>7, <1>8
  <1>10. CounterExact' <=> state' = (LiveTotal' + Debt') % (Width * Width)
    <2>1. LiveTotal' + PendingSub' - PendingAdd' = LiveTotal' + Debt'
      BY <1>1, <1>6 DEF Debt
    <2> QED
      BY <2>1, Zenon DEF CounterExact
  <1> QED
    BY <1>6, <1>7, <1>9, <1>10 DEF CountInv

\* state_add and state_sub.
LEMMA CountUpdates ==
  ASSUME DebtTyped, DebtTyped', CountInv,
         NEW u \in Int, LiveSdus' = LiveSdus,
         state' = (state + u) % (Width * Width), Debt' = Debt + u
  PROVE  CountInv'
  <1> DEFINE m == Width * Width
             t == LiveTotal + Debt
  <1>1. PendingSub \in Int /\ PendingAdd \in Int /\ PendingSub' \in Int /\ PendingAdd' \in Int
        /\ Debt \in Int /\ Debt' \in Int
    BY DEF DebtTyped
  <1>2. IsFiniteSet(UnitsOf(LiveSdus)) /\ UnitsOf(LiveSdus)' = UnitsOf(LiveSdus)
    BY DEF CountInv, UnitsOf, Unit
  <1>3. IsFiniteSet(UnitsOf(LiveSdus))' /\ LiveTotal' = LiveTotal
    BY <1>2 DEF LiveTotal
  <1>4. LiveTotal \in Nat /\ state = t % m
    BY <1>1, <1>2, CounterIs DEF CountInv
  <1>5. m \in Nat \ {0} /\ t \in Int
    BY <1>1, <1>4, RlcSduQueueAssumption
  <1>6. LiveTotal' + Debt' = t + u
    BY <1>1, <1>3, <1>4
  <1>7. CounterExact' <=> state' = (LiveTotal' + Debt') % m
    <2>1. LiveTotal' + PendingSub' - PendingAdd' = LiveTotal' + Debt'
      BY <1>1, <1>3, <1>4 DEF Debt
    <2> QED
      BY <2>1, Zenon DEF CounterExact
  <1>8. state' = (state + u) % m
    OBVIOUS
  <1> HIDE DEF m, t
  <1>9. ((t % m) + u) % m = (t + u) % m
    BY <1>5, RemainderAdd
  <1> QED
    BY <1>3, <1>4, <1>6, <1>7, <1>8, <1>9, Zenon DEF CountInv

\* The size of an SDU is stored in a slot that is free, so that no other SDU's
\* is overwritten.
LEMMA SizesKept ==
  ASSUME IInv, SizesInv, TypeOK', SlotNamed', Next
  PROVE  SizesInv'
  <1> USE DEF InHand, Allocated, slotVars, upVars, lowVars, history
  <1>1. /\ \A i \in DOMAIN queue : queue[i] \in Sdu
        /\ queue \in Seq(Sdu) /\ up_sdu \in Sdu /\ low_sdu \in Sdu /\ sdu_sizes \in [Slots -> Nat]
    BY DEF IInv, TypeOK
  <1>2. CASE WriteStoreSize
    <2> DEFINE slot == Slot(up_sdu.sn)
    <2>1. /\ up_pc = "size" /\ up_pc' = "sn"
          /\ sdu_sizes' = [sdu_sizes EXCEPT ![slot] = up_sdu.size]
          /\ UNCHANGED <<queue, up_sdu, low_pc, low_sdu, low_size>>
      BY <1>2 DEF WriteStoreSize
    <2>2. slot \in Slots /\ sdu_states[slot] = STATE_FREE
      BY <1>1, <2>1, SduFields DEF IInv, SlotNamed, SlotsHeld
    <2>3. ASSUME NEW s \in Sdu, HasSn(s), Holds(s)
          PROVE  sdu_sizes'[Slot(s.sn)] = sdu_sizes[Slot(s.sn)]
      <3>1. Slot(s.sn) \in Slots /\ s.sn \in PdcpSn
        BY <2>3, SduFields
      <3>2. sdu_states[Slot(s.sn)] # STATE_FREE
        BY <2>3, <3>1, Sentinels DEF Holds
      <3> QED
        BY <1>1, <2>1, <2>2, <3>1, <3>2
    <2>4. \A i \in DOMAIN queue : HasSn(queue[i]) => Holds(queue[i])
      BY DEF IInv, SlotsHeld
    <2>5. InHand => HasSn(low_sdu) /\ Holds(low_sdu)
      BY DEF IInv, SlotsHeld, SlotNamed
    <2>6. \A i \in DOMAIN queue : HasSn(queue[i]) => sdu_sizes'[Slot(queue[i].sn)] = queue[i].size
      BY <1>1, <2>3, <2>4 DEF SizesInv
    <2>7. InHand => sdu_sizes'[Slot(low_sdu.sn)] = low_sdu.size
      BY <1>1, <2>3, <2>5 DEF SizesInv
    <2>8. sdu_sizes'[slot] = up_sdu.size
      BY <1>1, <2>1, <2>2
    <2> QED
      BY <2>1, <2>6, <2>7, <2>8 DEF SizesInv, HasSn
  <1>3. CASE WritePush
    <2>1. CASE queue' = queue
      BY <1>3, <2>1 DEF WritePush, SizesInv, HasSn
    <2>2. CASE queue' = Append(queue, up_sdu)
      <3>1. /\ DOMAIN queue' = DOMAIN queue \cup {Len(queue) + 1}
            /\ queue'[Len(queue) + 1] = up_sdu
            /\ \A i \in DOMAIN queue : queue'[i] = queue[i]
        BY ONLY <1>1, <2>2, PushFacts
      <3>2. HasSn(up_sdu) => sdu_sizes[Slot(up_sdu.sn)] = up_sdu.size
        BY <1>3 DEF WritePush, SizesInv
      <3>3. \A i \in DOMAIN queue' : HasSn(queue'[i]) => sdu_sizes[Slot(queue'[i].sn)] = queue'[i].size
        BY <3>1, <3>2 DEF SizesInv
      <3>4. up_pc' \in {"add", "idle", "release"} /\ up_pc = "push"
            /\ UNCHANGED <<sdu_sizes, up_sdu, low_pc, low_sdu, low_size>>
        BY <1>3 DEF WritePush
      <3> QED
        BY <3>3, <3>4 DEF SizesInv, HasSn
    <2> QED
      BY <1>3, <2>1, <2>2 DEF WritePush
  <1>4. CASE ReadPop \/ FrontPop
    <2>1. /\ queue # <<>> /\ queue' = Tail(queue) /\ low_sdu' = Head(queue)
          /\ UNCHANGED <<sdu_sizes, up_sdu, up_pc>>
          /\ \/ low_pc' = "size" /\ HasSn(Head(queue))
             \/ low_pc' = "sub" /\ low_size' = Head(queue).size
      <3>1. FrontPop => HasSn(Head(queue))
        BY DEF FrontPop, IInv, SlotNamed
      <3> QED
        BY <1>4, <3>1 DEF ReadPop, FrontPop, HasSn
    <2>2. /\ 1 \in DOMAIN queue /\ Head(queue) = queue[1]
          /\ \A i \in DOMAIN queue' : i + 1 \in DOMAIN queue /\ queue'[i] = queue[i + 1]
      BY ONLY <1>1, <2>1, PopFacts
    <2>3. \A i \in DOMAIN queue' : HasSn(queue'[i]) => sdu_sizes[Slot(queue'[i].sn)] = queue'[i].size
      BY <2>2 DEF SizesInv
    <2>4. HasSn(Head(queue)) => sdu_sizes[Slot(Head(queue).sn)] = Head(queue).size
      BY <2>2 DEF SizesInv
    <2> QED
      BY <2>1, <2>3, <2>4 DEF SizesInv, HasSn
  <1>5. CASE Upper /\ ~WriteStoreSize /\ ~WritePush
    <2>1. /\ UNCHANGED <<sdu_sizes, queue, low_pc, low_sdu, low_size>>
          /\ \/ up_pc' \notin {"push", "release", "sn"}
             \/ up_pc = "sn" /\ up_pc' = "push" /\ up_sdu' = up_sdu
             \/ up_pc' = "push" /\ ~HasSn(up_sdu')
      BY <1>5 DEF Upper, WriteCheckLimit, WriteCheckSlot, WriteStoreSn, WriteReleaseSlot,
         WriteStateAdd, DiscardSlot, DiscardLoadSize, DiscardStateSub, HasSn
    <2> QED
      BY <2>1 DEF SizesInv, HasSn
  <1>6. CASE Lower /\ ~ReadPop /\ ~FrontPop
    <2>1. /\ UNCHANGED <<sdu_sizes, queue, up_pc, up_sdu, low_sdu>>
          /\ \/ low_pc' \notin {"size", "exchange", "sub"}
             \/ low_pc = "size" /\ low_pc' = "exchange" /\ low_size' = sdu_sizes[Slot(low_sdu.sn)]
             \/ low_pc = "exchange" /\ low_pc' = "sub" /\ low_size' = low_size
      BY <1>6 DEF Lower, ReadEmpty, LoadSize, ExchangeSlot, LowStateSub, FrontCheck, FrontEmpty, Loop
    <2> QED
      BY <2>1 DEF SizesInv, HasSn
  <1> QED
    BY <1>2, <1>3, <1>4, <1>5, <1>6 DEF Next

\* Who is live: an SDU of the queue or in the reader's hand.
LEMMA IsLive ==
  \A s : s \in LiveSdus <=> /\ s.id \notin discarded
                            /\ (\E i \in DOMAIN queue : s = queue[i]) \/ (InHand /\ s = low_sdu)
  BY DEF LiveSdus

\* Ids tell live SDUs apart.
LEMMA LiveIds ==
  ASSUME IInv
  PROVE  /\ LiveSdus \subseteq Sdu
         /\ \A s, o \in LiveSdus : s # o => s.id # o.id
  <1>1. /\ \A i \in DOMAIN queue : i \in Int /\ queue[i] \in Sdu /\ queue[i].id \in Nat
        /\ low_sdu \in Sdu /\ low_sdu.id \in Nat
    BY SduFields DEF IInv, TypeOK
  <1>2. \A i, j \in DOMAIN queue : queue[i] # queue[j] => queue[i].id # queue[j].id
    BY <1>1 DEF IInv, Order
  <1>3. \A i \in DOMAIN queue : InHand => queue[i].id # low_sdu.id
    BY <1>1 DEF IInv, Order
  <1> QED
    BY <1>1, <1>2, <1>3, IsLive

\* Every step keeps the counter exact.
LEMMA CountKept ==
  ASSUME IInv, SizesInv, CountInv, IInv', Next
  PROVE  CountInv'
  <1> USE DEF slotVars, upVars, lowVars, history
  <1>1. DebtTyped
    BY DebtType DEF IInv
  <1>2. DebtTyped'
    <2>1. TypeOK' /\ SlotNamed'
      BY DEF IInv
    <2> QED
      BY <2>1, DebtType, PTL
  <1>3. /\ \A i \in DOMAIN queue : queue[i] \in Sdu /\ queue[i].id \in Nat
        /\ queue \in Seq(Sdu) /\ up_sdu \in Sdu /\ low_sdu \in Sdu /\ discarded \subseteq Nat
        /\ up_sdu.id \in Nat
    BY SduFields DEF IInv, TypeOK
  <1>4. PendingSub \in Int /\ PendingAdd \in Int
    BY <1>1 DEF DebtTyped
  <1>5. /\ \A s \in Nat : Unit(s) \in Nat
        /\ up_sdu.size \in Nat /\ low_sdu.size \in Nat /\ up_size \in Nat /\ low_size \in Nat
        /\ state \in Nat
    BY RlcSduQueueAssumption DEF Unit, IInv, TypeOK, Sdu
  <1>6. CASE WriteCheckLimit \/ WriteCheckSlot \/ WriteStoreSize \/ WriteStoreSn \/ WriteReleaseSlot
             \/ DiscardLoadSize
    <2>1. /\ UNCHANGED <<queue, state, discarded, low_pc, low_sdu>>
          /\ \/ /\ up_pc \notin {"add", "discard_size", "discard_sub"}
                /\ up_pc' \notin {"add", "discard_size", "discard_sub"}
             \/ /\ up_pc = "discard_size" /\ up_pc' = "discard_sub"
                /\ up_size' = sdu_sizes[Slot(up_sdu.sn)]
      BY <1>6 DEF WriteCheckLimit, WriteCheckSlot, WriteStoreSize, WriteStoreSn, WriteReleaseSlot,
         DiscardLoadSize
    <2>2. LiveSdus' = LiveSdus
      BY <2>1 DEF LiveSdus, InHand
    <2>3. Debt' = Debt
      BY <2>1 DEF Debt, PendingSub, PendingAdd, Unit
    <2> QED
      BY <1>1, <1>2, <2>1, <2>2, <2>3, CountSame
  <1>7. CASE WritePush
    <2>1. up_pc = "push" /\ UNCHANGED <<state, discarded, low_pc, low_sdu, up_sdu>>
      BY <1>7 DEF WritePush
    <2>2. CASE queue' = queue /\ up_pc' \in {"idle", "release"}
      <3>1. LiveSdus' = LiveSdus
        BY <2>1, <2>2 DEF LiveSdus, InHand
      <3>2. Debt' = Debt
        BY <2>1, <2>2 DEF Debt, PendingSub, PendingAdd, Unit
      <3> QED
        BY <1>1, <1>2, <2>1, <3>1, <3>2, CountSame
    <2>3. CASE queue' = Append(queue, up_sdu) /\ up_pc' = "add"
      <3>1. /\ DOMAIN queue' = DOMAIN queue \cup {Len(queue) + 1}
            /\ queue'[Len(queue) + 1] = up_sdu
            /\ \A i \in DOMAIN queue : queue'[i] = queue[i]
        BY ONLY <1>3, <2>3, PushFacts
      <3>2. /\ up_sdu.id \notin discarded
            /\ \A i \in DOMAIN queue : queue[i].id # up_sdu.id
            /\ InHand => low_sdu.id # up_sdu.id
        <4>1. Writing
          BY <2>1 DEF Writing
        <4>2. low_sdu.id \in Nat
          BY <1>3, SduFields
        <4> QED
          BY <1>3, <4>1, <4>2 DEF IInv, Order
      <3>3. LiveSdus' = LiveSdus \cup {up_sdu}
        BY <2>1, <3>1, <3>2 DEF LiveSdus, InHand
      <3>4. \A s \in LiveSdus : s.id # up_sdu.id
        BY <3>2, IsLive
      <3>5. /\ PendingSub' = PendingSub /\ PendingAdd = 0
            /\ PendingAdd' = Unit(up_sdu.size)
        BY <2>1, <2>3 DEF PendingSub, PendingAdd, Unit
      <3>6. Debt' = Debt - Unit(up_sdu.size)
        BY <1>4, <1>5, <3>5 DEF Debt
      <3> QED
        BY <1>1, <1>2, <1>3, <2>1, <3>3, <3>4, <3>6, CountAdds
    <2> QED
      BY <1>7, <2>2, <2>3 DEF WritePush
  <1>8. CASE WriteStateAdd
    <2>1. /\ up_pc = "add" /\ up_pc' = "idle"
          /\ state' = (state + Width + up_sdu.size) % (Width * Width)
          /\ UNCHANGED <<queue, discarded, low_pc, low_sdu, up_sdu>>
      BY <1>8 DEF WriteStateAdd, StateAdd
    <2>2. LiveSdus' = LiveSdus
      BY <2>1 DEF LiveSdus, InHand
    <2>3. PendingSub' = PendingSub /\ PendingAdd = Unit(up_sdu.size) /\ PendingAdd' = 0
      BY <2>1 DEF PendingSub, PendingAdd, Unit
    <2>4. Unit(up_sdu.size) \in Int /\ Debt' = Debt + Unit(up_sdu.size)
      BY <1>4, <1>5, <2>3 DEF Debt
    <2>5. state + Width + up_sdu.size = state + Unit(up_sdu.size)
      BY <1>5, RlcSduQueueAssumption DEF Unit
    <2>6. state' = (state + Unit(up_sdu.size)) % (Width * Width)
      BY <2>1, <2>5, Zenon
    <2> QED
      BY <1>1, <1>2, <2>2, <2>4, <2>6, CountUpdates
  <1>9. CASE DiscardStateSub
    <2>1. /\ up_pc = "discard_sub" /\ up_pc' = "idle"
          /\ state' = (state - Width - up_size) % (Width * Width)
          /\ UNCHANGED <<queue, discarded, low_pc, low_sdu>>
      BY <1>9 DEF DiscardStateSub, StateSub
    <2>2. LiveSdus' = LiveSdus
      BY <2>1 DEF LiveSdus, InHand
    <2>3. PendingSub = PendingSub' + Unit(up_size) /\ PendingAdd = 0 /\ PendingAdd' = 0
      BY <1>5, <2>1 DEF PendingSub, PendingAdd, Unit
    <2> DEFINE u == -Unit(up_size)
    <2>4. u \in Int /\ Debt' = Debt + u
      BY <1>2, <1>4, <1>5, <2>3 DEF Debt, DebtTyped
    <2>5. state - Width - up_size = state + u
      BY <1>5, RlcSduQueueAssumption DEF Unit
    <2> HIDE DEF u
    <2>6. state' = (state + u) % (Width * Width)
      BY <2>1, <2>5, Zenon
    <2> QED
      BY <1>1, <1>2, <2>2, <2>4, <2>6, CountUpdates
  <1>10. CASE LowStateSub
    <2>1. /\ low_pc = "sub" /\ low_pc' \notin {"sub", "size", "exchange"}
          /\ state' = (state - Width - low_size) % (Width * Width)
          /\ UNCHANGED <<queue, discarded, low_sdu, up_pc, up_sdu, up_size, sdu_sizes>>
          /\ low_size = low_sdu.size
      BY <1>10 DEF LowStateSub, StateSub, Loop, SizesInv
    <2>2. LiveSdus' = LiveSdus
      BY <2>1 DEF LiveSdus, InHand
    <2>3. PendingSub = PendingSub' + Unit(low_size) /\ PendingAdd' = PendingAdd
      <3>1. LowSub = Unit(low_sdu.size) /\ LowSub' = 0 /\ UpSub' = UpSub
        BY <2>1 DEF LowSub, UpSub, Unit
      <3>2. PendingAdd' = PendingAdd
        BY <2>1 DEF PendingAdd, Unit
      <3>3. PendingSub' = LowSub' + UpSub'
        BY DEF PendingSub, LowSub, UpSub
      <3> QED
        BY <1>1, <1>5, <2>1, <3>1, <3>2, <3>3, TwoSubs DEF DebtTyped
    <2> DEFINE u == -Unit(low_size)
    <2>4. u \in Int /\ Debt' = Debt + u
      BY <1>2, <1>4, <1>5, <2>3 DEF Debt, DebtTyped
    <2>5. state - Width - low_size = state + u
      BY <1>5, RlcSduQueueAssumption DEF Unit
    <2> HIDE DEF u
    <2>6. state' = (state + u) % (Width * Width)
      BY <2>1, <2>5, Zenon
    <2> QED
      BY <1>1, <1>2, <2>2, <2>4, <2>6, CountUpdates
  <1>11. CASE DiscardSlot
    <2>1. PICK sn \in PdcpSn :
            /\ sdu_states[Slot(sn)] = sn /\ up_sdu'.sn = sn
            /\ discarded' = discarded \cup {holder[Slot(sn)]}
      BY <1>11 DEF DiscardSlot
    <2>2. /\ up_pc = "idle" /\ up_pc' = "discard_size"
          /\ UNCHANGED <<queue, sdu_sizes, state, low_pc, low_sdu>>
      BY <1>11 DEF DiscardSlot
    <2> DEFINE slot == Slot(sn)
    <2>3. slot \in Slots /\ sdu_states[slot] \notin {STATE_FREE, STATE_DISCARDED} /\ ~Allocated
      BY <2>1, <2>2, SlotInRange, Sentinels DEF Allocated
    <2>4. \E o \in Sdu : /\ Slot(o.sn) = slot /\ Holds(o) /\ sdu_sizes[slot] = o.size
                         /\ (\E i \in DOMAIN queue : o = queue[i]) \/ (InHand /\ o = low_sdu)
      BY <1>3, <2>3 DEF IInv, NoSlotLeak, SizesInv
    <2>5. PICK o \in Sdu : /\ Slot(o.sn) = slot /\ Holds(o) /\ sdu_sizes[slot] = o.size
                           /\ (\E i \in DOMAIN queue : o = queue[i]) \/ (InHand /\ o = low_sdu)
      BY <2>4
    <2>6. o.id \notin discarded /\ discarded' = discarded \cup {o.id}
      BY <2>1, <2>3, <2>5 DEF Holds
    <2>7. o \in LiveSdus
      BY <2>5, <2>6, IsLive
    <2>8. \A s \in LiveSdus : s # o => s.id # o.id
      BY <2>7, LiveIds
    <2>9. LiveSdus' = LiveSdus \ {o}
      <3>1. LiveSdus' = {s \in LiveSdus : s.id # o.id}
        BY <2>2, <2>6 DEF LiveSdus, InHand
      <3> QED
        BY <2>8, <3>1
    <2>10. PendingAdd = 0 /\ PendingAdd' = 0 /\ PendingSub' = PendingSub + Unit(o.size)
      <3>1. PendingAdd = 0 /\ PendingAdd' = 0
        BY <2>2 DEF PendingAdd
      <3>2. PendingSub = IF low_pc = "sub" THEN Unit(low_sdu.size) ELSE 0
        BY <1>5, <2>2 DEF PendingSub
      <3>3. PendingSub' = (IF low_pc = "sub" THEN Unit(low_sdu.size) ELSE 0) + Unit(sdu_sizes[slot])
        BY <2>1, <2>2 DEF PendingSub, Unit
      <3> QED
        BY <2>5, <3>1, <3>2, <3>3
    <2>11. Debt' = Debt + Unit(o.size)
      <3>1. Unit(o.size) \in Nat
        BY <1>5 DEF Sdu
      <3> QED
        BY <1>4, <2>10, <3>1 DEF Debt
    <2> QED
      BY <1>1, <1>2, <2>2, <2>7, <2>8, <2>9, <2>11, CountRemoves
  <1>12. CASE ReadPop \/ FrontPop
    <2> DEFINE head == Head(queue)
    <2>1. /\ queue # <<>> /\ queue' = Tail(queue) /\ low_sdu' = head
          /\ low_pc \notin {"size", "exchange", "sub"}
          /\ UNCHANGED <<sdu_sizes, state, discarded, up_pc, up_sdu, up_size>>
          /\ \/ low_pc' = "size"
             \/ low_pc' = "sub" /\ ~HasSn(head)
      BY <1>12 DEF ReadPop, FrontPop, HasSn
    <2>2. /\ 1 \in DOMAIN queue /\ head = queue[1] /\ head \in Sdu
          /\ \A i \in DOMAIN queue' : i \in Nat /\ i + 1 \in DOMAIN queue /\ queue'[i] = queue[i + 1]
          /\ \A i \in DOMAIN queue : i \in Nat /\ (i # 1 => /\ i - 1 \in DOMAIN queue'
                                                            /\ queue'[i - 1] = queue[i])
      BY ONLY <1>3, <2>1, PopFacts
    <2> HIDE DEF head
    <2>3. LiveSdus = {queue'[i] : i \in {i \in DOMAIN queue' : queue'[i].id \notin discarded}}
                       \cup {s \in {head} : s.id \notin discarded}
      <3> DEFINE R == {queue'[i] : i \in {i \in DOMAIN queue' : queue'[i].id \notin discarded}}
                        \cup {s \in {head} : s.id \notin discarded}
      <3>1. ~InHand
        BY <2>1 DEF InHand
      <3>2. ASSUME NEW s \in LiveSdus PROVE s \in R
        <4>1. s.id \notin discarded /\ \E i \in DOMAIN queue : s = queue[i]
          BY <3>1, IsLive
        <4>2. PICK i \in DOMAIN queue : s = queue[i]
          BY <4>1
        <4>3. CASE i = 1
          BY <2>2, <4>1, <4>2, <4>3
        <4>4. CASE i # 1
          BY <2>2, <4>1, <4>2, <4>4
        <4> QED
          BY <4>3, <4>4
      <3>3. ASSUME NEW s \in R PROVE s \in LiveSdus
        <4>1. s.id \notin discarded /\ \E i \in DOMAIN queue : s = queue[i]
          BY <2>2
        <4> QED
          BY <4>1, IsLive
      <3> QED
        BY <3>2, <3>3
    <2>4. CASE low_pc' = "size"
      <3>1. LiveSdus' = LiveSdus
        BY <2>1, <2>3, <2>4 DEF LiveSdus, InHand
      <3>2. Debt' = Debt
        BY <2>1, <2>4 DEF Debt, PendingSub, PendingAdd, Unit
      <3> QED
        BY <1>1, <1>2, <2>1, <3>1, <3>2, CountSame
    <2>5. CASE low_pc' = "sub" /\ ~HasSn(head)
      <3>1. head.id \notin discarded
        BY <2>2, <2>5 DEF IInv, SlotsHeld
      <3>2. LiveSdus' = {queue'[i] : i \in {i \in DOMAIN queue' : queue'[i].id \notin discarded}}
        BY <2>1, <2>5 DEF LiveSdus, InHand
      <3>3. head \in LiveSdus /\ \A s \in LiveSdus : s # head => s.id # head.id
        BY <2>3, <3>1, LiveIds
      <3>4. head \notin LiveSdus'
        <4>1. \A i \in DOMAIN queue' : queue'[i].id # head.id
          <5> SUFFICES ASSUME NEW i \in DOMAIN queue' PROVE queue'[i].id # head.id
            OBVIOUS
          <5>1. i + 1 \in DOMAIN queue /\ queue'[i] = queue[i + 1] /\ i \in Nat
            BY <2>2
          <5>2. i # 0
            BY <1>3, <2>1
          <5>3. queue[1].id < queue[i + 1].id
            BY <2>2, <5>1, <5>2 DEF IInv, Order
          <5> QED
            BY <1>3, <2>2, <5>1, <5>3
        <4> QED
          BY <3>2, <4>1
      <3>5. LiveSdus' = LiveSdus \ {head}
        BY <2>3, <3>1, <3>2, <3>4
      <3>6. PendingSub' = PendingSub + Unit(head.size) /\ PendingAdd' = PendingAdd
        <4>1. PendingAdd' = PendingAdd
          BY <2>1 DEF PendingAdd, Unit
        <4>2. Unit(head.size) \in Nat
          BY <1>5, <2>2 DEF Sdu
        <4>3. PendingSub' = PendingSub + Unit(head.size)
          <5>1. LowSub = 0 /\ LowSub' = Unit(head.size) /\ UpSub' = UpSub
            BY <2>1, <2>5 DEF LowSub, UpSub, Unit
          <5>2. PendingSub' = LowSub' + UpSub'
            BY DEF PendingSub, LowSub, UpSub
          <5> QED
            BY <1>1, <4>2, <5>1, <5>2, TwoSubs DEF DebtTyped
        <4> QED
          BY <4>1, <4>3
      <3>7. Debt' = Debt + Unit(head.size)
        <4>1. Unit(head.size) \in Nat
          BY <1>5, <2>2 DEF Sdu
        <4> QED
          BY <1>4, <3>6, <4>1 DEF Debt
      <3> QED
        BY <1>1, <1>2, <2>1, <2>2, <3>3, <3>5, <3>7, CountRemoves
    <2> QED
      BY <2>1, <2>4, <2>5
  <1>13. CASE ExchangeSlot
    <2> DEFINE slot == Slot(low_sdu.sn)
    <2>1. /\ low_pc = "exchange" /\ InHand /\ HasSn(low_sdu) /\ Holds(low_sdu)
          /\ UNCHANGED <<queue, sdu_sizes, state, discarded, up_pc, up_sdu, up_size, low_sdu>>
          /\ low_pc' = IF sdu_states[slot] = STATE_DISCARDED THEN Loop ELSE "sub"
      BY <1>13 DEF ExchangeSlot, InHand, IInv, SlotsHeld, SlotNamed
    <2>2. /\ Loop \notin {"size", "exchange", "sub"} /\ ~InHand'
          /\ sdu_states[slot] = STATE_DISCARDED <=> low_sdu.id \in discarded
      BY <1>3, <2>1, SduFields, Sentinels DEF Loop, Holds, InHand
    <2>3. LiveSdus' = {queue[i] : i \in {i \in DOMAIN queue : queue[i].id \notin discarded}}
      BY <2>1, <2>2 DEF LiveSdus
    <2>4. PendingAdd' = PendingAdd
      BY <2>1 DEF PendingAdd, Unit
    <2>5. CASE low_sdu.id \in discarded
      <3>1. LiveSdus' = LiveSdus
        BY <2>3, <2>5 DEF LiveSdus
      <3>2. PendingSub' = PendingSub
        BY <2>1, <2>2, <2>5 DEF PendingSub, Unit
      <3>3. Debt' = Debt
        BY <2>4, <3>2 DEF Debt
      <3> QED
        BY <1>1, <1>2, <2>1, <3>1, <3>3, CountSame
    <2>6. CASE low_sdu.id \notin discarded
      <3>1. low_sdu \in LiveSdus /\ \A s \in LiveSdus : s # low_sdu => s.id # low_sdu.id
        BY <2>1, <2>6, IsLive, LiveIds
      <3>2. \A i \in DOMAIN queue : queue[i] # low_sdu
        <4>1. low_sdu.id \in Nat
          BY <1>3, SduFields
        <4> QED
          BY <1>3, <2>1, <4>1 DEF IInv, Order
      <3>3. LiveSdus' = LiveSdus \ {low_sdu}
        BY <2>1, <2>3, <2>6, <3>2 DEF LiveSdus
      <3>4. PendingSub' = PendingSub + Unit(low_sdu.size)
        <4>1. low_pc' = "sub"
          BY <2>1, <2>2, <2>6
        <4>2. Unit(low_sdu.size) \in Nat
          BY <1>5
        <4> QED
          <5>1. LowSub = 0 /\ LowSub' = Unit(low_sdu.size) /\ UpSub' = UpSub
            BY <2>1, <4>1 DEF LowSub, UpSub, Unit
          <5>2. PendingSub' = LowSub' + UpSub'
            BY DEF PendingSub, LowSub, UpSub
          <5> QED
            BY <1>1, <4>2, <5>1, <5>2, TwoSubs DEF DebtTyped
      <3>5. Debt' = Debt + Unit(low_sdu.size)
        BY <1>4, <1>5, <2>4, <3>4 DEF Debt
      <3> QED
        BY <1>1, <1>2, <1>3, <2>1, <3>1, <3>3, <3>5, CountRemoves
    <2> QED
      BY <2>5, <2>6
  <1>14. CASE ReadEmpty \/ LoadSize \/ FrontCheck \/ FrontEmpty
    <2>1. /\ UNCHANGED <<queue, sdu_sizes, state, discarded, up_pc, up_sdu, up_size, low_sdu>>
          /\ low_pc # "sub" /\ low_pc' # "sub" /\ (InHand' <=> InHand)
      BY <1>14 DEF ReadEmpty, LoadSize, FrontCheck, FrontEmpty, InHand
    <2>2. LiveSdus' = LiveSdus
      BY <2>1 DEF LiveSdus
    <2>3. Debt' = Debt
      BY <2>1 DEF Debt, PendingSub, PendingAdd, Unit
    <2> QED
      BY <1>1, <1>2, <2>1, <2>2, <2>3, CountSame
  <1> QED
    BY <1>6, <1>7, <1>8, <1>9, <1>10, <1>11, <1>12, <1>13, <1>14 DEF Next, Upper, Lower

\* A new queue counts nothing.
LEMMA InitCount == Init => SizesInv /\ CountInv
  <1> SUFFICES ASSUME Init PROVE SizesInv /\ CountInv
    OBVIOUS
  <1>1. SizesInv
    BY DEF Init, SizesInv, InHand, Allocated
  <1>2. LiveSdus = {}
    BY DEF Init, LiveSdus, InHand
  <1>3. UnitsOf(LiveSdus) = {}
    BY <1>2 DEF UnitsOf
  <1>4. LiveTotal = 0 /\ IsFiniteSet(UnitsOf(LiveSdus))
    BY <1>3, FS_EmptySet DEF LiveTotal
  <1>5. PendingSub = 0 /\ PendingAdd = 0
    BY DEF Init, PendingSub, PendingAdd
  <1> DEFINE m == Width * Width
  <1>6. m \in Nat \ {0}
    BY RlcSduQueueAssumption
  <1> HIDE DEF m
  <1>7. 0 % m = 0
    BY <1>6
  <1>8. state = 0 /\ LiveTotal + PendingSub - PendingAdd = 0
    BY <1>4, <1>5 DEF Init
  <1>9. state = (LiveTotal + PendingSub - PendingAdd) % m
    BY <1>7, <1>8, Zenon
  <1> QED
    BY <1>1, <1>4, <1>9 DEF CountInv, CounterExact, m

\* The packed counter is exact, whatever the interleaving: every SDU that is
\* pushed is added once and, when it is discarded or taken, subtracted once and
\* with its own size.
THEOREM CounterIsExact == Spec => []CounterExact
  <1> DEFINE J == IInv /\ SizesInv /\ CountInv
  <1>1. Init => J
    BY InitIInv, InitCount
  <1>2. J /\ [Next]_vars => J'
    <2> SUFFICES ASSUME J, [Next]_vars PROVE J'
      OBVIOUS
    <2>1. IInv'
      BY StepKeepsIInv
    <2>2. CASE Next
      <3>1. TypeOK' /\ SlotNamed'
        BY <2>1 DEF IInv
      <3> QED
        BY <2>1, <2>2, <3>1, SizesKept, CountKept
    <2>3. CASE UNCHANGED vars
      <3>1. SizesInv'
        BY <2>3 DEF vars, slotVars, upVars, lowVars, SizesInv, InHand, Allocated, HasSn
      <3>2. CountInv'
        BY <2>3 DEF vars, slotVars, upVars, lowVars, history, CountInv, CounterExact, LiveTotal,
           UnitsOf, LiveSdus, InHand, PendingSub, PendingAdd, Unit
      <3> QED
        BY <2>1, <3>1, <3>2
    <2> QED
      BY <2>2, <2>3
  <1>3. J => CounterExact
    BY DEF CountInv
  <1> QED
    BY <1>1, <1>2, <1>3, PTL DEF Spec

-----------------------------------------------------------------------------
(* Ids stay within the bound on the number of writes.                      *)

IdsBounded == next_id \in 1 .. MaxSdus + 1 /\ (Writing => up_sdu.id \in 1 .. MaxSdus)

\* The first call of write gets id 1.
LEMMA IdsInit == Init => IdsBounded
  BY RlcSduQueueAssumption DEF Init, IdsBounded, Writing

\* Calls of write are numbered up to the bound on their number.
LEMMA IdsStep == IdsBounded /\ [Next]_vars => IdsBounded'
  <1> SUFFICES ASSUME IdsBounded, [Next]_vars PROVE IdsBounded'
    OBVIOUS
  <1>1. CASE WriteCheckLimit
    <2>1. up_sdu'.id = next_id /\ next_id' = next_id + 1 /\ next_id <= MaxSdus
      BY <1>1 DEF WriteCheckLimit
    <2> QED
      BY <2>1, RlcSduQueueAssumption DEF IdsBounded
  <1>2. ASSUME next_id' = next_id, Writing' => Writing /\ up_sdu' = up_sdu
        PROVE  IdsBounded'
    BY <1>2 DEF IdsBounded
  <1>3. CASE UNCHANGED vars
    BY <1>2, <1>3 DEF vars, upVars, Writing
  <1>4. CASE Lower
    BY <1>2, <1>4 DEF Lower, ReadPop, ReadEmpty, LoadSize, ExchangeSlot, LowStateSub, FrontCheck,
       FrontEmpty, FrontPop, upVars, Writing
  <1>5. CASE Upper /\ ~WriteCheckLimit
    BY <1>2, <1>5 DEF Upper, WriteCheckSlot, WriteStoreSize, WriteStoreSn, WritePush,
       WriteReleaseSlot, WriteStateAdd, DiscardSlot, DiscardLoadSize, DiscardStateSub, Writing
  <1> QED
    BY <1>1, <1>3, <1>4, <1>5 DEF Next

-----------------------------------------------------------------------------
(* Sequences of SDUs seen as entries of the abstract queue.                *)

\* A sequence of SDUs becomes a sequence of entries of the same length.
LEMMA EntriesSeq ==
  ASSUME NEW s \in Seq(Sdu), NEW gone
  PROVE  /\ Entries(s, gone) \in Seq([id : Nat, discarded : BOOLEAN])
         /\ Len(Entries(s, gone)) = Len(s) /\ DOMAIN Entries(s, gone) = DOMAIN s
         /\ \A i \in DOMAIN s : Entries(s, gone)[i] =
                                  [id |-> s[i].id, discarded |-> s[i].id \in gone]
  <1>1. \A i \in DOMAIN s : s[i].id \in Nat
    BY SduFields
  <1> DEFINE E == Entries(s, gone)
  <1>2. DOMAIN E = DOMAIN s
    BY DEF Entries
  <1>3. \A i \in DOMAIN s : E[i] = [id |-> s[i].id, discarded |-> s[i].id \in gone]
    BY Zenon DEF Entries
  <1>4. \A i \in DOMAIN s : (s[i].id \in gone) \in BOOLEAN
    OBVIOUS
  <1>5. \A i \in DOMAIN s : E[i] \in [id : Nat, discarded : BOOLEAN]
    <2> TAKE i \in DOMAIN s
    <2>1. PICK b \in BOOLEAN : b = (s[i].id \in gone)
      BY <1>4
    <2>2. E[i] = [id |-> s[i].id, discarded |-> b]
      BY <1>3, <2>1
    <2> HIDE DEF E
    <2> QED
      BY <1>1, <2>1, <2>2
  <1>6. DOMAIN s = 1 .. Len(s) /\ Len(s) \in Nat
    OBVIOUS
  <1>7. E = [i \in 1 .. Len(s) |-> E[i]]
    BY <1>6, Zenon DEF Entries
  <1> HIDE DEF E
  <1>8. E \in Seq([id : Nat, discarded : BOOLEAN]) /\ Len(E) = Len(s)
    BY <1>2, <1>5, <1>6, <1>7
  <1> QED
    BY <1>2, <1>3, <1>8 DEF E

\* Pushing an SDU appends its entry.
LEMMA EntriesAppend ==
  ASSUME NEW s \in Seq(Sdu), NEW e \in Sdu, NEW gone
  PROVE  Entries(Append(s, e), gone) =
           Append(Entries(s, gone), [id |-> e.id, discarded |-> e.id \in gone])
  BY EntriesSeq, SduFields DEF Entries

\* Popping the head removes its entry.
LEMMA EntriesTail ==
  ASSUME NEW s \in Seq(Sdu), s # <<>>, NEW gone
  PROVE  /\ Entries(s, gone) # <<>>
         /\ Head(Entries(s, gone)) = [id |-> Head(s).id, discarded |-> Head(s).id \in gone]
         /\ Tail(Entries(s, gone)) = Entries(Tail(s), gone)
  BY EntriesSeq, SduFields DEF Entries

\* An SDU put in front of a queue, and taken from it again.
LEMMA OneInFront ==
  ASSUME NEW S, NEW q \in Seq(S), NEW e \in S
  PROVE  /\ <<e>> \o q \in Seq(S) /\ <<e>> \o q # <<>> /\ Len(<<e>> \o q) = Len(q) + 1
         /\ Head(<<e>> \o q) = e /\ Tail(<<e>> \o q) = q
         /\ \A f \in S : <<e>> \o Append(q, f) = Append(<<e>> \o q, f)
  <1>1. <<e>> \o q \in Seq(S) /\ Len(<<e>> \o q) = Len(q) + 1
    OBVIOUS
  <1>2. <<e>> \o q # <<>>
    BY <1>1
  <1>3. Head(<<e>> \o q) = e /\ Tail(<<e>> \o q) = q
    OBVIOUS
  <1>4. \A f \in S : <<e>> \o Append(q, f) = Append(<<e>> \o q, f)
    OBVIOUS
  <1> QED
    BY <1>1, <1>2, <1>3, <1>4

\* The SDU put in front is the head.
LEMMA HeadInFront ==
  ASSUME NEW S, NEW q \in Seq(S), q # <<>>
  PROVE  <<Head(q)>> \o Tail(q) = q
  OBVIOUS

\* What the reader holds and the queue, in one sequence.
LEMMA HeldFacts ==
  ASSUME TypeOK
  PROVE  /\ Held \in Seq(Sdu)
         /\ ~InHand => Held = queue
         /\ InHand => /\ Held = <<low_sdu>> \o queue /\ Held # <<>>
                      /\ Head(Held) = low_sdu /\ Tail(Held) = queue
         /\ Len(Held) <= Len(queue) + 1
  <1>1. queue \in Seq(Sdu) /\ low_sdu \in Sdu
    BY DEF TypeOK
  <1>2. CASE InHand
    <2>1. Held = <<low_sdu>> \o queue
      BY <1>2 DEF Held
    <2> QED
      BY <1>1, <1>2, <2>1, OneInFront
  <1>3. CASE ~InHand
    <2>1. Held = queue
      BY <1>1, <1>3, ConcatEmptySeq DEF Held
    <2> QED
      BY <1>1, <1>3, <2>1
  <1> QED
    BY <1>2, <1>3

-----------------------------------------------------------------------------
(* Step simulation.                                                        *)

\* Steps after which the SDUs held, the discarded and the taken ones are the same.
LEMMA QuietStep ==
  ASSUME InHand' = InHand, UNCHANGED <<queue, discarded, taken>>, InHand => low_sdu' = low_sdu
  PROVE  UNCHANGED <<AsFifo, taken>>
  BY DEF AsFifo, Held

\* write takes effect when the SDU is pushed.
LEMMA PushIsAccept ==
  ASSUME IInv, TypeOK', IdsBounded, WritePush, ~IsFull
  PROVE  Fifo!Accept
  <1>1. /\ queue' = Append(queue, up_sdu) /\ Writing /\ InHand' = InHand
        /\ UNCHANGED <<discarded, taken, low_sdu>>
    BY DEF WritePush, Writing, InHand, lowVars, history
  <1>2. queue \in Seq(Sdu) /\ up_sdu \in Sdu /\ low_sdu \in Sdu
    BY DEF IInv, TypeOK
  <1>3. Held' = Append(Held, up_sdu)
    <2>1. CASE InHand
      BY <1>1, <1>2, <2>1, OneInFront, HeldFacts DEF IInv, Held
    <2>2. CASE ~InHand
      <3>1. Held' = <<>> \o queue' /\ queue' \in Seq(Sdu)
        BY <1>1, <2>2 DEF Held, TypeOK
      <3>2. Held' = queue'
        BY <3>1, ConcatEmptySeq
      <3> QED
        BY <1>1, <2>2, <3>2, HeldFacts DEF IInv
    <2> QED
      BY <2>1, <2>2
  <1>4. up_sdu.id \notin discarded
    BY <1>1, <1>2, SduFields DEF IInv, Order, TypeOK
  <1>5. AsFifo' = Append(AsFifo, [id |-> up_sdu.id, discarded |-> FALSE])
    <2>1. AsFifo' = Entries(Append(Held, up_sdu), discarded)
      BY <1>1, <1>3 DEF AsFifo
    <2>2. Held \in Seq(Sdu)
      BY HeldFacts DEF IInv
    <2>3. AsFifo' = Append(AsFifo, [id |-> up_sdu.id, discarded |-> up_sdu.id \in discarded])
      BY <1>2, <2>1, <2>2, EntriesAppend DEF AsFifo
    <2>4. (up_sdu.id \in discarded) = FALSE
      BY <1>4
    <2> QED
      BY <2>3, <2>4
  <1>6. Len(AsFifo) <= Capacity
    <2>1. Len(AsFifo) = Len(Held) /\ Len(Held) <= Len(queue) + 1 /\ Len(queue) \in Nat
          /\ Len(Held) \in Nat
      BY <1>2, HeldFacts, EntriesSeq DEF IInv, AsFifo
    <2> QED
      BY <2>1, RlcSduQueueAssumption DEF IsFull
  <1>7. \A i \in DOMAIN AsFifo : AsFifo[i].id < up_sdu.id
    <2>1. Held \in Seq(Sdu) /\ DOMAIN AsFifo = DOMAIN Held
          /\ \A i \in DOMAIN Held : AsFifo[i].id = Held[i].id
      <3>1. Held \in Seq(Sdu)
        BY HeldFacts DEF IInv
      <3>2. /\ DOMAIN AsFifo = DOMAIN Held
            /\ \A i \in DOMAIN Held :
                 AsFifo[i] = [id |-> Held[i].id, discarded |-> Held[i].id \in discarded]
        BY <3>1, EntriesSeq DEF AsFifo
      <3> QED
        BY <3>1, <3>2
    <2>2. \A i \in DOMAIN Held : Held[i].id < up_sdu.id
      <3>1. CASE InHand
        <4>1. \A i \in DOMAIN Held : Held[i] = low_sdu \/ \E j \in DOMAIN queue : Held[i] = queue[j]
          <5>1. Held = <<low_sdu>> \o queue
            BY <3>1 DEF Held
          <5> QED
            BY <1>2, <5>1
        <4> QED
          BY <1>1, <3>1, <4>1 DEF IInv, Order
      <3>2. CASE ~InHand
        BY <1>1, <3>2, HeldFacts DEF IInv, Order
      <3> QED
        BY <3>1, <3>2
    <2> QED
      BY <2>1, <2>2
  <1>8. \A i \in DOMAIN taken : taken[i] < up_sdu.id
    BY <1>1 DEF IInv, TakenOrder
  <1>9. up_sdu.id \in 1 .. MaxSdus
    BY <1>1 DEF IdsBounded
  <1> QED
    BY <1>1, <1>5, <1>6, <1>7, <1>8, <1>9 DEF Fifo!Accept

\* Where the SDUs held are, and in which order.
LEMMA HeldPositions ==
  ASSUME IInv
  PROVE  /\ Held \in Seq(Sdu)
         /\ \A i, j \in DOMAIN Held : i < j => Held[i].id < Held[j].id
         /\ \A k \in DOMAIN queue : \E i \in DOMAIN Held : Held[i] = queue[k]
         /\ InHand => \E i \in DOMAIN Held : Held[i] = low_sdu
  <1>1. Held \in Seq(Sdu) /\ queue \in Seq(Sdu) /\ low_sdu \in Sdu
    BY HeldFacts DEF IInv, TypeOK
  <1>2. CASE InHand
    <2>1. Held = <<low_sdu>> \o queue
      BY <1>2 DEF Held
    <2>2. /\ DOMAIN Held = 1 .. Len(queue) + 1 /\ DOMAIN queue = 1 .. Len(queue)
          /\ Len(queue) \in Nat /\ Held[1] = low_sdu
          /\ \A k \in 1 .. Len(queue) : Held[k + 1] = queue[k]
      BY <1>1, <2>1
    <2>3. \A i, j \in DOMAIN Held : i < j => Held[i].id < Held[j].id
      <3> SUFFICES ASSUME NEW i \in DOMAIN Held, NEW j \in DOMAIN Held, i < j
                   PROVE  Held[i].id < Held[j].id
        OBVIOUS
      <3>1. j - 1 \in DOMAIN queue /\ Held[j] = queue[j - 1]
        BY <2>2
      <3>2. CASE i = 1
        BY <1>2, <2>2, <3>1, <3>2 DEF IInv, Order
      <3>3. CASE i # 1
        <4>1. i - 1 \in DOMAIN queue /\ Held[i] = queue[i - 1] /\ i - 1 < j - 1
          BY <2>2, <3>3
        <4> QED
          BY <3>1, <4>1 DEF IInv, Order
      <3> QED
        BY <3>2, <3>3
    <2>4. \A k \in DOMAIN queue : k + 1 \in DOMAIN Held /\ Held[k + 1] = queue[k]
      BY <2>2
    <2>5. 1 \in DOMAIN Held
      BY <2>2
    <2> QED
      BY <1>1, <2>2, <2>3, <2>4, <2>5
  <1>3. CASE ~InHand
    BY <1>1, <1>3, HeldFacts DEF IInv, Order
  <1> QED
    BY <1>2, <1>3

\* try_discard takes effect at its compare-exchange.
LEMMA CompareExchangeIsDiscard ==
  ASSUME IInv, DiscardSlot
  PROVE  Fifo!Discard
  <1>1. PICK sn \in PdcpSn :
          /\ sdu_states[Slot(sn)] = sn
          /\ discarded' = discarded \cup {holder[Slot(sn)]}
    BY DEF DiscardSlot
  <1>2. up_pc = "idle" /\ InHand' = InHand /\ UNCHANGED <<queue, taken, low_sdu>>
    BY DEF DiscardSlot, InHand, lowVars
  <1>3. Held' = Held
    BY <1>2 DEF Held
  <1>4. PICK i \in DOMAIN Held : HasSn(Held[i]) /\ Slot(Held[i].sn) = Slot(sn) /\ Holds(Held[i])
    <2>1. Slot(sn) \in Slots /\ sdu_states[Slot(sn)] # STATE_FREE /\ ~Allocated
      BY <1>1, <1>2, SlotInRange, Sentinels DEF Allocated
    <2> QED
      BY <2>1, HeldPositions DEF IInv, NoSlotLeak, SlotNamed
  <1>5. Held \in Seq(Sdu) /\ \A j \in DOMAIN Held : j \in Int /\ Held[j].id \in Nat
    BY HeldPositions, SduFields
  <1>6. \A j \in DOMAIN Held : Held[j].id = Held[i].id => j = i
    BY <1>5, HeldPositions
  <1>7. Held[i].id \notin discarded /\ discarded' = discarded \cup {Held[i].id}
    BY <1>1, <1>4, Sentinels DEF Holds
  <1>8. /\ DOMAIN AsFifo = DOMAIN Held /\ DOMAIN AsFifo' = DOMAIN Held
        /\ \A j \in DOMAIN Held :
             /\ AsFifo[j] = [id |-> Held[j].id, discarded |-> Held[j].id \in discarded]
             /\ AsFifo'[j] = [id |-> Held[j].id, discarded |-> Held[j].id \in discarded']
    BY <1>3, <1>5, EntriesSeq DEF AsFifo
  <1>9. AsFifo[i] = [id |-> Held[i].id, discarded |-> FALSE]
    <2>1. (Held[i].id \in discarded) = FALSE
      BY <1>7
    <2> QED
      BY <1>8, <2>1
  <1>10. AsFifo' = [AsFifo EXCEPT ![i] = [id |-> AsFifo[i].id, discarded |-> TRUE]]
    <2>1. \A j \in DOMAIN Held : j # i => AsFifo'[j] = AsFifo[j]
      <3> SUFFICES ASSUME NEW j \in DOMAIN Held, j # i PROVE AsFifo'[j] = AsFifo[j]
        OBVIOUS
      <3>1. (Held[j].id \in discarded') = (Held[j].id \in discarded)
        BY <1>6, <1>7
      <3> QED
        BY <1>8, <3>1
    <2>2. AsFifo'[i] = [id |-> AsFifo[i].id, discarded |-> TRUE]
      <3>1. (Held[i].id \in discarded') = TRUE
        BY <1>7
      <3>2. AsFifo'[i] = [id |-> Held[i].id, discarded |-> TRUE]
        BY <1>8, <3>1
      <3> QED
        BY <1>9, <3>2
    <2>3. AsFifo' = [j \in DOMAIN Held |-> AsFifo'[j]] /\ AsFifo = [j \in DOMAIN Held |-> AsFifo[j]]
      BY <1>3 DEF AsFifo, Entries
    <2> QED
      BY <1>8, <2>1, <2>2, <2>3
  <1> QED
    <2>1. ~AsFifo[i].discarded /\ i \in DOMAIN AsFifo
      BY <1>8, <1>9
    <2> QED
      BY <1>2, <1>10, <2>1 DEF Fifo!Discard, Fifo!Discarded

\* An SDU with a PDCP SN that moves to the reader's hand is still held; one
\* without is taken at once.
LEMMA PopIsTakeOrNothing ==
  ASSUME IInv, TypeOK', ReadPop \/ FrontPop
  PROVE  Fifo!Take \/ UNCHANGED <<AsFifo, taken>>
  <1> DEFINE head == Head(queue)
  <1>1. /\ queue # <<>> /\ queue' = Tail(queue) /\ ~InHand /\ low_sdu' = head
        /\ discarded' = discarded
    BY DEF ReadPop, FrontPop, InHand, history
  <1>2. \/ HasSn(head) /\ InHand' /\ taken' = taken
        \/ ~HasSn(head) /\ ~InHand' /\ taken' = Append(taken, head.id)
    BY DEF IInv, ReadPop, FrontPop, InHand, HasSn, SlotNamed, history
  <1>3. queue \in Seq(Sdu) /\ queue' \in Seq(Sdu) /\ Held = queue
    BY <1>1, HeldFacts DEF IInv, TypeOK
  <1>4. CASE InHand'
    <2>1. Held' = <<Head(queue)>> \o Tail(queue)
      BY <1>1, <1>4 DEF Held
    <2>2. Held' = Held
      BY <1>1, <1>3, <2>1, HeadInFront
    <2> QED
      BY <1>1, <1>2, <1>4, <2>2 DEF AsFifo
  <1>5. CASE ~InHand'
    <2>1. Held' = <<>> \o queue'
      BY <1>5 DEF Held
    <2>2. Held' = Tail(Held)
      BY <1>1, <1>3, <2>1, ConcatEmptySeq
    <2>3. /\ AsFifo # <<>> /\ AsFifo' = Tail(AsFifo)
          /\ Head(AsFifo) = [id |-> head.id, discarded |-> head.id \in discarded]
      BY <1>1, <1>3, <2>2, EntriesTail DEF AsFifo
    <2>4. (head.id \in discarded) = FALSE
      <3>1. 1 \in DOMAIN queue /\ head = queue[1]
        BY <1>1, <1>3, PopFacts
      <3> QED
        BY <1>2, <1>5, <3>1 DEF IInv, SlotsHeld
    <2>5. Head(AsFifo) = [id |-> head.id, discarded |-> FALSE]
      BY <2>3, <2>4
    <2>6. ~Head(AsFifo).discarded /\ Head(AsFifo).id = head.id
      BY <2>5
    <2> QED
      BY <1>2, <1>5, <2>3, <2>6 DEF Fifo!Take
  <1> QED
    BY <1>4, <1>5

\* The reader decides when it exchanges the slot.
LEMMA ExchangeIsTakeOrDrop ==
  ASSUME IInv, TypeOK', ExchangeSlot
  PROVE  Fifo!Take \/ Fifo!Drop
  <1>1. InHand /\ ~InHand' /\ UNCHANGED <<queue, discarded>>
    BY DEF ExchangeSlot, InHand, Loop
  <1>2. Held \in Seq(Sdu) /\ Held # <<>> /\ Head(Held) = low_sdu /\ Tail(Held) = queue
    BY <1>1, HeldFacts DEF IInv
  <1>3. Held' = <<>> \o queue' /\ queue' \in Seq(Sdu)
    BY <1>1 DEF Held, TypeOK
  <1>4. Held' = Tail(Held)
    BY <1>1, <1>2, <1>3, ConcatEmptySeq
  <1>5. /\ AsFifo # <<>> /\ AsFifo' = Tail(AsFifo)
        /\ Head(AsFifo) = [id |-> low_sdu.id, discarded |-> low_sdu.id \in discarded]
    BY <1>1, <1>2, <1>4, EntriesTail DEF AsFifo
  <1>6. /\ HasSn(low_sdu) /\ low_sdu.sn \in PdcpSn
        /\ sdu_states[Slot(low_sdu.sn)] = IF low_sdu.id \in discarded THEN STATE_DISCARDED
                                                                    ELSE low_sdu.sn
        /\ low_op = "front" => low_sdu.id \in discarded
    BY <1>1, SduFields DEF IInv, TypeOK, SlotNamed, SlotsHeld, Holds, FrontPopsDiscarded
  <1>7. CASE low_sdu.id \in discarded
    <2>1. taken' = taken
      BY <1>6, <1>7, Sentinels DEF ExchangeSlot, IsValid
    <2>2. (low_sdu.id \in discarded) = TRUE
      BY <1>7
    <2>3. Head(AsFifo) = [id |-> low_sdu.id, discarded |-> TRUE]
      BY <1>5, <2>2
    <2>4. Head(AsFifo).discarded
      BY <2>3
    <2> QED
      BY <1>5, <2>1, <2>4 DEF Fifo!Drop
  <1>8. CASE low_sdu.id \notin discarded
    <2>1. low_op = "read"
      BY <1>6, <1>8 DEF IInv, TypeOK
    <2>2. taken' = Append(taken, low_sdu.id)
      BY <1>6, <1>8, <2>1 DEF ExchangeSlot, IsValid
    <2>3. (low_sdu.id \in discarded) = FALSE
      BY <1>8
    <2>4. Head(AsFifo) = [id |-> low_sdu.id, discarded |-> FALSE]
      BY <1>5, <2>3
    <2>5. ~Head(AsFifo).discarded /\ Head(AsFifo).id = low_sdu.id
      BY <2>4
    <2> QED
      BY <1>5, <2>2, <2>5 DEF Fifo!Take
  <1> QED
    BY <1>7, <1>8

\* Every step of the queue is a step of the abstract one, or none.
LEMMA StepSimulation ==
  IInv /\ TypeOK' /\ IdsBounded /\ [Next]_vars => [Fifo!Next]_(Fifo!vars)
  <1> SUFFICES ASSUME IInv, TypeOK', IdsBounded, [Next]_vars
               PROVE  Fifo!Next \/ UNCHANGED <<AsFifo, taken>>
    BY DEF Fifo!vars
  <1>1. CASE UNCHANGED vars
    BY <1>1, QuietStep DEF vars, lowVars, history, InHand
  <1>2. CASE WritePush
    <2>1. CASE ~IsFull
      BY <1>2, <2>1, PushIsAccept DEF Fifo!Next
    <2>2. CASE IsFull
      BY <1>2, <2>2, QuietStep DEF WritePush, lowVars, history, InHand
    <2> QED
      BY <2>1, <2>2
  <1>3. CASE DiscardSlot
    BY <1>3, CompareExchangeIsDiscard DEF Fifo!Next
  <1>4. CASE WriteCheckLimit \/ WriteCheckSlot \/ WriteStoreSize \/ WriteStoreSn
               \/ WriteReleaseSlot \/ WriteStateAdd \/ DiscardLoadSize \/ DiscardStateSub
    BY <1>4, QuietStep DEF WriteCheckLimit, WriteCheckSlot, WriteStoreSize, WriteStoreSn,
       WriteReleaseSlot, WriteStateAdd, DiscardLoadSize, DiscardStateSub, lowVars, history, InHand
  <1>5. CASE ReadPop \/ FrontPop
    BY <1>5, PopIsTakeOrNothing DEF Fifo!Next
  <1>6. CASE ExchangeSlot
    BY <1>6, ExchangeIsTakeOrDrop DEF Fifo!Next
  <1>7. CASE ReadEmpty \/ LoadSize \/ LowStateSub \/ FrontCheck \/ FrontEmpty
    BY <1>7, QuietStep DEF ReadEmpty, LoadSize, LowStateSub, FrontCheck, FrontEmpty, Loop, history,
       InHand
  <1> QED
    BY <1>1, <1>2, <1>3, <1>4, <1>5, <1>6, <1>7 DEF Next, Upper, Lower

\* A new queue is an empty abstract one.
LEMMA InitSimulation == Init => Fifo!Init
  <1> SUFFICES ASSUME Init PROVE Fifo!Init
    OBVIOUS
  <1>1. Held = <<>>
    BY DEF Init, Held, InHand
  <1> QED
    BY <1>1 DEF Init, Fifo!Init, AsFifo, Entries

\* write, try_discard, read and front of the lock-free queue, interleaved at
\* every access to shared memory, are the operations of an atomic FIFO queue.
THEOREM QueueRefinesFifo == Spec => ImplementsFifo
  <1>1. Spec => []IdsBounded
    BY IdsInit, IdsStep, PTL DEF Spec
  <1>2. IInv => TypeOK
    BY DEF IInv
  <1> QED
    BY <1>1, <1>2, InitSimulation, StepSimulation, Invariance, PTL
    DEF Spec, ImplementsFifo, Fifo!Spec
=============================================================================

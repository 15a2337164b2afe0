----------------------------- MODULE RlcSduQueue -----------------------------
(***************************************************************************)
(* The lock-free SDU queue between the upper layer (ue_executor) and the   *)
(* lower layer (pcell_executor), lib/rlc/rlc_sdu_queue_lockfree.h.  Every  *)
(* access to a shared atomic, and every push and pop of the SPSC queue, is *)
(* a step of its own.  One thread writes and discards, the other reads and *)
(* looks at the front.                                                     *)
(*                                                                         *)
(* Steps are interleaved as if memory were sequentially consistent.  The   *)
(* acquire and release orders of the code pay for that where it matters:   *)
(* push to pop orders the slot stores of the writer before the release by  *)
(* the reader, and the releasing exchange orders the reader's load of the  *)
(* size before the writer's next store to it.                              *)
(***************************************************************************)
EXTENDS Integers, Sequences, FiniteSets

CONSTANTS
  Capacity,       \* slots, and places in the SPSC queue
  ByteLimit,      \* byte_limit
  PdcpSn,         \* PDCP SNs of the SDUs
  Sizes,          \* sizes of SDUs in bytes
  Width,          \* 2^32: n_bytes and n_sdus are the halves of one atomic
  MaxSdus         \* bound: calls of write

ASSUME RlcSduQueueAssumption ==
  /\ Capacity \in Nat \ {0} /\ ByteLimit \in Nat
  /\ PdcpSn \subseteq Nat /\ Sizes \subseteq Nat \ {0}
  /\ Width \in Nat \ {0, 1} /\ MaxSdus \in Nat

NoSn == -1                               \* pdcp_sn has no value
STATE_FREE == -2
STATE_DISCARDED == -3
Slots == 0 .. Capacity - 1
Slot(sn) == sn % Capacity

\* id numbers the calls of write; it is not in the code.
Sdu == [id : Nat, sn : PdcpSn \cup {NoSn}, size : Nat]

VARIABLES
  queue,          \* the SPSC queue
  sdu_states,     \* slot -> STATE_FREE, STATE_DISCARDED or the PDCP SN that holds it
  sdu_sizes,      \* slot -> size of its SDU
  state,          \* the packed atomic: n_sdus * 2^32 + n_bytes
  up_pc, up_sdu, up_size,             \* the thread in write or try_discard
  low_pc, low_op, low_sdu, low_size, low_valid,  \* the thread in read or front
  holder,         \* history: slot -> id of the SDU that last took it
  discarded,      \* history: ids for which try_discard returned true
  taken,          \* history: ids that read returned, in order
  next_id

slotVars == <<sdu_states, sdu_sizes>>
upVars == <<up_pc, up_sdu, up_size>>
lowVars == <<low_pc, low_op, low_sdu, low_size, low_valid>>
history == <<holder, discarded, taken>>
vars == <<queue, slotVars, state, upVars, lowVars, history, next_id>>

NBytes == state % Width
NSdus == state \div Width

\* Mutant: a counter that does not wrap.
StateSubSigned(size) == state' = state - Width - size

\* state_add and state_sub: one SDU of this size, on both halves at once.
StateAdd(size) == state' = (state + Width + size) % (Width * Width)
StateSub(size) == state' = (state - Width - size) % (Width * Width)

TypeOK ==
  /\ queue \in Seq(Sdu)
  /\ sdu_states \in [Slots -> PdcpSn \cup {STATE_FREE, STATE_DISCARDED}]
  /\ sdu_sizes \in [Slots -> Nat]
  /\ state \in Nat
  /\ up_pc \in {"idle", "slot", "size", "sn", "push", "release", "add",
                "discard_size", "discard_sub"}
  /\ up_sdu \in Sdu /\ up_size \in Nat
  /\ low_pc \in {"idle", "pop", "front", "front_pop", "size", "exchange", "sub"}
  /\ low_op \in {"read", "front"}
  /\ low_sdu \in Sdu /\ low_size \in Nat /\ low_valid \in BOOLEAN
  /\ holder \in [Slots -> Nat] /\ discarded \subseteq Nat /\ taken \in Seq(Nat)
  /\ next_id \in Nat

NoSdu == [id |-> 0, sn |-> NoSn, size |-> 0]

Init ==
  /\ queue = <<>>
  /\ sdu_states = [i \in Slots |-> STATE_FREE] /\ sdu_sizes = [i \in Slots |-> 0]
  /\ state = 0
  /\ up_pc = "idle" /\ up_sdu = NoSdu /\ up_size = 0
  /\ low_pc = "idle" /\ low_op = "read" /\ low_sdu = NoSdu
  /\ low_size = 0 /\ low_valid = TRUE
  /\ holder = [i \in Slots |-> 0] /\ discarded = {} /\ taken = <<>>
  /\ next_id = 1

-----------------------------------------------------------------------------
(* write, on the upper-layer thread.                                       *)

\* The byte limit; an SDU over it is dropped.
WriteCheckLimit ==
  /\ up_pc = "idle" /\ next_id <= MaxSdus
  /\ next_id' = next_id + 1
  /\ \E sn \in PdcpSn \cup {NoSn}, size \in Sizes :
       /\ up_sdu' = [id |-> next_id, sn |-> sn, size |-> size]
       /\ up_pc' = IF size + NBytes >= ByteLimit THEN "idle"
                   ELSE IF sn = NoSn THEN "push" ELSE "slot"
  /\ UNCHANGED <<queue, slotVars, state, up_size, lowVars, history>>

\* Mutant: the slot is not checked.
WriteAnySlot ==
  /\ up_pc = "slot" /\ up_pc' = "size"
  /\ UNCHANGED <<queue, slotVars, state, up_sdu, up_size, lowVars, history, next_id>>

WriteCheckSlot ==
  /\ up_pc = "slot"
  /\ up_pc' = IF sdu_states[Slot(up_sdu.sn)] = STATE_FREE THEN "size" ELSE "idle"
  /\ UNCHANGED <<queue, slotVars, state, up_sdu, up_size, lowVars, history, next_id>>

\* Mutant: the size of the SDU is not stored.
WriteNoSize ==
  /\ up_pc = "size" /\ up_pc' = "sn"
  /\ UNCHANGED <<queue, slotVars, state, up_sdu, up_size, lowVars, history, next_id>>

WriteStoreSize ==
  /\ up_pc = "size" /\ up_pc' = "sn"
  /\ sdu_sizes' = [sdu_sizes EXCEPT ![Slot(up_sdu.sn)] = up_sdu.size]
  /\ UNCHANGED <<queue, sdu_states, state, up_sdu, up_size, lowVars, history, next_id>>

WriteStoreSn ==
  /\ up_pc = "sn" /\ up_pc' = "push"
  /\ sdu_states' = [sdu_states EXCEPT ![Slot(up_sdu.sn)] = up_sdu.sn]
  /\ holder' = [holder EXCEPT ![Slot(up_sdu.sn)] = up_sdu.id]
  /\ UNCHANGED <<queue, sdu_sizes, state, up_sdu, up_size, lowVars, discarded, taken, next_id>>

\* Mutant: one place more than there is.
IsFullLate == Len(queue) > Capacity

\* try_push fails when capacity SDUs are in the queue.
IsFull == Len(queue) >= Capacity

WritePush ==
  /\ up_pc = "push"
  /\ \/ /\ ~IsFull
        /\ queue' = Append(queue, up_sdu) /\ up_pc' = "add"
     \/ /\ IsFull
        /\ up_pc' = IF up_sdu.sn = NoSn THEN "idle" ELSE "release"
        /\ UNCHANGED queue
  /\ UNCHANGED <<slotVars, state, up_sdu, up_size, lowVars, history, next_id>>

\* Mutant: the slot is not given back.
WriteKeepSlot ==
  /\ up_pc = "release" /\ up_pc' = "idle"
  /\ UNCHANGED <<queue, slotVars, state, up_sdu, up_size, lowVars, history, next_id>>

\* The slot of an SDU that found the queue full is given back.
WriteReleaseSlot ==
  /\ up_pc = "release" /\ up_pc' = "idle"
  /\ sdu_states' = [sdu_states EXCEPT ![Slot(up_sdu.sn)] = STATE_FREE]
  /\ UNCHANGED <<queue, sdu_sizes, state, up_sdu, up_size, lowVars, history, next_id>>

WriteStateAdd ==
  /\ up_pc = "add" /\ up_pc' = "idle"
  /\ StateAdd(up_sdu.size)
  /\ UNCHANGED <<queue, slotVars, up_sdu, up_size, lowVars, history, next_id>>

-----------------------------------------------------------------------------
(* try_discard, on the upper-layer thread.                                 *)

\* The compare-exchange; when it fails nothing else happens.
DiscardSlot ==
  /\ up_pc = "idle"
  /\ \E sn \in PdcpSn :
       /\ sdu_states[Slot(sn)] = sn
       /\ sdu_states' = [sdu_states EXCEPT ![Slot(sn)] = STATE_DISCARDED]
       /\ up_sdu' = [id |-> 0, sn |-> sn, size |-> 0]
       /\ discarded' = discarded \cup {holder[Slot(sn)]}
  /\ up_pc' = "discard_size"
  /\ UNCHANGED <<queue, sdu_sizes, state, up_size, lowVars, holder, taken, next_id>>

DiscardLoadSize ==
  /\ up_pc = "discard_size" /\ up_pc' = "discard_sub"
  /\ up_size' = sdu_sizes[Slot(up_sdu.sn)]
  /\ UNCHANGED <<queue, slotVars, state, up_sdu, lowVars, history, next_id>>

DiscardStateSub ==
  /\ up_pc = "discard_sub" /\ up_pc' = "idle"
  /\ StateSub(up_size)
  /\ UNCHANGED <<queue, slotVars, up_sdu, up_size, lowVars, history, next_id>>

-----------------------------------------------------------------------------
(* read, on the lower-layer thread: pop until an SDU is valid.             *)

\* An SDU without PDCP SN is always valid.
ReadPop ==
  /\ low_pc \in {"idle", "pop"} /\ queue # <<>>
  /\ queue' = Tail(queue)
  /\ low_sdu' = Head(queue) /\ low_op' = "read"
  /\ IF Head(queue).sn = NoSn
     THEN /\ low_pc' = "sub" /\ low_size' = Head(queue).size /\ low_valid' = TRUE
          /\ taken' = Append(taken, Head(queue).id)
     ELSE /\ low_pc' = "size" /\ UNCHANGED <<low_size, low_valid, taken>>
  /\ UNCHANGED <<slotVars, state, upVars, holder, discarded, next_id>>

ReadEmpty ==
  /\ low_pc = "pop" /\ queue = <<>>
  /\ low_pc' = "idle"
  /\ UNCHANGED <<queue, slotVars, state, upVars, low_op, low_sdu, low_size, low_valid,
                 history, next_id>>

\* check_and_release: the size, then the slot ...
LoadSize ==
  /\ low_pc = "size" /\ low_pc' = "exchange"
  /\ low_size' = sdu_sizes[Slot(low_sdu.sn)]
  /\ UNCHANGED <<queue, slotVars, state, upVars, low_op, low_sdu, low_valid, history, next_id>>

Loop == IF low_op = "read" THEN "pop" ELSE "front"

\* Mutant: whoever still has a slot is valid.
IsNotFree(old, sn) == old # STATE_FREE

IsValid(old, sn) == old = sn

\* ... which becomes free.  The totals of a discarded SDU have been updated.
ExchangeSlot ==
  /\ low_pc = "exchange"
  /\ LET slot == Slot(low_sdu.sn)
         old  == sdu_states[slot]
     IN  /\ sdu_states' = [sdu_states EXCEPT ![slot] = STATE_FREE]
         /\ low_valid' = IsValid(old, low_sdu.sn)
         /\ low_pc' = IF old = STATE_DISCARDED THEN Loop ELSE "sub"
         /\ taken' = IF IsValid(old, low_sdu.sn) /\ low_op = "read"
                     THEN Append(taken, low_sdu.id) ELSE taken
  /\ UNCHANGED <<queue, sdu_sizes, state, upVars, low_op, low_sdu, low_size, holder, discarded,
                 next_id>>

\* read returns a valid SDU; front takes one for an error and gives up.
LowStateSub ==
  /\ low_pc = "sub"
  /\ low_pc' = IF low_valid THEN "idle" ELSE Loop
  /\ StateSub(low_size)
  /\ UNCHANGED <<queue, slotVars, upVars, low_op, low_sdu, low_size, low_valid, history, next_id>>

-----------------------------------------------------------------------------
(* front, on the lower-layer thread: pop SDUs that check finds discarded.  *)

FrontCheck ==
  /\ low_pc \in {"idle", "front"} /\ queue # <<>>
  /\ low_op' = "front"
  /\ low_pc' = LET sn == Head(queue).sn
               IN  IF sn # NoSn /\ sdu_states[Slot(sn)] # sn THEN "front_pop" ELSE "idle"
  /\ UNCHANGED <<queue, slotVars, state, upVars, low_sdu, low_size, low_valid, history, next_id>>

FrontEmpty ==
  /\ low_pc = "front" /\ queue = <<>>
  /\ low_pc' = "idle"
  /\ UNCHANGED <<queue, slotVars, state, upVars, low_op, low_sdu, low_size, low_valid,
                 history, next_id>>

FrontPop ==
  /\ low_pc = "front_pop" /\ queue # <<>>
  /\ queue' = Tail(queue) /\ low_sdu' = Head(queue)
  /\ low_pc' = "size"
  /\ UNCHANGED <<slotVars, state, upVars, low_op, low_size, low_valid, history, next_id>>

-----------------------------------------------------------------------------
Upper == \/ WriteCheckLimit \/ WriteCheckSlot \/ WriteStoreSize \/ WriteStoreSn
         \/ WritePush \/ WriteReleaseSlot \/ WriteStateAdd
         \/ DiscardSlot \/ DiscardLoadSize \/ DiscardStateSub

Lower == \/ ReadPop \/ ReadEmpty \/ LoadSize \/ ExchangeSlot \/ LowStateSub
         \/ FrontCheck \/ FrontEmpty \/ FrontPop

Next == Upper \/ Lower

Spec == Init /\ [][Next]_vars

-----------------------------------------------------------------------------
(* Safety.                                                                 *)

HasSn(sdu) == sdu.sn # NoSn
InHand == low_pc \in {"size", "exchange"}                        \* popped, not decided
Writing == up_pc \in {"slot", "size", "sn", "push", "release"}   \* not pushed yet
Allocated == up_pc \in {"push", "release"} /\ HasSn(up_sdu)

\* The slot is the SDU's own: it names its SN, or says that it was discarded.
Holds(sdu) ==
  LET slot == Slot(sdu.sn)
  IN  /\ holder[slot] = sdu.id
      /\ sdu_states[slot] = IF sdu.id \in discarded THEN STATE_DISCARDED ELSE sdu.sn

\* check_and_release never meets a slot that is free or taken by another SDU,
\* and front never pops an SDU that turns out to be valid: the branches that
\* log "Invalid release" and "Unexpected result" are not reached, although the
\* slot is freed, reused and discarded while the other thread works on it.
NoInvalidRelease ==
  /\ low_pc = "exchange" =>
       /\ sdu_states[Slot(low_sdu.sn)] \in {low_sdu.sn, STATE_DISCARDED}
       /\ low_op = "front" => sdu_states[Slot(low_sdu.sn)] = STATE_DISCARDED
  /\ low_pc = "front_pop" =>
       queue # <<>> /\ HasSn(Head(queue)) /\ Head(queue).id \in discarded

\* No slot leaks: one that is not free belongs to an SDU that is queued, in the
\* reader's hand or about to be pushed; so every PDCP SN can be written again.
NoSlotLeak ==
  \A slot \in Slots : sdu_states[slot] # STATE_FREE =>
    \/ \E i \in DOMAIN queue : /\ HasSn(queue[i]) /\ Slot(queue[i].sn) = slot
                              /\ Holds(queue[i])
    \/ InHand /\ Slot(low_sdu.sn) = slot /\ Holds(low_sdu)
    \/ Allocated /\ Slot(up_sdu.sn) = slot /\ Holds(up_sdu)

\* The reader never returns an SDU that try_discard said it had discarded.
DiscardedNeverTaken == \A i \in DOMAIN taken : taken[i] \notin discarded

\* What one SDU of this size contributes to the packed counter.
Unit(size) == Width + size

\* The SDUs in the queue or the reader's hand that have not been discarded, and
\* the sum of their contributions: as many pairs as there are units.
LiveSdus ==
  {queue[i] : i \in {i \in DOMAIN queue : queue[i].id \notin discarded}}
    \cup {sdu \in {low_sdu} : InHand /\ sdu.id \notin discarded}
UnitsOf(sdus) == UNION {{sdu.id} \X (1 .. Unit(sdu.size)) : sdu \in sdus}
LiveTotal == Cardinality(UnitsOf(LiveSdus))

\* Updates of the counter that are still to come.
PendingSub ==
  (IF low_pc = "sub" THEN Unit(low_sdu.size) ELSE 0)
    + CASE up_pc = "discard_size" -> Unit(sdu_sizes[Slot(up_sdu.sn)])
        [] up_pc = "discard_sub"  -> Unit(up_size)
        [] OTHER -> 0
PendingAdd == IF up_pc = "add" THEN Unit(up_sdu.size) ELSE 0

\* The packed counter is the SDUs and bytes that are queued and not discarded,
\* but for the updates that are still to come: no interleaving of write,
\* try_discard and read loses one, repeats one or uses the size of another SDU.
CounterExact ==
  state = (LiveTotal + PendingSub - PendingAdd) % (Width * Width)

\* The queue behaves as one whose operations are atomic: try_discard takes
\* effect at its compare-exchange, write at its push, read when it has decided.
Held == (IF InHand THEN <<low_sdu>> ELSE <<>>) \o queue
Entries(sdus, gone) ==
  [i \in DOMAIN sdus |-> [id |-> sdus[i].id, discarded |-> sdus[i].id \in gone]]
AsFifo == Entries(Held, discarded)
Fifo == INSTANCE RlcSduFifo WITH fifo <- AsFifo
ImplementsFifo == Fifo!Spec
=============================================================================

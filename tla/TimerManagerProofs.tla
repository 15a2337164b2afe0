------------------------- MODULE TimerManagerProofs -------------------------
(***************************************************************************)
(* The timer service for any set of timers, any durations and any number   *)
(* of commands: no update is missed, an expiry always finds its run, and   *)
(* every step of the two threads is a step of the atomic timer.            *)
(***************************************************************************)
EXTENDS TimerManager, SequenceTheorems, TLAPS

-----------------------------------------------------------------------------
(* The inductive invariant, one timer at a time.                           *)

\* The back-end has an entry for the timer or will make one before it looks.
Created(t) == t \in known \cup pending_timers_to_create

\* A command that the back-end will take.
Waiting(t) == middle_buffer[t].pending

\* Has the back-end processed the last command of the owner?
UpToDate(t) == push_pc[t] # "exchange" /\ ~Waiting(t)

\* The last command of the owner, when the back-end has not processed it yet.
LastCmd(t) == IF push_pc[t] = "exchange" THEN write_buffer[t] ELSE middle_buffer[t]

\* tick takes all commands of a batch before time advances, and expires all
\* timers of a wheel list before the next batch.
TickPhases ==
  /\ tick_pc # "commands" => \A t \in Timers : batch[t] = 0
  /\ tick_pc # "expire" => todo = {}
  /\ \A t \in todo : backend[t].state = "running"

\* A timer is in the pool, held by an owner, on its way back to the pool, or not
\* made yet.
PoolInv(t) ==
  /\ owner[t] > 0 \/ t \in timer_free_list => Created(t)
  /\ owner[t] = 0 => /\ ~valid[t] /\ cmd_id[t] = 0 /\ push_pc[t] = "idle"
                     /\ ~Waiting(t) /\ duration[t] = INVALID_DURATION
  /\ valid[t] => owner[t] > 0 /\ t \notin timer_free_list
  /\ ~valid[t] => state[t] = "stopped"
  /\ t \in timer_free_list => /\ push_pc[t] = "idle" /\ ~Waiting(t)
                              /\ duration[t] = INVALID_DURATION

\* Commands reach the back-end in order, and the last one is never lost.
ChannelInv(t) ==
  /\ ~read_buffer[t].pending
  /\ push_pc[t] = "exchange" => write_buffer[t].pending /\ write_buffer[t].cmd_id = cmd_id[t]
  /\ Waiting(t) => /\ backend[t].cmd_id < middle_buffer[t].cmd_id
                   /\ IF push_pc[t] = "exchange"
                      THEN middle_buffer[t].cmd_id < cmd_id[t]
                      ELSE middle_buffer[t].cmd_id = cmd_id[t]
  /\ backend[t].cmd_id <= cmd_id[t]
  /\ UpToDate(t) <=> backend[t].cmd_id = cmd_id[t]
  /\ backend[t].cmd_id = 0 => backend[t].state = "stopped"

\* What a command that is not processed yet says of the front-end.
CommandInv(t) ==
  /\ Waiting(t) /\ middle_buffer[t].action = "create" => middle_buffer[t].cmd_id = 1
  /\ push_pc[t] = "exchange" /\ write_buffer[t].action = "create" => write_buffer[t].cmd_id = 1
  /\ Waiting(t) /\ middle_buffer[t].action = "destroy" => push_pc[t] # "exchange"
  /\ ~UpToDate(t) =>
       /\ LastCmd(t).action = "destroy" => ~valid[t] /\ t \notin timer_free_list
       /\ LastCmd(t).action = "start" <=> state[t] = "running"
       /\ LastCmd(t).action = "start" => left[t] <= Ticks(LastCmd(t).duration)

\* An expiry under way.
Dispatched(t) == \E task \in tasks[t] : task[1] = cmd_id[t]
Postponed(t) == \E i \in DOMAIN failed_to_trigger_timers :
                  failed_to_trigger_timers[i] = <<t, cmd_id[t]>>

\* A run ends at most once: the wheel, the postponed expiries and the executor
\* never have two of wheel entry, postponed expiry and task for the same run.
ExpiryInv(t) ==
  /\ \A task \in tasks[t] : task[1] <= backend[t].cmd_id
  /\ \A task \in tasks[t] : task[1] = cmd_id[t] =>
       state[t] = "running" /\ task[2] = owner[t] /\ backend[t].state = "expired" /\ left[t] = 0
  /\ Postponed(t) =>
       state[t] = "running" /\ ~Dispatched(t) /\ backend[t].state = "expired" /\ left[t] = 0
  /\ UpToDate(t) /\ backend[t].state = "running" => state[t] = "running"

\* Postponed expiries are of processed commands, and of different runs.
PostponedInv ==
  /\ \A i \in DOMAIN failed_to_trigger_timers :
       failed_to_trigger_timers[i][2] <= backend[failed_to_trigger_timers[i][1]].cmd_id
  /\ \A i, j \in DOMAIN failed_to_trigger_timers :
       failed_to_trigger_timers[i] = failed_to_trigger_timers[j] => i = j

\* A run that the back-end has started ends when n more ticks have passed, no
\* earlier than its owner expects.  At n = 0 the wheel list in progress holds it.
WheelInv(t) ==
  UpToDate(t) /\ backend[t].state = "running" =>
    \E n \in 0 .. TimeModulus :
      /\ backend[t].timeout = (cur_time + n) % TimeModulus
      /\ left[t] <= n
      /\ n = 0 => t \in todo
      /\ tick_pc = "expire" => n < TimeModulus

TimerInv(t) ==
  PoolInv(t) /\ ChannelInv(t) /\ CommandInv(t) /\ ExpiryInv(t) /\ WheelInv(t)

IInv ==
  /\ TypeOK /\ TickPhases /\ SignalPerCommand /\ NoUpdateIsMissed /\ PostponedInv
  /\ \A t \in Timers : TimerInv(t)

-----------------------------------------------------------------------------
(* Arithmetic of the clock, and the operators of the model.                *)

\* A remainder is smaller than the modulus.
LEMMA ModRange ==
  ASSUME NEW m \in Nat \ {0}, NEW x \in Int
  PROVE  x % m \in 0 .. m - 1
  BY SMT

\* A run takes at least one tick and no more than one turn of the clock.
LEMMA TicksRange ==
  ASSUME NEW d \in Durations \cup {0}
  PROVE  Ticks(d) \in 1 .. TimeModulus /\ Ticks(d) \in Nat
  BY TimerManagerAssumption DEF Ticks

\* Advancing the clock brings every moment ahead of it one tick closer.
LEMMA ClockStep ==
  ASSUME NEW now \in 0 .. TimeModulus - 1, NEW n \in 1 .. TimeModulus
  PROVE  /\ TimeAfter(now) \in 0 .. TimeModulus - 1
         /\ (now + n) % TimeModulus = (TimeAfter(now) + (n - 1)) % TimeModulus
  <1> DEFINE M == TimeModulus
  <1>0. M \in Nat \ {0}
    BY TimerManagerAssumption
  <1>1. TimeAfter(now) = IF now + 1 < M THEN now + 1 ELSE 0
    BY <1>0 DEF TimeAfter
  <1>2. CASE now + 1 < M
    <2>1. TimeAfter(now) = now + 1 /\ now + 1 + (n - 1) = now + n
      BY <1>0, <1>1, <1>2
    <2> QED
      BY <1>0, <1>2, <2>1
  <1>3. CASE now + 1 >= M
    <2>1. TimeAfter(now) = 0 /\ now = M - 1
      BY <1>0, <1>1, <1>3
    <2>2. (now + n) % M = now + n - M
      BY <1>0, <2>1
    <2>3. (0 + (n - 1)) % M = n - 1
      BY <1>0
    <2> QED
      BY <1>0, <2>1, <2>2, <2>3
  <1> QED
    BY <1>0, <1>2, <1>3

\* Less than one turn of the clock ahead, only the present is now.
LEMMA ClockNow ==
  ASSUME NEW now \in 0 .. TimeModulus - 1, NEW n \in 0 .. TimeModulus - 1
  PROVE  now = (now + n) % TimeModulus <=> n = 0
  <1>1. TimeModulus \in Nat \ {0}
    BY TimerManagerAssumption
  <1> QED
    BY <1>1

-----------------------------------------------------------------------------
(* Types.                                                                  *)

\* Every component has its type at the start.
LEMMA TypeInit == Init => TypeOK
  <1> SUFFICES ASSUME Init PROVE TypeOK
    OBVIOUS
  <1>1. NoCmd \in Commands
    BY DEF NoCmd, Commands
  <1>2. [cmd_id |-> 0, state |-> "stopped", timeout |-> 0]
          \in [cmd_id : Nat, state : TimerStates, timeout : Nat]
    BY DEF TimerStates
  <1>3. 0 \in 0 .. TimeModulus - 1 /\ Cached \subseteq Timers
    BY TimerManagerAssumption
  <1>4. <<>> \in Seq(Timers \X Nat)
    OBVIOUS
  <1> QED
    BY <1>1, <1>2, <1>3, <1>4 DEF Init, TypeOK, TimerStates

\* A push writes a command into the buffer of the front-end.
LEMMA TypeStartPush ==
  ASSUME TypeOK, NEW t \in Timers, NEW a \in {"start", "stop", "create", "destroy"},
         NEW d \in Durations \cup {0}, StartPush(t, a, d)
  PROVE  /\ cmd_id' \in [Timers -> Nat] /\ write_buffer' \in [Timers -> Commands]
         /\ push_pc' \in [Timers -> {"idle", "exchange", "notify"}]
         /\ UNCHANGED <<middle_buffer, read_buffer, signals>>
  BY SMTT(30) DEF TypeOK, StartPush, Commands

\* The steps of the owner of a timer keep the types.
LEMMA TypeOwner ==
  ASSUME TypeOK, NEW t \in Timers, CreateCachedTimer(t) \/ CreateTimer(t) \/ Run(t) \/ Stop(t)
           \/ Reset(t) \/ (\E d \in Durations : Set(t, d))
  PROVE  TypeOK'
  <1> USE DEF TypeOK, frontVars, chanVars, poolVars, backVars, execVars, TimerStates
  <1>1. CASE CreateCachedTimer(t)
    <2>1. valid' \in [Timers -> BOOLEAN] /\ exec' \in [Timers -> BOOLEAN]
      BY <1>1, Zenon DEF CreateCachedTimer
    <2>2. owner' \in [Timers -> Nat] /\ timer_free_list' \subseteq Timers
      BY <1>1 DEF CreateCachedTimer
    <2> QED
      BY <1>1, <2>1, <2>2 DEF CreateCachedTimer
  <1>2. CASE CreateTimer(t)
    BY <1>2, TypeStartPush DEF CreateTimer, PendingTimer
  <1>3. ASSUME NEW d \in Durations, Begin(t, d)
        PROVE  /\ state' \in [Timers -> TimerStates] /\ left' \in [Timers -> Nat]
               /\ cmd_id' \in [Timers -> Nat] /\ write_buffer' \in [Timers -> Commands]
               /\ push_pc' \in [Timers -> {"idle", "exchange", "notify"}]
               /\ UNCHANGED <<middle_buffer, read_buffer, signals>>
    BY <1>3, TypeStartPush, TicksRange DEF Begin
  <1>4. CASE Run(t)
    BY <1>3, <1>4 DEF Run
  <1>5. CASE Stop(t)
    BY <1>5, TypeStartPush DEF Stop
  <1>6. CASE Reset(t)
    BY <1>6, TypeStartPush DEF Reset
  <1>7. ASSUME NEW d \in Durations, Set(t, d)
        PROVE  TypeOK'
    <2>1. CASE state[t] = "running" /\ Begin(t, d)
      BY <1>3, <1>7, <2>1 DEF Set
    <2>2. CASE UNCHANGED <<state, left, push_pc, chanVars>>
      BY <1>7, <2>2 DEF Set
    <2> QED
      BY <1>7, <2>1, <2>2 DEF Set
  <1> QED
    BY <1>1, <1>2, <1>4, <1>5, <1>6, <1>7

\* The exchange of the buffers, the signal and the task of an expiry keep the types.
LEMMA TypeChannel ==
  ASSUME TypeOK, NEW t \in Timers, PushExchange(t) \/ NotifyTimerUpdate(t) \/ RunTimeout(t)
  PROVE  TypeOK'
  <1> USE DEF TypeOK, frontVars, chanVars, poolVars, backVars, execVars, TimerStates
  <1>1. CASE PushExchange(t)
    BY <1>1 DEF PushExchange
  <1>2. CASE NotifyTimerUpdate(t)
    BY <1>2, SMTT(30) DEF NotifyTimerUpdate
  <1>3. CASE RunTimeout(t)
    <2>1. PICK task \in tasks[t] :
            /\ tasks' = [tasks EXCEPT ![t] = @ \ {task}]
            /\ state' = [state EXCEPT ![t] = IF SameEpoch(t, task[1]) THEN "expired" ELSE @]
            /\ UNCHANGED <<valid, exec, duration, push_pc, owner, left, chanVars, poolVars,
                           backVars, failures>>
      BY <1>3 DEF RunTimeout
    <2>2. tasks' \in [Timers -> SUBSET (Nat \X Nat)] /\ state' \in [Timers -> TimerStates]
      BY <2>1
    <2> QED
      BY <2>1, <2>2
  <1> QED
    BY <1>1, <1>2, <1>3

\* The back-end's record of a timer after a command.
LEMMA TypeUpdated ==
  ASSUME TypeOK, NEW b \in [cmd_id : Nat, state : TimerStates, timeout : Nat],
         NEW cmd \in Commands
  PROVE  /\ Updated(b, cmd) \in [cmd_id : Nat, state : TimerStates, timeout : Nat]
         /\ Updated(b, cmd).cmd_id = cmd.cmd_id
         /\ cmd.action = "start" => /\ Updated(b, cmd).state = "running"
                                    /\ Updated(b, cmd).timeout = Timeout(cmd.duration)
         /\ cmd.action = "create" => Updated(b, cmd).state = b.state
         /\ cmd.action \notin {"start", "create"} => Updated(b, cmd).state # "running"
  <1>1. cmd.duration \in Durations \cup {0}
    BY DEF Commands
  <1>2. cur_time + Ticks(cmd.duration) \in Int
    <2>1. cur_time \in Int
      BY TimerManagerAssumption DEF TypeOK
    <2> QED
      BY <1>1, <2>1, TicksRange
  <1>3. Timeout(cmd.duration) \in Nat
    BY <1>2, ModRange, TimerManagerAssumption DEF Timeout
  <1> QED
    BY <1>3 DEF Updated, Commands, TimerStates

\* The first of the postponed expiries and the others.
LEMMA HeadTailTyped ==
  ASSUME NEW q \in Seq(Timers \X Nat), q # <<>>
  PROVE  /\ Head(q) \in Timers \X Nat /\ Head(q)[1] \in Timers /\ Head(q)[2] \in Nat
         /\ Head(q) = <<Head(q)[1], Head(q)[2]>>
         /\ Head(q) = q[1] /\ 1 \in DOMAIN q
         /\ Tail(q) \in Seq(Timers \X Nat)
         /\ \A i \in DOMAIN Tail(q) : i + 1 \in DOMAIN q /\ Tail(q)[i] = q[i + 1]
  <1>1. Len(q) > 0 /\ Head(q) = q[1] /\ Head(q) \in Timers \X Nat
    OBVIOUS
  <1>2. Tail(q) \in Seq(Timers \X Nat)
    OBVIOUS
  <1>3. \A i \in DOMAIN Tail(q) : i + 1 \in DOMAIN q /\ Tail(q)[i] = q[i + 1]
    OBVIOUS
  <1> QED
    BY <1>1, <1>2, <1>3

\* The steps of tick keep the types.
LEMMA TypeTick ==
  ASSUME TypeOK, Tick
  PROVE  TypeOK'
  <1> USE DEF TypeOK, frontVars, chanVars, poolVars, backVars, execVars
  <1>1. CASE PopUpdatedTimers
    BY <1>1 DEF PopUpdatedTimers
  <1>2. ASSUME NEW t \in Timers, DeferTimeout(t)
        PROVE  tasks' \in [Timers -> SUBSET (Nat \X Nat)] /\ failures' \in Nat
    BY <1>2, SMTT(30) DEF DeferTimeout
  <1>3. DeferFails => tasks' \in [Timers -> SUBSET (Nat \X Nat)] /\ failures' \in Nat
    BY DEF DeferFails
  <1>4. CASE HandlePostponedTimeout
    <2>a. failed_to_trigger_timers \in Seq(Timers \X Nat) /\ failed_to_trigger_timers # <<>>
      BY <1>4 DEF HandlePostponedTimeout
    <2>1. Head(failed_to_trigger_timers)[1] \in Timers
          /\ Tail(failed_to_trigger_timers) \in Seq(Timers \X Nat)
      BY <2>a, HeadTailTyped
    <2> QED
      BY <1>2, <1>3, <1>4, <2>1 DEF HandlePostponedTimeout
  <1>5. CASE AdvanceTime
    <2>1. cur_time' \in 0 .. TimeModulus - 1
      BY <1>5, ModRange, TimerManagerAssumption DEF AdvanceTime, TimeAfter
    <2>2. left' \in [Timers -> Nat]
      <3>1. left' = [t \in Timers |-> IF left[t] > 0 THEN left[t] - 1 ELSE 0]
        BY <1>5 DEF AdvanceTime
      <3>2. \A t \in Timers : left[t] \in Nat
        OBVIOUS
      <3> QED
        BY <3>1, <3>2
    <2>3. todo' \subseteq Timers
      BY <1>5 DEF AdvanceTime, WheelList
    <2> QED
      BY <1>5, <2>1, <2>2, <2>3 DEF AdvanceTime
  <1>6. ASSUME NEW t \in Timers, HandleTimerUpdate(t)
        PROVE  TypeOK'
    <2>a. batch' = [batch EXCEPT ![t] = @ - 1] /\ batch[t] > 0 /\ batch[t] \in Nat
      BY <1>6 DEF HandleTimerUpdate
    <2>b. batch' \in [Timers -> Nat]
      BY <2>a
    <2>1. known' \subseteq Timers /\ pending_timers_to_create' \subseteq Timers
      BY <1>6 DEF HandleTimerUpdate
    <2>c. missed' \in BOOLEAN
      BY <1>6 DEF HandleTimerUpdate
    <2>2. read_buffer' \in [Timers -> Commands] /\ middle_buffer' \in [Timers -> Commands]
      <3>1. NoCmd \in Commands
        BY DEF NoCmd, Commands
      <3>2. read_buffer \in [Timers -> Commands] /\ middle_buffer \in [Timers -> Commands]
        OBVIOUS
      <3>3. \/ UNCHANGED <<read_buffer, middle_buffer>>
            \/ /\ read_buffer' = [read_buffer EXCEPT ![t] = NoCmd]
               /\ middle_buffer' = [middle_buffer EXCEPT ![t] = read_buffer[t]]
        BY <1>6 DEF HandleTimerUpdate, Processed
      <3> HIDE DEF TypeOK
      <3> QED
        BY <3>1, <3>2, <3>3
    <2>3. backend' \in [Timers -> [cmd_id : Nat, state : TimerStates, timeout : Nat]]
      <3>1. Updated(backend[t], middle_buffer[t])
              \in [cmd_id : Nat, state : TimerStates, timeout : Nat]
        BY TypeUpdated
      <3>2. \/ UNCHANGED backend
            \/ backend' = [backend EXCEPT ![t] = Updated(@, middle_buffer[t])]
        BY <1>6 DEF HandleTimerUpdate
      <3>3. backend \in [Timers -> [cmd_id : Nat, state : TimerStates, timeout : Nat]]
        OBVIOUS
      <3> HIDE DEF TypeOK
      <3> QED
        BY <3>1, <3>2, <3>3
    <2>4. state' \in [Timers -> TimerStates] /\ exec' \in [Timers -> BOOLEAN]
          /\ duration' \in [Timers -> Durations \cup {INVALID_DURATION}]
          /\ timer_free_list' \subseteq Timers
      BY <1>6 DEF HandleTimerUpdate, DestroyTimer, TimerStates
    <2> QED
      BY <1>6, <2>b, <2>1, <2>c, <2>2, <2>3, <2>4 DEF HandleTimerUpdate
  <1>7. ASSUME NEW t \in Timers, ExpireTimer(t)
        PROVE  TypeOK'
    <2>1. backend' \in [Timers -> [cmd_id : Nat, state : TimerStates, timeout : Nat]]
      <3>1. UNCHANGED backend \/ backend' = [backend EXCEPT ![t].state = "expired"]
        BY <1>7 DEF ExpireTimer
      <3>2. backend \in [Timers -> [cmd_id : Nat, state : TimerStates, timeout : Nat]]
        OBVIOUS
      <3> HIDE DEF TypeOK
      <3> QED
        BY <3>1, <3>2 DEF TimerStates
    <2>2. failed_to_trigger_timers' \in Seq(Timers \X Nat)
      <3>1. <<t, backend[t].cmd_id>> \in Timers \X Nat
        OBVIOUS
      <3>2. \/ UNCHANGED failed_to_trigger_timers
            \/ failed_to_trigger_timers' =
                 Append(failed_to_trigger_timers, <<t, backend[t].cmd_id>>)
        BY <1>7 DEF ExpireTimer
      <3>3. failed_to_trigger_timers \in Seq(Timers \X Nat)
        OBVIOUS
      <3> HIDE DEF TypeOK
      <3>4. Append(failed_to_trigger_timers, <<t, backend[t].cmd_id>>) \in Seq(Timers \X Nat)
        BY <3>1, <3>3, AppendProperties
      <3> QED
        BY <3>2, <3>3, <3>4
    <2> QED
      BY <1>2, <1>3, <1>7, <2>1, <2>2 DEF ExpireTimer
  <1> QED
    BY <1>1, <1>4, <1>5, <1>6, <1>7 DEF Tick

\* Every step keeps the types.
LEMMA TypeStep == TypeOK /\ [Next]_vars => TypeOK'
  <1> SUFFICES ASSUME TypeOK, [Next]_vars PROVE TypeOK'
    OBVIOUS
  <1>1. CASE UNCHANGED vars
    BY <1>1 DEF vars, frontVars, chanVars, poolVars, backVars, execVars, TypeOK
  <1> QED
    BY <1>1, TypeOwner, TypeChannel, TypeTick DEF Next

-----------------------------------------------------------------------------
(* What a step leaves alone.                                               *)

\* The step leaves the owner's view of the timer alone.
SameFront(u) ==
  /\ valid'[u] = valid[u] /\ state'[u] = state[u] /\ duration'[u] = duration[u]
  /\ push_pc'[u] = push_pc[u] /\ owner'[u] = owner[u] /\ left'[u] = left[u]
  /\ cmd_id'[u] = cmd_id[u] /\ write_buffer'[u] = write_buffer[u]

\* The step leaves the back-end's view of the timer alone.
SameBack(u) ==
  /\ middle_buffer'[u] = middle_buffer[u] /\ read_buffer'[u] = read_buffer[u]
  /\ backend'[u] = backend[u] /\ tasks'[u] = tasks[u]
  /\ Postponed(u)' => Postponed(u)

\* The step leaves time and the wheel list in progress alone.
SameTime(u) == cur_time' = cur_time /\ tick_pc' = tick_pc /\ (u \in todo' <=> u \in todo)

\* The step leaves the place of the timer alone.
SamePlace(u) == (Created(u)' <=> Created(u)) /\ (u \in timer_free_list' <=> u \in timer_free_list)

\* The types of what belongs to one timer.
LEMMA TypeAt ==
  ASSUME TypeOK, NEW u \in Timers
  PROVE  /\ valid[u] \in BOOLEAN /\ state[u] \in TimerStates
         /\ duration[u] \in Durations \cup {INVALID_DURATION}
         /\ push_pc[u] \in {"idle", "exchange", "notify"}
         /\ owner[u] \in Nat /\ left[u] \in Nat /\ cmd_id[u] \in Nat
         /\ signals[u] \in Nat /\ batch[u] \in Nat
         /\ write_buffer[u] \in Commands /\ middle_buffer[u] \in Commands
         /\ read_buffer[u] \in Commands
         /\ backend[u] \in [cmd_id : Nat, state : TimerStates, timeout : Nat]
         /\ tasks[u] \in SUBSET (Nat \X Nat)
  BY DEF TypeOK

\* The fields of a command and of the back-end's record.
LEMMA FieldTypes ==
  /\ \A c \in Commands : /\ c.pending \in BOOLEAN /\ c.cmd_id \in Nat
                         /\ c.action \in {"none", "start", "stop", "create", "destroy"}
                         /\ c.duration \in Durations \cup {0}
  /\ \A b \in [cmd_id : Nat, state : TimerStates, timeout : Nat] :
       b.cmd_id \in Nat /\ b.state \in TimerStates /\ b.timeout \in Nat
  BY DEF Commands

\* The postponed expiries are pairs of a timer and a command.
LEMMA EntryTypes ==
  ASSUME TypeOK
  PROVE  \A i \in DOMAIN failed_to_trigger_timers :
           /\ failed_to_trigger_timers[i][1] \in Timers /\ failed_to_trigger_timers[i][2] \in Nat
           /\ failed_to_trigger_timers[i] =
                <<failed_to_trigger_timers[i][1], failed_to_trigger_timers[i][2]>>
  <1>1. failed_to_trigger_timers \in Seq(Timers \X Nat)
    BY DEF TypeOK
  <1>2. \A i \in DOMAIN failed_to_trigger_timers : failed_to_trigger_timers[i] \in Timers \X Nat
    BY <1>1
  <1> QED
    BY <1>2

\* Nothing that concerns a timer changes.
LEMMA SameKeeps ==
  ASSUME NEW u \in Timers, TimerInv(u), SameFront(u), SameBack(u), SameTime(u), SamePlace(u)
  PROVE  TimerInv(u)'
  <1> USE DEF SameFront, SameBack, SameTime, SamePlace, TimerInv
  <1>1. (UpToDate(u)' <=> UpToDate(u)) /\ (Waiting(u)' <=> Waiting(u)) /\ LastCmd(u)' = LastCmd(u)
    BY DEF UpToDate, Waiting, LastCmd
  <1>2. (Dispatched(u)' <=> Dispatched(u)) /\ (Postponed(u)' => Postponed(u))
    BY DEF Dispatched
  <1>3. PoolInv(u)'
    BY <1>1 DEF PoolInv
  <1>4. ChannelInv(u)'
    BY <1>1 DEF ChannelInv
  <1>5. CommandInv(u)'
    BY <1>1 DEF CommandInv
  <1>6. ExpiryInv(u)'
    BY <1>1, <1>2 DEF ExpiryInv
  <1>7. WheelInv(u)'
    BY <1>1 DEF WheelInv
  <1> QED
    BY <1>3, <1>4, <1>5, <1>6, <1>7

\* The owner gives a command: older commands and expiries are void.
LEMMA PushKeeps ==
  ASSUME TypeOK, TypeOK', NEW t \in Timers, TimerInv(t), PostponedInv,
         valid[t] \/ owner[t] = 0,
         NEW a \in {"start", "stop", "create", "destroy"}, NEW d \in Durations \cup {0},
         StartPush(t, a, d), SameTime(t),
         backend'[t] = backend[t], tasks'[t] = tasks[t],
         UNCHANGED failed_to_trigger_timers,
         Created(t)', owner'[t] > 0, t \notin timer_free_list',
         a = "create" => cmd_id[t] = 0, a = "destroy" <=> ~valid'[t],
         a = "start" <=> state'[t] = "running", a = "start" => left'[t] = Ticks(d),
         ~valid'[t] => state'[t] = "stopped"
  PROVE  TimerInv(t)'
  <1> USE DEF TimerInv
  <1>1. /\ push_pc[t] = "idle" /\ push_pc'[t] = "exchange" /\ cmd_id'[t] = cmd_id[t] + 1
        /\ write_buffer'[t] = [pending |-> TRUE, cmd_id |-> cmd_id[t] + 1, action |-> a, duration |-> d]
        /\ middle_buffer'[t] = middle_buffer[t] /\ read_buffer'[t] = read_buffer[t]
    BY DEF StartPush, TypeOK
  <1>2. /\ write_buffer'[t].pending /\ write_buffer'[t].cmd_id = cmd_id[t] + 1
        /\ write_buffer'[t].action = a /\ write_buffer'[t].duration = d
    BY <1>1
  <1>3. /\ cmd_id[t] \in Nat /\ backend[t].cmd_id \in Nat /\ middle_buffer[t].cmd_id \in Nat
        /\ owner'[t] \in Nat /\ Ticks(d) \in Nat /\ valid'[t] \in BOOLEAN
    BY TypeAt, FieldTypes, TicksRange DEF TypeOK
  <1>4. ~UpToDate(t)' /\ LastCmd(t)' = write_buffer'[t] /\ (Waiting(t)' <=> Waiting(t))
    BY <1>1 DEF UpToDate, LastCmd, Waiting
  <1>5. PoolInv(t)'
    BY <1>1, <1>3, <1>4 DEF PoolInv
  <1>6. ChannelInv(t)'
    BY <1>1, <1>2, <1>3, <1>4 DEF ChannelInv, UpToDate
  <1>7. CommandInv(t)'
    <2>1. Waiting(t) => middle_buffer[t].action # "destroy"
      BY <1>1 DEF CommandInv, PoolInv, LastCmd, UpToDate
    <2> QED
      BY <1>1, <1>2, <1>3, <1>4, <2>1 DEF CommandInv
  <1>8. \A task \in tasks[t] : task[1] \in Nat /\ task[1] < cmd_id'[t]
    BY <1>1, <1>3, TypeAt DEF ExpiryInv, ChannelInv
  <1>9. ~Postponed(t)'
    <2>1. \A i \in DOMAIN failed_to_trigger_timers :
            failed_to_trigger_timers[i][1] = t => failed_to_trigger_timers[i][2] <= backend[t].cmd_id
      BY DEF PostponedInv
    <2>2. ~(cmd_id'[t] <= backend[t].cmd_id)
      BY <1>1, <1>3 DEF ChannelInv
    <2> QED
      BY <2>1, <2>2 DEF Postponed
  <1>10. ExpiryInv(t)'
    <2>1. \A task \in tasks[t] : task[1] <= backend[t].cmd_id /\ task[1] # cmd_id'[t]
      BY <1>8, <1>3, <1>1 DEF ExpiryInv
    <2> QED
      BY <1>4, <1>9, <2>1 DEF ExpiryInv
  <1>11. WheelInv(t)'
    BY <1>4 DEF WheelInv
  <1> QED
    BY <1>5, <1>6, <1>7, <1>10, <1>11

-----------------------------------------------------------------------------
(* The owner of a timer.                                                   *)

\* A step of the owner concerns one timer and leaves the back-end alone.
LEMMA FrontStep ==
  ASSUME IInv, TypeOK', NEW t \in Timers, TimerInv(t)', UNCHANGED <<backVars, execVars>>,
         UNCHANGED <<middle_buffer, read_buffer, signals>>,
         push_pc'[t] = "notify" <=> push_pc[t] = "notify",
         \A u \in Timers \ {t} : SameFront(u) /\ SamePlace(u)
  PROVE  IInv'
  <1> USE DEF backVars, execVars
  <1>1. \A u \in Timers \ {t} : SameBack(u) /\ SameTime(u)
    BY DEF SameBack, SameTime, SameFront, Postponed
  <1>2. \A u \in Timers : TimerInv(u)'
    BY <1>1, SameKeeps DEF IInv
  <1>3. SignalPerCommand'
    <2>1. \A u \in Timers : push_pc'[u] = "notify" <=> push_pc[u] = "notify"
      BY DEF SameFront
    <2> QED
      BY <2>1 DEF SignalPerCommand, IInv, One
  <1>4. TickPhases' /\ NoUpdateIsMissed' /\ PostponedInv'
    BY DEF TickPhases, NoUpdateIsMissed, PostponedInv, IInv
  <1> QED
    BY <1>2, <1>3, <1>4 DEF IInv

\* A push that leaves the pool alone.
LEMMA PushStep ==
  ASSUME IInv, TypeOK', NEW t \in Timers, valid[t], NEW a \in {"start", "stop", "destroy"},
         NEW d \in Durations \cup {0}, StartPush(t, a, d),
         UNCHANGED <<poolVars, backVars, execVars, owner>>,
         \A u \in Timers \ {t} : /\ valid'[u] = valid[u] /\ state'[u] = state[u]
                                 /\ duration'[u] = duration[u] /\ left'[u] = left[u],
         a = "destroy" <=> ~valid'[t],
         a = "start" <=> state'[t] = "running", a = "start" => left'[t] = Ticks(d),
         ~valid'[t] => state'[t] = "stopped"
  PROVE  IInv'
  <1>1. TypeOK /\ PostponedInv /\ TimerInv(t)
    BY DEF IInv
  <1>2. owner'[t] > 0 /\ t \notin timer_free_list' /\ Created(t)'
    BY <1>1 DEF TimerInv, PoolInv, Created, poolVars
  <1>3. backend'[t] = backend[t] /\ tasks'[t] = tasks[t] /\ UNCHANGED failed_to_trigger_timers
        /\ SameTime(t)
    BY DEF backVars, execVars, SameTime
  <1>4. TimerInv(t)'
    BY <1>1, <1>2, <1>3, PushKeeps
  <1>5. \A u \in Timers \ {t} : SameFront(u) /\ SamePlace(u)
    BY <1>1 DEF SameFront, SamePlace, Created, poolVars, StartPush, TypeOK
  <1>6. push_pc[t] = "idle" /\ push_pc'[t] = "exchange"
        /\ UNCHANGED <<middle_buffer, read_buffer, signals>>
    BY <1>1 DEF StartPush, TypeOK
  <1> QED
    BY <1>4, <1>5, <1>6, FrontStep

\* Taking a timer from the pool.
LEMMA CreateCachedStep ==
  ASSUME IInv, TypeOK', NEW t \in Timers, CreateCachedTimer(t)
  PROVE  IInv'
  <1>1. TypeOK /\ TimerInv(t)
    BY DEF IInv
  <1>2. /\ valid'[t] /\ t \notin timer_free_list' /\ owner'[t] = owner[t] + 1
        /\ state'[t] = state[t] /\ duration'[t] = duration[t] /\ push_pc'[t] = push_pc[t]
        /\ left'[t] = left[t] /\ UNCHANGED <<chanVars, backVars, execVars>>
        /\ UNCHANGED <<known, pending_timers_to_create>>
    BY <1>1 DEF CreateCachedTimer, TypeOK
  <1>3. /\ cmd_id'[t] = cmd_id[t] /\ write_buffer'[t] = write_buffer[t]
        /\ UNCHANGED <<middle_buffer, read_buffer, signals>> /\ SameBack(t) /\ SameTime(t)
    BY <1>2 DEF chanVars, backVars, execVars, SameBack, SameTime, Postponed
  <1>4. t \in timer_free_list /\ ~valid[t] /\ state[t] = "stopped" /\ owner[t] \in Nat
    BY <1>1, TypeAt DEF TimerInv, PoolInv, CreateCachedTimer
  <1>5. Created(t) /\ Created(t)' /\ UpToDate(t) /\ UpToDate(t)' /\ ~Waiting(t)'
    BY <1>1, <1>2, <1>3, <1>4 DEF TimerInv, PoolInv, Created, SameBack, UpToDate, Waiting
  <1>6. PoolInv(t)'
    BY <1>2, <1>4, <1>5 DEF PoolInv
  <1>7. ChannelInv(t)'
    BY <1>1, <1>2, <1>3, <1>5, <1>4 DEF TimerInv, ChannelInv, SameBack, UpToDate
  <1>8. CommandInv(t)'
    BY <1>1, <1>2, <1>3, <1>4, <1>5 DEF TimerInv, CommandInv, PoolInv
  <1>9. ExpiryInv(t)'
    <2>1. ~Postponed(t)' /\ \A task \in tasks[t] : task[1] # cmd_id[t]
      BY <1>1, <1>3, <1>4 DEF TimerInv, ExpiryInv, SameBack
    <2>2. backend[t].state # "running"
      BY <1>1, <1>4, <1>5 DEF TimerInv, ExpiryInv
    <2> QED
      BY <1>1, <1>3, <2>1, <2>2 DEF TimerInv, ExpiryInv, SameBack
  <1>10. WheelInv(t)'
    <2>1. backend[t].state # "running"
      BY <1>1, <1>4, <1>5 DEF TimerInv, ExpiryInv
    <2> QED
      BY <1>3, <2>1 DEF WheelInv, SameBack
  <1>11. TimerInv(t)'
    BY <1>6, <1>7, <1>8, <1>9, <1>10 DEF TimerInv
  <1>12. \A u \in Timers \ {t} : SameFront(u) /\ SamePlace(u)
    BY <1>1 DEF CreateCachedTimer, SameFront, SamePlace, Created, TypeOK, chanVars
  <1> QED
    BY <1>2, <1>3, <1>11, <1>12, FrontStep

\* A timer with a new id.
LEMMA CreateStep ==
  ASSUME IInv, TypeOK', NEW t \in Timers, CreateTimer(t)
  PROVE  IInv'
  <1>1. TypeOK /\ TimerInv(t) /\ PostponedInv
    BY DEF IInv
  <1>2. /\ valid'[t] /\ owner'[t] = 1 /\ t \notin timer_free_list' /\ Created(t)'
        /\ state'[t] = state[t] /\ owner[t] = 0 /\ StartPush(t, "create", 0)
        /\ UNCHANGED <<backVars, execVars>>
    BY <1>1 DEF CreateTimer, TypeOK, Created, PendingTimer
  <1>3. backend'[t] = backend[t] /\ tasks'[t] = tasks[t] /\ UNCHANGED failed_to_trigger_timers
        /\ SameTime(t)
    BY <1>2 DEF backVars, execVars, SameTime
  <1>4. cmd_id[t] = 0 /\ state'[t] = "stopped"
    BY <1>1, <1>2 DEF TimerInv, PoolInv
  <1>5. TimerInv(t)'
    BY <1>1, <1>2, <1>3, <1>4, PushKeeps
  <1>6. \A u \in Timers \ {t} : SameFront(u) /\ SamePlace(u)
    BY <1>1 DEF CreateTimer, PendingTimer, StartPush, SameFront, SamePlace, Created, TypeOK
  <1>7. push_pc[t] = "idle" /\ push_pc'[t] = "exchange"
        /\ UNCHANGED <<middle_buffer, read_buffer, signals>>
    BY <1>1, <1>2 DEF StartPush, TypeOK
  <1> QED
    BY <1>2, <1>5, <1>6, <1>7, FrontStep

\* run, stop, reset and set of a unique_timer.
LEMMA CommandStep ==
  ASSUME IInv, TypeOK', NEW t \in Timers,
         Run(t) \/ Stop(t) \/ Reset(t) \/ (\E d \in Durations : Set(t, d))
  PROVE  IInv'
  <1>1. TypeOK /\ TimerInv(t) /\ valid[t] \in BOOLEAN
    BY TypeAt DEF IInv
  <1>2. ASSUME NEW d \in Durations, Begin(t, d), valid[t], UNCHANGED <<valid, owner>>,
               UNCHANGED <<poolVars, backVars, execVars>>,
               \A u \in Timers \ {t} : duration'[u] = duration[u]
        PROVE  IInv'
    <2>1. /\ state'[t] = "running" /\ left'[t] = Ticks(d) /\ StartPush(t, "start", d) /\ valid'[t]
          /\ \A u \in Timers \ {t} : valid'[u] = valid[u] /\ state'[u] = state[u] /\ left'[u] = left[u]
      BY <1>1, <1>2 DEF Begin, TypeOK
    <2> QED
      BY <1>2, <2>1, PushStep
  <1>3. CASE Run(t)
    BY <1>1, <1>2, <1>3 DEF Run, TypeOK
  <1>4. CASE Stop(t)
    <2>1. /\ state'[t] = "stopped" /\ StartPush(t, "stop", 0) /\ valid'[t] /\ valid[t]
          /\ \A u \in Timers \ {t} : /\ valid'[u] = valid[u] /\ state'[u] = state[u]
                                     /\ left'[u] = left[u] /\ duration'[u] = duration[u]
      BY <1>1, <1>4 DEF Stop, TypeOK
    <2> QED
      BY <1>4, <2>1, PushStep DEF Stop
  <1>5. CASE Reset(t)
    <2>1. /\ state'[t] = "stopped" /\ StartPush(t, "destroy", 0) /\ ~valid'[t] /\ valid[t]
          /\ \A u \in Timers \ {t} : /\ valid'[u] = valid[u] /\ state'[u] = state[u]
                                     /\ left'[u] = left[u] /\ duration'[u] = duration[u]
      BY <1>1, <1>5 DEF Reset, TypeOK
    <2> QED
      BY <1>5, <2>1, PushStep DEF Reset
  <1>6. ASSUME NEW d \in Durations, Set(t, d)
        PROVE  IInv'
    <2>1. /\ valid[t] /\ UNCHANGED <<valid, owner>> /\ UNCHANGED <<poolVars, backVars, execVars>>
          /\ \A u \in Timers \ {t} : duration'[u] = duration[u]
      BY <1>1, <1>6 DEF Set, TypeOK
    <2>2. CASE Begin(t, d)
      BY <1>2, <2>1, <2>2
    <2>3. CASE UNCHANGED <<state, left, push_pc, chanVars>>
      <3>1. \A u \in Timers : SameBack(u) /\ SameTime(u) /\ SamePlace(u)
        BY <2>1, <2>3 DEF SameBack, SameTime, SamePlace, Created, Postponed, chanVars, backVars,
           execVars, poolVars
      <3>2. \A u \in Timers \ {t} : SameFront(u)
        BY <2>1, <2>3 DEF SameFront, chanVars
      <3>3. /\ valid'[t] = valid[t] /\ state'[t] = state[t] /\ push_pc'[t] = push_pc[t]
            /\ owner'[t] = owner[t] /\ left'[t] = left[t] /\ cmd_id'[t] = cmd_id[t]
            /\ write_buffer'[t] = write_buffer[t] /\ UNCHANGED <<middle_buffer, read_buffer, signals>>
        BY <2>1, <2>3 DEF chanVars
      <3>4. (UpToDate(t)' <=> UpToDate(t)) /\ (Waiting(t)' <=> Waiting(t)) /\ LastCmd(t)' = LastCmd(t)
        BY <3>3 DEF UpToDate, Waiting, LastCmd
      <3>5. PoolInv(t)'
        BY <1>1, <2>1, <3>1, <3>3, <3>4 DEF TimerInv, PoolInv, SamePlace
      <3>6. ChannelInv(t)' /\ CommandInv(t)'
        BY <1>1, <3>1, <3>3, <3>4 DEF TimerInv, ChannelInv, CommandInv, SamePlace, SameBack
      <3>7. ExpiryInv(t)'
        BY <1>1, <3>1, <3>3, <3>4 DEF TimerInv, ExpiryInv, SameBack, Dispatched
      <3>8. WheelInv(t)'
        BY <1>1, <3>1, <3>3, <3>4 DEF TimerInv, WheelInv, SameBack, SameTime
      <3>9. TimerInv(t)'
        BY <3>5, <3>6, <3>7, <3>8 DEF TimerInv
      <3> QED
        BY <2>1, <3>1, <3>2, <3>3, <3>9, FrontStep
    <2> QED
      BY <1>6, <2>2, <2>3 DEF Set
  <1> QED
    BY <1>3, <1>4, <1>5, <1>6

-----------------------------------------------------------------------------
(* The exchange of buffers, the signal and the task of an expiry.          *)

\* The last command of the owner reaches the middle buffer.
LEMMA ExchangeStep ==
  ASSUME IInv, TypeOK', NEW t \in Timers, PushExchange(t)
  PROVE  IInv'
  <1> USE DEF frontVars, chanVars, poolVars, backVars, execVars
  <1>1. TypeOK /\ TimerInv(t) /\ SignalPerCommand
    BY DEF IInv
  <1>2. /\ push_pc[t] = "exchange" /\ write_buffer'[t] = middle_buffer[t]
        /\ middle_buffer'[t] = write_buffer[t]
        /\ push_pc'[t] = IF ~middle_buffer[t].pending THEN "notify" ELSE "idle"
        /\ UNCHANGED <<valid, state, duration, owner, left, cmd_id, read_buffer, signals,
                       poolVars, backVars, execVars>>
    BY <1>1 DEF PushExchange, NeedsSignal, TypeOK
  <1>3. \A u \in Timers \ {t} : SameFront(u) /\ SameBack(u) /\ SameTime(u) /\ SamePlace(u)
    BY <1>1 DEF PushExchange, SameFront, SameBack, SameTime, SamePlace, Created, Postponed, TypeOK
  <1>4. /\ write_buffer[t].pending /\ write_buffer[t].cmd_id = cmd_id[t] /\ ~UpToDate(t)
        /\ backend[t].cmd_id < cmd_id[t] /\ backend[t].cmd_id \in Nat /\ cmd_id[t] \in Nat
    <2>1. backend[t].cmd_id \in Nat /\ cmd_id[t] \in Nat
      BY <1>1, TypeAt, FieldTypes
    <2> QED
      BY <1>1, <1>2, <2>1 DEF TimerInv, ChannelInv, UpToDate
  <1>5. Waiting(t)' /\ ~UpToDate(t)' /\ LastCmd(t)' = write_buffer[t] /\ LastCmd(t) = write_buffer[t]
        /\ push_pc'[t] # "exchange"
    BY <1>2, <1>4 DEF Waiting, UpToDate, LastCmd
  <1>6. t \notin timer_free_list /\ owner[t] # 0
    BY <1>1, <1>2 DEF TimerInv, PoolInv
  <1>7. PoolInv(t)'
    BY <1>1, <1>2, <1>6 DEF TimerInv, PoolInv, Created
  <1>8. ChannelInv(t)'
    BY <1>1, <1>2, <1>4, <1>5 DEF TimerInv, ChannelInv
  <1>9. CommandInv(t)'
    BY <1>1, <1>2, <1>4, <1>5 DEF TimerInv, CommandInv
  <1>10. ExpiryInv(t)'
    BY <1>1, <1>2, <1>5 DEF TimerInv, ExpiryInv, Postponed, Dispatched
  <1>11. WheelInv(t)'
    BY <1>5 DEF WheelInv
  <1>12. \A u \in Timers : TimerInv(u)'
    BY <1>3, <1>7, <1>8, <1>9, <1>10, <1>11, SameKeeps DEF IInv, TimerInv
  <1>13. SignalPerCommand'
    <2> SUFFICES ASSUME NEW u \in Timers
                 PROVE  One(middle_buffer[u].pending)' =
                          (signals[u] + batch[u] + One(push_pc[u] = "notify"))'
      BY DEF SignalPerCommand
    <2>1. signals[u] \in Nat /\ batch[u] \in Nat /\ middle_buffer[u].pending \in BOOLEAN
      BY <1>1, TypeAt, FieldTypes
    <2>2. One(middle_buffer[u].pending) = signals[u] + batch[u] + One(push_pc[u] = "notify")
      BY <1>1 DEF SignalPerCommand
    <2>3. CASE u = t
      BY <1>2, <1>4, <2>1, <2>2, <2>3 DEF One
    <2>4. CASE u # t
      BY <1>2, <1>3, <2>2, <2>4 DEF One, SameFront, SameBack
    <2> QED
      BY <2>3, <2>4
  <1>14. TickPhases' /\ NoUpdateIsMissed' /\ PostponedInv'
    BY <1>2 DEF TickPhases, NoUpdateIsMissed, PostponedInv, IInv
  <1> QED
    BY <1>12, <1>13, <1>14 DEF IInv

\* The id is put into the queue.
LEMMA NotifyStep ==
  ASSUME IInv, TypeOK', NEW t \in Timers, NotifyTimerUpdate(t)
  PROVE  IInv'
  <1> USE DEF frontVars, chanVars, poolVars, backVars, execVars
  <1>1. TypeOK /\ TimerInv(t) /\ SignalPerCommand
    BY DEF IInv
  <1>2. /\ push_pc[t] = "notify" /\ push_pc'[t] = "idle" /\ signals'[t] = signals[t] + 1
        /\ \A u \in Timers \ {t} : push_pc'[u] = push_pc[u] /\ signals'[u] = signals[u]
        /\ UNCHANGED <<valid, state, duration, owner, left, cmd_id, write_buffer, middle_buffer,
                       read_buffer, poolVars, backVars, execVars>>
    BY <1>1 DEF NotifyTimerUpdate, TypeOK
  <1>3. \A u \in Timers \ {t} : SameFront(u) /\ SameBack(u) /\ SameTime(u) /\ SamePlace(u)
    BY <1>2 DEF SameFront, SameBack, SameTime, SamePlace, Created, Postponed
  <1>4. (UpToDate(t)' <=> UpToDate(t)) /\ (Waiting(t)' <=> Waiting(t)) /\ LastCmd(t)' = LastCmd(t)
    BY <1>2 DEF UpToDate, Waiting, LastCmd
  <1>5. PoolInv(t)' /\ ChannelInv(t)' /\ CommandInv(t)'
    BY <1>1, <1>2, <1>4 DEF TimerInv, PoolInv, ChannelInv, CommandInv, Created
  <1>6. ExpiryInv(t)' /\ WheelInv(t)'
    BY <1>1, <1>2, <1>4 DEF TimerInv, ExpiryInv, WheelInv, Dispatched, Postponed
  <1>7. \A u \in Timers : TimerInv(u)'
    BY <1>3, <1>5, <1>6, SameKeeps DEF IInv, TimerInv
  <1>8. SignalPerCommand'
    <2> SUFFICES ASSUME NEW u \in Timers
                 PROVE  One(middle_buffer[u].pending)' =
                          (signals[u] + batch[u] + One(push_pc[u] = "notify"))'
      BY DEF SignalPerCommand
    <2>1. signals[u] \in Nat /\ batch[u] \in Nat
      BY <1>1, TypeAt
    <2>2. One(middle_buffer[u].pending) = signals[u] + batch[u] + One(push_pc[u] = "notify")
      BY <1>1 DEF SignalPerCommand
    <2> QED
      BY <1>2, <2>1, <2>2 DEF One
  <1>9. TickPhases' /\ NoUpdateIsMissed' /\ PostponedInv'
    BY <1>2 DEF TickPhases, NoUpdateIsMissed, PostponedInv, IInv
  <1> QED
    BY <1>7, <1>8, <1>9 DEF IInv

\* The task of an expiry of the current run ends the run; no other is under way.
LEMMA TimeoutStep ==
  ASSUME IInv, TypeOK', NEW t \in Timers, RunTimeout(t)
  PROVE  IInv'
  <1> USE DEF frontVars, chanVars, poolVars, backVars, execVars
  <1>1. TypeOK /\ TimerInv(t) /\ SignalPerCommand
    BY DEF IInv
  <1>2. PICK task \in tasks[t] :
          /\ tasks' = [tasks EXCEPT ![t] = @ \ {task}]
          /\ state' = [state EXCEPT ![t] = IF SameEpoch(t, task[1]) THEN "expired" ELSE @]
          /\ UNCHANGED <<valid, exec, duration, push_pc, owner, left, chanVars, poolVars,
                         backVars, failures>>
    BY DEF RunTimeout
  <1>3. /\ tasks'[t] = tasks[t] \ {task}
        /\ state'[t] = IF cmd_id[t] = task[1] THEN "expired" ELSE state[t]
        /\ \A u \in Timers \ {t} : tasks'[u] = tasks[u] /\ state'[u] = state[u]
    BY <1>1, <1>2 DEF TypeOK, SameEpoch
  <1>4. \A u \in Timers \ {t} : SameFront(u) /\ SameBack(u) /\ SameTime(u) /\ SamePlace(u)
    BY <1>2, <1>3 DEF SameFront, SameBack, SameTime, SamePlace, Created, Postponed
  <1>5. (UpToDate(t)' <=> UpToDate(t)) /\ (Waiting(t)' <=> Waiting(t)) /\ LastCmd(t)' = LastCmd(t)
    BY <1>2 DEF UpToDate, Waiting, LastCmd
  <1>6. CASE cmd_id[t] # task[1]
    <2>1. PoolInv(t)' /\ ChannelInv(t)' /\ CommandInv(t)'
      BY <1>1, <1>2, <1>3, <1>5, <1>6 DEF TimerInv, PoolInv, ChannelInv, CommandInv, Created
    <2>2. ExpiryInv(t)' /\ WheelInv(t)'
      BY <1>1, <1>2, <1>3, <1>5, <1>6 DEF TimerInv, ExpiryInv, WheelInv, Dispatched, Postponed
    <2> QED
      BY <2>1, <2>2, <1>4, SameKeeps, <1>2 DEF IInv, TimerInv, TickPhases, SignalPerCommand,
         NoUpdateIsMissed, PostponedInv
  <1>7. CASE cmd_id[t] = task[1]
    <2>1. state[t] = "running" /\ task[2] = owner[t] /\ backend[t].state = "expired"
      BY <1>1, <1>7 DEF TimerInv, ExpiryInv
    <2>2. valid[t]
      BY <1>1, <2>1, TypeAt DEF TimerInv, PoolInv
    <2>3. UpToDate(t)
      <3>1. task[1] <= backend[t].cmd_id /\ backend[t].cmd_id <= cmd_id[t]
        BY <1>1 DEF TimerInv, ExpiryInv, ChannelInv
      <3>2. backend[t].cmd_id \in Nat /\ cmd_id[t] \in Nat
        BY <1>1, TypeAt, FieldTypes
      <3> QED
        BY <1>1, <1>7, <3>1, <3>2 DEF TimerInv, ChannelInv
    <2>4. \A other \in tasks[t] \ {task} : other[1] # cmd_id[t]
      <3> SUFFICES ASSUME NEW other \in tasks[t], other[1] = cmd_id[t]
                   PROVE  other = task
        OBVIOUS
      <3>1. other[2] = owner[t]
        BY <1>1 DEF TimerInv, ExpiryInv
      <3>2. other \in Nat \X Nat /\ task \in Nat \X Nat
        BY <1>1, TypeAt
      <3> QED
        BY <1>7, <2>1, <3>1, <3>2
    <2>5. ~Postponed(t)
      BY <1>1, <1>7 DEF TimerInv, ExpiryInv, Dispatched
    <2>6. PoolInv(t)' /\ ChannelInv(t)'
      BY <1>1, <1>2, <1>3, <1>5, <2>2 DEF TimerInv, PoolInv, ChannelInv, Created
    <2>7. CommandInv(t)'
      BY <1>1, <1>2, <1>5, <2>3 DEF TimerInv, CommandInv, UpToDate
    <2>8. ~Postponed(t)'
      BY <1>2, <2>5 DEF Postponed
    <2>9. ExpiryInv(t)'
      BY <1>1, <1>2, <1>3, <2>1, <2>4, <2>8 DEF TimerInv, ExpiryInv
    <2>10. WheelInv(t)'
      BY <1>2, <2>1 DEF WheelInv
    <2> QED
      BY <2>6, <2>7, <2>9, <2>10, <1>4, SameKeeps, <1>2 DEF IInv, TimerInv, TickPhases,
         SignalPerCommand, NoUpdateIsMissed, PostponedInv
  <1> QED
    BY <1>6, <1>7

-----------------------------------------------------------------------------
(* The steps of tick.                                                      *)

\* The back-end takes the ids queued so far.
LEMMA PopStep ==
  ASSUME IInv, TypeOK', PopUpdatedTimers
  PROVE  IInv'
  <1> USE DEF frontVars, chanVars, poolVars, backVars, execVars
  <1>1. TypeOK /\ TickPhases /\ SignalPerCommand
    BY DEF IInv
  <1>2. /\ tick_pc = "expire" /\ tick_pc' = "commands" /\ todo = {} /\ batch' = signals
        /\ \A u \in Timers : signals'[u] = 0
        /\ UNCHANGED <<frontVars, cmd_id, write_buffer, middle_buffer, read_buffer, poolVars,
                       backend, failed_to_trigger_timers, cur_time, todo, missed, execVars>>
    BY DEF PopUpdatedTimers
  <1>3. ASSUME NEW u \in Timers
        PROVE  TimerInv(u)'
    <2>1. TimerInv(u)
      BY DEF IInv
    <2>2. (UpToDate(u)' <=> UpToDate(u)) /\ (Waiting(u)' <=> Waiting(u)) /\ LastCmd(u)' = LastCmd(u)
      BY <1>2 DEF UpToDate, Waiting, LastCmd
    <2>3. PoolInv(u)' /\ ChannelInv(u)' /\ CommandInv(u)'
      BY <1>2, <2>1, <2>2 DEF TimerInv, PoolInv, ChannelInv, CommandInv, Created
    <2>4. ExpiryInv(u)'
      BY <1>2, <2>1, <2>2 DEF TimerInv, ExpiryInv, Dispatched, Postponed
    <2>5. WheelInv(u)'
      BY <1>2, <2>1, <2>2 DEF TimerInv, WheelInv
    <2> QED
      BY <2>3, <2>4, <2>5 DEF TimerInv
  <1>4. SignalPerCommand'
    <2> SUFFICES ASSUME NEW u \in Timers
                 PROVE  One(middle_buffer[u].pending)' =
                          (signals[u] + batch[u] + One(push_pc[u] = "notify"))'
      BY DEF SignalPerCommand
    <2>1. signals[u] \in Nat /\ batch[u] = 0
      BY <1>1, <1>2, TypeAt DEF TickPhases
    <2>2. One(middle_buffer[u].pending) = signals[u] + batch[u] + One(push_pc[u] = "notify")
      BY <1>1 DEF SignalPerCommand
    <2> QED
      BY <1>2, <2>1, <2>2 DEF One
  <1>5. TickPhases' /\ NoUpdateIsMissed' /\ PostponedInv'
    BY <1>2 DEF TickPhases, NoUpdateIsMissed, PostponedInv, IInv
  <1> QED
    BY <1>3, <1>4, <1>5 DEF IInv

\* An id in the batch has a timer and a command.
LEMMA UpdateFound ==
  ASSUME IInv, NEW t \in Timers, batch[t] > 0
  PROVE  /\ Waiting(t) /\ push_pc[t] # "notify" /\ Created(t) /\ owner[t] > 0
         /\ batch[t] = 1 /\ signals[t] = 0
  <1>1. signals[t] \in Nat /\ batch[t] \in Nat /\ owner[t] \in Nat
    BY TypeAt DEF IInv
  <1>2. One(middle_buffer[t].pending) = signals[t] + batch[t] + One(push_pc[t] = "notify")
    BY DEF SignalPerCommand, IInv
  <1>3. Waiting(t) /\ push_pc[t] # "notify" /\ batch[t] = 1 /\ signals[t] = 0
    BY <1>1, <1>2 DEF One, Waiting
  <1> QED
    BY <1>1, <1>3 DEF IInv, TimerInv, PoolInv

\* A timer whose destruction is under way has no owner and is not in the pool.
LEMMA DestroyFound ==
  ASSUME IInv, NEW t \in Timers, batch[t] > 0, middle_buffer[t].action = "destroy"
  PROVE  push_pc[t] = "idle" /\ ~valid[t] /\ t \notin timer_free_list /\ state[t] = "stopped"
  <1>1. Waiting(t) /\ push_pc[t] # "notify" /\ TypeOK /\ TimerInv(t)
    BY UpdateFound DEF IInv
  <1>2. push_pc[t] = "idle" /\ ~UpToDate(t) /\ LastCmd(t) = middle_buffer[t]
    BY <1>1, TypeAt DEF TimerInv, CommandInv, UpToDate, LastCmd
  <1> QED
    BY <1>1, <1>2 DEF TimerInv, CommandInv, PoolInv

\* One id of the batch: the command is found and applied.
LEMMA UpdateStep ==
  ASSUME IInv, TypeOK', NEW t \in Timers, HandleTimerUpdate(t)
  PROVE  IInv'
  <1> USE DEF frontVars, chanVars, poolVars, backVars, execVars
  <1> DEFINE cmd == middle_buffer[t]
             b == backend[t]
  <1>1. TypeOK /\ TickPhases /\ SignalPerCommand /\ TimerInv(t)
    BY DEF IInv
  <1>2. /\ Waiting(t) /\ push_pc[t] # "notify" /\ Created(t) /\ owner[t] > 0
        /\ batch[t] = 1 /\ signals[t] = 0
    BY UpdateFound DEF HandleTimerUpdate
  <1>3. /\ tick_pc = "commands" /\ batch'[t] = 0
        /\ \A u \in Timers \ {t} : batch'[u] = batch[u]
        /\ UNCHANGED <<valid, push_pc, owner, left, cmd_id, write_buffer, signals,
                       failed_to_trigger_timers, cur_time, tick_pc, todo, execVars>>
    BY <1>1, <1>2 DEF HandleTimerUpdate, TypeOK
  <1>4. \A u \in Timers : Created(u)' <=> Created(u)
    BY DEF HandleTimerUpdate, Created
  <1>5. /\ read_buffer' = [read_buffer EXCEPT ![t] = NoCmd]
        /\ middle_buffer' = [middle_buffer EXCEPT ![t] = read_buffer[t]]
        /\ backend' = [backend EXCEPT ![t] = Updated(@, cmd)]
        /\ UNCHANGED missed
        /\ \/ cmd.action = "destroy" /\ DestroyTimer(t)
           \/ cmd.action # "destroy" /\ UNCHANGED <<state, duration, exec, timer_free_list>>
    BY <1>2 DEF HandleTimerUpdate, Waiting, Created, Processed
  <1>6. /\ read_buffer'[t] = NoCmd /\ middle_buffer'[t] = read_buffer[t]
        /\ backend'[t] = Updated(b, cmd)
        /\ \A u \in Timers \ {t} : /\ read_buffer'[u] = read_buffer[u] /\ backend'[u] = backend[u]
                                   /\ middle_buffer'[u] = middle_buffer[u]
    BY <1>1, <1>5 DEF TypeOK
  <1>7. /\ cmd.action = "destroy" => /\ state'[t] = "stopped" /\ duration'[t] = INVALID_DURATION
                                     /\ t \in timer_free_list'
        /\ cmd.action # "destroy" => /\ state'[t] = state[t] /\ duration'[t] = duration[t]
                                     /\ t \in timer_free_list' <=> t \in timer_free_list
        /\ \A u \in Timers \ {t} : /\ state'[u] = state[u] /\ duration'[u] = duration[u]
                                   /\ u \in timer_free_list' <=> u \in timer_free_list
    <2>1. state \in [Timers -> TimerStates] /\ duration \in [Timers -> Durations \cup {INVALID_DURATION}]
      BY <1>1 DEF TypeOK
    <2>2. CASE cmd.action = "destroy"
      <3>1. /\ state' = [state EXCEPT ![t] = "stopped"]
            /\ duration' = [duration EXCEPT ![t] = INVALID_DURATION]
            /\ timer_free_list' = timer_free_list \cup {t}
        BY <1>5, <2>2 DEF DestroyTimer
      <3> QED
        BY <2>1, <2>2, <3>1
    <2>3. CASE cmd.action # "destroy"
      BY <1>5, <2>3
    <2> QED
      BY <2>2, <2>3
  <1>8. /\ b \in [cmd_id : Nat, state : TimerStates, timeout : Nat] /\ cmd \in Commands
        /\ b.cmd_id \in Nat /\ cmd.cmd_id \in Nat /\ cmd_id[t] \in Nat /\ left[t] \in Nat
        /\ push_pc[t] \in {"idle", "exchange", "notify"} /\ cmd.duration \in Durations \cup {0}
    BY <1>1, TypeAt, FieldTypes
  <1>9. /\ backend'[t].cmd_id = cmd.cmd_id
        /\ cmd.action = "start" => /\ backend'[t].state = "running"
                                   /\ backend'[t].timeout = Timeout(cmd.duration)
        /\ cmd.action = "create" => backend'[t].state = b.state
        /\ cmd.action \notin {"start", "create"} => backend'[t].state # "running"
    BY <1>1, <1>6, <1>8, TypeUpdated
  <1> HIDE DEF cmd, b
  <1>10. b.cmd_id < cmd.cmd_id /\ ~UpToDate(t) /\ ~read_buffer[t].pending
         /\ (IF push_pc[t] = "exchange" THEN cmd.cmd_id < cmd_id[t] ELSE cmd.cmd_id = cmd_id[t])
    BY <1>1, <1>2 DEF TimerInv, ChannelInv, UpToDate, b, cmd
  <1>11. cmd.action = "create" => b.state = "stopped"
    BY <1>1, <1>2, <1>8, <1>10 DEF TimerInv, CommandInv, ChannelInv, b, cmd
  <1>12. cmd.action = "destroy" => /\ push_pc[t] = "idle" /\ ~valid[t] /\ t \notin timer_free_list
                                   /\ state[t] = "stopped"
    BY <1>2, DestroyFound DEF cmd
  <1>13. push_pc[t] # "exchange" =>
           /\ cmd.action = "start" <=> state[t] = "running"
           /\ cmd.action = "start" => left[t] <= Ticks(cmd.duration)
    BY <1>1, <1>10 DEF TimerInv, CommandInv, LastCmd, cmd
  <1>14. ~Waiting(t)' /\ ~read_buffer'[t].pending /\ (UpToDate(t)' <=> push_pc[t] # "exchange")
    BY <1>3, <1>6, <1>10 DEF Waiting, UpToDate, NoCmd
  <1>15. PoolInv(t)'
    BY <1>1, <1>2, <1>3, <1>4, <1>7, <1>12, <1>14 DEF TimerInv, PoolInv
  <1>16. ChannelInv(t)'
    BY <1>1, <1>3, <1>8, <1>9, <1>10, <1>14 DEF TimerInv, ChannelInv
  <1>17. state'[t] = state[t]
    BY <1>7, <1>12
  <1>18. CommandInv(t)'
    <2>1. push_pc[t] = "exchange" => /\ LastCmd(t)' = LastCmd(t)
                                     /\ t \in timer_free_list' <=> t \in timer_free_list
      BY <1>3, <1>7, <1>12 DEF LastCmd
    <2> QED
      BY <1>1, <1>3, <1>10, <1>14, <1>17, <2>1 DEF TimerInv, CommandInv
  <1>19. ExpiryInv(t)'
    <2>1. \A task \in tasks[t] : task[1] \in Nat /\ task[1] <= b.cmd_id
      BY <1>1, TypeAt DEF TimerInv, ExpiryInv, b
    <2>2. \A task \in tasks[t] : task[1] < cmd.cmd_id /\ task[1] # cmd_id[t]
      BY <1>8, <1>10, <2>1
    <2>3. ~Postponed(t)'
      <3>1. \A i \in DOMAIN failed_to_trigger_timers :
              failed_to_trigger_timers[i][1] = t => failed_to_trigger_timers[i][2] <= b.cmd_id
        BY DEF PostponedInv, IInv, b
      <3>2. ~(cmd_id[t] <= b.cmd_id)
        BY <1>8, <1>10
      <3> QED
        BY <1>3, <3>1, <3>2 DEF Postponed
    <2>4. UpToDate(t)' /\ backend'[t].state = "running" => state'[t] = "running"
      BY <1>9, <1>11, <1>13, <1>14, <1>17
    <2> QED
      BY <1>3, <1>8, <1>9, <2>1, <2>2, <2>3, <2>4 DEF ExpiryInv
  <1>20. WheelInv(t)'
    <2> SUFFICES ASSUME push_pc[t] # "exchange", backend'[t].state = "running"
                 PROVE  \E n \in 0 .. TimeModulus :
                          /\ backend'[t].timeout = (cur_time' + n) % TimeModulus
                          /\ left'[t] <= n
                          /\ n = 0 => t \in todo'
                          /\ tick_pc' = "expire" => n < TimeModulus
      BY <1>14 DEF WheelInv
    <2>1. cmd.action = "start"
      BY <1>9, <1>11
    <2>2. backend'[t].timeout = (cur_time + Ticks(cmd.duration)) % TimeModulus
      BY <1>9, <2>1 DEF Timeout
    <2>3. Ticks(cmd.duration) \in 1 .. TimeModulus /\ Ticks(cmd.duration) \in Nat
      BY <1>8, TicksRange
    <2>4. Ticks(cmd.duration) \in 0 .. TimeModulus /\ Ticks(cmd.duration) # 0
      BY <2>3, TimerManagerAssumption
    <2>5. left[t] <= Ticks(cmd.duration)
      BY <1>13, <2>1
    <2> QED
      BY <1>3, <2>2, <2>4, <2>5
  <1>21. \A u \in Timers \ {t} : SameFront(u) /\ SameBack(u) /\ SameTime(u) /\ SamePlace(u)
    BY <1>3, <1>4, <1>6, <1>7 DEF SameFront, SameBack, SameTime, SamePlace, Postponed
  <1>22. \A u \in Timers : TimerInv(u)'
    BY <1>15, <1>16, <1>18, <1>19, <1>20, <1>21, SameKeeps DEF IInv, TimerInv
  <1>23. SignalPerCommand'
    <2> SUFFICES ASSUME NEW u \in Timers
                 PROVE  One(middle_buffer[u].pending)' =
                          (signals[u] + batch[u] + One(push_pc[u] = "notify"))'
      BY DEF SignalPerCommand
    <2>1. CASE u = t
      BY <1>2, <1>3, <1>14, <2>1 DEF One, Waiting
    <2>2. CASE u # t
      <3>1. One(middle_buffer[u].pending) = signals[u] + batch[u] + One(push_pc[u] = "notify")
        BY <1>1 DEF SignalPerCommand
      <3> QED
        BY <1>3, <1>6, <2>2, <3>1 DEF One
    <2> QED
      BY <2>1, <2>2
  <1>24. TickPhases' /\ NoUpdateIsMissed'
    BY <1>1, <1>3, <1>5 DEF TickPhases, NoUpdateIsMissed, IInv
  <1>25. PostponedInv'
    <2>1. \A u \in Timers : backend[u].cmd_id <= backend'[u].cmd_id
                            /\ backend[u].cmd_id \in Nat /\ backend'[u].cmd_id \in Nat
      <3>1. \A u \in Timers : backend[u].cmd_id \in Nat /\ backend'[u].cmd_id \in Nat
        BY <1>1, TypeAt, FieldTypes DEF TypeOK
      <3>2. backend[t].cmd_id <= backend'[t].cmd_id
        BY <1>8, <1>9, <1>10 DEF b
      <3> QED
        BY <1>6, <3>1, <3>2
    <2>2. \A i \in DOMAIN failed_to_trigger_timers :
            failed_to_trigger_timers[i][1] \in Timers /\ failed_to_trigger_timers[i][2] \in Nat
      BY <1>1, EntryTypes
    <2>3. \A i \in DOMAIN failed_to_trigger_timers :
            failed_to_trigger_timers[i][2] <= backend'[failed_to_trigger_timers[i][1]].cmd_id
      BY <2>1, <2>2 DEF PostponedInv, IInv
    <2> QED
      BY <1>3, <2>3 DEF PostponedInv, IInv
  <1> QED
    BY <1>22, <1>23, <1>24, <1>25 DEF IInv

\* A postponed expiry is dispatched, refused again, or dropped.
LEMMA PostponedStep ==
  ASSUME IInv, TypeOK', HandlePostponedTimeout
  PROVE  IInv'
  <1> USE DEF frontVars, chanVars, poolVars, backVars, execVars
  <1> DEFINE q == failed_to_trigger_timers
             e == Head(q)
  <1>1. TypeOK /\ TickPhases /\ SignalPerCommand /\ PostponedInv
    BY DEF IInv
  <1>2. /\ CommandsHandled /\ q # <<>>
        /\ UNCHANGED <<frontVars, chanVars, poolVars, backend, cur_time, batch, todo, missed>>
    BY DEF HandlePostponedTimeout
  <1>3. q \in Seq(Timers \X Nat)
    BY <1>1 DEF TypeOK
  <1>4. PICK t \in Timers, epoch \in Nat : e = <<t, epoch>>
    BY <1>2, <1>3, HeadTailTyped
  <1>c. /\ e = q[1] /\ 1 \in DOMAIN q /\ e[1] = t /\ e[2] = epoch
        /\ \A i \in DOMAIN Tail(q) : i + 1 \in DOMAIN q /\ Tail(q)[i] = q[i + 1]
    BY <1>2, <1>3, <1>4, HeadTailTyped
  <1>a. DOMAIN Tail(q) \subseteq Nat \ {0}
    BY <1>2, <1>3
  <1>b. todo = {} /\ tick_pc = "commands" /\ \A u \in Timers : batch[u] = 0
    BY <1>1, <1>2 DEF CommandsHandled, TickPhases
  <1> HIDE DEF q, e
  <1>5. ASSUME NEW u \in Timers, tasks'[u] = tasks[u], Postponed(u)' => Postponed(u),
               tick_pc' # "expire"
        PROVE  TimerInv(u)'
    <2>1. TimerInv(u)
      BY DEF IInv
    <2>2. (UpToDate(u)' <=> UpToDate(u)) /\ (Waiting(u)' <=> Waiting(u)) /\ LastCmd(u)' = LastCmd(u)
      BY <1>2 DEF UpToDate, Waiting, LastCmd
    <2>3. PoolInv(u)' /\ ChannelInv(u)' /\ CommandInv(u)'
      BY <1>2, <2>1, <2>2 DEF TimerInv, PoolInv, ChannelInv, CommandInv, Created
    <2>4. ExpiryInv(u)'
      BY <1>2, <1>5, <2>1, <2>2 DEF TimerInv, ExpiryInv, Dispatched
    <2>5. WheelInv(u)'
      BY <1>2, <1>5, <2>1, <2>2 DEF TimerInv, WheelInv
    <2> QED
      BY <2>3, <2>4, <2>5 DEF TimerInv
  <1>6. ASSUME failed_to_trigger_timers' = Tail(q)
        PROVE  /\ PostponedInv' /\ \A u \in Timers : Postponed(u)' => Postponed(u)
               /\ \A i \in DOMAIN Tail(q) : Tail(q)[i] # e
    <2>1. \A i \in DOMAIN q : q[i][2] <= backend[q[i][1]].cmd_id
      BY <1>1 DEF PostponedInv, q
    <2>2. \A i, j \in DOMAIN q : q[i] = q[j] => i = j
      BY <1>1 DEF PostponedInv, q
    <2>3. \A i \in DOMAIN Tail(q) : Tail(q)[i][2] <= backend[Tail(q)[i][1]].cmd_id
      BY <1>4, <1>c, <2>1
    <2>4. \A i, j \in DOMAIN Tail(q) : Tail(q)[i] = Tail(q)[j] => i = j
      BY <1>4, <1>c, <1>a, <2>2
    <2>5. PostponedInv'
      BY <1>2, <1>6, <2>3, <2>4 DEF PostponedInv
    <2>6. \A u \in Timers : Postponed(u)' => Postponed(u)
      BY <1>2, <1>4, <1>c, <1>6 DEF Postponed, q
    <2>7. \A i \in DOMAIN Tail(q) : Tail(q)[i] # e
      <3> SUFFICES ASSUME NEW i \in DOMAIN Tail(q), Tail(q)[i] = e PROVE FALSE
        OBVIOUS
      <3>1. i + 1 \in DOMAIN q /\ q[i + 1] = q[1] /\ i \in Nat \ {0}
        BY <1>4, <1>c, <1>a
      <3> QED
        BY <1>4, <1>c, <2>2, <3>1
    <2> QED
      BY <2>5, <2>6, <2>7
  <1>7. SignalPerCommand' /\ NoUpdateIsMissed'
    BY <1>2 DEF SignalPerCommand, NoUpdateIsMissed, IInv
  <1>8. ASSUME tick_pc' # "expire" PROVE TickPhases'
    BY <1>2, <1>8, <1>b DEF TickPhases
  <1>9. CASE DeferFails /\ tick_pc' = "advance" /\ UNCHANGED failed_to_trigger_timers
    <2>1. \A u \in Timers : tasks'[u] = tasks[u] /\ (Postponed(u)' => Postponed(u))
      BY <1>2, <1>9 DEF DeferFails, Postponed
    <2>2. PostponedInv'
      BY <1>1, <1>2, <1>9 DEF PostponedInv
    <2> QED
      BY <1>5, <1>7, <1>8, <1>9, <2>1, <2>2 DEF IInv
  <1>10. CASE UNCHANGED execVars /\ failed_to_trigger_timers' = Tail(q) /\ UNCHANGED tick_pc
    <2>1. \A u \in Timers : tasks'[u] = tasks[u]
      BY <1>10
    <2> QED
      BY <1>5, <1>6, <1>7, <1>8, <1>10, <1>b, <2>1 DEF IInv
  <1>11. CASE StillDue(t, epoch) /\ DeferTimeout(t) /\ failed_to_trigger_timers' = Tail(q)
              /\ UNCHANGED tick_pc
    <2>1. /\ tasks'[t] = tasks[t] \cup {<<backend[t].cmd_id, owner[t]>>}
          /\ \A u \in Timers \ {t} : tasks'[u] = tasks[u]
      BY <1>1, <1>4, <1>c, <1>11 DEF DeferTimeout, TypeOK
    <2>2. backend[t].cmd_id = cmd_id[t] /\ e = <<t, cmd_id[t]>>
      BY <1>4, <1>c, <1>11 DEF StillDue
    <2>3. Postponed(t)
      BY <1>4, <1>c, <2>2 DEF Postponed, q
    <2>4. ~Postponed(t)'
      BY <1>2, <1>6, <1>11, <2>2 DEF Postponed
    <2>5. TimerInv(t)
      BY <1>4, <1>c DEF IInv
    <2>6. state[t] = "running" /\ backend[t].state = "expired" /\ left[t] = 0
      BY <2>3, <2>5 DEF TimerInv, ExpiryInv
    <2>7. (UpToDate(t)' <=> UpToDate(t)) /\ (Waiting(t)' <=> Waiting(t)) /\ LastCmd(t)' = LastCmd(t)
      BY <1>2 DEF UpToDate, Waiting, LastCmd
    <2>8. PoolInv(t)' /\ ChannelInv(t)' /\ CommandInv(t)'
      BY <1>2, <2>5, <2>7 DEF TimerInv, PoolInv, ChannelInv, CommandInv, Created
    <2>9. ExpiryInv(t)'
      <3>1. <<backend[t].cmd_id, owner[t]>>[1] = backend[t].cmd_id
            /\ <<backend[t].cmd_id, owner[t]>>[2] = owner[t] /\ backend[t].cmd_id \in Nat
        BY <1>1, <1>4, <1>c, TypeAt, FieldTypes
      <3>2. \A task \in tasks'[t] : task[1] <= backend[t].cmd_id
        BY <2>1, <2>5, <3>1 DEF TimerInv, ExpiryInv
      <3>3. \A task \in tasks'[t] : task[1] = cmd_id[t] => task[2] = owner[t]
        BY <2>1, <2>5, <3>1 DEF TimerInv, ExpiryInv
      <3> QED
        BY <1>2, <2>4, <2>6, <3>2, <3>3 DEF ExpiryInv
    <2>10. WheelInv(t)'
      BY <1>2, <2>6 DEF WheelInv
    <2>11. \A u \in Timers \ {t} : TimerInv(u)'
      BY <1>5, <1>6, <1>11, <1>b, <2>1
    <2> QED
      BY <1>6, <1>7, <1>8, <1>11, <1>b, <2>8, <2>9, <2>10, <2>11 DEF IInv, TimerInv
  <1> QED
    BY <1>9, <1>10, <1>11, <1>c DEF HandlePostponedTimeout, q, e

\* Time advances: every run is one tick closer to its end, in the wheel and for its
\* owner.
LEMMA AdvanceStep ==
  ASSUME IInv, TypeOK', AdvanceTime
  PROVE  IInv'
  <1> USE DEF frontVars, chanVars, poolVars, backVars, execVars
  <1>1. TypeOK /\ TickPhases
    BY DEF IInv
  <1>2. /\ tick_pc # "expire" /\ tick_pc' = "expire" /\ cur_time' = TimeAfter(cur_time)
        /\ todo' = WheelList(cur_time')
        /\ \A u \in Timers : left'[u] = IF left[u] > 0 THEN left[u] - 1 ELSE 0
        /\ UNCHANGED <<valid, exec, state, duration, push_pc, owner, chanVars, poolVars, backend,
                       failed_to_trigger_timers, batch, missed, execVars>>
    BY DEF AdvanceTime, CommandsHandled
  <1>3. todo = {} /\ \A u \in Timers : batch[u] = 0
    BY <1>1, <1>2 DEF TickPhases, AdvanceTime, CommandsHandled
  <1>4. TickPhases'
    BY <1>2, <1>3 DEF TickPhases, WheelList
  <1>5. SignalPerCommand' /\ NoUpdateIsMissed' /\ PostponedInv'
    BY <1>2 DEF SignalPerCommand, NoUpdateIsMissed, PostponedInv, IInv
  <1>6. ASSUME NEW u \in Timers
        PROVE  TimerInv(u)'
    <2>1. TimerInv(u) /\ left[u] \in Nat
      BY <1>1, TypeAt DEF IInv
    <2>2. (UpToDate(u)' <=> UpToDate(u)) /\ (Waiting(u)' <=> Waiting(u)) /\ LastCmd(u)' = LastCmd(u)
      BY <1>2 DEF UpToDate, Waiting, LastCmd
    <2>3. PoolInv(u)' /\ ChannelInv(u)'
      BY <1>2, <2>1, <2>2 DEF TimerInv, PoolInv, ChannelInv, Created
    <2>4. left'[u] <= left[u] /\ (left[u] = 0 => left'[u] = 0) /\ left'[u] \in Nat
      BY <1>2, <2>1
    <2>5. CommandInv(u)'
      <3>1. LastCmd(u).duration \in Durations \cup {0}
        BY <1>1, TypeAt, FieldTypes DEF LastCmd
      <3>2. Ticks(LastCmd(u).duration) \in Nat
        BY <3>1, TicksRange
      <3>3. left[u] <= Ticks(LastCmd(u).duration) => left'[u] <= Ticks(LastCmd(u).duration)
        BY <2>1, <2>4, <3>2
      <3> QED
        BY <1>2, <2>1, <2>2, <3>3 DEF TimerInv, CommandInv
    <2>6. ExpiryInv(u)'
      BY <1>2, <2>1, <2>2, <2>4 DEF TimerInv, ExpiryInv, Dispatched, Postponed
    <2>7. WheelInv(u)'
      <3> SUFFICES ASSUME UpToDate(u), backend[u].state = "running"
                   PROVE  \E n \in 0 .. TimeModulus :
                            /\ backend'[u].timeout = (cur_time' + n) % TimeModulus
                            /\ left'[u] <= n
                            /\ n = 0 => u \in todo'
                            /\ tick_pc' = "expire" => n < TimeModulus
        BY <1>2, <2>2 DEF WheelInv
      <3>1. PICK n \in 0 .. TimeModulus :
              /\ backend[u].timeout = (cur_time + n) % TimeModulus
              /\ left[u] <= n /\ (n = 0 => u \in todo)
        BY <2>1 DEF TimerInv, WheelInv
      <3>2. n \in 1 .. TimeModulus /\ n \in Nat
        BY <1>3, <3>1, TimerManagerAssumption
      <3>3. cur_time \in 0 .. TimeModulus - 1 /\ cur_time' \in 0 .. TimeModulus - 1
        BY <1>1 DEF TypeOK
      <3>4. backend[u].timeout = (cur_time' + (n - 1)) % TimeModulus
        BY <1>2, <3>1, <3>2, <3>3, ClockStep
      <3>5. left'[u] <= n - 1
        BY <1>2, <2>1, <3>1, <3>2
      <3>6. n - 1 \in 0 .. TimeModulus /\ n - 1 < TimeModulus
        BY <3>2, TimerManagerAssumption
      <3>7. ASSUME n - 1 = 0 PROVE u \in todo'
        <4>1. backend[u].timeout = cur_time'
          <5>1. 0 \in 0 .. TimeModulus - 1
            BY TimerManagerAssumption
          <5> QED
            BY <3>3, <3>4, <3>7, <5>1, ClockNow
        <4> QED
          BY <1>2, <4>1 DEF WheelList
      <3> QED
        BY <1>2, <3>4, <3>5, <3>6, <3>7
    <2> QED
      BY <2>3, <2>5, <2>6, <2>7 DEF TimerInv
  <1> QED
    BY <1>4, <1>5, <1>6 DEF IInv

\* A timer of the wheel list whose time has come has run for as long as its owner
\* asked, and has no other expiry.
LEMMA ExpireStep ==
  ASSUME IInv, TypeOK', NEW t \in Timers, ExpireTimer(t)
  PROVE  IInv'
  <1> USE DEF frontVars, chanVars, poolVars, backVars, execVars
  <1>1. TypeOK /\ TickPhases /\ PostponedInv /\ TimerInv(t)
    BY DEF IInv
  <1>2. /\ tick_pc = "expire" /\ t \in todo /\ todo' = todo \ {t}
        /\ UNCHANGED <<frontVars, chanVars, poolVars, cur_time, tick_pc, batch, missed>>
    BY DEF ExpireTimer
  <1>3. /\ backend[t].state = "running" /\ backend[t].cmd_id \in Nat /\ cmd_id[t] \in Nat
        /\ left[t] \in Nat /\ cur_time \in 0 .. TimeModulus - 1 /\ owner[t] \in Nat
    BY <1>1, <1>2, TypeAt, FieldTypes DEF TickPhases, TypeOK
  <1>4. ~Postponed(t) /\ \A task \in tasks[t] : task[1] # cmd_id[t]
    BY <1>1, <1>3 DEF TimerInv, ExpiryInv
  <1>5. UpToDate(t) =>
          \E n \in 0 .. TimeModulus - 1 :
            /\ backend[t].timeout = (cur_time + n) % TimeModulus
            /\ left[t] <= n
    BY <1>1, <1>2, <1>3, TimerManagerAssumption DEF TimerInv, WheelInv
  <1>6. UpToDate(t) /\ backend[t].timeout = cur_time => left[t] = 0
    BY <1>3, <1>5, ClockNow
  <1>7. SignalPerCommand' /\ NoUpdateIsMissed'
    BY <1>2 DEF SignalPerCommand, NoUpdateIsMissed, IInv
  <1>8. (UpToDate(t)' <=> UpToDate(t)) /\ (Waiting(t)' <=> Waiting(t)) /\ LastCmd(t)' = LastCmd(t)
    BY <1>2 DEF UpToDate, Waiting, LastCmd
  <1>9. ASSUME \A u \in Timers \ {t} : /\ backend'[u] = backend[u] /\ tasks'[u] = tasks[u]
                                       /\ Postponed(u)' => Postponed(u)
        PROVE  \A u \in Timers \ {t} : TimerInv(u)'
    <2>1. \A u \in Timers \ {t} : SameFront(u) /\ SameBack(u) /\ SameTime(u) /\ SamePlace(u)
      BY <1>2, <1>9 DEF SameFront, SameBack, SameTime, SamePlace, Created
    <2> QED
      BY <2>1, SameKeeps DEF IInv
  <1>10. CASE backend[t].timeout # cur_time /\ UNCHANGED <<backend, failed_to_trigger_timers, execVars>>
    <2>1. \A u \in Timers \ {t} : TimerInv(u)'
      BY <1>2, <1>9, <1>10 DEF Postponed
    <2>2. PoolInv(t)' /\ ChannelInv(t)' /\ CommandInv(t)'
      BY <1>1, <1>2, <1>8, <1>10 DEF TimerInv, PoolInv, ChannelInv, CommandInv, Created
    <2>3. ExpiryInv(t)'
      BY <1>1, <1>2, <1>8, <1>10 DEF TimerInv, ExpiryInv, Dispatched, Postponed
    <2>4. WheelInv(t)'
      <3> SUFFICES ASSUME UpToDate(t)
                   PROVE  \E n \in 0 .. TimeModulus :
                            /\ backend'[t].timeout = (cur_time' + n) % TimeModulus
                            /\ left'[t] <= n
                            /\ n = 0 => t \in todo'
                            /\ tick_pc' = "expire" => n < TimeModulus
        BY <1>8 DEF WheelInv
      <3>1. PICK n \in 0 .. TimeModulus - 1 :
              backend[t].timeout = (cur_time + n) % TimeModulus /\ left[t] <= n
        BY <1>5
      <3>2. n # 0
        BY <1>3, <1>10, <3>1, ClockNow
      <3>3. n \in 0 .. TimeModulus /\ n < TimeModulus
        BY <3>1, TimerManagerAssumption
      <3> QED
        BY <1>2, <1>10, <3>1, <3>2, <3>3
    <2>5. TickPhases' /\ PostponedInv'
      BY <1>1, <1>2, <1>10 DEF TickPhases, PostponedInv
    <2> QED
      BY <1>7, <2>1, <2>2, <2>3, <2>4, <2>5 DEF IInv, TimerInv
  <1>11. CASE backend[t].timeout = cur_time /\ backend' = [backend EXCEPT ![t].state = "expired"]
    <2>1. /\ backend'[t].cmd_id = backend[t].cmd_id /\ backend'[t].state = "expired"
          /\ \A u \in Timers \ {t} : backend'[u] = backend[u]
          /\ \A u \in Timers : backend'[u].cmd_id = backend[u].cmd_id
      BY <1>1, <1>11 DEF TypeOK
    <2>2. PoolInv(t)' /\ CommandInv(t)'
      BY <1>1, <1>2, <1>8 DEF TimerInv, PoolInv, CommandInv, Created
    <2>3. ChannelInv(t)'
      <3>1. backend[t].cmd_id # 0
        BY <1>1, <1>3 DEF TimerInv, ChannelInv
      <3> QED
        BY <1>1, <1>2, <1>8, <2>1, <3>1 DEF TimerInv, ChannelInv
    <2>4. WheelInv(t)'
      BY <2>1 DEF WheelInv
    <2>5. TickPhases'
      <3>1. todo \subseteq Timers
        BY <1>1 DEF TypeOK
      <3> QED
        BY <1>1, <1>2, <2>1, <3>1 DEF TickPhases
    <2>6. CASE backend[t].cmd_id = cmd_id[t] /\ DeferTimeout(t) /\ UNCHANGED failed_to_trigger_timers
      <3>1. /\ tasks'[t] = tasks[t] \cup {<<backend[t].cmd_id, owner[t]>>}
            /\ \A u \in Timers \ {t} : tasks'[u] = tasks[u]
        BY <1>1, <2>6 DEF DeferTimeout, TypeOK
      <3>2. \A u \in Timers : Postponed(u)' => Postponed(u)
        BY <1>2, <2>6 DEF Postponed
      <3>3. UpToDate(t) /\ left[t] = 0 /\ state[t] = "running"
        BY <1>1, <1>3, <1>6, <1>11, <2>6 DEF TimerInv, ChannelInv, ExpiryInv
      <3>4. ExpiryInv(t)'
        <4>1. <<backend[t].cmd_id, owner[t]>>[1] = backend[t].cmd_id
              /\ <<backend[t].cmd_id, owner[t]>>[2] = owner[t]
          OBVIOUS
        <4>2. \A task \in tasks'[t] : task[1] <= backend[t].cmd_id
          BY <1>1, <1>3, <3>1, <4>1 DEF TimerInv, ExpiryInv
        <4>3. \A task \in tasks'[t] : task[1] = cmd_id[t] => task[2] = owner[t]
          BY <1>4, <3>1, <4>1
        <4> QED
          BY <1>2, <1>4, <2>1, <3>2, <3>3, <4>2, <4>3 DEF ExpiryInv
      <3>5. PostponedInv'
        BY <1>1, <2>1, <2>6, EntryTypes DEF PostponedInv
      <3> QED
        BY <1>7, <1>9, <2>1, <2>2, <2>3, <2>4, <2>5, <3>1, <3>2, <3>4, <3>5 DEF IInv, TimerInv
    <2>7. CASE backend[t].cmd_id = cmd_id[t] /\ DeferFails
               /\ failed_to_trigger_timers' =
                    Append(failed_to_trigger_timers, <<t, backend[t].cmd_id>>)
      <3> DEFINE q == failed_to_trigger_timers
                 p == Append(q, <<t, backend[t].cmd_id>>)
      <3>1. q \in Seq(Timers \X Nat) /\ <<t, backend[t].cmd_id>> \in Timers \X Nat
        BY <1>1, <1>3 DEF TypeOK
      <3>2. /\ DOMAIN q = 1 .. Len(q) /\ DOMAIN p = 1 .. Len(q) + 1 /\ Len(q) \in Nat
            /\ p[Len(q) + 1] = <<t, backend[t].cmd_id>>
            /\ \A i \in DOMAIN q : p[i] = q[i]
        BY <3>1
      <3> HIDE DEF p
      <3>3. failed_to_trigger_timers' = p
        BY <2>7 DEF p
      <3>4. tasks' = tasks
        BY <2>7 DEF DeferFails
      <3>5. \A u \in Timers \ {t} : Postponed(u)' => Postponed(u)
        <4>1. \A u \in Timers \ {t} : \A c : p[Len(q) + 1] # <<u, c>>
          BY <3>2
        <4> QED
          BY <1>2, <3>2, <3>3, <4>1 DEF Postponed
      <3>6. UpToDate(t) /\ left[t] = 0 /\ state[t] = "running"
        BY <1>1, <1>3, <1>6, <1>11, <2>7 DEF TimerInv, ChannelInv, ExpiryInv
      <3>7. ~Dispatched(t)'
        BY <1>2, <1>4, <3>4 DEF Dispatched
      <3>8. ExpiryInv(t)'
        BY <1>1, <1>2, <1>4, <2>1, <3>4, <3>6, <3>7 DEF TimerInv, ExpiryInv
      <3>9. PostponedInv'
        <4>1. \A i \in DOMAIN q : q[i][2] <= backend[q[i][1]].cmd_id
          BY <1>1 DEF PostponedInv
        <4>2. \A i, j \in DOMAIN q : q[i] = q[j] => i = j
          BY <1>1 DEF PostponedInv
        <4>3. \A i \in DOMAIN q : q[i] # <<t, backend[t].cmd_id>>
          BY <1>4, <2>7 DEF Postponed
        <4>4. \A i \in DOMAIN q : q[i][1] \in Timers /\ q[i][2] \in Nat
          BY <1>1, EntryTypes
        <4> HIDE DEF q
        <4>5. \A i \in DOMAIN p : i \in DOMAIN q \/ i = Len(q) + 1
          BY <3>2
        <4>6. \A i \in DOMAIN p : p[i][2] <= backend'[p[i][1]].cmd_id
          <5> SUFFICES ASSUME NEW i \in DOMAIN p
                       PROVE  p[i][2] <= backend'[p[i][1]].cmd_id
            OBVIOUS
          <5>1. CASE i \in DOMAIN q
            BY <2>1, <3>2, <4>1, <4>4, <5>1
          <5>2. CASE i = Len(q) + 1
            <6>1. p[i][1] = t /\ p[i][2] = backend[t].cmd_id
              BY <3>2, <5>2
            <6> QED
              BY <1>3, <2>1, <6>1
          <5> QED
            BY <4>5, <5>1, <5>2
        <4>7. \A i, j \in DOMAIN p : p[i] = p[j] => i = j
          BY <3>2, <4>2, <4>3, <4>5
        <4> QED
          BY <3>3, <4>6, <4>7 DEF PostponedInv
      <3> QED
        BY <1>7, <1>9, <2>1, <2>2, <2>3, <2>4, <2>5, <3>4, <3>5, <3>8, <3>9 DEF IInv, TimerInv
    <2>8. CASE backend[t].cmd_id # cmd_id[t] /\ UNCHANGED <<failed_to_trigger_timers, execVars>>
      <3>1. \A u \in Timers : Postponed(u)' => Postponed(u)
        BY <1>2, <2>8 DEF Postponed
      <3>2. ExpiryInv(t)'
        BY <1>1, <1>2, <1>4, <2>1, <2>8, <3>1 DEF TimerInv, ExpiryInv
      <3>3. PostponedInv'
        BY <1>1, <2>1, <2>8, EntryTypes DEF PostponedInv
      <3> QED
        BY <1>7, <1>9, <2>1, <2>2, <2>3, <2>4, <2>5, <2>8, <3>1, <3>2, <3>3 DEF IInv, TimerInv
    <2> QED
      BY <1>11, <2>6, <2>7, <2>8 DEF ExpireTimer
  <1> QED
    BY <1>10, <1>11 DEF ExpireTimer

-----------------------------------------------------------------------------
(* The theorems.                                                           *)

\* Before the first command nothing is under way.
LEMMA InvInit == Init => IInv
  <1> SUFFICES ASSUME Init PROVE IInv
    OBVIOUS
  <1>1. TypeOK
    BY TypeInit
  <1>2. TickPhases /\ NoUpdateIsMissed /\ PostponedInv
    BY DEF Init, TickPhases, NoUpdateIsMissed, PostponedInv
  <1>3. SignalPerCommand
    <2>1. \A t \in Timers : /\ middle_buffer[t] = NoCmd /\ signals[t] = 0 /\ batch[t] = 0
                             /\ push_pc[t] = "idle"
      BY DEF Init
    <2>2. ~NoCmd.pending
      <3>1. NoCmd.pending = FALSE
        BY Zenon DEF NoCmd
      <3> QED
        BY <3>1
    <2>3. \A t \in Timers : /\ One(middle_buffer[t].pending) = 0
                             /\ One(push_pc[t] = "notify") = 0
      BY <2>1, <2>2 DEF One
    <2>4. \A t \in Timers : signals[t] + batch[t] + One(push_pc[t] = "notify") = 0
      <3> TAKE t \in Timers
      <3>1. One(push_pc[t] = "notify") = 0 /\ signals[t] = 0 /\ batch[t] = 0
        BY <2>1, <2>3, Zenon
      <3>2. PICK n \in Nat : n = One(push_pc[t] = "notify")
        BY <3>1, Zenon
      <3>3. signals[t] + batch[t] + n = 0
        BY <3>1, <3>2
      <3> QED
        BY <3>2, <3>3, Zenon
    <2> QED
      BY <2>3, <2>4, Zenon DEF SignalPerCommand
  <1>4. ASSUME NEW t \in Timers
        PROVE  TimerInv(t)
    <2>1. /\ valid[t] = FALSE /\ state[t] = "stopped" /\ duration[t] = INVALID_DURATION
          /\ push_pc[t] = "idle" /\ owner[t] = 0 /\ cmd_id[t] = 0 /\ read_buffer[t] = NoCmd
          /\ middle_buffer[t] = NoCmd /\ tasks[t] = {} /\ failed_to_trigger_timers = <<>>
          /\ backend[t] = [cmd_id |-> 0, state |-> "stopped", timeout |-> 0]
          /\ known = Cached /\ timer_free_list = Cached
      BY DEF Init
    <2>2. ~Waiting(t) /\ ~read_buffer[t].pending /\ UpToDate(t)
      BY <2>1 DEF Waiting, NoCmd, UpToDate
    <2>3. PoolInv(t)
      BY <2>1, <2>2 DEF PoolInv, Created
    <2>4. ChannelInv(t) /\ CommandInv(t)
      BY <2>1, <2>2 DEF ChannelInv, CommandInv
    <2>5. ExpiryInv(t) /\ WheelInv(t)
      BY <2>1, <2>2 DEF ExpiryInv, WheelInv, Postponed
    <2> QED
      BY <2>3, <2>4, <2>5 DEF TimerInv
  <1> QED
    BY <1>1, <1>2, <1>3, <1>4 DEF IInv

\* Every step of the owners, the executors and the ticking thread keeps it.
LEMMA InvStep == IInv /\ [Next]_vars => IInv'
  <1> SUFFICES ASSUME IInv, [Next]_vars PROVE IInv'
    OBVIOUS
  <1>1. TypeOK'
    BY TypeStep DEF IInv
  <1>2. CASE UNCHANGED vars
    <2>1. \A u \in Timers : SameFront(u) /\ SameBack(u) /\ SameTime(u) /\ SamePlace(u)
      BY <1>2 DEF vars, frontVars, chanVars, poolVars, backVars, execVars, SameFront, SameBack,
         SameTime, SamePlace, Created, Postponed
    <2>2. \A u \in Timers : TimerInv(u)'
      BY <2>1, SameKeeps DEF IInv
    <2>3. TickPhases' /\ SignalPerCommand' /\ NoUpdateIsMissed' /\ PostponedInv'
      BY <1>2 DEF vars, frontVars, chanVars, backVars, TickPhases, SignalPerCommand,
         NoUpdateIsMissed, PostponedInv, IInv
    <2> QED
      BY <1>1, <2>2, <2>3 DEF IInv
  <1>3. CASE Tick
    BY <1>1, <1>3, PopStep, PostponedStep, AdvanceStep, UpdateStep, ExpireStep DEF Tick
  <1>4. ASSUME NEW t \in Timers,
               \/ PushExchange(t) \/ NotifyTimerUpdate(t) \/ RunTimeout(t)
               \/ CreateCachedTimer(t) \/ CreateTimer(t)
               \/ Run(t) \/ Stop(t) \/ Reset(t) \/ \E d \in Durations : Set(t, d)
        PROVE  IInv'
    BY <1>1, <1>4, ExchangeStep, NotifyStep, TimeoutStep, CreateCachedStep, CreateStep, CommandStep
  <1> QED
    BY <1>2, <1>3, <1>4 DEF Next

\* The expiry of a run that is over changes nothing, and that of the current run
\* finds it running: what the inductive invariant says of the assertion.
LEMMA InvExpiry == IInv => ExpiryFindsRunning
  <1> SUFFICES ASSUME IInv, NEW t \in Timers
               PROVE  /\ \A task \in tasks[t] : task[1] = cmd_id[t] =>
                           state[t] = "running" /\ task[2] = owner[t]
                      /\ \A i \in DOMAIN failed_to_trigger_timers :
                           failed_to_trigger_timers[i] = <<t, cmd_id[t]>> =>
                             \A task \in tasks[t] : task[1] # cmd_id[t]
    BY DEF ExpiryFindsRunning
  <1> QED
    BY DEF IInv, TimerInv, ExpiryInv, Postponed, Dispatched

\* The inductive invariant holds in every state the service can reach.
THEOREM InvAlways == Spec => []IInv
  BY InvInit, InvStep, PTL DEF Spec

\* Every variable of the front-end, the channel, the back-end and the executors
\* keeps its type, the clock within its width included.
THEOREM TimerTypes == Spec => []TypeOK
  <1>1. IInv => TypeOK
    BY DEF IInv
  <1> QED
    BY <1>1, InvAlways, PTL

\* backend_channel::push skips the signal only when one is under way, and signals
\* no command twice, for any number of timers and commands.
THEOREM SignalsMatchCommands == Spec => []SignalPerCommand
  <1>1. IInv => SignalPerCommand
    BY DEF IInv
  <1> QED
    BY <1>1, InvAlways, PTL

\* handle_timer_commands finds the timer and the command of every id, whenever the
\* timer was created and however many commands were overwritten before it looked.
THEOREM UpdatesAreFound == Spec => []NoUpdateIsMissed
  <1>1. IInv => NoUpdateIsMissed
    BY DEF IInv
  <1> QED
    BY <1>1, InvAlways, PTL

\* The assertion of trigger_timeout_handling holds, and a run never has two expiries
\* under way, for any number of timers, owners, commands and refused expiries.
THEOREM ExpiriesFindTheirRun == Spec => []ExpiryFindsRunning
  BY InvExpiry, InvAlways, PTL

-----------------------------------------------------------------------------
(* The timer service implements the atomic timer: every step of the owner, *)
(* the executors and the ticking thread is a step of TimerService or does  *)
(* not concern the owner.                                                  *)

\* The safety part of the atomic timer.
ServiceSafety == Service!Init /\ [][Service!Next]_(Service!vars)

\* The duration that the owner of a timer sees.
SeenDuration == [t \in Timers |-> IF valid[t] THEN duration[t] ELSE INVALID_DURATION]

\* A new service is a set of timers without owners.
LEMMA ServiceInit == Init => Service!Init
  BY DEF Init, Service!Init, INVALID_DURATION, Service!INVALID_DURATION

\* What the owner sees of a duration it has not changed.
LEMMA SeenSame ==
  ASSUME \A u \in Timers : /\ valid'[u] = valid[u]
                           /\ valid[u] => duration'[u] = duration[u]
  PROVE  SeenDuration' = SeenDuration
  BY DEF SeenDuration

\* A step that the owner does not see.
LEMMA Unseen ==
  ASSUME UNCHANGED <<valid, state, left>>, SeenDuration' = SeenDuration
  PROVE  UNCHANGED Service!vars
  BY DEF Service!vars, SeenDuration

\* The ticking thread: the owner sees only that time goes by.
LEMMA ServiceTick ==
  ASSUME IInv, Tick
  PROVE  Service!Next \/ UNCHANGED Service!vars
  <1> USE DEF frontVars, chanVars, poolVars, backVars, execVars
  <1>1. TypeOK
    BY DEF IInv
  <1>2. CASE PopUpdatedTimers \/ HandlePostponedTimeout \/ \E t \in Timers : ExpireTimer(t)
    <2>1. UNCHANGED frontVars
      BY <1>2 DEF PopUpdatedTimers, HandlePostponedTimeout, ExpireTimer
    <2> QED
      BY <2>1, SeenSame, Unseen
  <1>3. CASE AdvanceTime
    <2>1. /\ left' = [t \in Timers |-> IF left[t] > 0 THEN left[t] - 1 ELSE 0]
          /\ UNCHANGED <<valid, state, duration>>
      BY <1>3 DEF AdvanceTime
    <2>2. Service!Elapse
      BY <2>1 DEF Service!Elapse
    <2> QED
      BY <2>2 DEF Service!Next
  <1>4. ASSUME NEW t \in Timers, HandleTimerUpdate(t)
        PROVE  UNCHANGED Service!vars
    <2>1. batch[t] > 0 /\ UNCHANGED <<valid, left>>
          /\ \/ UNCHANGED <<state, duration>>
             \/ middle_buffer[t].action = "destroy" /\ DestroyTimer(t)
      BY <1>4 DEF HandleTimerUpdate
    <2>2. CASE UNCHANGED <<state, duration>>
      BY <2>1, <2>2, SeenSame, Unseen
    <2>3. CASE middle_buffer[t].action = "destroy" /\ DestroyTimer(t)
      <3>1. ~valid[t] /\ state[t] = "stopped"
        BY <2>1, <2>3, DestroyFound
      <3>2. state' = state
        BY <1>1, <2>3, <3>1 DEF DestroyTimer, TypeOK
      <3>3. \A u \in Timers : u # t => duration'[u] = duration[u]
        BY <1>1, <2>3 DEF DestroyTimer, TypeOK
      <3> QED
        BY <2>1, <3>1, <3>2, <3>3, SeenSame, Unseen
    <2> QED
      BY <2>1, <2>2, <2>3
  <1> QED
    BY <1>2, <1>3, <1>4 DEF Tick

\* The task of an expiry: the owner sees it only when the run in progress is due.
LEMMA ServiceTimeout ==
  ASSUME IInv, NEW t \in Timers, RunTimeout(t)
  PROVE  Service!Next \/ UNCHANGED Service!vars
  <1>1. TypeOK /\ TimerInv(t)
    BY DEF IInv
  <1>2. PICK task \in tasks[t] :
          /\ state' = [state EXCEPT ![t] = IF SameEpoch(t, task[1]) THEN "expired" ELSE @]
          /\ UNCHANGED <<valid, duration, left>>
    BY DEF RunTimeout
  <1>3. SeenDuration' = SeenDuration
    BY <1>2, SeenSame
  <1>4. CASE SameEpoch(t, task[1])
    <2>1. state[t] = "running" /\ left[t] = 0
      BY <1>1, <1>4 DEF SameEpoch, TimerInv, ExpiryInv
    <2>2. Service!Expire(t)
      BY <1>2, <1>3, <1>4, <2>1 DEF Service!Expire, SeenDuration
    <2> QED
      BY <2>2 DEF Service!Next
  <1>5. CASE ~SameEpoch(t, task[1])
    <2>1. state' = state
      BY <1>1, <1>2, <1>5 DEF TypeOK
    <2> QED
      BY <1>2, <1>3, <2>1, Unseen
  <1> QED
    BY <1>4, <1>5

\* A timer that gets an owner has the state of a new one.
LEMMA ServiceCreate ==
  ASSUME IInv, NEW t \in Timers, CreateCachedTimer(t) \/ CreateTimer(t)
  PROVE  Service!Next
  <1>1. TypeOK /\ TimerInv(t) /\ valid[t] \in BOOLEAN
    BY TypeAt DEF IInv
  <1>2. valid' = [valid EXCEPT ![t] = TRUE] /\ UNCHANGED <<state, duration, left>>
        /\ (t \in timer_free_list \/ owner[t] = 0)
    BY DEF CreateCachedTimer, CreateTimer
  <1>3. ~valid[t] /\ duration[t] = INVALID_DURATION
    BY <1>1, <1>2 DEF TimerInv, PoolInv
  <1>4. SeenDuration' = SeenDuration
    BY <1>1, <1>2, <1>3 DEF SeenDuration, TypeOK
  <1>5. Service!Create(t)
    BY <1>2, <1>3, <1>4 DEF Service!Create, SeenDuration
  <1> QED
    BY <1>5 DEF Service!Next

\* What the owner sees of a duration it sets.
LEMMA SeenSet ==
  ASSUME TypeOK, NEW t \in Timers, NEW d, valid[t], UNCHANGED valid,
         duration' = [duration EXCEPT ![t] = d]
  PROVE  SeenDuration' = [SeenDuration EXCEPT ![t] = d]
  BY DEF SeenDuration, TypeOK

\* The calls of the owner.
LEMMA ServiceCommand ==
  ASSUME IInv, NEW t \in Timers,
         Run(t) \/ Stop(t) \/ Reset(t) \/ (\E d \in Durations : Set(t, d))
  PROVE  Service!Next
  <1>1. TypeOK
    BY DEF IInv
  <1>2. ASSUME NEW d, Begin(t, d) PROVE Service!Begin(t, d)
    BY <1>2 DEF Begin, Ticks, Service!Begin, Service!Ticks
  <1>3. CASE Run(t)
    <2>1. valid[t] /\ duration[t] # INVALID_DURATION /\ Begin(t, duration[t])
          /\ UNCHANGED <<valid, duration>>
      BY <1>3 DEF Run
    <2>2. SeenDuration[t] = duration[t] /\ SeenDuration' = SeenDuration
      BY <2>1, SeenSame DEF SeenDuration
    <2>3. Service!Run(t)
      BY <1>2, <2>1, <2>2 DEF Service!Run, SeenDuration, INVALID_DURATION,
         Service!INVALID_DURATION
    <2> QED
      BY <2>3 DEF Service!Next
  <1>4. CASE Stop(t)
    <2>1. SeenDuration' = SeenDuration
      BY <1>4, SeenSame DEF Stop
    <2>2. Service!Stop(t)
      BY <1>4, <2>1 DEF Stop, Service!Stop, SeenDuration
    <2> QED
      BY <2>2 DEF Service!Next
  <1>5. CASE Reset(t)
    <2>1. valid' = [valid EXCEPT ![t] = FALSE] /\ UNCHANGED duration
      BY <1>5 DEF Reset
    <2>2. SeenDuration' = [SeenDuration EXCEPT ![t] = INVALID_DURATION]
      BY <1>1, <2>1 DEF SeenDuration, TypeOK
    <2>3. Service!Reset(t)
      BY <1>5, <2>2 DEF Reset, Service!Reset, SeenDuration, INVALID_DURATION,
         Service!INVALID_DURATION
    <2> QED
      BY <2>3 DEF Service!Next
  <1>6. ASSUME NEW d \in Durations, Set(t, d)
        PROVE  Service!Next
    <2>1. /\ valid[t] /\ duration' = [duration EXCEPT ![t] = d] /\ UNCHANGED valid
          /\ \/ state[t] = "running" /\ Begin(t, d)
             \/ state[t] # "running" /\ UNCHANGED <<state, left>>
      BY <1>6 DEF Set
    <2>2. SeenDuration' = [SeenDuration EXCEPT ![t] = d]
      BY <1>1, <2>1, SeenSet
    <2>3. Service!Set(t, d)
      BY <1>2, <2>1, <2>2 DEF Service!Set, SeenDuration
    <2> QED
      BY <2>3 DEF Service!Next
  <1> QED
    BY <1>3, <1>4, <1>5, <1>6

\* Every step is a step of the atomic timer or one its owner does not see.
LEMMA ServiceStep == IInv /\ [Next]_vars => [Service!Next]_(Service!vars)
  <1> SUFFICES ASSUME IInv, [Next]_vars
               PROVE  Service!Next \/ UNCHANGED Service!vars
    OBVIOUS
  <1>1. ASSUME UNCHANGED <<valid, state, duration, left>>
        PROVE  UNCHANGED Service!vars
    BY <1>1, SeenSame, Unseen
  <1>2. CASE UNCHANGED vars
    BY <1>1, <1>2 DEF vars, frontVars
  <1>3. ASSUME NEW t \in Timers, PushExchange(t) \/ NotifyTimerUpdate(t)
        PROVE  UNCHANGED Service!vars
    BY <1>1, <1>3 DEF PushExchange, NotifyTimerUpdate
  <1> QED
    BY <1>2, <1>3, ServiceTick, ServiceTimeout, ServiceCreate, ServiceCommand DEF Next

\* What the owners of timers see is a behaviour of the atomic timer, for any set of
\* timers and durations and any number of commands: a timer expires only in the run
\* in progress, no earlier than its duration, and never after a stop or a reset.
THEOREM ServiceImplemented == Spec => ServiceSafety
  BY InvAlways, ServiceInit, ServiceStep, PTL DEF Spec, ServiceSafety
=============================================================================

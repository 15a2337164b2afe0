---------------------------- MODULE TimerManager ----------------------------
(***************************************************************************)
(* The timer service, lib/support/timers.cpp.  The owner of a unique_timer *)
(* (front-end, on its executor) hands commands to the timer_manager        *)
(* (back-end, on the thread that calls tick) through a triple buffer and a *)
(* queue of timer ids; the back-end hands expiries back as tasks.          *)
(*                                                                         *)
(* Every access to memory the two share is a step of its own.  Steps are   *)
(* interleaved as in sequentially consistent memory: the acq_rel exchange  *)
(* of middle_buffer orders the contents of a buffer, and the relaxed loads *)
(* of the front-end's cmd_id by the back-end may only be late, which is an *)
(* expiry dispatched in vain.  Each of the three buffers is reached by one *)
(* pointer only, so exchanging pointers is exchanging contents.  Ids       *)
(* leave the queue all at once; an id that the dequeue misses is one that  *)
(* is enqueued after it.                                                   *)
(***************************************************************************)
EXTENDS Integers, Sequences

CONSTANTS
  Timers,            \* timer ids
  Cached,            \* the ones reserved by the constructor (capacity)
  Durations,         \* durations a timer may be set to, in ticks
  WHEEL_SIZE,
  TimeModulus,       \* 2^32: tick_point_t is unsigned
  MaxCmd,            \* bound: timer -> commands
  MaxDeferFailures   \* bound: times an executor refuses an expiry

ASSUME TimerManagerAssumption ==
  /\ Cached \subseteq Timers
  /\ Durations \subseteq Nat
  /\ WHEEL_SIZE \in Nat \ {0} /\ TimeModulus \in Nat \ {0}
  /\ TimeModulus % WHEEL_SIZE = 0 /\ \A d \in Durations : d < TimeModulus
  /\ MaxCmd \in [Timers -> Nat] /\ MaxDeferFailures \in Nat

INVALID_DURATION == -1
NoCmd == [pending |-> FALSE, cmd_id |-> 0, action |-> "none", duration |-> 0]
Commands ==
  [pending : BOOLEAN, cmd_id : Nat, action : {"none", "start", "stop", "create", "destroy"},
   duration : Durations \cup {0}]

VARIABLES
  (* frontend_handle *)
  valid,         \* timer -> is it held by a unique_timer?
  exec,          \* timer -> does it have an executor?
  state, duration,   \* frontend_state
  push_pc,       \* timer -> where its owner is in backend_channel::push
  owner,         \* history: timer -> number of unique_timers that have held it
  left,          \* history: timer -> ticks the run in progress still has to last
  (* backend_channel *)
  cmd_id,        \* timer -> last command sent
  write_buffer, middle_buffer, read_buffer,  \* timer -> contents of the buffer
  signals,       \* timer -> its ids in the queue of the timer_update_signaller
  (* manager_impl *)
  known,         \* timers with an entry in timers
  pending_timers_to_create, timer_free_list,
  backend,       \* timer -> cmd_id, state and timeout of timer_backend_context
  failed_to_trigger_timers,
  cur_time,
  tick_pc, batch, todo,   \* where tick is (between ticks: "expire"), ids and timers left
  missed,        \* history: an update without a timer or without a command
  (* executors *)
  tasks,         \* timer -> expiries deferred to the executor of its owner
  failures       \* refused calls of defer

frontVars == <<valid, exec, state, duration, push_pc, owner, left>>
chanVars == <<cmd_id, write_buffer, middle_buffer, read_buffer, signals>>
poolVars == <<known, pending_timers_to_create, timer_free_list>>
backVars == <<backend, failed_to_trigger_timers, cur_time, tick_pc, batch, todo, missed>>
execVars == <<tasks, failures>>
vars == <<frontVars, chanVars, poolVars, backVars, execVars>>

TimerStates == {"stopped", "running", "expired"}

TypeOK ==
  /\ valid \in [Timers -> BOOLEAN] /\ exec \in [Timers -> BOOLEAN]
  /\ state \in [Timers -> TimerStates]
  /\ duration \in [Timers -> Durations \cup {INVALID_DURATION}]
  /\ push_pc \in [Timers -> {"idle", "exchange", "notify"}]
  /\ owner \in [Timers -> Nat] /\ left \in [Timers -> Nat] /\ cmd_id \in [Timers -> Nat]
  /\ write_buffer \in [Timers -> Commands] /\ middle_buffer \in [Timers -> Commands]
  /\ read_buffer \in [Timers -> Commands]
  /\ signals \in [Timers -> Nat] /\ batch \in [Timers -> Nat]
  /\ known \subseteq Timers /\ pending_timers_to_create \subseteq Timers
  /\ timer_free_list \subseteq Timers
  /\ backend \in [Timers -> [cmd_id : Nat, state : TimerStates, timeout : Nat]]
  /\ failed_to_trigger_timers \in Seq(Timers \X Nat)
  /\ cur_time \in 0 .. TimeModulus - 1
  /\ tick_pc \in {"commands", "advance", "expire"}
  /\ todo \subseteq Timers /\ missed \in BOOLEAN
  /\ tasks \in [Timers -> SUBSET (Nat \X Nat)] /\ failures \in Nat

Init ==
  /\ valid = [t \in Timers |-> FALSE] /\ exec = [t \in Timers |-> FALSE]
  /\ state = [t \in Timers |-> "stopped"]
  /\ duration = [t \in Timers |-> INVALID_DURATION]
  /\ push_pc = [t \in Timers |-> "idle"]
  /\ owner = [t \in Timers |-> 0] /\ left = [t \in Timers |-> 0]
  /\ cmd_id = [t \in Timers |-> 0]
  /\ write_buffer = [t \in Timers |-> NoCmd] /\ middle_buffer = [t \in Timers |-> NoCmd]
  /\ read_buffer = [t \in Timers |-> NoCmd]
  /\ signals = [t \in Timers |-> 0] /\ batch = [t \in Timers |-> 0]
  /\ known = Cached /\ timer_free_list = Cached /\ pending_timers_to_create = {}
  /\ backend = [t \in Timers |-> [cmd_id |-> 0, state |-> "stopped", timeout |-> 0]]
  /\ failed_to_trigger_timers = <<>> /\ cur_time = 0
  /\ tick_pc = "expire" /\ todo = {} /\ missed = FALSE
  /\ tasks = [t \in Timers |-> {}] /\ failures = 0

-----------------------------------------------------------------------------
(* backend_channel::push, by the owner.                                    *)

\* A new cmd_id makes older commands and expiries void; then the command is
\* written into the buffer only the front-end can see.
StartPush(t, a, d) ==
  /\ push_pc[t] = "idle" /\ cmd_id[t] < MaxCmd[t]
  /\ cmd_id' = [cmd_id EXCEPT ![t] = @ + 1]
  /\ write_buffer' = [write_buffer EXCEPT ![t] =
       [pending |-> TRUE, cmd_id |-> cmd_id[t] + 1, action |-> a, duration |-> d]]
  /\ push_pc' = [push_pc EXCEPT ![t] = "exchange"]
  /\ UNCHANGED <<middle_buffer, read_buffer, signals>>

\* Mutant: the back-end is signalled when it has been signalled already.
NeedsSignalWhilePending(cmd) == cmd.pending

\* The back-end has processed the command that came back, or there was none.
NeedsSignal(cmd) == ~cmd.pending

PushExchange(t) ==
  /\ push_pc[t] = "exchange"
  /\ write_buffer' = [write_buffer EXCEPT ![t] = middle_buffer[t]]
  /\ middle_buffer' = [middle_buffer EXCEPT ![t] = write_buffer[t]]
  /\ push_pc' = [push_pc EXCEPT ![t] =
       IF NeedsSignal(middle_buffer[t]) THEN "notify" ELSE "idle"]
  /\ UNCHANGED <<valid, exec, state, duration, owner, left, cmd_id, read_buffer,
                 signals, poolVars, backVars, execVars>>

NotifyTimerUpdate(t) ==
  /\ push_pc[t] = "notify"
  /\ push_pc' = [push_pc EXCEPT ![t] = "idle"]
  /\ signals' = [signals EXCEPT ![t] = @ + 1]
  /\ UNCHANGED <<valid, exec, state, duration, owner, left, cmd_id, write_buffer,
                 middle_buffer, read_buffer, poolVars, backVars, execVars>>

-----------------------------------------------------------------------------
(* The owner of a unique_timer.                                            *)

\* create_frontend_timer: a timer of the pool is reused as it is.
CreateCachedTimer(t) ==
  /\ t \in timer_free_list /\ push_pc[t] = "idle"
  /\ timer_free_list' = timer_free_list \ {t}
  /\ valid' = [valid EXCEPT ![t] = TRUE] /\ exec' = [exec EXCEPT ![t] = TRUE]
  /\ owner' = [owner EXCEPT ![t] = @ + 1]
  /\ UNCHANGED <<state, duration, push_pc, left, chanVars, known,
                 pending_timers_to_create, backVars, execVars>>

\* Mutant: a new timer is not handed to the back-end.
NoPendingTimer(t) == {}

PendingTimer(t) == {t}

\* The pool is empty: a timer with a new id.
CreateTimer(t) ==
  /\ timer_free_list = {} /\ owner[t] = 0 /\ t \notin Cached
  /\ pending_timers_to_create' = pending_timers_to_create \cup PendingTimer(t)
  /\ valid' = [valid EXCEPT ![t] = TRUE] /\ exec' = [exec EXCEPT ![t] = TRUE]
  /\ owner' = [owner EXCEPT ![t] = 1]
  /\ StartPush(t, "create", 0)
  /\ UNCHANGED <<state, duration, left, known, timer_free_list, backVars, execVars>>

Ticks(d) == IF d > 1 THEN d ELSE 1

Begin(t, d) ==
  /\ state' = [state EXCEPT ![t] = "running"]
  /\ left' = [left EXCEPT ![t] = Ticks(d)]
  /\ StartPush(t, "start", d)

Set(t, d) ==
  /\ valid[t] /\ push_pc[t] = "idle"
  /\ duration' = [duration EXCEPT ![t] = d]
  /\ \/ state[t] = "running" /\ Begin(t, d)
     \/ state[t] # "running" /\ UNCHANGED <<state, left, push_pc, chanVars>>
  /\ UNCHANGED <<valid, exec, owner, poolVars, backVars, execVars>>

Run(t) ==
  /\ valid[t] /\ duration[t] # INVALID_DURATION
  /\ Begin(t, duration[t])
  /\ UNCHANGED <<valid, exec, duration, owner, poolVars, backVars, execVars>>

Stop(t) ==
  /\ valid[t] /\ state[t] = "running"
  /\ state' = [state EXCEPT ![t] = "stopped"]
  /\ left' = [left EXCEPT ![t] = 0]
  /\ StartPush(t, "stop", 0)
  /\ UNCHANGED <<valid, exec, duration, owner, poolVars, backVars, execVars>>

\* unique_timer::reset and frontend_handle::destroy.
Reset(t) ==
  /\ valid[t]
  /\ valid' = [valid EXCEPT ![t] = FALSE]
  /\ state' = [state EXCEPT ![t] = "stopped"]
  /\ left' = [left EXCEPT ![t] = 0]
  /\ StartPush(t, "destroy", 0)
  /\ UNCHANGED <<exec, duration, owner, poolVars, backVars, execVars>>

\* Mutant: the expiry of an earlier run is taken for the current one.
AnyEpoch(t, epoch) == state[t] = "running"

\* Has the timer been left alone since the expiry was dispatched?
SameEpoch(t, epoch) == cmd_id[t] = epoch

\* The task of trigger_timeout_handling, on the executor it was deferred to.
RunTimeout(t) ==
  \E task \in tasks[t] :
    /\ task[2] = owner[t] => push_pc[t] = "idle"
    /\ tasks' = [tasks EXCEPT ![t] = @ \ {task}]
    /\ state' = [state EXCEPT ![t] = IF SameEpoch(t, task[1]) THEN "expired" ELSE @]
    /\ UNCHANGED <<valid, exec, duration, push_pc, owner, left, chanVars, poolVars,
                   backVars, failures>>

-----------------------------------------------------------------------------
(* timer_manager::tick, on one thread.                                     *)

\* handle_timer_commands: the ids queued so far.
PopUpdatedTimers ==
  /\ tick_pc = "expire" /\ todo = {} /\ tick_pc' = "commands"
  /\ batch' = signals /\ signals' = [t \in Timers |-> 0]
  /\ UNCHANGED <<frontVars, cmd_id, write_buffer, middle_buffer, read_buffer, poolVars,
                 backend, failed_to_trigger_timers, cur_time, todo, missed, execVars>>

\* start_timer_backend
Timeout(d) == (cur_time + Ticks(d)) % TimeModulus

\* handle_timer_updates: the state of the timer after this command.
Updated(b, cmd) ==
  CASE cmd.action = "create"  -> [b EXCEPT !.cmd_id = cmd.cmd_id]
    [] cmd.action = "start"   -> [cmd_id |-> cmd.cmd_id, state |-> "running",
                                  timeout |-> Timeout(cmd.duration)]
    [] cmd.action = "destroy" -> [cmd_id |-> cmd.cmd_id, state |-> "stopped", timeout |-> 0]
    [] OTHER -> [b EXCEPT !.cmd_id = cmd.cmd_id,
                          !.state = IF @ = "running" THEN "stopped" ELSE @]

\* destroy_timer_backend clears the front-end and returns the timer to the pool.
DestroyTimer(t) ==
  /\ state' = [state EXCEPT ![t] = "stopped"]
  /\ duration' = [duration EXCEPT ![t] = INVALID_DURATION]
  /\ exec' = [exec EXCEPT ![t] = FALSE]
  /\ timer_free_list' = timer_free_list \cup {t}

\* Mutant: the command is not marked as processed.
Unprocessed(cmd) == cmd

\* The id is invalidated; nothing else of the buffer is looked at again.
Processed(cmd) == NoCmd

\* One id: a timer that is new to the back-end is created first, then the
\* command in the middle buffer is taken (pop) and applied.
HandleTimerUpdate(t) ==
  LET cmd == middle_buffer[t]
      all == IF t \in known THEN known ELSE known \cup pending_timers_to_create IN
  /\ tick_pc = "commands" /\ batch[t] > 0
  /\ batch' = [batch EXCEPT ![t] = @ - 1]
  /\ known' = all
  /\ pending_timers_to_create' = IF t \in known THEN pending_timers_to_create ELSE {}
  /\ \/ /\ t \notin all /\ missed' = TRUE
        /\ UNCHANGED <<middle_buffer, read_buffer, backend, state, duration, exec,
                       timer_free_list>>
     \/ /\ t \in all
        /\ read_buffer' = [read_buffer EXCEPT ![t] = Processed(cmd)]
        /\ middle_buffer' = [middle_buffer EXCEPT ![t] = read_buffer[t]]
        /\ \/ /\ ~cmd.pending /\ missed' = TRUE
              /\ UNCHANGED <<backend, state, duration, exec, timer_free_list>>
           \/ /\ cmd.pending /\ UNCHANGED missed
              /\ backend' = [backend EXCEPT ![t] = Updated(@, cmd)]
              /\ \/ cmd.action = "destroy" /\ DestroyTimer(t)
                 \/ /\ cmd.action # "destroy"
                    /\ UNCHANGED <<state, duration, exec, timer_free_list>>
  /\ UNCHANGED <<valid, push_pc, owner, left, cmd_id, write_buffer, signals,
                 failed_to_trigger_timers, cur_time, tick_pc, todo, execVars>>

CommandsHandled == tick_pc = "commands" /\ \A t \in Timers : batch[t] = 0

\* trigger_timeout_handling: the executor takes the task or refuses it.
DeferTimeout(t) ==
  /\ tasks' = [tasks EXCEPT ![t] = @ \cup {<<backend[t].cmd_id, owner[t]>>}]
  /\ UNCHANGED failures
DeferFails ==
  /\ failures < MaxDeferFailures /\ failures' = failures + 1
  /\ UNCHANGED tasks

\* Mutant: a postponed expiry is dispatched whatever the owner has done since.
StillDueAlways(t, epoch) == TRUE

\* Does the run that ended with this command still wait for its expiry?
StillDue(t, epoch) == backend[t].cmd_id = epoch /\ epoch = cmd_id[t]

\* One turn of the loop of handle_postponed_timeouts; a refusal ends it.
HandlePostponedTimeout ==
  LET first == Head(failed_to_trigger_timers) IN
  /\ CommandsHandled /\ failed_to_trigger_timers # <<>>
  /\ \/ /\ StillDue(first[1], first[2]) /\ DeferFails
        /\ tick_pc' = "advance" /\ UNCHANGED failed_to_trigger_timers
     \/ /\ StillDue(first[1], first[2]) /\ DeferTimeout(first[1])
        /\ failed_to_trigger_timers' = Tail(failed_to_trigger_timers) /\ UNCHANGED tick_pc
     \/ /\ ~StillDue(first[1], first[2]) /\ UNCHANGED execVars
        /\ failed_to_trigger_timers' = Tail(failed_to_trigger_timers) /\ UNCHANGED tick_pc
  /\ UNCHANGED <<frontVars, chanVars, poolVars, backend, cur_time, batch, todo, missed>>

\* time_wheel: running timers by their timeout.
WheelList(time) ==
  {t \in Timers : backend[t].state = "running"
                    /\ backend[t].timeout % WHEEL_SIZE = time % WHEEL_SIZE}

\* Mutant: the clock does not wrap.
TimeAfterUnbounded(time) == time + 1

\* cur_time is unsigned.
TimeAfter(time) == (time + 1) % TimeModulus

AdvanceTime ==
  /\ tick_pc = "advance" \/ (CommandsHandled /\ failed_to_trigger_timers = <<>>)
  /\ cur_time' = TimeAfter(cur_time)
  /\ left' = [t \in Timers |-> IF left[t] > 0 THEN left[t] - 1 ELSE 0]
  /\ todo' = WheelList(cur_time') /\ tick_pc' = "expire"
  /\ UNCHANGED <<valid, exec, state, duration, push_pc, owner, chanVars, poolVars, backend,
                 failed_to_trigger_timers, batch, missed, execVars>>

\* try_stop_timer_backend with expiry_reason, for one timer of the wheel list.
\* The owner's cmd_id is only an estimate here: RunTimeout looks again.
ExpireTimer(t) ==
  /\ tick_pc = "expire" /\ t \in todo
  /\ todo' = todo \ {t}
  /\ \/ /\ backend[t].timeout # cur_time
        /\ UNCHANGED <<backend, failed_to_trigger_timers, execVars>>
     \/ /\ backend[t].timeout = cur_time
        /\ backend' = [backend EXCEPT ![t].state = "expired"]
        /\ \/ /\ backend[t].cmd_id = cmd_id[t] /\ DeferTimeout(t)
              /\ UNCHANGED failed_to_trigger_timers
           \/ /\ backend[t].cmd_id = cmd_id[t] /\ DeferFails
              /\ failed_to_trigger_timers' =
                   Append(failed_to_trigger_timers, <<t, backend[t].cmd_id>>)
           \/ /\ backend[t].cmd_id # cmd_id[t]
              /\ UNCHANGED <<failed_to_trigger_timers, execVars>>
  /\ UNCHANGED <<frontVars, chanVars, poolVars, cur_time, tick_pc, batch, missed>>

Tick ==
  \/ PopUpdatedTimers \/ HandlePostponedTimeout \/ AdvanceTime
  \/ \E t \in Timers : HandleTimerUpdate(t) \/ ExpireTimer(t)

Next ==
  \/ Tick
  \/ \E t \in Timers :
       \/ PushExchange(t) \/ NotifyTimerUpdate(t) \/ RunTimeout(t)
       \/ CreateCachedTimer(t) \/ CreateTimer(t)
       \/ Run(t) \/ Stop(t) \/ Reset(t) \/ \E d \in Durations : Set(t, d)

\* The clock keeps ticking, and an executor finishes what it has started and
\* runs what was deferred to it.
Fairness ==
  /\ WF_vars(Tick)
  /\ \A t \in Timers : WF_vars(PushExchange(t) \/ NotifyTimerUpdate(t)) /\ WF_vars(RunTimeout(t))

Spec == Init /\ [][Next]_vars /\ Fairness

-----------------------------------------------------------------------------
(* Properties.                                                             *)

One(b) == IF b THEN 1 ELSE 0

\* A command in the middle buffer has exactly one id on its way to the
\* back-end, and an id always has its command: push may skip the signal when
\* the last command has not been processed, and no update is lost by it.
SignalPerCommand ==
  \A t \in Timers :
    One(middle_buffer[t].pending)
      = signals[t] + batch[t] + One(push_pc[t] = "notify")

\* handle_timer_commands never finds an id without a timer or a command: the
\* branches logged as "Timer hasn't been created" and "no pending commands".
NoUpdateIsMissed == ~missed

\* The assertion of trigger_timeout_handling, "The timer can only expire if it
\* was already running", holds in whatever order commands, ticks and the tasks
\* of former owners run; and no run has two expiries under way.
ExpiryFindsRunning ==
  \A t \in Timers :
    /\ \A task \in tasks[t] : task[1] = cmd_id[t] =>
         state[t] = "running" /\ task[2] = owner[t]
    /\ \A i \in DOMAIN failed_to_trigger_timers :
         failed_to_trigger_timers[i] = <<t, cmd_id[t]>> =>
           \A task \in tasks[t] : task[1] # cmd_id[t]

\* What the owner of a timer sees is an atomic timer.
Service == INSTANCE TimerService WITH
  duration <- [t \in Timers |-> IF valid[t] THEN duration[t] ELSE INVALID_DURATION]

\* The two threads, the triple buffer, the wheel and the deferred tasks
\* together implement the atomic timer, and every run that is left alone
\* expires, even if executors refuse the expiry at first.
ImplementsTimerService == Service!Spec

\* A timer whose unique_timer is gone returns to the pool, so that timers are
\* not used up by components that come and go.
ResetReturnsTimer ==
  \A t \in Timers : (owner[t] > 0 /\ ~valid[t]) ~> (t \in timer_free_list \/ valid[t])
=============================================================================

---------------------------- MODULE TimerService ----------------------------
(***************************************************************************)
(* What a unique_timer promises the component that owns it                 *)
(* (include/ocudu/support/timers.h): the owner sees one atomic timer.  An  *)
(* expiry belongs to the run in progress, comes no earlier than its        *)
(* duration, never after a stop, a restart or a reset, at most once, and   *)
(* in the end it comes.  The models of RLC and PDCP use timers this way.   *)
(***************************************************************************)
EXTENDS Integers

CONSTANTS
  Timers,
  Durations          \* durations a timer may be set to, in ticks

INVALID_DURATION == -1

VARIABLES
  valid,      \* timer -> is it held by a unique_timer?
  state,      \* timer -> as its owner sees it
  duration,   \* timer -> duration of the next run
  left        \* timer -> ticks before the run in progress may expire

vars == <<valid, state, duration, left>>

Ticks(d) == IF d > 1 THEN d ELSE 1     \* a run takes at least one tick

Init ==
  /\ valid = [t \in Timers |-> FALSE]
  /\ state = [t \in Timers |-> "stopped"]
  /\ duration = [t \in Timers |-> INVALID_DURATION]
  /\ left = [t \in Timers |-> 0]

Create(t) ==
  /\ ~valid[t]
  /\ valid' = [valid EXCEPT ![t] = TRUE]
  /\ UNCHANGED <<state, duration, left>>

Begin(t, d) ==
  /\ state' = [state EXCEPT ![t] = "running"]
  /\ left' = [left EXCEPT ![t] = Ticks(d)]

\* A timer that is running is restarted with the new duration.
Set(t, d) ==
  /\ valid[t]
  /\ duration' = [duration EXCEPT ![t] = d]
  /\ \/ state[t] = "running" /\ Begin(t, d)
     \/ state[t] # "running" /\ UNCHANGED <<state, left>>
  /\ UNCHANGED valid

Run(t) ==
  /\ valid[t] /\ duration[t] # INVALID_DURATION
  /\ Begin(t, duration[t])
  /\ UNCHANGED <<valid, duration>>

Stop(t) ==
  /\ valid[t] /\ state[t] = "running"
  /\ state' = [state EXCEPT ![t] = "stopped"]
  /\ left' = [left EXCEPT ![t] = 0]
  /\ UNCHANGED <<valid, duration>>

Reset(t) ==
  /\ valid[t]
  /\ valid' = [valid EXCEPT ![t] = FALSE]
  /\ state' = [state EXCEPT ![t] = "stopped"]
  /\ duration' = [duration EXCEPT ![t] = INVALID_DURATION]
  /\ left' = [left EXCEPT ![t] = 0]

\* One tick of the clock.
Elapse ==
  /\ left' = [t \in Timers |-> IF left[t] > 0 THEN left[t] - 1 ELSE 0]
  /\ UNCHANGED <<valid, state, duration>>

\* The timeout callback runs on the owner's executor.
Expire(t) ==
  /\ state[t] = "running" /\ left[t] = 0
  /\ state' = [state EXCEPT ![t] = "expired"]
  /\ UNCHANGED <<valid, duration, left>>

Next ==
  \/ Elapse
  \/ \E t \in Timers :
       \/ Create(t) \/ Run(t) \/ Stop(t) \/ Reset(t) \/ Expire(t)
       \/ \E d \in Durations : Set(t, d)

\* A run that is not stopped, restarted or reset expires.
Spec == Init /\ [][Next]_vars /\ \A t \in Timers : WF_vars(Expire(t))
=============================================================================

--------------------------- MODULE MCTimerManager ---------------------------
(***************************************************************************)
(* The timer manager for TLC.                                              *)
(***************************************************************************)
EXTENDS TimerManager

CommandBound == <<5>>
=============================================================================

----------------------------- MODULE RestartTimes -----------------------------
(***************************************************************************)
(* When the server restarts: what BreakingPointExt::timeUntilRestart and   *)
(* serverTime read off the wall clock, and how Rcon::mainLoop takes it.    *)
(*                                                                         *)
(* The two functions of BreakingPointExt.cpp have a list of hours each and *)
(* a formula each; that they agree is a matter of properties.              *)
(***************************************************************************)
EXTENDS Integers

(* The hours in whose last minutes the server restarts. *)
shutdownTimes == {2, 5, 8, 11, 14, 17, 20, 23}

(* Fault: >= 54. *)
shutdownModeEarly(hour, minute) == hour \in shutdownTimes /\ minute >= 54

(* Minutes, 61 when it is not one of the hours. *)
timeUntilRestart(hour, minute) ==
  IF hour \in shutdownTimes THEN 60 - minute ELSE 61

(* What serverTime tells the game: the last minutes have begun. *)
shutdownMode(hour, minute) == hour \in shutdownTimes /\ minute > 54

(* What the loop makes of timeUntilRestart. *)
timeUntilShutdownMode(until) == until - 5
RestartDue(until) == until < 2
WarningDue(until, lastWarningMinute) ==
  /\ until < 60 /\ ~RestartDue(until)
  /\ timeUntilShutdownMode(until) # lastWarningMinute
IsSaid(until) == timeUntilShutdownMode(until) >= 1
=============================================================================

----------------------------- MODULE MCTimerSys -----------------------------
(***************************************************************************)
(* TimerSys for TLC; see TimerSys_micros.cfg.                              *)
(***************************************************************************)
EXTENDS TimerSys
=============================================================================

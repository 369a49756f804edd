---------------------------- MODULE MCPageTable ----------------------------
(***************************************************************************)
(* PageTable for TLC.  The state space is finite: no constraint is needed.  *)
(***************************************************************************)
EXTENDS PageTable
=============================================================================

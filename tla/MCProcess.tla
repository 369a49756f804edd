----------------------------- MODULE MCProcess -----------------------------
(***************************************************************************)
(* The instance of Process that TLC checks, with the calls that break the  *)
(* lists; see Process_reattach.cfg.  The calls that keep them are in the   *)
(* run of MCSketch.                                                        *)
(***************************************************************************)
EXTENDS Process

\* The processes are the slots of the manager's table, MAX_PROCESSES of them.
MCProcesses == 0 .. 3
=============================================================================

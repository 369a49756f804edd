------------------------------- MODULE Clock -------------------------------
(***************************************************************************)
(* What SystemTimer promises to its callers, and what module TimedTask     *)
(* takes for granted: a count of ticks that wraps at CLOCK_MOD, from       *)
(* whatever it begins with, and readings that return it as it is at one    *)
(* instant.                                                                *)
(***************************************************************************)
EXTENDS Integers

CONSTANT CLOCK_MOD

VARIABLES
  now,   \* the count
  answer \* what the last reading returned

Init == now \in 0 .. CLOCK_MOD - 1 /\ answer = 0

Tick == now' = (now + 1) % CLOCK_MOD /\ UNCHANGED answer

Read == answer' = now /\ UNCHANGED now

Spec == Init /\ [][Tick \/ Read]_<<now, answer>>
=============================================================================

---------------------------- MODULE MCTimedTask ----------------------------
(***************************************************************************)
(* The instances of TimedTask that TLC checks; see the TimedTask_*.cfg.    *)
(***************************************************************************)
EXTENDS TimedTask

MCIntervals == {2, 5}

\* The task of the sketch, which the one-argument constructor makes.
SketchTaskSpec ==
  /\ previous = [t \in Task |-> 0] /\ active = [t \in Task |-> TRUE]
  /\ TimedSpec
=============================================================================

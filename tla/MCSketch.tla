------------------------------ MODULE MCSketch ------------------------------
(***************************************************************************)
(* The instance of Sketch that TLC checks; see Sketch_tasks.cfg.           *)
(***************************************************************************)
EXTENDS Sketch

MCSensors == {0}
MCLoggers == {1}
MCCleaned == {0, 1}
=============================================================================

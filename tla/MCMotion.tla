------------------------------- MODULE MCMotion -------------------------------
(***************************************************************************)
(* A small sensor: one unit is one 10 ms cycle, and a cycle may be late by *)
(* one.  Two samples complete a calibration, two moving ones fail it, two  *)
(* bad ones in a row degrade the service, a recovery is tried every 3      *)
(* units, a gap above 2 is too long for the estimator.                     *)
(***************************************************************************)
EXTENDS MotionService

\* MaxQuietAge is large enough for these periods and cycle times.
ASSUME InstanceIsTimely == Timely(3, 2)
===============================================================================

------------------------------ MODULE MCActuator ------------------------------
(***************************************************************************)
(* A small actuator: 12 ticks to a wrap, a timeout of 4, the long pauses   *)
(* capped at 3; a window of five pulses whose top does not fit the timer,  *)
(* so that a compare write can fail; requests on both sides of the window. *)
(***************************************************************************)
EXTENDS ActuatorService

MCAngleMin == -3
MCAngleCenter == 0
MCAngleMax == 4
MCAngles == {-9, -2, 1, 9}
===============================================================================

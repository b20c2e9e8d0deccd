------------------------------ MODULE SafeOutput ------------------------------
(***************************************************************************)
(* What the servo wired to TIM3_CH1 is promised, whoever commands it: the  *)
(* pulse train starts at the centre, it stays inside the safe window, and  *)
(* while it runs two consecutive pulses differ by at most MaxJump.  The    *)
(* compare register may be moved back to the centre while output is off.   *)
(***************************************************************************)
EXTENDS Integers

CONSTANTS
  Low, Centre, High,  (* the safe window and its centre, in microseconds   *)
  MaxJump             (* largest change of a running pulse                 *)

VARIABLES
  on,                 (* the timer drives the pin                          *)
  pulse               (* width held by the compare register                *)

vars == <<on, pulse>>

Init == on = FALSE /\ pulse = Centre

SwitchOn == ~on /\ on' /\ pulse' = Centre

SwitchOff == on /\ ~on' /\ pulse' = pulse

Preset == ~on /\ ~on' /\ pulse' = Centre

Move ==
  /\ on /\ on'
  /\ pulse' \in Low..High
  /\ pulse' - pulse <= MaxJump
  /\ pulse - pulse' <= MaxJump

Next == SwitchOn \/ SwitchOff \/ Preset \/ Move

Spec == Init /\ [][Next]_vars
===============================================================================

----------------------------- MODULE MCSafetyLoop -----------------------------
(***************************************************************************)
(* A small loop: one unit is one 10 ms cycle, a cycle may be late by one;  *)
(* frames are stale after 2 and a PID step takes frames 1 apart; the pulse *)
(* window has three values and the servo crosses it in two steps.          *)
(***************************************************************************)
EXTENDS SafetyLoop, TLC

MCAngleMin == -1
MCAngleCenter == 0
MCAngleMax == 1

\* Nothing tells one axis from another.
AxisSymmetry == Permutations(Axes)
===============================================================================

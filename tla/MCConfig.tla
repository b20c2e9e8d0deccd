------------------------------- MODULE MCConfig -------------------------------
(***************************************************************************)
(* Two periods, and two tunings: the default one, which a save keeps, and  *)
(* one that a save rounds to it.                                           *)
(***************************************************************************)
EXTENDS ConfigService

MCRounded == [t \in {"default", "fine"} |-> "default"]
MCConfigs == [period : Periods, stream : BOOLEAN, axis : Axes, tuning : {"default"}]
MCDefaults == [period |-> 10, stream |-> FALSE, axis |-> "PITCH", tuning |-> "default"]
===============================================================================

---------------------------- MODULE PersistentCell ----------------------------
(***************************************************************************)
(* What the configuration store promises to whoever saves, loads and       *)
(* resets: one durable configuration, the one the next boot will load.     *)
(*                                                                         *)
(* A save that was answered OK is durable.  One that failed, or that a     *)
(* power cut interrupted, leaves its outcome open: the next boot finds the *)
(* old or the new configuration, never anything else, and what it finds is *)
(* then settled.  An unfinished factory reset promises less: it may also   *)
(* leave the factory defaults, or bring back the configuration that was    *)
(* settled before the present one, which the other slot still holds.       *)
(***************************************************************************)
CONSTANTS
  Configs,    (* configurations that can be stored                         *)
  Defaults    (* the factory defaults                                      *)

VARIABLES
  durable,    (* what a boot at this moment would load                     *)
  promised,   (* what the next boot may be found to have loaded            *)
  settled,    (* the last configuration that was acknowledged or loaded    *)
  previous    (* the one settled before it                                 *)

cellVars == <<durable, promised, settled, previous>>

CellInit ==
  durable = Defaults /\ promised = {Defaults} /\ settled = Defaults /\ previous = Defaults

\* A save has begun: from now on its configuration may be found.
TrySave(c) ==
  /\ promised' = promised \union {c} /\ durable' \in promised'
  /\ UNCHANGED <<settled, previous>>

\* Flash changes under a running operation.
Drift == durable' \in promised /\ UNCHANGED <<promised, settled, previous>>

\* A reset has begun.
TryReset ==
  /\ promised' = promised \union {previous, Defaults} /\ durable' \in promised'
  /\ UNCHANGED <<settled, previous>>

\* A save or a reset is acknowledged with c.
Acknowledge(c) ==
  /\ durable' = c /\ promised' = {c}
  /\ settled' = c /\ previous' = settled

\* A boot or a load finds what is durable, which ends every doubt.
Observe ==
  /\ UNCHANGED durable
  /\ promised' = {durable} /\ settled' = durable
  /\ previous' = IF durable = settled THEN previous ELSE settled

CellNext ==
  \/ Drift \/ TryReset \/ Observe
  \/ \E c \in Configs : TrySave(c) \/ Acknowledge(c)

CellSpec == CellInit /\ [][CellNext]_cellVars
===============================================================================

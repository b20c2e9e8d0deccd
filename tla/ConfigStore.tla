------------------------------ MODULE ConfigStore ------------------------------
(***************************************************************************)
(* The dual-slot configuration store: two flash pages, each with a record  *)
(* of a configuration and a generation that counts only once its commit    *)
(* marker is programmed.  A save overwrites the page the present           *)
(* configuration did not come from; a factory reset erases both.           *)
(*                                                                         *)
(* Every flash operation is a step of its own, may fail, and may be the    *)
(* last one before the power is cut.  A record is read as a whole: a page  *)
(* that is erased, half programmed, or without a marker is one invalid     *)
(* slot.  An erase that fails leaves the page as it was or invalid; a      *)
(* failed commit may still have programmed the marker.  Counters and the   *)
(* copy s_current, which nothing reads back, are left out; so is the save  *)
(* interval, which only refuses: a save it refuses is one not asked for.   *)
(***************************************************************************)
EXTENDS Integers

CONSTANTS
  Configs,    (* configurations ConfigStore_IsConfigValid accepts          *)
  Defaults,   (* Config_GetFactoryDefaults                                 *)
  GenMod      (* 2^32: generations wrap                                    *)

ASSUME StoreAssumption ==
  /\ Defaults \in Configs
  /\ GenMod \in Nat /\ GenMod >= 4 /\ GenMod % 2 = 0

SlotNames == {"A", "B"}
Generations == 0..(GenMod - 1)
Records == [valid : BOOLEAN, config : Configs, generation : Generations]
Invalid == [valid |-> FALSE, config |-> Defaults, generation |-> 0]

VARIABLES
  slots,        (* what ReadSlot makes of the two pages                    *)
  storePC,      (* the flash operation that is next, "idle" between two    *)
  job,          (* the configuration being saved                           *)
  source,       (* s_status.loaded_from                                    *)
  generation,   (* s_status.generation                                     *)
  dirty,        (* s_status.dirty                                          *)
  promised, settled, previous   (* as in PersistentCell: history only      *)

ramVars == <<source, generation, dirty>>
historyVars == <<promised, settled, previous>>
storeVars == <<slots, storePC, job, source, generation, dirty, promised, settled, previous>>

-------------------------------------------------------------------------------

\* IsNewer: the wrapping difference is positive.
IsNewer(a, b) == (a - b) % GenMod \in 1..(GenMod \div 2 - 1)

Selected ==
  IF slots["A"].valid
       /\ (~slots["B"].valid \/ ~IsNewer(slots["B"].generation, slots["A"].generation))
  THEN "A"
  ELSE IF slots["B"].valid THEN "B" ELSE "DEFAULTS"

LoadedConfig == IF Selected = "DEFAULTS" THEN Defaults ELSE slots[Selected].config
LoadedGeneration == IF Selected = "DEFAULTS" THEN 0 ELSE slots[Selected].generation

\* Faulty variant: a configuration loaded from B is overwritten in place.
TargetInPlace == IF source = "DEFAULTS" THEN "A" ELSE source

Target == IF source = "A" THEN "B" ELSE "A"

\* Faulty variant: the generation is not advanced.
SameGeneration == generation

\* Faulty variant: the generation does not wrap.
GenerationUnwrapped == generation + 1

NextGeneration == (generation + 1) % GenMod

StoreInit ==
  /\ slots = [s \in SlotNames |-> Invalid]
  /\ storePC = "idle" /\ job = Defaults
  /\ source = "DEFAULTS" /\ generation = 0 /\ dirty = FALSE
  /\ promised = {Defaults} /\ settled = Defaults /\ previous = Defaults

\* What Acknowledge and Observe of the cell do to the history.
HistoryAcknowledges(c) == promised' = {c} /\ settled' = c /\ previous' = settled
HistoryObserves ==
  /\ promised' = {LoadedConfig} /\ settled' = LoadedConfig
  /\ previous' = IF LoadedConfig = settled THEN previous ELSE settled

-------------------------------------------------------------------------------

\* Both pages are read and the newer valid record is taken.
TakeSelected ==
  /\ source' = Selected /\ generation' = LoadedGeneration /\ dirty' = FALSE
  /\ HistoryObserves
  /\ UNCHANGED slots

\* ConfigStore_Init, after a power cut at any moment.
StoreBoot == TakeSelected /\ storePC' = "idle" /\ job' = Defaults

StoreLoad == storePC = "idle" /\ TakeSelected /\ UNCHANGED <<storePC, job>>

MarkDirty == dirty' = TRUE /\ UNCHANGED <<slots, storePC, job, source, generation, historyVars>>

StartSave(c) ==
  /\ storePC = "idle" /\ storePC' = "erase" /\ job' = c
  /\ promised' = promised \union {c}
  /\ UNCHANGED <<slots, ramVars, settled, previous>>

\* An operation of a save failed: what is known in RAM stays.
Fails == storePC' = "idle" /\ job' = Defaults

EraseResults(s) == {slots, [slots EXCEPT ![s] = Invalid]}

Erase ==
  /\ storePC = "erase"
  /\ \/ slots' = [slots EXCEPT ![Target] = Invalid] /\ storePC' = "program" /\ UNCHANGED job
     \/ slots' \in EraseResults(Target) /\ Fails
  /\ UNCHANGED <<ramVars, historyVars>>

\* The record without its marker, read back and its CRC compared.
Program ==
  /\ storePC = "program"
  /\ (storePC' = "commit" /\ UNCHANGED job) \/ Fails
  /\ UNCHANGED <<slots, ramVars, historyVars>>

Committed ==
  [slots EXCEPT ![Target] = [valid |-> TRUE, config |-> job, generation |-> NextGeneration]]

Commit ==
  /\ storePC = "commit"
  /\ \/ slots' = Committed /\ storePC' = "adopt" /\ UNCHANGED job
     \/ slots' \in {slots, Committed} /\ Fails
  /\ UNCHANGED <<ramVars, historyVars>>

\* Only now does the status follow, and the save is answered OK.
Adopt ==
  /\ storePC = "adopt" /\ storePC' = "idle" /\ job' = Defaults
  /\ source' = Target /\ generation' = NextGeneration /\ dirty' = FALSE
  /\ HistoryAcknowledges(job)
  /\ UNCHANGED slots

StartReset ==
  /\ storePC = "idle" /\ storePC' = "resetA"
  /\ promised' = promised \union {previous, Defaults}
  /\ UNCHANGED <<slots, job, ramVars, settled, previous>>

ResetA ==
  /\ storePC = "resetA"
  /\ \/ slots' = [slots EXCEPT !["A"] = Invalid] /\ storePC' = "resetB" /\ UNCHANGED job
     \/ slots' \in EraseResults("A") /\ Fails
  /\ UNCHANGED <<ramVars, historyVars>>

ResetBFails ==
  /\ storePC = "resetB"
  /\ slots' \in EraseResults("B") /\ Fails
  /\ UNCHANGED <<ramVars, historyVars>>

ResetB ==
  /\ storePC = "resetB" /\ storePC' = "idle"
  /\ slots' = [slots EXCEPT !["B"] = Invalid]
  /\ source' = "DEFAULTS" /\ generation' = 0 /\ dirty' = FALSE
  /\ HistoryAcknowledges(Defaults)
  /\ UNCHANGED job

-------------------------------------------------------------------------------

StoreTypeOK ==
  /\ slots \in [SlotNames -> Records]
  /\ storePC \in {"idle", "erase", "program", "commit", "adopt", "resetA", "resetB"}
  /\ job \in Configs
  /\ source \in SlotNames \union {"DEFAULTS"}
  /\ generation \in Generations /\ dirty \in BOOLEAN
  /\ promised \subseteq Configs /\ settled \in Configs /\ previous \in Configs

\* Two valid records are always exactly one generation apart, across the
\* wrap, so that the wrapping comparison of ReadSlot's callers never has to
\* choose between equal or distant generations and A's preference on a tie
\* never decides: whatever saves, resets and power cuts came before.
NewestIsUnambiguous ==
  slots["A"].valid /\ slots["B"].valid =>
    (slots["A"].generation - slots["B"].generation) % GenMod \in {1, GenMod - 1}

Cell == INSTANCE PersistentCell WITH durable <- LoadedConfig

\* The store keeps the promise of PersistentCell: an acknowledged save
\* outlives every power cut and every later failed save, an interrupted one
\* leaves the old or the new configuration, and only an unfinished factory
\* reset can bring back anything older.
ImplementsCell == Cell!CellSpec
===============================================================================

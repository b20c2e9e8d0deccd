----------------------------- MODULE ConfigService -----------------------------
(***************************************************************************)
(* The configuration in force and the commands that change it, save it and *)
(* restore it, over the ConfigStore.  All commands run to their end in     *)
(* SensorTask, so nothing comes between two flash operations of a save but *)
(* a power cut.                                                            *)
(*                                                                         *)
(* A configuration is a sample period (it stands for every field that      *)
(* ConfigService_Set hands to another service before the log level), the   *)
(* streaming flag, the controlled axis, and a PID tuning (it stands for    *)
(* whatever else ControlService keeps of a configuration).  The logger's   *)
(* lock is wanted by other tasks and may time out; at boot it is not       *)
(* installed yet.  A tuning in force is made of floats: what a save keeps  *)
(* of it is Rounded[t], and a tuning without an image (an output limit     *)
(* above the 10 us that ConfigStore_IsConfigValid allows) cannot be saved. *)
(* Rounding is not idempotent in general: 4.003 is kept as 4.002, and that *)
(* as 4.001.                                                               *)
(*                                                                         *)
(* The leak factor of the integrator is set together with the tuning, but  *)
(* has no field in the stored record: nothing saves or restores it, and    *)
(* only a boot sets it back.  And CONTROL_ENABLE chooses the axis without  *)
(* marking the configuration dirty.                                        *)
(***************************************************************************)
EXTENDS ConfigStore

CONSTANTS
  Periods,    (* sample periods SET_CONFIG may choose                      *)
  Axes,       (* axes that can be controlled                               *)
  Tunings,    (* tunings CONTROL_SET_PID may choose                        *)
  Leaks,      (* leak factors it may choose                                *)
  BootLeak,   (* integral_leak_factor of s_default_pid_config              *)
  Rounded     (* a storable tuning as (uint16_t)(gain * 1000.0F) keeps it  *)

Storable == DOMAIN Rounded

ASSUME ConfigAssumption ==
  /\ Storable \subseteq Tunings /\ BootLeak \in Leaks
  /\ \A t \in Storable : Rounded[t] \in Storable
  /\ Configs = [period : Periods, stream : BOOLEAN, axis : Axes,
                 tuning : {Rounded[t] : t \in Storable}]

VARIABLES
  runtime,        (* s_config                                              *)
  appliedPeriod,  (* what SensorService samples with                       *)
  axis,           (* ControlService's s_config.axis                        *)
  leak,           (* its pid.integral_leak_factor                          *)
  tuning,         (* the rest of it                                        *)
  mode,           (* CommandService's s_mode                               *)
  output,         (* "off", "armed", or "held" by the control loop         *)
  answer,         (* to the last SAVE, LOAD or RESET that was not BUSY:    *)
                  (* "OK", or any failure                                  *)
  refused,        (* the last ConfigService_Set gave up on the lock        *)
  reloaded,       (* a LOAD or RESET came after the last stream command    *)
                  (* or boot                                               *)
  turned          (* CONTROL_ENABLE was the last to choose the axis, and   *)
                  (* no SAVE has stored it; these three are history only   *)

serviceVars ==
  <<runtime, appliedPeriod, axis, leak, tuning, mode, output, answer, refused,
    reloaded, turned>>
controlVars == <<axis, leak, tuning, turned>>
configVars == <<storeVars, serviceVars>>

Settings == [period : Periods, stream : BOOLEAN]
SettingsOf(c) == [period |-> c.period, stream |-> c.stream]
ModeOf(stream) == IF stream THEN "PROTOCOL" ELSE "DEVELOPMENT"

ConfigInit ==
  /\ StoreInit
  /\ runtime = SettingsOf(Defaults) /\ appliedPeriod = Defaults.period
  /\ axis = Defaults.axis /\ tuning = Defaults.tuning /\ leak = BootLeak
  /\ mode = ModeOf(Defaults.stream) /\ output = "off" /\ answer = "OK"
  /\ refused = FALSE /\ reloaded = FALSE /\ turned = FALSE

-------------------------------------------------------------------------------

\* Faulty variant: the sensor is told of a period only when it is a new one.
SetRuntimeChangesOnly(r, locked) ==
  /\ appliedPeriod' = IF r.period = runtime.period THEN appliedPeriod ELSE r.period
  /\ runtime' = IF locked THEN r ELSE runtime
  /\ refused' = ~locked

\* ConfigService_Set of valid values: the period first, the log level under
\* the logger's lock, s_config last.
SetRuntime(r, locked) ==
  /\ appliedPeriod' = r.period
  /\ runtime' = IF locked THEN r ELSE runtime
  /\ refused' = ~locked

\* Faulty variant: the change is not marked.
SetConfigUnmarked(r) ==
  /\ storePC = "idle"
  /\ \E locked \in BOOLEAN :
       /\ SetRuntime(r, locked)
       /\ \/ locked /\ mode' = ModeOf(r.stream) /\ reloaded' = FALSE
          \/ ~locked /\ UNCHANGED <<mode, reloaded>>
  /\ UNCHANGED <<storeVars, controlVars, output, answer>>

\* SET_CONFIG and SET_STREAM_STATE.
SetConfig(r) ==
  /\ storePC = "idle"
  /\ \E locked \in BOOLEAN :
       /\ SetRuntime(r, locked)
       /\ \/ locked /\ MarkDirty /\ mode' = ModeOf(r.stream) /\ reloaded' = FALSE
          \/ ~locked /\ UNCHANGED <<storeVars, mode, reloaded>>
  /\ UNCHANGED <<controlVars, output, answer>>

SetStream(on) == SetConfig([runtime EXCEPT !.stream = on])

\* CONTROL_SET_PID and the like, BUSY while the loop is enabled.
SetTuning(t, l) ==
  /\ storePC = "idle" /\ output # "held"
  /\ tuning' = t /\ leak' = l /\ MarkDirty
  /\ UNCHANGED <<runtime, appliedPeriod, axis, mode, output, answer, refused, reloaded,
                 turned>>

SetAxis(a) ==
  /\ storePC = "idle" /\ output # "held"
  /\ axis' = a /\ turned' = FALSE /\ MarkDirty
  /\ UNCHANGED <<runtime, appliedPeriod, leak, tuning, mode, output, answer, refused,
                 reloaded>>

\* Apply: the runtime settings, then the axis and the tuning, stopping at the
\* first that is refused.  The leak factor stays as it is.
Apply(c, locked) ==
  /\ SetRuntime(SettingsOf(c), locked)
  /\ \/ /\ locked /\ output # "held" /\ answer' = "OK"
        /\ axis' = c.axis /\ tuning' = c.tuning /\ turned' = FALSE
     \/ /\ ~locked \/ output = "held"
        /\ answer' = "FAILED" /\ UNCHANGED <<axis, tuning, turned>>
  /\ UNCHANGED leak

\* Safe: nobody is armed, and the loop is not enabled.
Safe == output = "off"

\* ConfigPersistence_Save: what Capture reads, if valid and safe.
SaveCommand ==
  /\ Safe /\ tuning \in Storable
  /\ StartSave([period |-> runtime.period, stream |-> runtime.stream, axis |-> axis,
                tuning |-> Rounded[tuning]])
  /\ UNCHANGED serviceVars

SaveStep ==
  /\ Erase \/ Program \/ Commit \/ Adopt
  /\ answer' = IF storePC' # "idle" THEN answer
               ELSE IF storePC = "adopt" THEN "OK" ELSE "FAILED"
  /\ turned' = (turned /\ answer' # "OK")
  /\ UNCHANGED <<runtime, appliedPeriod, axis, leak, tuning, mode, output, refused,
                 reloaded>>

\* Faulty variant: a running hold does not stop a load.
LoadCommandAnyTime ==
  /\ StoreLoad
  /\ \E locked \in BOOLEAN : Apply(LoadedConfig, locked)
  /\ reloaded' = TRUE
  /\ UNCHANGED <<mode, output>>

LoadCommand ==
  /\ Safe
  /\ StoreLoad
  /\ \E locked \in BOOLEAN : Apply(LoadedConfig, locked)
  /\ reloaded' = TRUE
  /\ UNCHANGED <<mode, output>>

ResetCommand == Safe /\ StartReset /\ UNCHANGED serviceVars

ResetStep ==
  \/ /\ ResetA \/ ResetBFails
     /\ answer' = IF storePC' = "idle" THEN "FAILED" ELSE answer
     /\ UNCHANGED <<runtime, appliedPeriod, controlVars, mode, output, refused, reloaded>>
  \/ /\ ResetB
     /\ \E locked \in BOOLEAN : Apply(Defaults, locked)
     /\ reloaded' = TRUE
     /\ UNCHANGED <<mode, output>>

\* An arm, or a disarm or a disable.
OutputCommand ==
  /\ storePC = "idle"
  /\ \/ output' = "off"
     \/ output = "off" /\ output' = "armed"
  /\ UNCHANGED <<storeVars, runtime, appliedPeriod, controlVars, mode, answer, refused,
                 reloaded>>

\* CONTROL_ENABLE of the armed, on an axis of its own choice.
EnableOn(a) ==
  /\ storePC = "idle" /\ output = "armed" /\ output' = "held"
  /\ axis' = a /\ turned' = (turned \/ a # axis)
  /\ UNCHANGED <<storeVars, runtime, appliedPeriod, leak, tuning, mode, answer, refused,
                 reloaded>>

\* Faulty variant: CommandService starts before the configuration is loaded.
BootModeOfDefaults == ModeOf(Defaults.stream)

\* CommandService_Init, after ConfigPersistence_Init.
BootMode == ModeOf(LoadedConfig.stream)

\* The power is cut, in the middle of anything, and App_Init runs again.
PowerCycle ==
  /\ StoreBoot
  /\ runtime' = SettingsOf(LoadedConfig) /\ appliedPeriod' = LoadedConfig.period
  /\ axis' = LoadedConfig.axis /\ tuning' = LoadedConfig.tuning /\ leak' = BootLeak
  /\ mode' = BootMode /\ output' = "off" /\ answer' = "OK"
  /\ refused' = FALSE /\ reloaded' = FALSE /\ turned' = FALSE

ConfigNext ==
  \/ \E r \in Settings : SetConfig(r)
  \/ \E on \in BOOLEAN : SetStream(on)
  \/ \E t \in Tunings, l \in Leaks : SetTuning(t, l)
  \/ \E a \in Axes : SetAxis(a) \/ EnableOn(a)
  \/ SaveCommand \/ SaveStep \/ LoadCommand \/ ResetCommand \/ ResetStep
  \/ OutputCommand \/ PowerCycle

ConfigSpec == ConfigInit /\ [][ConfigNext]_configVars

-------------------------------------------------------------------------------

ConfigTypeOK ==
  /\ StoreTypeOK
  /\ runtime \in Settings /\ appliedPeriod \in Periods
  /\ axis \in Axes /\ leak \in Leaks /\ tuning \in Tunings
  /\ mode \in {"PROTOCOL", "DEVELOPMENT"}
  /\ output \in {"off", "armed", "held"} /\ answer \in {"OK", "FAILED"}
  /\ refused \in BOOLEAN /\ reloaded \in BOOLEAN /\ turned \in BOOLEAN

\* Is what is in force what the next boot will restore?
InForceIsStored ==
  /\ runtime = SettingsOf(LoadedConfig)
  /\ turned \/ axis = LoadedConfig.axis
  /\ \/ tuning = LoadedConfig.tuning
     \/ tuning \in Storable /\ Rounded[tuning] = LoadedConfig.tuning

\* While the status says "not dirty" and the last SAVE, LOAD or RESET was
\* answered OK, a power cycle changes nothing of the configuration in force
\* or of the period that is applied: across every order of settings, saves,
\* loads, resets and power cuts.  What it may change, because the code does
\* not mark it: the last digit of a gain; the leak factor, which no record
\* holds; the axis, if CONTROL_ENABLE chose it; and the period applied, if a
\* SET_CONFIG was refused half way.  (After a failed LOAD or RESET the flag
\* is clean and this need not hold.)
CleanMeansStored ==
  storePC = "idle" /\ ~dirty /\ answer = "OK"
    => InForceIsStored /\ (refused \/ appliedPeriod = LoadedConfig.period)

\* The protocol mode follows the streaming flag from boot on, refused
\* commands and power cuts included, until a LOAD or RESET changes the flag
\* behind CommandService's back.
ModeFollowsStream == ~reloaded => mode = ModeOf(runtime.stream)

\* The configuration in force.
InForce == <<runtime, axis, tuning>>

\* A LOAD, a RESET or a boot restores a configuration whole or not at all: a
\* step that changes what is in force or is applied, and leaves it clean,
\* leaves exactly the stored settings, axis and tuning in force and applied.
\* Apply stops at the first service that refuses; only the logger's lock may,
\* and then, as after a SET_CONFIG it refused, only the sampling period has
\* been applied, beside a configuration in force that is not touched.  The
\* one other step of this kind is CONTROL_ENABLE, which changes the axis.
RestoreIsWhole ==
  [][~dirty' /\ <<InForce, appliedPeriod>>' # <<InForce, appliedPeriod>>
       => \/ /\ runtime' = SettingsOf(LoadedConfig')
             /\ appliedPeriod' = LoadedConfig'.period
             /\ axis' = LoadedConfig'.axis /\ tuning' = LoadedConfig'.tuning
          \/ refused' /\ answer' # "OK" /\ UNCHANGED InForce
          \/ refused' /\ UNCHANGED <<storeVars, InForce, answer>>
          \/ /\ output = "armed" /\ output' = "held"
             /\ UNCHANGED <<storeVars, runtime, appliedPeriod, tuning>>]_configVars

\* The sampling period differs from the configuration that GET_CONFIG shows
\* only after a request that the logger's lock refused half way, and the next
\* accepted one, whatever its source, ends it.
PartialOnlyWhenRefused == ~refused => appliedPeriod = runtime.period
===============================================================================

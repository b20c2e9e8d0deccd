------------------------------ MODULE SafetyLoop ------------------------------
(***************************************************************************)
(* One SensorTask cycle and what it ties together: motion pipeline,        *)
(* control loop, sensor recovery, at most one queued command, actuator     *)
(* pass, in this order, each a phase.  All of it runs in one task; between *)
(* two phases only the application status changes hands (HealthTask and    *)
(* TelemetryTask set it DEGRADED), and a FreeRTOS hook may stop the whole  *)
(* firmware.  MotionService is the MotionFeed; the other two services are  *)
(* their own modules.                                                      *)
(*                                                                         *)
(* The actuator's s_now_ms is still that of the previous cycle while the   *)
(* control loop and the command run: its ages advance in the last phase,   *)
(* the ages of the frame in the first.                                     *)
(***************************************************************************)
EXTENDS ControlService, MotionFeed

CONSTANT HooksMayFire   (* may a stack overflow or a failed malloc happen?  *)

ASSUME LoopAssumption == HooksMayFire \in BOOLEAN

Phases == {"motion", "control", "recovery", "command", "actuator"}

VARIABLES
  phase,      (* where SensorTask is in its cycle                          *)
  elapsed,    (* time since the previous cycle                             *)
  appState,   (* s_app_state, from the end of App_Init on                  *)
  halted      (* a fatal hook disabled the interrupts and spins            *)

loopVars == <<actuatorVars, controlVars, feedVars, phase, elapsed, appState, halted>>

LoopInit ==
  /\ ActuatorInit /\ ControlInit /\ FeedInit
  /\ phase = "motion" /\ elapsed = 0 /\ appState = "RUNNING" /\ halted = FALSE

Frame == [present |-> hasFrame, calibrated |-> calibrated, age |-> frameAge]

Step(from, to) == ~halted /\ phase = from /\ phase' = to /\ UNCHANGED halted

-------------------------------------------------------------------------------

\* App_RunMotionPipeline runs the service, then makes the application follow.
MotionPhase ==
  /\ Step("motion", "control")
  /\ \E d \in CycleTimes :
       /\ elapsed' = d
       /\ RunMotion(d)
       /\ usedAge' = IF enabled THEN usedAge + d ELSE 0
  /\ appState' = IF motionState' = "DEGRADED" THEN "DEGRADED"
                 ELSE IF motionState' = "RUNNING" /\ appState = "DEGRADED" THEN "RUNNING"
                 ELSE appState
  /\ UNCHANGED <<actuatorVars, enabled, requestOwner, warmup, active, lastFault,
                 settings, zeroAxis>>

ControlPhase ==
  /\ Step("control", "recovery")
  /\ ControlUpdate(Frame, appState, motionState \in {"CALIBRATING", "RUNNING"})
  /\ UNCHANGED <<feedVars, elapsed, appState>>

\* A degraded sensor may be due for a recovery attempt, which may succeed.
RecoveryPhase ==
  /\ Step("recovery", "command")
  /\ \/ motionState = "DEGRADED" /\ StartCalibration
     \/ UNCHANGED feedVars
  /\ UNCHANGED <<actuatorVars, controlVars, elapsed, appState>>

ActuatorRequest(o) ==
  /\ ManualCommand(o) \/ \E ok \in BOOLEAN : Disarm(ok)
  /\ UNCHANGED controlVars

\* CONTROL_ENABLE and CONTROL_SET_ZERO hand the frame's own time stamp to the
\* service as the present time: the frame's age, as they see it, is 0.
ControlRequest(o) ==
  \/ \E a \in Axes :
       Enable(o, a, Frame, 0, appState = "RUNNING", motionState = "RUNNING")
  \/ SetZero(o, Frame, 0)
  \/ Disable(o)
  \/ \E a \in Axes : SetAxis(a)
  \/ \E g \in Gains : SetGains(g)

Request ==
  \/ \E o \in ProtocolOwners : ActuatorRequest(o) \/ ControlRequest(o)
  \/ EmergencyStopRequest

\* Faulty variant: the command queue is drained instead of served once.
CommandPhaseDraining ==
  /\ ~halted /\ phase = "command" /\ phase' \in {"command", "actuator"}
  /\ Request /\ UNCHANGED <<feedVars, elapsed, appState, halted>>

\* At most one queued command per cycle.
CommandPhase ==
  /\ Step("command", "actuator")
  /\ \/ Request /\ UNCHANGED feedVars
     \/ StartCalibration /\ UNCHANGED <<actuatorVars, controlVars>>
     \/ UNCHANGED <<actuatorVars, controlVars, feedVars>>
  /\ UNCHANGED <<elapsed, appState>>

\* Faulty variant: the age of the frame is not looked at.
MotionStaleByState == ~hasFrame \/ motionState = "DEGRADED"

MotionOnline == hasFrame /\ motionState # "DEGRADED"
MotionStale == ~MotionOnline \/ frameAge > MotionTimeout

ActuatorPhase ==
  /\ Step("actuator", "motion")
  /\ Update(elapsed, appState = "FAULT", MotionOnline, MotionStale)
  /\ elapsed' = 0
  /\ UNCHANGED <<controlVars, feedVars, appState>>

\* HealthTask and TelemetryTask report trouble of their own.
OtherTaskDegrades ==
  /\ ~halted /\ appState' = "DEGRADED"
  /\ UNCHANGED <<actuatorVars, controlVars, feedVars, phase, elapsed, halted>>

\* vApplicationStackOverflowHook, vApplicationMallocFailedHook.
FatalHook ==
  /\ HooksMayFire /\ ~halted
  /\ halted' = TRUE /\ appState' = "FAULT"
  /\ UNCHANGED <<actuatorVars, controlVars, feedVars, phase, elapsed>>

Cycle == MotionPhase \/ ControlPhase \/ RecoveryPhase \/ CommandPhase \/ ActuatorPhase

LoopNext == Cycle \/ OtherTaskDegrades \/ FatalHook

LoopSpec == LoopInit /\ [][LoopNext]_loopVars

\* osDelayUntil brings every cycle back; the other tasks promise nothing.
FairLoopSpec == LoopSpec /\ WF_loopVars(Cycle)

-------------------------------------------------------------------------------
(* Properties.                                                             *)

LoopTypeOK ==
  /\ ActuatorTypeOK /\ ControlTypeOK
  /\ motionState \in MotionStates
  /\ hasFrame \in BOOLEAN /\ calibrated \in BOOLEAN /\ attitudeValid \in BOOLEAN
  /\ frameAge \in 0..FrameAgeCap
  /\ phase \in Phases /\ elapsed \in CycleTimes \cup {0}
  /\ appState \in {"RUNNING", "DEGRADED", "FAULT"} /\ halted \in BOOLEAN

\* The servo never holds an attitude without the control loop supervising it,
\* and once the loop has had its pass, it is enabled only over a held servo.
HoldIsSupervised ==
  /\ mode = "ATTITUDE_HOLD" => enabled
  /\ phase \in {"recovery", "command"} /\ enabled => mode = "ATTITUDE_HOLD"

\* No cycle ends holding the attitude on missing, degraded or stale motion,
\* also when the hold was requested in that very cycle.
HoldIsFresh ==
  phase = "motion" /\ mode = "ATTITUDE_HOLD"
    => hasFrame /\ motionState # "DEGRADED" /\ frameAge <= MotionTimeout

\* Until the warm-up samples after an Enable or a new zero have been seen, the
\* servo is sent to the centre and nowhere else.
WarmupHoldsCentre == mode = "ATTITUDE_HOLD" /\ ~active => target = PulseCenter

\* The zero the error is measured from was captured on the axis in use.
ZeroMatchesAxis == enabled => zeroAxis = axis

\* A control pass never touches the output of a manual session: no remainder
\* of an earlier hold stops the owner who armed after it.
ManualLeftAlone ==
  [][phase = "control" /\ mode = "MANUAL" => UNCHANGED actuatorVars]_loopVars

\* A hold that ends because the sensor degraded says so, although the lost
\* sensor takes the application out of RUNNING in the same cycle.
SensorLossIsReported ==
  [][phase = "control" /\ phase' # phase /\ enabled /\ motionState = "DEGRADED"
       => ~enabled' /\ lastFault' = "SENSOR_OFFLINE"]_loopVars

\* An accepted Enable had fresh motion (docs/pid-attitude-control.md:24).
EnableNeedsFreshMotion == [][~enabled /\ enabled' => frameAge <= MotionTimeout]_loopVars

\* An accepted Enable captures an attitude that was estimated for the frame it
\* came with (docs/pid-attitude-control.md:18).
ZeroIsCurrentAttitude == [][~enabled /\ enabled' => attitudeValid]_loopVars

\* An application fault stops the output (docs/actuator-safety-model.md:7).
FaultStopsOutput == appState = "FAULT" ~> ~pwmRunning
===============================================================================

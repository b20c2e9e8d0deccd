---------------------------- MODULE ControlService ----------------------------
(***************************************************************************)
(* The attitude control loop of the firmware, ControlService, on top of    *)
(* the ActuatorService whose operations it calls.  A motion frame is       *)
(* reduced to what the service looks at: whether there is one, whether it  *)
(* is calibrated, and its age (now_ms - timestamp_ms).  The MotionService  *)
(* never hands out a frame with valid = FALSE or with the STALE flag set,  *)
(* so those two tests of the code never decide anything and are left out.  *)
(*                                                                         *)
(* s_status.mode and s_status.enabled always change together and are one   *)
(* variable.  The PID arithmetic is a choice of a pulse in the window the  *)
(* code clamps to.  usedAge is read only while enabled, and Enable writes  *)
(* it first; it is kept at 0 in between.                                   *)
(***************************************************************************)
EXTENDS ActuatorService

CONSTANTS
  MotionTimeout,    (* CONTROL_MOTION_TIMEOUT_MS                           *)
  MinDt, MaxDt,     (* the frame spacing a PID update accepts              *)
  WarmupSamples,    (* CONTROL_WARMUP_SAMPLE_COUNT                         *)
  Axes,             (* the axes of ControlAxis_t                           *)
  Gains             (* direction, PID and deadband settings, as one value  *)

ASSUME ControlAssumption ==
  /\ MotionTimeout \in Nat /\ MinDt \in Nat /\ MaxDt \in Nat
  /\ MinDt <= MaxDt /\ MaxDt <= MotionTimeout
  /\ WarmupSamples \in Nat \ {0}
  /\ Axes # {} /\ Gains # {} /\ "NONE" \notin Axes

Faults == {"NONE", "STALE_MOTION", "SENSOR_OFFLINE", "NOT_CALIBRATED",
           "APP_FAULT", "ACTUATOR", "NONFINITE", "INVALID_DT"}

VARIABLES
  enabled,          (* s_status.enabled                                    *)
  requestOwner,     (* s_request_owner                                     *)
  usedAge,          (* now_ms - s_last_motion_timestamp_ms                 *)
  warmup,           (* s_warmup_samples                                    *)
  active,           (* s_status.active                                     *)
  lastFault,        (* s_status.last_fault                                 *)
  axis, gains,      (* s_config                                            *)
  zeroAxis          (* the axis s_status.zero_angle_cdeg was captured on   *)

settings == <<axis, gains>>
controlVars == <<enabled, requestOwner, usedAge, warmup, active, lastFault,
                 settings, zeroAxis>>

ControlInit ==
  /\ enabled = FALSE /\ requestOwner = "NONE" /\ usedAge = 0
  /\ warmup = 0 /\ active = FALSE /\ lastFault = "NONE"
  /\ axis \in Axes /\ gains \in Gains /\ zeroAxis = "NONE"

-------------------------------------------------------------------------------
(* Leaving the loop.                                                       *)

\* The hold is over; who asked for it and how far it had warmed up is gone.
Release ==
  /\ enabled' = FALSE /\ requestOwner' = "NONE" /\ usedAge' = 0
  /\ warmup' = 0 /\ active' = FALSE

\* Faulty variant: the output is left as it is.
SafeStateLeavingOutput(fault) ==
  Release /\ lastFault' = fault /\ UNCHANGED <<actuatorVars, settings, zeroAxis>>

\* EnterSafeState does not look at whether the emergency stop took effect.
EnterSafeState(fault) ==
  /\ \E ok \in BOOLEAN : EmergencyStop(ok)
  /\ Release
  /\ lastFault' = fault
  /\ UNCHANGED <<settings, zeroAxis>>

\* An emergency stop requested over the protocol releases the loop only when
\* the output did stop.
EmergencyStopRequest ==
  \E ok \in BOOLEAN :
    /\ EmergencyStop(ok)
    /\ IF ok THEN Release ELSE UNCHANGED <<enabled, requestOwner, usedAge, warmup, active>>
    /\ UNCHANGED <<lastFault, settings, zeroAxis>>

\* Disable stops the output like Disarm does; a failed stop keeps the loop.
Disable(o) ==
  /\ enabled /\ o = requestOwner
  /\ \E ok \in BOOLEAN :
       /\ Disarm(ok)
       /\ IF ok THEN Release /\ lastFault' = "NONE"
                ELSE UNCHANGED <<enabled, requestOwner, usedAge, warmup, active, lastFault>>
  /\ UNCHANGED <<settings, zeroAxis>>

-------------------------------------------------------------------------------
(* Entering and steering the loop.                                         *)

FrameUsable(frame, age) == frame.present /\ frame.calibrated /\ age <= MotionTimeout

\* age is what the caller's now_ms makes of the frame's timestamp.
Enable(o, a, frame, age, running, online) ==
  /\ ~enabled /\ running /\ online /\ FrameUsable(frame, age) /\ armed
  /\ BeginAttitudeControl(o)
  /\ enabled' = TRUE /\ requestOwner' = o /\ usedAge' = frame.age
  /\ warmup' = 0 /\ active' = FALSE /\ lastFault' = "NONE"
  /\ axis' = a /\ zeroAxis' = a
  /\ UNCHANGED gains

\* Faulty variant: the loop keeps steering from the old zero's last pulse.
SetZeroWithoutCentring(o, frame, age) ==
  /\ ~(enabled /\ o # requestOwner)
  /\ FrameUsable(frame, age)
  /\ zeroAxis' = axis /\ warmup' = 0 /\ active' = FALSE
  /\ usedAge' = IF enabled THEN frame.age ELSE 0
  /\ UNCHANGED <<actuatorVars, enabled, requestOwner, lastFault, settings>>

\* A new zero restarts the warm-up from the centre pulse.
SetZero(o, frame, age) ==
  /\ ~(enabled /\ o # requestOwner)
  /\ FrameUsable(frame, age)
  /\ IF enabled /\ ~ControlPulseAccepted
     THEN EnterSafeState("ACTUATOR")
     ELSE /\ zeroAxis' = axis /\ warmup' = 0 /\ active' = FALSE
          /\ usedAge' = IF enabled THEN frame.age ELSE 0
          /\ IF enabled THEN SetControlPulse(PulseCenter) ELSE UNCHANGED actuatorVars
          /\ UNCHANGED <<enabled, requestOwner, lastFault, settings>>

\* Faulty variant: the axis may be changed under a running hold.
SetAxisAnyTime(a) ==
  /\ axis' = a
  /\ UNCHANGED <<actuatorVars, enabled, requestOwner, usedAge, warmup, active,
                 lastFault, gains, zeroAxis>>

SetAxis(a) ==
  /\ ~enabled
  /\ axis' = a
  /\ UNCHANGED <<actuatorVars, enabled, requestOwner, usedAge, warmup, active,
                 lastFault, gains, zeroAxis>>

\* SetDirection, SetPidConfig and SetDeadband: refused while enabled.
SetGains(g) ==
  /\ ~enabled
  /\ gains' = g
  /\ UNCHANGED <<actuatorVars, enabled, requestOwner, usedAge, warmup, active,
                 lastFault, axis, zeroAxis>>

-------------------------------------------------------------------------------
(* The cyclic update.                                                      *)

\* Faulty variant: an application that is not running is blamed before the
\* sensor whose loss made it so.
UpdateFaultAppFirst(frame, app, online) ==
  IF app # "RUNNING" THEN "APP_FAULT"
  ELSE IF ~online \/ ~frame.present THEN "SENSOR_OFFLINE"
  ELSE IF ~frame.calibrated THEN "NOT_CALIBRATED"
  ELSE IF frame.age > MotionTimeout THEN "STALE_MOTION"
  ELSE IF ~(armed /\ owner = "CONTROL_LOOP") THEN "ACTUATOR"
  ELSE "NONE"

\* Why this pass must leave the loop; the first reason in the code's order.
UpdateFault(frame, app, online) ==
  IF app = "FAULT" THEN "APP_FAULT"
  ELSE IF ~online \/ ~frame.present THEN "SENSOR_OFFLINE"
  ELSE IF app # "RUNNING" THEN "APP_FAULT"
  ELSE IF ~frame.calibrated THEN "NOT_CALIBRATED"
  ELSE IF frame.age > MotionTimeout THEN "STALE_MOTION"
  ELSE IF ~(armed /\ owner = "CONTROL_LOOP") THEN "ACTUATOR"
  ELSE "NONE"

DtValid(frame) == usedAge - frame.age \in MinDt..MaxDt

\* The PID turns the frame into a pulse, or refuses a non-finite value.
Steer(frame) ==
  \/ \E p \in Window :
       IF ControlPulseAccepted
       THEN /\ SetControlPulse(p)
            /\ usedAge' = frame.age /\ lastFault' = "NONE"
            /\ UNCHANGED <<enabled, requestOwner, warmup, active, settings, zeroAxis>>
       ELSE EnterSafeState("ACTUATOR")
  \/ EnterSafeState("NONFINITE")

\* Faulty variant: the warm-up goes on counting.
UseFrameWarmingOn(frame) ==
  /\ DtValid(frame)
  /\ usedAge' = frame.age /\ warmup' = warmup + 1
  /\ active' = (active \/ warmup' = WarmupSamples)
  /\ UNCHANGED <<actuatorVars, enabled, requestOwner, lastFault, settings, zeroAxis>>

\* A frame not seen before: too close to or too far from the one before, one
\* of the warm-up samples, or one to steer by.
UseFrame(frame) ==
  \/ /\ ~DtValid(frame)
     /\ usedAge' = frame.age /\ lastFault' = "INVALID_DT"
     /\ UNCHANGED <<actuatorVars, enabled, requestOwner, warmup, active, settings, zeroAxis>>
  \/ /\ DtValid(frame) /\ warmup < WarmupSamples
     /\ usedAge' = frame.age
     /\ warmup' = warmup + 1
     /\ active' = (active \/ warmup' = WarmupSamples)
     /\ UNCHANGED <<actuatorVars, enabled, requestOwner, lastFault, settings, zeroAxis>>
  \/ /\ DtValid(frame) /\ warmup = WarmupSamples
     /\ Steer(frame)

ControlUpdate(frame, app, online) ==
  LET fault == UpdateFault(frame, app, online)
  IN  \/ /\ ~enabled \/ (fault = "NONE" /\ frame.age = usedAge)
         /\ UNCHANGED <<actuatorVars, controlVars>>
      \/ /\ enabled /\ fault # "NONE"
         /\ EnterSafeState(fault)
      \/ /\ enabled /\ fault = "NONE" /\ frame.age # usedAge
         /\ UseFrame(frame)

\* The loop's own state keeps its types.
ControlTypeOK ==
  /\ enabled \in BOOLEAN /\ requestOwner \in Owners \ {"CONTROL_LOOP"}
  /\ usedAge \in Nat /\ warmup \in 0..WarmupSamples /\ active \in BOOLEAN
  /\ lastFault \in Faults /\ axis \in Axes /\ gains \in Gains
  /\ zeroAxis \in Axes \cup {"NONE"}
===============================================================================
